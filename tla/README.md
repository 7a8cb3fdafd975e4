# A verification of wasm-platform

wasm-platform runs WebAssembly functions on Kubernetes.  A Go operator reconciles
`Application` objects, provisions their databases, and publishes configuration to
Rust execution hosts and routes to Rust gateways.  A gateway turns an HTTP request
into a NATS request; an execution host takes the message, runs the guest, which may
use PostgreSQL, Redis and NATS, and publishes the reply.  Hosts prepare modules from
an OCI registry through a cache service.  This directory holds TLA+ models of the
parts in which several tasks, goroutines and processes meet, TLC runs over small
instances, and TLAPS proofs of the properties that matter most for every value of
the constants.

Line references such as `invocation_supervisor.rs:209` are to the sources under
`src/`; `PROJECT.json` maps every modelling definition to its lines.

## The system's parts

| Part | Code | State | Concurrency | Module |
|---|---|---|---|---|
| Dispatch in the execution host | `execution-host/src/{invocation_supervisor,invocation,dispatch_metrics,nats,main}.rs` | channel, slots, records, invocation flags, gauges | intake task, dispatch loop, blocking threads, reply tasks, sync changes, SIGTERM | `InvocationSupervisor`, `DispatchContract`, `DispatchRefinement` |
| Module preparation | `modules.rs`, `preparation_metrics.rs` | record and active permits, retained components, gauges | configuration task, one task and one compiler thread per load, deadline | `ModulePreparation` |
| Artifact retrieval and cache service | `module_cache.rs`, `oci.rs`, `artifacts.rs`, `module-cache/src/{cache,main}.rs`, `identity.rs` | store, recency queue, byte count, three semaphores | preparations, handlers, lost connections, restarts | `ArtifactCache` |
| Host functions and backends | `host_sql.rs`, `redis_client.rs`, `host_kv.rs`, `host_messaging.rs`, `sql_pool.rs`, `invocation.rs` | transaction, mutation, pools | guest, cleanup task, servers, cancellation, rotation | `HostEffects` |
| NATS client and subscriptions | `nats_client.rs`, `nats.rs`, `main.rs` | client, topics, subscriptions | reconnects, topic changes, shutdown | `NatsSubscriptions` |
| Session between operator and recipient | `wp-operator/internal/{configstore,grpc}`, `execution-host/src/config_sync.rs` | registry of channels, stream goroutines, recipient loop | broadcasts, several streams under one identifier, faults, timers | `UpdateStream` |
| Configuration publication | reconciler, webhook, `configstore`, `execution-host/src/config.rs` | objects, store, host table, Redis connection | editors, one reconcile worker, sessions | `ConfigPublication` |
| Route publication | `routestore`, `gateway_server.go`, gateway `route_sync.rs`, `route_table.rs` | routes by path | as above | `RoutePublication` on `UpdateStream` |
| Publication authority | `internal/authority`, the reconciler's calls to it | startup inventory, observed generations | initializer, reconciler, lagging cache, leader loss | `Authority` |
| Resource lifecycle | `lifecycle.go`, `resourceinventory_controller.go`, `provisioning/application.go` | inventory, credential, Secret | two controllers, stale cache, stripped finalizers, crashes between API calls | `ResourceLifecycle` |
| Gateway requests | gateway `supervisor.rs`, `nats.rs` | permits, pending replies, reply session | requests, replies, sync loss, NATS reconnects, hang-ups | `GatewayRequests` |

How they meet: an update that `UpdateStream` delivers is what `ConfigPublication`
applies to the host's tables; the same call hands module changes to
`ModulePreparation` (`Update`, `Delete`), pool changes to `HostEffects` (`Rotate`) and
topics and the Redis URL to `NatsSubscriptions`.  `ModulePreparation.Fetch` is the
exchange `ArtifactCache` takes apart.  `NatsSubscriptions.Forward` fills the channel
`InvocationSupervisor` reads, and one execution there is the guest of `HostEffects`.
Each hand-over is taken at the interface: a neighbour may do anything its own module
allows, and more.

## Modules

### InvocationSupervisor, DispatchContract, DispatchRefinement

One variable `stage` says where each message is: in the channel, held by the loop,
executing (`guest`, `cleanup`, `exited`, `released`, `executed`), being replied to, or
gone.  `pc` is the position of `InvocationSupervisor::run`.  A biased `select!` is two
states: `select` (or `permit`) polls shutdown and the sync channel, and only when both
are pending the loop moves to `take` (or `acquire`); a signal may arrive between the
two polls, as in the code.  The sync watch channel is a value, a version and the
version the loop has seen.  `cancel_untrusted_work` empties the channel one message at
a time, because the intake task can refill it meanwhile.  `work` and `alarms` are the
gauges and error counters of `dispatch_metrics.rs`, with their guards against
underflow.  Payloads, topics and guest code are abstracted: a guest may return, fail
or panic at any time, a registry lookup may miss, and a deadline may pass at any
moment.

`DispatchContract` is what a sender may rely on, without tasks, channel or semaphore:
a message runs at most once and is answered at most once, at most `MaxRecords` messages
run, are answered or await collection, work that ran and kept its authority gets a
reply attempt, work that lost it gets none, and a withdrawal is one step that spares no
running work.  `DispatchRefinement` gives the mapping: `FateOf` groups stages into
fates, `Withdrawn` is the running work that is revoked.

### ModulePreparation

Each submitted load has a position (`acquire`, `fetch`, `spawned`, `compiling`,
`compiled`, `put`, then the drops).  The drops are separate because the code releases
the gauge, the active permit and the record permit in that order, on the compiler
thread or in the task, whichever ends last.  `detached` says that `load_admitted`
returned at the deadline while the compiler went on.  `state` and `alarms` are
`preparation_metrics.rs`.  A function's native size is chosen when compilation ends.
`desired` and `unfenced` are history: the load last asked for, and an update that met an
older load of the same function still able to register.

### ArtifactCache

A preparation (`pc`) resolves a manifest, asks the cache, falls back to the registry,
compiles and writes back what it pulled.  `server` holds at most one lookup and one
upload per preparation; a client that gives up leaves its request inside the server
until the connection is noticed (`Dropped`).  Bytes are the artifact they really are or
`Corrupt`; `Verified` is the digest check.  `Store` is the whole of `Store::insert`
with its eviction loop; `impossible` records the two replies that only a broken store
can give.  A restart loses the store and every request.

### HostEffects

One invocation makes one call with an effect.  `now` is the host's clock, the server's
is `now + skew`, chosen among `Skews` when it answers TIME.  `job` is the position of
`sql_job`: every statement is a submission, a backend that may execute it at any later time
(`wire`, `reply`), and the return of `Invocation::run`.  Between the last check and the reply to COMMIT the outcome is open,
and `terminate_backend` is what closes it.  For Redis, the script carries a deadline on
the server's clock computed from the reply to TIME.  `pool`, `ensure` and `config` are
`SqlPoolMap`: the check and the insertion of `ensure` are two steps, and an incremental
update waits for the evicted pool's connections.  `early`, `lost` and `stale` are history.

### NatsSubscriptions

A client is numbered as it is made.  `clientNew` and `topicsNew` are the unseen marks of
two watch channels: `changed()` in the middle of the subscribe loop clears the mark, so
what reacts to it must not be left to the next reconciliation.  The host's credentials
are read once (`main.rs:151`), so the manager's branches on changed connection info are
never taken and are left out.  Broker, rotation and the dispatch loop are external.

### UpdateStream, ConfigPublication

`UpdateStream` is the session: a snapshot call, a stream, an initial acknowledgement
that makes the operator register a channel under the recipient's identifier, updates
sent one at a time and acknowledged.  A recipient reconnects under the same identifier
while older goroutines of its own may still be alive, so a stream is a pair of
recipient and slot.  `ConfigPublication` extends it with what travels.  A configuration
is the set of topics it claims, the key of the host's dispatch table; a snapshot read
when two stored configurations claim one topic may put either first, since the
operator ranges over a Go map.

Two reads of the code are joined in the model: `RequestFullConfig` reads the
configurations and the Redis connection under two locks, and the reconciler reads the
object before it stores it.  The first makes no difference because a later Redis
change is broadcast on its own; the second none because one worker runs at a time and
a newer object is queued again.  The webhook is taken to see current objects.

`missed` and `overlap` are history variables: they record that a broadcast fell between
a session's snapshot and its registration, and that two stored configurations claimed a
topic during it.  No action reads them.

### RoutePublication

The same session with a different payload: `Store.Set` answers whether an
application's routes changed, the batch that follows names the paths it has *now* as
upserts, and a deleted application's paths go out as deletions by path.  Paths, unlike
topics, are not kept unique by the webhook, so two applications may hold one; the last
inserted wins in a gateway.  `overlap` records that this happened during a session, or
that a deletion not yet broadcast names a path somebody holds again; what such a
session ends up with depends on the order of updates, and only the next snapshot
settles it.

### Authority

An Application is a name and a version `<<uid, generation>>`.  The API server's object,
the informer's cache and the listing in the Initializer's hands are three values that
drift apart; the reconciler completes the version it read from the cache.  `observed`,
`pending` and `ready` are the fields of the Go struct, and `isNil` says that `observed`
was set to nil, since writing to it then panics.  A deletion of an object stands for the
removal of its finalizer.  The reconcile that only adds the finalizer completes nothing
and is followed by another: it is `Retry`.

### ResourceLifecycle

Every step makes at most one change through the API, together with the reads that decide
it where nothing can change between them (the reads of `EnsureCredential` and
`ensureInventory`, and discovery with the update that follows it, which conflicts if what it
found has changed).  The Application controller records an intent in the inventory of the
Application's UID, creates the credential, records its UID and serves; the inventory
controller binds, deletes and drops what is marked for release.  An update carries the object
it was read from and conflicts if that changed.  The Application comes from a cache that may
lag; a crash loses both positions and the store.  The finalizer may be stripped at any time,
with the operator up or down; then the controller, whose reconcile finds nothing, withdraws
nothing, while the inventory controller releases.  `vanished` is history: the Applications
that went in this way while they were served or taken for alive.  `trimmed` is history too:
those whose `spec.sql` was removed.  Applications of one name follow each other with new UIDs
and one database role.  One SQL user stands for all of them; entries of different users do
not interact.  Whether a deletion waits for pending releases is chosen in `Settle`, because
the cleanup policy is a field the user may edit at any time.  The import of
`status.resourceInventory` into a new inventory is left out: it could only bring back entries
for a finished inventory from a stale deleting copy, which are released again.

### GatewayRequests

`at` is the position of each request: `entered` (route found), `intake`/`reading` (body),
`sending` (session cloned), `publishing`, `awaiting`/`receiving` (reply),
`streaming`/`writing` (response), `dropping` (the lease).  The pairs are the two polls of
a biased `select!`: authority first, work second, and route sync may change between
them.  `pending` is the table of `PendingReplies` of all sessions, `box` the oneshot
channel, `sent` the publications that hosts may answer at any later time and any number
of times while the session lasts.  Headers, payloads, sizes and the counters are left
out; every rejection they cause is the one step `Rejected` or `NoBroker`.  The path of
`run_reply_sessions` that returns when the client channel closes is not modelled: the
process never drops that sender while it serves.

## Runs

| Run | Checks | Bounds |
|---|---|---|
| `supervisor_safety` | gauges equal lifetimes and no alarm but the backlog one; slots conserved; nothing outlives its authority; work only in sync; no deadlock | 3 messages, 2 slots, channel of 1, 2 sync changes, 1 deadline (`OneDeadline`) |
| `supervisor_live` | SIGTERM ends in a finished, empty drain; a sync change reaches running guests; the backlog moves; the host implements `DispatchContract` | 2 messages, 1 slot, channel of 1, 2 sync changes |
| `config_safety` | a registered stream carries exactly the difference between host and store; no closed channel stays registered; no deadlock | 1 host, 2 goroutines, buffer of 1, 2 applications, 1 topic, 3 edits and 1 Redis rotation, 3 of them together (`ThreeChanges`) |
| `config_live` | a dropped stream ends; hosts finally hold the store | as above, 1 edit, 1 Redis rotation; a topic handed over, which takes 3 edits, is not reached |
| `gateway_requests` | a reply reaches only its own request; an admitted request finds room for its record; nobody waits on a record that is gone; nothing continues across a change of authority; permits come back | 2 requests, 1 permit, 2 reply sessions, 3 authority changes |
| `routes` | every stored route reaches a registered gateway; gateways finally hold the stored routes; no deadlock | 1 gateway, 1 goroutine, buffer of 1, 2 applications, 1 path, 4 edits |
| `authority_fence` | no write to the nil map; the fence opens only over a completed inventory; it stays shut after revocation; it opens when reconciliations succeed | 2 names, 2 objects per name, 2 edits |
| `preparation` | permits and gauges follow live work; one compiler at a time; what is served was asked for, in time and within budget; permits come back | 2 functions, 3 loads, 2 records, 1 component, sizes 1 and 2 of 2 |
| `cache` | entries, recency and bytes in step within the limits; permits conserved; only verified bytes are stored or compiled; no request stays in the server | 2 preparations, 3 artifacts, 2 bytes, 2 entries, 1 permit of each kind |
| `effects` | no commit and no mutation after the invocation is over, except an unconfirmed one; success means committed or applied; the served pool is current; eviction ends | deadline 2, time 3, server clock 3 or 5 ahead, Lua limit 6, 3 credential versions |
| `subscriptions` | subscriptions equal wanted topics on the current client; they, Redis and readiness settle | 2 topics, 2 clients, 2 changes, 1 rotation |
| `lifecycle` | every credential is an obligation; one credential per role; serving withdrawn before release; everything released; a lasting Application served | 2 lifetimes, any two of an edit, a stripped finalizer and a crash, 2 credentials per lifetime |

Why the bounds are enough for what they are meant to show.  Three messages on two slots
and a channel of one are two running and one held or queued, which is what a race between
intake, loop and executions involves; two messages on one slot are one waiting for the
other, which is what starvation is about (there both deadlines may pass, in the three-message
run one); two sync changes are a gain and a loss, or two
losses.  The proofs cover any number.  Two goroutines are a stale stream beside a
current one; a buffer of one is full after one broadcast; three edits are a claim, its
release and a claim by another application.  Two requests on one permit are a request
and its successor, which is what late replies and capacity are about; two sessions are a
retired one and its successor; three authority changes are a gain, a loss and a gain.  In
`routes` the fourth edit lets a path be deleted, claimed and deleted again.  Two edits of
an Application are a deletion and a re-creation, or two generations.  Three loads over two
records are one compiling, one queued and one waiting for admission.  Three artifacts of
which the cache holds two, of different sizes, force evictions of one and of two entries.
A deadline of 2 within time 3 lets every delay end before, at and after it; with the server
3 ahead a mutation is sent, and applied or rejected, and 5 ahead its deadline falls on either
side of the Lua limit of 6; three versions are a rotation during a rotation.  Two lifetimes
put a crash or a strip between any two API calls of the old or the new Application, and one
of the three events before, during or after another; an edit adds or removes SQL; a second
credential is one created again by a stale reading.

Deadlock is not checked where the modelled system really stops: when its finite set of
requests is served (`gateway_requests`), when leadership is lost and nothing is left to
observe (`authority_fence`), when time and calls are used up (`effects`), when all
loads have ended (`preparation`), after shutdown (`subscriptions`), and when the last
Application is gone or served (`lifecycle`).

### Fairness

`supervisor_live`: the runtime keeps polling the loop and the intake task (weak fairness).
Where a property needs executions and replies to end it says so (`TasksEnd`): guests are
ended by the epoch-checked deadline, cleanup and replies by their timeouts.  Nothing is
assumed of sync changes, deadlines or SIGTERM.

`config_live`: the host's task and the operator's goroutines are scheduled.  Only
`EventuallyCurrent` needs more (`SessionsAreRenewed`): the work queue serves each queued
application, the five-minute timer around the whole session fires, and a snapshot call
tried again and again gets through (strong fairness, the code retries forever).  `routes`: the same,
stated in the specification.

`gateway_requests`: each connection's task is polled and its timer fires.  Only
`PermitsReturn` assumes more (`ClientsFinish`): clients read their response or hang up.
Nothing is assumed of NATS, hosts or route sync.

`authority_fence`: the cache applies its events, the ticker fires, a queued name is
taken, and a reconciliation retried again and again completes (strong fairness: the
work queue retries without limit).

`preparation`: deadlines fire, tasks are polled and a started compiler returns; fetches
and cache writes may hang for ever.  `cache`: the client's timeout fires and the server
notices a lost connection; nothing is assumed of registry or token review.  `effects`:
time passes and the host's tasks run; PostgreSQL and Redis may hang for ever.
`subscriptions`: tasks run, back-off ends, and a connection tried again and again
succeeds while the credentials are accepted (strong fairness).  `lifecycle`: an error or
requeue starts another reconcile (`resourceinventory_controller.go:197` every five
seconds, watches otherwise), the cache catches up, a crashed operator restarts and the
database operator finishes what it was asked.

### Where code and documentation disagree

These are places where the code does less than a sentence, or a reader, expects.  Where a
passing property would fail because of one, it exempts that case and no other; the last
two concern no property:
- `execution-host/src/config_sync.rs:134` says the initial acknowledgement lets the server
  register the host "before any updates are broadcast".  The operator serves the snapshot
  first and registers only when that acknowledgement arrives (`server.go:80`), so an update
  broadcast in between reaches nobody, and a host in sync lacks it until its session is
  renewed.  `StreamCarriesDifference` exempts such a session (`missed`);
  `EventuallyCurrent` shows that the renewal makes it good;
- `execution-host/README.md:11` says loss of sync "cancels active invocations"; once the
  loop has stopped (`invocation_supervisor.rs:449`) nothing watches sync any more, and
  guests are bounded by their deadlines only.  `LossReachesGuests` exempts a stopped loop;
- `config.rs:105` says no two functions share a topic; the store is updated one
  application at a time, and a topic handed over can be claimed twice for a while.  A host
  that loads its snapshot then may serve nobody on the topic until the next one.
  `StreamCarriesDifference` exempts sessions with `overlap`;
- `gateway/README.md:20` says route updates contain deletes; an application that gives up
  a path broadcasts only the routes it keeps.  `StoredRoutesServed` speaks of stored
  routes, `EventuallyRouted` of the next snapshot;
- `wp-operator/README.md:246` says the fence opens after the startup inventory was
  processed; an Application deleted and created again can be cleared by a NotFound from
  the lagging cache.  `AnswersCoverInventory` speaks of names created once;
- `execution-host/README.md:25` says NATS credentials are re-read on every connection
  attempt; `main.rs:151` reads them once.  `EventuallySubscribed` exempts a rotation;
- two live loads of one function are not ordered: the older may register last
  (`modules.rs:279`).  `ServesWhatIsWanted` exempts this through `unfenced`;
- a pool whose connect was in flight when credentials rotated may be published after
  the rotation, and a full snapshot does not evict (`sql_pool.rs:50`).  `PoolIsCurrent`
  exempts this through `stale`;
- `resourceinventory_controller.go:129` says that the Application controller "must withdraw
  serving and finish any provisioning before handing over its obligations".  An Application
  whose finalizer is stripped while the operator is up is not found any more
  (`application_controller.go:94`): nothing withdraws it, and it is served, without its
  credential, until the operator restarts or the name is used again.  A reconcile that was
  between intent and creation may still create the credential after its entry was dropped;
  until Kubernetes collects it, it can exist beside that of a successor
  (`wp-operator/README.md:227` says a successor waits).  `CredentialAccounted`,
  `OneCredentialPerRole` and `WithdrawnBeforeRelease` exempt this through `vanished`;
  `EverythingReleased` does not;
- the same sentence, when `spec.sql` is removed: the credential is released at once, and the
  old configuration is served until the release is over
  (`application_controller.go:172`, `wp-operator/README.md:187`).
  `WithdrawnBeforeRelease` exempts it through `trimmed`, for the single obligation only;
- the host's README bounds the waiting backlog at 257 messages; while the loop empties
  the channel after a sync change, the intake task refills it and the backlog is one
  larger for a moment.  `AccountingBalanced` leaves out the queue-capacity counter;
- `docs/architecture.md:175` says of topics and then of HTTP paths that uniqueness is
  "enforced the same way"; the webhook checks topics only;
- the gateway's README describes its cancelled counter as counting requests cancelled
  before a response; a response cut short by a loss of authority counts too.

## Proofs

Eight modules hold theorems or the lemmas they rest on.  The constants are arbitrary,
with the assumptions named; each inductive invariant was model-checked first.  The
edits, rotations, sessions and crashes that bound a run are arbitrary numbers here.  Where
one module proves things about several components, the definitions of all but one carry
its name (`RequestInit`, `CacheSpec`, `SubscriptionTypeOK`, ...).

`InvocationSupervisorProofs` proves, for any finite set of messages and any positive
limits (`MessagesFinite`, `LimitsPositive`), type correctness, `SlotsConserved`,
`PermitWithoutWaiting`, `OutlivesNoAuthority`, `WorkOnlyInSync` and `AccountingBalanced`.
None of these is inductive alone.  `IInv` adds
- `HeldInv`: at most one message is held, and only while the loop stands where it can be;
- `QueueInv`: the channel holds exactly the messages whose stage is `queued`, each once;
- `JobsBound`: records never exceed the limit, and stay below it while the loop holds a
  message.  Slot holders are records or the held message, so with `SlotsConserved` a
  permit is free: this is the argument for `PermitWithoutWaiting`;
- `HeldInSync`: past the check after `recv()`, a held message is held in sync unless a
  change is unseen.  Without it `Admit` could break `WorkOnlyInSync`.

The proof goes one conjunct at a time (`TypeStep`, `ChannelStep`, `SlotStep`, `JobsStep`,
`AuthorityStep`, `SyncStep`), each with a case per action; actions that leave stages and
the watch channel alone are taken together (`Routine`).

`AccountingBalanced` rests on `IInv` and `GaugeInv`: each of the five gauges is the size of a
set of messages (`Counted`), and the counters other than the backlog one are untouched.  A
transition that would overtake its gauge raises a counter, so what is needed at every one of
them is that the gauge is positive when it is decremented (the message is in the set) and
below its capacity when it is incremented (`Roomy`: `JobsBound` and `SlotsConserved` again).
`OneMove` does this for a message that changes phase, `UncountedMove` for one that does not.

Its last part proves `Refinement`: the supervisor implements
`DispatchContract` (`ImplementsContract`).  It needs `IInv`, for the record limit behind
`Room`, and `RevokedInv`, that only started work is marked revoked.  Each action is shown
to be invisible (`Invisible`), to move one message's fate (`MovesOne`), or to be one of the
contract's two collective steps: `Discard` for waiting messages given up together and
`Withdraw` for a loss of authority.

`RequestPathProofs` has three parts.  Of `HostEffects` it proves `KvBeforeDeadline`,
`SqlCommitsOnlyInTime`, `PoolIsCurrent` and the action property `NoCommitBehindTheHost` for any
deadline, skew, Lua limit and number of rotations (`EffectBounds`).  The inductive invariant
adds `CallInv` (which backend a call in progress is using), `KvInv` (a deadline
sent to the server is never later than the invocation's, whatever the skew and the age of
the TIME reply), `SqlInv` (COMMIT is on the wire only past the last check, so a job whose
invocation ended earlier has none outstanding), `WireInv` (a COMMIT the job leaves with the
backend is one whose connection broke or whose end it could not confirm: until then it knows
the backend's pid and terminates it) and `PoolInv` (unless `stale`, every connect in flight is
for the version now wanted).

Of `NatsSubscriptions` it proves `SubscriptionsMatch` for any topics and number of clients and
changes (`SubscriptionBounds`).  `SubscriptionInv` extends it to the middle of the subscribe
loop, where the topics still to be tried have no subscription, and says that a subscription
of an older client exists only while the change of client is unseen.

Of `GatewayRequests` it proves `RepliesReachTheirRequest`, `NoStrandedWaiter`,
`AdmittedCanReserve`, `NothingContinuesAfterLoss` and the conservation of permits
(`PermitsConserved`) for any finite set of requests and any number of permits, sessions and
changes (`RequestsFinite`, `BoundsNatural`).  A late or repeated reply is matched by
session and identifier alone, so the invariant relates four places:
- `TicketInv`: a waiting request holds an identifier its session has given out, to nobody
  else;
- `RecordInv`: the records are exactly the tickets of those who wait on an empty channel,
  all of the live session (this is why nobody is stranded and why a retired session leaves
  nothing behind);
- `SentInv`: whoever waits under a published identifier is its publisher;
- `PermitInv`: permits are held exactly by admitted requests.  A record belongs to an
  admitted request, so there are fewer records than permits when one is reserved.

`ModuleLoadingProofs` proves, of `ModulePreparation`, `CapacityHeld` and
`ServesWhatIsWanted` for any nonempty finite set of functions and any positive limits and
sizes (`PreparationLimits`).
- `LoadInv` says what the accounting, the deadline and the position of one load know of each
  other (`LoadOK`); this is why no stage is impossible when the compiler thread and the
  task that gave it up finish in either order;
- `LoadPermitInv` counts both semaphores.  One active permit is why one compiler runs, and why
  the gauges stay within their capacity;
- `RegistryInv`: a registered component is of a load that was not abandoned and has passed its
  compilation, and the byte count is the sum of the sizes retained;
- `HistoryInv`: while a function is not `unfenced`, no load but the one last asked for is
  retained or can still register.

Of `ArtifactCache` it proves `StoreInStep` and `OnlyVerifiedCompiles` for any artifacts, sizes,
limits and preparations (`CacheLimits`).  `StoreInv` is the store: the recency queue lists the
entries, each once, each entry is the artifact its digest names, and the bytes are their sum.
Eviction pops a prefix of the queue until the new entry fits (`Evictions`); that such a prefix
exists, and that the bytes left are the sum over what is left, is what keeps it.  `PermitInv`
counts the requests at each place of the server.  `DigestInv` follows the preparations: past
its digest check a preparation holds the artifact that was asked for.

Both need facts about sums, with which the module begins.  The library defines a sum over a
set by recursion, and induction with an operator parameter is not available; but a
collection of subsets of a finite set has a minimal member (`LeastSubset`), and a minimal
counterexample to the equation at hand is contradicted by the recursion's own.  A sum is
shown to be the number of blocks of a bar chart, and from there the library's facts about
cardinality do the rest: adding, removing and splitting.

`AuthorityProofs` proves `AnswersCoverInventory` and `LossIsFinal` for any names and any
number of objects and edits (`AuthorityBounds`).  `FenceInv` is the heart: a listed version
stays pending until it is completed or its object is gone.  `GoneInv` is what makes that
inductive: under a name used once, the reconciler reads "not found" only when the object is
really gone, because a name is queued only by an event that the cache has applied.
`NilInv` says that `observed` is set to nil only once the fence is open, so that no write
panics; `ContextInv` that the context does not come back to life.

`ResourceLifecycleProofs` proves `CredentialAccounted`, `OneCredentialPerRole` and
`WithdrawnBeforeRelease` for any number of lifetimes, credentials, edits, stripped finalizers
and crashes (`LifecycleBounds`; `NoneIsNoObject`: the absence of an object is not an object).
- `PositionInv` and `ReadingInv` say what each controller holds at each call, and how old
  readings of the Application relate to the object (deletion is final, UIDs are not reused);
  `KnownInv` orders the readings, and what exists in the cluster, by UID;
- `ObligationInv` is the argument for `CredentialAccounted`: release is sticky, no credential is
  created for a released entry, an intent that was read is still there when the credential is
  created, and `RecordObligations` drops none.  The middle part fails for an Application that
  vanished, which is where the exemption comes from;
- `ExclusionInv`: while an Application is provided for, the others have no obligations, and
  once it has a credential its predecessors never do again.  The second half survives a
  stray credential of a vanished predecessor;
- `ServingInv`: an inventory being released is of an Application neither served nor still
  wanted by anybody, stale readings included;
- `TrimInv`: if `spec.sql` was never removed, every reading after one with SQL has it, so a
  single obligation is released only with its inventory.

`UpdateStreamProofs` holds what is true of sessions whatever they carry, for any recipients,
slots and buffer (`StreamsPositive`, `CapacityPositive`).  `EntryInv`: the registry holds
open channels with a reader.  `TurnInv`: goroutine and recipient take turns, so one update at
most is on the wire and a new one never overtakes it.  The queue lemmas (`BroadcastQueues`,
`GoroutineQueues`, `ReceiveQueues`, `SessionQueues`) say what each step does to `Queued(r)`, the
broadcasts a recipient has still to apply: a broadcast appends, an application takes the
first, nothing else changes it, as long as the session is `Following(r)`.  `Prevails` is the
last update of a sequence that decides; `PrevailsAppend` and `PrevailsFirst` say what one more
update at either end changes, and both kinds of table are read through it.

`ConfigPublicationProofs` proves `RegisteredChannelOpen` and `StreamCarriesDifference` for any
applications, topics, edits and rotations (`EditsBounded`; `NoneDistinct`: no application and no
configuration is `None`).  What a table becomes under a sequence of updates is stated in closed
form (`Serves`, `RedisAfter`); `ServesFirst` shows that this is what applying the updates one
after the other gives, `ServesAppend` what one more broadcast changes.
`StreamCarriesDifference` speaks of registered streams and is not inductive: `DiffInv` extends
it to the session's beginning, with the snapshot under way in place of the table
(`Held`, `HeldRedis`), `OutboxInv` says that what is about to be broadcast is what is stored, and
`OverlapInv` that `overlap` misses no topic claimed twice.  A topic handed from one application to
another is the delicate case: it needs the store to be free of conflict when the claim is
made.

`RoutePublicationProofs` proves `StoredRoutesServed` for any applications, paths and edits
(`RouteEditsBounded`, `NoneIsNoApp`).  Here only one direction holds, stored routes are
served, because batches never delete what an application gave up.  `RoutedTo` is the closed form
of applying batches (`RoutedFirst`, `RoutedAppend`).  `ServedInv` starts, as `DiffInv` does, at
the snapshot; `OutboxInv` says that upserts about to be broadcast are the stored routes, and
`OverlapInv` that `overlap` misses no path two applications have had.  Three steps need these: a
deletion takes no path of another application, since none is shared; a snapshot read while a
batch is still to be broadcast survives it, unless the batch deletes a path that is taken again
(`overlap` records this case); and the order of Go's map, in which a snapshot is inserted, does not
matter if no path is in it twice.

Left to TLC: every liveness property, since fairness and `ENABLED` are out of the prover's
reach.  These are `ShutdownDrains`, `LossReachesGuests`, `BacklogLeaves`, `DroppedStreamResyncs`,
`EventuallyCurrent`, `EventuallyRouted`, both `PermitsReturn`, `EventuallyAnswers`, `RequestsEnd`,
`EvictionCompletes`, `EventuallySubscribed`, `EverythingReleased` and `EventuallyServed`.  Every
safety property the runs check is also proved.

## Not modelled

- The execution of WebAssembly by wasmtime, its fuel and memory limits: any outcome at
  any time stands for it.
- The gateway's listener and HTTP server set-up: an accept loop around hyper.  The
  requests it accepts are `GatewayRequests`.
- The operator's registry client and identifier encodings: I/O and pure string functions.
- In the resource lifecycle, migrations, retained infrastructure, Redis credentials, the
  status journal and the adoption of resources that predate inventories.
- Token files and the operator's TokenReview: a failed review is an interrupted stream,
  a refused cache request or a lookup that fails.
- Metrics output, API types, generated code, deployment files, the CLI (a description
  only) and the examples.
