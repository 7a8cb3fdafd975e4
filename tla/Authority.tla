------------------------------ MODULE Authority ------------------------------
(***************************************************************************)
(* The publication fence of the operator: after winning the election the   *)
(* leader lists every Application from the API server, and serves neither  *)
(* snapshots nor streams until its reconciler has completed each of them.  *)
(* The reconciler reads a cache that follows the API server behind its     *)
(* back, starts at the same time as the Initializer, and may be ahead of   *)
(* or behind the listing.                                                  *)
(*                                                                         *)
(* An Application is a version <<uid, generation>>; <<0, 0>> is no object, *)
(* and also what an absent map key amounts to: no object has uid 0, so the *)
(* comparison with a missing entry and with a NotFound one agree.          *)
(***************************************************************************)
EXTENDS Naturals, Sequences

CONSTANTS
    Keys,     \* namespaced names of Applications
    MaxUid,   \* bound: objects created under one name
    MaxEdits  \* bound: changes made through the API server

ASSUME AuthorityBounds == MaxUid \in Nat \ {0} /\ MaxEdits \in Nat

VARIABLES
    object,    \* the API server's version of each Application
    events,    \* watch events the cache has still to apply
    cache,     \* the informer's version
    edits,     \* changes made so far
    created,   \* last uid used under each name
    queue,     \* names waiting to be reconciled
    work,      \* the request the worker is on: name and the version it read
    lost,      \* the manager's context has ended: leadership was lost
    start,     \* Initializer.Start: "listing", "waiting", "serving", "ended"
    listing,   \* the inventory read and not yet recorded
    ctx,       \* the authority's context: "nil", "live", "done"
    ready,     \* Authority.ready
    pending,   \* Authority.pending
    observed,  \* Authority.observed
    isNil,     \* observed is a nil map
    panicked,  \* a nil map was written
    processed, \* history: versions completed under each name
    inventory  \* history: the listing last recorded

world == <<object, events, cache, edits, created>>
controller == <<queue, work, processed>>
fence == <<ctx, ready, pending, observed, isNil, panicked>>
vars == <<world, controller, start, listing, lost, fence, inventory>>

Absent == <<0, 0>>
Versions == (0..MaxUid) \X (0..(MaxEdits + 1))
Nothing == [k \in Keys |-> Absent]

Init ==
    /\ object \in [Keys -> {Absent, <<1, 1>>}]
    /\ created = [k \in Keys |-> object[k][1]]
    /\ events = [k \in Keys |-> <<>>] /\ cache = object
    /\ edits = 0
    /\ queue = {k \in Keys : object[k] # Absent}
    /\ work = <<>> /\ processed = [k \in Keys |-> {}]
    /\ start = "listing" /\ listing = <<>> /\ lost = FALSE /\ inventory = Nothing
    /\ ctx = "nil" /\ ready = FALSE /\ pending = Nothing
    /\ observed = Nothing /\ isNil = FALSE /\ panicked = FALSE

-----------------------------------------------------------------------------
\* The API server and the cache.

Change(k, v) ==
    /\ edits < MaxEdits /\ edits' = edits + 1
    /\ object' = [object EXCEPT ![k] = v]
    /\ events' = [events EXCEPT ![k] = Append(@, v)]
    /\ UNCHANGED <<cache, controller, start, listing, lost, fence, inventory>>

Create(k) ==
    /\ object[k] = Absent /\ created[k] < MaxUid
    /\ created' = [created EXCEPT ![k] = @ + 1]
    /\ Change(k, <<created[k] + 1, 1>>)

Edit(k) ==
    /\ object[k] # Absent
    /\ Change(k, <<object[k][1], object[k][2] + 1>>)
    /\ UNCHANGED created

\* The object goes, its finalizer having been removed by this leader or the last.
Delete(k) ==
    /\ object[k] # Absent
    /\ Change(k, Absent)
    /\ UNCHANGED created

\* The cache applies the next event and queues the name.
Observe(k) ==
    /\ events[k] # <<>>
    /\ cache' = [cache EXCEPT ![k] = Head(events[k])]
    /\ events' = [events EXCEPT ![k] = Tail(@)]
    /\ queue' = queue \cup {k}
    /\ UNCHANGED <<object, edits, created, work, processed, start, listing, lost, fence, inventory>>

-----------------------------------------------------------------------------
\* Authority's methods.

\* Version c, completed, covers version v of the inventory.
Covers(c, v) == c[1] = v[1] /\ c[2] >= v[2]

\* What of a listing has not been completed.
Uncovered(list) ==
    [k \in Keys |-> IF list[k] # Absent /\ ~Covers(observed[k], list[k]) THEN list[k] ELSE Absent]

\* refreshLocked.
RefreshLocked(list) ==
    LET open == Uncovered(list)
    IN /\ pending' = open
       /\ ready' = (open = Nothing)
       /\ observed' = IF open = Nothing THEN Nothing ELSE observed
       /\ isNil' = (isNil \/ open = Nothing)
       /\ inventory' = list

\* Mutant: completions count only until the inventory is recorded.
RecordsUntilInitialized == ctx = "nil"
Records == ctx = "nil" \/ ~ready

\* Mutant: any completion of the name will do.
ClearsAny(v, p) == TRUE
\* A completion clears a pending entry; NotFound clears any.
Clears(v, p) == v = Absent \/ Covers(v, p)

Reconciled(k, v) ==
    /\ IF ctx = "done"
       THEN UNCHANGED fence
       ELSE LET seen == IF Records THEN [observed EXCEPT ![k] = v] ELSE observed
                left == IF ctx # "nil" /\ pending[k] # Absent /\ Clears(v, pending[k])
                        THEN [pending EXCEPT ![k] = Absent] ELSE pending
                full == ctx # "nil" /\ left = Nothing   \* the fence is open
            IN /\ panicked' = (panicked \/ (Records /\ isNil))
               /\ pending' = left
               /\ ready' = full
               /\ observed' = IF full THEN Nothing ELSE seen
               /\ isNil' = (isNil \/ full)
               /\ UNCHANGED ctx
    /\ processed' = [processed EXCEPT ![k] = @ \cup {v}]

\* Context: what a snapshot call or a stream asks.  Mutant: the context is not
\* looked at.
AnswersWhenReady == ready
Answers == ready /\ ctx = "live"

-----------------------------------------------------------------------------
\* The reconciler: one worker.

Take(k) ==
    /\ work = <<>> /\ k \in queue
    /\ queue' = queue \ {k}
    /\ work' = <<k, cache[k]>>
    /\ UNCHANGED <<world, processed, start, listing, lost, fence, inventory>>

\* Published, deleted, excluded, or there was no object.
Complete ==
    /\ work # <<>>
    /\ Reconciled(work[1], work[2])
    /\ work' = <<>>
    /\ UNCHANGED <<world, queue, start, listing, lost, inventory>>

\* An error or a wait for provisioning: the name is queued again.
Retry ==
    /\ work # <<>> /\ work[2] # Absent
    /\ queue' = queue \cup {work[1]}
    /\ work' = <<>>
    /\ UNCHANGED <<world, processed, start, listing, lost, fence, inventory>>

-----------------------------------------------------------------------------
\* Initializer.Start.

\* The inventory is read, at the start and on each tick until the fence opens.
List ==
    /\ start \in {"listing", "waiting"} /\ listing = <<>> /\ ~lost
    /\ start = "waiting" => ~Answers
    /\ listing' = <<object>>
    /\ UNCHANGED <<world, controller, start, lost, fence, inventory>>

Initialize ==
    /\ start = "listing" /\ listing # <<>>
    /\ ctx' = IF lost THEN "done" ELSE "live"
    /\ RefreshLocked(listing[1])
    /\ start' = "waiting" /\ listing' = <<>>
    /\ UNCHANGED <<world, controller, lost, panicked>>

\* The tick's listing is recorded unless the fence opened while it was read.
Refresh ==
    /\ start = "waiting" /\ listing # <<>>
    /\ IF ready THEN UNCHANGED <<pending, ready, observed, isNil, inventory>>
                ELSE RefreshLocked(listing[1])
    /\ listing' = <<>>
    /\ UNCHANGED <<world, controller, start, lost, ctx, panicked>>

Serve ==
    /\ start = "waiting" /\ listing = <<>> /\ Answers
    /\ start' = "serving"
    /\ UNCHANGED <<world, controller, listing, lost, fence, inventory>>

\* The manager's context ends, and with it the one derived from it.
LeaderLost ==
    /\ ~lost /\ lost' = TRUE
    /\ ctx' = IF ctx = "live" THEN "done" ELSE ctx
    /\ UNCHANGED <<world, controller, start, listing, ready, pending, observed, isNil, panicked,
                   inventory>>

\* Start returns, leadership being lost or a listing having failed; Revoke is deferred.
Revoke ==
    /\ start # "ended" /\ (lost \/ start # "serving")
    /\ start' = "ended" /\ listing' = <<>>
    /\ ready' = FALSE
    /\ ctx' = IF ctx = "nil" THEN "nil" ELSE "done"
    /\ UNCHANGED <<world, controller, lost, pending, observed, isNil, panicked, inventory>>

-----------------------------------------------------------------------------
Editor == \E k \in Keys : Create(k) \/ Edit(k) \/ Delete(k)

Initializer == List \/ Initialize \/ Refresh \/ Serve

Next ==
    \/ Editor \/ Initializer \/ LeaderLost \/ Revoke \/ Complete \/ Retry
    \/ \E k \in Keys : Observe(k) \/ Take(k)

Spec == Init /\ [][Next]_vars

\* The cache follows, the ticker fires, the worker serves its queue and a request
\* that is retried again and again completes.
FairSpec ==
    /\ Spec
    /\ WF_vars(Initializer)
    /\ \A k \in Keys : WF_vars(Observe(k)) /\ SF_vars(Take(k))
                      /\ SF_vars(work # <<>> /\ work[1] = k /\ Complete)

-----------------------------------------------------------------------------
\* Properties.

\* Type invariant; ready says that nothing is pending.
TypeOK ==
    /\ object \in [Keys -> Versions] /\ cache \in [Keys -> Versions]
    /\ \A k \in Keys : events[k] \in Seq(Versions)
    /\ edits \in 0..MaxEdits /\ created \in [Keys -> 0..MaxUid]
    /\ queue \subseteq Keys
    /\ work = <<>> \/ work \in Keys \X Versions
    /\ start \in {"listing", "waiting", "serving", "ended"} /\ lost \in BOOLEAN
    /\ listing = <<>> \/ listing[1] \in [Keys -> Versions]
    /\ ctx \in {"nil", "live", "done"} /\ ready \in BOOLEAN /\ (ready => pending = Nothing)
    /\ pending \in [Keys -> Versions] /\ observed \in [Keys -> Versions]
    /\ isNil \in BOOLEAN /\ panicked \in BOOLEAN
    /\ inventory \in [Keys -> Versions]

\* The version listed under k was completed by the reconciler, or its object is gone.
Settled(k) ==
    \/ inventory[k] = Absent
    \/ \E v \in processed[k] : Covers(v, inventory[k])
    \/ object[k][1] # inventory[k][1]

\* While the operator answers, every Application of its startup inventory has been
\* completed at the generation listed or a later one, however cache, reconciler and
\* listing overtook each other.  It says nothing of a name under which an object was
\* created again: there the fence compares UIDs with the older listing and may open
\* without the newer object.  And observed, nil once the fence is open, is not
\* written again, which would panic: a refresh that closed the fence, or a
\* completion after Revoke, would.
AnswersCoverInventory ==
    /\ TypeOK /\ ~panicked
    /\ Answers => \A k \in Keys : created[k] = 1 => Settled(k)

\* "Leadership loss closes active streams and rejects new configuration requests":
\* reconciliations that complete later do not open the fence again.
LossIsFinal == [](lost \/ start = "ended" => []~Answers)

\* The fence opens once reconciliations succeed, unless Start has returned.
EventuallyAnswers == <>(Answers \/ lost \/ start = "ended")
=============================================================================
