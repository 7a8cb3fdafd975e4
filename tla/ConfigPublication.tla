------------------------- MODULE ConfigPublication -------------------------
(***************************************************************************)
(* Publication of application configuration: the operator's reconciler and *)
(* ConfigStore at one end, the AppRegistry of each execution host at the   *)
(* other, joined by the sessions of UpdateStream.                          *)
(*                                                                         *)
(* An application's configuration is abstracted to the set of topics its   *)
(* functions claim (HTTP functions have a topic too), which is what the    *)
(* host's dispatch table is keyed by.  The Redis connection, which travels *)
(* with every update, is a number counting its rotations.                  *)
(*                                                                         *)
(* The reconciler runs one request at a time, so a change to the store and *)
(* the broadcast that follows it are two steps of one worker, between      *)
(* which only sessions move.                                               *)
(***************************************************************************)
EXTENDS UpdateStream, TLC

CONSTANTS
    Apps,          \* applications
    None,          \* no application: nobody serves the topic, nothing is stored
    Topics,        \* topics their functions may claim
    MaxEdits,      \* bound: changes made to Application objects
    MaxRotations   \* bound: changes of the Redis connection

ASSUME EditsBounded == MaxEdits \in Nat /\ MaxRotations \in Nat

ASSUME NoneDistinct == None \notin Apps /\ \A topics \in SUBSET Topics : None # topics

VARIABLES
    spec,      \* topics each Application object claims, None when there is no object
    deleting,  \* objects with a deletion timestamp, held by the finalizer
    edits,     \* changes made so far
    store,     \* ConfigStore.configs
    redis,     \* ConfigStore.redisConfig
    outbox,    \* the update the worker has still to broadcast, at most one
    reply,     \* the snapshot on its way to a host
    table,     \* the host's AppRegistry: the application serving each topic
    hostRedis, \* the host's redis_tx
    overlap    \* history: since the session's snapshot was read, two stored
               \* configurations have claimed the same topic

objects == <<spec, deleting, edits>>
hostVars == <<table, hostRedis, reply, overlap>>
vars == <<streamVars, spec, deleting, edits, store, redis, outbox, reply, table, hostRedis, overlap>>

\* IncrementalConfig: a change to one application (delete is an empty claim by an
\* application that is no longer stored) or, with app = None, to Redis alone.
Updates == [app : Apps \cup {None}, topics : SUBSET Topics, redis : 0..MaxRotations]

Tables == [Topics -> Apps \cup {None}]

\* What an object or a store entry claims.
Claims(c) == IF c = None THEN {} ELSE c

\* Two stored configurations claim the same topic.
Contested(c) == \E a, b \in Apps : a # b /\ Claims(c[a]) \cap Claims(c[b]) # {}

NoReply == [apps |-> [a \in Apps |-> None], redis |-> 0]

-----------------------------------------------------------------------------
\* The host's registry.

\* apply_full_config: each application inserts its topics in the order the snapshot
\* lists them, the last one winning.  The operator ranges over a Go map, so for
\* a topic in several configurations any of them may be the last.
FullConfigTables(c) ==
    {t \in Tables : \A x \in Topics :
        LET claimants == {a \in Apps : x \in Claims(c[a])}
        IN t[x] \in (IF claimants = {} THEN {None} ELSE claimants)}

\* apply_incremental: the application's entries are removed and its new topics
\* inserted over whatever they pointed to.
ApplyInserting(t, u) ==   \* mutant: what the application gave up stays
    IF u.app = None THEN t
    ELSE [x \in Topics |-> IF x \in u.topics THEN u.app ELSE t[x]]

ApplyIncremental(t, u) ==
    IF u.app = None THEN t
    ELSE [x \in Topics |-> IF x \in u.topics THEN u.app
                           ELSE IF t[x] = u.app THEN None ELSE t[x]]

-----------------------------------------------------------------------------
Init ==
    /\ StreamInit
    /\ spec = [a \in Apps |-> None]
    /\ deleting = {}
    /\ edits = 0
    /\ store = [a \in Apps |-> None]
    /\ redis = 0
    /\ outbox = <<>>
    /\ reply = [r \in Recipients |-> NoReply]
    /\ table = [r \in Recipients |-> [x \in Topics |-> None]]
    /\ hostRedis = [r \in Recipients |-> 0]
    /\ overlap = [r \in Recipients |-> FALSE]

\* Somebody creates or changes an Application.  The admission webhook refuses a
\* topic that another existing object claims.
EditSpec(a, topics) ==
    /\ edits < MaxEdits
    /\ a \notin deleting /\ spec[a] # topics
    /\ \A b \in Apps \ {a} : Claims(spec[b]) \cap topics = {}
    /\ spec' = [spec EXCEPT ![a] = topics]
    /\ edits' = edits + 1
    /\ UNCHANGED <<streamVars, deleting, store, redis, outbox, hostVars>>

\* Somebody deletes an Application; the object stays until its finalizer is gone.
DeleteSpec(a) ==
    /\ edits < MaxEdits
    /\ spec[a] # None /\ a \notin deleting
    /\ deleting' = deleting \cup {a}
    /\ edits' = edits + 1
    /\ UNCHANGED <<streamVars, spec, store, redis, outbox, hostVars>>

\* reconcileUpsert, last part: Store.Set, which reports whether anything changed.
ReconcileUpsert(a) ==
    /\ outbox = <<>>
    /\ spec[a] # None /\ a \notin deleting
    /\ store[a] # spec[a]
    /\ store' = [store EXCEPT ![a] = spec[a]]
    /\ outbox' = <<[app |-> a, topics |-> spec[a], redis |-> redis]>>
    /\ overlap' = [r \in Recipients |-> overlap[r] \/ (InSession(r) /\ Contested(store'))]
    /\ UNCHANGED <<streamVars, objects, redis, table, hostRedis, reply>>

\* reconcileDelete, first part: Store.Delete.  The broadcast follows whether or
\* not the application was stored.
ReconcileDelete(a) ==
    /\ outbox = <<>>
    /\ a \in deleting
    /\ store' = [store EXCEPT ![a] = None]
    /\ outbox' = <<[app |-> a, topics |-> {}, redis |-> redis]>>
    /\ UNCHANGED <<streamVars, objects, redis, hostVars>>

\* reconcileRedisDatabase, last part: a new connection was read from the secret.
SetRedisConfig ==
    /\ outbox = <<>>
    /\ redis < MaxRotations
    /\ redis' = redis + 1
    /\ outbox' = <<[app |-> None, topics |-> {}, redis |-> redis + 1]>>
    /\ UNCHANGED <<streamVars, objects, store, hostVars>>

\* The broadcast that ends each of the three.  After a deletion the finalizer is
\* removed, unless the inventory still has resources to clean up and the request
\* is queued again.
Broadcast ==
    /\ outbox # <<>>
    /\ BroadcastUpdate(outbox[1])
    /\ outbox' = <<>>
    /\ \/ UNCHANGED <<spec, deleting>>
       \/ /\ outbox[1].app \in deleting
          /\ spec' = [spec EXCEPT ![outbox[1].app] = None]
          /\ deleting' = deleting \ {outbox[1].app}
    /\ UNCHANGED <<edits, store, redis, hostVars>>

-----------------------------------------------------------------------------
\* Sessions.

RequestFullConfig(r) ==
    /\ ServeSnapshot(r)
    /\ reply' = [reply EXCEPT ![r] = [apps |-> store, redis |-> redis]]
    /\ overlap' = [overlap EXCEPT ![r] = Contested(store)]
    /\ UNCHANGED <<objects, store, redis, outbox, table, hostRedis>>

\* Mutant: a snapshot leaves the Redis connection to the updates.
FetchAppsOnly(r) ==
    /\ LoadSnapshot(r)
    /\ \E t \in FullConfigTables(reply[r].apps) : table' = [table EXCEPT ![r] = t]
    /\ reply' = [reply EXCEPT ![r] = NoReply]
    /\ UNCHANGED <<objects, store, redis, outbox, overlap, hostRedis>>

FetchFullConfig(r) ==
    /\ LoadSnapshot(r)
    /\ \E t \in FullConfigTables(reply[r].apps) : table' = [table EXCEPT ![r] = t]
    /\ hostRedis' = [hostRedis EXCEPT ![r] = reply[r].redis]
    /\ reply' = [reply EXCEPT ![r] = NoReply]
    /\ UNCHANGED <<objects, store, redis, outbox, overlap>>

ApplyUpdate(r) ==
    /\ Receive(r)
    /\ LET u == wire[Stream(r)][1]
       IN /\ table' = [table EXCEPT ![r] = ApplyIncremental(@, u)]
          /\ hostRedis' = [hostRedis EXCEPT ![r] = u.redis]
    /\ UNCHANGED <<objects, store, redis, outbox, reply, overlap>>

\* The steps of a session that touch no data.
SessionStep(r) ==
    /\ OpenStream(r) \/ InitialAck(r) \/ Ack(r)
    /\ UNCHANGED <<objects, store, redis, outbox, hostVars>>

\* The session ends, run_config_sync having returned or been cut short; the
\* registry keeps what it had.
StreamClosed(r) ==
    /\ StreamEnded(r)
    /\ overlap' = [overlap EXCEPT ![r] = FALSE]
    /\ reply' = [reply EXCEPT ![r] = NoReply]
    /\ UNCHANGED <<objects, store, redis, outbox, table, hostRedis>>

SessionExpired(r) ==
    /\ SessionFails(r)
    /\ overlap' = [overlap EXCEPT ![r] = FALSE]
    /\ reply' = [reply EXCEPT ![r] = NoReply]
    /\ UNCHANGED <<objects, store, redis, outbox, table, hostRedis>>

GoroutineStep(s) ==
    /\ Goroutine(s)
    /\ UNCHANGED <<objects, store, redis, outbox, hostVars>>

GoroutineInterrupted(s) ==
    /\ Interrupted(s)
    /\ UNCHANGED <<objects, store, redis, outbox, hostVars>>

Worker == \/ \E a \in Apps : ReconcileUpsert(a) \/ ReconcileDelete(a)
          \/ SetRedisConfig
          \/ Broadcast

Editor == \E a \in Apps : DeleteSpec(a) \/ \E topics \in SUBSET Topics : EditSpec(a, topics)

\* What the host does of its own accord.
Host(r) == RequestFullConfig(r) \/ FetchFullConfig(r) \/ ApplyUpdate(r) \/ SessionStep(r) \/ StreamClosed(r)

Next ==
    \/ Worker
    \/ Editor
    \/ \E r \in Recipients : Host(r) \/ SessionExpired(r)
    \/ \E s \in Streams : GoroutineStep(s) \/ GoroutineInterrupted(s)

Spec == Init /\ [][Next]_vars

\* The host's task and the operator's goroutines are scheduled.
Fairness ==
    /\ \A r \in Recipients : WF_vars(Host(r))
    /\ \A s \in Streams : WF_vars(GoroutineStep(s))

FairSpec == Spec /\ Fairness

\* The work queue gives every queued application its turn, the timer around the
\* session fires, and a snapshot call that is tried again and again gets through.
SessionsAreRenewed ==
    /\ WF_vars(Broadcast)
    /\ \A a \in Apps : SF_vars(ReconcileUpsert(a)) /\ SF_vars(ReconcileDelete(a))
    /\ \A r \in Recipients :
         /\ WF_vars(SessionExpired(r))
         /\ SF_vars(FetchFullConfig(r))

-----------------------------------------------------------------------------
\* Properties.

\* Type invariant.
TypeOK ==
    /\ StreamTypeOK(Updates)
    /\ spec \in [Apps -> (SUBSET Topics) \cup {None}]
    /\ deleting \subseteq Apps /\ \A a \in deleting : spec[a] # None
    /\ edits \in 0..MaxEdits
    /\ store \in [Apps -> (SUBSET Topics) \cup {None}]
    /\ redis \in 0..MaxRotations
    /\ outbox \in Seq(Updates) /\ Len(outbox) <= 1
    /\ reply \in [Recipients -> [apps : [Apps -> (SUBSET Topics) \cup {None}],
                                 redis : 0..MaxRotations]]
    /\ table \in [Recipients -> Tables]
    /\ hostRedis \in [Recipients -> 0..MaxRotations]
    /\ overlap \in [Recipients -> BOOLEAN]

\* What is still to reach host r over its stream, oldest first, the update the
\* worker is about to broadcast included.
Undelivered(r) == wire[Stream(r)] \o chan[Stream(r)] \o outbox

\* Update u makes application a serve topic x; it takes nothing from a that it had.
Gives(u, x, a) == u.app = a /\ x \in u.topics

Spares(u, x, a) == u.app = None \/ (u.app # a /\ x \notin u.topics)

\* Application a serves topic x once the updates us have been applied: it is the
\* last to have claimed x, or owned x and nobody claimed it, and it has not been
\* replaced since.  (What applying them one after the other gives, in closed form.)
Serves(owned, us, x, a) ==
    \/ owned /\ \A j \in DOMAIN us : Spares(us[j], x, a)
    \/ \E i \in DOMAIN us : Gives(us[i], x, a) /\ \A j \in DOMAIN us : j > i => Spares(us[j], x, a)

\* The Redis connection a host that has connection c ends up with.
RedisAfter(c, us) == IF us = <<>> THEN c ELSE us[Len(us)].redis

\* Once a host's stream is registered, its table together with what is still to
\* reach it is the operator's store: the registry under the lock, the channel and
\* the one-at-a-time delivery lose, reorder and repeat nothing that matters.  It
\* excludes a session that missed a broadcast before it was registered and, for
\* the topics, one during which two stored configurations claimed the same.
StreamCarriesDifference ==
    /\ TypeOK
    /\ \A r \in Recipients :
        Attached(r) /\ ~missed[r] =>
            /\ RedisAfter(hostRedis[r], Undelivered(r)) = redis
            /\ ~overlap[r] => \A x \in Topics, a \in Apps :
                 Serves(table[r][x] = a, Undelivered(r), x, a) <=> x \in Claims(store[a])

\* The registry never holds a closed channel: BroadcastUpdate would panic sending
\* on it and DeregisterHost would panic closing it again.  Three places close a
\* channel and streams of one recipient share an identifier, so this depends on
\* every one of them taking the entry out in the same critical section.
RegisteredChannelOpen ==
    \A r \in Registered : /\ ~closed[<<r, entry[r]>>]
                          /\ handler[<<r, entry[r]>>] \in {"idle", "sent"}

\* A host whose stream the operator gave up on (its buffer overflowed, or an older
\* stream of the same host returned and took the entry with it) does not stay in
\* sync on a stream that carries nothing more: the closed channel is drained, the
\* stream ends and the host starts again.
DroppedStreamResyncs ==
    \A s \in Streams : (closed[s] /\ ~Abandoned(s)) ~> Abandoned(s)

\* When changes stop, every host ends up with the operator's store, whatever was
\* missed on the way: sessions are renewed every five minutes from a snapshot.
EventuallyCurrent ==
    SessionsAreRenewed =>
        \A r \in Recipients : <>[](table[r] \in FullConfigTables(store) /\ hostRedis[r] = redis)
=============================================================================
