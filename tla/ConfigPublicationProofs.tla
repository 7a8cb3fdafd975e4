---------------------- MODULE ConfigPublicationProofs ----------------------
(***************************************************************************)
(* Proofs about ConfigPublication: the types, the registry of open         *)
(* channels, and that a registered stream carries exactly the difference   *)
(* between the operator's store and what the host has.                     *)
(***************************************************************************)
EXTENDS ConfigPublication, UpdateStreamProofs

-----------------------------------------------------------------------------
\* What host r has of the Redis connection and of application a's hold on topic x:
\* its own tables or, until it is applied, the snapshot that will replace them.
HeldRedis(r) == IF client[r] = "loading" THEN reply[r].redis ELSE hostRedis[r]

Held(r, x, a) == \/ client[r] = "loading" /\ x \in Claims(reply[r].apps[a])
                 \/ client[r] # "loading" /\ table[r][x] = a

\* The update about to be broadcast says what the store says.
OutboxInv ==
    outbox # <<>> =>
        /\ outbox[1].redis = redis
        /\ outbox[1].app # None => outbox[1].topics = Claims(store[outbox[1].app])

\* overlap records every conflict between the stored configurations of a session.
OverlapInv ==
    \A r \in Recipients : InSession(r) /\ ~overlap[r] =>
        ~Contested(store) /\ (client[r] = "loading" => ~Contested(reply[r].apps))

\* What is still to reach r: queued, or about to be broadcast.
Coming(r) == Queued(r) \o outbox

\* A session that has followed every broadcast has, with what is coming, the store:
\* from its snapshot on, before it is registered as well as after.
DiffAt(r) ==
    Following(r) =>
        /\ RedisAfter(HeldRedis(r), Coming(r)) = redis
        /\ ~overlap[r] => \A x \in Topics, a \in Apps :
             Serves(Held(r, x, a), Coming(r), x, a) <=> x \in Claims(store[a])

DiffInv == \A r \in Recipients : DiffAt(r)

IInv == TypeOK /\ SessionInv /\ OutboxInv /\ OverlapInv /\ DiffInv

-----------------------------------------------------------------------------
\* Serves in terms of the updates that give a the topic and those that spare it.
LEMMA ServesPrevails ==
    ASSUME NEW b, NEW us \in Seq(Updates), NEW x, NEW a
    PROVE  Serves(b, us, x, a)
             <=> Prevails(b, us, {u \in Updates : Gives(u, x, a)}, {u \in Updates : Spares(u, x, a)})
<1>1. \A j \in DOMAIN us : us[j] \in Updates
  BY LenProperties
<1> QED
  BY Zenon, <1>1 DEF Serves, Prevails

\* One more update at the end decides what it is about and spares the rest.
LEMMA ServesAppend ==
    ASSUME NEW b \in BOOLEAN, NEW us \in Seq(Updates), NEW u \in Updates, NEW x, NEW a
    PROVE  Serves(b, Append(us, u), x, a) <=> Gives(u, x, a) \/ (Serves(b, us, x, a) /\ Spares(u, x, a))
<1>1. Append(us, u) \in Seq(Updates)
  BY AppendProperties
<1> DEFINE G == {v \in Updates : Gives(v, x, a)}
           S == {v \in Updates : Spares(v, x, a)}
<1>2. Prevails(b, Append(us, u), G, S) <=> u \in G \/ (Prevails(b, us, G, S) /\ u \in S)
  BY Zenon, PrevailsAppend
<1> QED
  BY Zenon, <1>1, <1>2, ServesPrevails

\* The first update can be applied to the table at once: Serves says what applying
\* the updates one after the other gives.
LEMMA ServesFirst ==
    ASSUME NEW t \in Tables, NEW us \in Seq(Updates), NEW u \in Updates,
           NEW x \in Topics, NEW a \in Apps
    PROVE  Serves(t[x] = a, <<u>> \o us, x, a) <=> Serves(ApplyIncremental(t, u)[x] = a, us, x, a)
<1> DEFINE G == {v \in Updates : Gives(v, x, a)}
           S == {v \in Updates : Spares(v, x, a)}
<1>1. <<u>> \in Seq(Updates)
  OBVIOUS
<1>2. <<u>> \o us \in Seq(Updates)
  BY <1>1, ConcatProperties
<1>3. PICK b \in BOOLEAN : b <=> t[x] = a
  BY Zenon
<1>4. PICK c \in BOOLEAN : c <=> ApplyIncremental(t, u)[x] = a
  BY Zenon
<1>5. c <=> (b /\ u \in S) \/ u \in G
  BY Zenon, <1>3, <1>4, NoneDistinct DEF ApplyIncremental, Spares, Gives, Tables, Updates
<1>6. Prevails(b, <<u>> \o us, G, S) <=> Prevails(c, us, G, S)
  BY Zenon, <1>5, PrevailsFirst
<1>7. Serves(b, <<u>> \o us, x, a) <=> Serves(c, us, x, a)
  BY Zenon, <1>2, <1>6, ServesPrevails
<1> QED
  BY Zenon, <1>3, <1>4, <1>7 DEF Serves

\* The last update decides the Redis connection.
LEMMA RedisAppend ==
    ASSUME NEW c, NEW us \in Seq(Updates), NEW u \in Updates
    PROVE  RedisAfter(c, Append(us, u)) = u.redis
BY AppendProperties DEF RedisAfter

\* The first one gives the connection that stays if there is no other.
LEMMA RedisFirst ==
    ASSUME NEW c, NEW us \in Seq(Updates), NEW u \in Updates
    PROVE  RedisAfter(c, <<u>> \o us) = RedisAfter(u.redis, us)
<1>1. <<u>> \in Seq(Updates) /\ Len(<<u>>) = 1 /\ <<u>>[1] = u
  OBVIOUS
<1>2. Len(<<u>> \o us) = 1 + Len(us) /\ Len(us) \in Nat /\ <<u>> \o us \in Seq(Updates)
  BY Zenon, <1>1, ConcatProperties, LenProperties
<1>3. <<u>> \o us # <<>>
  BY <1>2, EmptySeq
<1>4. CASE us = <<>>
  <2>1. <<u>> \o us = <<u>>
    BY Zenon, <1>1, <1>4, ConcatEmptySeq
  <2> QED
    BY Zenon, <1>1, <1>3, <1>4, <2>1 DEF RedisAfter
<1>5. CASE us # <<>>
  <2>1. Len(us) \in Nat \ {0}
    BY Zenon, <1>5, EmptySeq
  <2>2. (<<u>> \o us)[1 + Len(us)] = us[Len(us)]
    BY <1>1, <2>1, ConcatProperties
  <2> QED
    BY Zenon, <1>2, <1>3, <1>5, <2>2 DEF RedisAfter
<1> QED
  BY Zenon, <1>4, <1>5

-----------------------------------------------------------------------------
\* Of the actions, as far as sessions are concerned.
LEMMA StreamParts ==
    ASSUME Next
    PROVE  \/ UNCHANGED streamVars
           \/ outbox # <<>> /\ BroadcastUpdate(outbox[1])
           \/ \E r \in Recipients : ServeSnapshot(r) \/ Receive(r) \/ SessionMoves(r)
           \/ \E s \in Streams : GoroutineMoves(s)
<1>1. CASE Worker
  BY Zenon, <1>1 DEF Worker, ReconcileUpsert, ReconcileDelete, SetRedisConfig, Broadcast
<1>2. CASE Editor
  BY Zenon, <1>2 DEF Editor, EditSpec, DeleteSpec
<1>3. CASE \E r \in Recipients : Host(r) \/ SessionExpired(r)
  BY Zenon, <1>3 DEF Host, RequestFullConfig, FetchFullConfig, ApplyUpdate, SessionStep, StreamClosed,
              SessionExpired, SessionMoves
<1>4. CASE \E s \in Streams : GoroutineStep(s) \/ GoroutineInterrupted(s)
  BY Zenon, <1>4 DEF GoroutineStep, GoroutineInterrupted, GoroutineMoves
<1> QED
  BY Zenon, <1>1, <1>2, <1>3, <1>4 DEF Next

\* The update the worker is about to broadcast is one.
LEMMA OutboxUpdate ==
    ASSUME TypeOK, outbox # <<>>
    PROVE  outbox[1] \in Updates /\ outbox = <<outbox[1]>>
BY Zenon, Singleton DEF TypeOK

\* Every action keeps the sessions well typed and their invariant.
LEMMA StreamSteps ==
    ASSUME TypeOK, SessionInv, Next
    PROVE  StreamTypeOK(Updates)' /\ SessionInv'
<1>0. StreamTypeOK(Updates)
  BY Zenon DEF TypeOK
<1>1. CASE UNCHANGED streamVars
  <2>1. StreamTypeOK(Updates)'
    BY Zenon, <1>0, <1>1 DEF streamVars, StreamTypeOK
  <2>2. SessionInv'
    BY Zenon, <1>1 DEF streamVars, SessionInv, EntryInv, FreshInv, ClientInv, TurnInv
  <2> QED
    BY Zenon, <2>1, <2>2
<1>2. CASE outbox # <<>> /\ BroadcastUpdate(outbox[1])
  <2>1. outbox[1] \in Updates
    BY Zenon, <1>2, OutboxUpdate
  <2> QED
    BY Zenon, <1>0, <1>2, <2>1, BroadcastTypes, BroadcastKeeps
<1>3. CASE \E r \in Recipients : ServeSnapshot(r) \/ Receive(r) \/ SessionMoves(r)
  BY Zenon, <1>0, <1>3, SessionTypes, RecipientKeeps
<1>4. CASE \E s \in Streams : GoroutineMoves(s)
  BY Zenon, <1>0, <1>4, GoroutineTypes, GoroutineKeeps
<1> QED
  BY Zenon, <1>1, <1>2, <1>3, <1>4, StreamParts

\* Applying an update to a table gives a table.
LEMMA ApplyType ==
    ASSUME NEW t \in Tables, NEW u \in Updates
    PROVE  ApplyIncremental(t, u) \in Tables
BY Zenon DEF ApplyIncremental, Tables, Updates

\* The operator's and the host's data keep their types.
LEMMA TypeStep ==
    ASSUME TypeOK, SessionInv, Next
    PROVE  TypeOK'
<1>0. StreamTypeOK(Updates)'
  BY Zenon, StreamSteps
<1>n. <<>> \in Seq(Updates) /\ Len(<<>>) = 0
  OBVIOUS
<1>u. ASSUME NEW u \in Updates PROVE <<u>> \in Seq(Updates) /\ Len(<<u>>) <= 1
  OBVIOUS
<1>r. NoReply \in [apps : [Apps -> (SUBSET Topics) \cup {None}], redis : 0..MaxRotations]
  <2>1. [a \in Apps |-> None] \in [Apps -> (SUBSET Topics) \cup {None}] /\ 0 \in 0..MaxRotations
    BY EditsBounded
  <2> QED
    BY Zenon, <2>1 DEF NoReply
<1> USE DEF TypeOK, objects, hostVars
<1>1. ASSUME NEW a \in Apps, ReconcileUpsert(a) PROVE TypeOK'
  <2>1. overlap' \in [Recipients -> BOOLEAN]
    BY <1>1, Zenon DEF ReconcileUpsert
  <2>2. [app |-> a, topics |-> spec[a], redis |-> redis] \in Updates
    <3>1. spec[a] \in SUBSET Topics
      BY Zenon, <1>1 DEF ReconcileUpsert
    <3> QED
      BY Zenon, <3>1 DEF Updates
  <2> QED
    BY Zenon, <1>0, <1>1, <1>u, <2>1, <2>2 DEF ReconcileUpsert
<1>2. ASSUME NEW a \in Apps, ReconcileDelete(a) PROVE TypeOK'
  <2>1. [app |-> a, topics |-> {}, redis |-> redis] \in Updates
    BY Zenon DEF Updates
  <2>2. outbox' \in Seq(Updates) /\ Len(outbox') <= 1
    BY Zenon, <1>2, <1>u, <2>1 DEF ReconcileDelete
  <2> QED
    BY Zenon, <1>0, <1>2, <2>2 DEF ReconcileDelete
<1>3. CASE SetRedisConfig
  <2>1. redis + 1 \in 0..MaxRotations /\ [app |-> None, topics |-> {}, redis |-> redis + 1] \in Updates
    BY <1>3, EditsBounded DEF SetRedisConfig, Updates
  <2> QED
    BY Zenon, <1>0, <1>3, <1>u, <2>1 DEF SetRedisConfig
<1>4. CASE Broadcast
  <2>1. /\ outbox' \in Seq(Updates) /\ Len(outbox') <= 1
        /\ UNCHANGED <<edits, store, redis, table, hostRedis, reply, overlap>>
    BY <1>4, <1>n DEF Broadcast
  <2>2. /\ spec' \in [Apps -> (SUBSET Topics) \cup {None}]
        /\ deleting' \subseteq Apps /\ \A a \in deleting' : spec'[a] # None
    BY Zenon, <1>4 DEF Broadcast
  <2> QED
    BY Zenon, <1>0, <2>1, <2>2
<1>5. ASSUME NEW a \in Apps, NEW topics \in SUBSET Topics, EditSpec(a, topics) PROVE TypeOK'
  BY <1>0, <1>5, EditsBounded, NoneDistinct DEF EditSpec
<1>6. ASSUME NEW a \in Apps, DeleteSpec(a) PROVE TypeOK'
  BY <1>0, <1>6, EditsBounded DEF DeleteSpec
<1>7. ASSUME NEW r \in Recipients, RequestFullConfig(r) PROVE TypeOK'
  <2>1. PICK b \in BOOLEAN : overlap' = [overlap EXCEPT ![r] = b]
    <3>1. Contested(store) \in BOOLEAN
      BY Zenon DEF Contested
    <3> QED
      BY <1>7, <3>1, Zenon DEF RequestFullConfig
  <2>2. overlap' \in [Recipients -> BOOLEAN]
    BY Zenon, <2>1
  <2> QED
    BY Zenon, <1>0, <1>7, <2>2 DEF RequestFullConfig
<1>8. ASSUME NEW r \in Recipients, FetchFullConfig(r) PROVE TypeOK'
  <2>1. PICK t \in Tables : table' = [table EXCEPT ![r] = t]
    BY Zenon, <1>8 DEF FetchFullConfig, FullConfigTables
  <2> QED
    BY Zenon, <1>0, <1>8, <1>r, <2>1 DEF FetchFullConfig
<1>9. ASSUME NEW r \in Recipients, ApplyUpdate(r) PROVE TypeOK'
  <2>1. wire[Stream(r)][1] \in Updates
    BY Zenon, <1>9, ReceivedUpdate DEF ApplyUpdate
  <2>2. ApplyIncremental(table[r], wire[Stream(r)][1]) \in Tables /\ wire[Stream(r)][1].redis \in 0..MaxRotations
    BY Zenon, <2>1, ApplyType DEF Updates
  <2> QED
    BY Zenon, <1>0, <1>9, <2>2 DEF ApplyUpdate
<1>10. ASSUME NEW r \in Recipients, SessionStep(r) PROVE TypeOK'
  BY Zenon, <1>0, <1>10 DEF SessionStep
<1>11. ASSUME NEW r \in Recipients, StreamClosed(r) \/ SessionExpired(r) PROVE TypeOK'
  <2>1. /\ overlap' = [overlap EXCEPT ![r] = FALSE]
        /\ reply' = [reply EXCEPT ![r] = NoReply]
        /\ UNCHANGED <<spec, deleting, edits, store, redis, outbox, table, hostRedis>>
    BY Zenon, <1>11 DEF StreamClosed, SessionExpired
  <2> QED
    BY Zenon, <1>0, <1>r, <2>1
<1>12. ASSUME NEW s \in Streams, GoroutineStep(s) \/ GoroutineInterrupted(s) PROVE TypeOK'
  BY Zenon, <1>0, <1>12 DEF GoroutineStep, GoroutineInterrupted
<1> HIDE DEF TypeOK
<1> QED
  BY Zenon, <1>1, <1>2, <1>3, <1>4, <1>5, <1>6, <1>7, <1>8, <1>9, <1>10, <1>11, <1>12
     DEF Next, Worker, Editor, Host

-----------------------------------------------------------------------------
\* The outbox keeps saying what the store says.
LEMMA OutboxStep ==
    ASSUME TypeOK, OutboxInv, Next
    PROVE  OutboxInv'
<1>1. ASSUME NEW a \in Apps, ReconcileUpsert(a) PROVE OutboxInv'
  BY Zenon, <1>1 DEF ReconcileUpsert, OutboxInv, Claims, TypeOK
<1>2. ASSUME NEW a \in Apps, ReconcileDelete(a) PROVE OutboxInv'
  BY Zenon, <1>2 DEF ReconcileDelete, OutboxInv, Claims, TypeOK
<1>3. CASE SetRedisConfig
  BY Zenon, <1>3 DEF SetRedisConfig, OutboxInv
<1>4. CASE Broadcast
  BY Zenon, <1>4 DEF Broadcast, OutboxInv
<1>5. CASE UNCHANGED <<outbox, redis, store>>
  BY Zenon, <1>5 DEF OutboxInv
<1>6. CASE Editor
  BY Zenon, <1>5, <1>6 DEF Editor, EditSpec, DeleteSpec
<1>7. ASSUME NEW r \in Recipients, Host(r) \/ SessionExpired(r) PROVE OutboxInv'
  BY Zenon, <1>5, <1>7 DEF Host, RequestFullConfig, FetchFullConfig, ApplyUpdate, SessionStep, StreamClosed,
                    SessionExpired
<1>8. ASSUME NEW s \in Streams, GoroutineStep(s) \/ GoroutineInterrupted(s) PROVE OutboxInv'
  BY Zenon, <1>5, <1>8 DEF GoroutineStep, GoroutineInterrupted
<1> QED
  BY Zenon, <1>1, <1>2, <1>3, <1>4, <1>6, <1>7, <1>8 DEF Next, Worker

\* overlap keeps recording every conflict: storing a configuration looks for one, and
\* deleting one makes none.
LEMMA OverlapStep ==
    ASSUME TypeOK, OverlapInv, Next
    PROVE  OverlapInv'
<1>t. StreamTypeOK(Updates)
  BY Zenon DEF TypeOK
<1>0. ASSUME UNCHANGED <<store, overlap, reply>>,
             \A r \in Recipients : /\ InSession(r)' => InSession(r)
                                   /\ client'[r] = "loading" => client[r] = "loading"
      PROVE  OverlapInv'
  BY Zenon, <1>0 DEF OverlapInv
<1>u. ASSUME UNCHANGED <<store, overlap, reply>>, UNCHANGED client PROVE OverlapInv'
  BY Zenon, <1>u DEF OverlapInv, InSession
<1>1. ASSUME NEW a \in Apps, ReconcileUpsert(a) PROVE OverlapInv'
  <2>1. client' = client /\ reply' = reply
    BY Zenon, <1>1 DEF ReconcileUpsert, streamVars
  <2>2. \A r \in Recipients : overlap'[r] <=> overlap[r] \/ (InSession(r) /\ Contested(store'))
    BY <1>1, Zenon DEF ReconcileUpsert
  <2>3. \A r \in Recipients : InSession(r)' <=> InSession(r)
    BY Zenon, <2>1 DEF InSession
  <2>4. Contested(store)' <=> Contested(store')
    BY Zenon DEF Contested
  <2> QED
    BY Zenon, <2>1, <2>2, <2>3, <2>4 DEF OverlapInv
<1>2. ASSUME NEW a \in Apps, ReconcileDelete(a) PROVE OverlapInv'
  <2>1. client' = client /\ reply' = reply /\ overlap' = overlap
    BY Zenon, <1>2 DEF ReconcileDelete, streamVars, hostVars
  <2>2. \A b \in Apps : Claims(store'[b]) \subseteq Claims(store[b])
    BY Zenon, <1>2 DEF ReconcileDelete, Claims, TypeOK
  <2>3. Contested(store)' => Contested(store)
    BY Zenon, <2>2 DEF Contested
  <2> QED
    BY Zenon, <2>1, <2>3 DEF OverlapInv, InSession
<1>3. CASE SetRedisConfig \/ Broadcast \/ Editor
  BY Zenon, <1>3, <1>u DEF SetRedisConfig, Broadcast, Editor, EditSpec, DeleteSpec, BroadcastUpdate, streamVars,
                    hostVars
<1>4. ASSUME NEW r \in Recipients, RequestFullConfig(r) PROVE OverlapInv'
  <2> SUFFICES ASSUME NEW q \in Recipients, InSession(q)', ~overlap'[q]
               PROVE  ~Contested(store) /\ (client'[q] = "loading" => ~Contested(reply'[q].apps))
    BY Zenon, <1>4 DEF OverlapInv, RequestFullConfig, Contested
  <2>1. CASE q = r
    <3>1. overlap'[r] <=> Contested(store)
      <4>1. overlap' = [overlap EXCEPT ![r] = Contested(store)] /\ DOMAIN overlap = Recipients
        BY Zenon, <1>4 DEF RequestFullConfig, TypeOK
      <4> QED
        BY <4>1, Zenon
    <3>2. reply'[r].apps = store
      BY Zenon, <1>4 DEF RequestFullConfig, TypeOK
    <3> QED
      BY Zenon, <2>1, <3>1, <3>2
  <2>2. CASE q # r
    <3>1. client'[q] = client[q] /\ reply'[q] = reply[q]
      BY Zenon, <1>4, <2>2 DEF RequestFullConfig, ServeSnapshot, TypeOK, StreamTypeOK
    <3>2. ~overlap[q]
      BY Zenon, <1>4, <2>2 DEF RequestFullConfig, TypeOK
    <3> QED
      BY Zenon, <3>1, <3>2 DEF OverlapInv, InSession
  <2> QED
    BY Zenon, <2>1, <2>2
<1>5. ASSUME NEW r \in Recipients, FetchFullConfig(r) PROVE OverlapInv'
  <2>1. /\ store' = store /\ overlap' = overlap /\ SessionMoves(r)
        /\ client'[r] = "loaded"
        /\ \A q \in Recipients : q # r => reply'[q] = reply[q]
    BY Zenon, <1>5 DEF FetchFullConfig, SessionMoves, LoadSnapshot, TypeOK, StreamTypeOK
  <2>2. \A q \in Recipients : /\ InSession(q)' => InSession(q)
                              /\ client'[q] = "loading" => client[q] = "loading"
    BY Zenon, <1>t, <2>1, ClientMoves
  <2> QED
    BY Zenon, <2>1, <2>2 DEF OverlapInv
<1>6. ASSUME NEW r \in Recipients, ApplyUpdate(r) \/ SessionStep(r) PROVE OverlapInv'
  <2>1. UNCHANGED <<store, overlap, reply>> /\ (Receive(r) \/ SessionMoves(r))
    BY Zenon, <1>6 DEF ApplyUpdate, SessionStep, SessionMoves, hostVars
  <2> QED
    BY Zenon, <1>t, <1>0, <2>1, ClientMoves
<1>7. ASSUME NEW r \in Recipients, StreamClosed(r) \/ SessionExpired(r) PROVE OverlapInv'
  <2>1. /\ store' = store /\ SessionMoves(r)
        /\ client'[r] = "backoff"
        /\ \A q \in Recipients : q # r => reply'[q] = reply[q] /\ (overlap'[q] <=> overlap[q])
    BY <1>7 DEF StreamClosed, SessionExpired, StreamEnded, SessionFails, Leave, SessionMoves, TypeOK, StreamTypeOK
  <2>2. \A q \in Recipients : /\ InSession(q)' => InSession(q)
                              /\ client'[q] = "loading" => client[q] = "loading"
    BY Zenon, <1>t, <2>1, ClientMoves
  <2>3. ~InSession(r)'
    BY Zenon, <2>1 DEF InSession
  <2> QED
    BY Zenon, <2>1, <2>2, <2>3 DEF OverlapInv
<1>8. ASSUME NEW s \in Streams, GoroutineStep(s) \/ GoroutineInterrupted(s) PROVE OverlapInv'
  BY Zenon, <1>8, <1>u DEF GoroutineStep, GoroutineInterrupted, Goroutine, RegisterHost, SendUpdate, RecvAck,
                    ChannelClosed, Disconnected, Interrupted, Return, hostVars
<1> QED
  BY Zenon, <1>1, <1>2, <1>3, <1>4, <1>5, <1>6, <1>7, <1>8 DEF Next, Worker, Host

-----------------------------------------------------------------------------
\* What is coming is a sequence of updates.
LEMMA ComingType ==
    ASSUME TypeOK, NEW r \in Recipients
    PROVE  Queued(r) \in Seq(Updates) /\ outbox \in Seq(Updates) /\ Coming(r) \in Seq(Updates)
<1>1. Queued(r) \in Seq(Updates) /\ outbox \in Seq(Updates)
  BY Zenon, QueuedType DEF TypeOK
<1> QED
  BY Zenon, <1>1, ConcatProperties DEF Coming

\* A step after which r still has what it had and the same is coming.
LEMMA DiffFrame ==
    ASSUME NEW r \in Recipients, DiffAt(r), UNCHANGED <<store, redis>>,
           Following(r)' => /\ Following(r) /\ Coming(r)' = Coming(r)
                            /\ HeldRedis(r)' = HeldRedis(r),
           Following(r)' /\ ~overlap'[r] =>
             /\ ~overlap[r]
             /\ \A x \in Topics, a \in Apps : Held(r, x, a)' <=> Held(r, x, a)
    PROVE  DiffAt(r)'
<1> SUFFICES ASSUME Following(r)'
             PROVE  /\ RedisAfter(HeldRedis(r)', Coming(r)') = redis'
                    /\ ~overlap'[r] => \A x \in Topics, a \in Apps :
                         Serves(Held(r, x, a)', Coming(r)', x, a) <=> x \in Claims(store'[a])
  BY Zenon DEF DiffAt, RedisAfter, Serves, Claims
<1>1. RedisAfter(HeldRedis(r)', Coming(r)') = redis'
  BY Zenon DEF DiffAt
<1>2. ASSUME ~overlap'[r], NEW x \in Topics, NEW a \in Apps
      PROVE  Serves(Held(r, x, a)', Coming(r)', x, a) <=> x \in Claims(store'[a])
  <2>1. Serves(Held(r, x, a), Coming(r), x, a) <=> x \in Claims(store[a])
    BY Zenon, <1>2 DEF DiffAt
  <2> QED
    BY Zenon, <1>2, <2>1 DEF Serves
<1> QED
  BY Zenon, <1>1, <1>2

\* The worker changes the store and has update u to broadcast: r is up to date if u
\* says what changed.
LEMMA DiffAppend ==
    ASSUME TypeOK, NEW r \in Recipients, DiffAt(r), UNCHANGED streamVars,
           NEW u \in Updates, outbox = <<>>, outbox' = <<u>>, u.redis = redis',
           UNCHANGED <<reply, table, hostRedis>>, overlap[r] => overlap'[r],
           InSession(r) /\ ~overlap'[r] =>
             \A x \in Topics, a \in Apps :
               x \in Claims(store'[a]) <=> Gives(u, x, a) \/ (x \in Claims(store[a]) /\ Spares(u, x, a))
    PROVE  DiffAt(r)'
<1> SUFFICES ASSUME Following(r)'
             PROVE  /\ RedisAfter(HeldRedis(r)', Coming(r)') = redis'
                    /\ ~overlap'[r] => \A x \in Topics, a \in Apps :
                         Serves(Held(r, x, a)', Coming(r)', x, a) <=> x \in Claims(store'[a])
  BY Zenon DEF DiffAt, RedisAfter, Serves, Claims
<1>1. Following(r) /\ Queued(r)' = Queued(r) /\ client' = client /\ InSession(r)
  BY Zenon, WorkerFrame DEF Following
<1>2. Coming(r) \in Seq(Updates) /\ Queued(r) \in Seq(Updates)
  BY Zenon, ComingType
<1>3. Coming(r) = Queued(r)
  BY Zenon, <1>2, ConcatEmptySeq DEF Coming
<1>4. Coming(r)' = Append(Coming(r), u)
  BY Zenon, <1>1, <1>2, <1>3, AppendIsConcat DEF Coming
<1>5. RedisAfter(HeldRedis(r)', Coming(r)') = redis'
  BY Zenon, <1>2, <1>4, RedisAppend
<1>6. ASSUME ~overlap'[r], NEW x \in Topics, NEW a \in Apps
      PROVE  Serves(Held(r, x, a)', Coming(r)', x, a) <=> x \in Claims(store'[a])
  <2>1. Serves(Held(r, x, a), Coming(r), x, a) <=> x \in Claims(store[a])
    BY Zenon, <1>1, <1>6 DEF DiffAt
  <2>2. Held(r, x, a)' <=> Held(r, x, a)
    BY Zenon, <1>1 DEF Held, Claims
  <2>3. Held(r, x, a) \in BOOLEAN
    BY Zenon DEF Held
  <2>4. Serves(Held(r, x, a), Append(Coming(r), u), x, a)
          <=> Gives(u, x, a) \/ (Serves(Held(r, x, a), Coming(r), x, a) /\ Spares(u, x, a))
    BY Zenon, <1>2, <2>3, ServesAppend
  <2>5. Serves(Held(r, x, a)', Coming(r)', x, a) <=> Serves(Held(r, x, a), Append(Coming(r), u), x, a)
    BY Zenon, <1>4, <2>2 DEF Serves
  <2> QED
    BY Zenon, <1>1, <1>6, <2>1, <2>4, <2>5
<1> QED
  BY Zenon, <1>5, <1>6

\* The worker's steps.
LEMMA DiffWorker ==
    ASSUME TypeOK, OverlapInv, OverlapInv', NEW r \in Recipients, DiffAt(r), Worker
    PROVE  DiffAt(r)'
<1>1. ASSUME NEW a \in Apps, ReconcileUpsert(a) PROVE DiffAt(r)'
  <2> DEFINE u == [app |-> a, topics |-> spec[a], redis |-> redis]
  <2>1. spec[a] \in SUBSET Topics /\ spec[a] # None
    BY Zenon, <1>1 DEF ReconcileUpsert, TypeOK
  <2>2. u \in Updates /\ u.app = a /\ u.topics = spec[a] /\ u.redis = redis
    BY Zenon, <2>1 DEF Updates, TypeOK
  <2>3. /\ UNCHANGED streamVars /\ outbox = <<>> /\ outbox' = <<u>> /\ redis' = redis
        /\ UNCHANGED <<reply, table, hostRedis>>
        /\ store' = [store EXCEPT ![a] = spec[a]]
    BY Zenon, <1>1 DEF ReconcileUpsert
  <2>4. overlap'[r] <=> overlap[r] \/ (InSession(r) /\ Contested(store'))
    BY <1>1, Zenon DEF ReconcileUpsert
  <2> HIDE DEF u
  <2>5. ASSUME InSession(r), ~overlap'[r], NEW x \in Topics, NEW b \in Apps
        PROVE  x \in Claims(store'[b]) <=> Gives(u, x, b) \/ (x \in Claims(store[b]) /\ Spares(u, x, b))
    <3>0. ~Contested(store')
      BY Zenon, <2>4, <2>5
    <3>1. Claims(store'[a]) = spec[a] /\ (b # a => store'[b] = store[b])
      BY Zenon, <2>1, <2>3 DEF Claims, TypeOK
    <3>2. CASE b = a
      BY Zenon, <2>2, <3>1, <3>2, NoneDistinct DEF Gives, Spares
    <3>3. CASE b # a
      <4>1. x \in Claims(store'[b]) => x \notin spec[a]
        BY Zenon, <3>0, <3>1, <3>3 DEF Contested
      <4> QED
        BY Zenon, <2>2, <3>1, <3>3, <4>1, NoneDistinct DEF Gives, Spares
    <3> QED
      BY Zenon, <3>2, <3>3
  <2> QED
    BY Zenon, <2>2, <2>3, <2>4, <2>5, DiffAppend
<1>2. ASSUME NEW a \in Apps, ReconcileDelete(a) PROVE DiffAt(r)'
  <2> DEFINE u == [app |-> a, topics |-> {}, redis |-> redis]
  <2>2. u \in Updates /\ u.app = a /\ u.topics = {} /\ u.redis = redis
    BY Zenon DEF Updates, TypeOK
  <2>3. /\ UNCHANGED streamVars /\ outbox = <<>> /\ outbox' = <<u>> /\ redis' = redis
        /\ UNCHANGED <<reply, table, hostRedis, overlap>>
        /\ store' = [store EXCEPT ![a] = None]
    BY Zenon, <1>2 DEF ReconcileDelete, hostVars
  <2> HIDE DEF u
  <2>5. ASSUME NEW x \in Topics, NEW b \in Apps
        PROVE  x \in Claims(store'[b]) <=> Gives(u, x, b) \/ (x \in Claims(store[b]) /\ Spares(u, x, b))
    <3>1. Claims(store'[a]) = {} /\ (b # a => store'[b] = store[b])
      BY Zenon, <2>3 DEF Claims, TypeOK
    <3>2. CASE b = a
      BY Zenon, <2>2, <3>1, <3>2, NoneDistinct DEF Gives, Spares
    <3>3. CASE b # a
      BY Zenon, <2>2, <3>1, <3>3, NoneDistinct DEF Gives, Spares
    <3> QED
      BY Zenon, <3>2, <3>3
  <2> QED
    BY Zenon, <2>2, <2>3, <2>5, DiffAppend
<1>3. CASE SetRedisConfig
  <2> DEFINE u == [app |-> None, topics |-> {}, redis |-> redis + 1]
  <2>1. redis + 1 \in 0..MaxRotations
    BY <1>3, EditsBounded DEF SetRedisConfig, TypeOK
  <2>2. u \in Updates /\ u.app = None /\ u.topics = {} /\ u.redis = redis + 1
    BY Zenon, <2>1 DEF Updates
  <2>3. /\ UNCHANGED streamVars /\ outbox = <<>> /\ outbox' = <<u>> /\ redis' = redis + 1
        /\ UNCHANGED <<reply, table, hostRedis, overlap, store>>
    BY Zenon, <1>3 DEF SetRedisConfig, hostVars
  <2> HIDE DEF u
  <2>5. ASSUME NEW x \in Topics, NEW b \in Apps
        PROVE  x \in Claims(store'[b]) <=> Gives(u, x, b) \/ (x \in Claims(store[b]) /\ Spares(u, x, b))
    BY Zenon, <2>2, <2>3, NoneDistinct DEF Gives, Spares
  <2> QED
    BY Zenon, <2>2, <2>3, <2>5, DiffAppend
<1>4. CASE Broadcast
  <2>1. outbox # <<>> /\ BroadcastUpdate(outbox[1]) /\ outbox' = <<>>
        /\ UNCHANGED <<store, redis, reply, table, hostRedis, overlap>>
    BY Zenon, <1>4 DEF Broadcast, hostVars
  <2>2. outbox[1] \in Updates /\ outbox = <<outbox[1]>>
    BY Zenon, <2>1, OutboxUpdate
  <2>3. client' = client
    BY Zenon, <2>1 DEF BroadcastUpdate
  <2>4. ASSUME Following(r)' PROVE Following(r) /\ Coming(r)' = Coming(r)
    <3>1. Following(r) /\ Queued(r)' = Append(Queued(r), outbox[1])
      BY Zenon, <2>1, <2>2, <2>4, BroadcastQueues DEF TypeOK
    <3>2. Queued(r) \in Seq(Updates) /\ Append(Queued(r), outbox[1]) \in Seq(Updates)
      BY Zenon, <2>2, ComingType, AppendProperties
    <3>3. Coming(r)' = Append(Queued(r), outbox[1])
      BY Zenon, <2>1, <3>1, <3>2, ConcatEmptySeq DEF Coming
    <3>4. Coming(r) = Append(Queued(r), outbox[1])
      BY Zenon, <2>2, <3>2, AppendIsConcat DEF Coming
    <3> QED
      BY Zenon, <3>1, <3>3, <3>4
  <2>5. HeldRedis(r)' = HeldRedis(r) /\ \A x \in Topics, a \in Apps : Held(r, x, a)' <=> Held(r, x, a)
    BY Zenon, <2>1, <2>3 DEF HeldRedis, Held, Claims
  <2> QED
    BY Zenon, <2>1, <2>4, <2>5, DiffFrame
<1> QED
  BY Zenon, <1>1, <1>2, <1>3, <1>4 DEF Worker

\* A snapshot starts from the store, with the update about to be broadcast coming.
LEMMA DiffRequest ==
    ASSUME TypeOK, SessionInv, OutboxInv, OverlapInv, NEW r \in Recipients, DiffAt(r),
           NEW q \in Recipients, RequestFullConfig(q)
    PROVE  DiffAt(r)'
<1>0. StreamTypeOK(Updates)
  BY Zenon DEF TypeOK
<1>1. /\ ServeSnapshot(q) /\ UNCHANGED <<store, redis, outbox, table, hostRedis>>
      /\ reply' = [reply EXCEPT ![q] = [apps |-> store, redis |-> redis]]
      /\ overlap' = [overlap EXCEPT ![q] = Contested(store)]
  BY Zenon DEF RequestFullConfig
<1>2. CASE r # q
  <2>1. reply'[r] = reply[r] /\ (overlap'[r] <=> overlap[r])
    BY Zenon, <1>1, <1>2 DEF TypeOK
  <2>2. Following(r)' => Following(r) /\ Queued(r)' = Queued(r) /\ client'[r] = client[r]
    BY Zenon, <1>0, <1>1, <1>2, SnapshotQueues
  <2>3. Following(r)' => /\ Coming(r)' = Coming(r) /\ HeldRedis(r)' = HeldRedis(r)
                         /\ \A x \in Topics, a \in Apps : Held(r, x, a)' <=> Held(r, x, a)
    BY <1>1, <2>1, <2>2 DEF Coming, HeldRedis, Held, Claims
  <2> QED
    BY Zenon, <1>1, <2>1, <2>2, <2>3, DiffFrame
<1>3. CASE r = q
  <2> SUFFICES ASSUME Following(r)'
               PROVE  /\ RedisAfter(HeldRedis(r)', Coming(r)') = redis'
                      /\ ~overlap'[r] => \A x \in Topics, a \in Apps :
                           Serves(Held(r, x, a)', Coming(r)', x, a) <=> x \in Claims(store'[a])
    BY Zenon DEF DiffAt, RedisAfter, Serves, Claims
  <2>1. Queued(r)' = <<>> /\ client'[r] = "loading"
    BY Zenon, <1>0, <1>1, <1>3, SnapshotQueues
  <2>2. outbox \in Seq(Updates)
    BY Zenon DEF TypeOK
  <2>3. Coming(r)' = outbox
    BY Zenon, <1>1, <2>1, <2>2, ConcatEmptySeq DEF Coming
  <2>4. reply'[r].redis = redis /\ reply'[r].apps = store
    BY Zenon, <1>1, <1>3 DEF TypeOK
  <2>5. (overlap'[r] <=> Contested(store))
    <3>1. DOMAIN overlap = Recipients
      BY Zenon DEF TypeOK
    <3> QED
      BY <1>1, <1>3, <3>1, Zenon
  <2>6. HeldRedis(r)' = redis /\ \A x \in Topics, a \in Apps : Held(r, x, a)' <=> x \in Claims(store[a])
    BY Zenon, <2>1, <2>4 DEF HeldRedis, Held, Claims
  <2>7. CASE outbox = <<>>
    BY <1>1, <2>3, <2>6, <2>7 DEF RedisAfter, Serves
  <2>8. CASE outbox # <<>>
    <3>1. outbox[1] \in Updates /\ outbox = <<outbox[1]>>
      BY Zenon, <2>8, OutboxUpdate
    <3>2. RedisAfter(HeldRedis(r)', Coming(r)') = redis'
      BY Zenon, <1>1, <2>3, <2>8, <3>1 DEF RedisAfter, OutboxInv
    <3>3. ASSUME ~Contested(store), NEW x \in Topics, NEW a \in Apps
          PROVE  Serves(Held(r, x, a)', Coming(r)', x, a) <=> x \in Claims(store[a])
      <4> DEFINE u == outbox[1]
      <4>1. Serves(Held(r, x, a)', Coming(r)', x, a) <=> Gives(u, x, a) \/ (x \in Claims(store[a]) /\ Spares(u, x, a))
        <5>1. DOMAIN outbox = {1}
          BY <3>1
        <5> QED
          BY <2>3, <2>6, <5>1 DEF Serves
      <4>2. u.app = None \/ (u.app \in Apps /\ u.topics = Claims(store[u.app]))
        BY Zenon, <2>8, <3>1 DEF OutboxInv, Updates
      <4>3. CASE u.app = None
        BY Zenon, <4>1, <4>3, NoneDistinct DEF Gives, Spares
      <4>4. CASE u.app \in Apps /\ u.topics = Claims(store[u.app])
        <5>1. u.app # a /\ x \in Claims(store[a]) => x \notin u.topics
          BY Zenon, <3>3, <4>4 DEF Contested
        <5> QED
          BY Zenon, <4>1, <4>4, <5>1, NoneDistinct DEF Gives, Spares
      <4> QED
        BY Zenon, <4>2, <4>3, <4>4
    <3> QED
      BY Zenon, <1>1, <2>5, <3>2, <3>3
  <2> QED
    BY Zenon, <2>7, <2>8
<1> QED
  BY Zenon, <1>2, <1>3

\* Applying the snapshot changes where what was held is, not what it is.
LEMMA DiffFetch ==
    ASSUME TypeOK, SessionInv, OutboxInv, OverlapInv, NEW r \in Recipients, DiffAt(r),
           NEW q \in Recipients, FetchFullConfig(q)
    PROVE  DiffAt(r)'
<1>0. StreamTypeOK(Updates)
  BY Zenon DEF TypeOK
<1>1. PICK t \in FullConfigTables(reply[q].apps) : table' = [table EXCEPT ![q] = t]
  BY Zenon DEF FetchFullConfig
<1>2. /\ LoadSnapshot(q) /\ SessionMoves(q) /\ UNCHANGED <<store, redis, outbox, overlap>>
      /\ hostRedis' = [hostRedis EXCEPT ![q] = reply[q].redis]
      /\ reply' = [reply EXCEPT ![q] = NoReply]
  BY Zenon DEF FetchFullConfig, SessionMoves
<1>3. Following(r)' => Following(r) /\ Queued(r)' = Queued(r)
  BY Zenon, <1>0, <1>2, SessionQueues
<1>4. Following(r)' => Coming(r)' = Coming(r)
  BY Zenon, <1>2, <1>3 DEF Coming
<1>5. CASE r # q
  <2>1. table'[r] = table[r] /\ hostRedis'[r] = hostRedis[r] /\ reply'[r] = reply[r] /\ client'[r] = client[r]
    BY Zenon, <1>1, <1>2, <1>5 DEF TypeOK, LoadSnapshot, StreamTypeOK
  <2>2. HeldRedis(r)' = HeldRedis(r) /\ \A x \in Topics, a \in Apps : Held(r, x, a)' <=> Held(r, x, a)
    BY Zenon, <2>1 DEF HeldRedis, Held, Claims
  <2> QED
    BY Zenon, <1>2, <1>3, <1>4, <2>2, DiffFrame
<1>6. CASE r = q
  <2>1. table'[r] = t /\ hostRedis'[r] = reply[r].redis /\ client[r] = "loading" /\ client'[r] = "loaded"
    BY Zenon, <1>1, <1>2, <1>6 DEF TypeOK, LoadSnapshot, StreamTypeOK
  <2>2. HeldRedis(r)' = HeldRedis(r)
    BY Zenon, <2>1 DEF HeldRedis
  <2>3. ASSUME ~overlap[r], NEW x \in Topics, NEW a \in Apps
        PROVE  Held(r, x, a)' <=> Held(r, x, a)
    <3>1. ~Contested(reply[r].apps)
      BY Zenon, <2>1, <2>3 DEF OverlapInv, InSession
    <3>2. t[x] = a <=> x \in Claims(reply[r].apps[a])
      <4> DEFINE claimants == {b \in Apps : x \in Claims(reply[r].apps[b])}
      <4>1. t[x] \in (IF claimants = {} THEN {None} ELSE claimants)
        BY Zenon, <1>1, <1>6 DEF FullConfigTables
      <4>2. \A b \in claimants : a \in claimants => b = a
        BY Zenon, <3>1 DEF Contested
      <4> QED
        BY Zenon, <4>1, <4>2, NoneDistinct
    <3> QED
      BY Zenon, <2>1, <3>2 DEF Held
  <2> QED
    BY Zenon, <1>2, <1>3, <1>4, <2>2, <2>3, DiffFrame
<1> QED
  BY Zenon, <1>5, <1>6

\* Applying an update moves it from what is coming to what is held.
LEMMA DiffApply ==
    ASSUME TypeOK, SessionInv, OutboxInv, OverlapInv, NEW r \in Recipients, DiffAt(r),
           NEW q \in Recipients, ApplyUpdate(q)
    PROVE  DiffAt(r)'
<1>0. StreamTypeOK(Updates)
  BY Zenon DEF TypeOK
<1> DEFINE u == wire[Stream(q)][1]
<1>1. /\ Receive(q) /\ UNCHANGED <<store, redis, outbox, reply, overlap>>
      /\ table' = [table EXCEPT ![q] = ApplyIncremental(table[q], u)]
      /\ hostRedis' = [hostRedis EXCEPT ![q] = u.redis]
  BY Zenon DEF ApplyUpdate, TypeOK
<1>2. CASE r # q
  <2>1. table'[r] = table[r] /\ hostRedis'[r] = hostRedis[r]
    BY Zenon, <1>1, <1>2 DEF TypeOK
  <2>2. Following(r)' => Following(r) /\ Queued(r)' = Queued(r) /\ client'[r] = client[r]
    BY Zenon, <1>0, <1>1, <1>2, ReceiveQueues
  <2>3. Following(r)' => /\ Coming(r)' = Coming(r) /\ HeldRedis(r)' = HeldRedis(r)
                         /\ \A x \in Topics, a \in Apps : Held(r, x, a)' <=> Held(r, x, a)
    BY Zenon, <1>1, <2>1, <2>2 DEF Coming, HeldRedis, Held, Claims
  <2> QED
    BY Zenon, <1>1, <2>2, <2>3, DiffFrame
<1>3. CASE r = q
  <2> SUFFICES ASSUME Following(r)'
               PROVE  /\ RedisAfter(HeldRedis(r)', Coming(r)') = redis'
                      /\ ~overlap'[r] => \A x \in Topics, a \in Apps :
                           Serves(Held(r, x, a)', Coming(r)', x, a) <=> x \in Claims(store'[a])
    BY Zenon DEF DiffAt, RedisAfter, Serves, Claims
  <2>1. /\ Following(r) /\ Queued(r) = <<u>> \o Queued(r)' /\ u \in Updates
        /\ client[r] = "live" /\ client'[r] = "applying"
    BY Zenon, <1>0, <1>1, <1>3, ReceiveQueues
  <2>2. /\ table[r] \in Tables /\ table'[r] = ApplyIncremental(table[r], u) /\ hostRedis'[r] = u.redis
    BY Zenon, <1>1, <1>3 DEF TypeOK
  <2>3. Queued(r)' \in Seq(Updates) /\ outbox \in Seq(Updates) /\ <<u>> \in Seq(Updates)
    <3>1. Queued(r)' \in Seq(Updates)
      BY Zenon, <1>0, <1>1, <1>3, ReceiveQueues
    <3> QED
      BY <2>1, <3>1 DEF TypeOK
  <2>4. Coming(r)' = Queued(r)' \o outbox /\ Coming(r)' \in Seq(Updates)
    BY Zenon, <1>1, <2>3, ConcatProperties DEF Coming
  <2>5. Coming(r) = <<u>> \o Coming(r)'
    BY <2>1, <2>3, <2>4, ConcatAssociative DEF Coming
  <2> HIDE DEF u
  <2>6. RedisAfter(HeldRedis(r)', Coming(r)') = redis'
    <3>1. RedisAfter(HeldRedis(r), Coming(r)) = redis
      BY Zenon, <2>1 DEF DiffAt
    <3>2. RedisAfter(HeldRedis(r), Coming(r)) = RedisAfter(u.redis, Coming(r)')
      BY Zenon, <2>1, <2>4, <2>5, RedisFirst
    <3>3. HeldRedis(r)' = u.redis
      BY Zenon, <2>1, <2>2 DEF HeldRedis
    <3> QED
      BY Zenon, <1>1, <3>1, <3>2, <3>3
  <2>7. ASSUME ~overlap'[r], NEW x \in Topics, NEW a \in Apps
        PROVE  Serves(Held(r, x, a)', Coming(r)', x, a) <=> x \in Claims(store'[a])
    <3>1. Serves(Held(r, x, a), Coming(r), x, a) <=> x \in Claims(store[a])
      BY Zenon, <1>1, <2>1, <2>7 DEF DiffAt
    <3>2. Held(r, x, a) <=> table[r][x] = a
      BY Zenon, <2>1 DEF Held
    <3>3. Held(r, x, a)' <=> ApplyIncremental(table[r], u)[x] = a
      BY Zenon, <2>1, <2>2 DEF Held
    <3>4. Serves(table[r][x] = a, <<u>> \o Coming(r)', x, a)
            <=> Serves(ApplyIncremental(table[r], u)[x] = a, Coming(r)', x, a)
      BY Zenon, <2>1, <2>2, <2>4, ServesFirst
    <3>5. Serves(Held(r, x, a), Coming(r), x, a) <=> Serves(table[r][x] = a, <<u>> \o Coming(r)', x, a)
      BY Zenon, <2>5, <3>2 DEF Serves
    <3>6. Serves(Held(r, x, a)', Coming(r)', x, a) <=> Serves(ApplyIncremental(table[r], u)[x] = a, Coming(r)', x, a)
      BY Zenon, <3>3 DEF Serves
    <3> QED
      BY Zenon, <1>1, <3>1, <3>4, <3>5, <3>6
  <2> QED
    BY Zenon, <2>6, <2>7
<1> QED
  BY Zenon, <1>2, <1>3

\* Opening a stream and acknowledging change nothing that is held or coming.
LEMMA DiffSession ==
    ASSUME TypeOK, SessionInv, OutboxInv, OverlapInv, NEW r \in Recipients, DiffAt(r),
           NEW q \in Recipients, SessionStep(q)
    PROVE  DiffAt(r)'
<1>0. StreamTypeOK(Updates)
  BY Zenon DEF TypeOK
<1>1. /\ SessionMoves(q) /\ ~LoadSnapshot(q)
      /\ UNCHANGED <<store, redis, outbox, table, hostRedis, reply, overlap>>
  BY Zenon DEF SessionStep, SessionMoves, hostVars, LoadSnapshot, OpenStream, InitialAck, Ack
<1>2. Following(r)' => Following(r) /\ Queued(r)' = Queued(r) /\ (client'[r] = "loading" <=> client[r] = "loading")
  BY Zenon, <1>0, <1>1, SessionQueues
<1>3. Following(r)' => /\ Coming(r)' = Coming(r) /\ HeldRedis(r)' = HeldRedis(r)
                       /\ \A x \in Topics, a \in Apps : Held(r, x, a)' <=> Held(r, x, a)
  BY Zenon, <1>1, <1>2 DEF Coming, HeldRedis, Held, Claims
<1> QED
  BY Zenon, <1>1, <1>2, <1>3, DiffFrame

\* The end of one session leaves the others' alone.
LEMMA DiffEnd ==
    ASSUME TypeOK, SessionInv, OutboxInv, OverlapInv, NEW r \in Recipients, DiffAt(r),
           NEW q \in Recipients, StreamClosed(q) \/ SessionExpired(q)
    PROVE  DiffAt(r)'
<1>0. StreamTypeOK(Updates)
  BY Zenon DEF TypeOK
<1>1. /\ SessionMoves(q) /\ Leave(q)
      /\ UNCHANGED <<store, redis, outbox, table, hostRedis>>
      /\ reply' = [reply EXCEPT ![q] = NoReply] /\ overlap' = [overlap EXCEPT ![q] = FALSE]
  BY Zenon DEF StreamClosed, SessionExpired, SessionMoves, StreamEnded, SessionFails
<1>2. CASE r = q
  BY Zenon, <1>0, <1>1, <1>2 DEF Leave, DiffAt, Following, InSession, StreamTypeOK
<1>3. CASE r # q
  <2>1. reply'[r] = reply[r] /\ (overlap'[r] <=> overlap[r]) /\ client'[r] = client[r]
    BY Zenon, <1>0, <1>1, <1>3 DEF TypeOK, Leave, StreamTypeOK
  <2>2. Following(r)' => Following(r) /\ Queued(r)' = Queued(r)
    BY Zenon, <1>0, <1>1, SessionQueues
  <2>3. Following(r)' => /\ Coming(r)' = Coming(r) /\ HeldRedis(r)' = HeldRedis(r)
                         /\ \A x \in Topics, a \in Apps : Held(r, x, a)' <=> Held(r, x, a)
    BY <1>1, <2>1, <2>2 DEF Coming, HeldRedis, Held, Claims
  <2> QED
    BY Zenon, <1>1, <2>1, <2>2, <2>3, DiffFrame
<1> QED
  BY Zenon, <1>2, <1>3

\* The host's steps.
LEMMA DiffHost ==
    ASSUME TypeOK, SessionInv, OutboxInv, OverlapInv, NEW r \in Recipients, DiffAt(r),
           NEW q \in Recipients, Host(q) \/ SessionExpired(q)
    PROVE  DiffAt(r)'
BY Zenon, DiffRequest, DiffFetch, DiffApply, DiffSession, DiffEnd DEF Host

\* Every action keeps every session's difference.
LEMMA DiffStep ==
    ASSUME IInv, OverlapInv', Next
    PROVE  DiffInv'
<1> SUFFICES ASSUME NEW r \in Recipients PROVE DiffAt(r)'
  BY Zenon DEF DiffInv
<1>0. TypeOK /\ SessionInv /\ OutboxInv /\ OverlapInv /\ DiffAt(r) /\ StreamTypeOK(Updates)
  BY Zenon DEF IInv, DiffInv, TypeOK
<1>1. CASE Worker
  BY Zenon, <1>0, <1>1, DiffWorker
<1>2. CASE Editor
  <2>1. UNCHANGED streamVars /\ UNCHANGED <<store, redis, outbox, table, hostRedis, reply, overlap>>
    BY Zenon, <1>2 DEF Editor, EditSpec, DeleteSpec, hostVars
  <2>2. (Following(r)' <=> Following(r)) /\ Queued(r)' = Queued(r) /\ client' = client
    BY Zenon, <2>1, WorkerFrame
  <2>3. /\ Coming(r)' = Coming(r) /\ HeldRedis(r)' = HeldRedis(r)
        /\ \A x \in Topics, a \in Apps : Held(r, x, a)' <=> Held(r, x, a)
    BY Zenon, <2>1, <2>2 DEF Coming, HeldRedis, Held, Claims
  <2> QED
    BY Zenon, <1>0, <2>1, <2>2, <2>3, DiffFrame
<1>3. CASE \E q \in Recipients : Host(q) \/ SessionExpired(q)
  BY Zenon, <1>0, <1>3, DiffHost
<1>4. ASSUME NEW s \in Streams, GoroutineStep(s) \/ GoroutineInterrupted(s) PROVE DiffAt(r)'
  <2>1. GoroutineMoves(s) /\ UNCHANGED <<store, redis, outbox, table, hostRedis, reply, overlap>>
    BY Zenon, <1>4 DEF GoroutineStep, GoroutineInterrupted, GoroutineMoves, hostVars
  <2>2. Following(r)' => Following(r) /\ Queued(r)' = Queued(r) /\ client' = client
    BY Zenon, <1>0, <2>1, GoroutineQueues
  <2>3. Following(r)' => /\ Coming(r)' = Coming(r) /\ HeldRedis(r)' = HeldRedis(r)
                         /\ \A x \in Topics, a \in Apps : Held(r, x, a)' <=> Held(r, x, a)
    BY Zenon, <2>1, <2>2 DEF Coming, HeldRedis, Held, Claims
  <2> QED
    BY Zenon, <1>0, <2>1, <2>2, <2>3, DiffFrame
<1> QED
  BY Zenon, <1>1, <1>2, <1>3, <1>4 DEF Next

-----------------------------------------------------------------------------
\* It holds at the start, when no session is open.
LEMMA Initially ==
    ASSUME Init
    PROVE  IInv
<1>1. StreamTypeOK(Updates) /\ SessionInv
  BY Zenon, StreamInitially DEF Init
<1>2. NoReply \in [apps : [Apps -> (SUBSET Topics) \cup {None}], redis : 0..MaxRotations]
  <2>1. [a \in Apps |-> None] \in [Apps -> (SUBSET Topics) \cup {None}] /\ 0 \in 0..MaxRotations
    BY EditsBounded
  <2> QED
    BY Zenon, <2>1 DEF NoReply
<1>3. TypeOK
  BY <1>1, <1>2, EditsBounded DEF Init, TypeOK, Tables
<1>4. \A r \in Recipients : ~InSession(r)
  BY Zenon DEF Init, StreamInit, InSession
<1> QED
  BY Zenon, <1>1, <1>3, <1>4 DEF IInv, OutboxInv, OverlapInv, DiffInv, DiffAt, Following, Init

\* The inductive invariant holds throughout: reconciliations, broadcasts, sessions and
\* goroutines of every interleaving keep types, sessions and differences.
THEOREM Invariance == Spec => []IInv
<1>1. Init => IInv
  BY Zenon, Initially
<1>2. IInv /\ [Next]_vars => IInv'
  <2> SUFFICES ASSUME IInv, [Next]_vars PROVE IInv'
    BY Zenon
  <2>1. CASE Next
    <3>1. TypeOK' /\ SessionInv'
      BY Zenon, <2>1, TypeStep, StreamSteps DEF IInv
    <3>2. OutboxInv' /\ OverlapInv'
      BY Zenon, <2>1, OutboxStep, OverlapStep DEF IInv
    <3>3. DiffInv'
      BY Zenon, <2>1, <3>2, DiffStep
    <3> QED
      BY Zenon, <3>1, <3>2, <3>3 DEF IInv
  <2>2. CASE UNCHANGED vars
    <3>0. UNCHANGED streamVars /\ UNCHANGED <<spec, deleting, edits, store, redis, outbox, reply, table,
                                              hostRedis, overlap>>
      BY Zenon, <2>2 DEF vars
    <3>1. TypeOK'
      BY Zenon, <3>0 DEF IInv, TypeOK, StreamTypeOK, streamVars
    <3>2. SessionInv'
      BY Zenon, <3>0 DEF IInv, SessionInv, EntryInv, FreshInv, ClientInv, TurnInv, streamVars
    <3>3. OutboxInv'
      BY Zenon, <3>0 DEF IInv, OutboxInv
    <3>4. OverlapInv'
      BY Zenon, <3>0 DEF IInv, OverlapInv, InSession, streamVars
    <3>5. ASSUME NEW r \in Recipients PROVE DiffAt(r)'
      <4>1. (Following(r)' <=> Following(r)) /\ Queued(r)' = Queued(r) /\ client' = client
        BY Zenon, <3>0, WorkerFrame
      <4>2. /\ Coming(r)' = Coming(r) /\ HeldRedis(r)' = HeldRedis(r)
            /\ \A x \in Topics, a \in Apps : Held(r, x, a)' <=> Held(r, x, a)
        BY Zenon, <3>0, <4>1 DEF Coming, HeldRedis, Held, Claims
      <4>3. DiffAt(r)
        BY Zenon DEF IInv, DiffInv
      <4> QED
        BY Zenon, <3>0, <4>1, <4>2, <4>3, DiffFrame
    <3> QED
      BY Zenon, <3>1, <3>2, <3>3, <3>4, <3>5 DEF IInv, DiffInv
  <2> QED
    BY Zenon, <2>1, <2>2
<1> QED
  BY <1>1, <1>2, PTL DEF Spec

\* BroadcastUpdate and DeregisterHost never meet a closed channel in the registry:
\* whichever of a host's streams ends, and in whatever order, a channel is closed
\* only in the critical section that takes it out.
THEOREM RegistrySafe == Spec => []RegisteredChannelOpen
<1>1. IInv => RegisteredChannelOpen
  BY Zenon DEF IInv, SessionInv, EntryInv, RegisteredChannelOpen, Registered
<1> QED
  BY <1>1, Invariance, PTL

\* A registered stream carries exactly the difference: for any number of hosts,
\* goroutines per host, channel capacity, applications and topics, the host's tables
\* and what is queued for it give the operator's store and Redis connection.
THEOREM DifferenceCarried == Spec => []StreamCarriesDifference
<1>1. IInv => StreamCarriesDifference
  <2> SUFFICES ASSUME IInv, NEW r \in Recipients, Attached(r), ~missed[r]
               PROVE  /\ RedisAfter(hostRedis[r], Undelivered(r)) = redis
                      /\ ~overlap[r] => \A x \in Topics, a \in Apps :
                           Serves(table[r][x] = a, Undelivered(r), x, a) <=> x \in Claims(store[a])
    BY Zenon DEF StreamCarriesDifference, IInv
  <2>1. InSession(r) /\ client[r] # "loading"
    BY Zenon DEF IInv, SessionInv, ClientInv, Attached, InSession
  <2>2. Following(r)
    BY Zenon, <2>1 DEF Following
  <2>3. Undelivered(r) = Coming(r)
    BY Zenon DEF Undelivered, Coming, Queued
  <2>4. HeldRedis(r) = hostRedis[r] /\ \A x \in Topics, a \in Apps : Held(r, x, a) <=> table[r][x] = a
    BY Zenon, <2>1 DEF HeldRedis, Held
  <2>5. DiffAt(r)
    BY Zenon DEF IInv, DiffInv
  <2>6. RedisAfter(hostRedis[r], Undelivered(r)) = redis
    BY Zenon, <2>2, <2>3, <2>4, <2>5 DEF DiffAt
  <2>7. ASSUME ~overlap[r], NEW x \in Topics, NEW a \in Apps
        PROVE  Serves(table[r][x] = a, Undelivered(r), x, a) <=> x \in Claims(store[a])
    <3>1. Serves(Held(r, x, a), Coming(r), x, a) <=> x \in Claims(store[a])
      BY Zenon, <2>2, <2>5, <2>7 DEF DiffAt
    <3>2. Serves(table[r][x] = a, Undelivered(r), x, a) <=> Serves(Held(r, x, a), Coming(r), x, a)
      BY Zenon, <2>3, <2>4 DEF Serves
    <3> QED
      BY Zenon, <3>1, <3>2
  <2> QED
    BY Zenon, <2>6, <2>7
<1> QED
  BY <1>1, Invariance, PTL
=============================================================================
