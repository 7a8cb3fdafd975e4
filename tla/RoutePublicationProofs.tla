----------------------- MODULE RoutePublicationProofs -----------------------
(***************************************************************************)
(* Proofs about RoutePublication: the types, and that batches which only   *)
(* add or only delete by path lose no stored route of a gateway whose      *)
(* session was undisturbed.                                                *)
(***************************************************************************)
EXTENDS RoutePublication, UpdateStreamProofs

-----------------------------------------------------------------------------
\* Path p leads to application a in gateway r's table or, until it is applied, in
\* the snapshot that will replace it.
Held(r, p, a) == \/ client[r] = "loading" /\ p \in reply[r][a]
                 \/ client[r] # "loading" /\ table[r][p] = a

\* Upserts about to be broadcast are the routes that are stored.
OutboxInv ==
    outbox # <<>> /\ ~outbox[1].delete => outbox[1].paths = routes[outbox[1].app]

\* overlap records every path two applications have had during a session.
OverlapInv ==
    \A r \in Recipients : InSession(r) /\ ~overlap[r] =>
        ~Contested(routes) /\ (client[r] = "loading" => ~Contested(reply[r]))

\* What is still to reach r: queued, or about to be broadcast.
Coming(r) == Queued(r) \o outbox

\* A session that has followed every broadcast gets, with what is coming, every
\* stored route: from its snapshot on, before it is registered as well as after.
ServedAt(r) ==
    Following(r) /\ ~overlap[r] =>
        \A a \in Apps, p \in Paths : p \in routes[a] => RoutedTo(Held(r, p, a), Coming(r), p, a)

ServedInv == \A r \in Recipients : ServedAt(r)

IInv == TypeOK /\ SessionInv /\ OutboxInv /\ OverlapInv /\ ServedInv

-----------------------------------------------------------------------------
\* RoutedTo in terms of the batches that route p to a and those that do not name p.
LEMMA RoutedPrevails ==
    ASSUME NEW o, NEW bs \in Seq(Batches), NEW p, NEW a
    PROVE  RoutedTo(o, bs, p, a)
             <=> Prevails(o, bs, {b \in Batches : Gives(b, p, a)}, {b \in Batches : p \notin b.paths})
<1>1. \A j \in DOMAIN bs : bs[j] \in Batches
  BY LenProperties
<1> QED
  BY Zenon, <1>1 DEF RoutedTo, Prevails

\* One more batch at the end decides the paths it names.
LEMMA RoutedAppend ==
    ASSUME NEW o \in BOOLEAN, NEW bs \in Seq(Batches), NEW b \in Batches, NEW p, NEW a
    PROVE  RoutedTo(o, Append(bs, b), p, a) <=> Gives(b, p, a) \/ (RoutedTo(o, bs, p, a) /\ p \notin b.paths)
<1>1. Append(bs, b) \in Seq(Batches)
  BY AppendProperties
<1> DEFINE G == {v \in Batches : Gives(v, p, a)}
           S == {v \in Batches : p \notin v.paths}
<1>2. Prevails(o, Append(bs, b), G, S) <=> b \in G \/ (Prevails(o, bs, G, S) /\ b \in S)
  BY Zenon, PrevailsAppend
<1> QED
  BY Zenon, <1>1, <1>2, RoutedPrevails

\* The first batch can be applied to the table at once: RoutedTo says what applying
\* the batches one after the other gives.
LEMMA RoutedFirst ==
    ASSUME NEW t \in Tables, NEW bs \in Seq(Batches), NEW b \in Batches,
           NEW p \in Paths, NEW a \in Apps
    PROVE  RoutedTo(t[p] = a, <<b>> \o bs, p, a) <=> RoutedTo(ApplyBatch(t, b)[p] = a, bs, p, a)
<1> DEFINE G == {v \in Batches : Gives(v, p, a)}
           S == {v \in Batches : p \notin v.paths}
<1>1. <<b>> \in Seq(Batches)
  OBVIOUS
<1>2. <<b>> \o bs \in Seq(Batches)
  BY <1>1, ConcatProperties
<1>3. PICK o \in BOOLEAN : o <=> t[p] = a
  BY Zenon
<1>4. PICK c \in BOOLEAN : c <=> ApplyBatch(t, b)[p] = a
  BY Zenon
<1>5. c <=> (o /\ b \in S) \/ b \in G
  BY Zenon, <1>3, <1>4, NoneIsNoApp DEF ApplyBatch, Gives, Tables, Batches
<1>6. Prevails(o, <<b>> \o bs, G, S) <=> Prevails(c, bs, G, S)
  BY Zenon, <1>5, PrevailsFirst
<1>7. RoutedTo(o, <<b>> \o bs, p, a) <=> RoutedTo(c, bs, p, a)
  BY Zenon, <1>2, <1>6, RoutedPrevails
<1> QED
  BY Zenon, <1>3, <1>4, <1>7 DEF RoutedTo

-----------------------------------------------------------------------------
\* Of the actions, as far as sessions are concerned.
LEMMA StreamParts ==
    ASSUME Next
    PROVE  \/ UNCHANGED streamVars
           \/ outbox # <<>> /\ BroadcastUpdate(outbox[1])
           \/ \E r \in Recipients : ServeSnapshot(r) \/ Receive(r) \/ SessionMoves(r)
           \/ \E s \in Streams : GoroutineMoves(s)
<1>1. CASE Worker
  BY Zenon, <1>1 DEF Worker, ReconcileUpsert, ReconcileDelete, RemoveFinalizer, Broadcast
<1>2. CASE Editor
  BY Zenon, <1>2 DEF Editor, EditSpec, DeleteSpec
<1>3. CASE \E r \in Recipients : Gateway(r) \/ SessionExpired(r)
  BY Zenon, <1>3 DEF Gateway, RequestFullRoutes, FetchFullRoutes, ApplyUpdate, SessionStep, StreamClosed,
              SessionExpired, SessionMoves
<1>4. CASE \E s \in Streams : GoroutineStep(s) \/ GoroutineInterrupted(s)
  BY Zenon, <1>4 DEF GoroutineStep, GoroutineInterrupted, GoroutineMoves
<1> QED
  BY Zenon, <1>1, <1>2, <1>3, <1>4 DEF Next

\* The batch the worker is about to broadcast is one.
LEMMA OutboxBatch ==
    ASSUME TypeOK, outbox # <<>>
    PROVE  outbox[1] \in Batches /\ outbox = <<outbox[1]>>
BY Zenon, Singleton DEF TypeOK

\* Every action keeps the sessions well typed and their invariant.
LEMMA StreamSteps ==
    ASSUME TypeOK, SessionInv, Next
    PROVE  StreamTypeOK(Batches)' /\ SessionInv'
<1>0. StreamTypeOK(Batches)
  BY Zenon DEF TypeOK
<1>1. CASE UNCHANGED streamVars
  <2>1. StreamTypeOK(Batches)'
    BY Zenon, <1>0, <1>1 DEF streamVars, StreamTypeOK
  <2>2. SessionInv'
    BY Zenon, <1>1 DEF streamVars, SessionInv, EntryInv, FreshInv, ClientInv, TurnInv
  <2> QED
    BY Zenon, <2>1, <2>2
<1>2. CASE outbox # <<>> /\ BroadcastUpdate(outbox[1])
  <2>1. outbox[1] \in Batches
    BY Zenon, <1>2, OutboxBatch
  <2> QED
    BY Zenon, <1>0, <1>2, <2>1, BroadcastTypes, BroadcastKeeps
<1>3. CASE \E r \in Recipients : ServeSnapshot(r) \/ Receive(r) \/ SessionMoves(r)
  BY Zenon, <1>0, <1>3, SessionTypes, RecipientKeeps
<1>4. CASE \E s \in Streams : GoroutineMoves(s)
  BY Zenon, <1>0, <1>4, GoroutineTypes, GoroutineKeeps
<1> QED
  BY Zenon, <1>1, <1>2, <1>3, <1>4, StreamParts

\* Applying a batch to a table gives a table.
LEMMA ApplyType ==
    ASSUME NEW t \in Tables, NEW b \in Batches
    PROVE  ApplyBatch(t, b) \in Tables
BY Zenon DEF ApplyBatch, Tables, Batches

\* The operator's and the gateways' data keep their types.
LEMMA TypeStep ==
    ASSUME TypeOK, SessionInv, Next
    PROVE  TypeOK'
<1>0. StreamTypeOK(Batches)'
  BY Zenon, StreamSteps
<1>n. <<>> \in Seq(Batches) /\ Len(<<>>) <= 1
  OBVIOUS
<1>u. ASSUME NEW b \in Batches PROVE <<b>> \in Seq(Batches) /\ Len(<<b>>) <= 1
  OBVIOUS
<1>r. NoRoutes \in [Apps -> SUBSET Paths]
  BY Zenon DEF NoRoutes
<1> USE DEF TypeOK, objects, operator, gateway
<1>1. ASSUME NEW a \in Apps, ReconcileUpsert(a) PROVE TypeOK'
  <2>1. overlap' \in [Recipients -> BOOLEAN]
    BY <1>1, Zenon DEF ReconcileUpsert
  <2>2. spec[a] \in SUBSET Paths
    BY Zenon, <1>1 DEF ReconcileUpsert
  <2>3. [app |-> a, paths |-> UpsertsOf(a), delete |-> FALSE] \in Batches
    BY Zenon, <2>2 DEF Batches, UpsertsOf
  <2> QED
    BY Zenon, <1>0, <1>1, <1>u, <2>1, <2>2, <2>3 DEF ReconcileUpsert
<1>2. ASSUME NEW a \in Apps, ReconcileDelete(a) PROVE TypeOK'
  <2>1. [app |-> a, paths |-> routes[a], delete |-> TRUE] \in Batches
    BY Zenon DEF Batches
  <2>2. outbox' \in Seq(Batches) /\ Len(outbox') <= 1
    BY Zenon, <1>2, <1>u, <2>1 DEF ReconcileDelete
  <2> QED
    BY Zenon, <1>0, <1>2, <2>2 DEF ReconcileDelete
<1>3. ASSUME NEW a \in Apps, RemoveFinalizer(a) PROVE TypeOK'
  BY Zenon, <1>0, <1>3 DEF RemoveFinalizer
<1>4. CASE Broadcast
  BY Zenon, <1>0, <1>4, <1>n DEF Broadcast
<1>5. ASSUME NEW a \in Apps, NEW paths \in SUBSET Paths, EditSpec(a, paths) PROVE TypeOK'
  <2>1. edits' \in 0..MaxEdits
    BY <1>5, RouteEditsBounded DEF EditSpec
  <2> QED
    BY Zenon, <1>0, <1>5, <2>1 DEF EditSpec
<1>6. ASSUME NEW a \in Apps, DeleteSpec(a) PROVE TypeOK'
  <2>1. edits' \in 0..MaxEdits
    BY <1>6, RouteEditsBounded DEF DeleteSpec
  <2> QED
    BY Zenon, <1>0, <1>6, <2>1 DEF DeleteSpec
<1>7. ASSUME NEW r \in Recipients, RequestFullRoutes(r) PROVE TypeOK'
  <2>1. PICK b \in BOOLEAN : overlap' = [overlap EXCEPT ![r] = b]
    <3>1. (Contested(routes) \/ DeletesTaken(routes)) \in BOOLEAN
      BY Zenon DEF Contested, DeletesTaken
    <3> QED
      BY <1>7, <3>1, Zenon DEF RequestFullRoutes
  <2>2. overlap' \in [Recipients -> BOOLEAN]
    BY Zenon, <2>1
  <2> QED
    BY Zenon, <1>0, <1>7, <2>2 DEF RequestFullRoutes
<1>8. ASSUME NEW r \in Recipients, FetchFullRoutes(r) PROVE TypeOK'
  <2>1. PICK t \in Tables : table' = [table EXCEPT ![r] = t]
    BY Zenon, <1>8 DEF FetchFullRoutes, FullRouteTables
  <2> QED
    BY Zenon, <1>0, <1>8, <1>r, <2>1 DEF FetchFullRoutes
<1>9. ASSUME NEW r \in Recipients, ApplyUpdate(r) PROVE TypeOK'
  <2>1. wire[Stream(r)][1] \in Batches
    BY Zenon, <1>9, ReceivedUpdate DEF ApplyUpdate
  <2>2. ApplyBatch(table[r], wire[Stream(r)][1]) \in Tables
    BY Zenon, <2>1, ApplyType
  <2> QED
    BY Zenon, <1>0, <1>9, <2>2 DEF ApplyUpdate
<1>10. ASSUME NEW r \in Recipients, SessionStep(r) PROVE TypeOK'
  BY Zenon, <1>0, <1>10 DEF SessionStep
<1>11. ASSUME NEW r \in Recipients, StreamClosed(r) \/ SessionExpired(r) PROVE TypeOK'
  BY Zenon, <1>0, <1>r, <1>11 DEF StreamClosed, SessionExpired, EndSession
<1>12. ASSUME NEW s \in Streams, GoroutineStep(s) \/ GoroutineInterrupted(s) PROVE TypeOK'
  BY Zenon, <1>0, <1>12 DEF GoroutineStep, GoroutineInterrupted
<1> HIDE DEF TypeOK
<1> QED
  BY Zenon, <1>1, <1>2, <1>3, <1>4, <1>5, <1>6, <1>7, <1>8, <1>9, <1>10, <1>11, <1>12
     DEF Next, Worker, Editor, Gateway

-----------------------------------------------------------------------------
\* The outbox keeps saying what the store says.
LEMMA OutboxStep ==
    ASSUME TypeOK, OutboxInv, Next
    PROVE  OutboxInv'
<1>1. ASSUME NEW a \in Apps, ReconcileUpsert(a) PROVE OutboxInv'
  BY Zenon, <1>1 DEF ReconcileUpsert, UpsertsOf, OutboxInv, TypeOK
<1>2. ASSUME NEW a \in Apps, ReconcileDelete(a) PROVE OutboxInv'
  BY Zenon, <1>2 DEF ReconcileDelete, OutboxInv
<1>3. CASE Broadcast
  BY Zenon, <1>3 DEF Broadcast, OutboxInv
<1>4. CASE UNCHANGED <<outbox, routes>>
  BY Zenon, <1>4 DEF OutboxInv
<1>5. ASSUME NEW a \in Apps, RemoveFinalizer(a) PROVE OutboxInv'
  BY Zenon, <1>4, <1>5 DEF RemoveFinalizer
<1>6. CASE Editor
  BY Zenon, <1>4, <1>6 DEF Editor, EditSpec, DeleteSpec
<1>7. ASSUME NEW r \in Recipients, Gateway(r) \/ SessionExpired(r) PROVE OutboxInv'
  BY Zenon, <1>4, <1>7 DEF Gateway, RequestFullRoutes, FetchFullRoutes, ApplyUpdate, SessionStep, StreamClosed,
                    SessionExpired, EndSession, operator
<1>8. ASSUME NEW s \in Streams, GoroutineStep(s) \/ GoroutineInterrupted(s) PROVE OutboxInv'
  BY Zenon, <1>4, <1>8 DEF GoroutineStep, GoroutineInterrupted, operator
<1> QED
  BY Zenon, <1>1, <1>2, <1>3, <1>5, <1>6, <1>7, <1>8 DEF Next, Worker

\* overlap keeps recording every path two applications have: storing routes looks for
\* one, and deleting routes makes none.
LEMMA OverlapStep ==
    ASSUME TypeOK, OverlapInv, Next
    PROVE  OverlapInv'
<1>t. StreamTypeOK(Batches)
  BY Zenon DEF TypeOK
<1>0. ASSUME UNCHANGED <<routes, overlap, reply>>,
             \A r \in Recipients : /\ InSession(r)' => InSession(r)
                                   /\ client'[r] = "loading" => client[r] = "loading"
      PROVE  OverlapInv'
  BY Zenon, <1>0 DEF OverlapInv
<1>u. ASSUME UNCHANGED <<routes, overlap, reply>>, UNCHANGED client PROVE OverlapInv'
  BY Zenon, <1>u DEF OverlapInv, InSession
<1>1. ASSUME NEW a \in Apps, ReconcileUpsert(a) PROVE OverlapInv'
  <2>1. client' = client /\ reply' = reply
    BY Zenon, <1>1 DEF ReconcileUpsert, streamVars
  <2>2. \A r \in Recipients : overlap'[r] <=> overlap[r] \/ (InSession(r) /\ Contested(routes'))
    BY <1>1, Zenon DEF ReconcileUpsert
  <2>3. \A r \in Recipients : InSession(r)' <=> InSession(r)
    BY Zenon, <2>1 DEF InSession
  <2>4. Contested(routes)' <=> Contested(routes')
    BY Zenon DEF Contested
  <2> QED
    BY Zenon, <2>1, <2>2, <2>3, <2>4 DEF OverlapInv
<1>2. ASSUME NEW a \in Apps, ReconcileDelete(a) PROVE OverlapInv'
  <2>1. client' = client /\ reply' = reply /\ overlap' = overlap
    BY Zenon, <1>2 DEF ReconcileDelete, streamVars, gateway
  <2>2. \A b \in Apps : routes'[b] \subseteq routes[b]
    BY Zenon, <1>2 DEF ReconcileDelete, TypeOK
  <2>3. Contested(routes)' => Contested(routes)
    BY Zenon, <2>2 DEF Contested
  <2> QED
    BY Zenon, <2>1, <2>3 DEF OverlapInv, InSession
<1>3. CASE Broadcast \/ Editor \/ \E a \in Apps : RemoveFinalizer(a)
  BY Zenon, <1>3, <1>u DEF RemoveFinalizer, Broadcast, Editor, EditSpec, DeleteSpec, BroadcastUpdate, streamVars,
                    gateway
<1>4. ASSUME NEW r \in Recipients, RequestFullRoutes(r) PROVE OverlapInv'
  <2> SUFFICES ASSUME NEW q \in Recipients, InSession(q)', ~overlap'[q]
               PROVE  ~Contested(routes) /\ (client'[q] = "loading" => ~Contested(reply'[q]))
    BY Zenon, <1>4 DEF OverlapInv, RequestFullRoutes, Contested, operator
  <2>1. CASE q = r
    <3>1. overlap'[r] <=> Contested(routes) \/ DeletesTaken(routes)
      <4>1. /\ overlap' = [overlap EXCEPT ![r] = Contested(routes) \/ DeletesTaken(routes)]
            /\ DOMAIN overlap = Recipients
        BY Zenon, <1>4 DEF RequestFullRoutes, TypeOK
      <4> QED
        BY <4>1, Zenon
    <3>2. reply'[r] = routes
      BY Zenon, <1>4 DEF RequestFullRoutes, TypeOK
    <3> QED
      BY Zenon, <2>1, <3>1, <3>2
  <2>2. CASE q # r
    <3>1. client'[q] = client[q] /\ reply'[q] = reply[q]
      BY Zenon, <1>4, <2>2 DEF RequestFullRoutes, ServeSnapshot, TypeOK, StreamTypeOK
    <3>2. ~overlap[q]
      BY Zenon, <1>4, <2>2 DEF RequestFullRoutes, TypeOK
    <3> QED
      BY Zenon, <3>1, <3>2 DEF OverlapInv, InSession
  <2> QED
    BY Zenon, <2>1, <2>2
<1>5. ASSUME NEW r \in Recipients, FetchFullRoutes(r) PROVE OverlapInv'
  <2>1. /\ routes' = routes /\ overlap' = overlap /\ SessionMoves(r)
        /\ client'[r] = "loaded"
        /\ \A q \in Recipients : q # r => reply'[q] = reply[q]
    BY Zenon, <1>5 DEF FetchFullRoutes, SessionMoves, LoadSnapshot, TypeOK, StreamTypeOK, operator
  <2>2. \A q \in Recipients : /\ InSession(q)' => InSession(q)
                              /\ client'[q] = "loading" => client[q] = "loading"
    BY Zenon, <1>t, <2>1, ClientMoves
  <2> QED
    BY Zenon, <2>1, <2>2 DEF OverlapInv
<1>6. ASSUME NEW r \in Recipients, ApplyUpdate(r) \/ SessionStep(r) PROVE OverlapInv'
  <2>1. UNCHANGED <<routes, overlap, reply>> /\ (Receive(r) \/ SessionMoves(r))
    BY Zenon, <1>6 DEF ApplyUpdate, SessionStep, SessionMoves, gateway, operator
  <2> QED
    BY Zenon, <1>t, <1>0, <2>1, ClientMoves
<1>7. ASSUME NEW r \in Recipients, StreamClosed(r) \/ SessionExpired(r) PROVE OverlapInv'
  <2>1. /\ routes' = routes /\ SessionMoves(r)
        /\ client'[r] = "backoff"
        /\ reply' = [reply EXCEPT ![r] = NoRoutes] /\ overlap' = [overlap EXCEPT ![r] = FALSE]
    BY Zenon, <1>7 DEF StreamClosed, SessionExpired, EndSession, StreamEnded, SessionFails, Leave, SessionMoves,
                TypeOK, StreamTypeOK, operator
  <2>2. \A q \in Recipients : q # r => reply'[q] = reply[q] /\ (overlap'[q] <=> overlap[q])
    BY Zenon, <2>1 DEF TypeOK
  <2>3. \A q \in Recipients : /\ InSession(q)' => InSession(q)
                              /\ client'[q] = "loading" => client[q] = "loading"
    BY Zenon, <1>t, <2>1, ClientMoves
  <2>4. ~InSession(r)'
    BY Zenon, <2>1 DEF InSession
  <2> QED
    BY Zenon, <2>1, <2>2, <2>3, <2>4 DEF OverlapInv
<1>8. ASSUME NEW s \in Streams, GoroutineStep(s) \/ GoroutineInterrupted(s) PROVE OverlapInv'
  BY Zenon, <1>8, <1>u DEF GoroutineStep, GoroutineInterrupted, Goroutine, RegisterHost, SendUpdate, RecvAck,
                    ChannelClosed, Disconnected, Interrupted, Return, gateway, operator
<1> QED
  BY Zenon, <1>1, <1>2, <1>3, <1>4, <1>5, <1>6, <1>7, <1>8 DEF Next, Worker, Gateway

-----------------------------------------------------------------------------
\* What is coming is a sequence of batches.
LEMMA ComingType ==
    ASSUME TypeOK, NEW r \in Recipients
    PROVE  Queued(r) \in Seq(Batches) /\ outbox \in Seq(Batches) /\ Coming(r) \in Seq(Batches)
<1>1. Queued(r) \in Seq(Batches) /\ outbox \in Seq(Batches)
  BY Zenon, QueuedType DEF TypeOK
<1> QED
  BY Zenon, <1>1, ConcatProperties DEF Coming

\* A step that takes nothing r had, after which the same is coming.
LEMMA ServedFrame ==
    ASSUME NEW r \in Recipients, ServedAt(r), routes' = routes,
           Following(r)' /\ ~overlap'[r] =>
             /\ Following(r) /\ ~overlap[r] /\ Coming(r)' = Coming(r)
             /\ \A p \in Paths, a \in Apps : Held(r, p, a) => Held(r, p, a)'
    PROVE  ServedAt(r)'
<1> SUFFICES ASSUME Following(r)', ~overlap'[r], NEW a \in Apps, NEW p \in Paths, p \in routes'[a]
             PROVE  RoutedTo(Held(r, p, a)', Coming(r)', p, a)
  BY Zenon DEF ServedAt, RoutedTo, Gives
<1>1. RoutedTo(Held(r, p, a), Coming(r), p, a)
  BY Zenon DEF ServedAt
<1> QED
  BY Zenon, <1>1 DEF RoutedTo

\* The worker changes the store and has batch b to broadcast: r gets every stored
\* route if b names no path another application has.
LEMMA ServedAppend ==
    ASSUME TypeOK, NEW r \in Recipients, ServedAt(r), UNCHANGED streamVars,
           NEW b \in Batches, outbox = <<>>, outbox' = <<b>>,
           UNCHANGED <<reply, table>>, overlap[r] => overlap'[r],
           InSession(r) /\ ~overlap'[r] =>
             \A a \in Apps, p \in Paths :
               p \in routes'[a] => Gives(b, p, a) \/ (p \in routes[a] /\ p \notin b.paths)
    PROVE  ServedAt(r)'
<1> SUFFICES ASSUME Following(r)', ~overlap'[r], NEW a \in Apps, NEW p \in Paths, p \in routes'[a]
             PROVE  RoutedTo(Held(r, p, a)', Coming(r)', p, a)
  BY Zenon DEF ServedAt, RoutedTo, Gives
<1>1. Following(r) /\ Queued(r)' = Queued(r) /\ client' = client /\ InSession(r)
  BY Zenon, WorkerFrame DEF Following
<1>2. Coming(r) \in Seq(Batches) /\ Queued(r) \in Seq(Batches)
  BY Zenon, ComingType
<1>3. Coming(r) = Queued(r)
  BY Zenon, <1>2, ConcatEmptySeq DEF Coming
<1>4. Coming(r)' = Append(Coming(r), b)
  BY Zenon, <1>1, <1>2, <1>3, AppendIsConcat DEF Coming
<1>5. Held(r, p, a)' <=> Held(r, p, a)
  BY Zenon, <1>1 DEF Held
<1>6. Held(r, p, a) \in BOOLEAN
  BY Zenon DEF Held
<1>7. p \in routes[a] => RoutedTo(Held(r, p, a), Coming(r), p, a)
  BY Zenon, <1>1 DEF ServedAt
<1>8. RoutedTo(Held(r, p, a), Append(Coming(r), b), p, a)
        <=> Gives(b, p, a) \/ (RoutedTo(Held(r, p, a), Coming(r), p, a) /\ p \notin b.paths)
  BY Zenon, <1>2, <1>6, RoutedAppend
<1>9. RoutedTo(Held(r, p, a), Append(Coming(r), b), p, a)
  BY Zenon, <1>1, <1>7, <1>8
<1> QED
  BY Zenon, <1>4, <1>5, <1>9 DEF RoutedTo

\* Storing an application's routes: upserts hide nobody's route unless two
\* applications now have the path.
LEMMA ServedUpsert ==
    ASSUME TypeOK, NEW r \in Recipients, ServedAt(r), NEW a \in Apps, ReconcileUpsert(a)
    PROVE  ServedAt(r)'
<1> DEFINE b == [app |-> a, paths |-> spec[a], delete |-> FALSE]
<1>1. spec[a] \in SUBSET Paths
  BY Zenon DEF ReconcileUpsert, TypeOK
<1>2. b \in Batches /\ b.app = a /\ b.paths = spec[a] /\ ~b.delete
  BY Zenon, <1>1 DEF Batches
<1>3. /\ UNCHANGED streamVars /\ outbox = <<>> /\ outbox' = <<b>> /\ UNCHANGED <<reply, table>>
      /\ routes' = [routes EXCEPT ![a] = spec[a]]
  BY Zenon DEF ReconcileUpsert, UpsertsOf
<1>4. overlap'[r] <=> overlap[r] \/ (InSession(r) /\ Contested(routes'))
  BY Zenon DEF ReconcileUpsert
<1> HIDE DEF b
<1>5. ASSUME InSession(r), ~overlap'[r], NEW c \in Apps, NEW p \in Paths, p \in routes'[c]
      PROVE  Gives(b, p, c) \/ (p \in routes[c] /\ p \notin b.paths)
  <2>1. ~Contested(routes')
    BY Zenon, <1>4, <1>5
  <2>2. routes'[a] = spec[a] /\ (c # a => routes'[c] = routes[c])
    BY Zenon, <1>3 DEF TypeOK
  <2>3. CASE c = a
    BY Zenon, <1>2, <1>5, <2>2, <2>3 DEF Gives
  <2>4. CASE c # a
    <3>1. p \notin spec[a]
      BY Zenon, <1>5, <2>1, <2>2, <2>4 DEF Contested
    <3> QED
      BY Zenon, <1>2, <1>5, <2>2, <2>4, <3>1
  <2> QED
    BY Zenon, <2>3, <2>4
<1> QED
  BY Zenon, <1>2, <1>3, <1>4, <1>5, ServedAppend

\* Deleting an application's routes: nobody else has the paths deleted.
LEMMA ServedDelete ==
    ASSUME TypeOK, OverlapInv, NEW r \in Recipients, ServedAt(r), NEW a \in Apps, ReconcileDelete(a)
    PROVE  ServedAt(r)'
<1> DEFINE b == [app |-> a, paths |-> routes[a], delete |-> TRUE]
<1>2. b \in Batches /\ b.paths = routes[a]
  BY Zenon DEF Batches, TypeOK
<1>3. /\ UNCHANGED streamVars /\ outbox = <<>> /\ outbox' = <<b>> /\ UNCHANGED <<reply, table, overlap>>
      /\ routes' = [routes EXCEPT ![a] = {}]
  BY Zenon DEF ReconcileDelete, gateway
<1> HIDE DEF b
<1>5. ASSUME InSession(r), ~overlap'[r], NEW c \in Apps, NEW p \in Paths, p \in routes'[c]
      PROVE  p \in routes[c] /\ p \notin b.paths
  <2>1. ~Contested(routes)
    BY Zenon, <1>3, <1>5 DEF OverlapInv
  <2>2. routes'[a] = {} /\ (c # a => routes'[c] = routes[c])
    BY Zenon, <1>3 DEF TypeOK
  <2>3. c # a /\ p \in routes[c]
    BY Zenon, <1>5, <2>2
  <2> QED
    BY Zenon, <1>2, <2>1, <2>3 DEF Contested
<1> QED
  BY Zenon, <1>2, <1>3, <1>5, ServedAppend

\* A broadcast moves the batch from the worker to the queue.
LEMMA ServedBroadcast ==
    ASSUME TypeOK, NEW r \in Recipients, ServedAt(r), Broadcast
    PROVE  ServedAt(r)'
<1>1. outbox # <<>> /\ BroadcastUpdate(outbox[1]) /\ outbox' = <<>>
      /\ UNCHANGED <<routes, reply, table, overlap>>
  BY Zenon DEF Broadcast, gateway
<1>2. outbox[1] \in Batches /\ outbox = <<outbox[1]>>
  BY Zenon, <1>1, OutboxBatch
<1>3. client' = client
  BY Zenon, <1>1 DEF BroadcastUpdate
<1>4. ASSUME Following(r)' PROVE Following(r) /\ Coming(r)' = Coming(r)
  <2>1. Following(r) /\ Queued(r)' = Append(Queued(r), outbox[1])
    BY Zenon, <1>1, <1>2, <1>4, BroadcastQueues DEF TypeOK
  <2>2. Queued(r) \in Seq(Batches) /\ Append(Queued(r), outbox[1]) \in Seq(Batches)
    BY Zenon, <1>2, ComingType, AppendProperties
  <2>3. Coming(r)' = Append(Queued(r), outbox[1])
    BY Zenon, <1>1, <2>1, <2>2, ConcatEmptySeq DEF Coming
  <2>4. Coming(r) = Append(Queued(r), outbox[1])
    BY Zenon, <1>2, <2>2, AppendIsConcat DEF Coming
  <2> QED
    BY Zenon, <2>1, <2>3, <2>4
<1>5. \A p \in Paths, a \in Apps : Held(r, p, a)' <=> Held(r, p, a)
  BY Zenon, <1>1, <1>3 DEF Held
<1> QED
  BY Zenon, <1>1, <1>4, <1>5, ServedFrame

\* A snapshot starts from the stored routes; the batch about to be broadcast takes none
\* of them, unless it deletes a path somebody has again.
LEMMA ServedRequest ==
    ASSUME TypeOK, SessionInv, OutboxInv, NEW r \in Recipients, ServedAt(r),
           NEW q \in Recipients, RequestFullRoutes(q)
    PROVE  ServedAt(r)'
<1>0. StreamTypeOK(Batches)
  BY Zenon DEF TypeOK
<1>1. /\ ServeSnapshot(q) /\ UNCHANGED <<routes, outbox, table>>
      /\ reply' = [reply EXCEPT ![q] = routes]
      /\ overlap' = [overlap EXCEPT ![q] = Contested(routes) \/ DeletesTaken(routes)]
  BY Zenon DEF RequestFullRoutes, operator
<1>2. CASE r # q
  <2>1. reply'[r] = reply[r] /\ (overlap'[r] <=> overlap[r])
    BY Zenon, <1>1, <1>2 DEF TypeOK
  <2>2. Following(r)' => Following(r) /\ Queued(r)' = Queued(r) /\ client'[r] = client[r]
    BY Zenon, <1>0, <1>1, <1>2, SnapshotQueues
  <2>3. Following(r)' => /\ Coming(r)' = Coming(r)
                         /\ \A p \in Paths, a \in Apps : Held(r, p, a)' <=> Held(r, p, a)
    BY Zenon, <1>1, <2>1, <2>2 DEF Coming, Held
  <2> QED
    BY Zenon, <1>1, <2>1, <2>2, <2>3, ServedFrame
<1>3. CASE r = q
  <2> SUFFICES ASSUME Following(r)', ~overlap'[r], NEW a \in Apps, NEW p \in Paths, p \in routes'[a]
               PROVE  RoutedTo(Held(r, p, a)', Coming(r)', p, a)
    BY Zenon DEF ServedAt, RoutedTo, Gives
  <2>1. Queued(r)' = <<>> /\ client'[r] = "loading"
    BY Zenon, <1>0, <1>1, <1>3, SnapshotQueues
  <2>2. outbox \in Seq(Batches)
    BY Zenon DEF TypeOK
  <2>3. Coming(r)' = outbox
    BY Zenon, <1>1, <2>1, <2>2, ConcatEmptySeq DEF Coming
  <2>4. p \in routes[a] /\ reply'[r] = routes
    BY Zenon, <1>1, <1>3 DEF TypeOK
  <2>5. ~Contested(routes) /\ ~DeletesTaken(routes)
    <3>1. DOMAIN overlap = Recipients
      BY Zenon DEF TypeOK
    <3> QED
      BY <1>1, <1>3, <3>1, Zenon
  <2>6. Held(r, p, a)'
    BY Zenon, <2>1, <2>4 DEF Held
  <2>7. CASE outbox = <<>>
    BY <2>3, <2>6, <2>7 DEF RoutedTo
  <2>8. CASE outbox # <<>>
    <3>1. outbox[1] \in Batches /\ outbox = <<outbox[1]>>
      BY Zenon, <2>8, OutboxBatch
    <3>2. DOMAIN outbox = {1}
      BY <3>1
    <3>3. CASE outbox[1].delete
      <4>1. p \notin outbox[1].paths
        BY Zenon, <2>4, <2>5, <3>2, <3>3 DEF DeletesTaken, Claimants
      <4> QED
        BY Zenon, <2>3, <2>6, <3>2, <4>1 DEF RoutedTo
    <3>4. CASE ~outbox[1].delete
      <4>1. outbox[1].app \in Apps /\ outbox[1].paths = routes[outbox[1].app]
        BY Zenon, <2>8, <3>1, <3>4 DEF OutboxInv, Batches
      <4>2. CASE outbox[1].app = a
        <5>1. Gives(outbox[1], p, a)
          BY Zenon, <2>4, <3>4, <4>1, <4>2 DEF Gives
        <5>2. \A j \in {1} : ~(j > 1)
          OBVIOUS
        <5> QED
          BY Zenon, <2>3, <3>2, <5>1, <5>2 DEF RoutedTo
      <4>3. CASE outbox[1].app # a
        <5>1. p \notin outbox[1].paths
          BY Zenon, <2>4, <2>5, <4>1, <4>3 DEF Contested
        <5> QED
          BY Zenon, <2>3, <2>6, <3>2, <5>1 DEF RoutedTo
      <4> QED
        BY Zenon, <4>2, <4>3
    <3> QED
      BY Zenon, <3>3, <3>4
  <2> QED
    BY Zenon, <2>7, <2>8
<1> QED
  BY Zenon, <1>2, <1>3

\* The table that replaces a snapshot has its routes, if no path is in it twice.
LEMMA ServedFetch ==
    ASSUME TypeOK, SessionInv, OverlapInv, NEW r \in Recipients, ServedAt(r),
           NEW q \in Recipients, FetchFullRoutes(q)
    PROVE  ServedAt(r)'
<1>0. StreamTypeOK(Batches)
  BY Zenon DEF TypeOK
<1>1. PICK t \in FullRouteTables(reply[q]) : table' = [table EXCEPT ![q] = t]
  BY Zenon DEF FetchFullRoutes
<1>2. /\ LoadSnapshot(q) /\ SessionMoves(q) /\ UNCHANGED <<routes, outbox, overlap>>
      /\ reply' = [reply EXCEPT ![q] = NoRoutes]
  BY Zenon DEF FetchFullRoutes, SessionMoves, operator
<1>3. Following(r)' => Following(r) /\ Queued(r)' = Queued(r)
  BY Zenon, <1>0, <1>2, SessionQueues
<1>4. Following(r)' => Coming(r)' = Coming(r)
  BY Zenon, <1>2, <1>3 DEF Coming
<1>5. CASE r # q
  <2>1. table'[r] = table[r] /\ reply'[r] = reply[r] /\ client'[r] = client[r]
    BY Zenon, <1>1, <1>2, <1>5 DEF TypeOK, LoadSnapshot, StreamTypeOK
  <2>2. \A p \in Paths, a \in Apps : Held(r, p, a)' <=> Held(r, p, a)
    BY Zenon, <2>1 DEF Held
  <2> QED
    BY Zenon, <1>2, <1>3, <1>4, <2>2, ServedFrame
<1>6. CASE r = q
  <2>1. table'[r] = t /\ client[r] = "loading" /\ client'[r] = "loaded"
    BY Zenon, <1>1, <1>2, <1>6 DEF TypeOK, LoadSnapshot, StreamTypeOK
  <2>2. ASSUME ~overlap[r], NEW p \in Paths, NEW a \in Apps, Held(r, p, a)
        PROVE  Held(r, p, a)'
    <3>1. ~Contested(reply[r])
      BY Zenon, <2>1, <2>2 DEF OverlapInv, InSession
    <3>2. p \in reply[r][a]
      BY Zenon, <2>1, <2>2 DEF Held
    <3>3. a \in Claimants(reply[r], p)
      BY Zenon, <3>2 DEF Claimants
    <3>4. t[p] \in Claimants(reply[r], p)
      BY Zenon, <1>1, <1>6, <3>3 DEF FullRouteTables
    <3>5. t[p] = a
      BY Zenon, <3>1, <3>3, <3>4 DEF Contested, Claimants
    <3> QED
      BY Zenon, <2>1, <3>5 DEF Held
  <2> QED
    BY Zenon, <1>2, <1>3, <1>4, <2>2, ServedFrame
<1> QED
  BY Zenon, <1>5, <1>6

\* Applying a batch moves it from what is coming to the table.
LEMMA ServedApply ==
    ASSUME TypeOK, SessionInv, NEW r \in Recipients, ServedAt(r),
           NEW q \in Recipients, ApplyUpdate(q)
    PROVE  ServedAt(r)'
<1>0. StreamTypeOK(Batches)
  BY Zenon DEF TypeOK
<1> DEFINE b == wire[Stream(q)][1]
<1>1. /\ Receive(q) /\ UNCHANGED <<routes, outbox, reply, overlap>>
      /\ table' = [table EXCEPT ![q] = ApplyBatch(table[q], b)]
  BY Zenon DEF ApplyUpdate, TypeOK, operator
<1>2. CASE r # q
  <2>1. table'[r] = table[r]
    BY Zenon, <1>1, <1>2 DEF TypeOK
  <2>2. Following(r)' => Following(r) /\ Queued(r)' = Queued(r) /\ client'[r] = client[r]
    BY Zenon, <1>0, <1>1, <1>2, ReceiveQueues
  <2>3. Following(r)' => /\ Coming(r)' = Coming(r)
                         /\ \A p \in Paths, a \in Apps : Held(r, p, a)' <=> Held(r, p, a)
    BY Zenon, <1>1, <2>1, <2>2 DEF Coming, Held
  <2> QED
    BY Zenon, <1>1, <2>2, <2>3, ServedFrame
<1>3. CASE r = q
  <2> SUFFICES ASSUME Following(r)', ~overlap'[r], NEW a \in Apps, NEW p \in Paths, p \in routes'[a]
               PROVE  RoutedTo(Held(r, p, a)', Coming(r)', p, a)
    BY Zenon DEF ServedAt, RoutedTo, Gives
  <2>1. /\ Following(r) /\ Queued(r) = <<b>> \o Queued(r)' /\ b \in Batches
        /\ client[r] = "live" /\ client'[r] = "applying"
    BY Zenon, <1>0, <1>1, <1>3, ReceiveQueues
  <2>2. table[r] \in Tables /\ table'[r] = ApplyBatch(table[r], b)
    BY Zenon, <1>1, <1>3 DEF TypeOK
  <2>3. Queued(r)' \in Seq(Batches) /\ outbox \in Seq(Batches) /\ <<b>> \in Seq(Batches)
    <3>1. Queued(r)' \in Seq(Batches)
      BY Zenon, <1>0, <1>1, <1>3, ReceiveQueues
    <3> QED
      BY <2>1, <3>1 DEF TypeOK
  <2>4. Coming(r)' = Queued(r)' \o outbox /\ Coming(r)' \in Seq(Batches)
    BY Zenon, <1>1, <2>3, ConcatProperties DEF Coming
  <2>5. Coming(r) = <<b>> \o Coming(r)'
    BY <2>1, <2>3, <2>4, ConcatAssociative DEF Coming
  <2> HIDE DEF b
  <2>6. RoutedTo(Held(r, p, a), Coming(r), p, a)
    BY Zenon, <1>1, <2>1 DEF ServedAt
  <2>7. (Held(r, p, a) <=> table[r][p] = a) /\ (Held(r, p, a)' <=> ApplyBatch(table[r], b)[p] = a)
    BY Zenon, <2>1, <2>2 DEF Held
  <2>8. RoutedTo(table[r][p] = a, <<b>> \o Coming(r)', p, a)
    BY Zenon, <2>5, <2>6, <2>7 DEF RoutedTo
  <2>9. RoutedTo(ApplyBatch(table[r], b)[p] = a, Coming(r)', p, a)
    BY Zenon, <2>1, <2>2, <2>4, <2>8, RoutedFirst
  <2> QED
    BY Zenon, <2>7, <2>9 DEF RoutedTo
<1> QED
  BY Zenon, <1>2, <1>3

\* The other steps of a session change neither the table nor what is coming.
LEMMA ServedSession ==
    ASSUME TypeOK, SessionInv, NEW r \in Recipients, ServedAt(r),
           NEW q \in Recipients, SessionStep(q)
    PROVE  ServedAt(r)'
<1>0. StreamTypeOK(Batches)
  BY Zenon DEF TypeOK
<1>1. /\ SessionMoves(q) /\ ~LoadSnapshot(q)
      /\ UNCHANGED <<routes, outbox, reply, table, overlap>>
  BY Zenon DEF SessionStep, SessionMoves, operator, gateway, LoadSnapshot, OpenStream, InitialAck, Ack
<1>2. Following(r)' => Following(r) /\ Queued(r)' = Queued(r) /\ (client'[r] = "loading" <=> client[r] = "loading")
  BY Zenon, <1>0, <1>1, SessionQueues
<1>3. Following(r)' => /\ Coming(r)' = Coming(r)
                       /\ \A p \in Paths, a \in Apps : Held(r, p, a)' <=> Held(r, p, a)
  BY Zenon, <1>1, <1>2 DEF Coming, Held
<1> QED
  BY Zenon, <1>1, <1>2, <1>3, ServedFrame

\* The end of one session leaves the others' alone.
LEMMA ServedEnd ==
    ASSUME TypeOK, SessionInv, NEW r \in Recipients, ServedAt(r),
           NEW q \in Recipients, StreamClosed(q) \/ SessionExpired(q)
    PROVE  ServedAt(r)'
<1>0. StreamTypeOK(Batches)
  BY Zenon DEF TypeOK
<1>1. /\ SessionMoves(q) /\ Leave(q) /\ UNCHANGED <<routes, outbox, table>>
      /\ reply' = [reply EXCEPT ![q] = NoRoutes] /\ overlap' = [overlap EXCEPT ![q] = FALSE]
  BY Zenon DEF StreamClosed, SessionExpired, EndSession, SessionMoves, StreamEnded, SessionFails, operator
<1>2. CASE r = q
  BY Zenon, <1>0, <1>1, <1>2 DEF Leave, ServedAt, Following, InSession, StreamTypeOK
<1>3. CASE r # q
  <2>1. reply'[r] = reply[r] /\ (overlap'[r] <=> overlap[r]) /\ client'[r] = client[r]
    BY Zenon, <1>0, <1>1, <1>3 DEF TypeOK, Leave, StreamTypeOK
  <2>2. Following(r)' => Following(r) /\ Queued(r)' = Queued(r)
    BY Zenon, <1>0, <1>1, SessionQueues
  <2>3. Following(r)' => /\ Coming(r)' = Coming(r)
                         /\ \A p \in Paths, a \in Apps : Held(r, p, a)' <=> Held(r, p, a)
    BY Zenon, <1>1, <2>1, <2>2 DEF Coming, Held
  <2> QED
    BY Zenon, <1>1, <2>1, <2>2, <2>3, ServedFrame
<1> QED
  BY Zenon, <1>2, <1>3

\* A step that touches no session, store, table or queue.
LEMMA ServedUnchanged ==
    ASSUME NEW r \in Recipients, ServedAt(r), UNCHANGED streamVars,
           UNCHANGED <<routes, outbox, reply, table, overlap>>
    PROVE  ServedAt(r)'
<1>1. (Following(r)' <=> Following(r)) /\ Queued(r)' = Queued(r) /\ client' = client
  BY Zenon, WorkerFrame
<1>2. /\ Coming(r)' = Coming(r)
      /\ \A p \in Paths, a \in Apps : Held(r, p, a)' <=> Held(r, p, a)
  BY Zenon, <1>1 DEF Coming, Held
<1> QED
  BY Zenon, <1>1, <1>2, ServedFrame

\* Every action keeps every stored route on its way to every session.
LEMMA ServedStep ==
    ASSUME IInv, Next
    PROVE  ServedInv'
<1> SUFFICES ASSUME NEW r \in Recipients PROVE ServedAt(r)'
  BY Zenon DEF ServedInv
<1>0. TypeOK /\ SessionInv /\ OutboxInv /\ OverlapInv /\ ServedAt(r) /\ StreamTypeOK(Batches)
  BY Zenon DEF IInv, ServedInv, TypeOK
<1>1. CASE Worker
  <2>1. ASSUME NEW a \in Apps, RemoveFinalizer(a) PROVE ServedAt(r)'
    BY Zenon, <1>0, <2>1, ServedUnchanged DEF RemoveFinalizer, gateway
  <2> QED
    BY Zenon, <1>0, <1>1, <2>1, ServedBroadcast, ServedUpsert, ServedDelete DEF Worker
<1>2. CASE Editor
  <2>1. UNCHANGED streamVars /\ UNCHANGED <<routes, outbox, reply, table, overlap>>
    BY Zenon, <1>2 DEF Editor, EditSpec, DeleteSpec, gateway
  <2> QED
    BY Zenon, <1>0, <2>1, ServedUnchanged
<1>3. ASSUME NEW q \in Recipients, Gateway(q) \/ SessionExpired(q) PROVE ServedAt(r)'
  BY Zenon, <1>0, <1>3, ServedRequest, ServedFetch, ServedApply, ServedSession, ServedEnd DEF Gateway
<1>4. ASSUME NEW s \in Streams, GoroutineStep(s) \/ GoroutineInterrupted(s) PROVE ServedAt(r)'
  <2>1. GoroutineMoves(s) /\ UNCHANGED <<routes, outbox, reply, table, overlap>>
    BY Zenon, <1>4 DEF GoroutineStep, GoroutineInterrupted, GoroutineMoves, operator, gateway
  <2>2. Following(r)' => Following(r) /\ Queued(r)' = Queued(r) /\ client' = client
    BY Zenon, <1>0, <2>1, GoroutineQueues
  <2>3. Following(r)' => /\ Coming(r)' = Coming(r)
                         /\ \A p \in Paths, a \in Apps : Held(r, p, a)' <=> Held(r, p, a)
    BY Zenon, <2>1, <2>2 DEF Coming, Held
  <2> QED
    BY Zenon, <1>0, <2>1, <2>2, <2>3, ServedFrame
<1> QED
  BY Zenon, <1>1, <1>2, <1>3, <1>4 DEF Next

-----------------------------------------------------------------------------
\* It holds at the start, when no session is open.
LEMMA Initially ==
    ASSUME Init
    PROVE  IInv
<1>1. StreamTypeOK(Batches) /\ SessionInv
  BY Zenon, StreamInitially DEF Init
<1>2. TypeOK
  BY <1>1, RouteEditsBounded DEF Init, TypeOK, Tables, NoRoutes
<1>3. \A r \in Recipients : ~InSession(r)
  BY Zenon DEF Init, StreamInit, InSession
<1> QED
  BY Zenon, <1>1, <1>2, <1>3 DEF IInv, OutboxInv, OverlapInv, ServedInv, ServedAt, Following, Init

\* The inductive invariant holds throughout: reconciliations, broadcasts, sessions and
\* goroutines of every interleaving keep types, sessions and stored routes.
THEOREM Invariance == Spec => []IInv
<1>1. Init => IInv
  BY Zenon, Initially
<1>2. IInv /\ [Next]_vars => IInv'
  <2> SUFFICES ASSUME IInv, [Next]_vars PROVE IInv'
    BY Zenon
  <2>1. CASE Next
    <3>1. TypeOK' /\ SessionInv'
      BY Zenon, <2>1, TypeStep, StreamSteps DEF IInv
    <3>2. OutboxInv' /\ OverlapInv'
      BY Zenon, <2>1, OutboxStep, OverlapStep DEF IInv
    <3>3. ServedInv'
      BY Zenon, <2>1, ServedStep
    <3> QED
      BY Zenon, <3>1, <3>2, <3>3 DEF IInv
  <2>2. CASE UNCHANGED vars
    <3>0. UNCHANGED streamVars /\ UNCHANGED <<spec, deleting, edits, routes, outbox, reply, table, overlap>>
      BY Zenon, <2>2 DEF vars, operator, gateway
    <3>1. TypeOK'
      BY Zenon, <3>0 DEF IInv, TypeOK, StreamTypeOK, streamVars
    <3>2. SessionInv'
      BY Zenon, <3>0 DEF IInv, SessionInv, EntryInv, FreshInv, ClientInv, TurnInv, streamVars
    <3>3. OutboxInv' /\ OverlapInv'
      BY Zenon, <3>0 DEF IInv, OutboxInv, OverlapInv, InSession, streamVars
    <3>4. ServedInv'
      BY Zenon, <3>0, ServedUnchanged DEF IInv, ServedInv
    <3> QED
      BY Zenon, <3>1, <3>2, <3>3, <3>4 DEF IInv
  <2> QED
    BY Zenon, <2>1, <2>2
<1> QED
  BY <1>1, <1>2, PTL DEF Spec

\* Every stored route reaches a gateway whose session is undisturbed: for any number of
\* gateways, goroutines per gateway, channel capacity, applications and paths, the
\* table and the batches queued for it lead each stored path to its application.
THEOREM RoutesServed == Spec => []StoredRoutesServed
<1>1. IInv => StoredRoutesServed
  <2> SUFFICES ASSUME IInv, NEW r \in Recipients, Undisturbed(r), NEW a \in Apps, NEW p \in routes[a]
               PROVE  RoutedTo(table[r][p] = a, Undelivered(r), p, a)
    BY Zenon DEF StoredRoutesServed, IInv
  <2>1. Attached(r) /\ ~missed[r] /\ ~overlap[r]
    BY Zenon DEF Undisturbed
  <2>2. InSession(r) /\ client[r] # "loading"
    BY Zenon, <2>1 DEF IInv, SessionInv, ClientInv, Attached, InSession
  <2>3. Following(r)
    BY Zenon, <2>1, <2>2 DEF Following
  <2>4. p \in Paths
    BY Zenon DEF IInv, TypeOK
  <2>5. Undelivered(r) = Coming(r)
    BY Zenon, <2>1 DEF Undelivered, Coming, Queued
  <2>6. Held(r, p, a) <=> table[r][p] = a
    BY Zenon, <2>2 DEF Held
  <2>7. RoutedTo(Held(r, p, a), Coming(r), p, a)
    BY Zenon, <2>1, <2>3, <2>4 DEF IInv, ServedInv, ServedAt
  <2> QED
    BY Zenon, <2>5, <2>6, <2>7 DEF RoutedTo
<1> QED
  BY <1>1, Invariance, PTL
=============================================================================
