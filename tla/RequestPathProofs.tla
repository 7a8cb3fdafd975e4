------------------------- MODULE RequestPathProofs --------------------------
(***************************************************************************)
(* Proofs about three places on the way of a request, for any value of the *)
(* constants: the requests of the gateway (GatewayRequests), the           *)
(* subscriptions of the execution host (NatsSubscriptions) and the effects *)
(* of a guest's calls (HostEffects).  Init, Next, Spec, TypeOK and vars are*)
(* those of HostEffects.                                                   *)
(***************************************************************************)
EXTENDS GatewayRequests, NatsSubscriptions, HostEffects, FiniteSetTheorems, TLAPS

-----------------------------------------------------------------------------
(* Subscriptions.                                                          *)

\* Whenever no change is unseen, the topics fall in three: tried in vain or not
\* yet tried, which have no subscription; subscribed with the client now
\* published; and not wanted, which have none either.  An unseen change of the
\* client is the only time a subscription of another client may exist.
SubscriptionInv ==
  /\ SubscriptionTypeOK
  /\ connector # "connected" => made < MaxClients
  /\ ~clientNew => \A t \in Topics : subscriptions[t] \in {0, client}
  /\ sub \in {"subscribing", "select"} /\ ~clientNew /\ ~topicsNew =>
       /\ untried \subseteq topics \ failed
       /\ sub = "select" => untried = {}
       /\ \A t \in Topics :
            subscriptions[t] = IF t \in topics \ (untried \cup failed) THEN client ELSE 0

\* Init establishes it.
LEMMA SubscriptionInvInit == SubscriptionInit => SubscriptionInv
<1> SUFFICES ASSUME SubscriptionInit PROVE SubscriptionInv
  BY Zenon
<1> USE DEF SubscriptionInit, NoSubscriptions
<1>1. {clientNew, nats_ready, topicsNew, shutdown, urlNew} \subseteq BOOLEAN  BY Zenon
<1>2. SubscriptionTypeOK  BY <1>1, SubscriptionBounds DEF SubscriptionTypeOK
<1> QED  BY Zenon, <1>2, SubscriptionBounds DEF SubscriptionInv

\* The manager, the configuration and the watcher keep it: what they change is
\* marked unseen in the same step.
LEMMA SubscriptionInvOthers ==
  ASSUME SubscriptionInv,
         \/ Connected \/ ConnectFails \/ BackedOff \/ AuthViolation \/ RotateCredentials
         \/ \E set \in SUBSET Topics : TopicsChange(set)
         \/ UrlChanges \/ RedisWatcher \/ Forward \/ Take \/ ShutdownSignal
  PROVE  SubscriptionInv'
<1> USE SubscriptionBounds DEF SubscriptionInv, SubscriptionTypeOK, connection, desires, watcher,
      subscriber, SubscriberSide, ManagerSide
<1>1. CASE Connected  BY <1>1 DEF Connected
<1>2. CASE ConnectFails \/ BackedOff  BY Zenon, <1>2 DEF ConnectFails, BackedOff
<1>3. CASE AuthViolation
  <2>1. ({clientNew, nats_ready, topicsNew, shutdown, urlNew} \subseteq BOOLEAN)'
    BY Zenon, <1>3 DEF AuthViolation
  <2>2. SubscriptionTypeOK'  BY <1>3, <2>1 DEF AuthViolation
  <2> QED  BY Zenon, <1>3, <2>2 DEF AuthViolation
<1>4. CASE RotateCredentials  BY <1>4 DEF RotateCredentials
<1>5. CASE \E set \in SUBSET Topics : TopicsChange(set)  BY <1>5 DEF TopicsChange
<1>6. CASE UrlChanges  BY <1>6 DEF UrlChanges
<1>9. CASE RedisWatcher  BY Zenon, <1>9 DEF RedisWatcher
<1>7. CASE Forward \/ Take  BY <1>7 DEF Forward, Take
<1>8. CASE ShutdownSignal  BY Zenon, <1>8 DEF ShutdownSignal
<1> QED  BY Zenon, <1>1, <1>2, <1>3, <1>4, <1>5, <1>6, <1>7, <1>8, <1>9

\* The subscription task keeps it, step by step of a reconciliation.
LEMMA SubscriptionInvTask ==
  ASSUME SubscriptionInv, SubscriberStep  PROVE SubscriptionInv'
<1> USE SubscriptionBounds DEF SubscriptionInv, SubscriptionTypeOK, connection, desires, watcher,
      ManagerSide, NoSubscriptions
<1>1. CASE Reconcile
  <2>1. ({clientNew, nats_ready, topicsNew, shutdown, urlNew} \subseteq BOOLEAN)'
    BY Zenon, <1>1 DEF Reconcile
  <2>2. \A t \in Topics :
          subscriptions'[t] = IF clientNew \/ client = 0 \/ t \notin topics THEN 0
                              ELSE subscriptions[t]
    BY Zenon, <1>1 DEF Reconcile
  <2>3. SubscriptionTypeOK'  BY <1>1, <2>1 DEF Reconcile
  <2> QED  BY Zenon, <1>1, <2>2, <2>3 DEF Reconcile
<1>2. CASE ClientChanged
  <2>1. ({clientNew, nats_ready, topicsNew, shutdown, urlNew} \subseteq BOOLEAN)'
    BY Zenon, <1>2 DEF ClientChanged
  <2>2. SubscriptionTypeOK'  BY <1>2, <2>1 DEF ClientChanged
  <2> QED  BY Zenon, <1>2, <2>2 DEF ClientChanged
<1>3. CASE TopicsChanged  BY Zenon, <1>3 DEF TopicsChanged
<1>4. CASE Reconciled  BY Zenon, <1>4 DEF Reconciled
<1>5. CASE Stop  BY <1>5 DEF Stop
<1>6. CASE \E t \in Topics, ok \in BOOLEAN : Subscribe(t, ok)
  BY <1>6 DEF Subscribe
<1> QED  BY Zenon, <1>1, <1>2, <1>3, <1>4, <1>5, <1>6 DEF SubscriberStep

\* Every reachable state of the subscriptions satisfies it.
LEMMA SubscriptionInvHolds == SubscriptionSpec => []SubscriptionInv
<1>1. SubscriptionInv /\ [SubscriptionNext]_subscriptionVars => SubscriptionInv'
  <2> SUFFICES ASSUME SubscriptionInv, [SubscriptionNext]_subscriptionVars PROVE SubscriptionInv'
    BY Zenon
  <2>1. CASE UNCHANGED subscriptionVars
    BY Zenon, <2>1 DEF SubscriptionInv, SubscriptionTypeOK, subscriptionVars, connection, desires, watcher,
         subscriber
  <2> QED  BY Zenon, <2>1, SubscriptionInvOthers, SubscriptionInvTask DEF SubscriptionNext
<1> QED  BY <1>1, SubscriptionInvInit, PTL DEF SubscriptionSpec

\* Whatever order topics, clients and answers come in, a task with nothing left
\* to react to has exactly the wanted subscriptions that did not fail, all of them
\* with the client now published: for any topics and any number of changes.
THEOREM SubscriptionsHold == SubscriptionSpec => []SubscriptionsMatch
<1>1. SubscriptionInv => SubscriptionsMatch
  BY Zenon DEF SubscriptionInv, SubscriptionsMatch, SubscriptionTypeOK
<1> QED  BY <1>1, SubscriptionInvHolds, PTL

-----------------------------------------------------------------------------
(* Effects: the inductive invariants.                                      *)

\* One call at a time, answered once.
CallInv ==
  /\ answer = "ok" => call \in {"over", "finished"}
  /\ kv # "none" => call \in {"kv", "over", "finished"} /\ job = "none"
  /\ job # "none" => call \in {"sql", "over", "finished"}
  /\ call = "kv" => job = "none"

\* TIME was read before the budget was computed, so the deadline sent to the server
\* is never later than the invocation's.
KvInv ==
  /\ kv = "timed" => skew \in Nat /\ server_time \in Nat /\ server_time <= now + skew
  /\ kv = "eval" => skew \in Nat /\ deadline \in Int /\ deadline <= Deadline + skew
  /\ kv = "accepted" => applied # Unset
  /\ KvBeforeDeadline

\* COMMIT is on the wire, or done, only past the last check; and a result of "ok"
\* was read off the backend that had committed, with nothing left on the wire.
SqlInv ==
  /\ early => ~Check /\ job \notin {"committing", "sent"}
  /\ wire = "commit" \/ tx = "committed" => ~early /\ ~BeforeLastCheck
  /\ job \in {"commit", "committing"} => reply # "ok"
  /\ job = "sent" /\ reply = "ok" => tx = "committed" /\ wire = "none"
  /\ result = "ok" => /\ job \in {"after", "terminate", "close", "done"}
                      /\ tx = "committed" /\ wire = "none"
  /\ answer = "ok" => job = "none" \/ (job = "done" /\ result = "ok")

\* A COMMIT that the job left with the backend is one that a broken connection took
\* away, or that the job terminates: it knows the pid from the set-up on.
WireInv ==
  /\ job \in {"statement", "commit", "committing", "sent"} \/ wire = "commit" => backend_pid
  /\ job \in {"commit", "committing"} /\ reply = "err" => lost
  /\ wire = "commit" => /\ reply = "err" => lost
                        /\ job = "after" => lost \/ ~Check
                        /\ job \in {"rollback", "close", "done"} => lost \/ result = "unconfirmed"
  /\ call = "finished" => job \in {"none", "done"}

\* Without a stale rotation only the current credentials are being connected.
PoolInv ==
  ~stale => /\ pool \in {0, want}
            /\ \A v \in Versions : ensure[v] # "none" => v = want

-----------------------------------------------------------------------------
(* Effects: the steps, by the part of the state they leave alone.          *)

KvStep == CallKv \/ ServerTime \/ SendMutation \/ OutOfRange \/ Evaluate \/ KvAnswers
BackendStep == ConnectionBreaks \/ BackendNotices \/ \E ok \in BOOLEAN : BackendExecutes(ok)
CallStep ==
  \/ Start \/ Abandon \/ Finish \/ CallSql \/ SqlAnswers
  \/ Refuse \/ Send
PoolStep ==
  \/ Evicted \/ \E evict \in BOOLEAN : Rotate(evict)
  \/ \E v \in Versions : EnsureStarts(v) \/ \E ok \in BOOLEAN : EnsureConnects(v, ok)

\* The next-state relation regrouped.
LEMMA NextIsSplit ==
  ASSUME Next
  PROVE  Tick \/ Cancel \/ CallStep \/ JobStep \/ BackendStep \/ KvStep \/ PoolStep
  BY Zenon DEF Next, CallStep, BackendStep, KvStep, PoolStep

\* The job touches its own state only.
LEMMA JobFrame ==
  ASSUME JobStep \/ BackendStep
  PROVE  UNCHANGED <<time, guest, mutation, pools, used>>
  BY Zenon DEF JobStep, BackendStep, AcquireConnection, Submit, LastCheck, SubmitCommit, Proceed, Fails, After,
         RolledBack, Close, TerminateBackend, ConnectionBreaks, BackendNotices, BackendExecutes, Elsewhere

\* A host call touches the guest and the state of its own backend.
LEMMA CallFrame ==
  ASSUME CallStep
  PROVE  /\ UNCHANGED <<time, mutation, pools>>
         /\ UNCHANGED <<result, backend_pid, wire, reply, tx, backend, lost>>
  BY Zenon DEF CallStep, Start, Abandon, Finish, CallSql, SqlAnswers, Refuse, Send, sql

\* So does a Redis mutation.
LEMMA KvFrame ==
  ASSUME KvStep
  PROVE  UNCHANGED <<time, sql, pools, used>>
  BY Zenon DEF KvStep, CallKv, ServerTime, SendMutation, OutOfRange, Evaluate, KvAnswers, KvElsewhere

\* The configuration task and the connect tasks touch the pools.
LEMMA PoolFrame ==
  ASSUME PoolStep
  PROVE  UNCHANGED <<time, guest, sql, mutation, used>>
  BY Zenon DEF PoolStep, Evicted, Rotate, EnsureStarts, EnsureConnects, PoolsElsewhere

-----------------------------------------------------------------------------
(* Effects: types.                                                         *)

\* Every step keeps the types.
LEMMA TypeStep ==
  ASSUME TypeOK, Next, kv = "timed" => server_time \in Nat
  PROVE  TypeOK'
<1> USE EffectBounds DEF TypeOK
<1>1. CASE Tick \/ Cancel
  <2>1. UNCHANGED <<guest, sql, mutation, pools, used>>
    BY Zenon, <1>1 DEF Tick, Cancel
  <2>2. now' \in 0..MaxTime
    BY <1>1 DEF Tick, Cancel
  <2>3. cancelled' \in BOOLEAN /\ early' \in BOOLEAN
    BY ZenonT(30), <1>1 DEF Tick, Cancel
  <2>4. QED
    BY <2>1, <2>2, <2>3 DEF guest, sql, mutation, pools
<1>2. CASE CallStep
  BY <1>2 DEF CallStep, Start, Abandon, Finish, CallSql, SqlAnswers, Refuse, Send, Returns,
              time, sql, mutation, pools
<1>3. CASE JobStep
  <2>1. UNCHANGED <<time, guest, mutation, pools, used>>
    BY Zenon, <1>3, JobFrame
  <2>2. /\ job' \in Statements \cup {"none", "acquire", "commit", "committing", "sent", "after",
                                     "terminate", "close", "done"}
        /\ result' \in {"ok", "err", "unconfirmed"}
        /\ wire' \in {"none", "commit"} \cup Statements /\ reply' \in {"none", "ok", "err"}
        /\ tx' \in {"none", "open", "written", "committed", "aborted"}
        /\ backend' \in {"up", "gone"}
    BY <1>3 DEF JobStep, AcquireConnection, Submit, LastCheck, SubmitCommit, Proceed, Fails, After,
                RolledBack, Close, TerminateBackend, Sends, Gone, Statements
  <2>3. backend_pid' \in BOOLEAN /\ lost' \in BOOLEAN
    BY ZenonT(30), <1>3 DEF JobStep, AcquireConnection, Submit, LastCheck, SubmitCommit, Proceed, Fails, After,
                RolledBack, Close, TerminateBackend
  <2>4. QED
    BY <2>1, <2>2, <2>3 DEF time, guest, mutation, pools
<1>4. CASE BackendStep
  <2>1. UNCHANGED <<time, guest, mutation, pools, used>>
    BY Zenon, <1>4, JobFrame
  <2>2. /\ UNCHANGED <<job, result, backend_pid>>
        /\ wire' \in {"none", "commit"} \cup Statements /\ reply' \in {"none", "ok", "err"}
        /\ backend' \in {"up", "gone"}
    BY Zenon, <1>4 DEF BackendStep, ConnectionBreaks, BackendNotices, BackendExecutes, Gone
  <2>3. tx' \in {"none", "open", "written", "committed", "aborted"}
    BY Zenon, <1>4 DEF BackendStep, ConnectionBreaks, BackendNotices, BackendExecutes, Gone, Statements
  <2>4. lost' \in BOOLEAN
    BY Zenon, <1>4 DEF BackendStep, ConnectionBreaks, BackendNotices, BackendExecutes
  <2>5. QED
    BY <2>1, <2>2, <2>3, <2>4 DEF time, guest, mutation, pools
<1>5. CASE KvStep
  <2>1. UNCHANGED <<time, sql, pools, used>>
    BY Zenon, <1>5, KvFrame
  <2>2. /\ call' \in {"none", "started", "sql", "kv", "over", "finished"}
        /\ answer' \in {"none", "ok", "err"}
        /\ kv' \in {"none", "time", "timed", "eval", "accepted", "rejected"}
        /\ skew' \in Skews \cup {Unset}
        /\ server_time' \in Nat \cup {Unset} /\ deadline' \in Nat \cup {Unset}
        /\ applied' \in 0..MaxTime \cup {Unset}
    BY <1>5 DEF KvStep, CallKv, ServerTime, SendMutation, OutOfRange, Evaluate, KvAnswers,
                Returns, mutation, guest, Check
  <2>3. QED
    BY <2>1, <2>2 DEF time, sql, pools
<1>6. CASE PoolStep
  <2>1. UNCHANGED <<time, guest, sql, mutation, used>>
    BY Zenon, <1>6, PoolFrame
  <2>2. want' \in Versions /\ pool' \in 0..MaxVersion /\ config' \in 0..MaxVersion
    <3>1. CASE Evicted
      BY <3>1 DEF Evicted
    <3>2. CASE \E evict \in BOOLEAN : Rotate(evict)
      BY <3>2 DEF Rotate, Versions
    <3>3. CASE \E v \in Versions : EnsureStarts(v)
      BY Zenon, <3>3 DEF EnsureStarts
    <3>4. CASE \E v \in Versions, ok \in BOOLEAN : EnsureConnects(v, ok)
      BY <3>4 DEF EnsureConnects, Versions
    <3>5. QED
      BY Zenon, <1>6, <3>1, <3>2, <3>3, <3>4 DEF PoolStep
  <2>6. closed' \subseteq Versions
    <3>1. pool # 0 => pool \in Versions
      BY DEF Versions
    <3>2. QED
      BY Zenon, <1>6, <3>1 DEF PoolStep, Evicted, Rotate, EnsureStarts, EnsureConnects
  <2>3. ensure' \in [Versions -> {"none", "spawned", "connecting"}]
    BY Zenon, <1>6 DEF PoolStep, Evicted, Rotate, EnsureStarts, EnsureConnects, Spawned
  <2>4. stale' \in BOOLEAN
    BY Zenon, <1>6 DEF PoolStep, Evicted, Rotate, EnsureStarts, EnsureConnects
  <2>5. QED
    BY <2>1, <2>2, <2>6, <2>3, <2>4 DEF time, guest, sql, mutation
<1>7. QED
  BY Zenon, <1>1, <1>2, <1>3, <1>4, <1>5, <1>6, NextIsSplit
-----------------------------------------------------------------------------
(* Effects: calls.                                                         *)

\* Every step keeps CallInv.
LEMMA CallInvStep ==
  ASSUME TypeOK, CallInv, Next
  PROVE  CallInv'
<1> USE DEF CallInv
<1>1. CASE Tick \/ Cancel
  BY Zenon, <1>1 DEF Tick, Cancel, guest, sql, mutation
<1>2. CASE CallStep
  BY Zenon, <1>2 DEF CallStep, Start, Abandon, Finish, CallSql, SqlAnswers, Refuse, Send, Returns, sql, mutation
<1>3. CASE JobStep
  <2>1. UNCHANGED <<guest, mutation>>
    BY Zenon, <1>3, JobFrame
  <2>2. job # "none" /\ job' # "none"
    BY Zenon, <1>3 DEF JobStep, AcquireConnection, Submit, LastCheck, SubmitCommit, Proceed, Fails, After,
                RolledBack, Close, TerminateBackend, Statements
  <2>3. QED
    BY Zenon, <2>1, <2>2 DEF guest, mutation
<1>4. CASE BackendStep
  <2>1. UNCHANGED <<guest, mutation>>
    BY Zenon, <1>4, JobFrame
  <2>2. UNCHANGED job
    BY Zenon, <1>4 DEF BackendStep, ConnectionBreaks, BackendNotices, BackendExecutes
  <2>3. QED
    BY Zenon, <2>1, <2>2 DEF guest, mutation
<1>5. CASE KvStep
  BY Zenon, <1>5 DEF KvStep, CallKv, ServerTime, SendMutation, OutOfRange, Evaluate, KvAnswers,
              KvElsewhere, Returns, guest, sql, mutation
<1>6. CASE PoolStep
  BY Zenon, <1>6, PoolFrame DEF guest, sql, mutation
<1>7. QED
  BY Zenon, <1>1, <1>2, <1>3, <1>4, <1>5, <1>6, NextIsSplit

-----------------------------------------------------------------------------
(* Effects: Redis.                                                         *)

\* Every step keeps KvInv.
LEMMA KvInvStep ==
  ASSUME TypeOK, CallInv, KvInv, Next
  PROVE  KvInv'
<1> USE EffectBounds DEF KvInv, KvBeforeDeadline
<1>n. now \in Nat
  BY DEF TypeOK
<1>1. CASE Tick
  BY <1>1, <1>n DEF Tick, guest, mutation
<1>2. CASE Cancel
  BY Zenon, <1>2 DEF Cancel, guest, mutation
<1>3. CASE CallStep
  <2>1. UNCHANGED <<time, mutation>>
    BY Zenon, <1>3, CallFrame
  <2>2. answer' = "ok" /\ kv # "none" => applied # Unset
    BY Zenon, <1>3 DEF CallStep, Start, Abandon, Finish, CallSql, SqlAnswers, Refuse, Send, Returns, CallInv
  <2>3. QED
    BY Zenon, <2>1, <2>2 DEF time, mutation
<1>4. CASE JobStep \/ BackendStep
  BY Zenon, <1>4, JobFrame DEF time, guest, mutation
<1>5. CASE CallKv
  BY Zenon, <1>5 DEF CallKv, KvElsewhere, time, CallInv
<1>6. CASE ServerTime
  BY <1>6, <1>n DEF ServerTime, KvElsewhere, time, guest
<1>7. CASE SendMutation
  <2>1. UNCHANGED <<now, guest, skew, applied>> /\ kv = "timed" /\ kv' = "eval"
    BY Zenon, <1>7 DEF SendMutation, KvElsewhere, time
  <2>2. deadline' = server_time + (Deadline - now)
    BY Zenon, <1>7 DEF SendMutation
  <2>3. skew \in Nat /\ server_time \in Nat /\ server_time <= now + skew
    BY Zenon, <2>1
  <2>4. deadline' \in Int /\ deadline' <= Deadline + skew
    BY <2>2, <2>3, <1>n
  <2>5. QED
    BY Zenon, <2>1, <2>3, <2>4 DEF guest
<1>8. CASE OutOfRange
  BY Zenon, <1>8 DEF OutOfRange, KvElsewhere, time, mutation, Returns
<1>9. CASE Evaluate
  BY <1>9, <1>n DEF Evaluate, KvElsewhere, time, guest, Unset
<1>10. CASE KvAnswers
  BY Zenon, <1>10 DEF KvAnswers, KvElsewhere, time, mutation, Returns
<1>11. CASE PoolStep
  BY Zenon, <1>11, PoolFrame DEF time, guest, mutation
<1>12. QED
  BY Zenon, <1>1, <1>2, <1>3, <1>4, <1>5, <1>6, <1>7, <1>8, <1>9, <1>10, <1>11, NextIsSplit DEF KvStep

-----------------------------------------------------------------------------
(* Effects: SQL.                                                           *)

\* Every step keeps SqlInv.
LEMMA SqlInvStep ==
  ASSUME TypeOK, CallInv, SqlInv, Next
  PROVE  SqlInv'
<1> USE DEF SqlInv, BeforeLastCheck
<1>1. CASE Tick
  <2>1. ~Check => ~Check'
    BY <1>1, EffectBounds DEF Tick, Check, TypeOK
  <2>2. early' => ~Check'
    BY <1>1, <2>1, EffectBounds DEF Tick, Check, TypeOK
  <2>3. early' => early \/ BeforeLastCheck
    BY ZenonT(30), <1>1 DEF Tick
  <2>4. UNCHANGED <<guest, sql>>
    BY Zenon, <1>1 DEF Tick
  <2>5. QED
    BY Zenon, <2>2, <2>3, <2>4 DEF guest, sql
<1>2. CASE Cancel
  <2>1. early' => ~Check'
    BY Zenon, <1>2 DEF Cancel, Check
  <2>2. early' => early \/ BeforeLastCheck
    BY Zenon, <1>2 DEF Cancel
  <2>3. UNCHANGED <<guest, sql>>
    BY Zenon, <1>2 DEF Cancel
  <2>4. QED
    BY Zenon, <2>1, <2>2, <2>3 DEF guest, sql
<1>3. CASE CallStep
  <2>1. UNCHANGED <<time, result, wire, reply, tx>>
    BY Zenon, <1>3, CallFrame
  <2>2. job' = job \/ (job = "none" /\ job' = "acquire" /\ answer' # "ok")
    BY Zenon, <1>3 DEF CallStep, Start, Abandon, Finish, CallSql, SqlAnswers, Refuse, Send, sql, CallInv
  <2>3. answer' = "ok" => answer = "ok" \/ job = "none" \/ (job = "done" /\ result = "ok")
    BY Zenon, <1>3 DEF CallStep, Start, Abandon, Finish, CallSql, SqlAnswers, Refuse, Send, Returns, CallInv
  <2>4. QED
    BY Zenon, <2>1, <2>2, <2>3 DEF time, Check
<1>4. CASE JobStep
  <2>1. UNCHANGED <<time, guest>>
    BY Zenon, <1>4, JobFrame
  <2>2. job # "none" /\ job # "done"
    BY Zenon, <1>4 DEF JobStep, AcquireConnection, Submit, LastCheck, SubmitCommit, Proceed, Fails, After,
                RolledBack, Close, TerminateBackend, Statements
  <2>3. CASE AcquireConnection
    BY Zenon, <2>1, <2>2, <2>3 DEF AcquireConnection, time, guest, Check
  <2>4. CASE Submit
    BY Zenon, <2>1, <2>2, <2>4 DEF Submit, Sends, Statements, time, guest, Check
  <2>5. CASE LastCheck
    BY Zenon, <2>1, <2>2, <2>5 DEF LastCheck, time, guest, Check
  <2>6. CASE SubmitCommit
    BY Zenon, <2>1, <2>2, <2>6 DEF SubmitCommit, Sends, time, guest, Check
  <2>7. CASE Proceed
    BY Zenon, <2>1, <2>2, <2>7 DEF Proceed, time, guest, Check
  <2>8. CASE Fails
    BY Zenon, <2>1, <2>2, <2>8 DEF Fails, time, guest, Check
  <2>9. CASE After
    BY Zenon, <2>1, <2>2, <2>9 DEF After, time, guest, Check
  <2>10. CASE RolledBack
    BY Zenon, <2>1, <2>2, <2>10 DEF RolledBack, time, guest, Check
  <2>11. CASE Close
    BY Zenon, <2>1, <2>2, <2>11 DEF Close, time, guest, Check
  <2>12. CASE \E confirmed \in BOOLEAN : TerminateBackend(confirmed)
    BY Zenon, <2>1, <2>2, <2>12 DEF TerminateBackend, Gone, time, guest, Check
  <2>13. QED
    BY Zenon, <1>4, <2>3, <2>4, <2>5, <2>6, <2>7, <2>8, <2>9, <2>10, <2>11, <2>12 DEF JobStep
<1>5. CASE BackendStep
  <2>1. UNCHANGED <<time, guest, job, result>>
    BY ZenonT(30), <1>5, JobFrame DEF BackendStep, ConnectionBreaks, BackendNotices, BackendExecutes
  <2>2. CASE ConnectionBreaks
    BY Zenon, <2>1, <2>2 DEF ConnectionBreaks, time, guest, Check
  <2>3. CASE BackendNotices
    BY Zenon, <2>1, <2>3 DEF BackendNotices, Gone, time, guest, Check
  <2>4. CASE \E ok \in BOOLEAN : BackendExecutes(ok)
    <3>1. PICK ok \in BOOLEAN : BackendExecutes(ok)
      BY Zenon, <2>4
    <3>2. wire # "none" /\ wire' = "none"
      BY Zenon, <3>1 DEF BackendExecutes
    <3>3. tx' = "committed" => wire = "commit" \/ tx = "committed"
      BY Zenon, <3>1 DEF BackendExecutes, TypeOK, Statements
    <3>4. reply' = "ok" => reply = "ok" \/ (job = wire /\ wire # "commit")
                             \/ (job = "sent" /\ wire = "commit" /\ ok)
      BY Zenon, <3>1 DEF BackendExecutes
    <3>5. wire = "commit" /\ ok => tx' = "committed"
      BY Zenon, <3>1 DEF BackendExecutes
    <3>6. wire \in Statements \cup {"commit"}
      BY Zenon, <3>2 DEF TypeOK
    <3>7. QED
      BY Zenon, <2>1, <3>2, <3>3, <3>4, <3>5, <3>6 DEF time, guest, Check, Statements
  <2>5. QED
    BY Zenon, <1>5, <2>2, <2>3, <2>4 DEF BackendStep
<1>6. CASE KvStep
  <2>1. UNCHANGED <<time, sql>>
    BY Zenon, <1>6, KvFrame
  <2>2. answer' = "ok" => answer = "ok" \/ job = "none"
    BY Zenon, <1>6 DEF KvStep, CallKv, ServerTime, SendMutation, OutOfRange, Evaluate, KvAnswers,
                Returns, guest, CallInv
  <2>3. QED
    BY Zenon, <2>1, <2>2 DEF time, sql, Check
<1>7. CASE PoolStep
  BY <1>7, PoolFrame DEF time, guest, sql, Check
<1>8. QED
  BY Zenon, <1>1, <1>2, <1>3, <1>4, <1>5, <1>6, <1>7, NextIsSplit

\* Every step keeps WireInv.
LEMMA WireInvStep ==
  ASSUME TypeOK, CallInv, SqlInv, WireInv, Next
  PROVE  WireInv'
<1> USE DEF WireInv
<1>0. wire = "commit" => ~BeforeLastCheck  BY Zenon DEF SqlInv
<1>1. CASE Tick \/ Cancel
  <2>1. ~Check => ~Check'
    BY <1>1, EffectBounds DEF Tick, Cancel, Check, TypeOK
  <2>2. UNCHANGED <<guest, sql>>
    BY Zenon, <1>1 DEF Tick, Cancel
  <2>3. QED
    BY Zenon, <2>1, <2>2 DEF guest, sql
<1>2. CASE CallStep
  <2>1. UNCHANGED <<time, result, backend_pid, wire, reply, tx, lost>>
    BY Zenon, <1>2, CallFrame
  <2>2. /\ job' = job \/ (job = "none" /\ job' = "acquire" /\ call' = "sql")
        /\ call' = "finished" => call = "finished" \/ job \in {"none", "done"}
    BY Zenon, <1>2 DEF CallStep, Start, Abandon, Finish, CallSql, SqlAnswers, Refuse, Send, Returns, sql, CallInv
  <2>3. QED
    BY Zenon, <1>0, <2>1, <2>2 DEF time, Check, BeforeLastCheck
<1>3. CASE JobStep
  <2>1. UNCHANGED <<time, guest>>
    BY Zenon, <1>3, JobFrame
  <2>2. job # "none" /\ job # "done"
    BY Zenon, <1>3 DEF JobStep, AcquireConnection, Submit, LastCheck, SubmitCommit, Proceed, Fails, After,
                RolledBack, Close, TerminateBackend, Statements
  <2>3. CASE AcquireConnection
    BY Zenon, <1>0, <2>1, <2>2, <2>3 DEF AcquireConnection, BeforeLastCheck, time, guest, Check
  <2>4. CASE Submit
    BY Zenon, <2>1, <2>2, <2>4 DEF Submit, Sends, Statements, time, guest, Check
  <2>5. CASE LastCheck
    BY Zenon, <2>1, <2>2, <2>5 DEF LastCheck, time, guest, Check
  <2>6. CASE SubmitCommit
    BY Zenon, <2>1, <2>2, <2>6 DEF SubmitCommit, Sends, SqlInv, TypeOK, time, guest, Check
  <2>7. CASE Proceed
    <3>1. wire' = wire /\ wire # "commit" /\ lost' = lost /\ reply' = "none"
      BY Zenon, <1>0, <2>7 DEF Proceed, SqlInv, BeforeLastCheck
    <3>2. job' \in {"statement", "commit"} => backend_pid'
      BY Zenon, <2>7 DEF Proceed
    <3>3. job' \notin {"committing", "sent"}
      BY Zenon, <2>7 DEF Proceed
    <3>4. QED
      BY Zenon, <2>1, <2>2, <3>1, <3>2, <3>3 DEF guest
  <2>8. CASE Fails
    BY Zenon, <2>1, <2>2, <2>8 DEF Fails, time, guest, Check
  <2>9. CASE After
    BY Zenon, <2>1, <2>2, <2>9 DEF After, time, guest, Check
  <2>10. CASE RolledBack
    BY Zenon, <2>1, <2>2, <2>10 DEF RolledBack, time, guest, Check
  <2>11. CASE Close
    BY Zenon, <2>1, <2>2, <2>11 DEF Close, time, guest, Check
  <2>12. CASE \E confirmed \in BOOLEAN : TerminateBackend(confirmed)
    BY <2>1, <2>2, <2>12 DEF TerminateBackend, Gone, time, guest, Check
  <2>13. QED
    BY Zenon, <1>3, <2>3, <2>4, <2>5, <2>6, <2>7, <2>8, <2>9, <2>10, <2>11, <2>12 DEF JobStep
<1>4. CASE BackendStep
  <2>1. UNCHANGED <<time, guest, job, result, backend_pid>>
    BY ZenonT(30), <1>4, JobFrame DEF BackendStep, ConnectionBreaks, BackendNotices, BackendExecutes
  <2>2. CASE ConnectionBreaks
    BY <2>1, <2>2 DEF ConnectionBreaks, time, guest, Check
  <2>3. CASE BackendNotices
    BY <2>1, <2>3 DEF BackendNotices, Gone, time, guest, Check
  <2>4. CASE \E ok \in BOOLEAN : BackendExecutes(ok)
    <3>1. PICK ok \in BOOLEAN : BackendExecutes(ok)
      BY Zenon, <2>4
    <3>2. wire # "none" /\ wire' = "none" /\ lost' = lost
      BY Zenon, <3>1 DEF BackendExecutes
    <3>3. job \in {"commit", "committing"} => reply' = reply
      BY Zenon, <3>1 DEF BackendExecutes, TypeOK, Statements
    <3>4. QED
      BY Zenon, <2>1, <3>2, <3>3 DEF guest
  <2>5. QED
    BY Zenon, <1>4, <2>2, <2>3, <2>4 DEF BackendStep
<1>5. CASE KvStep
  <2>1. UNCHANGED <<time, sql>>
    BY Zenon, <1>5, KvFrame
  <2>2. call' = "finished" => call = "finished"
    BY Zenon, <1>5 DEF KvStep, CallKv, ServerTime, SendMutation, OutOfRange, Evaluate, KvAnswers,
                Returns, guest
  <2>3. QED
    BY Zenon, <2>1, <2>2 DEF time, sql, Check
<1>6. CASE PoolStep
  BY Zenon, <1>6, PoolFrame DEF time, guest, sql, Check
<1>7. QED
  BY Zenon, <1>1, <1>2, <1>3, <1>4, <1>5, <1>6, NextIsSplit

-----------------------------------------------------------------------------
(* Effects: the pools.                                                     *)

\* Every step keeps PoolInv.
LEMMA PoolInvStep ==
  ASSUME TypeOK, PoolInv, Next
  PROVE  PoolInv'
<1> USE DEF PoolInv
<1>1. CASE UNCHANGED pools
  BY Zenon, <1>1 DEF pools
<1>2. CASE Evicted
  BY Zenon, <1>2 DEF Evicted, Spawned, TypeOK
<1>3. CASE \E evict \in BOOLEAN : Rotate(evict)
  BY ZenonT(30), <1>3 DEF Rotate, Spawned, TypeOK
<1>4. CASE \E v \in Versions : EnsureStarts(v)
  BY <1>4 DEF EnsureStarts, TypeOK
<1>5. CASE \E v \in Versions, ok \in BOOLEAN : EnsureConnects(v, ok)
  BY <1>5 DEF EnsureConnects, TypeOK
<1>6. Tick \/ Cancel \/ CallStep \/ JobStep \/ BackendStep \/ KvStep => UNCHANGED pools
  BY Zenon, JobFrame, CallFrame, KvFrame DEF Tick, Cancel
<1>7. QED
  BY Zenon, <1>1, <1>2, <1>3, <1>4, <1>5, <1>6, NextIsSplit DEF PoolStep

-----------------------------------------------------------------------------
(* Effects: the theorems.                                                  *)

EffectInv == TypeOK /\ CallInv /\ KvInv /\ SqlInv /\ WireInv /\ PoolInv

\* The invariants hold together in every reachable state.
LEMMA EffectInvHolds == Spec => []EffectInv
<1>1. Init => EffectInv
  <2> SUFFICES ASSUME Init PROVE EffectInv
    BY Zenon
  <2>1. TypeOK
    <3>1. 1 \in Versions /\ 0 \in 0..MaxVersion /\ 0 \in 0..MaxTime
      BY EffectBounds DEF Versions
    <3>2. ensure \in [Versions -> {"none", "spawned", "connecting"}]
      BY Zenon DEF Init
    <3>3. closed \subseteq Versions
      BY Zenon DEF Init
    <3>4. QED
      BY <3>1, <3>2, <3>3, Zenon DEF Init, TypeOK
  <2>2. CallInv /\ KvInv
    BY Zenon DEF Init, CallInv, KvInv, KvBeforeDeadline
  <2>3. SqlInv /\ WireInv
    BY Zenon DEF Init, SqlInv, WireInv
  <2>4. PoolInv
    BY Zenon DEF Init, PoolInv
  <2>5. QED
    BY Zenon, <2>1, <2>2, <2>3, <2>4 DEF EffectInv
<1>2. EffectInv /\ [Next]_vars => EffectInv'
  <2>1. CASE Next
    BY Zenon, <2>1, TypeStep, CallInvStep, KvInvStep, SqlInvStep, WireInvStep, PoolInvStep DEF EffectInv, KvInv
  <2>2. CASE UNCHANGED vars
    <3> USE <2>2 DEF vars, time, guest, sql, mutation, pools
    <3>1. TypeOK => TypeOK'
      BY DEF TypeOK
    <3>2. CallInv => CallInv'
      BY Zenon DEF CallInv
    <3>3. KvInv => KvInv'
      BY Zenon DEF KvInv, KvBeforeDeadline
    <3>4. SqlInv => SqlInv'
      BY Zenon DEF SqlInv, BeforeLastCheck, Check
    <3>5. PoolInv => PoolInv'
      BY Zenon DEF PoolInv
    <3>6. WireInv => WireInv'
      BY Zenon DEF WireInv, Check
    <3>7. QED
      BY Zenon, <3>1, <3>2, <3>3, <3>4, <3>5, <3>6 DEF EffectInv
  <2>3. QED
    BY Zenon, <2>1, <2>2
<1>3. QED
  BY <1>1, <1>2, PTL DEF Spec

\* mutate and backend_deadline: for any deadline, skew and delay, no Redis
\* mutation is applied after the invocation's deadline, and a guest told of
\* success has its mutation applied.
THEOREM KvDeadlineHolds == Spec => []KvBeforeDeadline
<1>1. EffectInv => KvBeforeDeadline
  BY Zenon DEF EffectInv, KvInv
<1>2. QED
  BY <1>1, EffectInvHolds, PTL

\* sql_job: an invocation that ended before the last check never commits, and
\* success is only reported of a committed transaction.
THEOREM SqlCommitHolds == Spec => []SqlCommitsOnlyInTime
<1>1. EffectInv => SqlCommitsOnlyInTime
  BY Zenon DEF EffectInv, SqlInv, SqlCommitsOnlyInTime
<1>2. QED
  BY <1>1, EffectInvHolds, PTL

\* sql_job and Invocation::finish: once the invocation has finished, the backend can
\* only commit if the job said it could not confirm the backend's end, or lost it.
THEOREM NoCommitHolds == Spec => NoCommitBehindTheHost
<1> DEFINE A == call = "finished" /\ tx' = "committed" /\ tx # "committed"
                  => result = "unconfirmed" \/ lost
<1>1. EffectInv /\ [Next]_vars => [A]_vars
  <2> SUFFICES ASSUME EffectInv, Next, call = "finished", tx' = "committed", tx # "committed"
               PROVE  result = "unconfirmed" \/ lost
    BY Zenon
  <2>1. job \in {"none", "done"}
    BY Zenon DEF EffectInv, WireInv
  <2>2. BackendStep
    <3>1. ~JobStep
      BY Zenon, <2>1 DEF JobStep, AcquireConnection, Submit, LastCheck, SubmitCommit, Proceed, Fails, After,
                  RolledBack, Close, TerminateBackend, Statements
    <3>2. Tick \/ Cancel \/ CallStep \/ KvStep \/ PoolStep => tx' = tx
      BY Zenon, CallFrame, KvFrame, PoolFrame DEF Tick, Cancel, sql
    <3>3. QED
      BY Zenon, <3>1, <3>2, NextIsSplit
  <2>3. wire = "commit"
    BY Zenon, <2>2 DEF BackendStep, ConnectionBreaks, BackendNotices, BackendExecutes, Gone, EffectInv, TypeOK,
                Statements
  <2>4. QED
    BY Zenon, <2>1, <2>3 DEF EffectInv, WireInv, SqlInv, BeforeLastCheck
<1>2. QED
  BY <1>1, EffectInvHolds, PTL DEF Spec, NoCommitBehindTheHost

\* sql_pool: the pool served has the current credentials, the two named cases
\* apart, for any number of rotations.
THEOREM PoolCurrentHolds == Spec => []PoolIsCurrent
<1>1. EffectInv => PoolIsCurrent
  BY Zenon DEF EffectInv, PoolInv, PoolIsCurrent
<1>2. QED
  BY <1>1, EffectInvHolds, PTL

-----------------------------------------------------------------------------
(* Requests: the inductive invariant.                                      *)

\* A request between reserve() and the end of dispatch.
Waiting(r) == at[r] \in {"publishing", "awaiting", "receiving"}
Ticket(r) == [session |-> using[r], id |-> id[r], req |-> r]
Holders == {r \in Requests : at[r] \in Admitted}

\* Permits are held exactly by admitted requests.
PermitInv == free + Cardinality(Holders) = InFlight

\* A request that has reserved names a session that was opened and an id that
\* session has given out, to nobody else.
TicketInv ==
    /\ \A r \in Requests : using[r] <= sessions
    /\ \A r \in Requests : Waiting(r) => using[r] # 0 /\ id[r] < nextId[using[r]]
    /\ \A r, q \in Requests :
         Waiting(r) /\ Waiting(q) /\ using[r] = using[q] /\ id[r] = id[q] => r = q

\* Every record belongs to the live session and is the ticket of a request that
\* waits on an empty channel; only such requests have anything in theirs.
RecordInv ==
    /\ \A p \in pending :
         /\ Waiting(p.req) /\ box[p.req] = "empty" /\ p = Ticket(p.req)
         /\ manager = "up" /\ p.session = sessions
    /\ \A r \in Requests : Waiting(r) /\ box[r] = "empty" => Ticket(r) \in pending
    /\ \A r \in Requests : ~Waiting(r) => box[r] = "empty"

\* A publication carries an id that was given out, and whatever record has that
\* id is the publisher's.
SentInv ==
    /\ \A m \in sent : m.session <= sessions /\ m.id < nextId[m.session]
    /\ \A m \in sent, r \in Requests :
         Waiting(r) /\ using[r] = m.session /\ id[r] = m.id => r = m.req

RequestInv ==
    /\ RequestTypeOK /\ PermitInv /\ TicketInv /\ RecordInv /\ SentInv
    /\ RepliesReachTheirRequest
    /\ \A r \in Requests : seen[r] <= version

-----------------------------------------------------------------------------
(* Requests: types.                                                        *)

\* What the end of dispatch does to the types.
LEMMA EndDispatchType ==
  ASSUME RequestTypeOK, NEW r \in Requests, EndDispatch(r)
  PROVE  /\ pending' \subseteq Records /\ expired' \subseteq Requests
         /\ using' \in [Requests -> 0..MaxSessions] /\ id' \in [Requests -> Nat]
         /\ box' \in [Requests -> {"empty", "closed", "failed", "reply"}]
         /\ origin' \in [Requests -> SUBSET Requests]
  BY BoundsNatural DEF RequestTypeOK, EndDispatch, Forget

\* A request moves from position to position.
LEMMA MoveType ==
  ASSUME RequestTypeOK, NEW r \in Requests, NEW to \in Positions, Move(r, to)
  PROVE  at' \in [Requests -> Positions]
  BY Zenon DEF RequestTypeOK, Move

\* Every step keeps the type invariant; a publication needs a reserved ticket.
LEMMA RequestTypeStep ==
  ASSUME RequestTypeOK, RequestNext, free' \in 0..InFlight, TicketInv
  PROVE  RequestTypeOK'
<1> USE BoundsNatural DEF Positions, Admitted, Working, Responding
<1>1. ASSUME NEW r \in Requests, NEW to \in Positions, Move(r, to), EndDispatch(r),
             UNCHANGED <<watch, seen, broker, sent>>
      PROVE  RequestTypeOK'
  <2>1. at' \in [Requests -> Positions]
    BY Zenon, <1>1, MoveType
  <2>2. QED
    BY Zenon, <1>1, <2>1, EndDispatchType DEF RequestTypeOK, watch, broker
<1>2. ASSUME NEW r \in Requests, NEW to \in Positions, Move(r, to),
             UNCHANGED <<watch, expired, broker, pending, ticket, sent>>,
             seen' \in [Requests -> 0..MaxChanges]
      PROVE  RequestTypeOK'
  <2>1. at' \in [Requests -> Positions]
    BY Zenon, <1>2, MoveType
  <2>2. QED
    BY Zenon, <1>2, <2>1 DEF RequestTypeOK, watch, broker, ticket
<1>3. ASSUME NEW r \in Requests, Enter(r)
      PROVE  RequestTypeOK'
  <2>1. seen' \in [Requests -> 0..MaxChanges]
    BY Zenon, <1>3 DEF Enter, RequestTypeOK
  <2>2. PICK to \in Positions : Move(r, to)
    BY Zenon, <1>3 DEF Enter
  <2>3. QED
    BY Zenon, <1>2, <1>3, <2>1, <2>2 DEF Enter
<1>4. ASSUME NEW r \in Requests, Unrouted(r) \/ Acquire(r) \/ Poll(r) \/ Pending(r) \/ Written(r)
      PROVE  RequestTypeOK'
  <2>1. UNCHANGED <<watch, seen, expired, broker, pending, ticket, sent>>
    BY Zenon, <1>4 DEF Unrouted, Acquire, Poll, Pending, Written
  <2>2. PICK to \in Positions : Move(r, to)
    BY Zenon, <1>4 DEF Unrouted, Acquire, Poll, Pending, Written
  <2>3. QED
    BY Zenon, <1>2, <2>1, <2>2 DEF RequestTypeOK
<1>5. ASSUME NEW r \in Requests, Release(r)
      PROVE  RequestTypeOK'
  <2>1. seen' \in [Requests -> 0..MaxChanges]
    BY <1>5 DEF Release, RequestTypeOK
  <2>2. QED
    BY Zenon, <1>2, <1>5, <2>1 DEF Release
<1>6. ASSUME NEW r \in Requests,
             AuthorityLost(r) \/ Rejected(r) \/ NoBroker(r) \/ Receive(r) \/ Disconnect(r)
      PROVE  RequestTypeOK'
  <2>1. EndDispatch(r) /\ UNCHANGED <<watch, seen, broker, sent>>
    BY Zenon, <1>6 DEF AuthorityLost, Rejected, NoBroker, Receive, Disconnect, Respond
  <2>2. PICK to \in Positions : Move(r, to)
    BY Zenon, <1>6 DEF AuthorityLost, Rejected, NoBroker, Receive, Disconnect, Respond
  <2>3. QED
    BY Zenon, <1>1, <2>1, <2>2
<1>7. ASSUME NEW r \in Requests, BodyRead(r)
      PROVE  RequestTypeOK'
  <2>1. CASE authority
    <3>1. Move(r, "sending") /\ UNCHANGED <<watch, seen, broker, sent, expired, pending, id, box, origin>>
      BY Zenon, <1>7, <2>1 DEF BodyRead
    <3>2. at' \in [Requests -> Positions]
      BY Zenon, <3>1, MoveType
    <3>3. using' \in [Requests -> 0..MaxSessions]
      BY <1>7, <2>1 DEF BodyRead, RequestTypeOK
    <3>4. QED
      BY Zenon, <3>1, <3>2, <3>3 DEF RequestTypeOK, watch, broker
  <2>2. CASE ~authority
    BY Zenon, <1>1, <1>7, <2>2 DEF BodyRead, Respond
  <2>3. QED
    BY Zenon, <2>1, <2>2
<1>8. ASSUME NEW r \in Requests, Reserve(r)
      PROVE  RequestTypeOK'
  <2>1. CASE Reservable(r)
    <3>1. using[r] \in Sessions /\ nextId[using[r]] \in Nat
      BY <2>1 DEF Reservable, RequestTypeOK, Sessions
    <3>2. /\ Move(r, "publishing") /\ id' = [id EXCEPT ![r] = nextId[using[r]]]
          /\ nextId' = [nextId EXCEPT ![using[r]] = @ + 1]
          /\ pending' = pending \cup {[session |-> using[r], id |-> nextId[using[r]], req |-> r]}
          /\ UNCHANGED <<watch, seen, sessions, manager, sent, expired, using, box, origin>>
      BY Zenon, <1>8, <2>1 DEF Reserve, FreshId
    <3>3. at' \in [Requests -> Positions]
      BY Zenon, <3>2, MoveType
    <3>4. pending' \subseteq Records
      BY <3>1, <3>2 DEF RequestTypeOK, Records
    <3>5. id' \in [Requests -> Nat] /\ nextId' \in [Sessions -> Nat]
      BY <3>1, <3>2 DEF RequestTypeOK
    <3>6. QED
      BY Zenon, <3>2, <3>3, <3>4, <3>5 DEF RequestTypeOK, watch
  <2>2. CASE ~Reservable(r)
    BY Zenon, <1>1, <1>8, <2>2 DEF Reserve, Respond, broker
  <2>3. QED
    BY Zenon, <2>1, <2>2
<1>9. ASSUME NEW r \in Requests, Publish(r)
      PROVE  RequestTypeOK'
  <2>1. CASE Respond(r)
    BY ZenonT(30), <1>1, <1>9, <2>1 DEF Publish, Respond, Move, RequestTypeOK
  <2>2. CASE Move(r, "receiving")
    <3>1. at' \in [Requests -> Positions]
      BY Zenon, <2>2, MoveType
    <3>2. /\ sent' = sent \cup {Ticket(r)}
          /\ UNCHANGED <<watch, seen, broker, expired, pending, ticket>>
      BY Zenon, <1>9, <2>2 DEF Publish, Respond, Move, RequestTypeOK, Ticket
    <3>3. Ticket(r) \in Records
      BY <1>9 DEF Publish, Ticket, Records, RequestTypeOK, TicketInv, Waiting, Sessions
    <3>4. QED
      BY Zenon, <3>1, <3>2, <3>3 DEF RequestTypeOK, watch, broker, ticket
  <2>3. QED
    BY ZenonT(30), <1>9, <2>1, <2>2 DEF Publish
<1>10. ASSUME NEW m \in sent, Deliver(m)
       PROVE  RequestTypeOK'
  <2>1. PICK p \in pending : /\ pending' = pending \ {p}
                             /\ \E b \in {"reply", "failed"} : box' = [box EXCEPT ![p.req] = b]
                             /\ origin' = [origin EXCEPT ![p.req] = {m.req}]
    BY Zenon, <1>10 DEF Deliver
  <2>2. p.req \in Requests /\ m.req \in Requests
    BY Zenon DEF RequestTypeOK, Records
  <2>3. box' \in [Requests -> {"empty", "closed", "failed", "reply"}]
    BY Zenon, <2>1 DEF RequestTypeOK
  <2>4. origin' \in [Requests -> SUBSET Requests]
    BY <2>1, <2>2 DEF RequestTypeOK
  <2>5. QED
    BY Zenon, <1>10, <2>1, <2>3, <2>4 DEF Deliver, RequestTypeOK, watch, broker
<1>11. CASE Retire
  <2>1. box' \in [Requests -> {"empty", "closed", "failed", "reply"}]
    BY Zenon, <1>11 DEF Retire, RequestTypeOK
  <2>2. QED
    BY Zenon, <1>11, <2>1 DEF Retire, RequestTypeOK, watch
<1>12. CASE OpenSession \/ Withdraw
  BY <1>12 DEF OpenSession, Withdraw, RequestTypeOK, watch, ticket
<1>13. ASSUME NEW v \in BOOLEAN, SyncSend(v)
       PROVE  RequestTypeOK'
  BY <1>13 DEF SyncSend, RequestTypeOK, broker, ticket
<1>14. ASSUME NEW r \in Requests, Expire(r)
       PROVE  RequestTypeOK'
  BY Zenon, <1>14 DEF Expire, RequestTypeOK, watch, broker, ticket
<1>15. QED
  BY Zenon, <1>3, <1>4, <1>5, <1>6, <1>7, <1>8, <1>9, <1>10, <1>11, <1>12, <1>13, <1>14
     DEF RequestNext, Work, Client, Broker

-----------------------------------------------------------------------------
(* Requests: permits.                                                      *)

\* The admitted requests can be counted.
LEMMA HoldersFinite ==
  /\ IsFiniteSet(Holders) /\ Cardinality(Holders) \in Nat
  /\ IsFiniteSet(Holders') /\ Cardinality(Holders') \in Nat
<1>1. Holders \in SUBSET Requests /\ Holders' \in SUBSET Requests
  BY Zenon DEF Holders
<1>2. QED
  BY Zenon, <1>1, RequestsFinite, FS_Subset, FS_CardinalityType

\* A permit is taken by the request that becomes admitted and given back by the
\* one whose lease is dropped; every other step leaves the admitted set alone.
LEMMA PermitStep ==
  ASSUME RequestTypeOK, PermitInv, RequestNext
  PROVE  PermitInv' /\ free' \in 0..InFlight
<1> USE DEF Admitted, Working, Responding
<1>0. free \in 0..InFlight /\ InFlight \in Nat
  BY Zenon, BoundsNatural DEF RequestTypeOK
<1>1. ASSUME free' = free, Holders' = Holders
      PROVE  PermitInv' /\ free' \in 0..InFlight
  BY Zenon, <1>0, <1>1 DEF PermitInv
<1>2. ASSUME NEW r \in Requests, NEW to \in Admitted, Move(r, to), at[r] \in Admitted, free' = free
      PROVE  PermitInv' /\ free' \in 0..InFlight
  <2>1. Holders' = Holders
    BY Zenon, <1>2 DEF Holders, Move, RequestTypeOK
  <2>2. QED
    BY Zenon, <1>1, <1>2, <2>1
<1>3. ASSUME NEW r \in Requests, NEW to \in {"entered", "done"}, Move(r, to),
             at[r] \in {"idle", "entered"}, free' = free
      PROVE  PermitInv' /\ free' \in 0..InFlight
  <2>1. Holders' = Holders
    BY Zenon, <1>3 DEF Holders, Move, RequestTypeOK
  <2>2. QED
    BY Zenon, <1>1, <1>3, <2>1
<1>4. ASSUME NEW r \in Requests, Acquire(r)
      PROVE  PermitInv' /\ free' \in 0..InFlight
  <2>1. CASE free > 0
    <3>1. Holders' = Holders \cup {r} /\ r \notin Holders /\ free' = free - 1
      BY Zenon, <1>4, <2>1 DEF Acquire, Holders, Move, RequestTypeOK
    <3>2. Cardinality(Holders') = Cardinality(Holders) + 1
      BY Zenon, <3>1, HoldersFinite, FS_AddElement
    <3>3. QED
      BY <1>0, <2>1, <3>1, <3>2, HoldersFinite DEF PermitInv
  <2>2. CASE ~(free > 0)
    BY Zenon, <1>3, <1>4, <2>2 DEF Acquire
  <2>3. QED
    BY Zenon, <2>1, <2>2
<1>5. ASSUME NEW r \in Requests, Release(r)
      PROVE  PermitInv' /\ free' \in 0..InFlight
  <2>1. Holders' = Holders \ {r} /\ r \in Holders /\ free' = free + 1
    BY Zenon, <1>5 DEF Release, Holders, Move, RequestTypeOK
  <2>2. Cardinality(Holders') = Cardinality(Holders) - 1
    BY Zenon, <2>1, HoldersFinite, FS_RemoveElement
  <2>3. QED
    BY <1>0, <2>1, <2>2, HoldersFinite DEF PermitInv
<1>6. ASSUME NEW r \in Requests, Enter(r) \/ Unrouted(r)
      PROVE  PermitInv' /\ free' \in 0..InFlight
  <2>1. PICK to \in {"entered", "done"} : Move(r, to)
    BY Zenon, <1>6 DEF Enter, Unrouted
  <2>2. QED
    BY Zenon, <1>3, <1>6, <2>1 DEF Enter, Unrouted
<1>7. ASSUME NEW r \in Requests,
             \/ AuthorityLost(r) \/ Poll(r) \/ Pending(r) \/ Rejected(r) \/ BodyRead(r)
             \/ NoBroker(r) \/ Reserve(r) \/ Publish(r) \/ Receive(r) \/ Written(r) \/ Disconnect(r)
      PROVE  PermitInv' /\ free' \in 0..InFlight
  <2>1. at[r] \in Admitted /\ free' = free
    BY Zenon, <1>7 DEF AuthorityLost, Poll, Pending, Rejected, BodyRead, NoBroker, Reserve, Publish,
                Receive, Written, Disconnect
  <2>2. PICK to \in Admitted : Move(r, to)
    BY Zenon, <1>7 DEF AuthorityLost, Poll, Pending, Rejected, BodyRead, NoBroker, Reserve, Publish,
                Receive, Written, Disconnect, Respond
  <2>3. QED
    BY Zenon, <1>2, <2>1, <2>2
<1>8. ASSUME UNCHANGED <<at, free>>
      PROVE  PermitInv' /\ free' \in 0..InFlight
  BY Zenon, <1>1, <1>8 DEF Holders
<1>9. CASE \/ Broker \/ \E v \in BOOLEAN : SyncSend(v)
           \/ \E r \in Requests : Expire(r)
  <2>1. UNCHANGED <<at, free>>
    BY Zenon, <1>9 DEF Broker, OpenSession, Retire, Withdraw, Deliver, SyncSend, Expire
  <2>2. QED
    BY Zenon, <1>8, <2>1
<1>10. QED
  BY Zenon, <1>4, <1>5, <1>6, <1>7, <1>9 DEF RequestNext, Work, Client

-----------------------------------------------------------------------------
(* Requests: tickets, records and publications.                            *)

Exchange == TicketInv /\ RecordInv /\ SentInv /\ RepliesReachTheirRequest

\* A step that leaves the exchange alone and starts or ends no waiting.
LEMMA ExchangeFrame ==
  ASSUME RequestTypeOK, Exchange, UNCHANGED <<broker, pending, ticket, sent>>,
         \A q \in Requests : Waiting(q)' <=> Waiting(q)
  PROVE  Exchange'
<1> USE DEF broker, ticket
<1>1. TicketInv'
  BY Zenon DEF Exchange, TicketInv
<1>2. SentInv'
  BY Zenon DEF Exchange, SentInv
<1>3. RepliesReachTheirRequest'
  BY Zenon DEF Exchange, RepliesReachTheirRequest
<1>4. \A p \in pending : p.req \in Requests
  BY Zenon DEF RequestTypeOK, Records
<1>5. RecordInv'
  BY Zenon, <1>4 DEF Exchange, RecordInv, Ticket
<1>6. QED
  BY Zenon, <1>1, <1>2, <1>3, <1>5 DEF Exchange

\* dispatch ends: the request's ticket and its record go together.
LEMMA ExchangeEnd ==
  ASSUME RequestTypeOK, Exchange, NEW r \in Requests, EndDispatch(r), UNCHANGED <<broker, sent>>,
         NEW to \in {"streaming", "dropping"}, Move(r, to)
  PROVE  Exchange'
<1>1. ~Waiting(r)' /\ using'[r] = 0 /\ box'[r] = "empty" /\ origin'[r] = {}
  BY Zenon DEF Waiting, Move, EndDispatch, RequestTypeOK
<1>2. \A q \in Requests \ {r} :
        /\ Waiting(q)' <=> Waiting(q)
        /\ using'[q] = using[q] /\ id'[q] = id[q] /\ box'[q] = box[q] /\ origin'[q] = origin[q]
        /\ Ticket(q)' = Ticket(q)
  BY Zenon DEF Waiting, Move, EndDispatch, RequestTypeOK, Ticket
<1>3. pending' = {p \in pending : p.req # r} /\ UNCHANGED <<sessions, manager, nextId>>
  BY Zenon DEF EndDispatch, Forget, broker
<1>4. \A p \in pending : p.req \in Requests
  BY Zenon DEF RequestTypeOK, Records
<1>5. sessions \in Nat /\ 0 <= sessions
  BY BoundsNatural DEF RequestTypeOK
<1>6. TicketInv'
  <2>1. \A q \in Requests : using'[q] <= sessions
    <3>1. using'[r] <= sessions
      BY <1>1, <1>5
    <3>2. \A q \in Requests \ {r} : using'[q] <= sessions
      BY Zenon, <1>2 DEF Exchange, TicketInv
    <3>3. QED
      BY Zenon, <3>1, <3>2
  <2>2. \A q \in Requests : Waiting(q)' => using'[q] = using[q] /\ id'[q] = id[q] /\ Waiting(q)
    BY Zenon, <1>1, <1>2
  <2>3. QED
    BY Zenon, <1>3, <2>1, <2>2 DEF Exchange, TicketInv
<1>7. SentInv'
  <2>1. \A q \in Requests : Waiting(q)' => using'[q] = using[q] /\ id'[q] = id[q] /\ Waiting(q)
    BY Zenon, <1>1, <1>2
  <2>2. QED
    BY Zenon, <1>3, <2>1 DEF Exchange, SentInv
<1>8. RepliesReachTheirRequest'
  BY Zenon, <1>1, <1>2 DEF Exchange, RepliesReachTheirRequest
<1>9. RecordInv'
  <2>1. ASSUME NEW p \in pending'
        PROVE  /\ Waiting(p.req)' /\ box'[p.req] = "empty" /\ p = Ticket(p.req)'
               /\ manager' = "up" /\ p.session = sessions'
    BY Zenon, <1>2, <1>3, <1>4 DEF Exchange, RecordInv
  <2>2. ASSUME NEW q \in Requests, Waiting(q)', box'[q] = "empty"
        PROVE  Ticket(q)' \in pending'
    <3>1. q # r /\ Ticket(q) \in pending /\ Ticket(q)' = Ticket(q)
      BY Zenon, <1>1, <1>2, <2>2 DEF Exchange, RecordInv
    <3>2. Ticket(q).req = q
      BY Zenon DEF Ticket
    <3>3. QED
      BY Zenon, <1>3, <3>1, <3>2
  <2>3. \A q \in Requests : ~Waiting(q)' => box'[q] = "empty"
    BY Zenon, <1>1, <1>2 DEF Exchange, RecordInv
  <2>4. QED
    BY Zenon, <2>1, <2>2, <2>3 DEF RecordInv
<1>10. QED
  BY Zenon, <1>6, <1>7, <1>8, <1>9 DEF Exchange

\* The body is read: the request remembers the newest session, or none.
LEMMA ExchangeBodyRead ==
  ASSUME RequestTypeOK, Exchange, NEW r \in Requests, BodyRead(r)
  PROVE  Exchange'
<1>1. CASE ~authority
  <2>1. Move(r, "streaming") /\ EndDispatch(r) /\ UNCHANGED <<broker, sent>>
    BY Zenon, <1>1 DEF BodyRead, Respond
  <2>2. QED
    BY Zenon, <2>1, ExchangeEnd
<1>2. CASE authority
  <2>1. /\ UNCHANGED <<sessions, manager, nextId, sent, pending, id, box, origin>>
        /\ \A q \in Requests : Waiting(q)' <=> Waiting(q)
        /\ \A q \in Requests : ~Waiting(q) \/ q # r
    BY Zenon, <1>2 DEF BodyRead, broker, Waiting, Move, RequestTypeOK
  <2>2. /\ using'[r] = 0 \/ using'[r] = sessions
        /\ \A q \in Requests \ {r} : using'[q] = using[q] /\ Ticket(q)' = Ticket(q)
    BY Zenon, <1>2, <2>1 DEF BodyRead, RequestTypeOK, Ticket
  <2>3. sessions \in Nat
    BY BoundsNatural DEF RequestTypeOK
  <2>4. TicketInv'
    <3>1. \A q \in Requests : using'[q] <= sessions
      <4>1. using'[r] <= sessions
        BY <2>2, <2>3
      <4>2. \A q \in Requests \ {r} : using'[q] <= sessions
        BY Zenon, <2>2 DEF Exchange, TicketInv
      <4>3. QED
        BY Zenon, <4>1, <4>2
    <3>2. \A q \in Requests : Waiting(q)' => using'[q] = using[q] /\ Waiting(q)
      BY Zenon, <2>1, <2>2
    <3>3. QED
      BY Zenon, <2>1, <3>1, <3>2 DEF Exchange, TicketInv
  <2>5. SentInv'
    BY Zenon, <2>1, <2>2 DEF Exchange, SentInv
  <2>6. RepliesReachTheirRequest'
    BY Zenon, <2>1 DEF Exchange, RepliesReachTheirRequest
  <2>7. \A p \in pending : p.req \in Requests
    BY Zenon DEF RequestTypeOK, Records
  <2>8. RecordInv'
    BY Zenon, <2>1, <2>2, <2>7 DEF Exchange, RecordInv
  <2>9. QED
    BY Zenon, <2>4, <2>5, <2>6, <2>8 DEF Exchange
<1>3. QED
  BY Zenon, <1>1, <1>2

\* reserve(): the id is new to its session, so no ticket and no publication has it.
LEMMA ExchangeReserve ==
  ASSUME RequestTypeOK, Exchange, NEW r \in Requests, Reserve(r)
  PROVE  Exchange'
<1>1. CASE ~Reservable(r)
  <2>1. Move(r, "streaming") /\ EndDispatch(r) /\ UNCHANGED <<broker, sent>>
    BY Zenon, <1>1 DEF Reserve, Respond, broker
  <2>2. QED
    BY Zenon, <2>1, ExchangeEnd
<1>2. CASE Reservable(r)
  <2> DEFINE s == using[r]
             n == nextId[s]
  <2>1. s \in Sessions /\ n \in Nat /\ s = sessions /\ manager = "up"
    BY <1>2, BoundsNatural DEF Reservable, Retired, RequestTypeOK, Sessions, Exchange, TicketInv
  <2>2. /\ Waiting(r)' /\ ~Waiting(r) /\ id'[r] = n /\ nextId'[s] = n + 1
        /\ pending' = pending \cup {[session |-> s, id |-> n, req |-> r]}
        /\ UNCHANGED <<sessions, manager, sent, using, box, origin>>
    BY Zenon, <1>2, <2>1 DEF Reserve, FreshId, Waiting, Move, RequestTypeOK
  <2>3. Ticket(r)' = [session |-> s, id |-> n, req |-> r]
    BY Zenon, <2>2 DEF Ticket
  <2>4. \A q \in Requests \ {r} : (Waiting(q)' <=> Waiting(q)) /\ id'[q] = id[q] /\ Ticket(q)' = Ticket(q)
    BY Zenon, <1>2, <2>2 DEF Reserve, Waiting, Move, RequestTypeOK, Ticket
  <2>5. \A t \in Sessions : nextId[t] \in Nat /\ nextId'[t] \in Nat /\ nextId[t] <= nextId'[t]
    BY <1>2, <2>1 DEF Reserve, RequestTypeOK
  <2>6. \A q \in Requests : using[q] \in Nat /\ using[q] <= sessions /\ id[q] \in Nat
                            /\ (using[q] # 0 => using[q] \in Sessions)
    BY BoundsNatural DEF RequestTypeOK, Sessions, Exchange, TicketInv
  <2>7. \A m \in sent : m.session \in Sessions /\ m.id \in Nat /\ m.req \in Requests
    BY Zenon DEF RequestTypeOK, Records
  <2>8. \A p \in pending : p.req \in Requests /\ p.req # r
    BY Zenon, <2>2 DEF RequestTypeOK, Records, Exchange, RecordInv
  <2> HIDE DEF s, n
  <2>9. TicketInv'
    <3>1. \A q \in Requests : using'[q] <= sessions'
      BY Zenon, <2>2, <2>6
    <3>2. \A q \in Requests : Waiting(q)' => using'[q] # 0 /\ id'[q] < nextId'[using'[q]]
      <4>1. ASSUME NEW q \in Requests \ {r}, Waiting(q)'
            PROVE  using'[q] # 0 /\ id'[q] < nextId'[using'[q]]
        <5>1. using[q] # 0 /\ id[q] < nextId[using[q]] /\ using'[q] = using[q] /\ id'[q] = id[q]
          BY Zenon, <2>2, <2>4, <4>1 DEF Exchange, TicketInv
        <5>2. QED
          BY <2>5, <2>6, <5>1
      <4>2. using'[r] # 0 /\ id'[r] < nextId'[using'[r]]
        BY <1>2, <2>1, <2>2 DEF Reservable, s
      <4>3. QED
        BY Zenon, <4>1, <4>2
    <3>3. ASSUME NEW q \in Requests \ {r}, Waiting(q)', using'[q] = s
          PROVE  id'[q] # n
      <4>1. Waiting(q) /\ using[q] = s /\ id'[q] = id[q]
        BY Zenon, <2>2, <2>4, <3>3
      <4>2. id[q] < n
        BY Zenon, <4>1 DEF Exchange, TicketInv, n
      <4>3. QED
        BY <2>1, <2>6, <4>1, <4>2
    <3>4. ASSUME NEW q \in Requests, NEW u \in Requests, Waiting(q)', Waiting(u)',
                 using'[q] = using'[u], id'[q] = id'[u]
          PROVE  q = u
      <4>1. using'[r] = s /\ id'[r] = n
        BY Zenon, <2>2 DEF s
      <4>2. CASE q # r /\ u # r
        BY Zenon, <2>2, <2>4, <3>4, <4>2 DEF Exchange, TicketInv
      <4>3. CASE q = r \/ u = r
        BY Zenon, <3>3, <3>4, <4>1, <4>3
      <4>4. QED
        BY Zenon, <4>2, <4>3
    <3>5. QED
      BY Zenon, <3>1, <3>2, <3>4 DEF TicketInv
  <2>10. SentInv'
    <3>1. ASSUME NEW m \in sent
          PROVE  m.session <= sessions' /\ m.id < nextId'[m.session]
      <4>1. m.session <= sessions' /\ m.id < nextId[m.session]
        BY Zenon, <2>2 DEF Exchange, SentInv
      <4>2. /\ m.id \in Nat /\ nextId[m.session] \in Nat /\ nextId'[m.session] \in Nat
            /\ nextId[m.session] <= nextId'[m.session]
        BY Zenon, <2>5, <2>7
      <4>3. QED
        BY <4>1, <4>2
    <3>2. ASSUME NEW m \in sent, NEW q \in Requests, Waiting(q)', using'[q] = m.session, id'[q] = m.id
          PROVE  q = m.req
      <4>1. CASE q = r
        <5>1. m.session = s /\ m.id = n
          BY Zenon, <2>2, <3>2, <4>1 DEF s
        <5>2. m.id < n
          BY Zenon, <5>1 DEF Exchange, SentInv, n
        <5>3. QED
          BY <2>1, <5>1, <5>2
      <4>2. CASE q # r
        BY Zenon, <2>2, <2>4, <3>2, <4>2 DEF Exchange, SentInv
      <4>3. QED
        BY Zenon, <4>1, <4>2
    <3>3. QED
      BY Zenon, <2>2, <3>1, <3>2 DEF SentInv
  <2>11. RepliesReachTheirRequest'
    BY Zenon, <2>2 DEF Exchange, RepliesReachTheirRequest
  <2>12. RecordInv'
    <3>1. box'[r] = "empty"
      BY Zenon, <2>2 DEF Exchange, RecordInv
    <3>2. ASSUME NEW p \in pending'
          PROVE  /\ Waiting(p.req)' /\ box'[p.req] = "empty" /\ p = Ticket(p.req)'
                 /\ manager' = "up" /\ p.session = sessions'
      <4>1. CASE p \in pending
        BY Zenon, <2>2, <2>4, <2>8, <4>1 DEF Exchange, RecordInv
      <4>2. CASE p = [session |-> s, id |-> n, req |-> r]
        BY Zenon, <2>1, <2>2, <2>3, <3>1, <4>2
      <4>3. QED
        BY Zenon, <2>2, <3>2, <4>1, <4>2
    <3>3. ASSUME NEW q \in Requests, Waiting(q)', box'[q] = "empty"
          PROVE  Ticket(q)' \in pending'
      BY Zenon, <2>2, <2>3, <2>4, <3>3 DEF Exchange, RecordInv
    <3>4. \A q \in Requests : ~Waiting(q)' => box'[q] = "empty"
      BY Zenon, <2>2, <2>4 DEF Exchange, RecordInv
    <3>5. QED
      BY Zenon, <3>2, <3>3, <3>4 DEF RecordInv
  <2>13. QED
    BY Zenon, <2>9, <2>10, <2>11, <2>12 DEF Exchange
<1>3. QED
  BY Zenon, <1>1, <1>2

\* The publication carries the publisher's ticket, which nobody shares.
LEMMA ExchangePublish ==
  ASSUME RequestTypeOK, Exchange, NEW r \in Requests, Publish(r)
  PROVE  Exchange'
<1>1. CASE Respond(r)
  <2>1. UNCHANGED sent
    BY Zenon, <1>1 DEF Publish, Respond, Move, RequestTypeOK
  <2>2. QED
    BY Zenon, <1>1, <2>1, ExchangeEnd DEF Publish, Respond
<1>2. CASE Move(r, "receiving")
  <2>1. sent' = sent \cup {Ticket(r)} /\ UNCHANGED <<broker, pending, ticket>>
    BY Zenon, <1>2 DEF Publish, Respond, Move, RequestTypeOK, Ticket
  <2>2. Waiting(r) /\ \A q \in Requests : Waiting(q)' <=> Waiting(q)
    BY Zenon, <1>2 DEF Publish, Move, Waiting, RequestTypeOK
  <2>3. TicketInv'
    BY Zenon, <2>1, <2>2 DEF Exchange, TicketInv, broker, ticket
  <2>4. \A p \in pending : p.req \in Requests
    BY Zenon DEF RequestTypeOK, Records
  <2>5. RecordInv'
    BY Zenon, <2>1, <2>2, <2>4 DEF Exchange, RecordInv, Ticket, broker, ticket
  <2>6. RepliesReachTheirRequest'
    BY Zenon, <2>1 DEF Exchange, RepliesReachTheirRequest, ticket
  <2>7. ASSUME NEW m \in sent'
        PROVE  /\ m.session <= sessions' /\ m.id < nextId'[m.session]
               /\ \A q \in Requests : Waiting(q)' /\ using'[q] = m.session /\ id'[q] = m.id => q = m.req
    <3>1. CASE m \in sent
      BY Zenon, <2>1, <2>2, <3>1 DEF Exchange, SentInv, broker, ticket
    <3>2. CASE m = Ticket(r)
      <4>1. m.session = using[r] /\ m.id = id[r] /\ m.req = r
        BY Zenon, <3>2 DEF Ticket
      <4>2. QED
        BY Zenon, <2>1, <2>2, <4>1 DEF Exchange, TicketInv, broker, ticket
    <3>3. QED
      BY Zenon, <2>1, <3>1, <3>2
  <2>8. SentInv'
    BY Zenon, <2>7 DEF SentInv
  <2>9. QED
    BY Zenon, <2>3, <2>5, <2>6, <2>8 DEF Exchange
<1>3. QED
  BY Zenon, <1>1, <1>2 DEF Publish

\* deliver(): the record found for a publication is its publisher's own.
LEMMA ExchangeDeliver ==
  ASSUME RequestTypeOK, Exchange, NEW m \in sent, Deliver(m)
  PROVE  Exchange'
<1>1. PICK p \in pending :
        /\ p.session = m.session /\ p.id = m.id /\ pending' = pending \ {p}
        /\ \E b \in {"reply", "failed"} : box' = [box EXCEPT ![p.req] = b]
        /\ origin' = [origin EXCEPT ![p.req] = {m.req}]
  BY Zenon DEF Deliver
<1>2. /\ UNCHANGED <<sessions, manager, nextId, using, id, sent>>
      /\ \A q \in Requests : Waiting(q)' <=> Waiting(q)
  BY Zenon DEF Deliver, broker, Waiting
<1>3. \A q \in Requests : Ticket(q)' = Ticket(q)
  BY Zenon, <1>2 DEF Ticket
<1>4. /\ p.req \in Requests /\ Waiting(p.req) /\ p = Ticket(p.req)
  BY Zenon DEF RequestTypeOK, Records, Exchange, RecordInv
<1>5. p.req = m.req
  <2>1. using[p.req] = m.session /\ id[p.req] = m.id
    BY <1>1, <1>4 DEF Ticket
  <2>2. QED
    BY Zenon, <1>4, <2>1 DEF Exchange, SentInv
<1>6. /\ \A q \in Requests \ {p.req} : box'[q] = box[q] /\ origin'[q] = origin[q]
      /\ box'[p.req] # "empty" /\ origin'[p.req] = {p.req}
  BY Zenon, <1>1, <1>4, <1>5 DEF RequestTypeOK
<1>7. TicketInv'
  BY Zenon, <1>2 DEF Exchange, TicketInv
<1>8. SentInv'
  BY Zenon, <1>2 DEF Exchange, SentInv
<1>9. RepliesReachTheirRequest'
  BY Zenon, <1>6 DEF Exchange, RepliesReachTheirRequest
<1>10. RecordInv'
  <2>1. ASSUME NEW o \in pending'
        PROVE  /\ Waiting(o.req)' /\ box'[o.req] = "empty" /\ o = Ticket(o.req)'
               /\ manager' = "up" /\ o.session = sessions'
    <3>1. o \in pending /\ o # p /\ o.req \in Requests
      BY <1>1, <2>1 DEF RequestTypeOK, Records
    <3>2. o = Ticket(o.req) /\ o.req # p.req
      BY Zenon, <1>4, <3>1 DEF Exchange, RecordInv
    <3>3. QED
      BY Zenon, <1>2, <1>3, <1>6, <3>1, <3>2 DEF Exchange, RecordInv
  <2>2. ASSUME NEW q \in Requests, Waiting(q)', box'[q] = "empty"
        PROVE  Ticket(q)' \in pending'
    <3>1. q # p.req /\ Ticket(q) \in pending
      BY Zenon, <1>2, <1>6, <2>2 DEF Exchange, RecordInv
    <3>2. Ticket(q) # p
      BY <1>4, <3>1 DEF Ticket
    <3>3. QED
      BY Zenon, <1>1, <1>3, <3>1, <3>2
  <2>3. \A q \in Requests : ~Waiting(q)' => box'[q] = "empty"
    BY Zenon, <1>2, <1>4, <1>6 DEF Exchange, RecordInv
  <2>4. QED
    BY Zenon, <2>1, <2>2, <2>3 DEF RecordInv
<1>11. QED
  BY Zenon, <1>7, <1>8, <1>9, <1>10 DEF Exchange

\* retire() empties the table and closes the channel of everyone in it.
LEMMA ExchangeRetire ==
  ASSUME RequestTypeOK, Exchange, Retire
  PROVE  Exchange'
<1>1. /\ UNCHANGED <<sessions, nextId, using, id, origin, sent>>
      /\ \A q \in Requests : Waiting(q)' <=> Waiting(q)
  BY Zenon DEF Retire, Waiting
<1>2. InSession(sessions) = pending
  BY Zenon DEF Exchange, RecordInv, InSession
<1>3. pending' = {}
  BY Zenon, <1>2 DEF Retire
<1>4. \A q \in Requests : box'[q] = IF \E p \in pending : p.req = q THEN "closed" ELSE box[q]
  BY Zenon, <1>2 DEF Retire
<1>5. \A q \in Requests : Waiting(q) => box'[q] # "empty"
  <2>1. \A q \in Requests : Ticket(q).req = q
    BY Zenon DEF Ticket
  <2>2. QED
    BY <1>4, <2>1 DEF Exchange, RecordInv
<1>6. \A q \in Requests : ~Waiting(q) => box'[q] = "empty"
  BY <1>4 DEF Exchange, RecordInv
<1>7. RecordInv'
  BY Zenon, <1>1, <1>3, <1>5, <1>6 DEF RecordInv
<1>8. TicketInv'
  BY Zenon, <1>1 DEF Exchange, TicketInv
<1>9. SentInv'
  BY Zenon, <1>1 DEF Exchange, SentInv
<1>10. RepliesReachTheirRequest'
  BY Zenon, <1>1 DEF Exchange, RepliesReachTheirRequest
<1>11. QED
  BY Zenon, <1>7, <1>8, <1>9, <1>10 DEF Exchange

\* A session is opened, or withdrawn, only when no record is left.
LEMMA ExchangeSession ==
  ASSUME RequestTypeOK, Exchange, OpenSession \/ Withdraw
  PROVE  Exchange'
<1>1. /\ UNCHANGED <<nextId, pending, using, id, box, origin, sent>>
      /\ \A q \in Requests : Waiting(q)' <=> Waiting(q)
  BY Zenon DEF OpenSession, Withdraw, Waiting, ticket
<1>2. sessions \in Nat /\ sessions' \in Nat /\ sessions <= sessions'
  BY BoundsNatural DEF OpenSession, Withdraw, RequestTypeOK
<1>3. pending = {}
  BY Zenon DEF OpenSession, Withdraw, Exchange, RecordInv
<1>4. \A q \in Requests : Ticket(q)' = Ticket(q)
  BY Zenon, <1>1 DEF Ticket
<1>5. RecordInv'
  BY Zenon, <1>1, <1>3, <1>4 DEF Exchange, RecordInv
<1>6. \A q \in Requests : using[q] \in Nat
  BY BoundsNatural DEF RequestTypeOK
<1>7. TicketInv'
  <2>1. \A q \in Requests : using'[q] <= sessions'
    BY <1>1, <1>2, <1>6 DEF Exchange, TicketInv
  <2>2. QED
    BY Zenon, <1>1, <2>1 DEF Exchange, TicketInv
<1>8. SentInv'
  <2>1. \A m \in sent : m.session \in Nat
    <3>1. \A t \in Sessions : t \in Nat
      BY BoundsNatural DEF Sessions
    <3>2. QED
      BY Zenon, <3>1 DEF RequestTypeOK, Records
  <2>2. \A m \in sent : m.session <= sessions'
    BY <1>2, <2>1 DEF Exchange, SentInv
  <2>3. QED
    BY Zenon, <1>1, <2>2 DEF Exchange, SentInv
<1>9. RepliesReachTheirRequest'
  BY Zenon, <1>1 DEF Exchange, RepliesReachTheirRequest
<1>10. QED
  BY Zenon, <1>5, <1>7, <1>8, <1>9 DEF Exchange

\* Every step keeps tickets, records and publications in order.
LEMMA ExchangeStep ==
  ASSUME RequestTypeOK, Exchange, RequestNext
  PROVE  Exchange'
<1>1. ASSUME NEW r \in Requests,
             Enter(r) \/ Unrouted(r) \/ Acquire(r) \/ Poll(r) \/ Pending(r) \/ Written(r) \/ Release(r)
      PROVE  Exchange'
  <2>1. UNCHANGED <<broker, pending, ticket, sent>>
    BY Zenon, <1>1 DEF Enter, Unrouted, Acquire, Poll, Pending, Written, Release
  <2>2. \A q \in Requests : Waiting(q)' <=> Waiting(q)
    BY Zenon, <1>1 DEF Enter, Unrouted, Acquire, Poll, Pending, Written, Release, Move, Waiting, RequestTypeOK
  <2>3. QED
    BY Zenon, <2>1, <2>2, ExchangeFrame
<1>2. ASSUME NEW r \in Requests,
             AuthorityLost(r) \/ Disconnect(r) \/ Rejected(r) \/ NoBroker(r) \/ Receive(r)
      PROVE  Exchange'
  <2>1. EndDispatch(r) /\ UNCHANGED <<broker, sent>> /\ (Move(r, "streaming") \/ Move(r, "dropping"))
    BY Zenon, <1>2 DEF AuthorityLost, Disconnect, Rejected, NoBroker, Receive, Respond
  <2>2. QED
    BY Zenon, <2>1, ExchangeEnd
<1>3. ASSUME NEW r \in Requests, Expire(r)
      PROVE  Exchange'
  BY Zenon, <1>3, ExchangeFrame DEF Expire, Waiting
<1>4. ASSUME NEW v \in BOOLEAN, SyncSend(v)
      PROVE  Exchange'
  BY Zenon, <1>4, ExchangeFrame DEF SyncSend, Waiting
<1>5. CASE Broker
  BY Zenon, <1>5, ExchangeSession, ExchangeRetire, ExchangeDeliver DEF Broker
<1>6. QED
  BY Zenon, <1>1, <1>2, <1>3, <1>4, <1>5, ExchangeBodyRead, ExchangeReserve, ExchangePublish
     DEF RequestNext, Work, Client

\* No receiver has seen a version that was not sent.
LEMMA SeenStep ==
  ASSUME RequestTypeOK, \A r \in Requests : seen[r] <= version, RequestNext
  PROVE  \A r \in Requests : seen'[r] <= version'
<1> USE BoundsNatural DEF RequestTypeOK
<1>1. CASE \E r \in Requests : Enter(r) \/ Release(r)
  BY <1>1 DEF Enter, Release, watch
<1>2. CASE \E v \in BOOLEAN : SyncSend(v)
  BY <1>2 DEF SyncSend
<1>3. CASE UNCHANGED <<seen, version>>
  BY ZenonT(30), <1>3
<1>4. (\E r \in Requests : Enter(r) \/ Release(r)) \/ (\E v \in BOOLEAN : SyncSend(v))
      \/ UNCHANGED <<seen, version>>
  BY ZenonT(30)
     DEF RequestNext, Work, Client, Broker, Unrouted, Acquire, AuthorityLost, Poll, Pending, Rejected,
         BodyRead, NoBroker, Reserve, Publish, Receive, Written, Disconnect, Expire, OpenSession,
         Retire, Withdraw, Deliver, watch
<1>5. QED
  BY Zenon, <1>1, <1>2, <1>3, <1>4

\* The invariant holds of every reachable state.
THEOREM RequestInvariance == RequestSpec => []RequestInv
<1>1. RequestInit => RequestInv
  <2> SUFFICES ASSUME RequestInit
               PROVE  RequestInv
    BY Zenon
  <2>1. RequestTypeOK
    <3>1. at \in [Requests -> Positions] /\ box \in [Requests -> {"empty", "closed", "failed", "reply"}]
      BY Zenon DEF RequestInit, Positions
    <3>2. seen \in [Requests -> 0..MaxChanges] /\ using \in [Requests -> 0..MaxSessions]
      BY BoundsNatural DEF RequestInit
    <3>3. nextId \in [Sessions -> Nat] /\ id \in [Requests -> Nat] /\ origin \in [Requests -> SUBSET Requests]
      BY Zenon DEF RequestInit
    <3>4. /\ authority \in BOOLEAN /\ manager \in {"down", "up", "lost"}
          /\ expired \subseteq Requests /\ pending \subseteq Records /\ sent \subseteq Records
      BY Zenon DEF RequestInit
    <3>5. version \in 0..MaxChanges /\ free \in 0..InFlight /\ sessions \in 0..MaxSessions
      BY BoundsNatural DEF RequestInit
    <3>6. QED
      BY Zenon, <3>1, <3>2, <3>3, <3>4, <3>5 DEF RequestTypeOK
  <2>2. Holders = {}
    BY Zenon DEF RequestInit, Holders, Admitted, Working, Responding
  <2>3. PermitInv
    BY <2>2, BoundsNatural, FS_EmptySet DEF RequestInit, PermitInv
  <2>4. \A r \in Requests : ~Waiting(r)
    BY Zenon DEF RequestInit, Waiting
  <2>5. Exchange
    BY <2>4 DEF RequestInit, Exchange, TicketInv, RecordInv, SentInv, RepliesReachTheirRequest
  <2>6. QED
    BY <2>1, <2>3, <2>5 DEF RequestInit, RequestInv, Exchange
<1>2. RequestInv /\ [RequestNext]_requestVars => RequestInv'
  <2> SUFFICES ASSUME RequestInv, [RequestNext]_requestVars
               PROVE  RequestInv'
    BY Zenon
  <2>1. CASE RequestNext
    <3>1. RequestTypeOK /\ PermitInv /\ TicketInv /\ Exchange /\ \A r \in Requests : seen[r] <= version
      BY Zenon DEF RequestInv, Exchange
    <3>2. PermitInv' /\ free' \in 0..InFlight
      BY Zenon, <2>1, <3>1, PermitStep
    <3>3. RequestTypeOK'
      BY Zenon, <2>1, <3>1, <3>2, RequestTypeStep
    <3>4. Exchange'
      BY Zenon, <2>1, <3>1, ExchangeStep
    <3>5. \A r \in Requests : seen'[r] <= version'
      BY Zenon, <2>1, <3>1, SeenStep
    <3>6. QED
      BY Zenon, <3>2, <3>3, <3>4, <3>5 DEF RequestInv, Exchange
  <2>2. CASE UNCHANGED requestVars
    <3>1. RequestTypeOK' /\ PermitInv' /\ \A r \in Requests : seen'[r] <= version'
      BY Zenon, <2>2 DEF RequestInv, RequestTypeOK, PermitInv, Holders, requestVars, watch, broker, ticket
    <3>2. Exchange'
      BY Zenon, <2>2, ExchangeFrame DEF RequestInv, Exchange, requestVars, Waiting
    <3>3. QED
      BY Zenon, <3>1, <3>2 DEF RequestInv, Exchange
  <2>3. QED
    BY Zenon, <2>1, <2>2
<1>3. QED
  BY <1>1, <1>2, PTL DEF RequestSpec

\* A reply reaches only the request whose publication it answers.
THEOREM RepliesSafe == RequestSpec => []RepliesReachTheirRequest
<1>1. RequestInv => RepliesReachTheirRequest
  BY Zenon DEF RequestInv
<1>2. QED
  BY <1>1, RequestInvariance, PTL

\* A request that waits on an empty channel has its record in the live session.
THEOREM WaitersSafe == RequestSpec => []NoStrandedWaiter
<1>1. RequestInv => NoStrandedWaiter
  <2> SUFFICES ASSUME RequestInv, NEW r \in Requests, Waiting(r), box[r] = "empty"
               PROVE  ~Retired(using[r]) /\ Ticket(r) \in pending
    BY Zenon DEF NoStrandedWaiter, Waiting, Ticket
  <2>1. Ticket(r) \in pending /\ Ticket(r).session = using[r]
    BY Zenon DEF RequestInv, RecordInv, Ticket
  <2>2. manager = "up" /\ using[r] = sessions /\ sessions \in Nat
    BY <2>1, BoundsNatural DEF RequestInv, RecordInv, RequestTypeOK
  <2>3. QED
    BY <2>1, <2>2 DEF Retired
<1>2. QED
  BY <1>1, RequestInvariance, PTL

\* An admitted request that gets as far as reserve() finds room: every record is
\* some other admitted request's, and those hold at most InFlight - 1 permits.
THEOREM CapacitySafe == RequestSpec => []AdmittedCanReserve
<1>1. RequestInv => AdmittedCanReserve
  <2> SUFFICES ASSUME RequestInv, NEW r \in Requests, at[r] = "sending"
               PROVE  HasCapacity(using[r])
    BY Zenon DEF AdmittedCanReserve, RequestInv
  <2> DEFINE P == InSession(using[r])
             Others == Holders \ {r}
             f == [p \in P |-> p.req]
  <2>1. \A p \in P : p.req \in Requests /\ Waiting(p.req) /\ p = Ticket(p.req)
    BY Zenon DEF InSession, RequestInv, RecordInv, RequestTypeOK, Records
  <2>2. \A p \in P : p.req \in Others
    BY Zenon, <2>1 DEF Waiting, Holders, Admitted, Working
  <2>3. f \in Injection(P, Others)
    <3>1. \A p, q \in P : p.req = q.req => p = q
      BY Zenon, <2>1
    <3>2. QED
      BY Zenon, <2>2, <3>1 DEF Injection, IsInjective
  <2>4. r \in Holders
    BY Zenon DEF Holders, Admitted, Working
  <2>5. IsFiniteSet(Others) /\ Cardinality(Others) = Cardinality(Holders) - 1
    BY Zenon, <2>4, HoldersFinite, FS_RemoveElement
  <2>6. Cardinality(P) <= Cardinality(Others) /\ IsFiniteSet(P) /\ Cardinality(P) \in Nat
    <3>1. IsFiniteSet(P) /\ Cardinality(P) <= Cardinality(Others)
      BY Zenon, <2>3, <2>5, FS_Injection
    <3>2. QED
      BY Zenon, <3>1, FS_CardinalityType
  <2> HIDE DEF P, Others
  <2>7. Cardinality(P) < InFlight
    BY <2>5, <2>6, HoldersFinite, BoundsNatural DEF RequestInv, PermitInv, RequestTypeOK
  <2>8. QED
    BY Zenon, <2>7 DEF HasCapacity, P
<1>2. QED
  BY <1>1, RequestInvariance, PTL

\* Permits are neither lost nor made: the free ones and the admitted requests add
\* up to GATEWAY_MAX_IN_FLIGHT_REQUESTS.
THEOREM PermitsConserved == RequestSpec => [](free + Cardinality(Holders) = InFlight)
<1>1. RequestInv => free + Cardinality(Holders) = InFlight
  BY Zenon DEF RequestInv, PermitInv
<1>2. QED
  BY <1>1, RequestInvariance, PTL

-----------------------------------------------------------------------------
(* Requests: no serving grace period.                                      *)

\* A request found at an await with the authority changed, and what is left of it.
Doomed(r, await) == (at[r] = await /\ Changed(r)) \/ at[r] \in {"dropping", "done"}

\* Once doomed, always doomed: the poll sees the change before the work, and a
\* version that has been passed never comes back.
LEMMA DoomedStep ==
  ASSUME RequestInv, NEW r \in Requests, NEW await \in {"intake", "awaiting"}, Doomed(r, await), [RequestNext]_requestVars
  PROVE  Doomed(r, await)'
<1> USE DEF Doomed, Changed
<1>1. RequestTypeOK /\ seen[r] <= version /\ seen[r] \in Nat /\ version \in Nat
  BY BoundsNatural DEF RequestInv, RequestTypeOK
<1>2. ASSUME UNCHANGED <<at, seen, version>>
      PROVE  Doomed(r, await)'
  BY Zenon, <1>2
<1>3. CASE \/ UNCHANGED requestVars \/ Broker \/ \E q \in Requests : Expire(q)
  <2>1. UNCHANGED <<at, seen, version>>
    BY Zenon, <1>3 DEF requestVars, watch, Broker, OpenSession, Retire, Withdraw, Deliver, Expire
  <2>2. QED
    BY Zenon, <1>2, <2>1
<1>4. CASE \E v \in BOOLEAN : SyncSend(v)
  <2>1. version' = version + 1 /\ UNCHANGED <<at, seen>>
    BY Zenon, <1>4 DEF SyncSend
  <2>2. version' # seen'[r]
    BY <1>1, <2>1
  <2>3. QED
    BY Zenon, <2>1, <2>2
<1>5. ASSUME NEW q \in Requests, Work(q) \/ Client(q)
      PROVE  Doomed(r, await)'
  <2>1. CASE q # r
    <3>1. at'[r] = at[r] /\ seen'[r] = seen[r] /\ version' = version
      BY Zenon, <1>1, <1>5, <2>1
         DEF Work, Client, Enter, Unrouted, Acquire, AuthorityLost, Poll, Pending, Rejected,
             BodyRead, NoBroker, Reserve, Publish, Receive, Written, Disconnect, Release, Respond,
             Move, watch, RequestTypeOK
    <3>2. QED
      BY Zenon, <3>1
  <2>2. CASE q = r
    <3>1. AuthorityLost(r) \/ Disconnect(r) \/ Release(r)
      BY Zenon, <1>5, <2>2
         DEF Work, Client, Enter, Unrouted, Acquire, Poll, Pending, Rejected,
             BodyRead, NoBroker, Reserve, Publish, Receive, Written
    <3>2. at'[r] \in {"dropping", "done"}
      BY Zenon, <1>1, <3>1 DEF AuthorityLost, Disconnect, Release, Move, RequestTypeOK
    <3>3. QED
      BY Zenon, <3>2
  <2>3. QED
    BY Zenon, <2>1, <2>2
<1>6. QED
  BY Zenon, <1>3, <1>4, <1>5 DEF RequestNext

\* A request that waits for its body when route sync changes is never published,
\* and one that waits for its reply never answers from it.
THEOREM NoGracePeriod == RequestSpec => NothingContinuesAfterLoss
<1> SUFFICES ASSUME NEW r \in Requests
             PROVE  RequestSpec =>
               /\ [](at[r] = "intake" /\ Changed(r) => [](at[r] \notin {"sending", "streaming"}))
               /\ [](at[r] = "awaiting" /\ Changed(r) => [](at[r] # "streaming"))
  BY Zenon DEF NothingContinuesAfterLoss
<1>1. RequestInv /\ Doomed(r, "intake") /\ [RequestNext]_requestVars => Doomed(r, "intake")'
  BY Zenon, DoomedStep
<1>2. RequestInv /\ Doomed(r, "awaiting") /\ [RequestNext]_requestVars => Doomed(r, "awaiting")'
  BY Zenon, DoomedStep
<1>3. (at[r] = "intake" /\ Changed(r)) => Doomed(r, "intake")
  BY Zenon DEF Doomed
<1>4. (at[r] = "awaiting" /\ Changed(r)) => Doomed(r, "awaiting")
  BY Zenon DEF Doomed
<1>5. Doomed(r, "intake") => at[r] \notin {"sending", "streaming"}
  BY Zenon DEF Doomed
<1>6. Doomed(r, "awaiting") => at[r] # "streaming"
  BY Zenon DEF Doomed
<1>7. QED
  BY <1>1, <1>2, <1>3, <1>4, <1>5, <1>6, RequestInvariance, PTL DEF RequestSpec
=============================================================================
