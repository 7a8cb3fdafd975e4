--------------------- MODULE InvocationSupervisorProofs ---------------------
(***************************************************************************)
(* Proofs about InvocationSupervisor, for any finite set of messages and   *)
(* any limits: its invariants and action properties, and that it           *)
(* implements DispatchContract.                                            *)
(***************************************************************************)
EXTENDS DispatchRefinement, FiniteSetTheorems, TLAPS

-----------------------------------------------------------------------------
(* The inductive invariant.                                                *)

\* The supervisor holds at most one message, and only between taking it from
\* the channel and admitting, answering or dropping it.
Holding == {"received", "permit", "acquire", "admit"}

HeldInv ==
  /\ \A m, n \in Messages : stage[m] = "held" /\ stage[n] = "held" => m = n
  /\ \A m \in Messages : stage[m] = "held" => pc \in Holding \cup {"revoke", "revoke_stop"}

\* The channel holds exactly the messages whose stage is "queued", each once.
QueueInv ==
  /\ \A i, j \in 1..Len(queue) : queue[i] = queue[j] => i = j
  /\ \A i \in 1..Len(queue) : stage[queue[i]] = "queued"
  /\ \A m \in Messages : stage[m] = "queued" => \E i \in 1..Len(queue) : queue[i] = m

\* recv() was guarded by the record limit, and only the supervisor opens records,
\* so while it holds a message there is room for one more.
JobsBound ==
  /\ Cardinality(Jobs) <= MaxConcurrent
  /\ pc \in Holding => Cardinality(Jobs) < MaxConcurrent

\* Past the check that follows recv(), a message is held in sync unless a change
\* is still unseen.
HeldInSync == pc \in {"permit", "acquire", "admit"} /\ version = seen => synced

SlotInv == TypeOK /\ HeldInv /\ QueueInv /\ SlotsConserved
IInv == SlotInv /\ JobsBound /\ HeldInSync /\ OutlivesNoAuthority /\ WorkOnlyInSync

-----------------------------------------------------------------------------
(* Accounting, sets of messages and their sizes.                           *)

\* Any selection of messages is finite, so the gauges move by numbers.
LEMMA SelectionSize ==
  ASSUME NEW S, S \subseteq Messages
  PROVE  IsFiniteSet(S) /\ Cardinality(S) \in Nat
  BY Zenon, MessagesFinite, FS_Subset, FS_CardinalityType

\* The two deltas built from a set of messages are functions to the integers.
LEMMA DeltaTypes ==
  ASSUME NEW S, S \subseteq Messages
  PROVE  /\ Leave(S) \in [Gauges -> Int]
         /\ Terminating(S) \in [Gauges -> Int]
<1>1. Cardinality(S) \in Nat
  BY Zenon, SelectionSize
<1>2. Cardinality({m \in S : Live(m) /\ ~cancelled[m]}) \in Nat
  BY Zenon, SelectionSize, {m \in S : Live(m) /\ ~cancelled[m]} \subseteq Messages
<1>3. QED
  BY <1>1, <1>2 DEF Leave, Terminating, Zero, Gauges

\* Account keeps the gauges natural numbers and the alarms known ones.
LEMMA AccountType ==
  ASSUME work \in [Gauges -> Nat], alarms \subseteq Alarms,
         NEW delta \in [Gauges -> Int], NEW added \in SUBSET {"queued", "execution", "tracked"},
         Account(delta, added)
  PROVE  work' \in [Gauges -> Nat] /\ alarms' \subseteq Alarms
<1>1. work' \in [Gauges -> Nat]
  BY DEF Account, Decrement
<1>2. alarms' \subseteq Alarms
  BY ZenonT(30) DEF Account, Alarms
<1>3. QED
  BY Zenon, <1>1, <1>2

\* End keeps the types of what it touches.
LEMMA EndType ==
  ASSUME TypeOK, NEW S, NEW to \in Stages, End(S, to)
  PROVE  /\ stage' \in [Messages -> Stages]
         /\ born' \in [Messages -> 0..MaxChanges]
         /\ cancelled' \in [Messages -> BOOLEAN]
         /\ expired' \in [Messages -> BOOLEAN]
         /\ revoked' \in [Messages -> BOOLEAN]
         /\ result' \in [Messages -> Results]
<1>1. stage' \in [Messages -> Stages] /\ born' \in [Messages -> 0..MaxChanges]
      /\ result' \in [Messages -> Results]
  BY LimitsPositive DEF TypeOK, End, Results
<1>2. /\ cancelled' \in [Messages -> BOOLEAN]
      /\ expired' \in [Messages -> BOOLEAN]
      /\ revoked' \in [Messages -> BOOLEAN]
  BY Zenon DEF End
<1>3. QED
  BY Zenon, <1>1, <1>2

\* A message dropped or reaped keeps every type.
LEMMA DropType ==
  ASSUME TypeOK, NEW S \in SUBSET Messages, Drop(S)
  PROVE  /\ stage' \in [Messages -> Stages]
         /\ born' \in [Messages -> 0..MaxChanges]
         /\ cancelled' \in [Messages -> BOOLEAN]
         /\ expired' \in [Messages -> BOOLEAN]
         /\ revoked' \in [Messages -> BOOLEAN]
         /\ result' \in [Messages -> Results]
         /\ work' \in [Gauges -> Nat]
         /\ alarms' \subseteq Alarms
<1>1. "dropped" \in Stages
  BY Zenon DEF Stages
<1>2. Leave(S) \in [Gauges -> Int]
  BY Zenon, DeltaTypes
<1>3. work' \in [Gauges -> Nat] /\ alarms' \subseteq Alarms
  BY Zenon, <1>2, AccountType DEF Drop, TypeOK
<1>4. QED
  BY Zenon, <1>1, <1>3, EndType DEF Drop

\* Collecting a finished task (collect) keeps every type it touches.
LEMMA CollectType ==
  ASSUME TypeOK, NEW m \in Messages, Collect(m)
  PROVE  /\ stage' \in [Messages -> Stages]
         /\ born' \in [Messages -> 0..MaxChanges]
         /\ cancelled' \in [Messages -> BOOLEAN]
         /\ expired' \in [Messages -> BOOLEAN]
         /\ revoked' \in [Messages -> BOOLEAN]
         /\ result' \in [Messages -> Results]
         /\ work' \in [Gauges -> Nat]
         /\ alarms' \subseteq Alarms
         /\ UNCHANGED <<queue, intake, shutdown, watch, slots>>
<1>1. "reaped" \in Stages /\ "publishing" \in Stages
  BY Zenon DEF Stages, JobStages, ReplyStages
<1>2. CASE stage' = [stage EXCEPT ![m] = "publishing"] /\ UNCHANGED <<flags, metrics>>
  BY Zenon, <1>1, <1>2 DEF TypeOK, flags, metrics, Collect, Discarded
<1>3. CASE End({m}, "reaped") /\ Account([Zero EXCEPT !["tracked"] = -1], {})
  <2>1. [Zero EXCEPT !["tracked"] = -1] \in [Gauges -> Int]
    BY DEF Zero, Gauges
  <2>2. work' \in [Gauges -> Nat] /\ alarms' \subseteq Alarms
    BY ZenonT(30), <1>3, <2>1, AccountType DEF TypeOK
  <2>3. QED
    BY Zenon, <1>1, <1>3, <2>2, EndType DEF Collect, Discarded
<1>4. CASE End({m}, "reaped") /\ Account([Zero EXCEPT !["tracked"] = -1, !["uncollected"] = -1], {})
  <2>1. [Zero EXCEPT !["tracked"] = -1, !["uncollected"] = -1] \in [Gauges -> Int]
    BY DEF Zero, Gauges
  <2> DEFINE delta == [Zero EXCEPT !["tracked"] = -1, !["uncollected"] = -1]
  <2> HIDE DEF delta
  <2>2. work' \in [Gauges -> Nat] /\ alarms' \subseteq Alarms
    <3>1. delta \in [Gauges -> Int] /\ Account(delta, {})
      BY Zenon, <1>4, <2>1 DEF delta
    <3>2. QED
      BY ZenonT(30), <3>1, AccountType DEF TypeOK
  <2>3. QED
    BY Zenon, <1>1, <1>4, <2>2, EndType DEF Collect, Discarded
<1>5. QED
  BY Zenon, <1>2, <1>3, <1>4 DEF Collect, Discarded

-----------------------------------------------------------------------------
(* Type correctness of a step.  That slots stays within its range follows  *)
(* from SlotsConserved and is a hypothesis here.                           *)

\* Every step keeps the types; the range of the free slots is left to SlotStep, which
\* needs the conservation of slots.
LEMMA TypeStep ==
  ASSUME TypeOK, Next, slots' \in 0..MaxConcurrent
  PROVE  TypeOK'
<1> USE LimitsPositive DEF Loop, Stopped, Stages, JobStages, ExecutionStages, ReplyStages, Results
<1>1. CASE SelectShutdown \/ SelectPending \/ TakeClosed \/ DrainFinished \/ Reserve
             \/ IntakeExit \/ Terminated
  BY <1>1 DEF TypeOK, SelectShutdown, SelectPending, TakeClosed, DrainFinished, Reserve,
              IntakeExit, Terminated, vars, watch, flags, metrics
<1>2. CASE SelectChanged \/ PermitChanged
  <2>1. CancelUntrustedWork
    BY Zenon, <1>2 DEF SelectChanged, PermitChanged
  <2>2. In(ExecutionStages) \in SUBSET Messages
    BY Zenon DEF In
  <2>3. work' \in [Gauges -> Nat] /\ alarms' \subseteq Alarms
    <3>1. Terminating(In(ExecutionStages)) \in [Gauges -> Int]
      BY Zenon, <2>2, DeltaTypes
    <3>2. Account(Terminating(In(ExecutionStages)), {})
      BY Zenon, <2>1 DEF CancelUntrustedWork
    <3>3. PICK delta \in [Gauges -> Int] : Account(delta, {})
      BY Zenon, <3>1, <3>2
    <3>4. QED
      BY ZenonT(30), <3>3, AccountType DEF TypeOK
  <2>4. cancelled' \in [Messages -> BOOLEAN] /\ revoked' \in [Messages -> BOOLEAN]
    BY Zenon, <2>1 DEF CancelUntrustedWork, Cancel
  <2>5. QED
    BY <2>1, <2>3, <2>4 DEF TypeOK, CancelUntrustedWork
<1>3. CASE TakeMessage \/ RevokePop
  <2>1. Head(queue) \in Messages /\ Tail(queue) \in Seq(Messages)
    BY <1>3 DEF TypeOK, TakeMessage, RevokePop
  <2>2. QED
    BY ZenonT(30), <1>3, <2>1 DEF TypeOK, TakeMessage, RevokePop, watch, flags, metrics
<1>4. CASE RevokeDone \/ DrainQueue
  <2>1. PICK S \in SUBSET Messages : Drop(S)
    BY Zenon, <1>4 DEF RevokeDone, DrainQueue, In
  <2>2. pc' \in Loop \cup Stopped /\ queue' \in Seq(Messages)
    <3>1. CASE RevokeDone
      BY Zenon, <3>1 DEF TypeOK, RevokeDone
    <3>2. CASE DrainQueue
      BY <3>2 DEF TypeOK, DrainQueue
    <3>3. QED
      BY Zenon, <1>4, <3>1, <3>2
  <2>3. UNCHANGED <<intake, shutdown, watch, slots>>
    BY Zenon, <1>4 DEF RevokeDone, DrainQueue
  <2>4. QED
    BY Zenon, <2>1, <2>2, <2>3, DropType DEF TypeOK, watch
<1>5. ASSUME NEW m \in Messages, TakeJoin(m) \/ AcquireJoin(m) \/ DrainJoin(m)
      PROVE  TypeOK'
  BY Zenon, <1>5, CollectType DEF TypeOK, TakeJoin, AcquireJoin, DrainJoin, watch
<1>6. ASSUME NEW m \in Messages,
             PermitShutdown(m) \/ AdmitMiss(m) \/ AdmitUntrusted(m) \/ RevokeDrop(m)
      PROVE  TypeOK'
  <2>1. Drop({m})
    BY Zenon, <1>6 DEF PermitShutdown, AdmitMiss, AdmitUntrusted, RevokeDrop
  <2>2. QED
    BY <1>6, <2>1, DropType DEF TypeOK, PermitShutdown, AdmitMiss, AdmitUntrusted, RevokeDrop, watch
<1>7. ASSUME NEW m \in Messages, CheckSynced(m)
      PROVE  TypeOK'
  <2>1. CASE Drop({m})
    BY Zenon, <1>7, <2>1, DropType DEF TypeOK, CheckSynced, watch
  <2>2. CASE UNCHANGED <<stage, flags, metrics>>
    BY Zenon, <1>7, <2>2 DEF TypeOK, CheckSynced, watch, flags, metrics
  <2>3. QED
    BY Zenon, <1>7, <2>1, <2>2 DEF CheckSynced
<1>8. ASSUME NEW m \in Messages, PermitPending(m) \/ AcquirePermit(m) \/ ReleasePermit(m)
      PROVE  TypeOK'
  <2>1. CASE PermitPending(m)
    BY Zenon, <2>1 DEF TypeOK, PermitPending, watch, flags, metrics
  <2>2. CASE AcquirePermit(m)
    BY Zenon, <2>2 DEF TypeOK, AcquirePermit, watch, flags, metrics
  <2>3. CASE ReleasePermit(m)
    BY Zenon, <2>3 DEF TypeOK, ReleasePermit, watch, flags, metrics
  <2>4. QED
    BY Zenon, <1>8, <2>1, <2>2, <2>3
<1>9. ASSUME NEW m \in Messages, AcquireExpired(m)
      PROVE  TypeOK'
  <2> DEFINE delta == [Leave({m}) EXCEPT !["tracked"] = 1]
  <2>1. delta \in [Gauges -> Int]
    BY DeltaTypes, {m} \subseteq Messages DEF Gauges
  <2>2. Account(delta, {"tracked"})
    BY Zenon, <1>9 DEF AcquireExpired
  <2> HIDE DEF delta
  <2>3. work' \in [Gauges -> Nat] /\ alarms' \subseteq Alarms
    BY Zenon, <2>1, <2>2, AccountType DEF TypeOK
  <2>4. cancelled' \in [Messages -> BOOLEAN]
    BY Zenon, <1>9 DEF AcquireExpired, Cancel
  <2>5. QED
    BY ZenonT(30), <1>9, <2>3, <2>4 DEF TypeOK, AcquireExpired, watch
<1>10. ASSUME NEW m \in Messages, Admit(m)
       PROVE  TypeOK'
  <2> DEFINE delta == [Leave({m}) EXCEPT !["tracked"] = 1,
                         ![IF cancelled'[m] THEN "terminating" ELSE "running"] = 1]
  <2>1. delta \in [Gauges -> Int]
    BY DeltaTypes, {m} \subseteq Messages DEF Gauges
  <2>2. Account(delta, {"tracked", "execution"})
    BY Zenon, <1>10 DEF Admit
  <2> HIDE DEF delta
  <2>3. work' \in [Gauges -> Nat] /\ alarms' \subseteq Alarms
    BY ZenonT(30), <2>1, <2>2, AccountType DEF TypeOK
  <2>4. cancelled' \in [Messages -> BOOLEAN]
    BY Zenon, <1>10 DEF Admit, TypeOK
  <2>5. QED
    BY Zenon, <1>10, <2>3, <2>4 DEF TypeOK, Admit, watch
<1>11. ASSUME NEW m \in Messages, Forward(m)
       PROVE  TypeOK'
  <2> DEFINE delta == [Zero EXCEPT !["queued"] = 1]
  <2>1. delta \in [Gauges -> Int]
    BY DEF Gauges, Zero
  <2>2. Account(delta, {"queued"})
    BY Zenon, <1>11 DEF Forward
  <2> HIDE DEF delta
  <2>3. work' \in [Gauges -> Nat] /\ alarms' \subseteq Alarms
    BY ZenonT(30), <2>1, <2>2, AccountType DEF TypeOK
  <2>4. queue' \in Seq(Messages)
    BY <1>11 DEF TypeOK, Forward
  <2>5. QED
    BY Zenon, <1>11, <2>3, <2>4 DEF TypeOK, Forward, watch
<1>12. ASSUME NEW m \in Messages, GuestExit(m)
       PROVE  TypeOK'
  <2>1. work' \in [Gauges -> Nat] /\ alarms' \subseteq Alarms /\ cancelled' \in [Messages -> BOOLEAN]
    <3>1. CASE UNCHANGED <<cancelled, metrics>>
      BY Zenon, <3>1 DEF TypeOK, metrics
    <3>2. CASE Cancel({m}) /\ Account(Terminating({m}), {})
      <4>1. Terminating({m}) \in [Gauges -> Int]
        BY Zenon, DeltaTypes, {m} \subseteq Messages
      <4>2. work' \in [Gauges -> Nat] /\ alarms' \subseteq Alarms
        BY ZenonT(30), <3>2, <4>1, AccountType DEF TypeOK
      <4>3. QED
        BY Zenon, <3>2, <4>2 DEF Cancel
    <3>3. QED
      BY Zenon, <1>12, <3>1, <3>2 DEF GuestExit
  <2>2. stage' \in [Messages -> Stages] /\ result' \in [Messages -> Results]
    BY Zenon, <1>12 DEF TypeOK, GuestExit
  <2>3. UNCHANGED <<pc, queue, intake, shutdown, watch, born, expired, revoked, slots>>
    BY Zenon, <1>12 DEF GuestExit
  <2>4. QED
    BY Zenon, <2>1, <2>2, <2>3 DEF TypeOK, watch
<1>13. ASSUME NEW m \in Messages, CleanupExit(m)
       PROVE  TypeOK'
  <2> DEFINE delta == [Zero EXCEPT ![IF cancelled[m] THEN "terminating" ELSE "running"] = -1]
  <2>1. delta \in [Gauges -> Int]
    BY DEF Gauges, Zero
  <2>2. Account(delta, {})
    BY Zenon, <1>13 DEF CleanupExit
  <2> HIDE DEF delta
  <2>3. work' \in [Gauges -> Nat] /\ alarms' \subseteq Alarms
    BY ZenonT(30), <2>1, <2>2, AccountType DEF TypeOK
  <2>4. cancelled' \in [Messages -> BOOLEAN]
    BY Zenon, <1>13 DEF CleanupExit, TypeOK
  <2>5. QED
    BY ZenonT(30), <1>13, <2>3, <2>4 DEF TypeOK, CleanupExit, watch
<1>14. ASSUME NEW m \in Messages, Complete(m)
       PROVE  TypeOK'
  <2>1. cancelled' \in [Messages -> BOOLEAN]
    BY Zenon, <1>14 DEF Complete, TypeOK
  <2>2. result' \in [Messages -> Results]
    BY Zenon, <1>14 DEF Complete, TypeOK
  <2>3. QED
    BY Zenon, <1>14, <2>1, <2>2 DEF TypeOK, Complete, watch, metrics
<1>15. ASSUME NEW m \in Messages, ReplyExit(m)
       PROVE  TypeOK'
  <2> DEFINE delta == [Zero EXCEPT !["uncollected"] = 1]
  <2>1. delta \in [Gauges -> Int]
    BY DEF Gauges, Zero
  <2>2. Account(delta, {})
    BY Zenon, <1>15 DEF ReplyExit
  <2> HIDE DEF delta
  <2>3. work' \in [Gauges -> Nat] /\ alarms' \subseteq Alarms
    BY ZenonT(30), <2>1, <2>2, AccountType DEF TypeOK
  <2>4. QED
    BY <1>15, <2>3 DEF TypeOK, ReplyExit, watch, flags
<1>16. CASE World
  <2>1. CASE SyncDrop \/ Sigterm \/ \E v \in BOOLEAN : SyncSend(v)
    <3>1. synced' \in BOOLEAN /\ syncOpen' \in BOOLEAN /\ shutdown' \in BOOLEAN
      BY ZenonT(30), <2>1 DEF SyncDrop, Sigterm, SyncSend, TypeOK, watch
    <3>2. version' \in 0..MaxChanges /\ seen' \in 0..version'
      BY <2>1 DEF SyncDrop, Sigterm, SyncSend, TypeOK, watch
    <3>3. UNCHANGED <<pc, queue, intake, stage, flags, slots, metrics>>
      BY Zenon, <2>1 DEF SyncDrop, Sigterm, SyncSend
    <3>4. QED
      BY Zenon, <3>1, <3>2, <3>3 DEF TypeOK, flags, metrics
  <2>2. ASSUME NEW m \in Messages, Expire(m)
        PROVE  TypeOK'
    <3>1. expired' \in [Messages -> BOOLEAN]
      BY Zenon, <2>2 DEF Expire, TypeOK
    <3>2. QED
      BY Zenon, <2>2, <3>1 DEF Expire, TypeOK, watch, metrics
  <2>3. QED
    BY Zenon, <1>16, <2>1, <2>2 DEF World
<1>17. ASSUME NEW m \in Messages, DeadlineNoticed(m)
       PROVE  TypeOK'
  <2>1. Terminating({m}) \in [Gauges -> Int]
    BY Zenon, DeltaTypes, {m} \subseteq Messages
  <2>2. work' \in [Gauges -> Nat] /\ alarms' \subseteq Alarms
    BY ZenonT(30), <1>17, <2>1, AccountType DEF TypeOK, DeadlineNoticed
  <2>3. cancelled' \in [Messages -> BOOLEAN]
    BY Zenon, <1>17 DEF DeadlineNoticed, Cancel
  <2>4. QED
    BY Zenon, <1>17, <2>2, <2>3 DEF TypeOK, DeadlineNoticed, watch
<1>18. QED
  BY Zenon, <1>1, <1>2, <1>3, <1>4, <1>5, <1>6, <1>7, <1>8, <1>9, <1>10, <1>11, <1>12, <1>13, <1>14,
     <1>15, <1>16, <1>17 DEF Next, Supervisor, Intake, Task

-----------------------------------------------------------------------------
(* The message in hand and the channel.                                    *)

\* Taking the head of a sequence of messages moves the others up by one.
LEMMA TailShifts ==
  ASSUME NEW q \in Seq(Messages), q # <<>>
  PROVE  /\ Head(q) = q[1] /\ 1 \in 1..Len(q)
         /\ Tail(q) \in Seq(Messages) /\ Len(Tail(q)) = Len(q) - 1
         /\ \A i \in 1..Len(Tail(q)) : Tail(q)[i] = q[i + 1] /\ i + 1 \in 1..Len(q)
  OBVIOUS

\* A step that leaves the channel alone, queues nothing and takes nothing in hand.
LEMMA ChannelUntouched ==
  ASSUME TypeOK, HeldInv, QueueInv, queue' = queue,
         \A m \in Messages : stage'[m] = "queued" <=> stage[m] = "queued",
         \A m \in Messages : stage'[m] = "held" =>
             stage[m] = "held" /\ pc' \in Holding \cup {"revoke", "revoke_stop"}
  PROVE  HeldInv' /\ QueueInv'
<1>1. HeldInv'
  BY Zenon DEF HeldInv
<1>2. QueueInv'
  <2>1. \A i \in 1..Len(queue) : queue[i] \in Messages
    BY DEF TypeOK
  <2>2. QED
    BY <2>1 DEF QueueInv
<1>3. QED
  BY Zenon, <1>1, <1>2

\* What collecting a task does to the stages.
LEMMA CollectStage ==
  ASSUME TypeOK, NEW m \in Messages, Collect(m)
  PROVE  /\ stage[m] \in {"executed", "sent", "unsent"}
         /\ stage'[m] \in {"publishing", "reaped"}
         /\ stage'[m] = "publishing" => stage[m] = "executed"
         /\ \A n \in Messages \ {m} : stage'[n] = stage[n]
         /\ queue' = queue
  BY Zenon DEF Collect, Discarded, Ready, End, TypeOK

\* What dropping messages does to the stages.
LEMMA DropStage ==
  ASSUME TypeOK, NEW S \in SUBSET Messages, Drop(S)
  PROVE  /\ \A n \in S : stage'[n] = "dropped"
         /\ \A n \in Messages \ S : stage'[n] = stage[n]
  BY Zenon DEF Drop, End, TypeOK

\* Every step keeps one message in hand at most and the channel in agreement with
\* the stages: the intake task appends, the supervisor takes from the front.
LEMMA ChannelStep ==
  ASSUME TypeOK, HeldInv, QueueInv, Next
  PROVE  HeldInv' /\ QueueInv'
<1> DEFINE Untouched ==
      /\ queue' = queue
      /\ \A m \in Messages : stage'[m] = "queued" <=> stage[m] = "queued"
      /\ \A m \in Messages : stage'[m] = "held" =>
             stage[m] = "held" /\ pc' \in Holding \cup {"revoke", "revoke_stop"}
<1>0. ASSUME Untouched PROVE HeldInv' /\ QueueInv'
  BY Zenon, <1>0, ChannelUntouched
<1>1. CASE SelectShutdown \/ SelectPending \/ TakeClosed \/ DrainFinished \/ Reserve
             \/ IntakeExit \/ Terminated \/ World \/ SelectChanged \/ PermitChanged
             \/ \E m \in Messages : PermitPending(m) \/ AcquirePermit(m)
  <2>1. stage' = stage /\ queue' = queue
    BY ZenonT(30), <1>1 DEF SelectShutdown, SelectPending, TakeClosed, DrainFinished, Reserve, IntakeExit,
                Terminated, World, SyncDrop, Sigterm, SyncSend, Expire, SelectChanged,
                PermitChanged, CancelUntrustedWork, PermitPending, AcquirePermit, vars
  <2>2. \/ pc' = pc
        \/ pc \in {"select", "take", "draining"}
        \/ pc' \in Holding \cup {"revoke", "revoke_stop"}
    BY Zenon, <1>1 DEF SelectShutdown, SelectPending, TakeClosed, DrainFinished, Reserve, IntakeExit,
                Terminated, World, SyncDrop, Sigterm, SyncSend, Expire, SelectChanged,
                PermitChanged, CancelUntrustedWork, PermitPending, AcquirePermit, vars, Holding
  <2>3. Untouched
    BY ZenonT(30), <2>1, <2>2 DEF HeldInv, Holding
  <2>4. QED
    BY ZenonT(30), <2>3, <1>0
<1>2. CASE TakeMessage \/ RevokePop
  <2>1. /\ queue \in Seq(Messages) /\ queue # <<>>
        /\ Head(queue) = queue[1] /\ 1 \in 1..Len(queue)
        /\ queue' = Tail(queue) /\ Len(queue') = Len(queue) - 1
        /\ \A i \in 1..Len(queue') : queue'[i] = queue[i + 1] /\ i + 1 \in 1..Len(queue)
    <3>1. queue \in Seq(Messages) /\ queue # <<>> /\ queue' = Tail(queue)
      BY Zenon, <1>2 DEF TypeOK, TakeMessage, RevokePop
    <3>2. QED
      BY Zenon, <3>1, TailShifts
  <2>2. PICK to \in {"held", "popped"} :
          /\ stage' = [stage EXCEPT ![queue[1]] = to]
          /\ to = "held" => pc = "take" /\ pc' = "received"
          /\ to = "popped" => pc' = pc
    BY Zenon, <1>2, <2>1 DEF TakeMessage, RevokePop
  <2>3. \A m \in Messages : stage'[m] = IF m = queue[1] THEN to ELSE stage[m]
    BY Zenon, <2>2, <2>1 DEF TypeOK
  <2>4. \A i \in 1..Len(queue) : queue[i] \in Messages
    BY <2>1
  <2>5. HeldInv'
    BY Zenon, <2>2, <2>3 DEF HeldInv, Holding
  <2>6. \A i, j \in 1..Len(queue') : queue'[i] = queue'[j] => i = j
    BY <2>1 DEF QueueInv
  <2>7. \A i \in 1..Len(queue') : stage'[queue'[i]] = "queued"
    <3>1. TAKE i \in 1..Len(queue')
    <3>2. queue'[i] = queue[i + 1] /\ i + 1 \in 1..Len(queue) /\ i + 1 # 1
      BY <2>1
    <3>3. queue[i + 1] # queue[1]
      BY Zenon, <3>2, <2>1 DEF QueueInv
    <3>4. QED
      BY <3>2, <3>3, <2>3, <2>4 DEF QueueInv
  <2>8. \A m \in Messages : stage'[m] = "queued" => \E i \in 1..Len(queue') : queue'[i] = m
    <3>1. SUFFICES ASSUME NEW m \in Messages, stage'[m] = "queued"
                   PROVE  \E i \in 1..Len(queue') : queue'[i] = m
      BY Zenon
    <3>2. m # queue[1] /\ stage[m] = "queued"
      BY Zenon, <3>1, <2>3
    <3>3. PICK j \in 1..Len(queue) : queue[j] = m
      BY Zenon, <3>2 DEF QueueInv
    <3>4. j - 1 \in 1..Len(queue') /\ queue'[j - 1] = m
      BY <3>2, <3>3, <2>1
    <3>5. QED
      BY Zenon, <3>4
  <2>9. QED
    BY Zenon, <2>5, <2>6, <2>7, <2>8 DEF QueueInv
<1>3. ASSUME NEW m \in Messages, Forward(m)
      PROVE  HeldInv' /\ QueueInv'
  <2>1. /\ queue \in Seq(Messages) /\ queue' = Append(queue, m)
        /\ Len(queue') = Len(queue) + 1 /\ queue'[Len(queue) + 1] = m
        /\ \A i \in 1..Len(queue) : queue'[i] = queue[i] /\ queue[i] \in Messages
    BY <1>3 DEF TypeOK, Forward
  <2>2. /\ stage[m] = "idle" /\ pc' = pc
        /\ \A n \in Messages : stage'[n] = IF n = m THEN "queued" ELSE stage[n]
    BY Zenon, <1>3 DEF TypeOK, Forward
  <2>3. HeldInv'
    BY Zenon, <2>2 DEF HeldInv, Holding
  <2>4. \A i \in 1..Len(queue) : queue[i] # m
    BY Zenon, <2>2 DEF QueueInv
  <2>5. \A i, j \in 1..Len(queue') : queue'[i] = queue'[j] => i = j
    BY <2>1, <2>4 DEF QueueInv
  <2>6. \A i \in 1..Len(queue') : stage'[queue'[i]] = "queued"
    BY <2>1, <2>2 DEF QueueInv
  <2>7. \A n \in Messages : stage'[n] = "queued" => \E i \in 1..Len(queue') : queue'[i] = n
    BY <2>1, <2>2 DEF QueueInv
  <2>8. QED
    BY Zenon, <2>3, <2>5, <2>6, <2>7 DEF QueueInv
<1>4. CASE DrainQueue
  <2>1. /\ In({"queued"}) \in SUBSET Messages /\ Drop(In({"queued"}))
        /\ queue' = <<>> /\ pc = "stopping"
    BY Zenon, <1>4 DEF DrainQueue, In
  <2>2. \A n \in Messages : stage'[n] \notin {"queued", "held"}
    BY Zenon, <2>1, DropStage DEF In, HeldInv, Holding
  <2>3. QED
    BY <2>1, <2>2 DEF HeldInv, QueueInv
<1>5. CASE RevokeDone
  <2>1. /\ In({"held"}) \in SUBSET Messages /\ Drop(In({"held"})) /\ queue' = queue
    BY Zenon, <1>5 DEF RevokeDone, In
  <2>2. Untouched
    BY Zenon, <2>1, DropStage DEF In
  <2>3. QED
    BY Zenon, <2>2, <1>0
<1>6. ASSUME NEW m \in Messages, TakeJoin(m) \/ AcquireJoin(m) \/ DrainJoin(m)
      PROVE  HeldInv' /\ QueueInv'
  <2>1. Collect(m) /\ (pc' \in Holding \/ pc \in {"take", "draining"})
    BY Zenon, <1>6 DEF TakeJoin, AcquireJoin, DrainJoin, Holding
  <2>2. Untouched
    BY Zenon, <2>1, CollectStage DEF HeldInv, Holding
  <2>3. QED
    BY Zenon, <2>2, <1>0
<1>7. ASSUME NEW m \in Messages,
             PermitShutdown(m) \/ AdmitMiss(m) \/ AdmitUntrusted(m) \/ RevokeDrop(m)
      PROVE  HeldInv' /\ QueueInv'
  <2>1. /\ Drop({m}) /\ queue' = queue /\ stage[m] \in {"held", "popped"}
        /\ stage[m] = "popped" => pc' = pc
    BY Zenon, <1>7 DEF PermitShutdown, AdmitMiss, AdmitUntrusted, RevokeDrop
  <2>2. stage'[m] = "dropped" /\ \A n \in Messages \ {m} : stage'[n] = stage[n]
    BY Zenon, <2>1, DropStage
  <2>3. Untouched
    BY Zenon, <2>1, <2>2 DEF HeldInv
  <2>4. QED
    BY Zenon, <2>3, <1>0
<1>8. ASSUME NEW m \in Messages, CheckSynced(m)
      PROVE  HeldInv' /\ QueueInv'
  <2>1. queue' = queue /\ stage[m] = "held"
    BY Zenon, <1>8 DEF CheckSynced
  <2>2. CASE Drop({m})
    <3>1. stage'[m] = "dropped" /\ \A n \in Messages \ {m} : stage'[n] = stage[n]
      BY Zenon, <2>2, DropStage
    <3>2. Untouched
      BY Zenon, <2>1, <3>1 DEF HeldInv
    <3>3. QED
      BY Zenon, <3>2, <1>0
  <2>3. CASE pc' = "permit" /\ UNCHANGED stage
    <3>1. Untouched
      BY Zenon, <2>1, <2>3 DEF HeldInv, Holding
    <3>2. QED
      BY Zenon, <3>1, <1>0
  <2>4. QED
    BY Zenon, <1>8, <2>2, <2>3 DEF CheckSynced
<1>9. ASSUME NEW m \in Messages, AcquireExpired(m) \/ Admit(m)
      PROVE  HeldInv' /\ QueueInv'
  <2>1. /\ queue' = queue /\ stage[m] = "held" /\ stage'[m] \in {"publishing", "guest"}
        /\ \A n \in Messages \ {m} : stage'[n] = stage[n]
    BY Zenon, <1>9 DEF AcquireExpired, Admit, TypeOK
  <2>2. Untouched
    BY Zenon, <2>1 DEF HeldInv
  <2>3. QED
    BY Zenon, <2>2, <1>0
<1>10. ASSUME NEW m \in Messages, Task(m)
       PROVE  HeldInv' /\ QueueInv'
  <2>1. /\ queue' = queue /\ pc' = pc /\ stage[m] \in JobStages /\ stage'[m] \in JobStages
        /\ \A n \in Messages \ {m} : stage'[n] = stage[n]
    BY Zenon, <1>10 DEF Task, GuestExit, DeadlineNoticed, Live, CleanupExit, ReleasePermit,
                 Complete, ReplyExit, TypeOK,
                 JobStages, ExecutionStages, ReplyStages
  <2>2. Untouched
    BY Zenon, <2>1 DEF HeldInv, JobStages, ExecutionStages, ReplyStages
  <2>3. QED
    BY Zenon, <2>2, <1>0
<1>11. QED
  BY Zenon, <1>1, <1>2, <1>3, <1>4, <1>5, <1>6, <1>7, <1>8, <1>9, <1>10 DEF Next, Supervisor, Intake

-----------------------------------------------------------------------------
(* Execution slots.                                                        *)

\* Adding or removing one message changes the size of a set by one.
LEMMA SizeByOne ==
  ASSUME NEW S \in SUBSET Messages, NEW m \in Messages
  PROVE  /\ m \notin S => Cardinality(S \cup {m}) = Cardinality(S) + 1
         /\ m \in S => Cardinality(S \ {m}) = Cardinality(S) - 1
  BY ZenonT(30), SelectionSize, FS_AddElement, FS_RemoveElement

\* Every step moves the free slots against the holders: a permit is taken by
\* AcquirePermit only and comes back through AdmitMiss, AdmitUntrusted or ReleasePermit.
LEMMA SlotStep ==
  ASSUME TypeOK, HeldInv, QueueInv, SlotsConserved, Next
  PROVE  SlotsConserved' /\ slots' \in 0..MaxConcurrent
<1>1. /\ Holders \in SUBSET Messages /\ Holders' \in SUBSET Messages
      /\ Cardinality(Holders) \in Nat /\ Cardinality(Holders') \in Nat
      /\ slots \in Nat /\ MaxConcurrent \in Nat
  <2>1. Holders \in SUBSET Messages /\ Holders' \in SUBSET Messages
    BY Zenon DEF Holders, In
  <2>2. QED
    BY <2>1, SelectionSize, LimitsPositive DEF TypeOK
<1>2. ASSUME Holders' = Holders, slots' = slots
      PROVE  SlotsConserved' /\ slots' \in 0..MaxConcurrent
  BY <1>1, <1>2 DEF SlotsConserved
<1>3. ASSUME NEW m \in Messages, m \notin Holders, Holders' = Holders \cup {m},
             slots > 0, slots' = slots - 1
      PROVE  SlotsConserved' /\ slots' \in 0..MaxConcurrent
  <2>1. Cardinality(Holders') = Cardinality(Holders) + 1
    BY Zenon, <1>1, <1>3, SizeByOne
  <2>2. QED
    BY <1>1, <1>3, <2>1 DEF SlotsConserved
<1>4. ASSUME NEW m \in Messages, m \in Holders, Holders' = Holders \ {m}, slots' = slots + 1
      PROVE  SlotsConserved' /\ slots' \in 0..MaxConcurrent
  <2>1. Cardinality(Holders') = Cardinality(Holders) - 1
    BY Zenon, <1>1, <1>4, SizeByOne
  <2>2. QED
    BY <1>1, <1>4, <2>1 DEF SlotsConserved
<1>5. ASSUME slots' = slots,
             \A m \in Messages : stage'[m] \in {"guest", "cleanup", "exited"}
                                   <=> stage[m] \in {"guest", "cleanup", "exited"},
             pc # "admit", pc' # "admit"
      PROVE  SlotsConserved' /\ slots' \in 0..MaxConcurrent
  <2>1. Holders' = Holders
    BY Zenon, <1>5 DEF Holders, In
  <2>2. QED
    BY Zenon, <1>2, <1>5, <2>1
<1>6. ASSUME slots' = slots, pc' = pc,
             \A m \in Messages :
                 /\ stage'[m] \in {"guest", "cleanup", "exited"}
                      <=> stage[m] \in {"guest", "cleanup", "exited"}
                 /\ stage'[m] = "held" <=> stage[m] = "held"
      PROVE  SlotsConserved' /\ slots' \in 0..MaxConcurrent
  <2>1. Holders' = Holders
    BY Zenon, <1>6 DEF Holders, In
  <2>2. QED
    BY Zenon, <1>2, <1>6, <2>1
<1>7. CASE SelectShutdown \/ SelectPending \/ TakeClosed \/ DrainFinished
             \/ SelectChanged \/ PermitChanged \/ \E m \in Messages : PermitPending(m)
  <2>1. stage' = stage /\ slots' = slots /\ pc # "admit" /\ pc' # "admit"
    BY Zenon, <1>7 DEF SelectShutdown, SelectPending, TakeClosed, DrainFinished, SelectChanged,
                PermitChanged, CancelUntrustedWork, PermitPending
  <2>2. QED
    BY ZenonT(30), <1>5, <2>1
<1>8. CASE Reserve \/ IntakeExit \/ Terminated \/ World
  <2>1. stage' = stage /\ slots' = slots /\ pc' = pc
    BY Zenon, <1>8 DEF Reserve, IntakeExit, Terminated, World, SyncDrop, Sigterm, SyncSend, Expire, vars
  <2>2. QED
    BY Zenon, <1>6, <2>1
<1>9. CASE TakeMessage \/ RevokePop
  <2>1. queue \in Seq(Messages) /\ queue # <<>> /\ Head(queue) = queue[1] /\ 1 \in 1..Len(queue)
    BY Zenon, <1>9, TailShifts DEF TypeOK, TakeMessage, RevokePop
  <2>2. stage[Head(queue)] = "queued"
    BY Zenon, <2>1 DEF QueueInv
  <2>3. /\ pc # "admit" /\ pc' # "admit" /\ slots' = slots
        /\ \A m \in Messages : m # Head(queue) => stage'[m] = stage[m]
        /\ stage'[Head(queue)] \in {"held", "popped"}
    BY <1>9, <2>1 DEF TakeMessage, RevokePop, TypeOK, Revoking
  <2>4. QED
    BY Zenon, <1>5, <2>2, <2>3
<1>10. CASE RevokeDone \/ DrainQueue
  <2>1. PICK S \in SUBSET Messages :
          Drop(S) /\ \A m \in S : stage[m] \in {"held", "queued"}
    BY <1>10 DEF RevokeDone, DrainQueue, In
  <2>2. pc # "admit" /\ pc' # "admit" /\ slots' = slots
    BY Zenon, <1>10 DEF RevokeDone, DrainQueue, Revoking
  <2>3. \A m \in Messages : \/ stage'[m] = stage[m]
                            \/ stage[m] \in {"held", "queued"} /\ stage'[m] = "dropped"
    BY Zenon, <2>1, DropStage
  <2>4. QED
    BY Zenon, <1>5, <2>2, <2>3
<1>11. ASSUME NEW m \in Messages, TakeJoin(m) \/ AcquireJoin(m) \/ DrainJoin(m)
       PROVE  SlotsConserved' /\ slots' \in 0..MaxConcurrent
  <2>1. Collect(m) /\ slots' = slots /\ pc # "admit" /\ pc' # "admit"
    BY Zenon, <1>11 DEF TakeJoin, AcquireJoin, DrainJoin, Collect
  <2>2. QED
    BY ZenonT(30), <1>5, <2>1, CollectStage
<1>12. ASSUME NEW m \in Messages, PermitShutdown(m) \/ RevokeDrop(m)
       PROVE  SlotsConserved' /\ slots' \in 0..MaxConcurrent
  <2>1. /\ Drop({m}) /\ slots' = slots /\ pc # "admit" /\ pc' # "admit"
        /\ stage[m] \in {"held", "popped"}
    BY Zenon, <1>12 DEF PermitShutdown, RevokeDrop, Revoking
  <2>2. stage'[m] = "dropped" /\ \A n \in Messages \ {m} : stage'[n] = stage[n]
    BY Zenon, <2>1, DropStage
  <2>3. QED
    BY Zenon, <1>5, <2>1, <2>2
<1>13. ASSUME NEW m \in Messages, CheckSynced(m)
       PROVE  SlotsConserved' /\ slots' \in 0..MaxConcurrent
  <2>1. slots' = slots /\ pc # "admit" /\ pc' # "admit" /\ stage[m] = "held"
    BY Zenon, <1>13 DEF CheckSynced
  <2>2. CASE stage' = stage
    BY Zenon, <1>5, <2>1, <2>2
  <2>3. CASE Drop({m})
    <3>1. stage'[m] = "dropped" /\ \A n \in Messages \ {m} : stage'[n] = stage[n]
      BY Zenon, <2>3, DropStage
    <3>2. QED
      BY Zenon, <1>5, <2>1, <3>1
  <2>4. QED
    BY Zenon, <1>13, <2>2, <2>3 DEF CheckSynced
<1>14. ASSUME NEW m \in Messages, AcquireExpired(m)
       PROVE  SlotsConserved' /\ slots' \in 0..MaxConcurrent
  <2>1. /\ slots' = slots /\ pc # "admit" /\ pc' # "admit" /\ stage[m] = "held"
        /\ stage'[m] = "publishing" /\ \A n \in Messages \ {m} : stage'[n] = stage[n]
    BY Zenon, <1>14 DEF AcquireExpired, TypeOK
  <2>2. QED
    BY Zenon, <1>5, <2>1
<1>15. ASSUME NEW m \in Messages, AcquirePermit(m)
       PROVE  SlotsConserved' /\ slots' \in 0..MaxConcurrent
  <2>1. /\ slots > 0 /\ slots' = slots - 1 /\ pc = "acquire" /\ pc' = "admit"
        /\ stage[m] = "held" /\ stage' = stage
    BY Zenon, <1>15 DEF AcquirePermit
  <2>2. Holders' = Holders \cup {m} /\ m \notin Holders
    BY Zenon, <2>1 DEF Holders, In, HeldInv
  <2>3. QED
    BY Zenon, <1>3, <2>1, <2>2
<1>16. ASSUME NEW m \in Messages, AdmitMiss(m) \/ AdmitUntrusted(m)
       PROVE  SlotsConserved' /\ slots' \in 0..MaxConcurrent
  <2>1. /\ Drop({m}) /\ slots' = slots + 1 /\ pc = "admit" /\ pc' = "select" /\ stage[m] = "held"
    BY Zenon, <1>16 DEF AdmitMiss, AdmitUntrusted
  <2>2. stage'[m] = "dropped" /\ \A n \in Messages \ {m} : stage'[n] = stage[n]
    BY Zenon, <2>1, DropStage
  <2>3. Holders' = Holders \ {m} /\ m \in Holders
    BY Zenon, <2>1, <2>2 DEF Holders, In, HeldInv
  <2>4. QED
    BY Zenon, <1>4, <2>1, <2>3
<1>17. ASSUME NEW m \in Messages, Admit(m)
       PROVE  SlotsConserved' /\ slots' \in 0..MaxConcurrent
  <2>1. /\ slots' = slots /\ pc = "admit" /\ pc' = "select" /\ stage[m] = "held"
        /\ stage'[m] = "guest" /\ \A n \in Messages \ {m} : stage'[n] = stage[n]
    BY Zenon, <1>17 DEF Admit, TypeOK
  <2>2. Holders' = Holders
    BY Zenon, <2>1 DEF Holders, In, HeldInv
  <2>3. QED
    BY Zenon, <1>2, <2>1, <2>2
<1>18. ASSUME NEW m \in Messages, Forward(m)
       PROVE  SlotsConserved' /\ slots' \in 0..MaxConcurrent
  <2>1. /\ slots' = slots /\ pc' = pc /\ stage[m] = "idle"
        /\ stage'[m] = "queued" /\ \A n \in Messages \ {m} : stage'[n] = stage[n]
    BY Zenon, <1>18 DEF Forward, TypeOK
  <2>2. QED
    BY Zenon, <1>6, <2>1
<1>19. ASSUME NEW m \in Messages, GuestExit(m) \/ DeadlineNoticed(m) \/ CleanupExit(m)
                             \/ Complete(m) \/ ReplyExit(m)
       PROVE  SlotsConserved' /\ slots' \in 0..MaxConcurrent
  <2>1. /\ slots' = slots /\ pc' = pc /\ \A n \in Messages \ {m} : stage'[n] = stage[n]
        /\ \/ stage[m] \in {"guest", "cleanup"} /\ stage'[m] \in {"guest", "cleanup", "exited"}
           \/ stage[m] \in {"released", "publishing"} /\ stage'[m] \in {"executed", "sent", "unsent"}
    BY Zenon, <1>19 DEF GuestExit, DeadlineNoticed, Live, CleanupExit, Complete, ReplyExit, TypeOK
  <2>2. QED
    BY Zenon, <1>6, <2>1
<1>20. ASSUME NEW m \in Messages, ReleasePermit(m)
       PROVE  SlotsConserved' /\ slots' \in 0..MaxConcurrent
  <2>1. /\ slots' = slots + 1 /\ pc' = pc /\ stage[m] = "exited"
        /\ stage'[m] = "released" /\ \A n \in Messages \ {m} : stage'[n] = stage[n]
    BY Zenon, <1>20 DEF ReleasePermit, TypeOK
  <2>2. Holders' = Holders \ {m} /\ m \in Holders
    BY ZenonT(30), <2>1 DEF Holders, In
  <2>3. QED
    BY Zenon, <1>4, <2>1, <2>2
<1>21. QED
  BY Zenon, <1>7, <1>8, <1>9, <1>10, <1>11, <1>12, <1>13, <1>14, <1>15, <1>16, <1>17, <1>18, <1>19,
     <1>20 DEF Next, Supervisor, Intake, Task

-----------------------------------------------------------------------------
(* Task records, and the authority under which work exists.                *)

\* How a step other than the ones it excludes moves the messages: what was not
\* work does not become work, and what stays in the host keeps its birth and its
\* revocation.
Carries(m) ==
  \/ stage'[m] \in {"dropped", "reaped", "popped"}
  \/ /\ born'[m] = born[m] /\ revoked'[m] = revoked[m]
     /\ \/ stage'[m] = stage[m]
        \/ stage[m] \in JobStages /\ stage'[m] \in JobStages
        \/ stage[m] = "queued" /\ stage'[m] = "held" /\ ~Revoking

\* The steps that neither start work nor deal with a sync change.
Routine ==
  \/ SelectShutdown \/ SelectPending \/ TakeMessage \/ TakeClosed
  \/ RevokePop \/ DrainQueue \/ DrainFinished
  \/ Reserve \/ IntakeExit \/ Terminated
  \/ \E m \in Messages :
       \/ TakeJoin(m) \/ AcquireJoin(m) \/ DrainJoin(m) \/ PermitShutdown(m)
       \/ PermitPending(m) \/ AcquirePermit(m) \/ AdmitMiss(m) \/ AdmitUntrusted(m)
       \/ RevokeDrop(m) \/ Task(m)

\* A routine step brings no message under the supervisor's authority, and leaves the
\* sync channel and what the supervisor has seen of it alone.
LEMMA RoutineStep ==
  ASSUME TypeOK, HeldInv, QueueInv, Routine
  PROVE  /\ \A m \in Messages : Carries(m)
         /\ UNCHANGED watch
         /\ pc' \in {"permit", "acquire", "admit"} => pc \in {"permit", "acquire", "admit"}
         /\ pc' \in Holding => pc \in Holding \/ Cardinality(Jobs) < MaxConcurrent
         /\ Revoking' <=> Revoking
<1>1. CASE SelectShutdown \/ SelectPending \/ TakeClosed \/ DrainFinished \/ Reserve
             \/ IntakeExit \/ Terminated \/ \E m \in Messages : PermitPending(m) \/ AcquirePermit(m)
  BY ZenonT(30), <1>1 DEF SelectShutdown, SelectPending, TakeClosed, DrainFinished, Reserve, IntakeExit,
              Terminated, PermitPending, AcquirePermit, vars, flags, Carries, Holding, Revoking
<1>2. CASE TakeMessage \/ RevokePop
  <2>1. queue \in Seq(Messages) /\ queue # <<>> /\ Head(queue) = queue[1] /\ 1 \in 1..Len(queue)
        /\ Head(queue) \in Messages
    BY <1>2, TailShifts DEF TypeOK, TakeMessage, RevokePop
  <2>2. stage[Head(queue)] = "queued"
    BY Zenon, <2>1 DEF QueueInv
  <2>3. /\ UNCHANGED watch /\ UNCHANGED flags
        /\ \A m \in Messages : m # Head(queue) => stage'[m] = stage[m]
        /\ \/ stage'[Head(queue)] = "held" /\ pc = "take" /\ pc' = "received"
              /\ Cardinality(Jobs) < MaxConcurrent
           \/ stage'[Head(queue)] = "popped" /\ pc' = pc
    BY Zenon, <1>2, <2>1 DEF TakeMessage, RevokePop, TypeOK, RecvReady
  <2>4. QED
    BY Zenon, <2>2, <2>3 DEF Carries, flags, Holding, Revoking
<1>3. CASE DrainQueue
  <2>1. /\ In({"queued"}) \in SUBSET Messages /\ Drop(In({"queued"})) /\ UNCHANGED watch
        /\ pc = "stopping" /\ pc' = "draining"
    BY Zenon, <1>3 DEF DrainQueue, In
  <2>2. \A m \in Messages : Carries(m)
    BY Zenon, <2>1 DEF Carries, Drop, End, TypeOK
  <2>3. QED
    BY Zenon, <2>1, <2>2 DEF Holding, Revoking
<1>4. ASSUME NEW m \in Messages, TakeJoin(m) \/ AcquireJoin(m) \/ DrainJoin(m)
      PROVE  /\ \A n \in Messages : Carries(n)
             /\ UNCHANGED watch
             /\ pc' \in {"permit", "acquire", "admit"} => pc \in {"permit", "acquire", "admit"}
             /\ pc' \in Holding => pc \in Holding
             /\ Revoking' <=> Revoking
  <2>1. Collect(m) /\ \/ pc = "take" /\ pc' = "select"
                      \/ pc = "acquire" /\ pc' = "permit"
                      \/ pc = "draining" /\ pc' = pc
    BY ZenonT(30), <1>4 DEF TakeJoin, AcquireJoin, DrainJoin
  <2>2. \A n \in Messages : Carries(n)
    BY <2>1 DEF Collect, Discarded, Carries, End, TypeOK, flags, JobStages, ExecutionStages, ReplyStages
  <2>3. UNCHANGED watch
    BY Zenon, <2>1 DEF Collect
  <2>4. QED
    BY Zenon, <2>1, <2>2, <2>3 DEF Holding, Revoking
<1>5. ASSUME NEW m \in Messages,
             PermitShutdown(m) \/ AdmitMiss(m) \/ AdmitUntrusted(m) \/ RevokeDrop(m)
      PROVE  /\ \A n \in Messages : Carries(n)
             /\ UNCHANGED watch
             /\ pc' \in {"permit", "acquire", "admit"} => pc \in {"permit", "acquire", "admit"}
             /\ pc' \in Holding => pc \in Holding
             /\ Revoking' <=> Revoking
  <2>1. Drop({m}) /\ UNCHANGED watch
    BY Zenon, <1>5 DEF PermitShutdown, AdmitMiss, AdmitUntrusted, RevokeDrop
  <2>2. \A n \in Messages : Carries(n)
    BY Zenon, <2>1 DEF Carries, Drop, End, TypeOK
  <2>3. pc' = pc \/ (pc \in {"permit", "admit"} /\ pc' \in {"select", "stopping"})
    BY Zenon, <1>5 DEF PermitShutdown, AdmitMiss, AdmitUntrusted, RevokeDrop
  <2>4. QED
    BY Zenon, <2>1, <2>2, <2>3 DEF Holding, Revoking
<1>6. ASSUME NEW m \in Messages, Task(m)
      PROVE  (\A n \in Messages : Carries(n)) /\ UNCHANGED watch /\ pc' = pc
  BY Zenon, <1>6 DEF Task, GuestExit, DeadlineNoticed, CleanupExit, ReleasePermit, Complete, ReplyExit,
              Live, TypeOK, flags, Carries, JobStages, ExecutionStages, ReplyStages
<1>7. QED
  BY ZenonT(30), <1>1, <1>2, <1>3, <1>4, <1>5, <1>6 DEF Routine, Revoking

\* Every step is routine or one of the few that admit work or handle sync changes.
LEMMA NextIsSplit ==
  ASSUME Next
  PROVE  \/ Routine \/ World \/ SelectChanged \/ PermitChanged \/ RevokeDone
         \/ \E m \in Messages : CheckSynced(m) \/ AcquireExpired(m) \/ Admit(m) \/ Forward(m)
  BY Zenon DEF Next, Supervisor, Intake, Routine

\* Records are opened only by Admit and AcquireExpired, which hold a message.
LEMMA JobsStep ==
  ASSUME TypeOK, HeldInv, QueueInv, JobsBound, Next
  PROVE  JobsBound'
<1>1. /\ Jobs \in SUBSET Messages /\ Jobs' \in SUBSET Messages
      /\ Cardinality(Jobs) \in Nat /\ Cardinality(Jobs') \in Nat /\ MaxConcurrent \in Nat
  <2>1. Jobs \in SUBSET Messages /\ Jobs' \in SUBSET Messages
    BY Zenon DEF Jobs, In
  <2>2. QED
    BY Zenon, <2>1, SelectionSize, LimitsPositive
<1>2. ASSUME Jobs' \subseteq Jobs,
             pc' \in Holding => pc \in Holding \/ Cardinality(Jobs) < MaxConcurrent
      PROVE  JobsBound'
  <2>1. Cardinality(Jobs') <= Cardinality(Jobs)
    BY Zenon, <1>1, <1>2, SelectionSize, FS_Subset
  <2>2. QED
    BY <1>1, <1>2, <2>1 DEF JobsBound
<1>3. CASE Routine
  <2>1. Jobs' \subseteq Jobs
    BY Zenon, <1>3, RoutineStep DEF Carries, Jobs, In, JobStages, ExecutionStages, ReplyStages
  <2>2. QED
    BY Zenon, <1>2, <1>3, <2>1, RoutineStep
<1>4. CASE World \/ SelectChanged \/ PermitChanged
  <2>1. stage' = stage /\ (pc' = pc \/ pc' \in {"revoke", "revoke_stop"})
    BY Zenon, <1>4 DEF World, SyncDrop, Sigterm, SyncSend, Expire, SelectChanged, PermitChanged,
                CancelUntrustedWork
  <2>2. Jobs' = Jobs
    BY Zenon, <2>1 DEF Jobs, In
  <2>3. QED
    BY ZenonT(30), <1>2, <2>1, <2>2 DEF Holding
<1>5. CASE RevokeDone
  <2>1. In({"held"}) \in SUBSET Messages /\ Drop(In({"held"})) /\ pc' \in {"select", "stopping"}
    BY Zenon, <1>5 DEF RevokeDone, In
  <2>2. Jobs' \subseteq Jobs
    BY Zenon, <2>1, DropStage DEF Jobs, In, JobStages, ExecutionStages, ReplyStages
  <2>3. QED
    BY Zenon, <1>2, <2>1, <2>2 DEF Holding
<1>6. ASSUME NEW m \in Messages, CheckSynced(m)
      PROVE  JobsBound'
  <2>1. Jobs' \subseteq Jobs
    <3>1. CASE stage' = stage
      BY Zenon, <3>1 DEF Jobs, In
    <3>2. CASE Drop({m})
      BY Zenon, <3>2, DropStage DEF Jobs, In, JobStages, ExecutionStages, ReplyStages
    <3>3. QED
      BY Zenon, <1>6, <3>1, <3>2 DEF CheckSynced
  <2>2. pc \in Holding
    BY Zenon, <1>6 DEF CheckSynced, Holding
  <2>3. QED
    BY Zenon, <1>2, <2>1, <2>2
<1>7. ASSUME NEW m \in Messages, AcquireExpired(m) \/ Admit(m)
      PROVE  JobsBound'
  <2>1. /\ stage[m] = "held" /\ stage'[m] \in {"publishing", "guest"}
        /\ \A n \in Messages \ {m} : stage'[n] = stage[n]
        /\ pc \in {"acquire", "admit"} /\ pc' = "select"
    BY Zenon, <1>7 DEF AcquireExpired, Admit, TypeOK
  <2>2. Jobs' = Jobs \cup {m} /\ m \notin Jobs
    BY Zenon, <2>1 DEF Jobs, In, JobStages, ExecutionStages, ReplyStages
  <2>3. Cardinality(Jobs') = Cardinality(Jobs) + 1
    BY ZenonT(30), <1>1, <2>2, SizeByOne
  <2>4. pc \in Holding /\ pc' \notin Holding
    BY Zenon, <2>1 DEF Holding
  <2>5. QED
    BY <1>1, <2>3, <2>4 DEF JobsBound
<1>8. ASSUME NEW m \in Messages, Forward(m)
      PROVE  JobsBound'
  <2>1. /\ stage'[m] = "queued" /\ \A n \in Messages \ {m} : stage'[n] = stage[n]
        /\ pc' = pc
    BY Zenon, <1>8 DEF Forward, TypeOK
  <2>2. Jobs' \subseteq Jobs
    BY Zenon, <2>1 DEF Jobs, In, JobStages, ExecutionStages, ReplyStages
  <2>3. QED
    BY Zenon, <1>2, <2>1, <2>2
<1>9. QED
  BY Zenon, <1>3, <1>4, <1>5, <1>6, <1>7, <1>8, NextIsSplit

\* Marking a change as seen revokes every job, and the channel and the message in
\* hand are emptied before the loop goes on.
LEMMA AuthorityStep ==
  ASSUME TypeOK, HeldInv, QueueInv, OutlivesNoAuthority, Next
  PROVE  OutlivesNoAuthority'
<1> USE DEF JobStages, ExecutionStages, ReplyStages
<1>1. CASE Routine
  <2>1. seen' = seen /\ (Revoking' <=> Revoking) /\ \A m \in Messages : Carries(m)
    BY Zenon, <1>1, RoutineStep DEF watch
  <2>2. QED
    BY Zenon, <2>1 DEF OutlivesNoAuthority, Carries
<1>2. CASE World
  <2>1. seen' = seen /\ stage' = stage /\ pc' = pc /\ revoked' = revoked /\ born' = born
    BY Zenon, <1>2 DEF World, SyncDrop, Sigterm, SyncSend, Expire, flags, watch
  <2>2. QED
    BY Zenon, <2>1 DEF OutlivesNoAuthority, Revoking
<1>3. CASE SelectChanged \/ PermitChanged
  <2>1. /\ pc' \in {"revoke", "revoke_stop"} /\ stage' = stage
        /\ \A m \in Messages : stage[m] \in JobStages => revoked'[m]
    BY ZenonT(30), <1>3 DEF SelectChanged, PermitChanged, CancelUntrustedWork
  <2>2. QED
    BY ZenonT(30), <2>1 DEF OutlivesNoAuthority, Revoking
<1>4. CASE RevokeDone
  <2>1. /\ In({"held"}) \in SUBSET Messages /\ Drop(In({"held"})) /\ seen' = seen
        /\ queue = <<>> /\ pc' \in {"select", "stopping"}
    BY Zenon, <1>4 DEF RevokeDone, In, watch
  <2>2. \A m \in Messages : stage[m] # "queued"
    BY <2>1 DEF QueueInv
  <2>3. \A m \in Messages : stage[m] # "held" =>
          stage'[m] = stage[m] /\ born'[m] = born[m] /\ revoked'[m] = revoked[m]
    BY Zenon, <2>1 DEF Drop, End, In, TypeOK
  <2>4. \A m \in Messages : stage[m] = "held" => stage'[m] = "dropped"
    BY Zenon, <2>1, DropStage DEF In
  <2>5. QED
    BY ZenonT(30), <2>1, <2>2, <2>3, <2>4 DEF OutlivesNoAuthority
<1>5. ASSUME NEW m \in Messages, CheckSynced(m)
      PROVE  OutlivesNoAuthority'
  <2>1. seen' = seen /\ ~Revoking
    BY ZenonT(30), <1>5 DEF CheckSynced, watch, Revoking
  <2>2. CASE UNCHANGED <<stage, flags>>
    BY Zenon, <2>1, <2>2 DEF OutlivesNoAuthority, flags
  <2>3. CASE Drop({m})
    <3>1. stage'[m] = "dropped" /\ \A n \in Messages \ {m} :
            stage'[n] = stage[n] /\ born'[n] = born[n] /\ revoked'[n] = revoked[n]
      BY ZenonT(30), <2>3 DEF Drop, End, TypeOK
    <3>2. QED
      BY ZenonT(30), <2>1, <3>1 DEF OutlivesNoAuthority
  <2>4. QED
    BY Zenon, <1>5, <2>2, <2>3 DEF CheckSynced
<1>6. ASSUME NEW m \in Messages, AcquireExpired(m) \/ Admit(m)
      PROVE  OutlivesNoAuthority'
  <2>1. /\ stage[m] = "held" /\ \A n \in Messages \ {m} : stage'[n] = stage[n]
        /\ seen' = seen /\ born' = born /\ revoked' = revoked
        /\ ~Revoking
    BY ZenonT(30), <1>6 DEF AcquireExpired, Admit, TypeOK, watch, Revoking
  <2>2. QED
    BY ZenonT(30), <2>1 DEF OutlivesNoAuthority
<1>7. ASSUME NEW m \in Messages, Forward(m)
      PROVE  OutlivesNoAuthority'
  <2>1. /\ stage'[m] = "queued" /\ \A n \in Messages \ {m} : stage'[n] = stage[n]
        /\ \A n \in Messages \ {m} : born'[n] = born[n]
        /\ born'[m] = version /\ revoked' = revoked /\ seen' = seen /\ pc' = pc
    BY Zenon, <1>7 DEF Forward, TypeOK, watch
  <2>2. version >= seen
    BY DEF TypeOK
  <2>3. QED
    BY Zenon, <2>1, <2>2 DEF OutlivesNoAuthority, Revoking
<1>8. QED
  BY ZenonT(30), <1>1, <1>2, <1>3, <1>4, <1>5, <1>6, <1>7, NextIsSplit

\* Work is admitted in sync only, and a change that is seen revokes what was admitted.
LEMMA SyncStep ==
  ASSUME TypeOK, HeldInv, QueueInv, HeldInSync, WorkOnlyInSync, Next
  PROVE  HeldInSync' /\ WorkOnlyInSync'
<1> USE DEF JobStages, ExecutionStages, ReplyStages
<1>1. ASSUME UNCHANGED watch,
             \A m \in Messages : m \in Jobs' /\ ~revoked'[m] => m \in Jobs /\ ~revoked[m],
             pc' \in {"permit", "acquire", "admit"} => pc \in {"permit", "acquire", "admit"}
      PROVE  HeldInSync' /\ WorkOnlyInSync'
  <2>1. Jobs' \subseteq Messages
    BY Zenon DEF Jobs, In
  <2>2. QED
    BY Zenon, <1>1, <2>1 DEF HeldInSync, WorkOnlyInSync, watch
<1>2. CASE Routine
  <2>1. \A m \in Messages : m \in Jobs' /\ ~revoked'[m] => m \in Jobs /\ ~revoked[m]
    BY Zenon, <1>2, RoutineStep DEF Carries, Jobs, In
  <2>2. QED
    BY ZenonT(30), <1>1, <1>2, <2>1, RoutineStep
<1>3. CASE SyncDrop
  BY Zenon, <1>3 DEF SyncDrop, HeldInSync, WorkOnlyInSync
<1>4. ASSUME NEW v \in BOOLEAN, SyncSend(v)
      PROVE  HeldInSync' /\ WorkOnlyInSync'
  <2>1. version' # seen'
    BY <1>4 DEF SyncSend, TypeOK
  <2>2. QED
    BY Zenon, <2>1 DEF HeldInSync, WorkOnlyInSync
<1>5. CASE Sigterm \/ \E m \in Messages : Expire(m)
  <2>1. UNCHANGED watch /\ stage' = stage /\ revoked' = revoked /\ pc' = pc
    BY Zenon, <1>5 DEF Sigterm, Expire, flags
  <2>2. QED
    BY Zenon, <1>1, <2>1 DEF Jobs, In
<1>6. CASE SelectChanged \/ PermitChanged
  <2>1. /\ pc' \in {"revoke", "revoke_stop"} /\ stage' = stage
        /\ \A m \in Messages : stage[m] \in JobStages => revoked'[m]
    BY ZenonT(30), <1>6 DEF SelectChanged, PermitChanged, CancelUntrustedWork
  <2>2. QED
    BY ZenonT(30), <2>1 DEF HeldInSync, WorkOnlyInSync, Jobs, In
<1>7. CASE RevokeDone
  <2>1. /\ In({"held"}) \in SUBSET Messages /\ Drop(In({"held"})) /\ UNCHANGED watch
        /\ pc' \in {"select", "stopping"}
    BY Zenon, <1>7 DEF RevokeDone, In
  <2>2. \A m \in Messages : m \in Jobs' /\ ~revoked'[m] => m \in Jobs /\ ~revoked[m]
    BY Zenon, <2>1 DEF Drop, End, Jobs, In, TypeOK
  <2>3. QED
    BY Zenon, <1>1, <2>1, <2>2
<1>8. ASSUME NEW m \in Messages, CheckSynced(m)
      PROVE  HeldInSync' /\ WorkOnlyInSync'
  <2>1. CASE Drop({m}) /\ pc' = "select"
    <3>1. \A n \in Messages : n \in Jobs' /\ ~revoked'[n] => n \in Jobs /\ ~revoked[n]
      BY Zenon, <2>1 DEF Drop, End, Jobs, In, TypeOK
    <3>2. QED
      BY ZenonT(30), <1>1, <1>8, <2>1, <3>1 DEF CheckSynced
  <2>2. CASE synced /\ UNCHANGED <<stage, flags>>
    BY ZenonT(30), <1>8, <2>2 DEF CheckSynced, HeldInSync, WorkOnlyInSync, Jobs, In, watch, flags
  <2>3. QED
    BY Zenon, <1>8, <2>1, <2>2 DEF CheckSynced
<1>9. ASSUME NEW m \in Messages, AcquireExpired(m) \/ Admit(m)
      PROVE  HeldInSync' /\ WorkOnlyInSync'
  <2>1. UNCHANGED watch /\ pc \in {"acquire", "admit"} /\ pc' = "select"
    BY ZenonT(30), <1>9 DEF AcquireExpired, Admit
  <2>2. QED
    BY ZenonT(30), <2>1 DEF HeldInSync, WorkOnlyInSync, watch
<1>10. ASSUME NEW m \in Messages, Forward(m)
       PROVE  HeldInSync' /\ WorkOnlyInSync'
  <2>1. /\ stage'[m] = "queued" /\ \A n \in Messages \ {m} : stage'[n] = stage[n]
        /\ revoked' = revoked /\ UNCHANGED watch /\ pc' = pc
    BY ZenonT(30), <1>10 DEF Forward, TypeOK
  <2>2. \A n \in Messages : n \in Jobs' /\ ~revoked'[n] => n \in Jobs /\ ~revoked[n]
    BY Zenon, <2>1 DEF Jobs, In
  <2>3. QED
    BY Zenon, <1>1, <2>1, <2>2
<1>11. QED
  BY ZenonT(30), <1>2, <1>3, <1>4, <1>5, <1>6, <1>7, <1>8, <1>9, <1>10, NextIsSplit DEF World

-----------------------------------------------------------------------------
(* The theorems.                                                           *)

\* The state in which main.rs starts the supervisor satisfies the invariant.
LEMMA Initially == Init => IInv
<1> SUFFICES ASSUME Init PROVE IInv
  BY Zenon
<1>1. Holders = {} /\ Jobs = {}
  BY Zenon DEF Init, Holders, In, Jobs, JobStages, ExecutionStages, ReplyStages
<1>2. Cardinality(Holders) = 0 /\ Cardinality(Jobs) = 0
  BY Zenon, <1>1, FS_EmptySet
<1>3. TypeOK
  <2>1. /\ pc \in Loop /\ queue \in Seq(Messages) /\ intake \in {"idle", "reserved", "exited"}
        /\ version \in 0..MaxChanges /\ seen \in 0..version
        /\ slots \in 0..MaxConcurrent /\ alarms \subseteq Alarms
    BY LimitsPositive DEF Init, Loop
  <2>2. stage \in [Messages -> Stages] /\ result \in [Messages -> Results]
    BY Zenon DEF Init, Stages, Results
  <2>3. born \in [Messages -> 0..MaxChanges] /\ work \in [Gauges -> Nat]
    BY LimitsPositive DEF Init
  <2>4. /\ shutdown \in BOOLEAN /\ synced \in BOOLEAN /\ syncOpen \in BOOLEAN
        /\ cancelled \in [Messages -> BOOLEAN] /\ expired \in [Messages -> BOOLEAN]
        /\ revoked \in [Messages -> BOOLEAN]
    BY ZenonT(30) DEF Init
  <2>5. QED
    BY Zenon, <2>1, <2>2, <2>3, <2>4 DEF TypeOK
<1>4. HeldInv /\ QueueInv
  BY DEF Init, HeldInv, QueueInv
<1>5. SlotsConserved /\ JobsBound
  BY <1>2, LimitsPositive DEF Init, SlotsConserved, JobsBound
<1>6. HeldInSync /\ OutlivesNoAuthority /\ WorkOnlyInSync
  BY Zenon, <1>1 DEF Init, HeldInSync, OutlivesNoAuthority, WorkOnlyInSync, JobStages,
              ExecutionStages, ReplyStages
<1>7. QED
  BY Zenon, <1>3, <1>4, <1>5, <1>6 DEF IInv, SlotInv

\* Every step of the host preserves the invariant.
LEMMA Inductive == IInv /\ [Next]_vars => IInv'
<1> SUFFICES ASSUME IInv, [Next]_vars PROVE IInv'
  BY Zenon
<1>1. CASE Next
  <2>1. SlotsConserved' /\ slots' \in 0..MaxConcurrent
    BY Zenon, <1>1, SlotStep DEF IInv, SlotInv
  <2>2. TypeOK'
    BY Zenon, <1>1, <2>1, TypeStep DEF IInv, SlotInv
  <2>3. HeldInv' /\ QueueInv'
    BY Zenon, <1>1, ChannelStep DEF IInv, SlotInv
  <2>4. JobsBound'
    BY Zenon, <1>1, JobsStep DEF IInv, SlotInv
  <2>5. HeldInSync' /\ WorkOnlyInSync'
    BY Zenon, <1>1, SyncStep DEF IInv, SlotInv
  <2>6. OutlivesNoAuthority'
    BY Zenon, <1>1, AuthorityStep DEF IInv, SlotInv
  <2>7. QED
    BY Zenon, <2>1, <2>2, <2>3, <2>4, <2>5, <2>6 DEF IInv, SlotInv
<1>2. CASE UNCHANGED vars
  BY ZenonT(30), <1>2 DEF vars, watch, flags, metrics, IInv, SlotInv, TypeOK, HeldInv, QueueInv,
              SlotsConserved, Holders, JobsBound, Jobs, In, HeldInSync, OutlivesNoAuthority,
              WorkOnlyInSync, Revoking
<1>3. QED
  BY Zenon, <1>1, <1>2

\* Reachable states of the supervisor satisfy the inductive invariant.
THEOREM Invariance == Spec => []IInv
  BY Initially, Inductive, PTL DEF Spec

\* The variables of the supervisor keep their types, for any number of messages and
\* any limits.
THEOREM TypeCorrect == Spec => []TypeOK
<1>1. IInv => TypeOK
  BY Zenon DEF IInv, SlotInv
<1>2. QED
  BY <1>1, Invariance, PTL

\* Execution slots are conserved: a permit is held from admission through guest
\* exit and cleanup and is returned exactly once on every path.
THEOREM SlotsNeverLeak == Spec => []SlotsConserved
<1>1. IInv => SlotsConserved
  BY Zenon DEF IInv, SlotInv
<1>2. QED
  BY <1>1, Invariance, PTL

\* A message taken from the channel always finds a free execution slot.
THEOREM PermitIsFree == Spec => []PermitWithoutWaiting
<1>1. IInv => PermitWithoutWaiting
  <2>1. SUFFICES ASSUME IInv, pc \in {"permit", "acquire"}
                 PROVE  slots > 0
    BY Zenon DEF PermitWithoutWaiting
  <2>2. Holders \subseteq Jobs /\ Jobs \subseteq Messages
    BY Zenon, <2>1 DEF Holders, Jobs, In, JobStages, ExecutionStages
  <2>3. Cardinality(Holders) <= Cardinality(Jobs) /\ Cardinality(Jobs) \in Nat
        /\ Cardinality(Holders) \in Nat
    BY Zenon, <2>2, SelectionSize, FS_Subset
  <2>4. Cardinality(Jobs) < MaxConcurrent
    BY Zenon, <2>1 DEF IInv, JobsBound, Holding
  <2>5. QED
    BY <2>1, <2>3, <2>4, LimitsPositive DEF IInv, SlotInv, SlotsConserved, TypeOK
<1>2. QED
  BY <1>1, Invariance, PTL

\* No message, execution or reply outlives the sync state under which it entered
\* the host without being revoked.
THEOREM AuthorityBounds == Spec => []OutlivesNoAuthority
<1>1. IInv => OutlivesNoAuthority
  BY Zenon DEF IInv
<1>2. QED
  BY <1>1, Invariance, PTL

\* Unrevoked work exists only in sync, or while a change is still unseen.
THEOREM SyncBounds == Spec => []WorkOnlyInSync
<1>1. IInv => WorkOnlyInSync
  BY Zenon DEF IInv
<1>2. QED
  BY <1>1, Invariance, PTL

-----------------------------------------------------------------------------
(* The gauges of dispatch_metrics.rs.                                      *)

\* The messages a gauge stands for, from their stages and cancellation flags.
Counted(st, can, g) ==
  {m \in Messages :
     \/ g = "queued" /\ st[m] \in {"queued", "held", "popped"}
     \/ g = "tracked" /\ st[m] \in JobStages
     \/ g = "uncollected" /\ st[m] \in {"sent", "unsent"}
     \/ g = "running" /\ st[m] \in {"guest", "cleanup"} /\ ~can[m]
     \/ g = "terminating" /\ st[m] \in {"guest", "cleanup"} /\ can[m]}

GaugeInv ==
  /\ \A g \in Gauges : work[g] = Cardinality(Counted(stage, cancelled, g))
  /\ alarms \subseteq {"queued"}

\* A delta that is what the sets really gained or lost.
Exact(delta) ==
  /\ delta \in [Gauges -> Int]
  /\ \A g \in Gauges : Cardinality(Counted(stage', cancelled', g))
                         = Cardinality(Counted(stage, cancelled, g)) + delta[g]

\* What keeps the alarms of an addition silent.
Roomy(added) ==
  /\ "tracked" \in added =>
       /\ pc \notin Stopped
       /\ Cardinality(Counted(stage', cancelled', "tracked")) <= MaxConcurrent
  /\ "execution" \in added =>
       Cardinality(Counted(stage', cancelled', "running"))
         + Cardinality(Counted(stage', cancelled', "terminating")) <= MaxConcurrent

\* The messages a gauge stands for can be counted.
LEMMA CountedSize ==
  ASSUME NEW st, NEW can, NEW g
  PROVE  /\ Counted(st, can, g) \in SUBSET Messages
         /\ Cardinality(Counted(st, can, g)) \in Nat
<1>1. Counted(st, can, g) \subseteq Messages  BY Zenon DEF Counted
<1>2. QED  BY Zenon, <1>1, SelectionSize

\* An exact delta leaves the gauges right, and nothing for the alarms to report.
LEMMA ExactAccount ==
  ASSUME GaugeInv, NEW delta, Exact(delta),
         NEW added \in SUBSET {"queued", "execution", "tracked"}, Roomy(added),
         Account(delta, added)
  PROVE  GaugeInv'
<1> DEFINE size(g) == Cardinality(Counted(stage', cancelled', g))
<1>1. \A g \in Gauges : work[g] + delta[g] = size(g)  BY Zenon DEF GaugeInv, Exact
<1>2. \A g : size(g) \in Nat  BY Zenon, CountedSize
<1>3. Decrement(delta) = [g \in Gauges |-> size(g)]
  <2>1. \A g \in Gauges : ~(work[g] + delta[g] < 0)  BY <1>1, <1>2
  <2> QED  BY Zenon, <1>1, <2>1 DEF Decrement
<1>4. \A g \in Gauges : work'[g] = size(g)  BY Zenon, <1>3 DEF Account
<1>5. ~\E g \in Gauges : work[g] + delta[g] < 0  BY <1>1, <1>2
<1>6. /\ "tracked" \in added => ~(Occupancy(Decrement(delta), "tracked") > Limit("tracked"))
      /\ "execution" \in added => ~(Occupancy(Decrement(delta), "execution") > Limit("execution"))
  <2>1. /\ Decrement(delta)["tracked"] = size("tracked")
        /\ Decrement(delta)["running"] = size("running")
        /\ Decrement(delta)["terminating"] = size("terminating")
    BY Zenon, <1>3 DEF Gauges
  <2>2. /\ Occupancy(Decrement(delta), "tracked") = size("tracked")
        /\ Occupancy(Decrement(delta), "execution") = size("running") + size("terminating")
        /\ Limit("tracked") = MaxConcurrent /\ Limit("execution") = MaxConcurrent
    BY Zenon, <2>1 DEF Occupancy, Limit
  <2>3. MaxConcurrent \in Nat /\ size("tracked") \in Nat /\ size("running") \in Nat
        /\ size("terminating") \in Nat
    BY Zenon, <1>2, LimitsPositive
  <2> HIDE DEF size
  <2>4. /\ "tracked" \in added => size("tracked") <= MaxConcurrent
        /\ "execution" \in added => size("running") + size("terminating") <= MaxConcurrent
    BY Zenon DEF Roomy, size
  <2> QED  BY <2>2, <2>3, <2>4
<1>7. alarms' \subseteq {"queued"}
  <2>1. \A a \in alarms' : \/ a \in alarms
                           \/ a \in added /\ Occupancy(Decrement(delta), a) > Limit(a)
                           \/ "tracked" \in added /\ pc \in Stopped
    BY Zenon, <1>5 DEF Account
  <2>2. \A a \in added : a \in {"queued", "execution", "tracked"}  BY Zenon
  <2>3. ~("tracked" \in added /\ pc \in Stopped)  BY Zenon DEF Roomy
  <2> QED  BY Zenon, <1>6, <2>1, <2>2, <2>3 DEF GaugeInv
<1>8. QED  BY Zenon, <1>4, <1>7 DEF GaugeInv

\* A step without accounting that moves no message across a gauge.
LEMMA UncountedStep ==
  ASSUME GaugeInv, UNCHANGED metrics,
         \A g \in Gauges : Counted(stage', cancelled', g) = Counted(stage, cancelled, g)
  PROVE  GaugeInv'
  BY Zenon DEF GaugeInv, metrics

\* Only the message m changes.
Alone(m) == \A n \in Messages \ {m} : stage'[n] = stage[n] /\ cancelled'[n] = cancelled[n]

\* A step of one message that crosses no gauge.
LEMMA UncountedMove ==
  ASSUME GaugeInv, UNCHANGED metrics, NEW m \in Messages, Alone(m),
         \A g \in Gauges : m \in Counted(stage', cancelled', g) <=> m \in Counted(stage, cancelled, g)
  PROVE  GaugeInv'
<1>1. ASSUME NEW g \in Gauges
      PROVE  Counted(stage', cancelled', g) = Counted(stage, cancelled, g)
  <2>1. \A n \in Messages : n \in Counted(stage', cancelled', g) <=> n \in Counted(stage, cancelled, g)
    <3>1. \A n \in Messages \ {m} :
             n \in Counted(stage', cancelled', g) <=> n \in Counted(stage, cancelled, g)
      BY Zenon DEF Counted, Alone
    <3> QED  BY Zenon, <3>1
  <2>2. Counted(stage', cancelled', g) \subseteq Messages /\ Counted(stage, cancelled, g) \subseteq Messages
    BY Zenon, CountedSize
  <2> QED  BY Zenon, <2>1, <2>2
<1>2. QED  BY Zenon, <1>1, UncountedStep

\* A step of one message changes each gauge by what the message does.
LEMMA OneMove ==
  ASSUME NEW m \in Messages, Alone(m), NEW delta \in [Gauges -> Int],
         \A g \in Gauges :
           LET before == m \in Counted(stage, cancelled, g)
               after == m \in Counted(stage', cancelled', g)
           IN  \/ delta[g] = 0 /\ (before <=> after)
               \/ delta[g] = 1 /\ ~before /\ after
               \/ delta[g] = -1 /\ before /\ ~after
  PROVE  Exact(delta)
<1> SUFFICES ASSUME NEW g \in Gauges
             PROVE  Cardinality(Counted(stage', cancelled', g))
                      = Cardinality(Counted(stage, cancelled, g)) + delta[g]
  BY Zenon DEF Exact
<1> DEFINE S == Counted(stage, cancelled, g)
           T == Counted(stage', cancelled', g)
<1>1. S \in SUBSET Messages /\ T \in SUBSET Messages /\ Cardinality(S) \in Nat
  BY Zenon, CountedSize
<1>2. \A n \in Messages \ {m} : n \in T <=> n \in S  BY Zenon DEF Counted, Alone
<1>3. \/ delta[g] = 0 /\ (m \in S <=> m \in T)
      \/ delta[g] = 1 /\ m \notin S /\ m \in T
      \/ delta[g] = -1 /\ m \in S /\ m \notin T
  BY Zenon
<1> HIDE DEF S, T
<1>4. CASE delta[g] = 0 /\ (m \in S <=> m \in T)
  <2>1. \A n \in Messages : n \in T <=> n \in S  BY Zenon, <1>2, <1>4
  <2>2. T = S  BY Zenon, <1>1, <2>1
  <2> QED  BY <1>1, <1>4, <2>2 DEF S, T
<1>5. CASE delta[g] = 1 /\ m \notin S /\ m \in T
  <2>1. T = S \cup {m}  BY Zenon, <1>1, <1>2, <1>5
  <2> QED  BY Zenon, <1>1, <1>5, <2>1, SizeByOne DEF S, T
<1>6. CASE delta[g] = -1 /\ m \in S /\ m \notin T
  <2>1. T = S \ {m}  BY Zenon, <1>1, <1>2, <1>6
  <2> QED  BY Zenon, <1>1, <1>6, <2>1, SizeByOne DEF S, T
<1>7. QED  BY Zenon, <1>3, <1>4, <1>5, <1>6

\* What Drop does to the gauges: the dropped messages leave the backlog.
LEMMA DropGauges ==
  ASSUME TypeOK, GaugeInv, NEW S \in SUBSET Messages, Drop(S),
         \A m \in S : stage[m] \in {"queued", "held", "popped"}
  PROVE  GaugeInv'
<1>1. Account(Leave(S), {})  BY Zenon DEF Drop
<1>2. /\ \A n \in S : stage'[n] = "dropped" /\ stage[n] \in {"queued", "held", "popped"}
      /\ \A n \in Messages \ S : stage'[n] = stage[n] /\ cancelled'[n] = cancelled[n]
  <2>1. \A n \in Messages \ S : cancelled'[n] = cancelled[n]  BY Zenon DEF Drop, End, TypeOK
  <2> QED  BY Zenon, <2>1, DropStage
<1>3. Leave(S) \in [Gauges -> Int] /\ Cardinality(S) \in Nat /\ IsFiniteSet(S)
  BY Zenon, DeltaTypes, SelectionSize
<1>4. Exact(Leave(S))
  <2>1. Cardinality(Counted(stage', cancelled', "queued"))
          = Cardinality(Counted(stage, cancelled, "queued")) - Cardinality(S)
    <3> DEFINE B == Counted(stage, cancelled, "queued")
    <3>1. Counted(stage', cancelled', "queued") = B \ S  BY Zenon, <1>2 DEF Counted
    <3>2. B \cap S = S  BY Zenon, <1>2 DEF Counted
    <3>3. IsFiniteSet(B)  BY Zenon, CountedSize, SelectionSize
    <3> HIDE DEF B
    <3>4. Cardinality(B \ S) = Cardinality(B) - Cardinality(B \cap S)
      BY Zenon, <3>3, FS_Difference
    <3> QED  BY Zenon, <3>1, <3>2, <3>4 DEF B
  <2>2. ASSUME NEW g \in Gauges, g # "queued"
        PROVE  Counted(stage', cancelled', g) = Counted(stage, cancelled, g)
    <3>1. \A n \in S : n \notin Counted(stage', cancelled', g) /\ n \notin Counted(stage, cancelled, g)
      BY Zenon, <1>2, <2>2 DEF Counted, JobStages, ExecutionStages, ReplyStages
    <3>2. \A n \in Messages \ S : n \in Counted(stage', cancelled', g) <=> n \in Counted(stage, cancelled, g)
      BY Zenon, <1>2 DEF Counted
    <3>3. Counted(stage', cancelled', g) \subseteq Messages /\ Counted(stage, cancelled, g) \subseteq Messages
      BY Zenon, CountedSize
    <3> QED  BY Zenon, <3>1, <3>2, <3>3
  <2>3. Leave(S)["queued"] = -Cardinality(S) /\ \A g \in Gauges : g # "queued" => Leave(S)[g] = 0
    BY Zenon DEF Leave, Zero, Gauges
  <2>4. \A g \in Gauges : Cardinality(Counted(stage, cancelled, g)) \in Nat  BY Zenon, CountedSize
  <2>5. ASSUME NEW g \in Gauges
        PROVE  Cardinality(Counted(stage', cancelled', g))
                 = Cardinality(Counted(stage, cancelled, g)) + Leave(S)[g]
    <3>1. CASE g = "queued"  BY Zenon, <1>3, <2>1, <2>3, <2>4, <3>1
    <3>2. CASE g # "queued"
      <4>1. Cardinality(Counted(stage', cancelled', g)) = Cardinality(Counted(stage, cancelled, g))
        BY Zenon, <2>2, <3>2
      <4> QED  BY <2>3, <2>4, <3>2, <4>1
    <3> QED  BY Zenon, <3>1, <3>2
  <2> QED  BY Zenon, <1>3, <2>5 DEF Exact
<1>5. Roomy({})  BY Zenon DEF Roomy
<1> QED  BY Zenon, <1>1, <1>4, <1>5, ExactAccount

\* cancel_untrusted_work: every running execution becomes a terminating one.
LEMMA CancelGauges ==
  ASSUME TypeOK, GaugeInv, CancelUntrustedWork
  PROVE  GaugeInv'
<1> DEFINE R == Counted(stage, cancelled, "running")
           E == Counted(stage, cancelled, "terminating")
           delta == Terminating(In(ExecutionStages))
<1>1. /\ stage' = stage /\ Account(delta, {})
      /\ \A m \in Messages : cancelled'[m] <=> cancelled[m] \/ stage[m] \in ExecutionStages \cup {"held"}
  BY Zenon DEF CancelUntrustedWork, Cancel, In
<1>2. {m \in In(ExecutionStages) : Live(m) /\ ~cancelled[m]} = R
  BY Zenon DEF In, ExecutionStages, Live, Counted
<1>3. /\ delta["running"] = -Cardinality(R) /\ delta["terminating"] = Cardinality(R)
      /\ \A g \in Gauges : g \notin {"running", "terminating"} => delta[g] = 0
  BY Zenon, <1>2 DEF Terminating, Zero, Gauges
<1>4. delta \in [Gauges -> Int]
  <2>1. In(ExecutionStages) \subseteq Messages  BY Zenon DEF In
  <2> QED  BY Zenon, <2>1, DeltaTypes
<1> HIDE DEF delta
<1>5. Counted(stage', cancelled', "running") = {}  BY Zenon, <1>1 DEF Counted, ExecutionStages
<1>6. Counted(stage', cancelled', "terminating") = E \cup R  BY Zenon, <1>1 DEF Counted, ExecutionStages
<1>7. \A g \in Gauges : g \notin {"running", "terminating"}
                          => Counted(stage', cancelled', g) = Counted(stage, cancelled, g)
  BY <1>1 DEF Counted
<1>8. E \cap R = {}  BY Zenon DEF Counted
<1>9. IsFiniteSet(E) /\ IsFiniteSet(R) /\ Cardinality(E) \in Nat /\ Cardinality(R) \in Nat
  BY Zenon, CountedSize, SelectionSize
<1>10. \A g \in Gauges : Cardinality(Counted(stage, cancelled, g)) \in Nat  BY Zenon, CountedSize
<1>11. Cardinality(Counted(stage', cancelled', "running")) = 0  BY Zenon, <1>5, FS_EmptySet
<1>12. Cardinality(Counted(stage', cancelled', "terminating")) = Cardinality(E) + Cardinality(R)
  <2> HIDE DEF E, R
  <2>1. Cardinality(E \cup R) = Cardinality(E) + Cardinality(R) - Cardinality(E \cap R)
    BY Zenon, <1>9, FS_Union
  <2>2. Cardinality(E \cap R) = 0  BY Zenon, <1>8, FS_EmptySet
  <2>3. Cardinality(E \cup R) = Cardinality(E) + Cardinality(R)  BY <1>9, <2>1, <2>2
  <2> QED  BY Zenon, <1>6, <2>3
<1>13. Exact(delta)
  <2>1. ASSUME NEW g \in Gauges
        PROVE  Cardinality(Counted(stage', cancelled', g))
                 = Cardinality(Counted(stage, cancelled, g)) + delta[g]
    <3>1. CASE g = "running"  BY <1>3, <1>9, <1>11, <3>1
    <3>2. CASE g = "terminating"  BY Zenon, <1>3, <1>9, <1>12, <3>2
    <3>3. CASE g \notin {"running", "terminating"}
      <4>1. Cardinality(Counted(stage', cancelled', g)) = Cardinality(Counted(stage, cancelled, g))
        BY Zenon, <1>7, <3>3
      <4> QED  BY <1>3, <1>10, <3>3, <4>1
    <3> QED  BY Zenon, <3>1, <3>2, <3>3
  <2> QED  BY Zenon, <1>4, <2>1 DEF Exact
<1>14. Roomy({})  BY Zenon DEF Roomy
<1> QED  BY Zenon, <1>1, <1>13, <1>14, ExactAccount

\* join_next and collect: the record is closed when the task is reaped, and only then.
LEMMA CollectGauges ==
  ASSUME TypeOK, GaugeInv, NEW m \in Messages, Collect(m)
  PROVE  GaugeInv'
<1> USE DEF JobStages, ExecutionStages, ReplyStages
<1>1. CASE stage[m] = "executed" /\ ~Discarded(m)
  <2>1. stage' = [stage EXCEPT ![m] = "publishing"] /\ UNCHANGED <<cancelled, metrics>>
    BY Zenon, <1>1 DEF Collect, flags
  <2>2. stage'[m] = "publishing" /\ Alone(m)  BY Zenon, <2>1 DEF TypeOK, Alone
  <2>3. \A g \in Gauges : m \in Counted(stage', cancelled', g) <=> m \in Counted(stage, cancelled, g)
    BY Zenon, <1>1, <2>1, <2>2 DEF Counted, Gauges
  <2> QED  BY Zenon, <2>1, <2>2, <2>3, UncountedMove
<1>2. CASE ~(stage[m] = "executed" /\ ~Discarded(m))
  <2> DEFINE d1 == [Zero EXCEPT !["tracked"] = -1]
             d2 == [Zero EXCEPT !["tracked"] = -1, !["uncollected"] = -1]
  <2>1. /\ End({m}, "reaped") /\ stage[m] \in {"executed", "sent", "unsent"}
        /\ \/ stage[m] = "executed" /\ Account(d1, {})
           \/ stage[m] # "executed" /\ Account(d2, {})
    BY Zenon, <1>2 DEF Collect, Ready
  <2>2. stage'[m] = "reaped" /\ Alone(m)  BY Zenon, <2>1 DEF End, TypeOK, Alone
  <2>3. d1 \in [Gauges -> Int] /\ d2 \in [Gauges -> Int]  BY DEF Zero, Gauges
  <2>6. Roomy({})  BY Zenon DEF Roomy
  <2>4. CASE stage[m] = "executed"
    <3>1. Exact(d1)
      <4>1. d1["tracked"] = -1 /\ \A g \in Gauges : g # "tracked" => d1[g] = 0  BY Zenon DEF Zero, Gauges
      <4>2. m \in Counted(stage, cancelled, "tracked") /\ m \notin Counted(stage', cancelled', "tracked")
        BY Zenon, <2>2, <2>4 DEF Counted
      <4>3. \A g \in Gauges : g # "tracked" => m \notin Counted(stage, cancelled, g)
                                               /\ m \notin Counted(stage', cancelled', g)
        BY <2>2, <2>4 DEF Counted, Gauges
      <4> HIDE DEF d1
      <4> QED  BY Zenon, <2>2, <2>3, <4>1, <4>2, <4>3, OneMove
    <3>2. Account(d1, {})  BY Zenon, <2>1, <2>4
    <3> HIDE DEF d1
    <3> QED  BY Zenon, <2>6, <3>1, <3>2, ExactAccount
  <2>5. CASE stage[m] # "executed"
    <3>1. Exact(d2)
      <4>1. \A g \in Gauges : d2[g] = IF g \in {"tracked", "uncollected"} THEN -1 ELSE 0
        BY Zenon DEF Zero, Gauges
      <4>2. \A g \in {"tracked", "uncollected"} :
               m \in Counted(stage, cancelled, g) /\ m \notin Counted(stage', cancelled', g)
        BY Zenon, <2>1, <2>2, <2>5 DEF Counted
      <4>3. \A g \in Gauges : g \notin {"tracked", "uncollected"} =>
               m \notin Counted(stage, cancelled, g) /\ m \notin Counted(stage', cancelled', g)
        BY Zenon, <2>1, <2>2, <2>5 DEF Counted, Gauges
      <4> HIDE DEF d2
      <4> QED  BY Zenon, <2>2, <2>3, <4>1, <4>2, <4>3, OneMove
    <3>2. Account(d2, {})  BY Zenon, <2>1, <2>5
    <3> HIDE DEF d2
    <3> QED  BY Zenon, <2>6, <3>1, <3>2, ExactAccount
  <2> QED  BY Zenon, <2>4, <2>5
<1> QED  BY Zenon, <1>1, <1>2

\* A message that enters the channel is counted as queued.
LEMMA ForwardGauges ==
  ASSUME TypeOK, GaugeInv, NEW m \in Messages, Forward(m)
  PROVE  GaugeInv'
<1> DEFINE d == [Zero EXCEPT !["queued"] = 1]
<1>1. /\ stage[m] = "idle" /\ stage'[m] = "queued" /\ cancelled' = cancelled /\ Alone(m)
      /\ Account(d, {"queued"})
  BY Zenon DEF Forward, TypeOK, Alone
<1>2. d \in [Gauges -> Int] /\ d["queued"] = 1 /\ \A g \in Gauges : g # "queued" => d[g] = 0
  BY DEF Zero, Gauges
<1>3. m \notin Counted(stage, cancelled, "queued") /\ m \in Counted(stage', cancelled', "queued")
  BY Zenon, <1>1 DEF Counted
<1>4. \A g \in Gauges : g # "queued" => m \notin Counted(stage, cancelled, g)
                                        /\ m \notin Counted(stage', cancelled', g)
  BY Zenon, <1>1 DEF Counted, Gauges, JobStages, ExecutionStages, ReplyStages
<1> HIDE DEF d
<1>5. Exact(d)  BY Zenon, <1>1, <1>2, <1>3, <1>4, OneMove
<1>6. Roomy({"queued"})  BY Zenon DEF Roomy
<1> QED  BY Zenon, <1>1, <1>5, <1>6, ExactAccount

\* A message taken from the channel, to be handled or rejected, is still queued.
LEMMA TakeGauges ==
  ASSUME TypeOK, QueueInv, GaugeInv, TakeMessage \/ RevokePop
  PROVE  GaugeInv'
<1> DEFINE m == Head(queue)
<1>1. queue \in Seq(Messages) /\ queue # <<>> /\ m = queue[1] /\ 1 \in 1..Len(queue) /\ m \in Messages
  BY TailShifts DEF TypeOK, TakeMessage, RevokePop
<1>2. stage[m] = "queued"  BY Zenon, <1>1 DEF QueueInv
<1>3. /\ stage'[m] \in {"held", "popped"} /\ UNCHANGED <<cancelled, metrics>> /\ Alone(m)
  BY Zenon, <1>1 DEF TakeMessage, RevokePop, TypeOK, flags, Alone
<1> HIDE DEF m
<1>4. \A g \in Gauges : m \in Counted(stage', cancelled', g) <=> m \in Counted(stage, cancelled, g)
  BY Zenon, <1>1, <1>2, <1>3 DEF Counted, Gauges, JobStages, ExecutionStages, ReplyStages
<1> QED  BY Zenon, <1>1, <1>3, <1>4, UncountedMove

\* A new record: recv()'s guard left room for it, and for its execution.
LEMMA RecordRoom ==
  ASSUME JobsBound, pc \in Holding, NEW d, Exact(d), d["tracked"] = 1
  PROVE  Roomy({"tracked", "execution"}) /\ Roomy({"tracked"})
<1> DEFINE R == Counted(stage', cancelled', "running")
           E == Counted(stage', cancelled', "terminating")
           J == Counted(stage', cancelled', "tracked")
<1>1. Counted(stage, cancelled, "tracked") = Jobs  BY Zenon DEF Counted, Jobs, In
<1>2. Cardinality(J) = Cardinality(Counted(stage, cancelled, "tracked")) + d["tracked"]
  BY Zenon DEF Exact, Gauges
<1>3. /\ Cardinality(Jobs) < MaxConcurrent /\ MaxConcurrent \in Nat
      /\ Cardinality(Jobs) \in Nat
  BY Zenon, LimitsPositive, <1>1, CountedSize DEF JobsBound
<1>4. Cardinality(J) <= MaxConcurrent
  <2>1. Cardinality(J) = Cardinality(Jobs) + 1  BY Zenon, <1>1, <1>2
  <2> HIDE DEF J
  <2> QED  BY <1>3, <2>1
<1>5. /\ IsFiniteSet(R) /\ IsFiniteSet(E) /\ IsFiniteSet(J) /\ Cardinality(R) \in Nat
      /\ Cardinality(E) \in Nat /\ Cardinality(J) \in Nat
  BY Zenon, CountedSize, SelectionSize
<1>6. R \cap E = {}  BY Zenon DEF Counted
<1>7. R \cup E \subseteq J  BY Zenon DEF Counted, JobStages, ExecutionStages
<1>8. Cardinality(R) + Cardinality(E) <= MaxConcurrent
  <2> HIDE DEF R, E, J
  <2>1. Cardinality(R \cup E) = Cardinality(R) + Cardinality(E) - Cardinality(R \cap E)
    BY Zenon, <1>5, FS_Union
  <2>2. Cardinality(R \cap E) = 0  BY Zenon, <1>6, FS_EmptySet
  <2>3. Cardinality(R \cup E) <= Cardinality(J)  BY Zenon, <1>5, <1>7, FS_Subset
  <2>4. Cardinality(R \cup E) = Cardinality(R) + Cardinality(E)  BY <1>5, <2>1, <2>2
  <2> QED  BY <1>3, <1>4, <1>5, <2>3, <2>4
<1>9. pc \notin Stopped  BY Zenon DEF Holding, Stopped
<1> QED  BY Zenon, <1>4, <1>8, <1>9 DEF Roomy

\* Admission and the 504 reply: the message leaves the backlog as its record opens.
LEMMA OpenGauges ==
  ASSUME TypeOK, JobsBound, GaugeInv, NEW m \in Messages, Admit(m) \/ AcquireExpired(m)
  PROVE  GaugeInv'
<1> USE DEF JobStages, ExecutionStages, ReplyStages
<1>1. Leave({m}) \in [Gauges -> Int]  BY Zenon, DeltaTypes, {m} \subseteq Messages
<1>2. Leave({m})["queued"] = -1 /\ \A g \in Gauges : g # "queued" => Leave({m})[g] = 0
  <2>1. Cardinality({m}) = 1  BY Zenon, FS_Singleton
  <2> QED  BY Zenon, <2>1 DEF Leave, Zero, Gauges
<1>3. stage[m] = "held" /\ pc \in Holding /\ Alone(m)
  <2>1. Admit(m) => Alone(m)  BY Zenon DEF Admit, TypeOK, Alone
  <2>2. AcquireExpired(m) => Alone(m)  BY DEF AcquireExpired, Cancel, TypeOK, Alone
  <2> QED  BY Zenon, <2>1, <2>2 DEF Admit, AcquireExpired, Holding
<1>4. CASE AcquireExpired(m)
  <2> DEFINE d == [Leave({m}) EXCEPT !["tracked"] = 1]
  <2>1. Account(d, {"tracked"}) /\ stage'[m] = "publishing"
    BY Zenon, <1>4 DEF AcquireExpired, TypeOK
  <2>2. /\ d \in [Gauges -> Int] /\ d["tracked"] = 1 /\ d["queued"] = -1
        /\ \A g \in Gauges : g \notin {"queued", "tracked"} => d[g] = 0
    BY <1>1, <1>2 DEF Gauges
  <2>3. /\ m \in Counted(stage, cancelled, "queued") /\ m \notin Counted(stage', cancelled', "queued")
        /\ m \notin Counted(stage, cancelled, "tracked") /\ m \in Counted(stage', cancelled', "tracked")
    BY Zenon, <1>3, <2>1 DEF Counted
  <2>4. \A g \in Gauges : g \notin {"queued", "tracked"} => m \notin Counted(stage, cancelled, g)
                                                /\ m \notin Counted(stage', cancelled', g)
    BY Zenon, <1>3, <2>1 DEF Counted, Gauges
  <2> HIDE DEF d
  <2>5. Exact(d)  BY Zenon, <1>3, <2>2, <2>3, <2>4, OneMove
  <2>6. Roomy({"tracked"})  BY Zenon, <1>3, <2>2, <2>5, RecordRoom
  <2> QED  BY Zenon, <2>1, <2>5, <2>6, ExactAccount
<1>5. CASE Admit(m)
  <2> DEFINE k == IF cancelled'[m] THEN "terminating" ELSE "running"
             d == [Leave({m}) EXCEPT !["tracked"] = 1, ![k] = 1]
  <2>1. Account(d, {"tracked", "execution"}) /\ stage'[m] = "guest"
    BY Zenon, <1>5 DEF Admit, TypeOK
  <2>2. k \in {"running", "terminating"}  BY Zenon
  <2>3. /\ m \notin Counted(stage, cancelled, k) /\ m \in Counted(stage', cancelled', k)
        /\ \A g \in {"running", "terminating"} : g # k => m \notin Counted(stage', cancelled', g)
    BY Zenon, <1>3, <2>1 DEF Counted
  <2> HIDE DEF k
  <2>4. /\ d \in [Gauges -> Int] /\ d["tracked"] = 1 /\ d["queued"] = -1 /\ d[k] = 1
        /\ \A g \in Gauges : g \notin {"queued", "tracked", k} => d[g] = 0
    BY <1>1, <1>2, <2>2 DEF Gauges
  <2>5. /\ m \in Counted(stage, cancelled, "queued") /\ m \notin Counted(stage', cancelled', "queued")
        /\ m \notin Counted(stage, cancelled, "tracked") /\ m \in Counted(stage', cancelled', "tracked")
    BY Zenon, <1>3, <2>1 DEF Counted
  <2>6. \A g \in Gauges : g \notin {"queued", "tracked", k} => m \notin Counted(stage, cancelled, g)
                                                   /\ m \notin Counted(stage', cancelled', g)
    <3>1. /\ m \notin Counted(stage, cancelled, "running") /\ m \notin Counted(stage, cancelled, "terminating")
          /\ m \notin Counted(stage, cancelled, "uncollected")
          /\ m \notin Counted(stage', cancelled', "uncollected")
      BY Zenon, <1>3, <2>1 DEF Counted
    <3> QED  BY Zenon, <2>3, <3>1 DEF Gauges
  <2> HIDE DEF d
  <2>7. Exact(d)  BY Zenon, <1>3, <2>3, <2>4, <2>5, <2>6, OneMove
  <2>8. Roomy({"tracked", "execution"})  BY Zenon, <1>3, <2>4, <2>7, RecordRoom
  <2> QED  BY Zenon, <2>1, <2>7, <2>8, ExactAccount
<1> QED  BY Zenon, <1>4, <1>5

\* A live execution that is cancelled moves from running to terminating, once.
LEMMA TerminateGauges ==
  ASSUME TypeOK, GaugeInv, NEW m \in Messages, Live(m), stage'[m] \in {"guest", "cleanup"},
         \A n \in Messages \ {m} : stage'[n] = stage[n],
         Cancel({m}), Account(Terminating({m}), {})
  PROVE  GaugeInv'
<1> USE DEF JobStages, ExecutionStages, ReplyStages
<1> DEFINE d == Terminating({m})
           C == {n \in {m} : Live(n) /\ ~cancelled[n]}
<1>1. Alone(m) /\ cancelled'[m] = TRUE  BY Zenon DEF Cancel, Alone, TypeOK
<1>2. d \in [Gauges -> Int]  BY Zenon, DeltaTypes, {m} \subseteq Messages
<1>3. /\ d["running"] = -Cardinality(C) /\ d["terminating"] = Cardinality(C)
      /\ \A g \in Gauges : g \notin {"running", "terminating"} => d[g] = 0
  <2>1. Cardinality(C) \in Nat  BY Zenon, SelectionSize, C \subseteq Messages
  <2> QED  BY Zenon, <2>1 DEF Terminating, Zero, Gauges
<1>4. stage[m] \in {"guest", "cleanup"}  BY Zenon DEF Live
<1> HIDE DEF d
<1>5. \A g \in Gauges : g \notin {"running", "terminating"} =>
         (m \in Counted(stage, cancelled, g) <=> m \in Counted(stage', cancelled', g))
  BY Zenon, <1>4 DEF Counted, Gauges
<1>6. /\ m \notin Counted(stage', cancelled', "running")
      /\ m \in Counted(stage', cancelled', "terminating")
  BY Zenon, <1>1 DEF Counted
<1>7. CASE cancelled[m]
  <2>1. C = {}  BY Zenon, <1>7
  <2>2. Cardinality(C) = 0  BY Zenon, <2>1, FS_EmptySet
  <2> HIDE DEF C
  <2>3. \A g \in Gauges : d[g] = 0  BY <1>3, <2>2
  <2>4. m \notin Counted(stage, cancelled, "running") /\ m \in Counted(stage, cancelled, "terminating")
    BY Zenon, <1>4, <1>7 DEF Counted
  <2>5. \A g \in Gauges : m \in Counted(stage, cancelled, g) <=> m \in Counted(stage', cancelled', g)
    BY Zenon, <1>5, <1>6, <2>4
  <2>6. Exact(d)  BY Zenon, <1>1, <1>2, <2>3, <2>5, OneMove
  <2>7. Roomy({})  BY Zenon DEF Roomy
  <2> QED  BY Zenon, <2>6, <2>7, ExactAccount DEF d
<1>8. CASE ~cancelled[m]
  <2>1. C = {m}  BY Zenon, <1>8
  <2>2. Cardinality(C) = 1  BY Zenon, <2>1, FS_Singleton
  <2> HIDE DEF C
  <2>3. d["running"] = -1 /\ d["terminating"] = 1  BY Zenon, <1>3, <2>2
  <2>4. m \in Counted(stage, cancelled, "running") /\ m \notin Counted(stage, cancelled, "terminating")
    BY Zenon, <1>4, <1>8 DEF Counted
  <2>5. Exact(d)  BY Zenon, <1>1, <1>2, <1>3, <1>5, <1>6, <2>3, <2>4, OneMove
  <2>6. Roomy({})  BY Zenon DEF Roomy
  <2> QED  BY Zenon, <2>5, <2>6, ExactAccount DEF d
<1> QED  BY Zenon, <1>7, <1>8

\* The blocking thread and the reply task.
LEMMA TaskGauges ==
  ASSUME TypeOK, GaugeInv, NEW m \in Messages, Task(m)
  PROVE  GaugeInv'
<1> USE DEF JobStages, ExecutionStages, ReplyStages
<1>1. CASE GuestExit(m)
  <2>1. /\ stage[m] = "guest" /\ stage'[m] = "cleanup" /\ Live(m)
        /\ \A n \in Messages \ {m} : stage'[n] = stage[n]
    BY Zenon, <1>1 DEF GuestExit, TypeOK, Live
  <2>2. CASE UNCHANGED <<cancelled, metrics>>
    <3>1. Alone(m)  BY Zenon, <2>1, <2>2 DEF Alone
    <3>2. \A g \in Gauges : m \in Counted(stage', cancelled', g) <=> m \in Counted(stage, cancelled, g)
      BY Zenon, <2>1, <2>2 DEF Counted, Gauges
    <3> QED  BY Zenon, <2>2, <3>1, <3>2, UncountedMove
  <2>3. CASE Cancel({m}) /\ Account(Terminating({m}), {})
    BY Zenon, <2>1, <2>3, TerminateGauges
  <2> QED  BY Zenon, <1>1, <2>2, <2>3 DEF GuestExit
<1>2. CASE DeadlineNoticed(m)
  <2>1. /\ Live(m) /\ stage' = stage /\ Cancel({m}) /\ Account(Terminating({m}), {})
        /\ stage'[m] \in {"guest", "cleanup"}
    BY Zenon, <1>2 DEF DeadlineNoticed, Live
  <2> QED  BY Zenon, <2>1, TerminateGauges
<1>3. CASE CleanupExit(m)
  <2> DEFINE k == IF cancelled[m] THEN "terminating" ELSE "running"
             d == [Zero EXCEPT ![k] = -1]
  <2>1. /\ stage[m] = "cleanup" /\ stage'[m] = "exited" /\ Alone(m) /\ Account(d, {})
    BY Zenon, <1>3 DEF CleanupExit, TypeOK, Alone
  <2>2. k \in {"running", "terminating"}  BY Zenon
  <2>3. /\ m \in Counted(stage, cancelled, k)
        /\ \A g \in {"running", "terminating"} : /\ g # k => m \notin Counted(stage, cancelled, g)
                                                 /\ m \notin Counted(stage', cancelled', g)
    BY Zenon, <2>1 DEF Counted
  <2> HIDE DEF k
  <2>4. d \in [Gauges -> Int] /\ d[k] = -1 /\ \A g \in Gauges : g # k => d[g] = 0
    BY <2>2 DEF Zero, Gauges
  <2>5. \A g \in Gauges : g \notin {"running", "terminating"} =>
           (m \in Counted(stage, cancelled, g) <=> m \in Counted(stage', cancelled', g))
    BY Zenon, <2>1 DEF Counted, Gauges
  <2> HIDE DEF d
  <2>6. Exact(d)  BY Zenon, <2>1, <2>2, <2>3, <2>4, <2>5, OneMove
  <2>7. Roomy({})  BY Zenon DEF Roomy
  <2> QED  BY Zenon, <2>1, <2>6, <2>7, ExactAccount
<1>4. CASE ReleasePermit(m) \/ Complete(m)
  <2>1. /\ stage[m] \in {"exited", "released"} /\ stage'[m] \in {"released", "executed"}
        /\ Alone(m) /\ UNCHANGED metrics
    BY Zenon, <1>4 DEF ReleasePermit, Complete, TypeOK, Alone, flags
  <2>2. \A g \in Gauges : m \in Counted(stage', cancelled', g) <=> m \in Counted(stage, cancelled, g)
    BY Zenon, <2>1 DEF Counted, Gauges
  <2> QED  BY Zenon, <2>1, <2>2, UncountedMove
<1>5. CASE ReplyExit(m)
  <2> DEFINE d == [Zero EXCEPT !["uncollected"] = 1]
  <2>1. /\ stage[m] = "publishing" /\ stage'[m] \in {"sent", "unsent"} /\ Alone(m) /\ Account(d, {})
    BY Zenon, <1>5 DEF ReplyExit, TypeOK, Alone, flags
  <2>2. d \in [Gauges -> Int] /\ d["uncollected"] = 1 /\ \A g \in Gauges : g # "uncollected" => d[g] = 0
    BY DEF Zero, Gauges
  <2>3. /\ m \notin Counted(stage, cancelled, "uncollected")
        /\ m \in Counted(stage', cancelled', "uncollected")
    BY Zenon, <2>1 DEF Counted
  <2>4. \A g \in Gauges : g # "uncollected" =>
           (m \in Counted(stage, cancelled, g) <=> m \in Counted(stage', cancelled', g))
    BY Zenon, <2>1 DEF Counted, Gauges
  <2> HIDE DEF d
  <2>5. Exact(d)  BY Zenon, <2>1, <2>2, <2>3, <2>4, OneMove
  <2>6. Roomy({})  BY Zenon DEF Roomy
  <2> QED  BY Zenon, <2>1, <2>5, <2>6, ExactAccount
<1> QED  BY Zenon, <1>1, <1>2, <1>3, <1>4, <1>5 DEF Task

\* Every step keeps the gauges equal to the lifetimes they stand for.
LEMMA GaugeStep ==
  ASSUME IInv, GaugeInv, [Next]_vars
  PROVE  GaugeInv'
<1>1. TypeOK /\ HeldInv /\ QueueInv /\ JobsBound  BY Zenon DEF IInv, SlotInv
<1>2. ASSUME UNCHANGED <<stage, cancelled, metrics>> PROVE GaugeInv'
  BY Zenon, <1>2, UncountedStep
<1>3. CASE UNCHANGED vars \/ Terminated  BY Zenon, <1>2, <1>3 DEF vars, flags, Terminated
<1>4. CASE SelectShutdown \/ SelectPending \/ TakeClosed \/ DrainFinished \/ Reserve \/ IntakeExit
  BY Zenon, <1>2, <1>4 DEF SelectShutdown, SelectPending, TakeClosed, DrainFinished, Reserve,
       IntakeExit, flags
<1>5. CASE \E m \in Messages : PermitPending(m) \/ AcquirePermit(m)
  BY Zenon, <1>2, <1>5 DEF PermitPending, AcquirePermit, flags
<1>6. CASE World
  BY Zenon, <1>2, <1>6 DEF World, SyncDrop, Sigterm, SyncSend, Expire, flags
<1>7. CASE SelectChanged \/ PermitChanged
  BY Zenon, <1>1, <1>7, CancelGauges DEF SelectChanged, PermitChanged
<1>8. CASE TakeMessage \/ RevokePop  BY Zenon, <1>1, <1>8, TakeGauges
<1>9. CASE RevokeDone \/ DrainQueue
  <2>1. PICK s \in {"held", "queued"} : Drop(In({s}))  BY Zenon, <1>9 DEF RevokeDone, DrainQueue
  <2>2. In({s}) \in SUBSET Messages /\ \A m \in In({s}) : stage[m] \in {"queued", "held", "popped"}
    BY Zenon DEF In
  <2> QED  BY Zenon, <1>1, <2>1, <2>2, DropGauges
<1>10. ASSUME NEW m \in Messages, TakeJoin(m) \/ AcquireJoin(m) \/ DrainJoin(m)
       PROVE  GaugeInv'
  BY Zenon, <1>1, <1>10, CollectGauges DEF TakeJoin, AcquireJoin, DrainJoin
<1>11. ASSUME NEW m \in Messages,
              \/ CheckSynced(m) \/ PermitShutdown(m) \/ AdmitMiss(m) \/ AdmitUntrusted(m)
              \/ RevokeDrop(m)
       PROVE  GaugeInv'
  <2>1. \/ UNCHANGED <<stage, cancelled, metrics>>
        \/ Drop({m}) /\ stage[m] \in {"held", "popped"}
    BY Zenon, <1>11 DEF CheckSynced, PermitShutdown, AdmitMiss, AdmitUntrusted, RevokeDrop, flags
  <2>2. ASSUME Drop({m}), stage[m] \in {"held", "popped"} PROVE GaugeInv'
    <3>1. {m} \in SUBSET Messages /\ \A n \in {m} : stage[n] \in {"queued", "held", "popped"}
      BY Zenon, <2>2
    <3> QED  BY Zenon, <1>1, <2>2, <3>1, DropGauges
  <2> QED  BY Zenon, <1>2, <2>1, <2>2
<1>12. ASSUME NEW m \in Messages, AcquireExpired(m) \/ Admit(m) PROVE GaugeInv'
  BY Zenon, <1>1, <1>12, OpenGauges
<1>13. ASSUME NEW m \in Messages, Forward(m) PROVE GaugeInv'
  BY Zenon, <1>1, <1>13, ForwardGauges
<1>14. ASSUME NEW m \in Messages, Task(m) PROVE GaugeInv'
  BY Zenon, <1>1, <1>14, TaskGauges
<1> QED
  BY Zenon, <1>3, <1>4, <1>5, <1>6, <1>7, <1>8, <1>9, <1>10, <1>11, <1>12, <1>13, <1>14
     DEF Next, Supervisor, Intake

\* dispatch_metrics.rs: whatever the interleaving of admissions, cancellations,
\* panics, revocations and the drain, the gauges are the lifetimes they stand for
\* and no alarm but that of the queue is raised.
THEOREM AccountingHolds == Spec => []AccountingBalanced
<1>1. Init => GaugeInv
  <2> SUFFICES ASSUME Init PROVE GaugeInv  BY Zenon
  <2>1. ASSUME NEW g \in Gauges PROVE Cardinality(Counted(stage, cancelled, g)) = 0
    <3>1. Counted(stage, cancelled, g) = {}
      BY Zenon DEF Init, Counted, JobStages, ExecutionStages, ReplyStages
    <3> QED  BY Zenon, <3>1, FS_EmptySet
  <2>2. (\A g \in Gauges : work[g] = 0) /\ alarms = {}  BY Zenon DEF Init
  <2> QED  BY Zenon, <2>1, <2>2 DEF GaugeInv
<1>2. IInv /\ GaugeInv => AccountingBalanced
  <2> SUFFICES ASSUME IInv, GaugeInv PROVE AccountingBalanced  BY Zenon
  <2>1. /\ Counted(stage, cancelled, "queued") = Backlog
        /\ Counted(stage, cancelled, "tracked") = Jobs
        /\ Counted(stage, cancelled, "uncollected") = In({"sent", "unsent"})
        /\ Counted(stage, cancelled, "running") = {m \in Messages : Live(m) /\ ~cancelled[m]}
        /\ Counted(stage, cancelled, "terminating") = {m \in Messages : Live(m) /\ cancelled[m]}
    BY Zenon DEF Counted, Backlog, Jobs, In, Live
  <2>2. \A g \in {"queued", "tracked", "uncollected", "running", "terminating"} :
           work[g] = Cardinality(Counted(stage, cancelled, g))
    BY Zenon DEF GaugeInv, Gauges
  <2>3. /\ work["queued"] = Cardinality(Counted(stage, cancelled, "queued"))
        /\ work["tracked"] = Cardinality(Counted(stage, cancelled, "tracked"))
        /\ work["uncollected"] = Cardinality(Counted(stage, cancelled, "uncollected"))
        /\ work["running"] = Cardinality(Counted(stage, cancelled, "running"))
        /\ work["terminating"] = Cardinality(Counted(stage, cancelled, "terminating"))
    BY Zenon, <2>2
  <2> QED  BY Zenon, <2>1, <2>3 DEF AccountingBalanced, GaugeInv, IInv, SlotInv
<1> QED  BY <1>1, <1>2, GaugeStep, Invariance, PTL DEF Spec

-----------------------------------------------------------------------------
(* The supervisor implements DispatchContract.                             *)

\* Only work that has been started is revoked; the mark goes with the record.
RevokedInv == \A m \in Messages : revoked[m] => stage[m] \in JobStages

-----------------------------------------------------------------------------
(* The refinement mapping.                                                 *)

\* The stages each fate stands for.
LEMMA FateStages ==
  ASSUME NEW s \in Stages
  PROVE  /\ FateOf(s) = "away" <=> s = "idle"
         /\ FateOf(s) = "waiting" <=> s \in {"queued", "held", "popped"}
         /\ FateOf(s) = "running" <=> s \in ExecutionStages
         /\ FateOf(s) = "replying" <=> s = "publishing"
         /\ FateOf(s) = "sent" <=> s = "sent"
         /\ FateOf(s) = "unsent" <=> s = "unsent"
         /\ FateOf(s) = "over" <=> s \in {"dropped", "reaped"}
  BY Zenon DEF FateOf, Stages, JobStages, ExecutionStages, ReplyStages

\* A step that changes no fate and revokes no running work is invisible.
LEMMA Invisible ==
  ASSUME TypeOK, stage' \in [Messages -> Stages],
         \A n \in Messages : FateOf(stage'[n]) = FateOf(stage[n]),
         \A n \in Messages : stage[n] \in ExecutionStages => revoked'[n] = revoked[n]
  PROVE  UNCHANGED <<Fate, Withdrawn>>
<1>1. Fate' = Fate
  BY Zenon DEF Fate
<1>2. \A n \in Messages : stage[n] \in Stages /\ stage'[n] \in Stages
  BY Zenon DEF TypeOK
<1>3. \A n \in Messages : stage'[n] \in ExecutionStages <=> stage[n] \in ExecutionStages
  BY <1>2, FateStages
<1>4. Withdrawn' = Withdrawn
  BY Zenon, <1>3 DEF Withdrawn, In
<1>5. QED
  BY Zenon, <1>1, <1>4

\* A step that moves one message, which is not revoked if it now runs.
LEMMA MovesOne ==
  ASSUME TypeOK, stage' \in [Messages -> Stages],
         NEW m \in Messages, NEW from, NEW to,
         FateOf(stage[m]) = from, FateOf(stage'[m]) = to,
         \A n \in Messages \ {m} : stage'[n] = stage[n] /\ revoked'[n] = revoked[n],
         to = "running" => ~revoked'[m]
  PROVE  Contract!Becomes(m, from, to)
<1>1. Fate[m] = from
  BY Zenon DEF Fate
<1>2. Fate' = [Fate EXCEPT ![m] = to]
  BY Zenon DEF Fate
<1>3. stage'[m] \in ExecutionStages => ~revoked'[m]
  BY Zenon, FateStages
<1>4. Withdrawn' = Withdrawn \ {m}
  BY Zenon, <1>3 DEF Withdrawn, In
<1>5. QED
  BY Zenon, <1>1, <1>2, <1>4 DEF Contract!Becomes

\* Dropping messages that wait is one step of the contract.
LEMMA DropsWaiting ==
  ASSUME TypeOK, NEW S \in SUBSET Messages, Drop(S),
         \A m \in S : stage[m] \in {"queued", "held", "popped"}
  PROVE  Contract!Next
<1>1. /\ \A n \in S : stage'[n] = "dropped"
      /\ \A n \in Messages \ S : stage'[n] = stage[n] /\ revoked'[n] = revoked[n]
  BY Zenon DEF Drop, End, TypeOK
<1>2. \A n \in Messages : stage[n] \in Stages
  BY Zenon DEF TypeOK
<1>3. S \subseteq Contract!With({"waiting"})
  BY Zenon, <1>2, FateStages DEF Contract!With, Fate
<1>4. FateOf("dropped") = "over"
  BY Zenon, FateStages DEF Stages
<1>5. Fate' = [m \in Messages |-> IF m \in S THEN "over" ELSE Fate[m]]
  BY Zenon, <1>1, <1>4 DEF Fate
<1>6. Withdrawn' = Withdrawn
  BY Zenon, <1>1 DEF Withdrawn, In, ExecutionStages
<1>7. Contract!Discard(S)
  BY Zenon, <1>3, <1>5, <1>6 DEF Contract!Discard
<1>8. QED
  BY Zenon, <1>7 DEF Contract!Next

\* Records of the contract are the supervisor's jobs.
LEMMA RoomForRecord ==
  ASSUME TypeOK, Cardinality(Jobs) < MaxConcurrent
  PROVE  Contract!Room
<1>1. \A n \in Messages : stage[n] \in Stages
  BY Zenon DEF TypeOK
<1>2. Contract!With({"running", "replying", "sent", "unsent"}) = Jobs
  BY Zenon, <1>1, FateStages DEF Contract!With, Fate, Jobs, In, JobStages, ReplyStages
<1>3. QED
  BY Zenon, <1>2 DEF Contract!Room, Cardinality, Contract!Cardinality

-----------------------------------------------------------------------------
(* Steps.                                                                  *)

Simulates == Contract!Next \/ UNCHANGED <<Fate, Withdrawn>>

\* The intake task, the outside world, and the supervisor's steps that only look.
LEMMA QuietSteps ==
  ASSUME TypeOK, stage' \in [Messages -> Stages], UNCHANGED <<stage, revoked>>
  PROVE  Simulates
  BY Zenon, Invisible DEF Simulates

\* A message taken from the channel still waits.
LEMMA TakeSteps ==
  ASSUME TypeOK, QueueInv, stage' \in [Messages -> Stages], TakeMessage \/ RevokePop
  PROVE  Simulates
<1>1. queue \in Seq(Messages) /\ queue # <<>> /\ Head(queue) = queue[1] /\ 1 \in 1..Len(queue)
      /\ Head(queue) \in Messages
  BY TailShifts DEF TypeOK, TakeMessage, RevokePop
<1>2. stage[Head(queue)] = "queued"
  BY <1>1 DEF QueueInv
<1>3. /\ UNCHANGED revoked /\ stage'[Head(queue)] \in {"held", "popped"}
      /\ \A n \in Messages : n # Head(queue) => stage'[n] = stage[n]
  BY Zenon, <1>1 DEF TakeMessage, RevokePop, TypeOK, flags
<1>4. FateOf("queued") = "waiting" /\ FateOf("held") = "waiting" /\ FateOf("popped") = "waiting"
  BY Zenon, FateStages DEF Stages
<1>5. FateOf(stage'[Head(queue)]) = "waiting"
  BY Zenon, <1>3, <1>4
<1>6. \A n \in Messages : FateOf(stage'[n]) = FateOf(stage[n])
  BY Zenon, <1>2, <1>3, <1>4, <1>5
<1>7. QED
  BY Zenon, <1>3, <1>6, Invisible DEF Simulates

\* A finished execution gets a reply unless it was revoked; a reply is collected.
LEMMA CollectSteps ==
  ASSUME TypeOK, stage' \in [Messages -> Stages], NEW m \in Messages, Collect(m)
  PROVE  Simulates
<1>1. \A n \in Messages \ {m} : stage'[n] = stage[n] /\ revoked'[n] = revoked[n]
  BY ZenonT(30) DEF Collect, End, TypeOK, flags
<1>2. CASE stage[m] = "executed" /\ ~revoked[m]
  <2>1. stage'[m] = "publishing"
    BY Zenon, <1>2 DEF Collect, Discarded, TypeOK
  <2>2. FateOf(stage[m]) = "running" /\ FateOf(stage'[m]) = "replying"
    BY Zenon, <1>2, <2>1 DEF FateOf, ExecutionStages
  <2>3. Contract!Becomes(m, "running", "replying")
    BY Zenon, <1>1, <2>2, MovesOne
  <2>4. m \notin Withdrawn
    BY Zenon, <1>2 DEF Withdrawn
  <2>5. QED
    BY Zenon, <2>3, <2>4 DEF Simulates, Contract!Next, Contract!Reply
<1>3. CASE stage[m] = "executed" /\ revoked[m]
  <2>1. stage'[m] = "reaped"
    BY Zenon, <1>3 DEF Collect, Discarded, End
  <2>2. FateOf(stage[m]) = "running" /\ FateOf(stage'[m]) = "over"
    BY Zenon, <1>3, <2>1 DEF FateOf, ExecutionStages
  <2>3. Contract!Becomes(m, "running", "over")
    BY Zenon, <1>1, <2>2, MovesOne
  <2>4. m \in Withdrawn
    BY Zenon, <1>3 DEF Withdrawn, In, ExecutionStages
  <2>5. QED
    BY Zenon, <2>3, <2>4 DEF Simulates, Contract!Next, Contract!Abandon
<1>4. CASE stage[m] # "executed"
  <2>1. stage[m] \in {"sent", "unsent"} /\ stage'[m] = "reaped"
    BY Zenon, <1>4 DEF Collect, Ready, End
  <2>2. FateOf(stage[m]) = stage[m] /\ FateOf(stage'[m]) = "over"
    BY Zenon, <2>1 DEF FateOf, ExecutionStages
  <2>3. Contract!Becomes(m, stage[m], "over")
    BY Zenon, <1>1, <2>2, MovesOne
  <2>4. QED
    BY Zenon, <2>1, <2>3 DEF Simulates, Contract!Next, Contract!Collect
<1>5. QED
  BY Zenon, <1>2, <1>3, <1>4

\* A sync change that is seen withdraws all running work at once.
LEMMA WithdrawSteps ==
  ASSUME TypeOK, CancelUntrustedWork
  PROVE  Simulates
<1>1. stage' = stage /\ \A n \in Messages : stage[n] \in JobStages => revoked'[n]
  BY ZenonT(30) DEF CancelUntrustedWork
<1>2. Withdrawn' = In(ExecutionStages)
  BY Zenon, <1>1 DEF Withdrawn, In, JobStages
<1>3. \A n \in Messages : stage[n] \in Stages
  BY Zenon DEF TypeOK
<1>4. Contract!With({"running"}) = In(ExecutionStages)
  BY Zenon, <1>3, FateStages DEF Contract!With, Fate, In
<1>5. Fate' = Fate
  BY Zenon, <1>1 DEF Fate
<1>6. QED
  BY Zenon, <1>2, <1>4, <1>5 DEF Simulates, Contract!Next, Contract!Withdraw

\* A message is admitted, or answered with a timeout, while there is room for it.
LEMMA OpenSteps ==
  ASSUME TypeOK, RevokedInv, JobsBound, stage' \in [Messages -> Stages],
         NEW m \in Messages, Admit(m) \/ AcquireExpired(m)
  PROVE  Simulates
<1>1. /\ stage[m] = "held" /\ stage'[m] \in {"guest", "publishing"}
      /\ \A n \in Messages \ {m} : stage'[n] = stage[n]
      /\ revoked' = revoked /\ pc \in {"acquire", "admit"}
  BY Zenon DEF Admit, AcquireExpired, TypeOK
<1>2. Contract!Room
  BY Zenon, <1>1, RoomForRecord DEF JobsBound, Holding
<1>3. ~revoked'[m]
  BY Zenon, <1>1 DEF RevokedInv, JobStages, ExecutionStages, ReplyStages
<1>4. CASE stage'[m] = "guest"
  <2>1. FateOf(stage[m]) = "waiting" /\ FateOf(stage'[m]) = "running"
    BY Zenon, <1>1, <1>4 DEF FateOf, ExecutionStages
  <2>2. Contract!Becomes(m, "waiting", "running")
    BY Zenon, <1>1, <1>3, <2>1, MovesOne
  <2>3. QED
    BY Zenon, <1>2, <2>2 DEF Simulates, Contract!Next, Contract!Start
<1>5. CASE stage'[m] = "publishing"
  <2>1. FateOf(stage[m]) = "waiting" /\ FateOf(stage'[m]) = "replying"
    BY Zenon, <1>1, <1>5 DEF FateOf, ExecutionStages
  <2>2. Contract!Becomes(m, "waiting", "replying")
    BY Zenon, <1>1, <2>1, MovesOne
  <2>3. QED
    BY Zenon, <1>2, <2>2 DEF Simulates, Contract!Next, Contract!TimeOut
<1>6. QED
  BY Zenon, <1>1, <1>4, <1>5

\* The blocking thread's stages are all running work; the reply task publishes.
LEMMA TaskSteps ==
  ASSUME TypeOK, stage' \in [Messages -> Stages], NEW m \in Messages, Task(m)
  PROVE  Simulates
<1>1. revoked' = revoked /\ \A n \in Messages \ {m} : stage'[n] = stage[n]
  BY Zenon DEF Task, GuestExit, DeadlineNoticed, CleanupExit, ReleasePermit, Complete, ReplyExit,
         flags, TypeOK
<1>2. CASE ReplyExit(m)
  <2>1. stage[m] = "publishing" /\ stage'[m] \in {"sent", "unsent"}
    BY Zenon, <1>2 DEF ReplyExit, TypeOK
  <2>2. FateOf(stage[m]) = "replying" /\ FateOf(stage'[m]) = stage'[m]
    BY Zenon, <2>1 DEF FateOf, ExecutionStages
  <2>3. Contract!Becomes(m, "replying", stage'[m])
    BY Zenon, <1>1, <2>1, <2>2, MovesOne
  <2>4. QED
    BY Zenon, <2>1, <2>3 DEF Simulates, Contract!Next, Contract!Publish
<1>3. CASE ~ReplyExit(m)
  <2>1. stage'[m] = stage[m] \/ (stage[m] \in ExecutionStages /\ stage'[m] \in ExecutionStages)
    BY Zenon, <1>3 DEF Task, GuestExit, DeadlineNoticed, CleanupExit, ReleasePermit, Complete,
                TypeOK, ExecutionStages
  <2>2. stage[m] \in Stages /\ stage'[m] \in Stages
    BY Zenon DEF TypeOK
  <2>3. FateOf(stage'[m]) = FateOf(stage[m])
    BY <2>1, <2>2, FateStages
  <2>4. \A n \in Messages : FateOf(stage'[n]) = FateOf(stage[n])
    BY Zenon, <1>1, <2>3
  <2>5. QED
    BY Zenon, <1>1, <2>4, Invisible DEF Simulates
<1>4. QED
  BY Zenon, <1>2, <1>3

\* Every step of the host is a step of the contract or invisible to it.
LEMMA StepSimulation ==
  ASSUME IInv, RevokedInv, Next
  PROVE  Simulates
<1>1. TypeOK /\ HeldInv /\ QueueInv /\ JobsBound
  BY Zenon DEF IInv, SlotInv
<1>2. stage' \in [Messages -> Stages]
  <2>1. TypeOK'
    BY Zenon, Inductive DEF IInv, SlotInv
  <2>2. QED
    BY Zenon, <2>1 DEF TypeOK
<1>3. CASE \/ SelectShutdown \/ SelectPending \/ TakeClosed \/ DrainFinished \/ Reserve
           \/ IntakeExit \/ World \/ Terminated
           \/ \E m \in Messages : PermitPending(m) \/ AcquirePermit(m)
  <2>1. UNCHANGED <<stage, revoked>>
    BY Zenon, <1>3 DEF SelectShutdown, SelectPending, TakeClosed, DrainFinished, Reserve, IntakeExit,
                World, SyncDrop, Sigterm, SyncSend, Expire, Terminated, PermitPending,
                AcquirePermit, vars, flags
  <2>2. QED
    BY ZenonT(30), <1>1, <1>2, <2>1, QuietSteps
<1>4. CASE TakeMessage \/ RevokePop
  BY Zenon, <1>1, <1>2, <1>4, TakeSteps
<1>5. ASSUME NEW m \in Messages, TakeJoin(m) \/ AcquireJoin(m) \/ DrainJoin(m)
      PROVE  Simulates
  BY Zenon, <1>1, <1>2, <1>5, CollectSteps DEF TakeJoin, AcquireJoin, DrainJoin
<1>6. CASE SelectChanged \/ PermitChanged
  BY Zenon, <1>1, <1>6, WithdrawSteps DEF SelectChanged, PermitChanged
<1>7. ASSUME NEW m \in Messages, Admit(m) \/ AcquireExpired(m)
      PROVE  Simulates
  BY Zenon, <1>1, <1>2, <1>7, OpenSteps
<1>8. ASSUME NEW m \in Messages,
             \/ PermitShutdown(m) \/ AdmitMiss(m) \/ AdmitUntrusted(m) \/ RevokeDrop(m)
             \/ CheckSynced(m)
      PROVE  Simulates
  <2>1. CASE UNCHANGED <<stage, flags>>
    BY Zenon, <1>1, <1>2, <2>1, QuietSteps DEF flags
  <2>2. CASE Drop({m})
    <3>1. stage[m] \in {"queued", "held", "popped"}
      BY Zenon, <1>8 DEF PermitShutdown, AdmitMiss, AdmitUntrusted, RevokeDrop, CheckSynced
    <3>2. QED
      BY Zenon, <1>1, <2>2, <3>1, DropsWaiting DEF Simulates
  <2>3. QED
    BY Zenon, <1>8, <2>1, <2>2 DEF PermitShutdown, AdmitMiss, AdmitUntrusted, RevokeDrop, CheckSynced
<1>9. CASE RevokeDone \/ DrainQueue
  <2>1. PICK S \in {In({"held"}), In({"queued"})} : Drop(S)
    BY Zenon, <1>9 DEF RevokeDone, DrainQueue
  <2>2. S \in SUBSET Messages /\ \A m \in S : stage[m] \in {"queued", "held", "popped"}
    BY Zenon DEF In
  <2>3. QED
    BY Zenon, <1>1, <2>1, <2>2, DropsWaiting DEF Simulates
<1>10. ASSUME NEW m \in Messages, Forward(m)
       PROVE  Simulates
  <2>1. /\ stage[m] = "idle" /\ stage'[m] = "queued" /\ revoked' = revoked
        /\ \A n \in Messages \ {m} : stage'[n] = stage[n]
    BY Zenon, <1>1, <1>10 DEF Forward, TypeOK
  <2>2. FateOf(stage[m]) = "away" /\ FateOf(stage'[m]) = "waiting"
    BY Zenon, <2>1, FateStages DEF Stages
  <2>3. Contract!Becomes(m, "away", "waiting")
    BY Zenon, <1>1, <1>2, <2>1, <2>2, MovesOne
  <2>4. QED
    BY Zenon, <2>3 DEF Simulates, Contract!Next, Contract!Arrive
<1>11. ASSUME NEW m \in Messages, Task(m)
       PROVE  Simulates
  BY Zenon, <1>1, <1>2, <1>11, TaskSteps
<1>12. QED
  BY Zenon, <1>3, <1>4, <1>5, <1>6, <1>7, <1>8, <1>9, <1>10, <1>11 DEF Next, Supervisor, Intake

\* A message loses its mark when it ends, and gets it only while it has a record.
LEMMA RevokedStep ==
  ASSUME TypeOK, QueueInv, RevokedInv, Next
  PROVE  RevokedInv'
<1> USE DEF JobStages, ExecutionStages, ReplyStages
<1>1. ASSUME revoked' = revoked,
             \A n \in Messages : stage[n] \in JobStages => stage'[n] \in JobStages
      PROVE  RevokedInv'
  BY Zenon, <1>1 DEF RevokedInv
<1>2. ASSUME NEW S \in SUBSET Messages, NEW to, End(S, to)
      PROVE  RevokedInv'
  BY ZenonT(30), <1>2 DEF End, RevokedInv, TypeOK
<1>3. CASE \/ SelectShutdown \/ SelectPending \/ TakeClosed \/ DrainFinished \/ Reserve
           \/ IntakeExit \/ World \/ Terminated
           \/ \E m \in Messages : PermitPending(m) \/ AcquirePermit(m)
  <2>1. UNCHANGED <<stage, revoked>>
    BY Zenon, <1>3 DEF SelectShutdown, SelectPending, TakeClosed, DrainFinished, Reserve, IntakeExit,
                World, SyncDrop, Sigterm, SyncSend, Expire, Terminated, PermitPending,
                AcquirePermit, vars, flags
  <2>2. QED
    BY Zenon, <1>1, <2>1
<1>4. CASE TakeMessage \/ RevokePop
  <2>1. queue \in Seq(Messages) /\ Head(queue) = queue[1] /\ 1 \in 1..Len(queue)
        /\ Head(queue) \in Messages
    BY <1>4, TailShifts DEF TypeOK, TakeMessage, RevokePop
  <2>2. stage[Head(queue)] = "queued"
    BY Zenon, <2>1 DEF QueueInv
  <2>3. UNCHANGED revoked /\ \A n \in Messages : n # Head(queue) => stage'[n] = stage[n]
    BY Zenon, <1>4, <2>1 DEF TakeMessage, RevokePop, TypeOK, flags
  <2>4. QED
    BY Zenon, <1>1, <2>2, <2>3
<1>5. ASSUME NEW m \in Messages, TakeJoin(m) \/ AcquireJoin(m) \/ DrainJoin(m)
      PROVE  RevokedInv'
  <2>1. Collect(m)
    BY Zenon, <1>5 DEF TakeJoin, AcquireJoin, DrainJoin
  <2>2. CASE End({m}, "reaped")
    BY Zenon, <1>2, <2>2
  <2>3. CASE stage' = [stage EXCEPT ![m] = "publishing"] /\ UNCHANGED flags
    BY Zenon, <1>1, <2>3 DEF flags, TypeOK
  <2>4. QED
    BY Zenon, <2>1, <2>2, <2>3 DEF Collect
<1>6. CASE SelectChanged \/ PermitChanged
  <2>1. stage' = stage /\ revoked' = [m \in Messages |-> revoked[m] \/ stage[m] \in JobStages]
    BY Zenon, <1>6 DEF SelectChanged, PermitChanged, CancelUntrustedWork
  <2>2. QED
    BY ZenonT(30), <2>1 DEF RevokedInv
<1>7. ASSUME NEW m \in Messages, Admit(m) \/ AcquireExpired(m) \/ Forward(m)
      PROVE  RevokedInv'
  <2>1. /\ revoked' = revoked /\ stage[m] \in {"held", "idle"}
        /\ \A n \in Messages \ {m} : stage'[n] = stage[n]
    BY Zenon, <1>7 DEF Admit, AcquireExpired, Forward, TypeOK
  <2>2. QED
    BY Zenon, <1>1, <2>1
<1>8. ASSUME NEW m \in Messages,
             \/ PermitShutdown(m) \/ AdmitMiss(m) \/ AdmitUntrusted(m) \/ RevokeDrop(m)
             \/ CheckSynced(m)
      PROVE  RevokedInv'
  <2>1. UNCHANGED <<stage, flags>> \/ Drop({m})
    BY Zenon, <1>8 DEF PermitShutdown, AdmitMiss, AdmitUntrusted, RevokeDrop, CheckSynced
  <2>2. QED
    BY Zenon, <1>1, <1>2, <2>1 DEF Drop, flags
<1>9. CASE RevokeDone \/ DrainQueue
  <2>1. PICK S \in {In({"held"}), In({"queued"})} : Drop(S)
    BY Zenon, <1>9 DEF RevokeDone, DrainQueue
  <2>2. S \in SUBSET Messages
    BY Zenon DEF In
  <2>3. QED
    BY Zenon, <1>2, <2>1, <2>2 DEF Drop
<1>10. ASSUME NEW m \in Messages, Task(m)
       PROVE  RevokedInv'
  <2>1. /\ revoked' = revoked /\ \A n \in Messages \ {m} : stage'[n] = stage[n]
        /\ stage[m] \in JobStages => stage'[m] \in JobStages
    BY Zenon, <1>10 DEF Task, GuestExit, DeadlineNoticed, CleanupExit, ReleasePermit, Complete,
                 ReplyExit, flags, TypeOK
  <2>2. QED
    BY Zenon, <1>1, <2>1
<1>11. QED
  BY Zenon, <1>3, <1>4, <1>5, <1>6, <1>7, <1>8, <1>9, <1>10 DEF Next, Supervisor, Intake

-----------------------------------------------------------------------------
\* The dispatch loop, with its queue, semaphore, revocation and drain, does to each
\* message only what the contract allows: it runs and is answered at most once,
\* within the record limit, and a withdrawn result is never replied.
THEOREM Refinement == Spec => ImplementsContract
<1>1. Init => Contract!Init /\ RevokedInv
  <2>1. SUFFICES ASSUME Init PROVE Contract!Init /\ RevokedInv
    BY Zenon
  <2>2. FateOf("idle") = "away"
    BY Zenon, FateStages DEF Stages
  <2>3. Fate = [m \in Messages |-> "away"]
    BY Zenon, <2>1, <2>2 DEF Init, Fate
  <2>4. Withdrawn = {} /\ RevokedInv
    BY Zenon, <2>1 DEF Init, Withdrawn, In, RevokedInv
  <2>5. QED
    BY Zenon, <2>3, <2>4 DEF Contract!Init
<1>2. IInv /\ RevokedInv /\ [Next]_vars => RevokedInv' /\ [Contract!Next]_(Contract!vars)
  <2>1. SUFFICES ASSUME IInv, RevokedInv, [Next]_vars
                 PROVE  RevokedInv' /\ [Contract!Next]_(Contract!vars)
    BY Zenon
  <2>2. CASE Next
    <3>1. RevokedInv'
      BY Zenon, <2>1, <2>2, RevokedStep DEF IInv, SlotInv
    <3>2. Simulates
      BY Zenon, <2>1, <2>2, StepSimulation
    <3>3. QED
      BY Zenon, <3>1, <3>2 DEF Simulates, Contract!vars
  <2>3. CASE UNCHANGED vars
    <3>1. stage' = stage /\ revoked' = revoked
      BY Zenon, <2>3 DEF vars, flags
    <3>2. QED
      BY Zenon, <2>1, <3>1 DEF RevokedInv, Contract!vars, Fate, Withdrawn, In
  <2>4. QED
    BY Zenon, <2>1, <2>2, <2>3
<1>3. QED
  BY <1>1, <1>2, Invariance, PTL DEF Spec, ImplementsContract, Contract!Spec
=============================================================================
