------------------------ MODULE InvocationSupervisor ------------------------
(***************************************************************************)
(* The execution host's invocation supervisor: the dispatch loop that      *)
(* takes messages from the intake channel, admits them to execution slots, *)
(* runs each on the blocking pool, publishes its reply, revokes everything *)
(* when configuration sync changes, and drains on shutdown; together with  *)
(* the invocation object the loop shares with the blocking threads and the *)
(* lifetime accounting of dispatch_metrics.rs.                             *)
(*                                                                         *)
(* Actors: the NATS intake task, the supervisor task, one blocking thread  *)
(* per execution, one reply task per finished execution, and the outside   *)
(* world (sync changes, deadlines, SIGTERM).                               *)
(***************************************************************************)
EXTENDS Integers, Sequences, FiniteSets

CONSTANTS
  Messages,       \* NATS messages that may be delivered to this host
  MaxConcurrent,  \* MAX_CONCURRENT_INVOCATIONS: slots and tracked records
  QueueCapacity,  \* QUEUE_CAPACITY of the dispatch channel
  MaxChanges      \* bound on the number of sends on the sync watch channel

ASSUME MessagesFinite == IsFiniteSet(Messages)
ASSUME LimitsPositive == /\ MaxConcurrent \in Nat \ {0}
                         /\ QueueCapacity \in Nat \ {0}
                         /\ MaxChanges \in Nat

VARIABLES
  pc,         \* where the supervisor task stands
  queue,      \* messages in the mpsc channel
  intake,     \* the subscription manager: idle, reserved (owns a channel permit), exited
  shutdown,   \* the shutdown broadcast has been sent
  synced,     \* value in the sync watch channel
  version,    \* version of that channel: every send bumps it
  seen,       \* version the supervisor's receiver has marked as seen
  syncOpen,   \* the sync sender (and the topics sender, same task) is alive
  stage,      \* life cycle of each message
  born,       \* sync version when the message entered the channel
  cancelled,  \* Invocation.cancelled
  expired,    \* the invocation's deadline has passed
  revoked,    \* authority_revoked of an execution, abort requested of a reply
  result,     \* what the execution task computed
  slots,      \* permits left in the semaphore
  work,       \* WorkCounts gauges
  alarms      \* the error counters of DispatchMetrics that have been incremented

watch == <<synced, version, seen, syncOpen>>
flags == <<born, cancelled, expired, revoked, result>>
metrics == <<work, alarms>>
vars == <<pc, queue, intake, shutdown, watch, stage, flags, slots, metrics>>

ExecutionStages == {"guest", "cleanup", "exited", "released", "executed"}
ReplyStages == {"publishing", "sent", "unsent"}
JobStages == ExecutionStages \cup ReplyStages
Stages == {"idle", "queued", "held", "popped", "dropped", "reaped"} \cup JobStages
Loop == {"select", "take", "received", "permit", "acquire", "admit"}
Stopped == {"stopping", "draining", "done"}
Results == {"none", "ok", "error", "panic", "cancelled", "timeout"}
Gauges == {"queued", "tracked", "uncollected", "running", "terminating"}
Alarms == {"accounting", "after_stop", "queued", "execution", "tracked"}

In(S) == {m \in Messages : stage[m] \in S}
Jobs == In(JobStages)

TypeOK ==
  /\ pc \in Loop \cup Stopped \cup {"revoke", "revoke_stop"}
  /\ queue \in Seq(Messages)
  /\ intake \in {"idle", "reserved", "exited"}
  /\ shutdown \in BOOLEAN
  /\ synced \in BOOLEAN /\ version \in 0..MaxChanges /\ seen \in 0..version
  /\ syncOpen \in BOOLEAN
  /\ stage \in [Messages -> Stages]
  /\ born \in [Messages -> 0..MaxChanges]
  /\ cancelled \in [Messages -> BOOLEAN]
  /\ expired \in [Messages -> BOOLEAN]
  /\ revoked \in [Messages -> BOOLEAN]
  /\ result \in [Messages -> Results]
  /\ slots \in 0..MaxConcurrent
  /\ work \in [Gauges -> Nat]
  /\ alarms \subseteq Alarms

Init ==
  /\ pc = "select" /\ queue = <<>> /\ intake = "idle" /\ shutdown = FALSE
  /\ synced = FALSE /\ version = 0 /\ seen = 0 /\ syncOpen = TRUE
  /\ stage = [m \in Messages |-> "idle"]
  /\ born = [m \in Messages |-> 0]
  /\ cancelled = [m \in Messages |-> FALSE]
  /\ expired = [m \in Messages |-> FALSE]
  /\ revoked = [m \in Messages |-> FALSE]
  /\ result = [m \in Messages |-> "none"]
  /\ slots = MaxConcurrent
  /\ work = [g \in Gauges |-> 0]
  /\ alarms = {}

-----------------------------------------------------------------------------
(* Lifetime accounting (dispatch_metrics.rs).  A delta is the change one   *)
(* step makes to the gauges: a decrement below zero leaves the gauge alone *)
(* and counts an accounting error; an occupancy above its limit when work  *)
(* is added counts a capacity breach of that kind; a task record opened    *)
(* after the stop counts a late admission.                                 *)

Zero == [g \in Gauges |-> 0]

Occupancy(w, kind) ==
  IF kind = "execution" THEN w["running"] + w["terminating"] ELSE w[kind]
Limit(kind) == IF kind = "queued" THEN QueueCapacity + 1 ELSE MaxConcurrent

Decrement(delta) ==
  [g \in Gauges |-> IF work[g] + delta[g] < 0 THEN work[g] ELSE work[g] + delta[g]]

Account(delta, added) ==
  /\ work' = Decrement(delta)
  /\ alarms' = alarms
       \cup {a \in {"accounting"} : \E g \in Gauges : work[g] + delta[g] < 0}
       \cup {kind \in added : Occupancy(Decrement(delta), kind) > Limit(kind)}
       \cup {a \in {"after_stop"} : "tracked" \in added /\ pc \in Stopped}

-----------------------------------------------------------------------------
(* Shared pieces of the supervisor's handlers.                             *)

\* Invocation.cancel on every member of S; a live execution among them
\* moves from running to terminating.
Live(m) == stage[m] \in {"guest", "cleanup"}
Cancel(S) == cancelled' = [m \in Messages |-> cancelled[m] \/ m \in S]
\* Mutant: an execution cancelled a second time is counted again.
TerminatingAgain(S) ==
  LET n == Cardinality({m \in S : Live(m)})
  IN  [Zero EXCEPT !["running"] = -n, !["terminating"] = n]
Terminating(S) ==
  LET n == Cardinality({m \in S : Live(m) /\ ~cancelled[m]})
  IN  [Zero EXCEPT !["running"] = -n, !["terminating"] = n]

\* The members of S end in stage `to`.  That drops the last reference to
\* their invocations, so their flags are forgotten (and a cancel() just
\* before, which most callers make, has no reader).
End(S, to) ==
  /\ stage' = [m \in Messages |-> IF m \in S THEN to ELSE stage[m]]
  /\ born' = [m \in Messages |-> IF m \in S THEN 0 ELSE born[m]]
  /\ cancelled' = [m \in Messages |-> m \notin S /\ cancelled[m]]
  /\ expired' = [m \in Messages |-> m \notin S /\ expired[m]]
  /\ revoked' = [m \in Messages |-> m \notin S /\ revoked[m]]
  /\ result' = [m \in Messages |-> IF m \in S THEN "none" ELSE result[m]]

\* The queue record of every member of S is dropped with the message.
Leave(S) == [Zero EXCEPT !["queued"] = -Cardinality(S)]
Drop(S) == End(S, "dropped") /\ Account(Leave(S), {})

\* Mutant: a reply that could not be sent is never collected.
ReadyWhenSent(m) == stage[m] \in {"executed", "sent"}
Ready(m) == stage[m] \in {"executed", "sent", "unsent"}   \* join_next would return it
ChangedReady == version # seen \/ ~syncOpen        \* synced_rx.changed() is ready
RecvReady ==
  /\ Cardinality(Jobs) < MaxConcurrent
  /\ queue # <<>> \/ intake = "exited"

\* Mutant: executions are revoked but not told.
RevokeWithoutCancel ==
  /\ seen' = version
  /\ pc' = IF version # seen THEN "revoke" ELSE "revoke_stop"
  /\ revoked' = [m \in Messages |-> revoked[m] \/ stage[m] \in JobStages]
  /\ Cancel(In({"held"}))
  /\ UNCHANGED <<queue, intake, shutdown, synced, version, syncOpen, stage,
                 born, expired, result, slots, metrics>>

\* synced_rx.changed() fired: executions are revoked and cancelled, replies
\* aborted, a message in hand is cancelled; the channel is emptied step by
\* step in the "revoke" states.
CancelUntrustedWork ==
  /\ seen' = version
  /\ pc' = IF version # seen THEN "revoke" ELSE "revoke_stop"
  /\ revoked' = [m \in Messages |-> revoked[m] \/ stage[m] \in JobStages]
  /\ Cancel(In(ExecutionStages \cup {"held"}))
  /\ Account(Terminating(In(ExecutionStages)), {})
  /\ UNCHANGED <<queue, intake, shutdown, synced, version, syncOpen, stage,
                 born, expired, result, slots>>

\* authority_revoked: the completion is dropped, whatever it holds.  Mutant: only
\* a completion that noticed its cancellation is.
DiscardedIfCancelled(m) == revoked[m] /\ result[m] = "cancelled"
Discarded(m) == revoked[m]

\* collect: a revoked execution is reaped without a reply, any other one
\* continues as a reply task under the same record; a reply is reaped.
Collect(m) ==
  /\ Ready(m)
  /\ \/ /\ stage[m] = "executed" /\ ~Discarded(m)
        /\ stage' = [stage EXCEPT ![m] = "publishing"]
        /\ UNCHANGED <<flags, metrics>>
     \/ /\ stage[m] = "executed" /\ Discarded(m)
        /\ End({m}, "reaped")
        /\ Account([Zero EXCEPT !["tracked"] = -1], {})
     \/ /\ stage[m] # "executed"
        /\ End({m}, "reaped")
        /\ Account([Zero EXCEPT !["tracked"] = -1, !["uncollected"] = -1], {})
  /\ UNCHANGED <<queue, intake, shutdown, watch, slots>>

-----------------------------------------------------------------------------
(* The dispatch loop.  A biased select is two states: the first polls      *)
(* shutdown and sync, the second takes the work that is ready once both    *)
(* were found pending, because either may fire between the two polls.      *)
(* In the second a finished task and a message (or permit) are taken in    *)
(* either order: the task may finish right after it was polled.            *)

SelectShutdown ==
  /\ pc = "select" /\ shutdown
  /\ pc' = "stopping"
  /\ UNCHANGED <<queue, intake, shutdown, watch, stage, flags, slots, metrics>>

SelectChanged == pc = "select" /\ ChangedReady /\ CancelUntrustedWork

SelectPending ==
  /\ pc = "select" /\ ~shutdown /\ ~ChangedReady
  /\ RecvReady \/ \E m \in Messages : Ready(m)
  /\ pc' = "take"
  /\ UNCHANGED <<queue, intake, shutdown, watch, stage, flags, slots, metrics>>

TakeJoin(m) == pc = "take" /\ pc' = "select" /\ Collect(m)

TakeMessage ==
  /\ pc = "take" /\ RecvReady /\ queue # <<>>
  /\ stage' = [stage EXCEPT ![Head(queue)] = "held"]
  /\ queue' = Tail(queue)
  /\ pc' = "received"
  /\ UNCHANGED <<intake, shutdown, watch, flags, slots, metrics>>

TakeClosed ==
  /\ pc = "take" /\ RecvReady /\ queue = <<>>
  /\ pc' = "stopping"
  /\ UNCHANGED <<queue, intake, shutdown, watch, stage, flags, slots, metrics>>

\* Mutant: no check; only a change seen later would stop the message.
CheckSkipped(m) ==
  /\ pc = "received" /\ stage[m] = "held"
  /\ pc' = "permit"
  /\ UNCHANGED <<queue, intake, shutdown, watch, stage, flags, slots, metrics>>

\* `if !*context.synced_rx.borrow()` right after a message was received.
CheckSynced(m) ==
  /\ pc = "received" /\ stage[m] = "held"
  /\ \/ /\ synced
        /\ pc' = "permit"
        /\ UNCHANGED <<stage, flags, metrics>>
     \/ /\ ~synced
        /\ pc' = "select"
        /\ Drop({m})
  /\ UNCHANGED <<queue, intake, shutdown, watch, slots>>

PermitShutdown(m) ==
  /\ pc = "permit" /\ stage[m] = "held" /\ shutdown
  /\ pc' = "stopping"
  /\ Drop({m})
  /\ UNCHANGED <<queue, intake, shutdown, watch, slots>>

PermitChanged == pc = "permit" /\ ChangedReady /\ CancelUntrustedWork

PermitPending(m) ==
  /\ pc = "permit" /\ stage[m] = "held" /\ ~shutdown /\ ~ChangedReady
  /\ slots > 0 \/ expired[m] \/ \E j \in Messages : Ready(j)
  /\ pc' = "acquire"
  /\ UNCHANGED <<queue, intake, shutdown, watch, stage, flags, slots, metrics>>

AcquireJoin(m) == pc = "acquire" /\ pc' = "permit" /\ Collect(m)

\* acquire_permit failed on the deadline: a 504 reply under a new record.
AcquireExpired(m) ==
  /\ pc = "acquire" /\ stage[m] = "held" /\ expired[m]
  /\ pc' = "select"
  /\ stage' = [stage EXCEPT ![m] = "publishing"]
  /\ result' = [result EXCEPT ![m] = "timeout"]
  /\ Cancel({m})
  /\ Account([Leave({m}) EXCEPT !["tracked"] = 1], {"tracked"})
  /\ UNCHANGED <<queue, intake, shutdown, watch, born, expired, revoked, slots>>

AcquirePermit(m) ==
  /\ pc = "acquire" /\ stage[m] = "held" /\ ~expired[m] /\ slots > 0
  /\ slots' = slots - 1
  /\ pc' = "admit"
  /\ UNCHANGED <<queue, intake, shutdown, watch, stage, flags, metrics>>

\* Unknown topic, module not loaded, or a poisoned registry: the permit and
\* the message are dropped.
AdmitMiss(m) ==
  /\ pc = "admit" /\ stage[m] = "held"
  /\ pc' = "select" /\ slots' = slots + 1
  /\ Drop({m})
  /\ UNCHANGED <<queue, intake, shutdown, watch>>

\* The sync value is checked once more before the execution is spawned.
Admissible == synced /\ version = seen /\ syncOpen

\* Mutant: the permit is not given back.
AdmitUntrustedLeak(m) ==
  /\ pc = "admit" /\ stage[m] = "held" /\ ~Admissible
  /\ pc' = "select"
  /\ Drop({m})
  /\ UNCHANGED <<queue, intake, shutdown, watch, slots>>

AdmitUntrusted(m) ==
  /\ pc = "admit" /\ stage[m] = "held" /\ ~Admissible
  /\ pc' = "select" /\ slots' = slots + 1
  /\ Drop({m})
  /\ UNCHANGED <<queue, intake, shutdown, watch>>

\* spawn_execution, with the check that start_execution makes.
Admit(m) ==
  /\ pc = "admit" /\ stage[m] = "held" /\ Admissible
  /\ pc' = "select"
  /\ stage' = [stage EXCEPT ![m] = "guest"]
  /\ cancelled' = [cancelled EXCEPT ![m] = @ \/ expired[m]]
  /\ Account([Leave({m}) EXCEPT !["tracked"] = 1,
                ![IF cancelled'[m] THEN "terminating" ELSE "running"] = 1],
             {"tracked", "execution"})
  /\ UNCHANGED <<queue, intake, shutdown, watch, born, expired, revoked, result, slots>>

-----------------------------------------------------------------------------
(* The channel-emptying loop of cancel_untrusted_work: try_recv frees a    *)
(* place in the channel before the message's queue record is dropped.      *)

Revoking == pc \in {"revoke", "revoke_stop"}

RevokePop ==
  /\ Revoking /\ In({"popped"}) = {} /\ queue # <<>>
  /\ stage' = [stage EXCEPT ![Head(queue)] = "popped"]
  /\ queue' = Tail(queue)
  /\ UNCHANGED <<pc, intake, shutdown, watch, flags, slots, metrics>>

RevokeDrop(m) ==
  /\ Revoking /\ stage[m] = "popped"
  /\ Drop({m})
  /\ UNCHANGED <<pc, queue, intake, shutdown, watch, slots>>

\* Mutant: one message is rejected instead of all of them.
RevokeDoneEarly ==
  /\ Revoking /\ In({"popped"}) = {}
  /\ pc' = IF pc = "revoke" THEN "select" ELSE "stopping"
  /\ Drop(In({"held"}))
  /\ UNCHANGED <<queue, intake, shutdown, watch, slots>>

RevokeDone ==
  /\ Revoking /\ In({"popped"}) = {} /\ queue = <<>>
  /\ pc' = IF pc = "revoke" THEN "select" ELSE "stopping"
  /\ Drop(In({"held"}))
  /\ UNCHANGED <<queue, intake, shutdown, watch, slots>>

(* stop_and_drain: the channel is closed on entry; the intake task is      *)
(* awaited before what it left in the channel is dropped.                  *)

DrainQueue ==
  /\ pc = "stopping" /\ intake = "exited"
  /\ pc' = "draining" /\ queue' = <<>>
  /\ Drop(In({"queued"}))
  /\ UNCHANGED <<intake, shutdown, watch, slots>>

DrainJoin(m) == pc = "draining" /\ UNCHANGED pc /\ Collect(m)

DrainFinished ==
  /\ pc = "draining" /\ Jobs = {}
  /\ pc' = "done"
  /\ UNCHANGED <<queue, intake, shutdown, watch, stage, flags, slots, metrics>>

-----------------------------------------------------------------------------
(* The intake task (manage_nats_subscriptions): it reserves a place in the *)
(* channel before it takes a message, and exits on shutdown, on a closed   *)
(* channel or when the configuration task is gone.                         *)

Reserve ==
  /\ intake = "idle" /\ pc \notin Stopped /\ Len(queue) < QueueCapacity
  /\ intake' = "reserved"
  /\ UNCHANGED <<pc, queue, shutdown, watch, stage, flags, slots, metrics>>

Forward(m) ==
  /\ intake = "reserved" /\ stage[m] = "idle"
  /\ intake' = "idle"
  /\ queue' = Append(queue, m)
  /\ stage' = [stage EXCEPT ![m] = "queued"]
  /\ born' = [born EXCEPT ![m] = version]
  /\ Account([Zero EXCEPT !["queued"] = 1], {"queued"})
  /\ UNCHANGED <<pc, shutdown, watch, cancelled, expired, revoked, result, slots>>

\* Mutant: waiting for room in the channel is not interrupted by shutdown.
IntakeExitOnClose ==
  /\ intake # "exited" /\ ~syncOpen
  /\ intake' = "exited"
  /\ UNCHANGED <<pc, queue, shutdown, watch, stage, flags, slots, metrics>>

IntakeExit ==
  /\ intake # "exited"
  /\ shutdown \/ pc \in Stopped \/ ~syncOpen
  /\ intake' = "exited"
  /\ UNCHANGED <<pc, queue, shutdown, watch, stage, flags, slots, metrics>>

-----------------------------------------------------------------------------
(* The blocking thread of an execution (BlockingInvocation::run).          *)

\* The guest returned or panicked; a panic cancels the invocation.
GuestExit(m) ==
  /\ stage[m] = "guest"
  /\ stage' = [stage EXCEPT ![m] = "cleanup"]
  /\ \E r \in {"ok", "error", "panic"} :
       /\ result' = [result EXCEPT ![m] = r]
       /\ IF r = "panic" THEN Cancel({m}) /\ Account(Terminating({m}), {})
                         ELSE UNCHANGED <<cancelled, metrics>>
  /\ UNCHANGED <<pc, queue, intake, shutdown, watch, born, expired, revoked, slots>>

\* A host call, the epoch yield or a backend job checks the deadline and cancels.
DeadlineNoticed(m) ==
  /\ Live(m) /\ expired[m] /\ ~cancelled[m]
  /\ Cancel({m})
  /\ Account(Terminating({m}), {})
  /\ UNCHANGED <<pc, queue, intake, shutdown, watch, stage, born, expired, revoked, result, slots>>

\* Backend cleanup finished; a cleanup failure replaces a returned result,
\* the deadline is checked, and the execution's accounting ends.
CleanupExit(m) ==
  /\ stage[m] = "cleanup"
  /\ stage' = [stage EXCEPT ![m] = "exited"]
  /\ cancelled' = [cancelled EXCEPT ![m] = @ \/ expired[m]]
  /\ \/ UNCHANGED result
     \/ result[m] = "ok" /\ result' = [result EXCEPT ![m] = "error"]
  /\ Account([Zero EXCEPT ![IF cancelled[m] THEN "terminating" ELSE "running"] = -1], {})
  /\ UNCHANGED <<pc, queue, intake, shutdown, watch, born, expired, revoked, slots>>

\* The permit is dropped after the accounting.
ReleasePermit(m) ==
  /\ stage[m] = "exited"
  /\ stage' = [stage EXCEPT ![m] = "released"]
  /\ slots' = slots + 1
  /\ UNCHANGED <<pc, queue, intake, shutdown, watch, flags, metrics>>

\* The completion the task returns; a panic resumes and returns none.
Complete(m) ==
  /\ stage[m] = "released"
  /\ stage' = [stage EXCEPT ![m] = "executed"]
  /\ cancelled' = [cancelled EXCEPT ![m] = @ \/ expired[m]]
  /\ result' = [result EXCEPT ![m] =
       CASE @ = "panic" -> "panic"
         [] @ # "panic" /\ expired[m] -> "timeout"
         [] @ # "panic" /\ ~expired[m] /\ cancelled[m] -> "cancelled"
         [] OTHER -> @]
  /\ UNCHANGED <<pc, queue, intake, shutdown, watch, born, expired, revoked, slots, metrics>>

\* The reply task: publication succeeds, or it ends without sending (no reply
\* subject, no client, an error, the two-second timeout, or the abort).  An
\* abort that arrives during the publishing poll does not stop it.
ReplyExit(m) ==
  /\ stage[m] = "publishing"
  /\ \E s \in {"sent", "unsent"} : stage' = [stage EXCEPT ![m] = s]
  /\ Account([Zero EXCEPT !["uncollected"] = 1], {})
  /\ UNCHANGED <<pc, queue, intake, shutdown, watch, flags, slots>>

-----------------------------------------------------------------------------
(* The outside world.                                                      *)

\* The configuration loop sends on the sync channel; an equal value bumps
\* the version too.
SyncSend(v) ==
  /\ syncOpen /\ version < MaxChanges
  /\ synced' = v /\ version' = version + 1
  /\ UNCHANGED <<pc, queue, intake, shutdown, seen, syncOpen, stage, flags, slots, metrics>>

\* The configuration task died, dropping its senders.
SyncDrop ==
  /\ syncOpen /\ syncOpen' = FALSE
  /\ UNCHANGED <<pc, queue, intake, shutdown, synced, version, seen, stage, flags, slots, metrics>>

Sigterm ==
  /\ ~shutdown /\ shutdown' = TRUE
  /\ UNCHANGED <<pc, queue, intake, watch, stage, flags, slots, metrics>>

Expire(m) ==
  /\ stage[m] \in {"queued", "held", "guest", "cleanup", "exited", "released"}
  /\ ~expired[m] /\ expired' = [expired EXCEPT ![m] = TRUE]
  /\ UNCHANGED <<pc, queue, intake, shutdown, watch, stage, born, cancelled,
                 revoked, result, slots, metrics>>

Terminated == pc = "done" /\ UNCHANGED vars

-----------------------------------------------------------------------------
Supervisor ==
  \/ SelectShutdown \/ SelectChanged \/ SelectPending
  \/ TakeMessage \/ TakeClosed \/ PermitChanged
  \/ RevokePop \/ RevokeDone \/ DrainQueue \/ DrainFinished
  \/ \E m \in Messages :
       \/ TakeJoin(m) \/ CheckSynced(m)
       \/ PermitShutdown(m) \/ PermitPending(m)
       \/ AcquireJoin(m) \/ AcquireExpired(m) \/ AcquirePermit(m)
       \/ AdmitMiss(m) \/ AdmitUntrusted(m) \/ Admit(m)
       \/ RevokeDrop(m) \/ DrainJoin(m)

Intake == Reserve \/ IntakeExit \/ \E m \in Messages : Forward(m)

Task(m) ==
  \/ GuestExit(m) \/ DeadlineNoticed(m) \/ CleanupExit(m)
  \/ ReleasePermit(m) \/ Complete(m) \/ ReplyExit(m)

World ==
  \/ SyncDrop \/ Sigterm
  \/ \E v \in BOOLEAN : SyncSend(v)
  \/ \E m \in Messages : Expire(m)

Next ==
  \/ Supervisor \/ Intake \/ World \/ Terminated
  \/ \E m \in Messages : Task(m)

Spec == Init /\ [][Next]_vars

\* The runtime keeps polling the supervisor and the intake task.  Guests take as
\* long as they like.
Fairness == WF_vars(Supervisor) /\ WF_vars(IntakeExit)

FairSpec == Spec /\ Fairness

\* Every execution and reply ends: guests by the epoch-checked deadline, cleanup
\* by its bounded waits, replies by their two-second timeout.
TasksEnd == \A m \in Messages : WF_vars(Task(m))

-----------------------------------------------------------------------------
(* Properties.                                                             *)

Backlog == In({"queued", "held", "popped"})
Holders == In({"guest", "cleanup", "exited"})
           \cup (IF pc = "admit" THEN In({"held"}) ELSE {})

\* The gauges dispatch_metrics.rs reports are the real lifetimes: backlog,
\* records not yet reaped, replies awaiting collection, executions before and
\* after cancellation.  README: "Queue, task, and execution ownership update
\* the counts when their lifetimes end, including panic and cancellation paths."
\* And no counter the host's alerts watch is raised by the dispatch loop, except
\* the queue-capacity one: after a sync change the intake task refills the channel
\* while the loop, which may hold a message, is emptying it.
AccountingBalanced ==
  /\ TypeOK
  /\ work["queued"] = Cardinality(Backlog)
  /\ work["tracked"] = Cardinality(Jobs)
  /\ work["uncollected"] = Cardinality(In({"sent", "unsent"}))
  /\ work["running"] = Cardinality({m \in Messages : Live(m) /\ ~cancelled[m]})
  /\ work["terminating"] = Cardinality({m \in Messages : Live(m) /\ cancelled[m]})
  /\ alarms \subseteq {"queued"}

\* An execution slot is held from admission through guest exit and backend
\* cleanup, and never leaks: the semaphore's free permits and the holders
\* always add up to the limit.
SlotsConserved == slots + Cardinality(Holders) = MaxConcurrent

\* A message taken from the channel always finds a free slot: the tracked-task
\* limit that guards recv() also bounds the permit holders, so the loop never
\* waits for a permit while it holds a message.
PermitWithoutWaiting == pc \in {"permit", "acquire"} => slots > 0

\* Nothing outlives its authority: once the supervisor has seen a sync change
\* and finished revoking, every queued or held message and every job that is
\* not revoked entered the host after that change.
OutlivesNoAuthority ==
  \A m \in Messages :
    stage[m] \in JobStages \cup (IF Revoking THEN {} ELSE {"queued", "held"})
      => revoked[m] \/ born[m] >= seen

\* Work that has not been revoked exists only in sync, unless a change is
\* still unseen.
WorkOnlyInSync ==
  version = seen /\ syncOpen =>
    synced \/ \A m \in Jobs : revoked[m]

\* SIGTERM leads to a finished drain that leaves nothing behind, whatever the other
\* tasks do meanwhile: no message in the channel, no job, every slot free and every
\* gauge at zero.
ShutdownDrains ==
  TasksEnd =>
    (shutdown ~> /\ pc = "done" /\ Backlog = {} /\ Jobs = {} /\ slots = MaxConcurrent
                 /\ \A g \in Gauges : work[g] = 0)

\* Every message accepted into the channel leaves the backlog: it is admitted,
\* answered with a timeout, or dropped.
BacklogLeaves ==
  TasksEnd => \A m \in Messages : stage[m] = "queued" ~> m \notin Backlog

\* While the host is dispatching, a sync change the supervisor has not seen
\* reaches every guest that is running, by the supervisor's own doing.
LossReachesGuests ==
  \A m \in Messages :
    stage[m] = "guest" /\ version # seen
      ~> cancelled[m] \/ stage[m] # "guest" \/ pc \in Stopped
=============================================================================
