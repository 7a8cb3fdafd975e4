------------------------- MODULE ModulePreparation -------------------------
(***************************************************************************)
(* Module preparation on the execution host: the configuration task evicts *)
(* modules and submits loads, each load fetches, compiles on a blocking    *)
(* thread that cannot be stopped, registers its component and writes the   *)
(* cache, all under one deadline and two semaphores; with the lifetime     *)
(* accounting of preparation_metrics.rs.                                   *)
(*                                                                         *)
(* Actors: the configuration task, one async task per load, one blocking   *)
(* compiler thread per load, the clock.                                    *)
(***************************************************************************)
EXTENDS Integers, FiniteSets, FiniteSetsExt

CONSTANTS
  Functions,       \* functions the configuration may name
  MaxLoads,        \* bound on submissions
  MaxRecords,      \* MAX_QUEUED_PREPARATIONS + 1 records
  MaxComponents,   \* MAX_RETAINED_COMPONENTS
  MaxNativeBytes,  \* MAX_RETAINED_NATIVE_BYTES
  Sizes            \* native sizes a compilation can produce

ASSUME PreparationLimits ==
  /\ {MaxLoads, MaxRecords, MaxComponents, MaxNativeBytes} \cup Sizes \subseteq Nat \ {0}
  /\ IsFiniteSet(Functions) /\ Functions # {}

Loads == 1..MaxLoads

VARIABLES
  caller,       \* the configuration task: idle, or waiting inside submit_load
  submitted,    \* loads submitted so far, numbered in order
  fn,           \* the function of each load
  task,         \* where the load stands, blocking thread and drops included
  detached,     \* load_admitted returned at the deadline
  expired,      \* the load's deadline has passed
  state,        \* PreparationState of each load
  alarms,       \* capacity_breaches and accounting_errors that were counted
  records,      \* free permits of the record semaphore
  active,       \* free permits of the active semaphore
  components,   \* RegistryState.components: the load registered, 0 for none
  size,         \* native size of what each load compiled
  native_bytes, \* RegistryState.native_bytes
  desired,      \* history: the last load the configuration asked for, 0 if deleted
  unfenced      \* history: an update found an older load that could still register

permits == <<records, active>>
registry == <<components, size, native_bytes>>
history == <<desired, unfenced>>
preparationVars == <<caller, submitted, fn, task, detached, expired, state, alarms,
                     permits, registry, history>>

Positions == {"none", "acquire", "fetch", "spawned", "compiling", "compiled",
              "put", "drop", "drop_active", "drop_record", "done"}
WorkState == {"none", "queued", "preparing", "compiling", "terminating"}
PreparationOutcome == {"success", "error", "timeout", "cancelled", "panic"}

PreparationState ==
  [stage : WorkState, started : BOOLEAN,
   cancellation : {"none", "timeout", "cancelled"}, outcome : PreparationOutcome]

PreparationTypeOK ==
  /\ caller \in {"idle", "waiting"} /\ submitted \in 0..MaxLoads
  /\ fn \in [Loads -> Functions] /\ task \in [Loads -> Positions]
  /\ detached \in [Loads -> BOOLEAN] /\ expired \in [Loads -> BOOLEAN]
  /\ state \in [Loads -> PreparationState]
  /\ records \in 0..MaxRecords /\ active \in 0..1
  /\ components \in [Functions -> 0..submitted]
  /\ size \in [Loads -> {0} \cup Sizes] /\ native_bytes \in 0..MaxNativeBytes
  /\ desired \in [Functions -> 0..submitted] /\ unfenced \in [Functions -> BOOLEAN]

Idle == [stage |-> "none", started |-> FALSE, cancellation |-> "none", outcome |-> "cancelled"]

PreparationInit ==
  /\ caller = "idle" /\ submitted = 0
  /\ fn = [l \in Loads |-> CHOOSE f \in Functions : TRUE]   \* set when submitted
  /\ task = [l \in Loads |-> "none"]
  /\ detached = [l \in Loads |-> FALSE] /\ expired = [l \in Loads |-> FALSE]
  /\ state = [l \in Loads |-> Idle] /\ alarms = {}
  /\ records = MaxRecords /\ active = 1
  /\ components = [f \in Functions |-> 0] /\ size = [l \in Loads |-> 0]
  /\ native_bytes = 0
  /\ desired = [f \in Functions |-> 0] /\ unfenced = [f \in Functions |-> FALSE]

-----------------------------------------------------------------------------
(* Lifetime accounting (preparation_metrics.rs).  The gauges are the       *)
(* numbers of loads per stage; a step that adds to a kind compares it with *)
(* its limit, and a step that finds an impossible stage counts an error.   *)

Occupancy(st, kind) ==
  LET In(S) == Cardinality({l \in Loads : st[l].stage \in S})
  IN CASE kind = "queued" -> In({"queued"})
       [] kind = "active" -> In({"preparing", "compiling", "terminating"})
       [] kind = "tracked" -> In(WorkState \ {"none"})
       [] kind = "compiling" -> Cardinality({l \in Loads : st[l].started})

Limit(kind) == IF kind \in {"queued", "tracked"} THEN MaxRecords ELSE 1

\* Load l's accounting becomes p; the kinds in added are checked, and ok says
\* whether the stage was the one the call expects.
Report(l, p, added, ok) ==
  /\ state' = [state EXCEPT ![l] = p]
  /\ alarms' = alarms \cup {k \in added : Occupancy([state EXCEPT ![l] = p], k) > Limit(k)}
       \cup IF ok THEN {} ELSE {"accounting"}

\* PreparationControl::terminate: only the first call counts, and only work
\* past the queue changes stage.
Terminate(p, reason) ==
  IF p.stage = "none" \/ p.cancellation # "none" THEN p
  ELSE [p EXCEPT !.cancellation = reason,
                 !.stage = IF @ \in {"preparing", "compiling"} THEN "terminating" ELSE @]

TerminateIf(p, late) == IF late THEN Terminate(p, "timeout") ELSE p

\* PreparationWork::compiling.
Compiling(p) ==
  [p EXCEPT !.started = TRUE,
            !.stage = IF p.cancellation # "none" THEN "terminating" ELSE "compiling"]

\* PreparationWork::compilation_finished.
CompilationFinished(p) ==
  [p EXCEPT !.started = FALSE, !.stage = IF @ = "compiling" THEN "preparing" ELSE @]

\* Dropping PreparationWork ends whatever is open and counts the outcome.
Ended(p) ==
  [p EXCEPT !.stage = "none", !.started = FALSE,
            !.outcome = IF p.cancellation # "none" THEN p.cancellation ELSE @]

-----------------------------------------------------------------------------
(* The configuration task.                                                 *)

\* Loads of f whose result can still reach the registry.
InFlight(f) ==
  {l \in 1..submitted : /\ fn[l] = f /\ ~detached[l]
                        /\ task[l] \in {"acquire", "fetch", "spawned", "compiling", "compiled"}}

\* ModuleRegistry::remove.
RemoveComponent(f) ==
  /\ components' = [components EXCEPT ![f] = 0]
  /\ native_bytes' = native_bytes - (IF components[f] = 0 THEN 0 ELSE size[components[f]])
  /\ UNCHANGED size

\* An update deletes the function.
Delete(f) ==
  /\ caller = "idle" /\ desired[f] # 0
  /\ RemoveComponent(f)
  /\ desired' = [desired EXCEPT ![f] = 0]
  /\ unfenced' = [unfenced EXCEPT ![f] = InFlight(f) # {}]
  /\ UNCHANGED <<caller, submitted, fn, task, detached, expired, state, alarms, permits>>

\* The configuration names a new module for f and the task enters submit_load.
\* An incremental update evicts the old component first; a full snapshot
\* leaves it where the topic is unchanged.
Update(f, evict) ==
  LET l == submitted + 1 IN
  /\ caller = "idle" /\ submitted < MaxLoads
  /\ IF evict THEN RemoveComponent(f) ELSE UNCHANGED registry
  /\ caller' = "waiting" /\ submitted' = l
  /\ fn' = [fn EXCEPT ![l] = f]
  /\ desired' = [desired EXCEPT ![f] = l]
  /\ unfenced' = [unfenced EXCEPT ![f] = InFlight(f) # {} \/ (~evict /\ components[f] # 0)]
  /\ UNCHANGED <<task, detached, expired, state, alarms, permits>>

\* A record is free: the submission is admitted and its task spawned.
Admitted ==
  LET l == submitted IN
  /\ caller = "waiting" /\ records > 0
  /\ caller' = "idle" /\ records' = records - 1
  /\ task' = [task EXCEPT ![l] = "acquire"]
  /\ Report(l, [Idle EXCEPT !.stage = "queued"], {"queued", "tracked"}, TRUE)
  /\ UNCHANGED <<submitted, fn, detached, expired, active, registry, history>>

\* The capacity deadline passes, or the sync session ends while waiting: the
\* load is never admitted, and the next snapshot asks for the function again.
NotAdmitted ==
  /\ caller = "waiting" /\ caller' = "idle"
  /\ UNCHANGED <<submitted, fn, task, detached, expired, state, alarms,
                 permits, registry, history>>

-----------------------------------------------------------------------------
(* One load: prepare on its task and its blocking thread, registration,    *)
(* cache write, and the drop of PreparationPermits in field order.         *)

Step(l, from, to) == task[l] = from /\ task' = [task EXCEPT ![l] = to]

NoSubmission == UNCHANGED <<caller, submitted, fn>>

AcquireActive(l) ==
  /\ active > 0 /\ Step(l, "acquire", "fetch")
  /\ active' = active - 1
  /\ Report(l, [state[l] EXCEPT !.stage = "preparing", !.outcome = "error"], {"active"},
            state[l].stage = "queued")
  /\ NoSubmission /\ UNCHANGED <<detached, expired, records, registry, history>>

\* Manifest, cache lookup, registry pull and digest check; the module
\* ArtifactCache has the detail.
Fetch(l, ok) ==
  /\ Step(l, "fetch", IF ok THEN "spawned" ELSE "drop")
  /\ NoSubmission /\ UNCHANGED <<detached, expired, state, alarms, permits, registry, history>>

\* The blocking thread starts, on time or not.
StartCompile(l) ==
  LET p == TerminateIf(state[l], expired[l]) IN
  /\ Step(l, "spawned", "compiling")
  /\ Report(l, Compiling(p), {"active", "compiling"},
            p.stage = "preparing" \/ (p.stage = "terminating" /\ p.cancellation # "none"))
  /\ NoSubmission /\ UNCHANGED <<detached, expired, permits, registry, history>>

\* Mutant: the deadline is not looked at again once the compiler returns, and
\* the detached result is registered by the thread itself.
FinishCompileRegisters(l, n) ==
  /\ Step(l, "compiling", "drop")
  /\ n \in 1..MaxNativeBytes
  /\ size' = [size EXCEPT ![l] = n]
  /\ components' = [components EXCEPT ![fn[l]] = l]
  /\ UNCHANGED native_bytes
  /\ Report(l, CompilationFinished(state[l]), {}, state[l].started)
  /\ NoSubmission /\ UNCHANGED <<detached, expired, permits, history>>

\* The compiler returns a component of n bytes, or an error (n = 0).  Nobody
\* collects the result of a detached load: it is dropped with its permits.
FinishCompile(l, n) ==
  LET p == CompilationFinished(TerminateIf(state[l], expired[l])) IN
  /\ Step(l, "compiling", IF n = 0 \/ detached[l] THEN "drop" ELSE "compiled")
  /\ n <= MaxNativeBytes
  /\ size' = [size EXCEPT ![l] = n]
  /\ Report(l, IF n = 0 THEN p ELSE [p EXCEPT !.outcome = "cancelled"], {}, state[l].started)
  /\ NoSubmission /\ UNCHANGED <<detached, expired, permits, components, native_bytes, history>>

CompilePanics(l) ==
  /\ Step(l, "compiling", "drop")
  /\ state' = [state EXCEPT ![l].outcome = "panic"]
  /\ NoSubmission /\ UNCHANGED <<detached, expired, alarms, permits, registry, history>>

\* What the registry would hold with load l's component in it.
Retained(l) ==
  native_bytes + size[l] - (IF components[fn[l]] = 0 THEN 0 ELSE size[components[fn[l]]])

Fits(l) ==
  /\ components[fn[l]] # 0 \/ Cardinality({f \in Functions : components[f] # 0}) < MaxComponents
  /\ Retained(l) <= MaxNativeBytes

\* The timer of the select may lag the clock, so a result can still be
\* collected late: the deadline is compared again under the registry lock.
Register(l, miss) ==
  /\ ~expired[l] /\ Fits(l)
  /\ Step(l, "compiled", IF miss THEN "put" ELSE "drop")
  /\ components' = [components EXCEPT ![fn[l]] = l]
  /\ native_bytes' = Retained(l)
  /\ unfenced' = [unfenced EXCEPT ![fn[l]] = @ /\ ~(desired[fn[l]] = l /\ InFlight(fn[l]) = {l})]
  /\ state' = [state EXCEPT ![l].outcome = IF miss THEN @ ELSE "success"]
  /\ NoSubmission /\ UNCHANGED <<detached, expired, alarms, permits, size, desired>>

NotRegistered(l) ==
  /\ expired[l] \/ ~Fits(l)
  /\ Step(l, "compiled", "drop")
  /\ state' = [state EXCEPT ![l] = [TerminateIf(@, expired[l]) EXCEPT !.outcome = "error"]]
  /\ NoSubmission /\ UNCHANGED <<detached, expired, alarms, permits, registry, history>>

\* The cache write ends, whether it worked, failed or met the deadline.
PutDone(l) ==
  /\ Step(l, "put", "drop")
  /\ state' = [state EXCEPT ![l].outcome = "success"]
  /\ NoSubmission /\ UNCHANGED <<detached, expired, alarms, permits, registry, history>>

\* Mutant: the select does not cover the fetch.
DeadlineFiresAfterFetch(l) ==
  /\ expired[l] /\ ~detached[l]
  /\ task[l] \in {"acquire", "spawned", "compiling", "compiled"}
  /\ task' = [task EXCEPT ![l] = IF @ \in {"spawned", "compiling"} THEN @ ELSE "drop"]
  /\ detached' = [detached EXCEPT ![l] = TRUE]
  /\ Report(l, Terminate(state[l], "timeout"), {"active"}, TRUE)
  /\ NoSubmission /\ UNCHANGED <<expired, permits, registry, history>>

\* load_admitted's select sees the deadline.  Dropping the future drops the
\* permits it owns; once they moved to the blocking thread they stay there.
DeadlineFires(l) ==
  /\ expired[l] /\ ~detached[l]
  /\ task[l] \in {"acquire", "fetch", "spawned", "compiling", "compiled"}
  /\ task' = [task EXCEPT ![l] = IF @ \in {"spawned", "compiling"} THEN @ ELSE "drop"]
  /\ detached' = [detached EXCEPT ![l] = TRUE]
  /\ Report(l, Terminate(state[l], "timeout"), {"active"}, TRUE)
  /\ NoSubmission /\ UNCHANGED <<expired, permits, registry, history>>

\* Mutant: the active permit returns while the accounting still has the load.
EndWorkAfterActive(l) ==
  /\ Step(l, "drop", "drop_record")
  /\ active' = active + (IF state[l].stage = "queued" THEN 0 ELSE 1)
  /\ NoSubmission /\ UNCHANGED <<detached, expired, state, alarms, records, registry, history>>

\* Drop order: the accounting, then the permits.
EndWork(l) ==
  /\ Step(l, "drop", IF state[l].stage = "queued" THEN "drop_record" ELSE "drop_active")
  /\ state' = [state EXCEPT ![l] = Ended(@)]
  /\ NoSubmission /\ UNCHANGED <<detached, expired, alarms, permits, registry, history>>

\* The permits return; what is only known of a load that is not registered is
\* forgotten with it.
ReleasePermits(l) ==
  /\ task[l] \in {"drop_active", "drop_record"}
  /\ task' = [task EXCEPT ![l] = "done"]
  /\ active' = active + (IF task[l] = "drop_active" THEN 1 ELSE 0)
  /\ records' = records + 1
  /\ IF components[fn[l]] = l THEN UNCHANGED <<detached, expired, state, size>>
     ELSE /\ detached' = [detached EXCEPT ![l] = FALSE]
          /\ expired' = [expired EXCEPT ![l] = FALSE]
          /\ state' = [state EXCEPT ![l] = Idle]
          /\ size' = [size EXCEPT ![l] = 0]
  /\ NoSubmission /\ UNCHANGED <<alarms, components, native_bytes, history>>

\* The clock passes load l's deadline.
Expire(l) ==
  /\ task[l] \in {"acquire", "fetch", "spawned", "compiling", "compiled"} /\ ~expired[l]
  /\ expired' = [expired EXCEPT ![l] = TRUE]
  /\ NoSubmission /\ UNCHANGED <<task, detached, state, alarms, permits, registry, history>>

-----------------------------------------------------------------------------
CompilerStep(l) ==
  \/ StartCompile(l)
  \/ \E n \in {0} \cup Sizes : FinishCompile(l, n)
  \/ CompilePanics(l)

TaskStep(l) ==
  \/ \E miss \in BOOLEAN : Register(l, miss)
  \/ NotRegistered(l) \/ PutDone(l) \/ DeadlineFires(l)
  \/ EndWork(l) \/ ReleasePermits(l)

PreparationNext ==
  \/ \E f \in Functions : Delete(f) \/ \E evict \in BOOLEAN : Update(f, evict)
  \/ Admitted \/ NotAdmitted
  \/ \E l \in 1..submitted :
       \/ AcquireActive(l) \/ CompilerStep(l) \/ TaskStep(l) \/ Expire(l)
       \/ \E ok \in BOOLEAN : Fetch(l, ok)

PreparationSpec == PreparationInit /\ [][PreparationNext]_preparationVars

\* A fetch may hang: only the clock and the select end it.  The compiler is
\* assumed to return; nothing in the host could stop one that does not.  Some
\* load moves as long as one can, which is less than the runtime gives.
FairPreparation ==
  /\ PreparationSpec
  /\ WF_preparationVars(\E l \in Loads : Expire(l) \/ TaskStep(l) \/ CompilerStep(l))

-----------------------------------------------------------------------------
HoldsRecord(l) == task[l] \notin {"none", "done"}
HoldsActive(l) ==
  /\ task[l] \in {"fetch", "spawned", "compiling", "compiled", "put", "drop", "drop_active"}
  /\ task[l] = "drop" => state[l].stage # "queued"

\* Permits are never lost or given twice, at most one compiler runs, and the
\* accounting never counts a capacity breach or an impossible stage, although
\* permits travel between the task, the compiler thread and the dropped result.
CapacityHeld ==
  /\ PreparationTypeOK
  /\ records + Cardinality({l \in Loads : HoldsRecord(l)}) = MaxRecords
  /\ active + Cardinality({l \in Loads : HoldsActive(l)}) = 1
  /\ Cardinality({l \in Loads : task[l] = "compiling"}) <= 1
  /\ alarms = {}

\* "Expiry discards the result": a function is served from the module the
\* configuration last asked for, or not at all, and from a load that was not
\* abandoned and is counted as a success; the byte count is the size of what is
\* retained.  The first part excludes an update that met an older load of the same
\* function in flight or replaced it by a snapshot; a load past its deadline is not
\* among those, even while its compiler still runs.
ServesWhatIsWanted ==
  LET retained == {f \in Functions : components[f] # 0} IN
  /\ \A f \in retained :
       LET l == components[f] IN
       /\ unfenced[f] \/ l = desired[f]
       /\ ~detached[l] /\ state[l].cancellation = "none"
       /\ task[l] = "done" => state[l].outcome = "success"
  /\ native_bytes = SumFunction([f \in retained |-> size[components[f]]])
  /\ Cardinality(retained) <= MaxComponents

\* Once submissions pause, every permit comes home, even if fetches hang and
\* however late the compilers return.
PermitsReturn == (records < MaxRecords) ~> (records = MaxRecords /\ active = 1)
=============================================================================
