------------------------- MODULE DispatchRefinement -------------------------
(* The invocation supervisor implements DispatchContract.                  *)
EXTENDS InvocationSupervisor

\* What a message's stage means to whoever sent it.
FateOf(s) ==
  CASE s = "idle" -> "away"
    [] s \in {"queued", "held", "popped"} -> "waiting"
    [] s \in ExecutionStages -> "running"
    [] s = "publishing" -> "replying"
    [] s \in {"dropped", "reaped"} -> "over"
    [] OTHER -> s

Fate == [m \in Messages |-> FateOf(stage[m])]
Withdrawn == {m \in In(ExecutionStages) : revoked[m]}

Contract == INSTANCE DispatchContract
              WITH MaxRecords <- MaxConcurrent, fate <- Fate, withdrawn <- Withdrawn

\* Every step of the dispatch loop, the intake task, the blocking threads and the
\* reply tasks is a step of the contract or invisible to it.
ImplementsContract == Contract!Spec
=============================================================================
