-------------------------- MODULE DispatchContract --------------------------
(***************************************************************************)
(* What the execution host promises about each message delivered to it,    *)
(* whatever its tasks, queue and semaphore do: a message runs at most once *)
(* and is answered at most once; at most MaxRecords messages run, are      *)
(* answered or await collection; work that ran and kept its authority gets *)
(* a reply attempt; work that lost it gets none; and a loss of authority   *)
(* is one step that spares no running work.                                *)
(***************************************************************************)
EXTENDS Naturals, FiniteSets

CONSTANTS Messages, MaxRecords

VARIABLES
  fate,      \* where each message stands
  withdrawn  \* running messages whose authority has been withdrawn

vars == <<fate, withdrawn>>

With(fates) == {m \in Messages : fate[m] \in fates}
Room == Cardinality(With({"running", "replying", "sent", "unsent"})) < MaxRecords

Init == fate = [m \in Messages |-> "away"] /\ withdrawn = {}

Becomes(m, from, to) ==
  /\ fate[m] = from /\ fate' = [fate EXCEPT ![m] = to]
  /\ withdrawn' = withdrawn \ {m}

Arrive(m) == Becomes(m, "away", "waiting")
Start(m) == Room /\ Becomes(m, "waiting", "running")
TimeOut(m) == Room /\ Becomes(m, "waiting", "replying")
Reply(m) == m \notin withdrawn /\ Becomes(m, "running", "replying")
Abandon(m) == m \in withdrawn /\ Becomes(m, "running", "over")
Publish(m) == \E f \in {"sent", "unsent"} : Becomes(m, "replying", f)
Collect(m) == \E f \in {"sent", "unsent"} : Becomes(m, f, "over")

\* Waiting messages are given up together.
Discard(S) ==
  /\ S \subseteq With({"waiting"})
  /\ fate' = [m \in Messages |-> IF m \in S THEN "over" ELSE fate[m]]
  /\ UNCHANGED withdrawn

Withdraw == withdrawn' = With({"running"}) /\ UNCHANGED fate

Next ==
  \/ Withdraw
  \/ \E S \in SUBSET Messages : Discard(S)
  \/ \E m \in Messages :
       \/ Arrive(m) \/ Start(m) \/ TimeOut(m) \/ Reply(m)
       \/ Abandon(m) \/ Publish(m) \/ Collect(m)

Spec == Init /\ [][Next]_vars
=============================================================================
