----------------------- MODULE MCInvocationSupervisor -----------------------
(* The invocation supervisor for TLC, with the contract it implements. Two *)
(* slots let the loop collect one task while it admits another; the        *)
(* liveness run has one slot and a queue of one, so that one message waits *)
(* for the other at every stage. Messages are interchangeable where no     *)
(* temporal formula follows one of them.                                   *)
EXTENDS DispatchRefinement, TLC

MessageSymmetry == Permutations(Messages)

\* Bound of the safety run: the deadline passes for one of its three messages.
\* The liveness run lets it pass for both of its two.
OneDeadline == Cardinality({m \in Messages : expired[m]}) <= 1
=============================================================================
