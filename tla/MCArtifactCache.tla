-------------------------- MODULE MCArtifactCache --------------------------
(* ArtifactCache with two preparations of three artifacts.  One fills the  *)
(* store, so that inserting it evicts two; one permit of each kind makes   *)
(* every refusal reachable.                                                *)
EXTENDS ArtifactCache, TLC

CONSTANTS a1, a2, a3
MCSize == a1 :> 1 @@ a2 :> 1 @@ a3 :> 2
=============================================================================
