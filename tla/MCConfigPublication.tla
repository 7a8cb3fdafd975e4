------------------------ MODULE MCConfigPublication ------------------------
\* Instances of ConfigPublication for TLC.
EXTENDS ConfigPublication

\* Applications and topics are interchangeable.
DataSymmetry == Permutations(Apps) \cup Permutations(Topics)

\* Edits and Redis rotations together, to bound the state space.
ThreeChanges == edits + redis <= 3
=============================================================================
