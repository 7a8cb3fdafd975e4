SPECIFICATION Spec
CONSTANTS
  Messages = {m1, m2, m3}
  MaxConcurrent = 2
  QueueCapacity = 1
  MaxChanges = 2
SYMMETRY MessageSymmetry
CONSTRAINT OneDeadline
INVARIANTS
  AccountingBalanced
  SlotsConserved
  OutlivesNoAuthority
  WorkOnlyInSync
