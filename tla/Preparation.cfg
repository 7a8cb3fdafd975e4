SPECIFICATION FairPreparation
CONSTANTS
  Functions = {f1, f2}
  MaxLoads = 3
  MaxRecords = 2
  MaxComponents = 1
  MaxNativeBytes = 2
  Sizes = {1, 2}
INVARIANTS
  CapacityHeld
  ServesWhatIsWanted
PROPERTIES
  PermitsReturn
CHECK_DEADLOCK FALSE
