SPECIFICATION FairSpec
CONSTANTS
  Deadline = 2
  MaxTime = 3
  Skews = {3, 5}
  MaxLuaInteger = 6
  MaxVersion = 3
INVARIANTS
  SqlCommitsOnlyInTime
  KvBeforeDeadline
  PoolIsCurrent
PROPERTIES
  NoCommitBehindTheHost
  EvictionCompletes
CHECK_DEADLOCK FALSE
