SPECIFICATION FairSpec
CONSTANTS
  Messages = {m1, m2}
  MaxConcurrent = 1
  QueueCapacity = 1
  MaxChanges = 2
PROPERTIES
  ShutdownDrains
  LossReachesGuests
  BacklogLeaves
  ImplementsContract
