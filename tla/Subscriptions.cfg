SPECIFICATION FairSubscription
CONSTANTS
  Topics = {t1, t2}
  QueueCapacity = 1
  MaxClients = 2
  MaxUpdates = 2
  MaxRotations = 1
INVARIANTS
  SubscriptionsMatch
PROPERTIES
  EventuallySubscribed
CHECK_DEADLOCK FALSE
