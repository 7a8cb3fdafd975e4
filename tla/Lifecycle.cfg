SPECIFICATION FairSpec
CONSTANTS
  None = None
  MaxUids = 2
  MaxEvents = 2
  MaxRepeats = 1
  MaxCredentials = 2
INVARIANTS
  CredentialAccounted
  OneCredentialPerRole
  WithdrawnBeforeRelease
PROPERTIES
  EverythingReleased
  EventuallyServed
CHECK_DEADLOCK FALSE
