SPECIFICATION FairCache
CONSTANTS
  Clients = {c1, c2}
  a1 = a1
  a2 = a2
  a3 = a3
  Artifacts = {a1, a2, a3}
  Size <- MCSize
  Corrupt = Corrupt
  MaxBytes = 2
  MaxEntries = 2
  MaxAuth = 1
  MaxUploads = 1
  MaxResponses = 1
INVARIANTS
  StoreInStep
  OnlyVerifiedCompiles
PROPERTIES
  RequestsEnd
