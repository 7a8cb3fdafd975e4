SPECIFICATION FairRequest
CONSTANTS
    Requests = {r1, r2}
    InFlight = 1
    MaxSessions = 2
    MaxChanges = 3
CHECK_DEADLOCK FALSE
INVARIANTS
    RepliesReachTheirRequest
    AdmittedCanReserve
    NoStrandedWaiter
PROPERTIES
    NothingContinuesAfterLoss
    PermitsReturn
