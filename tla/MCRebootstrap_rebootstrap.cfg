SPECIFICATION Spec
CONSTANTS
    MaxRequests = 2
    MaxOperations = 2
    MaxCandidates = 2
    MaxFaults = 2
    MaxWrites = 1
    MaxRevision = 1
    Plans <- SmallPlans
CHECK_DEADLOCK FALSE
INVARIANTS
    ActiveReadable
    NothingLost
    RestartDecides
    LockHolds
PROPERTIES
    RecoverySettles
