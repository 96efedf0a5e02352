SPECIFICATION Spec
CONSTANTS
    k1 = k1
    k2 = k2
    d1 = d1
    w1 = w1
    r1 = r1
    Checkpoint <- TwoCheckpoints
    Reader <- OneReader
    Workflow <- OneWorkflow
    Candidate <- OneCandidate
    NoCheckpoint = NoCheckpoint
    MaxRevision = 2
    PageLimit = 2
    LeaseTtl = 1
    PinTtl = 1
    CandidateTtl = 1
SYMMETRY Interchangeable
INVARIANTS
  PinnedStaysAvailable
  OwedHistoryKept
PROPERTIES
  ActiveDeviceKeepsHistory
