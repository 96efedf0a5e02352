SPECIFICATION Spec
CONSTANTS
  d1 = d1
  d2 = d2
  e1 = e1
  e2 = e2
  f1 = f1
  v0 = v0
  v1 = v1
  Devices <- TwoDevices
  Entities <- OneEntity
  Fields <- OneField
  Values <- TwoValues
  InitialValue = v0
  FirstDevice = d1
  WireForms = {"valid"}
  MaxSequence <- OneEach
  MaxInFlight = 1
  MaxEpoch = 3
  BatchLimit = 2
  MaxRequests = 2
  PageLimit = 1
INVARIANTS
  NoLostUpdate
  CandidatesComplete
PROPERTIES
  PendingChangesKept
CHECK_DEADLOCK FALSE
