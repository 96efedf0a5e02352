SPECIFICATION FairSpec
CONSTANTS
  d1 = d1
  d2 = d2
  e1 = e1
  e2 = e2
  f1 = f1
  v0 = v0
  v1 = v1
  Devices <- OneDevice
  Entities <- TwoEntities
  Fields <- OneField
  Values <- TwoValues
  InitialValue = v0
  FirstDevice = d1
  WireForms = {"valid", "refused"}
  MaxSequence <- Two
  MaxInFlight = 2
  MaxEpoch = 1
  BatchLimit = 2
  MaxRequests = 2
  PageLimit = 2
INVARIANTS
  AcknowledgedIsLogged
  
PROPERTIES
  DeliveredOnceInOrder
  OldestRowSettles
CHECK_DEADLOCK FALSE
