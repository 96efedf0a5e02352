SPECIFICATION Spec
CONSTANTS
  d1 = d1
  d2 = d2
  w1 = w1
  w2 = w2
  NoDevice = NoDevice
  NoWorkflow = NoWorkflow
  Devices = {d1, d2}
  Workflows = {w1, w2}
  MaxEpoch = 3
  MaxSecurityEpoch = 1
  MaxSequence = 1
  MaxTime = 2
  Deadlines = {9}
  RenewFor = 1
  OnlineFor = 2
  OfflineFor = 3
  CapabilityFor = 1
  PinFor = 1
  WorkflowFor = 1
  ProofFor = 1
SYMMETRY Symmetry
INVARIANTS
  LeaseDiscipline
  ReleasedIsSealed
  
PROPERTIES
  
  ImplementsLeaseAuthority
CHECK_DEADLOCK FALSE
