SPECIFICATION Spec
CONSTANTS
  d1 = d1
  d2 = d2
  w1 = w1
  w2 = w2
  NoDevice = NoDevice
  NoWorkflow = NoWorkflow
  Devices = {d1, d2}
  Workflows = {w1}
  MaxEpoch = 2
  MaxSecurityEpoch = 2
  MaxSequence = 0
  MaxTime = 4
  Deadlines = {4, 9}
  RenewFor = 1
  OnlineFor = 2
  OfflineFor = 3
  CapabilityFor = 2
  PinFor = 1
  WorkflowFor = 2
  ProofFor = 2
SYMMETRY Symmetry
CHECK_DEADLOCK FALSE
PROPERTIES
  IssuedUnderCurrentSecurity
