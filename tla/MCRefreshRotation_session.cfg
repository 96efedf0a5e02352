\* Two sign-ins, a password reset, one voluntary refresh, two faults.
SPECIFICATION FairSpec
CONSTANTS
  Slots <- MCSlots
  MaxTime = 1
  AccessTTL = 1
  RefreshTTL = 2
  MaxEpoch = 2
  MaxLogins = 2
  MaxRequests = 1
  MaxFaults = 2
INVARIANTS
  NoFalseReuse
  CustodyIsRecoverable
PROPERTIES
  SessionSettles
CHECK_DEADLOCK FALSE
