CONSTANTS
  Agreements = {g1}
  Lineages = {own, l1}
  OwnRefund = own
  Kinds = {"subscription", "fixed_term"}
  MaxTime = 2
  MaxVersion = 2
  MaxAttempts = 2
  MaxFaults = 1
  Nobody = Nobody
SPECIFICATION Spec
INVARIANTS
  RefundedNeverGrants
  BlockedNeverGrants
PROPERTIES
  PaidTermKeepsSlot
CHECK_DEADLOCK FALSE
