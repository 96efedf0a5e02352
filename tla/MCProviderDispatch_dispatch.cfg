CONSTANTS
  Attempts = {a1}
  Clients = {c1}
  Workers = {w1}
  CancelRequests = {r1}
  Kinds = {"paypal_subscription", "stripe_fixed", "paypal_fixed"}
  MaxAttempts = 1
  MaxFaults = 1
  Nobody = Nobody
SPECIFICATION Spec
INVARIANTS
  
  RefundAfterTermination
CHECK_DEADLOCK FALSE
