SPECIFICATION Spec
CONSTANTS
  j1 = j1
  j2 = j2
  a = a
  b = b
  p1 = p1
  x = x
  NoJob = NoJob
  NoWorker = NoWorker
  Jobs = {j1, j2}
  Partitions = {p1}
  PartitionOf <- OnePartition
  Workers = {a, b}
  Admins = {x}
  MaxAttempts = 2
  AttemptLimit = 2
  LeaseTicks = 1
  AttemptTicks = 2
  BackoffTicks = 1
  MaxConflicts = 1
  MaxReplays = 1
SYMMETRY Symmetry
INVARIANTS
  LeasesAgree
  AttemptsLedger
  EffectsOnce
PROPERTIES
  ImplementsJobQueue
CHECK_DEADLOCK FALSE
