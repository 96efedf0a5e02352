\* Four preparations and four faults: a first activation, a second over it,
\* and a third after a burned or cancelled one, each cut off anywhere.
CONSTANTS
  MaxAttempts = 4
  MaxFaults = 4
SPECIFICATION Spec
INVARIANTS
  UsableIsStored
  CustodyAccounted
  GenerationStoredOnce
PROPERTIES
  IntentSettles
