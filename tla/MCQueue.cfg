SPECIFICATION Spec
SYMMETRY Symmetry
CONSTANTS
  Policies <- MCPolicies
  KeyOf <- MCKeyOf
  None = None
  MaxVersion = 3
  Messages = {1, 2}
  Receipts = {r1, r2}
  MaxDelay = 0
  MaxGeneration = 2
  Perishable = {2}
  Attempts = 2
  Total = 2
  Capacity = 1
  Retry = 1
  Rate = 1
  Ordered = TRUE
CHECK_DEADLOCK FALSE
INVARIANTS QueueSafe RateRespected FifoPerKey ResultsTellTheTruth
PROPERTY ImplementsLifecycle
