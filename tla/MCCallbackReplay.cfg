SPECIFICATION Spec
CONSTANTS
  Deliveries = {d1}
  None = None
  ClaimTokens = {t1}
  ClaimTTL = 1
  MaxRetry = 1
  MaxAttempts = 1
  Connections = {}
  AssignTokens = {}
  Lease = 1
  MaxProcessing = 1
  CallbackTokens = {k1, k2, k3}
  CallbackLease = 2
  MaxCallbacks = 2
  RetryAfter = 0
  MaxGeneration = 2
  Dispatchers = {w1}
  BatchSize = 1
  BaseRetry = 1
  RetryDelay <- MCRetryDelay
  MaxCrashes = 0
  Copies = 1
  Ids <- MCIds
  MayExpire = FALSE
  Workers = {p1, p2}
  FinishMargin = 1
  MayRefuse = TRUE
  MaxErrors = 0
SYMMETRY Symmetry
INVARIANTS AckJustified RecordedDeadLetterExists ScheduleIsBounded
CHECK_DEADLOCK FALSE
