SPECIFICATION Spec
CONSTANTS
  Deliveries = {d1}
  None = None
  ClaimTokens = {t1}
  ClaimTTL = 1
  MaxRetry = 1
  MaxAttempts = 1
  Connections = {c1, c2}
  AssignTokens = {a1, a2}
  Lease = 2
  MaxProcessing = 2
  CallbackTokens = {}
  CallbackLease = 1
  MaxCallbacks = 1
  RetryAfter = 0
  MaxGeneration = 1
  Dispatchers = {w1}
  BatchSize = 1
  BaseRetry = 1
  RetryDelay <- MCRetryDelay
  MaxCrashes = 0
  Copies = 1
  Ids <- MCIds
  MayExpire = TRUE
  MaxInFlight = 1
  MaxBytes = 1
  MaxErrors = 0
SYMMETRY Symmetry
CHECK_DEADLOCK FALSE
PROPERTY WorkIsKept
