SPECIFICATION FairSpec
CONSTANTS
  Deliveries = {d1}
  None = None
  ClaimTokens = {t1}
  ClaimTTL = 1
  MaxRetry = 1
  MaxAttempts = 1
  Connections = {}
  AssignTokens = {}
  Lease = 1
  MaxProcessing = 1
  CallbackTokens = {k1, k2, k3}
  CallbackLease = 2
  MaxCallbacks = 2
  RetryAfter = 1
  MaxGeneration = 1
  Dispatchers = {w1}
  BatchSize = 1
  BaseRetry = 1
  RetryDelay <- MCRetryDelay
  MaxCrashes = 0
  Copies = 1
  Ids <- MCIds
  MayExpire = FALSE
  Workers = {p1, p2}
  FinishMargin = 1
  MayRefuse = TRUE
  MaxErrors = 1
CHECK_DEADLOCK FALSE
INVARIANT RequestsInTurn
PROPERTY EventuallyResolved
