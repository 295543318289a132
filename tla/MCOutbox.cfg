SPECIFICATION FairSpec
CONSTANTS
  Deliveries = {d1}
  None = None
  ClaimTokens = {t1, t2, t3}
  ClaimTTL = 1
  MaxRetry = 1
  MaxAttempts = 2
  Connections = {}
  AssignTokens = {}
  Lease = 1
  MaxProcessing = 1
  CallbackTokens = {}
  CallbackLease = 1
  MaxCallbacks = 1
  RetryAfter = 0
  MaxGeneration = 2
  Dispatchers = {w1, w2}
  BatchSize = 1
  BaseRetry = 1
  RetryDelay <- MCRetryDelay
  MaxCrashes = 1
  Copies = 2
  Ids <- MCIds
  MayExpire = FALSE
INVARIANTS OutboxSafe DelayIsCappedPower
PROPERTY RowsSettle
