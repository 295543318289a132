SPECIFICATION FairSpec
CONSTANTS
  Deliveries = {d1}
  None = None
  ClaimTokens = {t1}
  ClaimTTL = 1
  MaxRetry = 1
  MaxAttempts = 1
  Connections = {c1}
  AssignTokens = {a1, a2}
  Lease = 1
  MaxProcessing = 2
  CallbackTokens = {}
  CallbackLease = 1
  MaxCallbacks = 1
  RetryAfter = 0
  MaxGeneration = 2
  Dispatchers = {w1}
  BatchSize = 1
  BaseRetry = 1
  RetryDelay <- MCRetryDelay
  MaxCrashes = 0
  Copies = 1
  Ids <- MCIds
  MayExpire = FALSE
  MaxInFlight = 1
  MaxBytes = 2
  MaxErrors = 1
CHECK_DEADLOCK FALSE
INVARIANT SessionSafe
PROPERTIES ImplementsLifecycle CloseCompletes
