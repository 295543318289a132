SPECIFICATION RealtimeSpec
CONSTANTS
  Sessions = {s1, s2, s3}
  None = None
  Bridged = FALSE
  Handlers = {s1, s2}
INVARIANT ActionsReachSubscribers
CHECK_DEADLOCK FALSE
