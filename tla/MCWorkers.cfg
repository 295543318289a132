SPECIFICATION WorkersSpec
CONSTANTS
  Callbacks = {c1}
  Workers = {"w1", "w2"}
  Tokens = {t1, t2, t3}
  None = None
  Timeout = 1
  Margin = 2
  Stall = 1
  MaxCalls = 3
  RetryDelay = 1
  MaxErrors = 2
INVARIANT StoresOutliveUse
PROPERTIES EventuallySettled NeverStarved ResultsReported SchedulesRun InvokeReturns ClosedLeavesNothing StoppingEnds LateWorkIsDropped
CHECK_DEADLOCK FALSE
