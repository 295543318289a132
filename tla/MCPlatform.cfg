SPECIFICATION PlatformSpec
CONSTANTS
  Calls = {c1}
  Gateways = {g1, g2}
  Sessions = {s1, s2}
  g1 = g1
  g2 = g2
  s1 = s1
  s2 = s2
  Home <- MCHome
  None = None
  ClaimTimeout = 1
  Timeouts = {2}
  MaxPublishes = 2
  MaxFaults = 1
INVARIANTS SentAtMostOnce OneOutcome  RevocationIsComplete 
PROPERTIES EndpointAgrees SuccessorKeepsRecord StartsOnItsSchema NothingLostInSilence
CHECK_DEADLOCK FALSE
