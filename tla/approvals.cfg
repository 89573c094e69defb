SPECIFICATION FairSpec
CONSTANTS
  c1 = c1
  c2 = c2
  k1 = k1
  k2 = k2
  Callers = {c1, c2}
  Keys = {k1, k2}
  Capacities = {1, 2}
  Ttl = 1
  MaxEntries = 1
  RequestTtl = 0
  NoDecision = NoDecision
  MaxCalls = 2
  MaxClock = 1
INVARIANTS
  TypeOK
  AllowanceIsEarned
  InFlightIsBounded
  PendingIsAwaited
  DeclaredFirst
PROPERTIES
  EveryCallEnds
CHECK_DEADLOCK FALSE
