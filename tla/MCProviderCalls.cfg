SPECIFICATION Spec
CONSTANTS
  c1 = c1
  c2 = c2
  Calls = {c1, c2}
  Clients <- MCClients
  Retries <- MCRetries
  NeverArrivedCodes = {"ECONNREFUSED", "ENOTFOUND"}
  MaxCauseDepth = 5
  Statuses <- MCStatuses
  Headers <- MCHeaders
  Penalty429Ms = 1
  MaxPenaltyMs = 2
  RetryBackoffMs = 1
  MaxRetryBackoffMs = 1
  ZoneOffset = 3
  MaxClock = 1
INVARIANTS ChargedIfCounted RefusalIsHonoured
PROPERTIES CallEnds
CHECK_DEADLOCK FALSE
