SPECIFICATION MCSpec
CONSTANTS
  llm = llm
  intent = intent
  tts = tts
  p = p
  p2 = p2
  k = k
  k2 = k2
  c1 = c1
  c2 = c2
  d = d
  r1 = r1
  r2 = r2
  r3 = r3
  NO_LIMIT = NO_LIMIT
  NotYet = NotYet
  None = None
  Site = {llm, intent, tts}
  QuotaKey <- MCQuotaKey
  Symbol = {p, p2, k, k2}
  Bar = Bar
  Limits = {zero, low, high}
  Uncapped = zero
  Request = {r1, r2, r3}
  CartId = {c1, c2}
  Device = {d}
  DeviceOf <- MCDeviceOf
  RoutesOf <- MCRoutesOf
  MaxImage = 3
  MaxChunk = 2
  MaxSignals = 1
INVARIANTS OneBudgetPerQuota ListedUnlessExpired ProxyBounded
PROPERTIES RequestsEnd
CHECK_DEADLOCK FALSE
