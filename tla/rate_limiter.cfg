SPECIFICATION Spec
CONSTANTS
  c1 = c1  c2 = c2  l1 = l1  l2 = l2
  known = known  s1 = s1  global = global
  Coroutine = {c1, c2}
  Limiter = {l1, l2}
  LimiterOf <- Limiters
  Domain = {known}
  Configured = {known}
  Scan = {s1}
  DomainOf <- Domains
  ScanOf <- Scans
  Global = global
  Token = 40
  Rate <- Rates
  Timeout = 1
  MaxClock = 2
  RedisFails = TRUE
CHECK_DEADLOCK FALSE
INVARIANTS
  TypeOK
  RateHolds
  GlobalPaysForScans
PROPERTIES
  ExpiryGrantsNothing
  NoSilentRecovery
  AcquireAnswers
