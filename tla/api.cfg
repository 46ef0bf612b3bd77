SPECIFICATION Spec
CONSTANTS
  Request = {q1, q2, q3}
  Email = {alice, bob}
  NoEmail = NoEmail
  NoToken = NoToken
  Client = {c1}
  Limit = 2
  Second = 2
  Window = 6
  MaxTime = 15
  Writer = {w1, w2}
  TaskRow = {t1}
  ScanRow = scan
  MaxStatus = 3
  MaxPending = 2
  MaxBreaks = 1
  jwtAdmin = jwtAdmin  jwtUser = jwtUser
  Extensions <- Suffix1
  Junk <- Suffix2
  Traversals <- Suffix3
  Payloads <- Injected
  Blanks <- Nulls
  Garbage <- Tokens
  Privileges <- Levels
  Types <- Mimes
  Spoofed <- Sender
  AuthHeader = {"Authorization"}
  RoleHeader = {"X-User-Role"}
  TenantHeader = {"X-Tenant-ID"}
  TypeHeader = {"Content-Type"}
  Dangerous <- Admin
  Number <- Numbers
  Documents <- SomeDocuments
  Sources <- SomeSources
  Bases <- SomeBases
  Jwts = {jwtAdmin, jwtUser}
  NoJwt = NoJwt
  NoBodyObject = NoBodyObject
SYMMETRY Symmetric
CHECK_DEADLOCK FALSE
INVARIANTS
  LateRegistrationIsUser
  UsedUpStaysUsedUp
  WindowHolds
  QuietStreamIsComplete
  SwapsMeetCrawler
  StaysOnTarget
  MutationsSurvive
PROPERTIES
  RetryAfterIsEnough
