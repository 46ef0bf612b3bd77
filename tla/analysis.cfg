SPECIFICATION Spec
CONSTANTS
  t1 = t1  t2 = t2  u1 = u1  u2 = u2  p1 = p1  b1 = b1  b2 = b2
  alice = alice  bob = bob  none = none
  Task = {t1, t2}
  Again = FALSE
  Verdicts = {"COMPLETED"}
  Marks = {"PROCESSING", "RETRYING", "FAILED"}
  Endpoint = {u1, u2, p1}
  Destructive = {u1}
  AdminPath = {}
  Body <- Bodies
  NoBody = NoBody
  Ratio <- SomeRatio
  Fields <- SomeFields
  Ids <- SomeIds
  Pii = {"email", "token"}
  Sensitive = {"token"}
  User = {alice, bob, unknown, anonymous}
  Tenant = {}
  NoTenant = NoTenant
  Threshold = 65000
  Incoming <- Responses
  MaxResults = 3
  MaxDiffs = 2
  Asking <- SomeAsking
  Answering <- SomeAnswering
  NoCode = NoCode
  NoToken = NoToken
  Missing = none
  Unknown = unknown
  Anonymous = anonymous
CHECK_DEADLOCK FALSE
INVARIANTS
  OrderIndependent
  ListedSuccessHasResponse
  CopilotCountsOnce
  SwapsAgreeWithReport
PROPERTIES
  ReportNamesEveryBreach
