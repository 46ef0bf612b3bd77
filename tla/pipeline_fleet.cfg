SPECIFICATION FairSpec
CONSTANTS
  t1 = t1  t2 = t2  r1 = r1  r2 = r2  e1 = e1  e2 = e2  s1 = s1  s2 = s2
  Task = {t1, t2}
  Request = {r1}
  Engine = {e1, e2}
  Slot = {s1, s2}
  ReqOf <- OneRequest
  RetryCount <- RetryBoth
  EngineOf <- TwoEngines
  PromoteBatch = 2
  NoJob = NoJob
  Faults = {}
INVARIANTS
  QuietScanIsClosed
PROPERTIES
  TasksSettle
  ScanSettles
