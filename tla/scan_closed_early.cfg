SPECIFICATION Spec
CONSTANTS
  t1 = t1  t2 = t2  r1 = r1  r2 = r2  e1 = e1  e2 = e2  s1 = s1  s2 = s2
  Task = {t1}
  Request = {r1}
  Engine = {e1}
  Slot = {s1, s2}
  ReqOf <- OneRequest
  RetryCount <- RetryFirst
  EngineOf <- OneEngine
  PromoteBatch = 2
  NoJob = NoJob
  Faults = {}
INVARIANTS
  FinishedMeansNothingPending
