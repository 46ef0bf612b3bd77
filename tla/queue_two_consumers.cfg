SPECIFICATION Spec
CONSTANTS
  p1 = p1  p2 = p2  p3 = p3  p4 = p4
  Payload = {p1}
  LevelOf <- Levels
  Consumer = {c1, c2}
  Capacity = 1
  PromoteBatch = 3
  MaxBatch = 2
INVARIANTS
  DeliveredOnce
