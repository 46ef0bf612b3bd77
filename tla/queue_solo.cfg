SPECIFICATION FairSpec
CONSTANTS
  p1 = p1  p2 = p2  p3 = p3  p4 = p4
  Payload = {p1, p2, p3, p4}
  LevelOf <- Levels
  Consumer = {c1}
  Capacity = 2
  PromoteBatch = 4
  MaxBatch = 2
INVARIANTS
  RightList
PROPERTIES
  ImplementsWorkQueue
  NoStarvation
