SPECIFICATION Spec
CONSTANTS
  Engine = {e1, e2}
  NoEngine = NoEngine
  Payload = {p1}
  MinWorkers = 1
  MaxWorkers = 2
  Concurrency = 1
  Depth <- Depths
  MaxSignals = 1
CHECK_DEADLOCK FALSE
INVARIANTS
  TypeOK
  PoolWithinBounds
  LossOnlyLate
  StrayOnlyIfSwallowed
PROPERTIES
  DeadWorkersVanish
  StoppedLoopEnds
  ShutdownCompletes
