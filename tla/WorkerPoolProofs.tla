--------------------------- MODULE WorkerPoolProofs ---------------------------
(***************************************************************************)
(* The invariants of WorkerPool, for any number of engines and payloads,   *)
(* any bounds of the pool, any number of permits and signals.              *)
(***************************************************************************)
EXTENDS WorkerPool, FiniteSetTheorems, TLAPS

\* Before start() there is no engine, no monitor and no task.
NothingStarted ==
  mgr = "new" => /\ pool = {} /\ mon = "off" /\ idleList = {} /\ beat = {}
                 /\ \A e \in Engine : state[e] = "none" /\ loop[e] = "off" /\ held[e] = {}

\* The monitor waits for one stop() at a time, and is where that says it is.
StoppingFor(e) == by[e] = "monitor" /\ state[e] \in Stopping
MonitorAtOne ==
  \A e \in Engine : StoppingFor(e) =>
     /\ mon = "stopping"
     /\ \A f \in Engine : StoppingFor(f) => f = e

\* While it does, the list has one engine more than the floor asks for.
FloorKept == (mgr = "running" /\ mon = "stopping") => ~AtFloor

\* A payload is queued or in one engine: coroutines end independently.
HeldOnce ==
  /\ \A e \in Engine : IsFiniteSet(held[e]) /\ queued \cap held[e] = {}
  /\ \A e, f \in Engine : e # f => held[e] \cap held[f] = {}

\* How far the stop() of the manager has come, and what it leaves behind.
StoppedByManager ==
  \A e \in Engine : by[e] = "manager" =>
     /\ state[e] \in Stopping \cup {"done", "failed"}
     /\ state[e] = "gather" => held[e] \ awaited[e] \subseteq late
     /\ state[e] = "done" => held[e] \subseteq late
     /\ mgr = "stopped" => state[e] \in {"done", "failed"}

\* Nobody starts engines after the manager's stop() cancelled the monitor.
NobodyScales ==
  (mgr \in {"stopping", "stopped"} /\ ~swallowed) =>
     mon = "off" /\ \A e \in Engine : ~Running(e)

PoolInv == /\ TypeOK /\ NothingStarted /\ MonitorAtOne /\ FloorKept /\ HeldOnce
           /\ StoppedByManager /\ NobodyScales /\ PoolWithinBounds /\ LossOnlyLate

-----------------------------------------------------------------------------
(* Sets of engines.                                                        *)

\* What start() leaves is no more than either bound.
LEMMA FloorBounds ==
  /\ Floor \in Nat /\ Floor <= MinWorkers /\ Floor <= MaxWorkers
  /\ Floor <= Cardinality(Engine)
BY PoolAssumption DEF Floor

\* Engines that start are free ones, no more than were asked for, and exactly as
\* many when so many are free.
LEMMA SpawnedAreFree ==
  ASSUME NEW n \in Nat, NEW s \in Spawnable(n)
  PROVE  /\ s \subseteq Free /\ s \subseteq Engine
         /\ Cardinality(s) \in Nat /\ Cardinality(s) <= n
         /\ n <= Cardinality(Free) => Cardinality(s) = n
<1>1. s \subseteq Free /\ s \subseteq Engine
  BY DEF Spawnable, Free
<1>2. IsFiniteSet(Free) /\ IsFiniteSet(s)
  BY <1>1, FS_Subset, PoolAssumption DEF Free
<1>3. Cardinality(Free) \in Nat /\ Cardinality(s) \in Nat
  BY <1>2, FS_CardinalityType
<1> QED BY <1>1, <1>3 DEF Spawnable

\* The list is finite, and so is its length after a change.
LEMMA PoolSize ==
  ASSUME Types
  PROVE  /\ IsFiniteSet(pool) /\ Cardinality(pool) \in Nat
         /\ \A e \in Engine : /\ Cardinality(pool \ {e}) \in Nat
                              /\ Cardinality(pool) - 1 <= Cardinality(pool \ {e})
                              /\ Cardinality(pool \ {e}) <= Cardinality(pool)
<1>1. IsFiniteSet(pool)
  BY FS_Subset, PoolAssumption DEF Types
<1> QED BY <1>1, FS_CardinalityType, FS_RemoveElement, FS_Subset

\* What the monitor adds keeps the list below its ceiling.
LEMMA ToAddFits ==
  ASSUME Types
  PROVE  /\ ToAdd \in Nat
         /\ Cardinality(pool) <= MaxWorkers => Cardinality(pool) + ToAdd <= MaxWorkers
<1>1. DesiredWorkers \in Nat
  BY PoolAssumption DEF DesiredWorkers
<1> QED BY <1>1, PoolSize, PoolAssumption DEF ToAdd

\* A loss names its payload, whether it was fetched late, and who stopped the engine,
\* and whether that stop failed.
LEMMA LossesOf ==
  ASSUME Types, NEW S \in [Engine -> SUBSET Payload]
  PROVE  /\ LossOf(S) \subseteq Loss
         /\ \A l \in LossOf(S) : \E e \in Engine :
               /\ l.by = by[e] /\ l.payload \in S[e]
               /\ l.late = (l.payload \in late) /\ l.failed = (state[e] = "failed")
<1>1. ASSUME NEW l \in LossOf(S)
      PROVE  /\ l \in Loss
             /\ \E e \in Engine :
                   /\ l.by = by[e] /\ l.payload \in S[e]
                   /\ l.late = (l.payload \in late) /\ l.failed = (state[e] = "failed")
  <2>1. PICK e \in Engine :
           l \in {[payload |-> p, late |-> p \in late,
                   failed |-> state[e] = "failed", by |-> by[e]] : p \in S[e]}
    BY DEF LossOf
  <2>2. PICK p \in S[e] : l = [payload |-> p, late |-> p \in late,
                               failed |-> state[e] = "failed", by |-> by[e]]
    BY <2>1
  <2> QED BY <2>2 DEF Types, Loss
<1> QED BY <1>1

-----------------------------------------------------------------------------
(* Types and permits.                                                      *)

\* Every step keeps the types; only the monitor and the two shut-downs need an argument.
LEMMA TypesStep ==
  ASSUME Types, [Next]_vars
  PROVE  Types'
<1> USE DEF poolVars, engineVars, taskVars, Types, Manager, Monitor, Stopping, Ended, Caller
<1>1. ASSUME NEW n \in Nat, NEW s \in Spawnable(n), Spawn(s)
      PROVE  /\ pool' \subseteq Engine /\ beat' \subseteq Engine
             /\ handler' \in Engine \cup {NoEngine} /\ signals' = signals
             /\ state' \in [Engine -> Stopping \cup Ended \cup {"run"}]
             /\ by' \in [Engine -> Caller]
             /\ loop' \in [Engine -> {"off", "fetch", "blocked"}]
  BY <1>1, SpawnedAreFree DEF Spawn
<1>2. CASE ManagerStart
  BY <1>1, <1>2, FloorBounds, PoolAssumption DEF ManagerStart
<1>3. CASE MonitorScale
  BY <1>1, <1>3, ToAddFits DEF MonitorScale
<1>4. CASE ManagerStop
  <2>1. [e \in Engine |-> IF CutBy(e) THEN awaited[e] ELSE {}] \in [Engine -> SUBSET Payload]
    OBVIOUS
  <2>2. lost' \subseteq Loss
    BY <1>4, <2>1, LossesOf DEF ManagerStop, CancelMonitor
  <2> QED BY <1>4, <2>2 DEF ManagerStop, CancelMonitor
<1>5. CASE ManagerStopped
  BY <1>5 DEF ManagerStopped
<1>6. CASE Exit
  <2>1. lost' \subseteq Loss
    BY <1>6, LossesOf DEF Exit
  <2> QED BY <1>6, <2>1 DEF Exit
<1>7. CASE MonitorRead \/ MonitorFails \/ MonitorWake \/ \E e \in Engine : CleanupNext(e)
  BY <1>7, PoolAssumption DEF MonitorRead, MonitorFails, MonitorWake, CleanupNext
<1>8. ASSUME NEW e \in Engine, StopStep(e)
      PROVE  Types'
  BY <1>8 DEF StopStep, StopHeart, StopClose, StopRaises, StopGather, Returned, Awaited
<1>9. ASSUME NEW e \in Engine, FetchStep(e) \/ Signal(e) \/ KeyExpires(e)
      PROVE  Types'
  BY <1>9, PoolAssumption DEF FetchStep, PopTimeout, Acquire, Pop, Signal, KeyExpires
<1>10. ASSUME NEW e \in Engine, NEW p \in Payload, Finish(e, p)
       PROVE  Types'
  BY <1>10 DEF Finish
<1>11. ASSUME NEW p \in Payload, Publish(p)
       PROVE  Types'
  BY <1>11 DEF Publish
<1>12. CASE UNCHANGED vars
  BY <1>12 DEF vars
<1> QED BY <1>2, <1>3, <1>4, <1>5, <1>6, <1>7, <1>8, <1>9, <1>10, <1>11, <1>12
       DEF Next, MonitorStep

\* A payload that comes back from a finite set, or joins it.
LEMMA OneMore ==
  ASSUME NEW S, IsFiniteSet(S), NEW x
  PROVE  /\ Cardinality(S) \in Nat
         /\ IsFiniteSet(S \cup {x}) /\ Cardinality(S \cup {x}) \in Nat
         /\ Cardinality(S \cup {x}) <= Cardinality(S) + 1
BY FS_AddElement, FS_CardinalityType

\* An engine that lets go of payloads needs no more permits.
LEMMA FewerHeld ==
  ASSUME NEW e \in Engine, IsFiniteSet(held[e]), WithinPermits(e),
         held'[e] \subseteq held[e], loop'[e] = loop[e] \/ loop'[e] = "off"
  PROVE  WithinPermits(e)' /\ IsFiniteSet(held[e])'
<1>1. IsFiniteSet(held'[e]) /\ Cardinality(held'[e]) <= Cardinality(held[e])
  BY FS_Subset
<1>2. Cardinality(held[e]) \in Nat /\ Cardinality(held'[e]) \in Nat
  BY <1>1, FS_CardinalityType
<1> QED BY <1>1, <1>2, PoolAssumption DEF WithinPermits

\* Only a fetch adds a payload to an engine, one that was in the queue; only a
\* fetch, the end of a coroutine and the API change the queue.
HeldShrinks == queued' = queued /\ \A e \in Engine : held'[e] \subseteq held[e]

\* Whatever an engine does, its coroutines keep within its permits.
LEMMA PermitsStep ==
  ASSUME Types, HeldOnce, NEW f \in Engine, WithinPermits(f), [Next]_vars
  PROVE  WithinPermits(f)'
<1> USE DEF poolVars, engineVars, taskVars
<1>0. IsFiniteSet(held[f]) /\ Cardinality(held[f]) \in Nat
  BY FS_CardinalityType DEF HeldOnce
<1>1. ASSUME NEW n \in Nat, NEW s \in Spawnable(n), Spawn(s), held' = held
      PROVE  WithinPermits(f)'
  <2>1. CASE f \in s
    <3>1. held[f] = {}
      BY <2>1, SpawnedAreFree DEF Free
    <3>2. Cardinality(held'[f]) = 0
      BY <1>1, <3>1, FS_EmptySet
    <3> QED BY <3>2, PoolAssumption DEF WithinPermits
  <2>2. CASE f \notin s
    BY <1>0, <1>1, <2>2, FewerHeld DEF Spawn, Types
  <2> QED BY <2>1, <2>2
<1>2. CASE ManagerStart
  BY <1>1, <1>2, FloorBounds, PoolAssumption DEF ManagerStart
<1>3. CASE MonitorScale
  BY <1>1, <1>3, ToAddFits DEF MonitorScale
<1>4. ASSUME NEW e \in Engine, NEW p \in Payload, Pop(e, p)
      PROVE  WithinPermits(f)'
  <2>1. CASE e = f
    <3>1. held'[f] = held[f] \cup {p} /\ loop[f] = "fetch"
      BY <1>4, <2>1 DEF Pop, Types
    <3>2. Cardinality(held'[f]) \in Nat /\ Cardinality(held'[f]) <= Cardinality(held[f]) + 1
      BY <1>0, <3>1, OneMore
    <3>3. loop'[f] = "fetch" => Cardinality(held[f]) + 1 < Concurrency
      BY <1>4, <2>1 DEF Pop, Types
    <3> QED BY <1>0, <3>1, <3>2, <3>3, PoolAssumption DEF WithinPermits
  <2>2. CASE e # f
    BY <1>0, <1>4, <2>2, FewerHeld DEF Pop, Types
  <2> QED BY <2>1, <2>2
<1>5. ASSUME NEW e \in Engine, Acquire(e)
      PROVE  WithinPermits(f)'
  BY <1>0, <1>5, PoolAssumption DEF Acquire, HasPermit, WithinPermits, Types
<1>6. ASSUME held'[f] \subseteq held[f], loop'[f] = loop[f] \/ loop'[f] = "off"
      PROVE  WithinPermits(f)'
  BY <1>0, <1>6, FewerHeld
<1>7. CASE ManagerStop \/ ManagerStopped \/ Exit
  BY <1>6, <1>7 DEF ManagerStop, CancelMonitor, ManagerStopped, Exit, Types
<1>8. CASE MonitorRead \/ MonitorFails \/ MonitorWake \/ \E e \in Engine : CleanupNext(e)
  BY <1>6, <1>8 DEF MonitorRead, MonitorFails, MonitorWake, CleanupNext
<1>9. ASSUME NEW e \in Engine, StopStep(e) \/ Signal(e) \/ KeyExpires(e) \/ PopTimeout(e)
      PROVE  WithinPermits(f)'
  BY <1>6, <1>9 DEF StopStep, StopHeart, StopClose, StopRaises, StopGather, Signal,
    KeyExpires, PopTimeout, Types
<1>10. ASSUME NEW e \in Engine, NEW p \in Payload, Finish(e, p)
       PROVE  WithinPermits(f)'
  BY <1>6, <1>10 DEF Finish, Types
<1>11. CASE UNCHANGED vars \/ \E p \in Payload : Publish(p)
  BY <1>6, <1>11 DEF vars, Publish
<1> QED BY <1>2, <1>3, <1>4, <1>5, <1>7, <1>8, <1>9, <1>10, <1>11
        DEF Next, MonitorStep, FetchStep

\* A payload leaves the queue with the fetch that takes it, and comes back when the
\* coroutine that has it ends.
LEMMA HeldOnceStep ==
  ASSUME Types, HeldOnce, [Next]_vars
  PROVE  HeldOnce'
<1> USE DEF poolVars, engineVars, taskVars
<1>1. ASSUME HeldShrinks
      PROVE  HeldOnce'
  <2>1. ASSUME NEW e \in Engine
        PROVE  IsFiniteSet(held'[e])
    BY <1>1, <2>1, FS_Subset DEF HeldShrinks, HeldOnce
  <2> QED BY <1>1, <2>1 DEF HeldShrinks, HeldOnce
<1>2. CASE ManagerStart \/ ManagerStop \/ ManagerStopped \/ Exit
  BY <1>1, <1>2 DEF ManagerStart, ManagerStop, CancelMonitor, ManagerStopped, Exit,
    HeldShrinks, Types
<1>3. CASE MonitorStep
  BY <1>1, <1>3 DEF MonitorStep, MonitorRead, MonitorFails, MonitorWake, CleanupNext,
    MonitorScale, HeldShrinks
<1>4. ASSUME NEW e \in Engine,
             StopStep(e) \/ Signal(e) \/ KeyExpires(e) \/ PopTimeout(e) \/ Acquire(e)
      PROVE  HeldOnce'
  BY <1>1, <1>4 DEF StopStep, StopHeart, StopClose, StopRaises, StopGather, Signal,
    KeyExpires, PopTimeout,
     Acquire, HeldShrinks
<1>5. ASSUME NEW e \in Engine, NEW p \in Payload, Pop(e, p)
      PROVE  HeldOnce'
  <2>1. /\ held' = [held EXCEPT ![e] = held[e] \cup {p}]
        /\ p \in queued /\ queued' = queued \ {p}
    BY <1>5 DEF Pop
  <2>2. IsFiniteSet(held[e] \cup {p})
    BY OneMore DEF HeldOnce
  <2>3. ASSUME NEW f \in Engine
        PROVE  IsFiniteSet(held'[f])
    BY <2>1, <2>2, <2>3 DEF HeldOnce, Types
  <2>4. ASSUME NEW f \in Engine
        PROVE  held'[f] = IF f = e THEN held[e] \cup {p} ELSE held[f]
    BY <2>1 DEF Types
  <2>5. ASSUME NEW f \in Engine, NEW g \in Engine, f # g
        PROVE  held'[f] \cap held'[g] = {} /\ queued' \cap held'[f] = {}
    BY <2>1, <2>4, <2>5 DEF HeldOnce
  <2>6. queued' \cap held'[e] = {}
    BY <2>1, <2>4 DEF HeldOnce
  <2>7. ASSUME NEW f \in Engine
        PROVE  queued' \cap held'[f] = {}
    BY <2>5, <2>6
  <2> QED BY <2>3, <2>5, <2>7 DEF HeldOnce
<1>6. ASSUME NEW e \in Engine, NEW p \in Payload, Finish(e, p)
      PROVE  HeldOnce'
  <2>1. /\ p \in held[e] /\ held' = [held EXCEPT ![e] = held[e] \ {p}]
        /\ queued' \subseteq queued \cup {p}
    BY <1>6 DEF Finish
  <2>2. ASSUME NEW f \in Engine
        PROVE  IsFiniteSet(held'[f]) /\ queued' \cap held'[f] = {}
    <3>1. held'[f] \subseteq held[f] /\ p \notin held'[f]
      BY <2>1 DEF HeldOnce, Types
    <3> QED BY <2>1, <3>1, FS_Subset DEF HeldOnce
  <2> QED BY <2>1, <2>2 DEF HeldOnce, Types
<1>7. ASSUME NEW p \in Payload, Publish(p)
      PROVE  HeldOnce'
  BY <1>7 DEF Publish, HeldOnce
<1>8. CASE UNCHANGED vars
  BY <1>1, <1>8 DEF vars, HeldShrinks
<1> QED BY <1>2, <1>3, <1>4, <1>5, <1>6, <1>7, <1>8 DEF Next, FetchStep

-----------------------------------------------------------------------------
(* The manager and its monitor.                                            *)

\* start() is the only way out of "new".
LEMMA NothingStartedStep ==
  ASSUME Types, NothingStarted, [Next]_vars
  PROVE  NothingStarted'
<1> SUFFICES ASSUME mgr' = "new" PROVE NothingStarted'
  BY DEF NothingStarted
<1> USE DEF poolVars, engineVars, taskVars, NothingStarted
<1>1. mgr = "new"
  BY DEF Next, ManagerStart, ManagerStop, ManagerStopped, Exit, MonitorStep, MonitorRead,
    MonitorFails,
    MonitorWake, CleanupNext, MonitorScale, StopStep, StopHeart, StopClose, StopRaises,
    StopGather, FetchStep,
    PopTimeout, Acquire, Pop, Signal, KeyExpires, Finish, Publish, vars
<1>2. UNCHANGED vars \/ \E p \in Payload : Publish(p)
  BY <1>1 DEF Next, ManagerStart, ManagerStop, ManagerStopped, Exit, MonitorStep,
    MonitorRead, MonitorFails,
    MonitorWake, CleanupNext, MonitorScale, StopStep, StopHeart, StopClose, StopRaises,
    StopGather, FetchStep,
    PopTimeout, Acquire, Pop, Signal, Running, KeyExpires, Finish
<1> QED BY <1>1, <1>2 DEF vars, Publish

\* The monitor starts no stop() before the last one has returned, and when its
\* cancellation ends it, no stop() of its own goes on.
LEMMA MonitorAtOneStep ==
  ASSUME Types, NothingStarted, MonitorAtOne, [Next]_vars
  PROVE  MonitorAtOne'
<1> USE DEF poolVars, engineVars, taskVars, StoppingFor, Stopping
<1>1. ASSUME mon' = mon, \A e \in Engine : StoppingFor(e)' => StoppingFor(e)
      PROVE  MonitorAtOne'
  BY <1>1 DEF MonitorAtOne
<1>2. ASSUME mon # "stopping", \A e \in Engine : StoppingFor(e)' => StoppingFor(e)
      PROVE  MonitorAtOne'
  BY <1>2 DEF MonitorAtOne
<1>3. ASSUME NEW n \in Nat, NEW s \in Spawnable(n), Spawn(s)
      PROVE  \A e \in Engine : StoppingFor(e)' => StoppingFor(e)
  BY <1>3 DEF Spawn, Types
<1>4. CASE ManagerStart
  BY <1>2, <1>3, <1>4, FloorBounds, PoolAssumption DEF ManagerStart, NothingStarted
<1>5. CASE MonitorScale
  BY <1>2, <1>3, <1>5, ToAddFits DEF MonitorScale
<1>6. CASE MonitorRead \/ MonitorFails \/ MonitorWake
  BY <1>2, <1>6 DEF MonitorRead, MonitorFails, MonitorWake
<1>7. ASSUME NEW e \in Engine, CleanupNext(e)
      PROVE  MonitorAtOne'
  BY <1>7 DEF CleanupNext, MonitorAtOne, Types
<1>8. ASSUME NEW e \in Engine, StopStep(e)
      PROVE  MonitorAtOne'
  <2>1. \A f \in Engine : StoppingFor(f)' => StoppingFor(f)
    BY <1>8 DEF StopStep, StopHeart, StopClose, StopRaises, StopGather, Types
  <2>2. CASE mon' = mon
    BY <1>1, <2>1, <2>2
  <2>3. CASE mon' # mon
    <3>1. /\ by[e] = "monitor" /\ state[e] \in Stopping /\ by' = by
          /\ \E ended \in {"done", "failed"} : state' = [state EXCEPT ![e] = ended]
      BY <1>8, <2>3 DEF StopStep, StopHeart, StopClose, StopRaises, StopGather, Returned
    <3>2. \A f \in Engine : ~StoppingFor(f)'
      BY <3>1 DEF MonitorAtOne, Types
    <3> QED BY <3>2 DEF MonitorAtOne
  <2> QED BY <2>2, <2>3
<1>9. CASE ManagerStop
  <2>1. CASE \E e \in Engine : Caught(e)
    <3>1. mon' = mon
      BY <1>9, <2>1 DEF ManagerStop, CancelMonitor
    <3>2. \A e \in Engine : StoppingFor(e)' => StoppingFor(e)
      BY <1>9 DEF ManagerStop, CancelMonitor, CutBy, Types
    <3> QED BY <1>1, <3>1, <3>2
  <2>2. CASE ~\E e \in Engine : Caught(e)
    <3>1. \A e \in Engine : ~StoppingFor(e)'
      BY <1>9, <2>2 DEF ManagerStop, CancelMonitor, CutBy, Caught, Types
    <3> QED BY <3>1 DEF MonitorAtOne
  <2> QED BY <2>1, <2>2
<1>10. CASE Exit
  BY <1>10 DEF Exit, MonitorAtOne
<1>11. CASE ManagerStopped \/ UNCHANGED vars \/ \E p \in Payload : Publish(p)
  BY <1>1, <1>11 DEF ManagerStopped, vars, Publish
<1>12. ASSUME NEW e \in Engine, \/ FetchStep(e) \/ Signal(e) \/ KeyExpires(e)
                               \/ \E p \in Payload : Finish(e, p)
       PROVE  MonitorAtOne'
  BY <1>1, <1>12 DEF FetchStep, PopTimeout, Acquire, Pop, Signal, KeyExpires, Finish, Types
<1> QED BY <1>4, <1>5, <1>6, <1>7, <1>8, <1>9, <1>10, <1>11, <1>12 DEF Next, MonitorStep

\* The list is between its bounds, and whoever runs is in it: what is removed was
\* above the floor when its stop() was called, and nothing else was removed since.
LEMMA BoundsStep ==
  ASSUME Types, NothingStarted, MonitorAtOne, FloorKept, PoolWithinBounds, [Next]_vars
  PROVE  FloorKept' /\ PoolWithinBounds'
<1> SUFFICES ASSUME mgr' = "running" PROVE FloorKept' /\ PoolWithinBounds'
  BY DEF FloorKept, PoolWithinBounds
<1> USE DEF poolVars, engineVars, taskVars, Running, AtFloor
<1>1. ASSUME mgr = "running", pool' = pool, mon' = "stopping" => mon = "stopping",
             \A e \in Engine : Running(e)' => Running(e)
      PROVE  FloorKept' /\ PoolWithinBounds'
  BY <1>1 DEF FloorKept, PoolWithinBounds
<1>2. CASE ManagerStart
  <2>1. PICK s \in Spawnable(Floor) : Spawn(s)
    BY <1>2 DEF ManagerStart
  <2>2. Free = Engine
    BY <1>2 DEF ManagerStart, NothingStarted, Free, Ended
  <2>3. Cardinality(s) = Floor
    BY <2>2, SpawnedAreFree, FloorBounds, PoolAssumption DEF Floor
  <2>4. pool' = s /\ mon' = "depth" /\ \A e \in Engine : Running(e)' => e \in s
    BY <1>2, <2>1 DEF ManagerStart, Spawn, NothingStarted, Types
  <2> QED BY <2>3, <2>4, FloorBounds, PoolAssumption DEF FloorKept, PoolWithinBounds
<1>3. CASE MonitorScale
  <2>1. PICK s \in Spawnable(ToAdd) : Spawn(s)
    BY <1>3 DEF MonitorScale
  <2>2. mgr = "running" /\ mon' = "sleep"
    BY <1>3 DEF MonitorScale
  <2>3. /\ IsFiniteSet(pool) /\ IsFiniteSet(s) /\ pool \cap s = {}
        /\ Cardinality(s) \in Nat /\ Cardinality(s) <= ToAdd
    <3>1. /\ s \subseteq Free /\ s \subseteq Engine
          /\ Cardinality(s) \in Nat /\ Cardinality(s) <= ToAdd
      BY ToAddFits, SpawnedAreFree
    <3>2. IsFiniteSet(s)
      BY <3>1, FS_Subset, PoolAssumption
    <3> QED BY <3>1, <3>2, PoolSize DEF Free
  <2>4. Cardinality(pool') = Cardinality(pool) + Cardinality(s)
    <3>1. pool' = pool \cup s
      BY <2>1 DEF Spawn
    <3>2. Cardinality(pool \cup s) = Cardinality(pool) + Cardinality(s)
      <4>1. Cardinality(pool \cup s) = Cardinality(pool) + Cardinality(s) - Cardinality(pool \cap s)
        BY <2>3, FS_Union
      <4>2. Cardinality(pool \cap s) = 0
        BY <2>3, FS_EmptySet
      <4> QED BY <2>3, <4>1, <4>2, PoolSize
    <3> QED BY <3>1, <3>2
  <2>5. \A e \in Engine : Running(e)' => e \in pool'
    BY <2>1, <2>2 DEF Spawn, PoolWithinBounds, Types
  <2> QED BY <2>2, <2>3, <2>4, <2>5, ToAddFits, PoolSize, FloorBounds, PoolAssumption
          DEF FloorKept, PoolWithinBounds
<1>4. ASSUME NEW e \in Engine, CleanupNext(e)
      PROVE  FloorKept' /\ PoolWithinBounds'
  <2>1. mgr = "running" /\ ~AtFloor
    BY <1>4 DEF CleanupNext
  <2>2. CASE Running(e)
    BY <1>4, <2>1, <2>2 DEF CleanupNext, FloorKept, PoolWithinBounds, Types
  <2>3. CASE ~Running(e)
    BY <1>4, <2>1, <2>3, PoolSize, FloorBounds, PoolAssumption
       DEF CleanupNext, FloorKept, PoolWithinBounds
  <2> QED BY <2>2, <2>3
<1>5. ASSUME NEW e \in Engine, StopStep(e)
      PROVE  FloorKept' /\ PoolWithinBounds'
  <2>1. mgr = "running" /\ \A f \in Engine : Running(f)' => Running(f) /\ f # e
    BY <1>5 DEF StopStep, StopHeart, StopClose, StopRaises, StopGather, Types
  <2>2. CASE pool' = pool /\ mon' = mon
    BY <1>1, <2>1, <2>2
  <2>3. CASE ~(pool' = pool /\ mon' = mon)
    <3>1. /\ StoppingFor(e) /\ pool' \in {pool, pool \ {e}}
          /\ mon' # "stopping"
      BY <1>5, <2>3 DEF StopStep, StopHeart, StopClose, StopRaises, StopGather, Returned,
        StoppingFor, Stopping
    <3>2. ~AtFloor
      BY <2>1, <3>1 DEF MonitorAtOne, FloorKept
    <3> QED BY <2>1, <3>1, <3>2, PoolSize, FloorBounds, PoolAssumption DEF FloorKept,
            PoolWithinBounds
  <2> QED BY <2>2, <2>3
<1>6. CASE MonitorRead \/ MonitorFails \/ MonitorWake
  BY <1>1, <1>6 DEF MonitorRead, MonitorFails, MonitorWake
<1>7. CASE ManagerStop \/ ManagerStopped \/ Exit
  BY <1>7 DEF ManagerStop, ManagerStopped, Exit
<1>8. CASE UNCHANGED vars \/ \E p \in Payload : Publish(p)
  BY <1>1, <1>8 DEF vars, Publish
<1>9. ASSUME NEW e \in Engine, \/ FetchStep(e) \/ Signal(e) \/ KeyExpires(e)
                               \/ \E p \in Payload : Finish(e, p)
      PROVE  FloorKept' /\ PoolWithinBounds'
  BY <1>1, <1>9 DEF FetchStep, PopTimeout, Acquire, Pop, Signal, KeyExpires, Finish, Types
<1> QED BY <1>2, <1>3, <1>4, <1>5, <1>6, <1>7, <1>8, <1>9 DEF Next, MonitorStep

\* Once the manager stops, whoever runs does so because a swallowed cancellation let
\* the monitor go on.
LEMMA NobodyScalesStep ==
  ASSUME Types, MonitorAtOne, PoolWithinBounds, NobodyScales, [Next]_vars
  PROVE  NobodyScales'
<1> SUFFICES ASSUME mgr' \in {"stopping", "stopped"}, ~swallowed'
             PROVE  mon' = "off" /\ \A e \in Engine : ~Running(e)'
  BY DEF NobodyScales
<1> USE DEF poolVars, engineVars, taskVars, Running
<1>1. CASE ManagerStop
  BY <1>1 DEF ManagerStop, CancelMonitor, PoolWithinBounds, Types, CutBy
<1>2. CASE ~ManagerStop
  <2>1. mgr \in {"stopping", "stopped"} /\ ~swallowed
    BY <1>2 DEF Next, ManagerStart, ManagerStopped, Exit, MonitorStep, MonitorRead,
      MonitorFails,
      MonitorWake, CleanupNext, MonitorScale, StopStep, StopHeart, StopClose, StopRaises,
      StopGather, FetchStep,
      PopTimeout, Acquire, Pop, Signal, KeyExpires, Finish, Publish, vars
  <2>2. mon = "off" /\ \A e \in Engine : ~Running(e) /\ ~StoppingFor(e)
    BY <2>1 DEF NobodyScales, MonitorAtOne
  <2>3. ASSUME NEW e \in Engine, StopStep(e)
        PROVE  mon' = "off" /\ \A f \in Engine : ~Running(f)'
    BY <2>2, <2>3 DEF StopStep, StopHeart, StopClose, StopRaises, StopGather, Returned,
      StoppingFor, Stopping, Types
  <2>4. ASSUME NEW e \in Engine, \/ FetchStep(e) \/ Signal(e) \/ KeyExpires(e)
                                 \/ \E p \in Payload : Finish(e, p)
        PROVE  mon' = "off" /\ \A f \in Engine : ~Running(f)'
    BY <2>2, <2>4 DEF FetchStep, PopTimeout, Acquire, Pop, Signal, KeyExpires, Finish, Types
  <2>5. ~MonitorStep
    BY <2>2 DEF MonitorStep, MonitorRead, MonitorFails, MonitorWake, CleanupNext,
      MonitorScale
  <2>6. CASE \/ ManagerStart \/ ManagerStopped \/ Exit \/ UNCHANGED vars
             \/ \E p \in Payload : Publish(p)
    BY <2>1, <2>2, <2>6 DEF ManagerStart, ManagerStopped, Exit, Publish, vars
  <2> QED BY <1>2, <2>3, <2>4, <2>5, <2>6 DEF Next
<1> QED BY <1>1, <1>2

-----------------------------------------------------------------------------
(* What stop() leaves behind.                                              *)

\* stop() of the manager gathers every task it finds, unless it fails before that; what
\* an engine fetched since is late, also when other coroutines end.
LEMMA StoppedByManagerStep ==
  ASSUME Types, HeldOnce, StoppedByManager, [Next]_vars
  PROVE  StoppedByManager'
<1> SUFFICES ASSUME NEW f \in Engine, by'[f] = "manager"
             PROVE  /\ state'[f] \in Stopping \cup {"done", "failed"}
                    /\ state'[f] = "gather" => held'[f] \ awaited'[f] \subseteq late'
                    /\ state'[f] = "done" => held'[f] \subseteq late'
                    /\ mgr' = "stopped" => state'[f] \in {"done", "failed"}
  BY DEF StoppedByManager
<1> DEFINE Goal == /\ state'[f] \in Stopping \cup {"done", "failed"}
                   /\ state'[f] = "gather" => held'[f] \ awaited'[f] \subseteq late'
                   /\ state'[f] = "done" => held'[f] \subseteq late'
                   /\ mgr' = "stopped" => state'[f] \in {"done", "failed"}
<1> USE DEF poolVars, engineVars, taskVars, Running, Stopping
<1>1. ASSUME by[f] = "manager", state'[f] = state[f], held'[f] = held[f],
        awaited'[f] = awaited[f],
             late \subseteq late', mgr' = "stopped" => mgr = "stopped"
      PROVE  Goal
  BY <1>1 DEF StoppedByManager
<1>2. ASSUME NEW n \in Nat, NEW s \in Spawnable(n), Spawn(s), UNCHANGED taskVars,
             mgr' = mgr \/ mgr' = "running"
      PROVE  Goal
  <2>1. by'[f] = by[f] /\ state'[f] = state[f]
    BY <1>2 DEF Spawn, Types
  <2> QED BY <1>1, <1>2, <2>1
<1>3. CASE ManagerStart
  BY <1>2, <1>3, FloorBounds, PoolAssumption DEF ManagerStart
<1>4. CASE MonitorScale
  BY <1>2, <1>4, ToAddFits DEF MonitorScale
<1>5. CASE ManagerStop
  <2>1. CASE f \in pool /\ Running(f)
    BY <1>5, <2>1 DEF ManagerStop, CancelMonitor, CutBy, Types
  <2>2. CASE ~(f \in pool /\ Running(f))
    BY <1>1, <1>5, <2>2 DEF ManagerStop, CancelMonitor, CutBy, Types
  <2> QED BY <2>1, <2>2
<1>6. CASE ManagerStopped
  BY <1>6 DEF ManagerStopped, AllStopped, StoppedByManager
<1>7. CASE Exit
  BY <1>7 DEF Exit
<1>8. CASE MonitorRead \/ MonitorFails \/ MonitorWake \/ \E e \in Engine : CleanupNext(e)
  BY <1>1, <1>8 DEF MonitorRead, MonitorFails, MonitorWake, CleanupNext, Types
<1>9. ASSUME NEW e \in Engine, StopStep(e)
      PROVE  Goal
  <2>1. CASE e = f
    BY <1>9, <2>1 DEF StopStep, StopHeart, StopClose, StopRaises, StopGather, Awaited,
      StoppedByManager, Types
  <2>2. CASE e # f
    BY <1>1, <1>9, <2>2 DEF StopStep, StopHeart, StopClose, StopRaises, StopGather, Types
  <2> QED BY <2>1, <2>2
<1>10. ASSUME NEW e \in Engine, NEW p \in Payload, Pop(e, p)
       PROVE  Goal
  <2>1. CASE e = f
    BY <1>10, <2>1 DEF Pop, StoppedByManager, Types
  <2>2. CASE e # f
    BY <1>1, <1>10, <2>2 DEF Pop, Types
  <2> QED BY <2>1, <2>2
<1>11. ASSUME NEW e \in Engine, NEW p \in Payload, Finish(e, p)
       PROVE  Goal
  <2>1. CASE e = f
    BY <1>11, <2>1 DEF Finish, StoppedByManager, Types
  <2>2. CASE e # f
    BY <1>11, <2>2 DEF Finish, HeldOnce, StoppedByManager, Types
  <2> QED BY <2>1, <2>2
<1>12. ASSUME NEW e \in Engine, Signal(e) \/ KeyExpires(e) \/ PopTimeout(e) \/ Acquire(e)
       PROVE  Goal
  BY <1>1, <1>12 DEF Signal, KeyExpires, PopTimeout, Acquire, Types
<1>13. CASE UNCHANGED vars \/ \E p \in Payload : Publish(p)
  BY <1>1, <1>13 DEF vars, Publish
<1> QED BY <1>3, <1>4, <1>5, <1>6, <1>7, <1>8, <1>9, <1>10, <1>11, <1>12, <1>13
        DEF Next, MonitorStep, FetchStep

\* Two steps lose payloads: the cancellation of the monitor, those of the engine it was
\* stopping, and the end of the process, those of every engine.
LEMMA LossStep ==
  ASSUME Types, StoppedByManager, LossOnlyLate, [Next]_vars
  PROVE  LossOnlyLate'
<1> USE DEF poolVars, engineVars, taskVars
<1>1. CASE ManagerStop
  <2> DEFINE gathered == [e \in Engine |-> IF CutBy(e) THEN awaited[e] ELSE {}]
  <2>1. gathered \in [Engine -> SUBSET Payload]
    BY DEF Types
  <2>2. lost' = lost \cup LossOf(gathered)
    BY <1>1 DEF ManagerStop, CancelMonitor
  <2>3. \A l \in LossOf(gathered) : \E e \in Engine : l.by = by[e] /\ l.payload \in gathered[e]
    BY <2>1, LossesOf
  <2>4. \A l \in LossOf(gathered) : l.by = "monitor"
    BY <2>3 DEF CutBy
  <2> QED BY <2>2, <2>4 DEF LossOnlyLate
<1>2. CASE Exit
  <2>1. \A l \in LossOf(held) : \E e \in Engine :
           /\ l.by = by[e] /\ l.payload \in held[e] /\ l.late = (l.payload \in late)
           /\ l.failed = (state[e] = "failed")
    BY LossesOf DEF Types
  <2>2. \A e \in Engine : by[e] = "manager" => held[e] \subseteq late \/ state[e] = "failed"
    BY <1>2 DEF Exit, StoppedByManager
  <2>3. \A l \in LossOf(held) : l.by = "manager" => l.late \/ l.failed
    BY <2>1, <2>2
  <2> QED BY <1>2, <2>3 DEF Exit, LossOnlyLate
<1>3. CASE ~ManagerStop /\ ~Exit
  <2>1. lost' = lost
    BY <1>3 DEF Next, ManagerStart, ManagerStopped, MonitorStep, MonitorRead, MonitorFails,
      MonitorWake, CleanupNext, MonitorScale, StopStep, StopHeart, StopClose, StopRaises,
      StopGather, FetchStep,
      PopTimeout, Acquire, Pop, Signal, KeyExpires, Finish, Publish, vars
  <2> QED BY <2>1 DEF LossOnlyLate
<1> QED BY <1>1, <1>2, <1>3

-----------------------------------------------------------------------------
(* The theorems.                                                           *)

\* Nothing runs before start().
LEMMA PoolInit == Init => PoolInv
<1> SUFFICES ASSUME Init PROVE PoolInv
  OBVIOUS
<1>1. IsFiniteSet({}) /\ Cardinality({}) = 0
  BY FS_EmptySet
<1>2. Types
  <2>1. state \in [Engine -> Stopping \cup Ended \cup {"run"}] /\ by \in [Engine -> Caller]
    BY DEF Init, Stopping, Ended, Caller
  <2>2. /\ loop \in [Engine -> {"off", "fetch", "blocked"}]
        /\ held \in [Engine -> SUBSET Payload] /\ awaited \in [Engine -> SUBSET Payload]
    BY DEF Init
  <2>3. swallowed \in BOOLEAN /\ lost \subseteq Loss
    BY DEF Init
  <2> QED BY <2>1, <2>2, <2>3, PoolAssumption DEF Init, Types, Manager, Monitor
<1>3. HeldOnce /\ \A e \in Engine : WithinPermits(e)
  BY <1>1, PoolAssumption DEF Init, HeldOnce, WithinPermits
<1>4. /\ NothingStarted /\ MonitorAtOne /\ FloorKept /\ StoppedByManager
      /\ NobodyScales /\ PoolWithinBounds /\ LossOnlyLate
  BY DEF Init, NothingStarted, MonitorAtOne, StoppingFor, FloorKept, StoppedByManager,
    NobodyScales, PoolWithinBounds, LossOnlyLate
<1> QED BY <1>2, <1>3, <1>4 DEF PoolInv, TypeOK

\* The invariant is inductive: one case for each action.
LEMMA PoolStep ==
  ASSUME PoolInv, [Next]_vars
  PROVE  PoolInv'
<1>1. Types /\ \A e \in Engine : WithinPermits(e)
  BY DEF PoolInv, TypeOK
<1>2. Types' /\ HeldOnce' /\ NothingStarted' /\ MonitorAtOne'
  BY <1>1, TypesStep, HeldOnceStep, NothingStartedStep, MonitorAtOneStep DEF PoolInv
<1>3. \A e \in Engine : WithinPermits(e)'
  BY <1>1, PermitsStep DEF PoolInv
<1>4. FloorKept' /\ PoolWithinBounds' /\ NobodyScales'
  BY <1>1, BoundsStep, NobodyScalesStep DEF PoolInv
<1>5. StoppedByManager' /\ LossOnlyLate'
  BY <1>1, StoppedByManagerStep, LossStep DEF PoolInv
<1> QED BY <1>2, <1>3, <1>4, <1>5 DEF PoolInv, TypeOK

\* It holds in every behaviour.
LEMMA PoolInvariant == Spec => []PoolInv
BY PoolInit, PoolStep, PTL DEF Spec

\* Every variable has its type, and no engine has more coroutines than permits, for
\* any number of engines, permits and payloads and whoever stops them when.
THEOREM PoolTypeCorrect == Spec => []TypeOK
BY PoolInvariant, PTL DEF PoolInv

\* While the manager runs, its list stays between min_workers (or max_workers if that is
\* less) and max_workers, and every engine that runs is in it, whatever bounds, depths
\* and idle engines there are.
THEOREM PoolBounded == Spec => []PoolWithinBounds
BY PoolInvariant, PTL DEF PoolInv

\* An engine that the manager's stop() stopped loses at most what it fetched since that
\* stop() began, unless redis.delete or the client's close raised in it.
THEOREM ManagerLosesOnlyLate == Spec => []LossOnlyLate
BY PoolInvariant, PTL DEF PoolInv

\* An engine runs beside a stopped manager only if heartbeat.stop() swallowed the
\* cancellation of the monitor.
THEOREM NoOtherStray == Spec => []StrayOnlyIfSwallowed
<1>1. PoolInv => StrayOnlyIfSwallowed
  BY DEF PoolInv, NobodyScales, StrayOnlyIfSwallowed
<1> QED BY <1>1, PoolInvariant, PTL
=============================================================================
