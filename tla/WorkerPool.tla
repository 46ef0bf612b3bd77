----------------------------- MODULE WorkerPool -----------------------------
(***************************************************************************)
(* The autoscaling pool of worker engines: WorkerPoolManager, the start()  *)
(* and stop() coroutines of its WorkerEngine objects, their heartbeat keys *)
(* and their HTTP clients, in one process with one event loop.             *)
(*                                                                         *)
(* What runs between two awaits is one step.  create_task(engine.start())  *)
(* runs up to its first await before anything else of the manager does     *)
(* (the loop is first in, first out), so spawning and starting an engine   *)
(* is one step too.  stop() of an engine returns at once unless the engine *)
(* is running; otherwise it is a sequence of awaits, run by the monitor    *)
(* loop, by the manager's own stop() or by a signal handler: `by` says     *)
(* which, as a cancelled caller cancels what it awaits.                    *)
(*                                                                         *)
(* Abstracted: the order of active_engines (any idle engine may be the     *)
(* next), clocks, what _process_payload does (ScanPipeline has it), and    *)
(* the depth of the queue, a choice: Payload has only a few payloads that  *)
(* are followed, among the others.  An Engine that has ended and that      *)
(* nothing refers to stands for a new object when one is needed.           *)
(***************************************************************************)
EXTENDS Naturals, FiniteSets

CONSTANTS
  Engine,       \* WorkerEngine objects alive at one time
  NoEngine,     \* stands for "none of them"
  Payload,      \* the payloads that are followed
  MinWorkers,   \* min_workers
  MaxWorkers,   \* max_workers
  Concurrency,  \* WORKER_CONCURRENCY, the permits of an engine's semaphore
  Depth,        \* the queue depths that may be read
  MaxSignals    \* termination signals that may arrive (a bound)

\* How many engines start() leaves in the list: run_worker may ask for more than
\* _scale_up allows (WORKER_CONCURRENCY = 1 gives a minimum of 5 and a maximum of 1).
Floor == IF MinWorkers <= MaxWorkers THEN MinWorkers ELSE MaxWorkers

\* Engine bounds how many engines may ever be started, so it holds those of start().
ASSUME PoolAssumption ==
  /\ IsFiniteSet(Engine) /\ NoEngine \notin Engine
  /\ MinWorkers \in Nat /\ MaxWorkers \in Nat
  /\ Floor <= Cardinality(Engine)
  /\ Concurrency \in Nat \ {0}
  /\ Depth \subseteq Nat
  /\ MaxSignals \in Nat

VARIABLES
  mgr,        \* where the manager is, from start() to the end of the process
  pool,       \* active_engines
  mon,        \* where _monitor_loop is
  depth,      \* the queue_depth it has read
  idleList,   \* what is left of its idle_engines
  state,      \* each engine: where its stop() is, "run" before it is called
  by,         \* who called the stop() that found it running
  loop,       \* where its start() loop is
  beat,       \* engines that have a worker:heartbeat key
  handler,    \* the engine whose stop() is installed for SIGTERM
  signals,    \* termination signals that arrived
  queued,     \* payloads in the priority lists
  held,       \* held[e]: the payloads of e's _tasks
  awaited,    \* those that its stop() gathers
  late,       \* history: fetched by an engine that was no longer running
  lost,       \* history: payloads whose coroutine was cancelled
  swallowed   \* history: heartbeat.stop() caught the monitor's cancellation

poolVars   == <<pool, mon, depth, idleList>>
engineVars == <<state, by, loop, beat, handler, signals>>
taskVars   == <<queued, held, awaited, late, lost>>
vars == <<mgr, poolVars, engineVars, taskVars, swallowed>>

Manager  == {"new", "running", "stopping", "stopped", "exited"}
Monitor  == {"off", "depth", "cleanup", "stopping", "sleep"}
Stopping == {"heart", "close", "gather"}
Ended    == {"none", "done", "failed", "cut"}
Caller   == {"nobody", "monitor", "manager", "signal"}
Loss     == [payload : Payload, late : BOOLEAN, failed : BOOLEAN, by : Caller]

\* Nothing is started; the followed payloads wait in the queue.
Init ==
  /\ mgr = "new" /\ pool = {} /\ mon = "off" /\ depth = 0 /\ idleList = {}
  /\ state = [e \in Engine |-> "none"]
  /\ by = [e \in Engine |-> "nobody"]
  /\ loop = [e \in Engine |-> "off"]
  /\ beat = {} /\ handler = NoEngine /\ signals = 0
  /\ queued = Payload
  /\ held = [e \in Engine |-> {}]
  /\ awaited = [e \in Engine |-> {}]
  /\ late = {} /\ lost = {} /\ swallowed = FALSE

Running(e) == state[e] = "run"

\* is_idle: no task; whether the last one is too long ago is a choice.
MayBeIdle(e) == held[e] = {}

-----------------------------------------------------------------------------
(* Starting engines.                                                       *)

Free == {e \in Engine \ (pool \cup beat \cup idleList) :
           state[e] \in Ended /\ loop[e] = "off" /\ held[e] = {}}

\* `count` new engines, or as many as there are free.
Spawnable(count) ==
  {s \in SUBSET Free : \/ Cardinality(s) = count
                       \/ s = Free /\ Cardinality(Free) < count}

\* _scale_up with the first step of each start(): the engine takes its first
\* permit and fetches; the last one to start owns the signals.
Spawn(s) ==
  /\ pool' = pool \cup s
  /\ state' = [e \in Engine |-> IF e \in s THEN "run" ELSE state[e]]
  /\ by' = [e \in Engine |-> IF e \in s THEN "nobody" ELSE by[e]]
  /\ loop' = [e \in Engine |-> IF e \in s THEN "fetch" ELSE loop[e]]
  /\ beat' = beat \cup s
  /\ IF s = {} THEN UNCHANGED handler ELSE handler' \in s
  /\ UNCHANGED signals

\* WorkerPoolManager.start.
ManagerStart ==
  /\ mgr = "new"
  /\ mgr' = "running"
  /\ \E s \in Spawnable(Floor) : Spawn(s)
  /\ mon' = "depth"
  /\ UNCHANGED <<depth, idleList, taskVars, swallowed>>

-----------------------------------------------------------------------------
(* The monitor loop.                                                       *)

\* The four LLENs, then the list of idle engines.
MonitorRead ==
  /\ mon = "depth"
  /\ depth' \in Depth
  /\ idleList' \in SUBSET {e \in pool : MayBeIdle(e)}
  /\ mon' = "cleanup"
  /\ UNCHANGED <<mgr, pool, engineVars, taskVars, swallowed>>

\* An LLEN raises: the exception ends the pass.
MonitorFails ==
  /\ mon = "depth"
  /\ mon' = "sleep"
  /\ UNCHANGED <<mgr, pool, depth, idleList, engineVars, taskVars, swallowed>>

AtFloorLate == Cardinality(pool) < MinWorkers
AtFloor == Cardinality(pool) <= MinWorkers

\* Turn to one more idle engine.  stop() returns at once when the engine is
\* no longer running, whoever stopped it; it is removed in the same step.
CleanupNext(e) ==
  /\ mon = "cleanup" /\ ~AtFloor
  /\ e \in idleList
  /\ idleList' = idleList \ {e}
  /\ IF Running(e)
       THEN /\ state' = [state EXCEPT ![e] = "heart"]
            /\ by' = [by EXCEPT ![e] = "monitor"]
            /\ mon' = "stopping"
            /\ UNCHANGED pool
       ELSE /\ pool' = pool \ {e}
            /\ UNCHANGED <<state, by, mon>>
  /\ UNCHANGED <<mgr, depth, loop, beat, handler, signals, taskVars, swallowed>>

\* _calculate_desired_workers.
DesiredWorkers ==
  CASE depth >= 10000 -> 100
    [] depth >= 1000 /\ depth < 10000 -> 50
    [] depth >= 100 /\ depth < 1000 -> 10
    [] depth >= 10 /\ depth < 100 -> 5
    [] OTHER -> MinWorkers

\* How many engines the loop adds, bounded again by _scale_up.
ToAdd ==
  LET wanted == IF DesiredWorkers < MaxWorkers THEN DesiredWorkers ELSE MaxWorkers
  IN  IF Cardinality(pool) < wanted THEN wanted - Cardinality(pool) ELSE 0

\* The rest of one pass, up to the sleep.
MonitorScale ==
  /\ mon = "cleanup"
  /\ idleList = {} \/ AtFloor
  /\ \E s \in Spawnable(ToAdd) : Spawn(s)
  /\ mon' = "sleep" /\ idleList' = {} /\ depth' = 0
  /\ UNCHANGED <<mgr, taskVars, swallowed>>

\* The five seconds are over: the loop tests the manager's _running.
MonitorWake ==
  /\ mon = "sleep"
  /\ mon' = IF mgr = "running" THEN "depth" ELSE "off"
  /\ UNCHANGED <<mgr, pool, depth, idleList, engineVars, taskVars, swallowed>>

-----------------------------------------------------------------------------
(* WorkerEngine.stop, await by await.                                      *)

\* A stop() has returned: the monitor goes on with active_engines.remove,
\* which raises when manager.stop() has cleared the list; the pass then ends.
Returned(e) ==
  IF by[e] # "monitor" THEN UNCHANGED <<pool, mon, idleList>>
  ELSE /\ pool' = pool \ {e}
       /\ mon' = IF e \in pool THEN "cleanup" ELSE "sleep"
       /\ idleList' = IF e \in pool THEN idleList ELSE {}

\* heartbeat.stop() has seen the end of its cancelled loop.
StopHeart(e) ==
  /\ state[e] = "heart"
  /\ state' = [state EXCEPT ![e] = "close"]
  /\ UNCHANGED <<mgr, poolVars, by, loop, beat, handler, signals, taskVars, swallowed>>

\* The key is deleted, the client closed; stop() gathers the tasks it finds.
AwaitedNothing(e) == {}
Awaited(e) == held[e]
StopClose(e) ==
  /\ state[e] = "close"
  /\ beat' = beat \ {e}
  /\ awaited' = [awaited EXCEPT ![e] = Awaited(e)]
  /\ state' = [state EXCEPT ![e] = IF Awaited(e) = {} THEN "done" ELSE "gather"]
  /\ IF Awaited(e) = {} THEN Returned(e) ELSE UNCHANGED <<pool, mon, idleList>>
  /\ UNCHANGED <<mgr, depth, by, loop, handler, signals, queued, held, late, lost, swallowed>>

\* DELETE raises, or the client's aclose() after it: stop() leaves before its
\* gather and nobody awaits the tasks.  The exception ends the monitor's pass,
\* is a result for the manager's gather, and is lost with a signal's task.
StopRaises(e) ==
  /\ state[e] = "close"
  /\ state' = [state EXCEPT ![e] = "failed"]
  /\ beat' \in {beat, beat \ {e}}
  /\ IF by[e] = "monitor" THEN mon' = "sleep" /\ idleList' = {}
                          ELSE UNCHANGED <<mon, idleList>>
  /\ UNCHANGED <<mgr, pool, depth, by, loop, handler, signals, taskVars, swallowed>>

\* All gathered tasks have ended.
StopGather(e) ==
  /\ state[e] = "gather" /\ awaited[e] = {}
  /\ state' = [state EXCEPT ![e] = "done"]
  /\ Returned(e)
  /\ UNCHANGED <<mgr, depth, by, loop, beat, handler, signals, taskVars, swallowed>>

-----------------------------------------------------------------------------
(* Stopping the pool.                                                      *)

CutBy(e)  == by[e] = "monitor" /\ state[e] \in Stopping \ {"heart"}
Caught(e) == by[e] = "monitor" /\ state[e] = "heart"

\* What is lost when the coroutines of S[e], for each engine e, are cancelled.
LossOf(S) == UNION {{[payload |-> p, late |-> p \in late,
                      failed |-> state[e] = "failed", by |-> by[e]] : p \in S[e]}
                     : e \in Engine}

\* _monitor_task.cancel(), delivered at the await where the monitor is: the
\* loop ends, cutting the stop() it was in and cancelling what that gathered,
\* except in heartbeat.stop(), whose except clause swallows the cancellation.
CancelNothing ==
  /\ UNCHANGED <<mon, idleList, swallowed, held, awaited, lost>>
  /\ state' = [e \in Engine |-> IF e \in pool /\ Running(e) THEN "heart" ELSE state[e]]
CancelMonitor ==
  LET gathered == [e \in Engine |-> IF CutBy(e) THEN awaited[e] ELSE {}]
  IN  /\ IF \E e \in Engine : Caught(e)
           THEN swallowed' = TRUE /\ UNCHANGED <<mon, idleList>>
           ELSE mon' = "off" /\ idleList' = {} /\ UNCHANGED swallowed
      /\ held' = [e \in Engine |-> held[e] \ gathered[e]]
      /\ awaited' = [e \in Engine |-> awaited[e] \ gathered[e]]
      /\ lost' = lost \cup LossOf(gathered)
      /\ state' = [e \in Engine |-> CASE CutBy(e) -> "cut"
                                      [] e \in pool /\ Running(e) -> "heart"
                                      [] OTHER -> state[e]]

\* manager.stop() up to its gather: cancels the monitor and calls stop() of
\* every engine in the list, which goes on for those that run.
ManagerStop ==
  /\ mgr = "running" /\ mon # "cleanup"
  /\ mgr' = "stopping"
  /\ CancelMonitor
  /\ by' = [e \in Engine |-> IF e \in pool /\ Running(e) THEN "manager" ELSE by[e]]
  /\ UNCHANGED <<pool, depth, loop, beat, handler, signals, queued, late>>

\* The gather returns when every stop() it called has returned or raised; the
\* list is cleared.
AllStoppedInPool == \A e \in pool : state[e] \in {"done", "failed"}
AllStopped == \A e \in Engine : by[e] = "manager" => state[e] \in {"done", "failed"}
ManagerStopped ==
  /\ mgr = "stopping" /\ mon # "cleanup" /\ AllStopped
  /\ mgr' = "stopped" /\ pool' = {}
  /\ UNCHANGED <<mon, depth, idleList, engineVars, taskVars, swallowed>>

\* The main coroutine returns and asyncio.run cancels whatever is left.
Exit ==
  /\ mgr = "stopped"
  /\ mgr' = "exited" /\ mon' = "off" /\ idleList' = {} /\ pool' = {}
  /\ lost' = lost \cup LossOf(held)
  /\ held' = [e \in Engine |-> {}]
  /\ awaited' = [e \in Engine |-> {}]
  /\ state' = [e \in Engine |-> "none"]
  /\ by' = [e \in Engine |-> "nobody"]
  /\ loop' = [e \in Engine |-> "off"]
  /\ handler' = NoEngine
  /\ UNCHANGED <<depth, beat, signals, queued, late, swallowed>>

\* SIGTERM or SIGINT: only the engine that installed its handler last stops.
Signal(e) ==
  /\ signals < MaxSignals
  /\ handler = e /\ Running(e)
  /\ signals' = signals + 1
  /\ state' = [state EXCEPT ![e] = "heart"]
  /\ by' = [by EXCEPT ![e] = "signal"]
  /\ UNCHANGED <<mgr, poolVars, loop, beat, handler, taskVars, swallowed>>

-----------------------------------------------------------------------------
(* The fetch loop, the heartbeat and the tasks of an engine.               *)

ExitsNever(e) == FALSE
Exits(e) == ~Running(e)

\* consume() returns a payload, also after stop(): its task is created, and
\* the loop tests _running, then waits for a permit.
Pop(e, p) ==
  /\ loop[e] = "fetch" /\ p \in queued
  /\ queued' = queued \ {p}
  /\ held' = [held EXCEPT ![e] = @ \cup {p}]
  /\ late' = IF Running(e) THEN late ELSE late \cup {p}
  /\ loop' = [loop EXCEPT ![e] = CASE Exits(e) -> "off"
                                   [] Cardinality(held[e]) + 1 < Concurrency -> "fetch"
                                   [] OTHER -> "blocked"]
  /\ UNCHANGED <<mgr, poolVars, state, by, beat, handler, signals, awaited, lost, swallowed>>

\* consume() returns nothing: a running engine fetches again, unchanged.
PopTimeout(e) ==
  /\ loop[e] = "fetch" /\ Exits(e)
  /\ loop' = [loop EXCEPT ![e] = "off"]
  /\ UNCHANGED <<mgr, poolVars, state, by, beat, handler, signals, taskVars, swallowed>>

\* semaphore.acquire() returns.
HasPermitOrNone(e) == Cardinality(held[e]) <= Concurrency
HasPermit(e) == Cardinality(held[e]) < Concurrency
Acquire(e) ==
  /\ loop[e] = "blocked" /\ HasPermit(e)
  /\ loop' = [loop EXCEPT ![e] = IF Exits(e) THEN "off" ELSE "fetch"]
  /\ UNCHANGED <<mgr, poolVars, state, by, beat, handler, signals, taskVars, swallowed>>

\* _process_payload ends: the task is settled, or goes back for a retry.
Finish(e, p) ==
  /\ p \in held[e]
  /\ held' = [held EXCEPT ![e] = @ \ {p}]
  /\ awaited' = [awaited EXCEPT ![e] = @ \ {p}]
  /\ late' = late \ {p}
  /\ queued' \in {queued, queued \cup {p}}
  /\ UNCHANGED <<mgr, poolVars, engineVars, lost, swallowed>>

\* Mutant of Beats: SET instead of SETEX, a key that stays.
BeatsForever(e) == TRUE

\* The key lives for three intervals after the last SETEX of the heartbeat
\* loop, which stop() cancels; it outlives the DELETE of a stop() that goes on.
Beats(e) == Running(e)
KeyExpires(e) ==
  /\ e \in beat /\ ~Beats(e) /\ state[e] \in Ended
  /\ beat' = beat \ {e}
  /\ UNCHANGED <<mgr, poolVars, state, by, loop, handler, signals, taskVars, swallowed>>

\* The API publishes the payload of another task.
Publish(p) ==
  /\ p \notin queued
  /\ \A e \in Engine : p \notin held[e]
  /\ \A l \in lost : l.payload # p
  /\ queued' = queued \cup {p}
  /\ UNCHANGED <<mgr, poolVars, engineVars, held, awaited, late, lost, swallowed>>

-----------------------------------------------------------------------------
MonitorStep == \/ MonitorRead \/ MonitorFails
               \/ \E e \in Engine : CleanupNext(e)
               \/ MonitorScale
               \/ MonitorWake
StopStep(e) == StopHeart(e) \/ StopClose(e) \/ StopRaises(e) \/ StopGather(e)
FetchStep(e) == PopTimeout(e) \/ Acquire(e) \/ \E p \in Payload : Pop(e, p)

Next ==
  \/ ManagerStart \/ ManagerStop \/ ManagerStopped \/ Exit
  \/ MonitorStep
  \/ \E e \in Engine : \/ StopStep(e) \/ FetchStep(e) \/ Signal(e)
                       \/ KeyExpires(e)
                       \/ \E p \in Payload : Finish(e, p)
  \/ \E p \in Payload : Publish(p)

\* The event loop resumes whoever can go on; every await of a stop, a fetch
\* or a task ends; keys expire.  Nothing makes the manager stop.
Fairness ==
  /\ WF_vars(MonitorStep)
  /\ WF_vars(ManagerStopped) /\ WF_vars(Exit)
  /\ \A e \in Engine : /\ WF_vars(StopStep(e))
                       /\ WF_vars(FetchStep(e))
                       /\ WF_vars(KeyExpires(e))
                       /\ \A p \in Payload : WF_vars(Finish(e, p))

Spec == Init /\ [][Next]_vars /\ Fairness

-----------------------------------------------------------------------------
\* Tasks and fetch of an engine together have a permit each.
WithinPermits(e) ==
  Cardinality(held[e]) + (IF loop[e] = "fetch" THEN 1 ELSE 0) <= Concurrency

Types ==
  /\ mgr \in Manager /\ mon \in Monitor /\ depth \in Nat
  /\ pool \subseteq Engine /\ idleList \subseteq Engine
  /\ beat \subseteq Engine
  /\ handler \in Engine \cup {NoEngine} /\ signals \in 0..MaxSignals
  /\ state \in [Engine -> Stopping \cup Ended \cup {"run"}]
  /\ by \in [Engine -> Caller]
  /\ loop \in [Engine -> {"off", "fetch", "blocked"}]
  /\ queued \subseteq Payload /\ late \subseteq Payload
  /\ held \in [Engine -> SUBSET Payload] /\ awaited \in [Engine -> SUBSET Payload]
  /\ lost \subseteq Loss
  /\ swallowed \in BOOLEAN

\* Types, and the semaphore of start(): no engine has more coroutines than
\* permits, although stop() leaves tasks behind and fetches come back late.
TypeOK == Types /\ \A e \in Engine : WithinPermits(e)

\* While the manager runs, the list stays between floor and ceiling,
\* whatever was stopped, removed or read between two awaits of the monitor
\* (_cleanup_idle_workers, _monitor_loop), and every engine that runs is in
\* it, so that manager.stop() can reach it.
PoolWithinBounds ==
  mgr = "running" => /\ Floor <= Cardinality(pool)
                     /\ Cardinality(pool) <= MaxWorkers
                     /\ \A e \in Engine : Running(e) => e \in pool

\* An engine that the manager's own stop() stopped loses only what it fetched
\* after that stop began, unless the stop raised in heartbeat.stop() or in
\* http_executor.close(), before its gather (engine.stop, lines 87-99).  The
\* other losses are those of an engine that someone else was stopping, or that
\* nobody stops.
LossOnlyLate == \A l \in lost : l.by = "manager" => l.late \/ l.failed

\* An engine runs beside a stopped manager only if heartbeat.stop() swallowed
\* the cancellation of the monitor, which then scaled up once more.
StrayOnlyIfSwallowed ==
  (mgr = "stopped" /\ \E e \in Engine : Running(e)) => swallowed

\* GET /workers/status counts heartbeat keys: an engine that no longer runs
\* disappears from it, by the DELETE of its stop() or because its key expires.
DeadWorkersVanish ==
  \A e \in Engine : (e \in beat /\ ~Running(e)) ~> (e \notin beat \/ Running(e))

\* The start() loop of an engine that was stopped ends, also when it was
\* waiting for a permit or for a payload.
StoppedLoopEnds == \A e \in Engine : (state[e] \in Stopping) ~> (loop[e] = "off")

\* Once asked to stop, the manager stops and the process ends.
ShutdownCompletes == (mgr = "stopping") ~> (mgr = "exited")
=============================================================================
