---------------------------- MODULE ScanPipeline ----------------------------
(***************************************************************************)
(* One scan of the execution engine, from the API request that submits its *)
(* tasks to the workers that settle them: the rows of the tables scans,    *)
(* tasks and scan_responses, the Redis keys of one queue (the four         *)
(* priority lists taken together, the delayed sorted set and the dead      *)
(* letter list), the worker engines with their fetch loop and the          *)
(* concurrent _process_payload coroutines (one per semaphore permit).      *)
(*                                                                         *)
(* Every await on the database or on Redis ends a step, so a row that a    *)
(* coroutine has loaded may be stale when it commits.  SQLAlchemy writes   *)
(* the columns whose new value differs from the LOADED one; an UPDATE of a *)
(* deleted row, or an INSERT that breaks a foreign key or a unique key,    *)
(* raises and the handler rolls back.                                      *)
(*                                                                         *)
(* Abstracted: request data, event publication, metrics, the rate          *)
(* limiter's clock (its verdict is a choice), and the order of the ready   *)
(* lists (module TaskQueue has it).                                        *)
(***************************************************************************)
EXTENDS Naturals, FiniteSets

CONSTANTS
  Task,          \* the tasks submitted to the scan
  Request,       \* the POST /scans/{id}/tasks requests that submit them
  ReqOf,         \* ReqOf[t]: the request that submits task t
  RetryCount,    \* RetryCount[t]: the task's max_retries
  Engine,        \* the WorkerEngine objects that consume this queue
  Slot,          \* the semaphore permits of all engines
  EngineOf,      \* EngineOf[s]: the engine whose semaphore s belongs to
  PromoteBatch,  \* num of the ZRANGEBYSCORE (50 in the code)
  NoJob,         \* stands for "no payload"
  Faults         \* the failures that may happen

FaultKind == {"crash", "redis", "db", "abort", "delete"}

ASSUME ConstantsAssumption ==
  /\ ReqOf \in [Task -> Request]
  /\ RetryCount \in [Task -> Nat]
  /\ EngineOf \in [Slot -> Engine]
  /\ PromoteBatch \in Nat \ {0}
  /\ Faults \subseteq FaultKind

\* A QueuePayload: its task and how often it has been retried.
Payload == UNION {[task : {t}, attempt : 0..RetryCount[t]] : t \in Task}

ASSUME NoJobAssumption == NoJob \notin Payload

VARIABLES
  scan,       \* scans.status, "DELETED" once the row is gone
  status,     \* tasks.status, "ABSENT" while there is no row
  attempts,   \* tasks.attempts
  resp,       \* scan_responses.error_message: no row, NULL or a message
  req,        \* where each submit_tasks coroutine is
  ready,      \* copies of each payload in the priority lists
  delayed,    \* members of the delayed sorted set
  due,        \* those whose score has been reached
  dlq,        \* payloads in the dead letter list
  fetch,      \* where each engine's start() loop is
  read,       \* the due_tasks each engine has read
  cutoff,     \* the members whose score is at most the engine's `now`
  pc,         \* where each _process_payload coroutine is
  job,        \* the payload it processes
  out,        \* the outcome of its HTTP request
  mem,        \* what its open database session has loaded
  hit         \* history: tasks hit by a failure in Faults or by an overflow

dbVars    == <<scan, status, attempts, resp>>
queueVars == <<ready, delayed, due, dlq>>
fetchVars == <<fetch, read, cutoff>>
slotVars  == <<pc, job, out, mem>>
vars == <<dbVars, req, queueVars, fetchVars, slotVars, hit>>

ScanStatus == {"PENDING", "RUNNING", "COMPLETED", "FAILED", "DELETED"}
TaskStatus == {"QUEUED", "PROCESSING", "RETRYING", "SUCCESS", "FAILED", "ABSENT"}
Pending    == {"QUEUED", "PROCESSING", "RETRYING"}
Row        == {"none", "ok", "error"}
ReqPc      == {"load", "open", "store", "publish", "done"}
FetchPc    == {"ready", "promote", "pop"}
SlotPc     == {"idle", "mark", "marking", "send", "save", "saveRow", "saving",
               "evalScan", "evalTasks", "evalCommit", "update", "updating",
               "schedule", "bury"}
Outcome    == {"none", "success", "failure", "limited"}
Mem        == [status : TaskStatus, attempts : Nat, resp : Row, scan : ScanStatus,
               verdict : ScanStatus]
NoMem      == [status |-> "ABSENT", attempts |-> 0, resp |-> "none",
               scan |-> "DELETED", verdict |-> "DELETED"]

Init ==
  /\ scan = "PENDING"
  /\ status = [t \in Task |-> "ABSENT"]
  /\ attempts = [t \in Task |-> 0]
  /\ resp = [t \in Task |-> "none"]
  /\ req = [r \in Request |-> "load"]
  /\ ready = [p \in Payload |-> 0]
  /\ delayed = {} /\ due = {} /\ dlq = {}
  /\ fetch = [e \in Engine |-> "ready"]
  /\ read = [e \in Engine |-> {}]
  /\ cutoff = [e \in Engine |-> {}]
  /\ pc = [s \in Slot |-> "idle"]
  /\ job = [s \in Slot |-> NoJob]
  /\ out = [s \in Slot |-> "none"]
  /\ mem = [s \in Slot |-> NoMem]
  /\ hit = {}

-----------------------------------------------------------------------------
(* submit_tasks: POST /scans/{id}/tasks.                                   *)

TasksOf(r) == {t \in Task : ReqOf[t] = r}

\* db.get: 404 without the scan; only a PENDING scan is opened.
LoadScan(r) ==
  /\ req[r] = "load"
  /\ req' = [req EXCEPT ![r] = CASE scan = "DELETED" -> "done"
                                 [] scan = "PENDING" -> "open"
                                 [] OTHER            -> "store"]
  /\ UNCHANGED <<dbVars, queueVars, fetchVars, slotVars, hit>>

\* The commit that sets RUNNING, whatever the row says by now.
OpenScan(r) ==
  /\ req[r] = "open"
  /\ IF scan = "DELETED"
       THEN req' = [req EXCEPT ![r] = "done"] /\ UNCHANGED scan
       ELSE req' = [req EXCEPT ![r] = "store"] /\ scan' = "RUNNING"
  /\ UNCHANGED <<status, attempts, resp, queueVars, fetchVars, slotVars, hit>>

\* One commit inserts every task row; the foreign key needs the scan.
StoreTasks(r) ==
  /\ req[r] = "store"
  /\ IF scan = "DELETED"
       THEN req' = [req EXCEPT ![r] = "done"] /\ UNCHANGED status
       ELSE /\ req' = [req EXCEPT ![r] = "publish"]
            /\ status' = [t \in Task |-> IF ReqOf[t] = r THEN "QUEUED" ELSE status[t]]
  /\ UNCHANGED <<scan, attempts, resp, queueVars, fetchVars, slotVars, hit>>

\* publish_batch: one MULTI pushes every payload.
PublishTasks(r) ==
  /\ req[r] = "publish"
  /\ req' = [req EXCEPT ![r] = "done"]
  /\ ready' = [p \in Payload |-> IF ReqOf[p.task] = r /\ p.attempt = 0
                                   THEN ready[p] + 1 ELSE ready[p]]
  /\ UNCHANGED <<dbVars, delayed, due, dlq, fetchVars, slotVars, hit>>

\* The MULTI fails: publish_batch returns 0 and the request still answers 202.
PublishFails(r) ==
  /\ "redis" \in Faults
  /\ req[r] = "publish"
  /\ req' = [req EXCEPT ![r] = "done"]
  /\ hit' = hit \cup TasksOf(r)
  /\ UNCHANGED <<dbVars, queueVars, fetchVars, slotVars>>

\* The request times out (the middleware cancels it after 30s) or fails.
AbortRequest(r) ==
  /\ "abort" \in Faults
  /\ req[r] # "done"
  /\ req' = [req EXCEPT ![r] = "done"]
  /\ hit' = IF req[r] = "publish" THEN hit \cup TasksOf(r) ELSE hit
  /\ UNCHANGED <<dbVars, queueVars, fetchVars, slotVars>>

\* DELETE /scans/{id}: cascades to tasks and responses, not to Redis.
DeleteScan ==
  /\ "delete" \in Faults
  /\ scan # "DELETED"
  /\ scan' = "DELETED"
  /\ status' = [t \in Task |-> "ABSENT"]
  /\ attempts' = [t \in Task |-> 0]
  /\ resp' = [t \in Task |-> "none"]
  /\ UNCHANGED <<req, queueVars, fetchVars, slotVars, hit>>

RequestStep(r) ==
  LoadScan(r) \/ OpenScan(r) \/ StoreTasks(r) \/ PublishTasks(r)

-----------------------------------------------------------------------------
(* WorkerEngine.start and QueueConsumer.consume: one fetch at a time.      *)

FreeSlot(e) == \E s \in Slot : EngineOf[s] = e /\ pc[s] = "idle"

\* Time passes: a delayed payload's score is reached.
BecomeDue(p) ==
  /\ p \in delayed \ due
  /\ due' = due \cup {p}
  /\ UNCHANGED <<dbVars, req, ready, delayed, dlq, fetchVars, slotVars, hit>>

\* A permit is taken, then `now` and ZRANGEBYSCORE 0 now LIMIT 0 50.
ReadDue(e) ==
  /\ fetch[e] = "ready"
  /\ FreeSlot(e)
  /\ \E batch \in SUBSET due :
       /\ batch # due => Cardinality(batch) = PromoteBatch
       /\ Cardinality(batch) <= PromoteBatch
       /\ read' = [read EXCEPT ![e] = batch]
       /\ cutoff' = [cutoff EXCEPT ![e] = due]
       /\ fetch' = [fetch EXCEPT ![e] = IF batch = {} THEN "pop" ELSE "promote"]
  /\ UNCHANGED <<dbVars, req, queueVars, slotVars, hit>>

\* Mutants of Removed: forget the ZREM, or take a new `now` for it.
RemovedNothing(e) == {}
RemovedLate(e)    == due

\* ZREMRANGEBYSCORE 0 now, with the `now` of the read.
Removed(e) == cutoff[e]

\* The MULTI: RPUSH what was read, remove the range.
Promote(e) ==
  /\ fetch[e] = "promote"
  /\ fetch' = [fetch EXCEPT ![e] = "pop"]
  /\ ready' = [p \in Payload |-> IF p \in read[e] THEN ready[p] + 1 ELSE ready[p]]
  /\ delayed' = delayed \ Removed(e)
  /\ due' = due \ Removed(e)
  /\ read' = [read EXCEPT ![e] = {}]
  /\ cutoff' = [cutoff EXCEPT ![e] = {}]
  /\ hit' = hit \cup {p.task : p \in cutoff[e] \ read[e]}
  /\ UNCHANGED <<dbVars, req, dlq, slotVars>>

\* A Redis error in _process_delayed_tasks is logged; consume goes on to BLPOP.
PromoteFails(e) ==
  /\ "redis" \in Faults
  /\ fetch[e] = "promote"
  /\ fetch' = [fetch EXCEPT ![e] = "pop"]
  /\ read' = [read EXCEPT ![e] = {}]
  /\ cutoff' = [cutoff EXCEPT ![e] = {}]
  /\ UNCHANGED <<dbVars, req, queueVars, slotVars, hit>>

\* BLPOP returns a payload: create_task(_process_payload).
Pop(e) ==
  /\ fetch[e] = "pop"
  /\ fetch' = [fetch EXCEPT ![e] = "ready"]
  /\ \E p \in Payload, s \in Slot :
       /\ ready[p] > 0
       /\ EngineOf[s] = e /\ pc[s] = "idle"
       /\ ready' = [ready EXCEPT ![p] = @ - 1]
       /\ pc' = [pc EXCEPT ![s] = "mark"]
       /\ job' = [job EXCEPT ![s] = p]
  /\ UNCHANGED <<dbVars, req, delayed, due, dlq, read, cutoff, out, mem, hit>>

\* BLPOP returns nil after fetch_timeout: the permit is released.
PopTimeout(e) ==
  /\ fetch[e] = "pop"
  /\ \A p \in Payload : ready[p] = 0
  /\ fetch' = [fetch EXCEPT ![e] = "ready"]
  /\ UNCHANGED <<dbVars, req, queueVars, read, cutoff, slotVars, hit>>

\* The connection drops on BLPOP; the popped element may be lost with the reply.
PopFails(e) ==
  /\ "redis" \in Faults
  /\ fetch[e] = "pop"
  /\ fetch' = [fetch EXCEPT ![e] = "ready"]
  /\ \/ UNCHANGED <<ready, hit>>
     \/ \E p \in Payload : /\ ready[p] > 0
                           /\ ready' = [ready EXCEPT ![p] = @ - 1]
                           /\ hit' = hit \cup {p.task}
  /\ UNCHANGED <<dbVars, req, delayed, due, dlq, read, cutoff, slotVars>>

FetchStep(e) == ReadDue(e) \/ Promote(e) \/ Pop(e) \/ PopTimeout(e)

-----------------------------------------------------------------------------
(* WorkerEngine._process_payload, one coroutine per permit.                *)

TaskOf(s) == job[s].task

Goto(s, l) == pc' = [pc EXCEPT ![s] = l]
Forget(s)  == mem' = [mem EXCEPT ![s] = NoMem]

\* The coroutine ends: the permit is released.
Finish(s) ==
  /\ pc'  = [pc EXCEPT ![s] = "idle"]
  /\ job' = [job EXCEPT ![s] = NoJob]
  /\ out' = [out EXCEPT ![s] = "none"]

\* A column assigned by the ORM: written only if it differs from the loaded value.
Written(current, loaded, assigned) == IF assigned = loaded THEN current ELSE assigned

\* session.get(Task): without a row the two status writers do nothing.
LoadTask(s, there, absent) ==
  IF status[TaskOf(s)] = "ABSENT"
    THEN Goto(s, absent) /\ UNCHANGED mem
    ELSE /\ Goto(s, there)
         /\ mem' = [mem EXCEPT ![s] = [NoMem EXCEPT !.status = status[TaskOf(s)]]]

\* Mutant of WriteStatus: insert or update.
UpsertStatus(s, new) ==
  status' = [status EXCEPT ![TaskOf(s)] = Written(@, mem[s].status, new)]

\* The commit of a status: nothing happens to a row deleted since.
WriteStatus(s, new) ==
  status' = [status EXCEPT ![TaskOf(s)] =
               IF @ = "ABSENT" THEN @ ELSE Written(@, mem[s].status, new)]

MarkLoad(s) ==
  /\ pc[s] = "mark"
  /\ LoadTask(s, "marking", "send")
  /\ UNCHANGED <<dbVars, req, queueVars, fetchVars, job, out, hit>>

MarkCommit(s) ==
  /\ pc[s] = "marking"
  /\ WriteStatus(s, "PROCESSING")
  /\ Goto(s, "send") /\ Forget(s)
  /\ UNCHANGED <<scan, attempts, resp, req, queueVars, fetchVars, job, out, hit>>

\* acquire() gives up ("limited"), or the HTTP request ends: 429 or an exception
\* is a failure, any other answer a success.
Send(s) ==
  /\ pc[s] = "send"
  /\ \E o \in Outcome \ {"none"} : out' = [out EXCEPT ![s] = o]
  /\ Goto(s, "save")
  /\ UNCHANGED <<dbVars, req, queueVars, fetchVars, job, mem, hit>>

TaskVerdict(s) == IF out[s] = "success" THEN "SUCCESS" ELSE "FAILED"
RowVerdict(s)  == IF out[s] = "success" THEN "ok" ELSE "error"

SaveLoad(s) ==
  /\ pc[s] = "save"
  /\ Goto(s, "saveRow")
  /\ mem' = [mem EXCEPT ![s] = [NoMem EXCEPT !.status = status[TaskOf(s)],
                                             !.attempts = attempts[TaskOf(s)]]]
  /\ UNCHANGED <<dbVars, req, queueVars, fetchVars, job, out, hit>>

SaveLoadRow(s) ==
  /\ pc[s] = "saveRow"
  /\ Goto(s, "saving")
  /\ mem' = [mem EXCEPT ![s].resp = resp[TaskOf(s)]]
  /\ UNCHANGED <<dbVars, req, queueVars, fetchVars, job, out, hit>>

\* Mutant of AfterSave: the rate limited task is not buried.
AfterSaveUnburied(s) ==
  IF out[s] = "failure" THEN Goto(s, "update") /\ UNCHANGED <<job, out>> ELSE Finish(s)

\* After _save_response: done, _handle_retry, or (rate limited) the dead letter list.
AfterSave(s) ==
  CASE out[s] = "success" -> Finish(s)
    [] out[s] = "failure" -> Goto(s, "update") /\ UNCHANGED <<job, out>>
    [] OTHER              -> Goto(s, "bury") /\ UNCHANGED <<job, out>>

\* The commit fails on a deleted task or scan and on a response row inserted since.
SaveConflict(s) ==
  \/ status[TaskOf(s)] = "ABSENT"
  \/ mem[s].status = "ABSENT"
  \/ mem[s].resp = "none" /\ resp[TaskOf(s)] # "none"

\* Mutant of Counted: an attempt that fails is not counted.
CountedSuccess(s) == mem[s].attempts + IF out[s] = "success" THEN 1 ELSE 0

\* attempts += 1, computed from the loaded value.
Counted(s) == mem[s].attempts + 1

SaveCommit(s) ==
  LET t == TaskOf(s) IN
  /\ pc[s] = "saving"
  /\ ~SaveConflict(s)
  /\ status' = [status EXCEPT ![t] = Written(@, mem[s].status, TaskVerdict(s))]
  /\ attempts' = [attempts EXCEPT ![t] = Counted(s)]
  /\ resp' = [resp EXCEPT ![t] = Written(@, mem[s].resp, RowVerdict(s))]
  /\ Goto(s, "evalScan") /\ Forget(s)
  /\ UNCHANGED <<scan, req, queueVars, fetchVars, job, out, hit>>

\* The exception is swallowed by _save_response: no evaluation.
SaveRollback(s) ==
  /\ pc[s] = "saving"
  /\ SaveConflict(s)
  /\ AfterSave(s) /\ Forget(s)
  /\ UNCHANGED <<dbVars, req, queueVars, fetchVars, hit>>

-----------------------------------------------------------------------------
(* _evaluate_scan_completion.                                              *)

EvalScan(s) ==
  /\ pc[s] = "evalScan"
  /\ IF scan = "DELETED"
       THEN AfterSave(s) /\ UNCHANGED mem
       ELSE /\ Goto(s, "evalTasks")
            /\ mem' = [mem EXCEPT ![s] = [NoMem EXCEPT !.scan = scan]]
            /\ UNCHANGED <<job, out>>
  /\ UNCHANGED <<dbVars, req, queueVars, fetchVars, hit>>

Stored == {t \in Task : status[t] # "ABSENT"}

\* Mutants of TooEarly and Verdict.
TooEarlyIfFailed  == \E t \in Stored : status[t] # "SUCCESS"
VerdictAnySuccess == IF \E t \in Stored : status[t] = "SUCCESS" THEN "COMPLETED" ELSE "FAILED"

TooEarly == Stored = {} \/ \E t \in Stored : status[t] \in Pending
Verdict  == IF \A t \in Stored : status[t] = "SUCCESS" THEN "COMPLETED" ELSE "FAILED"

\* SELECT status: return on no row or a pending one, else decide.
EvalTasks(s) ==
  /\ pc[s] = "evalTasks"
  /\ IF TooEarly
       THEN AfterSave(s) /\ Forget(s)
       ELSE /\ Goto(s, "evalCommit")
            /\ mem' = [mem EXCEPT ![s].verdict = Verdict]
            /\ UNCHANGED <<job, out>>
  /\ UNCHANGED <<dbVars, req, queueVars, fetchVars, hit>>

EvalCommit(s) ==
  /\ pc[s] = "evalCommit"
  /\ scan' = IF scan = "DELETED" THEN scan
             ELSE Written(scan, mem[s].scan, mem[s].verdict)
  /\ AfterSave(s) /\ Forget(s)
  /\ UNCHANGED <<status, attempts, resp, req, queueVars, fetchVars, hit>>

-----------------------------------------------------------------------------
(* _handle_retry: _update_task_status, then schedule_delayed or send_to_dlq. *)

\* Mutant of RetriesLeft: one retry too many.
RetriesLeftOrEqual(s) == job[s].attempt <= RetryCount[TaskOf(s)]

RetriesLeft(s) == job[s].attempt < RetryCount[TaskOf(s)]
AfterUpdate(s) == IF RetriesLeft(s) THEN "schedule" ELSE "bury"

UpdateLoad(s) ==
  /\ pc[s] = "update"
  /\ LoadTask(s, "updating", AfterUpdate(s))
  /\ UNCHANGED <<dbVars, req, queueVars, fetchVars, job, out, hit>>

UpdateCommit(s) ==
  /\ pc[s] = "updating"
  /\ WriteStatus(s, IF RetriesLeft(s) THEN "RETRYING" ELSE "FAILED")
  /\ Goto(s, AfterUpdate(s)) /\ Forget(s)
  /\ UNCHANGED <<scan, attempts, resp, req, queueVars, fetchVars, job, out, hit>>

\* ZADD with a score in the future: a new member, or a new score for an old one,
\* which takes it out of every range that was read before.
Schedule(s) ==
  LET p == [job[s] EXCEPT !.attempt = @ + 1] IN
  /\ pc[s] = "schedule"
  /\ delayed' = delayed \cup {p}
  /\ due' = due \ {p}
  /\ cutoff' = [e \in Engine |-> cutoff[e] \ {p}]
  /\ Finish(s)
  /\ UNCHANGED <<dbVars, req, ready, dlq, fetch, read, mem, hit>>

\* schedule_delayed returns False, which _handle_retry ignores.
ScheduleFails(s) ==
  /\ "redis" \in Faults
  /\ pc[s] = "schedule"
  /\ hit' = hit \cup {TaskOf(s)}
  /\ Finish(s)
  /\ UNCHANGED <<dbVars, req, queueVars, fetchVars, mem>>

Bury(s) ==
  /\ pc[s] = "bury"
  /\ dlq' = dlq \cup {job[s]}
  /\ Finish(s)
  /\ UNCHANGED <<dbVars, req, ready, delayed, due, fetchVars, mem, hit>>

\* send_to_dlq returns False, which nobody reads.
BuryFails(s) ==
  /\ "redis" \in Faults
  /\ pc[s] = "bury"
  /\ hit' = hit \cup {TaskOf(s)}
  /\ Finish(s)
  /\ UNCHANGED <<dbVars, req, queueVars, fetchVars, mem>>

\* A database error: every session rolls back, logs and returns.
DbError(s) ==
  /\ "db" \in Faults
  /\ \/ pc[s] \in {"mark", "marking"} /\ Goto(s, "send") /\ UNCHANGED <<job, out, hit>>
     \/ /\ pc[s] \in {"save", "saveRow", "saving"}
        /\ AfterSave(s)
        /\ hit' = hit \cup {TaskOf(s)}
     \/ /\ pc[s] \in {"evalScan", "evalTasks", "evalCommit"}
        /\ AfterSave(s) /\ UNCHANGED hit
     \/ /\ pc[s] \in {"update", "updating"}
        /\ Goto(s, AfterUpdate(s)) /\ UNCHANGED <<job, out, hit>>
  /\ Forget(s)
  /\ UNCHANGED <<dbVars, req, queueVars, fetchVars>>

SlotStep(s) ==
  \/ MarkLoad(s) \/ MarkCommit(s) \/ Send(s)
  \/ SaveLoad(s) \/ SaveLoadRow(s) \/ SaveCommit(s) \/ SaveRollback(s)
  \/ EvalScan(s) \/ EvalTasks(s) \/ EvalCommit(s)
  \/ UpdateLoad(s) \/ UpdateCommit(s) \/ Schedule(s) \/ Bury(s)

\* The process dies and is started again: nothing in memory survives, and no one
\* gives its payloads back to the queue.
Crash(e) ==
  /\ "crash" \in Faults
  /\ hit' = hit \cup {TaskOf(s) : s \in {x \in Slot : EngineOf[x] = e /\ pc[x] # "idle"}}
  /\ pc'  = [s \in Slot |-> IF EngineOf[s] = e THEN "idle" ELSE pc[s]]
  /\ job' = [s \in Slot |-> IF EngineOf[s] = e THEN NoJob ELSE job[s]]
  /\ out' = [s \in Slot |-> IF EngineOf[s] = e THEN "none" ELSE out[s]]
  /\ mem' = [s \in Slot |-> IF EngineOf[s] = e THEN NoMem ELSE mem[s]]
  /\ fetch'  = [fetch EXCEPT ![e] = "ready"]
  /\ read'   = [read EXCEPT ![e] = {}]
  /\ cutoff' = [cutoff EXCEPT ![e] = {}]
  /\ UNCHANGED <<dbVars, req, queueVars>>

-----------------------------------------------------------------------------

Next ==
  \/ \E r \in Request : RequestStep(r) \/ PublishFails(r) \/ AbortRequest(r)
  \/ DeleteScan
  \/ \E p \in Payload : BecomeDue(p)
  \/ \E e \in Engine : FetchStep(e) \/ PromoteFails(e) \/ PopFails(e) \/ Crash(e)
  \/ \E s \in Slot : SlotStep(s) \/ ScheduleFails(s) \/ BuryFails(s) \/ DbError(s)

Spec == Init /\ [][Next]_vars

\* The event loop resumes every coroutine whose await has ended, the awaits have
\* timeouts, and time passes.
Fairness ==
  /\ \A r \in Request : WF_vars(RequestStep(r))
  /\ \A p \in Payload : WF_vars(BecomeDue(p))
  /\ \A e \in Engine : WF_vars(FetchStep(e))
  /\ \A s \in Slot : WF_vars(SlotStep(s))

FairSpec == Spec /\ Fairness
-----------------------------------------------------------------------------
(* Properties.                                                             *)

\* Every variable has the shape of the row, key or local it stands for; a coroutine
\* that runs has a payload, and one that schedules a retry has a retry left.
TypeOK ==
  /\ scan \in ScanStatus
  /\ status \in [Task -> TaskStatus]
  /\ attempts \in [Task -> Nat]
  /\ resp \in [Task -> Row]
  /\ req \in [Request -> ReqPc]
  /\ ready \in [Payload -> Nat]
  /\ delayed \subseteq Payload
  /\ due \subseteq delayed
  /\ dlq \subseteq Payload
  /\ fetch \in [Engine -> FetchPc]
  /\ read \in [Engine -> SUBSET Payload]
  /\ cutoff \in [Engine -> SUBSET Payload]
  /\ pc \in [Slot -> SlotPc]
  /\ job \in [Slot -> Payload \cup {NoJob}]
  /\ \A s \in Slot : pc[s] # "idle" => job[s] \in Payload
  /\ \A s \in Slot : pc[s] = "schedule" => RetriesLeft(s)
  /\ out \in [Slot -> Outcome]
  /\ mem \in [Slot -> Mem]
  /\ hit \subseteq Task

\* Where a task's next step can come from.
Submitting(t) == req[ReqOf[t]] = "publish"
Queued(t)     == \E p \in Payload : p.task = t /\ (ready[p] > 0 \/ p \in delayed)
Holds(s, t)   == pc[s] # "idle" /\ TaskOf(s) = t
InHand(t)     == \E s \in Slot : Holds(s, t)
Carried(t)    == Submitting(t) \/ Queued(t) \/ InHand(t)

\* With one engine a task is in one place at a time: being published, once in one
\* of the queues, or in one coroutine.  Nothing in the code says so; it follows
\* from the order of RPUSH, BLPOP, ZADD and the promotion's MULTI.
OneCarrier ==
  \A t \in Task :
    /\ ~(Submitting(t) /\ (Queued(t) \/ InHand(t)))
    /\ ~(Queued(t) /\ InHand(t))
    /\ \A a, b \in Slot : Holds(a, t) /\ Holds(b, t) => a = b
    /\ \A p, q \in Payload :
         /\ p.task = t /\ q.task = t
         /\ ready[p] > 0 \/ p \in delayed
         /\ ready[q] > 0 \/ q \in delayed
         => p = q
    /\ \A p \in Payload : p.task = t => /\ ready[p] <= 1
                                        /\ ~(ready[p] > 0 /\ p \in delayed)

\* A task whose row says it is still to be done is on its way to a worker, unless
\* one of the failures in Faults (or a promotion of more than PromoteBatch due
\* payloads) has hit it: there is no other way to strand a task.
NoStrandedTask ==
  \A t \in Task : status[t] \in Pending => Carried(t) \/ t \in hit

\* With one request and one engine, a scan says COMPLETED only when each of its
\* tasks has succeeded, whatever evaluators of other tasks have read before.
CompletedMeansSuccess ==
  scan = "COMPLETED" => \A t \in Task : status[t] = "SUCCESS"

\* The dead letter list holds exactly the tasks that have failed for good.
DeadLetterExact ==
  \A t \in Task :
    ~Carried(t) /\ t \notin hit /\ status[t] # "ABSENT" =>
      (status[t] = "FAILED" <=> \E p \in dlq : p.task = t)

\* The retry counter in the payload and the attempts column count the same thing,
\* although Redis carries the one and the database the other; and the response
\* row tells the outcome of the last attempt.
AttemptsAgree ==
  \A p \in Payload :
    LET t == p.task IN
    t \notin hit /\ status[t] # "ABSENT" =>
      /\ ready[p] > 0 \/ p \in delayed => attempts[t] = p.attempt
      /\ p \in dlq => attempts[t] = p.attempt + 1
      /\ ~Carried(t) => resp[t] = IF status[t] = "SUCCESS" THEN "ok" ELSE "error"

\* When nothing is left to do for a scan and no failure has hit it, the scan says
\* so: the evaluation that follows the last save is never the one that returns early.
QuietScanIsClosed ==
  /\ hit = {} /\ \A t \in Task : ~Carried(t)
  /\ \A r \in Request : req[r] = "done"
  => scan \notin {"PENDING", "RUNNING"}

Rows == INSTANCE ScanRows WITH Again    <- \E a, b \in Engine : a # b,
                               Verdicts <- {"RUNNING", "COMPLETED", "FAILED"},
                               Marks    <- {"PROCESSING", "RETRYING", "FAILED"}

\* What the readers of a scan may rely on (module ScanRows), whatever fails and however
\* many workers write: a status and its response are committed together, responses do
\* not go away, what is deleted stays deleted; and with one engine SUCCESS is final.
ImplementsScanRows == Rows!RowsSpec

\* A deleted scan and its tasks stay deleted, whatever workers and requests that
\* loaded them before still commit.
NoResurrection ==
  [][scan = "DELETED" => /\ scan' = "DELETED"
                         /\ \A t \in Task : status'[t] = "ABSENT" /\ resp'[t] = "none"]_vars

\* What _evaluate_scan_completion decides: a scan is marked finished only when none
\* of its tasks is queued, processing or waiting for a retry.
FinishedMeansNothingPending ==
  scan \in {"COMPLETED", "FAILED"} => \A t \in Task : status[t] \notin Pending

\* The comment of _process_payload's last handler: a payload that it gives up is
\* not left PROCESSING.
BuriedNotProcessing == \A p \in dlq : status[p.task] # "PROCESSING"

\* The docstring of _process_delayed_tasks: due payloads are moved to a list, so
\* that a task that waits for its retry is in the delayed set or on its way.
RetryingIsCarried == \A t \in Task : status[t] = "RETRYING" => Carried(t)

\* Every submitted task ends in SUCCESS or FAILED, in nobody's hands.
TasksSettle ==
  \A t \in Task : <>[](status[t] \in {"SUCCESS", "FAILED"} /\ ~Carried(t))

\* Every scan ends in COMPLETED or FAILED.
ScanSettles == <>[](scan \in {"COMPLETED", "FAILED"})

=============================================================================
