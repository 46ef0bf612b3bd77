------------------------- MODULE ScanPipelineProofs -------------------------
(***************************************************************************)
(* Theorems about ScanPipeline, for every value of its constants.          *)
(***************************************************************************)
EXTENDS ScanPipeline, TLAPS, FiniteSetTheorems

-----------------------------------------------------------------------------
(* Payloads.                                                               *)

\* A payload names a task and has been retried no more often than it may.
LEMMA PayloadShape ==
  ASSUME NEW p \in Payload
  PROVE  /\ p.task \in Task
         /\ p.attempt \in 0..RetryCount[p.task]
         /\ p = [task |-> p.task, attempt |-> p.attempt]
  BY DEF Payload

\* The payload of a retry is a payload of the same task.
LEMMA RetryPayload ==
  ASSUME NEW p \in Payload, p.attempt < RetryCount[p.task]
  PROVE  /\ [p EXCEPT !.attempt = @ + 1] \in Payload
         /\ [p EXCEPT !.attempt = @ + 1].task = p.task
<1> DEFINE t == p.task
<1> DEFINE q == [p EXCEPT !.attempt = @ + 1]
<1>1. t \in Task /\ p.attempt \in 0..RetryCount[t] /\ RetryCount[t] \in Nat
  BY PayloadShape, ConstantsAssumption
<1>2. q = [task |-> t, attempt |-> p.attempt + 1]
  BY PayloadShape
<1>3. p.attempt + 1 \in 0..RetryCount[t]
  BY <1>1
<1>4. q \in [task : {t}, attempt : 0..RetryCount[t]]
  BY <1>2, <1>3
<1>5. q \in Payload
  BY <1>1, <1>4 DEF Payload
<1> QED BY <1>2, <1>5

-----------------------------------------------------------------------------
(* Type correctness.                                                       *)

\* The initial state is well typed.
LEMMA InitType == Init => TypeOK
  BY ConstantsAssumption DEF Init, TypeOK, ScanStatus, TaskStatus, Row, ReqPc, FetchPc, SlotPc,
    Outcome, Mem, NoMem

\* A step of a submit_tasks request keeps the types.
LEMMA RequestType ==
  ASSUME TypeOK, NEW r \in Request,
         RequestStep(r) \/ PublishFails(r) \/ AbortRequest(r)
  PROVE  TypeOK'
<1> USE DEF RetriesLeft, TaskOf, dbVars, queueVars, fetchVars, slotVars, ScanStatus, TaskStatus, ReqPc
<1>1. CASE LoadScan(r)
  BY <1>1 DEF TypeOK, LoadScan
<1>2. CASE OpenScan(r)
  BY <1>2 DEF TypeOK, OpenScan
<1>3. CASE StoreTasks(r)
  BY <1>3 DEF TypeOK, StoreTasks
<1>4. CASE PublishTasks(r)
  BY <1>4 DEF TypeOK, PublishTasks
<1>5. CASE PublishFails(r)
  BY <1>5 DEF TypeOK, PublishFails, TasksOf
<1>6. CASE AbortRequest(r)
  BY <1>6 DEF TypeOK, AbortRequest, TasksOf
<1> QED BY <1>1, <1>2, <1>3, <1>4, <1>5, <1>6 DEF RequestStep

\* A step of a fetch loop, and a crash, keep the types.
LEMMA FetchType ==
  ASSUME TypeOK, NEW e \in Engine,
         FetchStep(e) \/ PromoteFails(e) \/ PopFails(e) \/ Crash(e)
  PROVE  TypeOK'
<1> USE DEF RetriesLeft, TaskOf, dbVars, queueVars, fetchVars, slotVars, FetchPc
<1>1. CASE ReadDue(e)
  BY <1>1 DEF TypeOK, ReadDue
<1>2. CASE Promote(e)
  BY <1>2, PayloadShape DEF TypeOK, Promote, Removed
<1>3. CASE Pop(e)
  BY <1>3 DEF TypeOK, Pop, SlotPc
<1>4. CASE PopTimeout(e)
  BY <1>4 DEF TypeOK, PopTimeout
<1>5. CASE PromoteFails(e)
  BY <1>5 DEF TypeOK, PromoteFails
<1>6. CASE PopFails(e)
  BY <1>6, PayloadShape DEF TypeOK, PopFails
<1>7. CASE Crash(e)
  BY <1>7, PayloadShape, NoJobAssumption DEF TypeOK, Crash, SlotPc, Outcome, Mem, NoMem, TaskStatus, Row, ScanStatus, TaskOf
<1> QED BY <1>1, <1>2, <1>3, <1>4, <1>5, <1>6, <1>7 DEF FetchStep

\* The exits of a coroutine keep the types of its local variables.
LEMMA FinishType ==
  ASSUME TypeOK, NEW s \in Slot, Finish(s)
  PROVE  /\ pc' \in [Slot -> SlotPc]
         /\ job' \in [Slot -> Payload \cup {NoJob}]
         /\ \A x \in Slot : pc'[x] # "idle" => job'[x] \in Payload
         /\ \A x \in Slot : pc'[x] = "schedule" => RetriesLeft(x)'
         /\ out' \in [Slot -> Outcome]
  BY NoJobAssumption DEF TypeOK, Finish, SlotPc, Outcome, RetriesLeft, TaskOf

\* What follows _save_response keeps them too: none of its exits schedules a retry.
LEMMA AfterSaveType ==
  ASSUME TypeOK, NEW s \in Slot, AfterSave(s), pc[s] # "idle"
  PROVE  /\ pc' \in [Slot -> SlotPc]
         /\ job' \in [Slot -> Payload \cup {NoJob}]
         /\ \A x \in Slot : pc'[x] # "idle" => job'[x] \in Payload
         /\ \A x \in Slot : pc'[x] = "schedule" => RetriesLeft(x)'
         /\ out' \in [Slot -> Outcome]
<1>1. CASE out[s] = "success"
  BY <1>1, FinishType DEF AfterSave
<1>2. CASE out[s] # "success"
  <2>1. \E l \in SlotPc \ {"schedule"} : Goto(s, l) /\ UNCHANGED <<job, out>>
    BY <1>2 DEF AfterSave, SlotPc
  <2> QED BY <2>1 DEF TypeOK, Goto, RetriesLeft, TaskOf
<1> QED BY <1>1, <1>2

\* A closed session leaves an empty local.
LEMMA ForgetType ==
  ASSUME TypeOK, NEW s \in Slot, Forget(s)
  PROVE  mem' \in [Slot -> Mem]
  BY DEF TypeOK, Forget, Mem, NoMem, TaskStatus, Row, ScanStatus

\* Committing a status writes a status.
LEMMA WriteStatusType ==
  ASSUME TypeOK, NEW s \in Slot, NEW new \in TaskStatus, WriteStatus(s, new)
  PROVE  status' \in [Task -> TaskStatus]
  BY DEF TypeOK, WriteStatus, Written

\* What a session loads has the type of its local variables.
LEMMA LoadedType ==
  /\ \A x \in TaskStatus : [NoMem EXCEPT !.status = x] \in Mem
  /\ \A x \in ScanStatus : [NoMem EXCEPT !.scan = x] \in Mem
  BY DEF NoMem, Mem, TaskStatus, Row, ScanStatus

\* A coroutine that runs has a payload of one of the tasks.
LEMMA JobTask ==
  ASSUME TypeOK, NEW s \in Slot, pc[s] # "idle"
  PROVE  job[s] \in Payload /\ TaskOf(s) \in Task
  BY PayloadShape DEF TypeOK, TaskOf

\* A step of a _process_payload coroutine keeps the types.
LEMMA SlotType ==
  ASSUME TypeOK, NEW s \in Slot,
         SlotStep(s) \/ ScheduleFails(s) \/ BuryFails(s) \/ DbError(s)
  PROVE  TypeOK'
<1> USE DEF RetriesLeft, TaskOf, dbVars, queueVars, fetchVars, slotVars
<1>1. CASE MarkLoad(s)
  <2>1. mem' \in [Slot -> Mem]
    BY <1>1, JobTask, LoadedType DEF TypeOK, MarkLoad, LoadTask
  <2>2. pc' \in [Slot -> SlotPc]
    BY <1>1 DEF TypeOK, MarkLoad, LoadTask, Goto, SlotPc
  <2> QED BY <1>1, <2>1, <2>2 DEF TypeOK, MarkLoad, LoadTask, Goto
<1>2. CASE MarkCommit(s)
  <2>1. status' \in [Task -> TaskStatus] /\ mem' \in [Slot -> Mem]
    BY <1>2, WriteStatusType, ForgetType DEF MarkCommit, TaskStatus
  <2> QED BY <1>2, <2>1 DEF TypeOK, MarkCommit, Goto, SlotPc
<1>3. CASE Send(s)
  BY <1>3 DEF TypeOK, Send, Goto, SlotPc
<1>4. CASE SaveLoad(s)
  BY <1>4, JobTask DEF TypeOK, SaveLoad, Goto, SlotPc, Mem, NoMem, TaskStatus, Row, ScanStatus
<1>5. CASE SaveLoadRow(s)
  BY <1>5, JobTask DEF TypeOK, SaveLoadRow, Goto, SlotPc, Mem
<1>6. CASE SaveCommit(s)
  <2>1. mem' \in [Slot -> Mem] /\ TaskOf(s) \in Task /\ mem[s].attempts \in Nat
    BY <1>6, ForgetType, JobTask DEF SaveCommit, TypeOK, Mem
  <2>2. TaskVerdict(s) \in TaskStatus /\ RowVerdict(s) \in Row
    BY DEF TaskVerdict, RowVerdict, TaskStatus, Row
  <2>3. /\ status' \in [Task -> TaskStatus]
        /\ attempts' \in [Task -> Nat]
        /\ resp' \in [Task -> Row]
    BY <1>6, <2>1, <2>2 DEF SaveCommit, TypeOK, Written, Counted
  <2> QED BY <1>6, <2>1, <2>3 DEF TypeOK, SaveCommit, Goto, SlotPc
<1>7. CASE SaveRollback(s)
  BY <1>7, AfterSaveType, ForgetType DEF TypeOK, SaveRollback
<1>8. CASE EvalScan(s)
  <2>1. CASE scan = "DELETED"
    BY <1>8, <2>1, AfterSaveType DEF TypeOK, EvalScan
  <2>2. CASE scan # "DELETED"
    <3>1. mem' \in [Slot -> Mem]
      BY <1>8, <2>2, LoadedType DEF TypeOK, EvalScan
    <3> QED BY <1>8, <2>2, <3>1 DEF TypeOK, EvalScan, Goto, SlotPc
  <2> QED BY <2>1, <2>2
<1>9. CASE EvalTasks(s)
  <2>1. CASE TooEarly
    BY <1>9, <2>1, AfterSaveType, ForgetType DEF TypeOK, EvalTasks
  <2>2. CASE ~TooEarly
    <3>1. mem' = [mem EXCEPT ![s] = [mem[s] EXCEPT !.verdict = Verdict]]
      BY <1>9, <2>2 DEF EvalTasks
    <3>2. Verdict \in ScanStatus /\ mem[s] \in Mem
      BY DEF Verdict, ScanStatus, TypeOK
    <3>3. [mem[s] EXCEPT !.verdict = Verdict] \in Mem
      BY <3>2 DEF Mem
    <3>4. mem' \in [Slot -> Mem]
      BY <3>1, <3>3 DEF TypeOK
    <3> QED BY <1>9, <2>2, <3>4 DEF TypeOK, EvalTasks, Goto, SlotPc
  <2> QED BY <2>1, <2>2
<1>10. CASE EvalCommit(s)
  <2>1. scan' \in ScanStatus
    BY <1>10 DEF TypeOK, EvalCommit, Written, Mem, ScanStatus
  <2> QED BY <1>10, <2>1, AfterSaveType, ForgetType DEF TypeOK, EvalCommit
<1>11. CASE UpdateLoad(s)
  <2>1. mem' \in [Slot -> Mem]
    BY <1>11, JobTask, LoadedType DEF TypeOK, UpdateLoad, LoadTask
  <2>2. pc' \in [Slot -> SlotPc]
    BY <1>11 DEF TypeOK, UpdateLoad, LoadTask, AfterUpdate, Goto, SlotPc
  <2>3. \A x \in Slot : pc'[x] = "schedule" => RetriesLeft(x)'
    BY <1>11 DEF TypeOK, UpdateLoad, LoadTask, AfterUpdate, Goto
  <2>4. \A x \in Slot : pc'[x] # "idle" => job'[x] \in Payload
    BY <1>11 DEF TypeOK, UpdateLoad, LoadTask, AfterUpdate, Goto
  <2> QED BY <1>11, <2>1, <2>2, <2>3, <2>4 DEF TypeOK, UpdateLoad
<1>12. CASE UpdateCommit(s)
  <2>1. status' \in [Task -> TaskStatus] /\ mem' \in [Slot -> Mem]
    BY <1>12, WriteStatusType, ForgetType DEF UpdateCommit, TaskStatus
  <2> QED BY <1>12, <2>1 DEF TypeOK, UpdateCommit, AfterUpdate, Goto, SlotPc
<1>13. CASE Schedule(s)
  <2> DEFINE p == [job[s] EXCEPT !.attempt = @ + 1]
  <2>1. p \in Payload
    BY <1>13, JobTask, RetryPayload DEF TypeOK, Schedule, RetriesLeft, TaskOf
  <2> QED BY <1>13, <2>1, FinishType DEF TypeOK, Schedule
<1>14. CASE ScheduleFails(s)
  BY <1>14, FinishType, JobTask DEF TypeOK, ScheduleFails
<1>15. CASE Bury(s)
  BY <1>15, FinishType, JobTask DEF TypeOK, Bury
<1>16. CASE BuryFails(s)
  BY <1>16, FinishType, JobTask DEF TypeOK, BuryFails
<1>17. CASE DbError(s)
  <2>1. mem' \in [Slot -> Mem]
    BY <1>17, ForgetType DEF DbError
  <2>2. CASE pc[s] \in {"save", "saveRow", "saving", "evalScan", "evalTasks", "evalCommit"}
    <3>1. AfterSave(s) /\ hit' \subseteq Task
      BY <1>17, <2>2, JobTask DEF DbError, TypeOK
    <3> QED BY <1>17, <2>1, <2>2, <3>1, AfterSaveType DEF TypeOK, DbError
  <2>3. CASE pc[s] \in {"mark", "marking", "update", "updating"}
    BY <1>17, <2>1, <2>3 DEF TypeOK, DbError, Goto, AfterUpdate, SlotPc
  <2> QED BY <1>17, <2>2, <2>3 DEF DbError
<1> QED BY <1>1, <1>2, <1>3, <1>4, <1>5, <1>6, <1>7, <1>8, <1>9, <1>10, <1>11, <1>12,
           <1>13, <1>14, <1>15, <1>16, <1>17 DEF SlotStep

\* Every behaviour is well typed: in particular no retry beyond max_retries is ever
\* put in a queue.
THEOREM TypeCorrect == Spec => []TypeOK
<1>1. TypeOK /\ [Next]_vars => TypeOK'
  <2> SUFFICES ASSUME TypeOK, [Next]_vars PROVE TypeOK'
    OBVIOUS
  <2> USE DEF dbVars, queueVars, fetchVars, slotVars
  <2>1. CASE DeleteScan
    BY <2>1 DEF TypeOK, DeleteScan, ScanStatus, TaskStatus, Row, RetriesLeft, TaskOf
  <2>2. ASSUME NEW p \in Payload, BecomeDue(p) PROVE TypeOK'
    BY <2>2 DEF TypeOK, BecomeDue, RetriesLeft, TaskOf
  <2>3. CASE UNCHANGED vars
    BY <2>3 DEF TypeOK, vars, RetriesLeft, TaskOf
  <2> QED BY <2>1, <2>2, <2>3, RequestType, FetchType, SlotType DEF Next
<1> QED BY <1>1, InitType, PTL DEF Spec

\* What follows _save_response, alternative by alternative.
LEMMA AfterSaveExits ==
  ASSUME TypeOK, NEW s \in Slot, AfterSave(s), pc[s] # "idle"
  PROVE  \/ out[s] = "success" /\ pc'[s] = "idle"
         \/ /\ out[s] # "success" /\ pc'[s] \in {"update", "bury"}
            /\ job' = job /\ out' = out
  BY DEF TypeOK, AfterSave, Finish, Goto

\* A step of a coroutine touches no other coroutine's locals, no other task's row and
\* no request; it never takes a payload out of a queue.
LEMMA SlotTouchesOwn ==
  ASSUME TypeOK, NEW s \in Slot,
         SlotStep(s) \/ ScheduleFails(s) \/ BuryFails(s) \/ DbError(s)
  PROVE  /\ \A x \in Slot : x # s => /\ pc'[x] = pc[x] /\ job'[x] = job[x]
                                     /\ out'[x] = out[x] /\ mem'[x] = mem[x]
         /\ \A u \in Task : u # TaskOf(s) => /\ status'[u] = status[u]
                                             /\ resp'[u] = resp[u]
         /\ hit \subseteq hit'
         /\ req' = req /\ ready' = ready /\ delayed \subseteq delayed'
         /\ pc[s] # "idle"
<1> USE DEF dbVars, queueVars, fetchVars, slotVars
<1>1. CASE MarkLoad(s) \/ MarkCommit(s) \/ Send(s) \/ SaveLoad(s) \/ SaveLoadRow(s)
  BY <1>1 DEF TypeOK, MarkLoad, MarkCommit, Send, SaveLoad, SaveLoadRow, LoadTask,
    WriteStatus, Goto, Forget
<1>2. CASE UpdateLoad(s) \/ UpdateCommit(s)
  BY <1>2 DEF TypeOK, UpdateLoad, UpdateCommit, LoadTask, WriteStatus, Goto, Forget
<1>3. CASE SaveCommit(s)
  BY <1>3 DEF TypeOK, SaveCommit, Goto, Forget
<1>4. CASE SaveRollback(s) \/ EvalScan(s) \/ EvalTasks(s) \/ EvalCommit(s)
  BY <1>4 DEF TypeOK, SaveRollback, EvalScan, EvalTasks, EvalCommit, AfterSave, Finish,
    Goto, Forget
<1>5. CASE Schedule(s) \/ Bury(s) \/ ScheduleFails(s) \/ BuryFails(s)
  BY <1>5 DEF TypeOK, Schedule, Bury, ScheduleFails, BuryFails, Finish
<1>6. CASE DbError(s)
  BY <1>6 DEF TypeOK, DbError, AfterSave, Finish, Goto, Forget
<1> QED BY <1>1, <1>2, <1>3, <1>4, <1>5, <1>6 DEF SlotStep

-----------------------------------------------------------------------------
(* With one engine a task is in one place at a time.                       *)

\* Nothing of a task is in Redis or in a worker before its request publishes it.
Fresh ==
  \A t \in Task :
    req[ReqOf[t]] \in {"load", "open", "store"} => ~Queued(t) /\ ~InHand(t)

\* Between its two halves a promotion only remembers members that are still there.
ReadIsDelayed ==
  \A e \in Engine : read[e] \subseteq cutoff[e] /\ cutoff[e] \subseteq delayed

SoloInv == OneCarrier /\ Fresh /\ ReadIsDelayed

\* There is at most one engine.
Solo == \A a, b \in Engine : a = b

\* A step that gives no task a new carrier.
NoNewCarrier ==
  /\ \A r \in Request :
       \/ req'[r] = req[r]
       \/ req[r] \in {"load", "open", "store"} /\ req'[r] \in {"load", "open", "store"}
       \/ req'[r] = "done"
  /\ \A p \in Payload : ready'[p] \in Nat /\ ready'[p] <= ready[p]
  /\ delayed' = delayed
  /\ \A s \in Slot, t \in Task : Holds(s, t)' => Holds(s, t)

\* A step that moves no task to a new place keeps the invariant.
LEMMA NoNewCarrierInv ==
  ASSUME TypeOK, SoloInv, NoNewCarrier,
         \A e \in Engine : \/ read'[e] = read[e] /\ cutoff'[e] = cutoff[e]
                           \/ read'[e] \subseteq cutoff'[e] /\ cutoff'[e] \subseteq delayed
  PROVE  SoloInv'
<1>1. \A t \in Task : ReqOf[t] \in Request
  BY ConstantsAssumption
<1>2. \A t \in Task : /\ Submitting(t)' => Submitting(t)
                      /\ Queued(t)' => Queued(t)
                      /\ InHand(t)' => InHand(t)
  BY <1>1 DEF NoNewCarrier, Submitting, Queued, InHand, TypeOK
<1>3. Fresh'
  BY <1>1, <1>2 DEF SoloInv, Fresh, NoNewCarrier
<1>4. OneCarrier'
  <2>1. \A p \in Payload : /\ ready[p] \in Nat /\ ready'[p] \in Nat /\ ready'[p] <= ready[p]
                           /\ p \in delayed' <=> p \in delayed
    BY DEF NoNewCarrier, TypeOK
  <2>2. \A p \in Payload : /\ ready'[p] > 0 => ready[p] > 0
                           /\ ready[p] <= 1 => ready'[p] <= 1
    BY <2>1
  <2>3. \A s \in Slot, t \in Task : Holds(s, t)' => Holds(s, t)
    BY DEF NoNewCarrier
  <2> QED BY <1>2, <2>1, <2>2, <2>3 DEF SoloInv, OneCarrier
<1>5. ReadIsDelayed'
  BY DEF SoloInv, ReadIsDelayed, NoNewCarrier
<1> QED BY <1>3, <1>4, <1>5 DEF SoloInv

\* Initially no task has a carrier.
LEMMA InitSolo == Init => SoloInv
<1> SUFFICES ASSUME Init PROVE SoloInv
  OBVIOUS
<1>1. \A t \in Task : /\ ~Submitting(t) /\ ~Queued(t) /\ ~InHand(t)
                      /\ \A s \in Slot : ~Holds(s, t)
  BY ConstantsAssumption DEF Init, Submitting, Queued, InHand, Holds
<1>2. \A p \in Payload : ready[p] = 0 /\ p \notin delayed
  BY DEF Init
<1>3. OneCarrier
  BY <1>1, <1>2 DEF OneCarrier
<1>4. Fresh
  BY <1>1 DEF Fresh
<1>5. ReadIsDelayed
  BY DEF Init, ReadIsDelayed
<1> QED BY <1>3, <1>4, <1>5 DEF SoloInv

\* StoreTasks makes its request publish: its tasks have no other carrier yet.
LEMMA StoreSolo ==
  ASSUME TypeOK, SoloInv, NEW r \in Request, StoreTasks(r)
  PROVE  SoloInv'
<1> USE ConstantsAssumption DEF queueVars, fetchVars, slotVars
<1>1. \A t \in Task : /\ Queued(t)' <=> Queued(t)
                      /\ InHand(t)' <=> InHand(t)
                      /\ \A s \in Slot : Holds(s, t)' <=> Holds(s, t)
  BY DEF StoreTasks, Queued, InHand, Holds, TaskOf
<1>2. \A t \in Task : Submitting(t)' => Submitting(t) \/ (~Queued(t) /\ ~InHand(t))
  BY DEF StoreTasks, Submitting, SoloInv, Fresh, TypeOK
<1>3. OneCarrier'
  BY <1>1, <1>2 DEF SoloInv, OneCarrier, StoreTasks
<1>4. Fresh'
  BY <1>1 DEF SoloInv, Fresh, StoreTasks, TypeOK
<1>5. ReadIsDelayed'
  BY DEF SoloInv, ReadIsDelayed, StoreTasks
<1> QED BY <1>3, <1>4, <1>5 DEF SoloInv

\* PublishTasks queues the first payload of each task of its request, once.
LEMMA PublishSolo ==
  ASSUME TypeOK, SoloInv, NEW r \in Request, PublishTasks(r)
  PROVE  SoloInv'
<1> USE ConstantsAssumption DEF fetchVars, slotVars
<1>1. \A t \in Task : InHand(t)' <=> InHand(t)
  BY DEF PublishTasks, InHand, Holds, TaskOf
<1>2. \A t \in Task : ReqOf[t] # r => /\ Queued(t)' <=> Queued(t)
                                      /\ Submitting(t)' <=> Submitting(t)
  BY PayloadShape DEF PublishTasks, Queued, Submitting, TypeOK
<1>3. \A t \in Task : ReqOf[t] = r => ~Queued(t) /\ ~InHand(t) /\ ~Submitting(t)'
  BY DEF PublishTasks, SoloInv, OneCarrier, Submitting, TypeOK
<1>4. \A p \in Payload : ReqOf[p.task] = r =>
        /\ p \notin delayed
        /\ ready'[p] = IF p.attempt = 0 THEN 1 ELSE 0
  BY <1>3, PayloadShape DEF PublishTasks, Queued, TypeOK
<1>5. \A p, q \in Payload : p.task = q.task /\ p.attempt = 0 /\ q.attempt = 0 => p = q
  BY PayloadShape
<1>6. \A p \in Payload : ReqOf[p.task] # r => ready'[p] = ready[p]
  BY DEF PublishTasks
<1>7. OneCarrier'
  BY <1>1, <1>2, <1>3, <1>4, <1>5, <1>6, PayloadShape
     DEF SoloInv, OneCarrier, PublishTasks, Holds, TaskOf
<1>8. Fresh'
  BY <1>1, <1>2 DEF SoloInv, Fresh, PublishTasks, TypeOK
<1>9. ReadIsDelayed'
  BY DEF SoloInv, ReadIsDelayed, PublishTasks
<1> QED BY <1>7, <1>8, <1>9 DEF SoloInv

\* Promote moves what it has read from the delayed set to the ready lists.
LEMMA PromoteSolo ==
  ASSUME Solo, TypeOK, SoloInv, NEW e \in Engine, Promote(e)
  PROVE  SoloInv'
<1> USE DEF slotVars
<1>1. \A p \in Payload : p \in read[e] => p \in delayed /\ p \in cutoff[e] /\ ready[p] = 0
  BY PayloadShape DEF SoloInv, ReadIsDelayed, OneCarrier, TypeOK
<1>2. \A p \in Payload :
        /\ ready'[p] > 0 \/ p \in delayed' => ready[p] > 0 \/ p \in delayed
        /\ ready'[p] = IF p \in read[e] THEN 1 ELSE ready[p]
        /\ p \in read[e] => p \notin delayed'
  BY <1>1 DEF Promote, Removed, TypeOK
<1>3. \A t \in Task : /\ Queued(t)' => Queued(t)
                      /\ InHand(t)' <=> InHand(t)
                      /\ Submitting(t)' <=> Submitting(t)
  BY <1>2 DEF Promote, Queued, InHand, Holds, TaskOf, Submitting
<1>4. OneCarrier'
  BY <1>2, <1>3, PayloadShape DEF SoloInv, OneCarrier, Promote, Removed, Holds, TaskOf
<1>5. Fresh'
  BY <1>3 DEF SoloInv, Fresh, Promote
<1>6. ReadIsDelayed'
  BY DEF Solo, ReadIsDelayed, Promote, TypeOK
<1> QED BY <1>4, <1>5, <1>6 DEF SoloInv

\* Pop moves one payload from the ready lists to an idle coroutine.
LEMMA PopSolo ==
  ASSUME TypeOK, SoloInv, NEW e \in Engine, Pop(e)
  PROVE  SoloInv'
<1> PICK p \in Payload, s \in Slot :
       /\ ready[p] > 0
       /\ EngineOf[s] = e /\ pc[s] = "idle"
       /\ ready' = [ready EXCEPT ![p] = @ - 1]
       /\ pc' = [pc EXCEPT ![s] = "mark"]
       /\ job' = [job EXCEPT ![s] = p]
  BY DEF Pop
<1>1. UNCHANGED <<req, delayed, read, cutoff>>
  BY DEF Pop
<1>2. /\ p.task \in Task /\ ReqOf[p.task] \in Request
      /\ Queued(p.task) /\ ~Submitting(p.task) /\ ~InHand(p.task)
  BY PayloadShape, ConstantsAssumption DEF SoloInv, OneCarrier, Queued
<1>3. ready[p] = 1 /\ p \notin delayed
  BY <1>2 DEF SoloInv, OneCarrier, TypeOK
<1>4. \A q \in Payload : ready'[q] = IF q = p THEN 0 ELSE ready[q]
  BY <1>3 DEF TypeOK
<1>5. \A x \in Slot, t \in Task : Holds(x, t)' <=> IF x = s THEN t = p.task ELSE Holds(x, t)
  BY DEF Holds, TaskOf, TypeOK
<1>6. \A t \in Task : Submitting(t)' <=> Submitting(t)
  BY <1>1 DEF Submitting
<1>7. ~Queued(p.task)'
  BY <1>1, <1>2, <1>3, <1>4 DEF SoloInv, OneCarrier, Queued, TypeOK
<1>8. \A t \in Task : t # p.task => /\ Queued(t)' => Queued(t)
                                    /\ InHand(t)' => InHand(t)
  BY <1>1, <1>4, <1>5 DEF Queued, InHand
<1>9. \A x \in Slot : ~Holds(x, p.task)
  BY <1>2 DEF InHand
<1>10. OneCarrier'
  <2> SUFFICES ASSUME NEW t \in Task
               PROVE  /\ ~(Submitting(t)' /\ (Queued(t)' \/ InHand(t)'))
                      /\ ~(Queued(t)' /\ InHand(t)')
                      /\ \A a, b \in Slot : Holds(a, t)' /\ Holds(b, t)' => a = b
                      /\ \A q, r \in Payload :
                           /\ q.task = t /\ r.task = t
                           /\ ready'[q] > 0 \/ q \in delayed'
                           /\ ready'[r] > 0 \/ r \in delayed'
                           => q = r
                      /\ \A q \in Payload : q.task = t => /\ ready'[q] <= 1
                                                          /\ ~(ready'[q] > 0 /\ q \in delayed')
    BY DEF OneCarrier
  <2>1. \A q \in Payload : ready'[q] > 0 \/ q \in delayed' => ready[q] > 0 \/ q \in delayed
    BY <1>1, <1>4
  <2>2. \A q, r \in Payload :
           /\ q.task = t /\ r.task = t
           /\ ready'[q] > 0 \/ q \in delayed'
           /\ ready'[r] > 0 \/ r \in delayed'
           => q = r
    BY <2>1 DEF SoloInv, OneCarrier
  <2>3. \A q \in Payload : q.task = t => /\ ready'[q] <= 1
                                         /\ ~(ready'[q] > 0 /\ q \in delayed')
    BY <1>1, <1>4 DEF SoloInv, OneCarrier
  <2>4. CASE t = p.task
    BY <1>2, <1>5, <1>6, <1>7, <1>9, <2>2, <2>3, <2>4
  <2>5. CASE t # p.task
    BY <1>5, <1>6, <1>8, <2>2, <2>3, <2>5 DEF SoloInv, OneCarrier
  <2> QED BY <2>4, <2>5
<1>11. Fresh'
  BY <1>1, <1>2, <1>8 DEF SoloInv, Fresh
<1>12. ReadIsDelayed'
  BY <1>1 DEF SoloInv, ReadIsDelayed
<1> QED BY <1>10, <1>11, <1>12 DEF SoloInv

\* Schedule moves the retry of its payload from the coroutine to the delayed set.
LEMMA ScheduleSolo ==
  ASSUME TypeOK, SoloInv, NEW s \in Slot, Schedule(s)
  PROVE  SoloInv'
<1> PICK u \in Task, p \in Payload : u = TaskOf(s) /\ p = [job[s] EXCEPT !.attempt = @ + 1]
  BY JobTask, RetryPayload DEF TypeOK, Schedule, RetriesLeft, TaskOf
<1>1. p.task = u /\ ReqOf[u] \in Request
  BY JobTask, RetryPayload, ConstantsAssumption DEF TypeOK, Schedule, RetriesLeft, TaskOf
<1>2. /\ delayed' = delayed \cup {p}
      /\ cutoff' = [e \in Engine |-> cutoff[e] \ {p}]
      /\ UNCHANGED <<req, ready, read>>
      /\ pc[s] = "schedule"
  BY DEF Schedule
<1>3. Holds(s, u) /\ InHand(u) /\ ~Queued(u) /\ ~Submitting(u)
  BY <1>1, <1>2 DEF SoloInv, OneCarrier, InHand, Holds
<1>4. \A q \in Payload : q.task = u => ready[q] = 0 /\ q \notin delayed
  BY <1>3 DEF Queued, TypeOK
<1>5. \A x \in Slot, t \in Task : Holds(x, t)' <=> x # s /\ Holds(x, t)
  BY DEF Schedule, Finish, Holds, TaskOf, TypeOK
<1>6. \A x \in Slot : Holds(x, u) => x = s
  BY <1>1, <1>3 DEF SoloInv, OneCarrier
<1>7. ~InHand(u)'
  BY <1>1, <1>5, <1>6 DEF InHand
<1>8. \A t \in Task : Submitting(t)' <=> Submitting(t)
  BY <1>2 DEF Submitting
<1>9. \A t \in Task : t # u => /\ Queued(t)' => Queued(t)
                               /\ InHand(t)' => InHand(t)
  BY <1>1, <1>2, <1>5 DEF Queued, InHand
<1>10. OneCarrier'
  <2> SUFFICES ASSUME NEW t \in Task
               PROVE  /\ ~(Submitting(t)' /\ (Queued(t)' \/ InHand(t)'))
                      /\ ~(Queued(t)' /\ InHand(t)')
                      /\ \A a, b \in Slot : Holds(a, t)' /\ Holds(b, t)' => a = b
                      /\ \A q, r \in Payload :
                           /\ q.task = t /\ r.task = t
                           /\ ready'[q] > 0 \/ q \in delayed'
                           /\ ready'[r] > 0 \/ r \in delayed'
                           => q = r
                      /\ \A q \in Payload : q.task = t => /\ ready'[q] <= 1
                                                          /\ ~(ready'[q] > 0 /\ q \in delayed')
    BY DEF OneCarrier
  <2>1. CASE t = u
    <3>1. \A q \in Payload : q.task = t /\ (ready'[q] > 0 \/ q \in delayed') => q = p
      BY <1>2, <1>4, <2>1
    <3>2. \A q \in Payload : q.task = t => ready'[q] = 0
      BY <1>2, <1>4, <2>1
    <3> QED BY <1>3, <1>5, <1>6, <1>7, <1>8, <2>1, <3>1, <3>2
  <2>2. CASE t # u
    <3>1. \A q \in Payload : q.task = t => (q \in delayed' <=> q \in delayed)
      BY <1>1, <1>2, <2>2
    <3>2. /\ ~(Submitting(t)' /\ (Queued(t)' \/ InHand(t)'))
          /\ ~(Queued(t)' /\ InHand(t)')
      BY <1>8, <1>9, <2>2 DEF SoloInv, OneCarrier
    <3>3. \A a, b \in Slot : Holds(a, t)' /\ Holds(b, t)' => a = b
      BY <1>5 DEF SoloInv, OneCarrier
    <3>4. \A q \in Payload : ready'[q] = ready[q]
      BY <1>2
    <3> QED BY <3>1, <3>2, <3>3, <3>4 DEF SoloInv, OneCarrier
  <2> QED BY <2>1, <2>2
<1>11. Fresh'
  <2>1. req[ReqOf[u]] \notin {"load", "open", "store"}
    BY <1>1, <1>3 DEF SoloInv, Fresh
  <2> QED BY <1>2, <1>9, <2>1 DEF SoloInv, Fresh
<1>12. ReadIsDelayed'
  <2>1. p \notin delayed
    BY <1>1, <1>4
  <2>2. \A e \in Engine : p \notin cutoff[e]
    BY <2>1 DEF SoloInv, ReadIsDelayed
  <2>3. \A e \in Engine : cutoff'[e] = cutoff[e]
    BY <1>2, <2>2 DEF TypeOK
  <2> QED BY <1>2, <2>3 DEF SoloInv, ReadIsDelayed
<1> QED BY <1>10, <1>11, <1>12 DEF SoloInv

\* What the steps of a coroutine do to the carriers: it goes on with its payload,
\* or it lets go of it.
LEMMA GotoCarries ==
  ASSUME TypeOK, NEW s \in Slot, NEW l \in SlotPc, pc[s] # "idle",
         Goto(s, l), job' = job
  PROVE  \A x \in Slot, t \in Task : Holds(x, t)' => Holds(x, t)
  BY DEF TypeOK, Goto, Holds, TaskOf

\* A coroutine that ends lets go of its payload.
LEMMA FinishCarries ==
  ASSUME TypeOK, NEW s \in Slot, Finish(s)
  PROVE  \A x \in Slot, t \in Task : Holds(x, t)' => Holds(x, t)
  BY DEF TypeOK, Finish, Holds, TaskOf

\* So does whatever follows _save_response.
LEMMA AfterSaveCarries ==
  ASSUME TypeOK, NEW s \in Slot, AfterSave(s), pc[s] # "idle"
  PROVE  \A x \in Slot, t \in Task : Holds(x, t)' => Holds(x, t)
<1>1. CASE out[s] = "success"
  BY <1>1, FinishCarries DEF AfterSave
<1>2. CASE out[s] # "success"
  <2>1. \E l \in SlotPc : Goto(s, l) /\ job' = job
    BY <1>2 DEF AfterSave, SlotPc
  <2> QED BY <2>1, GotoCarries
<1> QED BY <1>1, <1>2

\* No step of a coroutine but Schedule puts a payload back in a queue.
LEMMA SlotSolo ==
  ASSUME TypeOK, SoloInv, NEW s \in Slot,
         SlotStep(s) \/ ScheduleFails(s) \/ BuryFails(s) \/ DbError(s)
  PROVE  SoloInv'
<1>1. CASE Schedule(s)
  BY <1>1, ScheduleSolo
<1>2. CASE ~Schedule(s)
  <2> USE DEF dbVars, queueVars, fetchVars, slotVars
  <2>1. UNCHANGED <<req, ready, delayed, read, cutoff>>
    BY <1>2 DEF SlotStep, MarkLoad, MarkCommit, Send, SaveLoad, SaveLoadRow, SaveCommit,
      SaveRollback, EvalScan, EvalTasks, EvalCommit, UpdateLoad, UpdateCommit, Bury,
      ScheduleFails, BuryFails, DbError
  <2>2. \A x \in Slot, t \in Task : Holds(x, t)' => Holds(x, t)
    <3>1. CASE \/ MarkLoad(s) \/ MarkCommit(s) \/ Send(s)
               \/ SaveLoad(s) \/ SaveLoadRow(s) \/ SaveCommit(s)
               \/ UpdateLoad(s) \/ UpdateCommit(s)
      <4>1. \E l \in SlotPc : Goto(s, l) /\ job' = job
        BY <3>1 DEF MarkLoad, MarkCommit, Send, SaveLoad, SaveLoadRow, SaveCommit,
          UpdateLoad, UpdateCommit, LoadTask, AfterUpdate, SlotPc
      <4>2. pc[s] # "idle"
        BY <3>1 DEF MarkLoad, MarkCommit, Send, SaveLoad, SaveLoadRow, SaveCommit,
          UpdateLoad, UpdateCommit
      <4> QED BY <4>1, <4>2, GotoCarries
    <3>2. CASE SaveRollback(s) \/ EvalScan(s) \/ EvalTasks(s) \/ EvalCommit(s)
      <4>1. AfterSave(s) \/ \E l \in SlotPc : Goto(s, l) /\ job' = job
        BY <3>2 DEF SaveRollback, EvalScan, EvalTasks, EvalCommit, SlotPc
      <4>2. pc[s] # "idle"
        BY <3>2 DEF SaveRollback, EvalScan, EvalTasks, EvalCommit
      <4> QED BY <4>1, <4>2, GotoCarries, AfterSaveCarries
    <3>3. CASE ScheduleFails(s) \/ Bury(s) \/ BuryFails(s)
      BY <3>3, FinishCarries DEF ScheduleFails, Bury, BuryFails
    <3>4. CASE DbError(s)
      <4>1. AfterSave(s) \/ \E l \in SlotPc : Goto(s, l) /\ job' = job
        BY <3>4 DEF DbError, AfterUpdate, SlotPc
      <4>2. pc[s] # "idle"
        BY <3>4 DEF DbError
      <4> QED BY <4>1, <4>2, GotoCarries, AfterSaveCarries
    <3> QED BY <1>2, <3>1, <3>2, <3>3, <3>4 DEF SlotStep
  <2>3. NoNewCarrier
    BY <2>1, <2>2 DEF NoNewCarrier, TypeOK
  <2> QED BY <2>1, <2>3, NoNewCarrierInv
<1> QED BY <1>1, <1>2

\* The requests: only PublishTasks adds a payload.
LEMMA RequestSolo ==
  ASSUME TypeOK, SoloInv, NEW r \in Request,
         RequestStep(r) \/ PublishFails(r) \/ AbortRequest(r)
  PROVE  SoloInv'
<1>1. CASE StoreTasks(r)
  BY <1>1, StoreSolo
<1>2. CASE PublishTasks(r)
  BY <1>2, PublishSolo
<1>3. CASE LoadScan(r) \/ OpenScan(r) \/ PublishFails(r) \/ AbortRequest(r)
  <2>1. UNCHANGED <<ready, delayed, read, cutoff, pc, job>>
    BY <1>3 DEF LoadScan, OpenScan, PublishFails, AbortRequest, queueVars, fetchVars, slotVars
  <2>2. \A x \in Request : \/ req'[x] = req[x]
                           \/ /\ req[x] \in {"load", "open", "store"}
                              /\ req'[x] \in {"open", "store", "done"}
                           \/ req'[x] = "done"
    BY <1>3 DEF LoadScan, OpenScan, PublishFails, AbortRequest, TypeOK
  <2>3. NoNewCarrier
    BY <2>1, <2>2 DEF NoNewCarrier, TypeOK, Holds, TaskOf
  <2> QED BY <2>1, <2>3, NoNewCarrierInv
<1> QED BY <1>1, <1>2, <1>3 DEF RequestStep

\* The fetch loops: promotion and BLPOP move payloads, every other step loses or
\* keeps them.
LEMMA FetchSolo ==
  ASSUME Solo, TypeOK, SoloInv, NEW e \in Engine,
         FetchStep(e) \/ PromoteFails(e) \/ PopFails(e) \/ Crash(e)
  PROVE  SoloInv'
<1> USE DEF queueVars, fetchVars, slotVars
<1>1. CASE Promote(e)
  BY <1>1, PromoteSolo
<1>2. CASE Pop(e)
  BY <1>2, PopSolo
<1>3. CASE ReadDue(e)
  <2>1. UNCHANGED <<req, ready, delayed, pc, job>>
    BY <1>3 DEF ReadDue
  <2>2. \A x \in Engine : \/ read'[x] = read[x] /\ cutoff'[x] = cutoff[x]
                          \/ read'[x] \subseteq cutoff'[x] /\ cutoff'[x] \subseteq delayed
    BY <1>3 DEF ReadDue, TypeOK
  <2>3. NoNewCarrier
    BY <2>1 DEF NoNewCarrier, TypeOK, Holds, TaskOf
  <2> QED BY <2>2, <2>3, NoNewCarrierInv
<1>4. CASE PopTimeout(e) \/ PromoteFails(e) \/ PopFails(e) \/ Crash(e)
  <2>1. UNCHANGED <<req, delayed>>
    BY <1>4 DEF PopTimeout, PromoteFails, PopFails, Crash
  <2>2. \A x \in Engine : \/ read'[x] = read[x] /\ cutoff'[x] = cutoff[x]
                          \/ read'[x] \subseteq cutoff'[x] /\ cutoff'[x] \subseteq delayed
    BY <1>4 DEF PopTimeout, PromoteFails, PopFails, Crash, TypeOK
  <2>3. \A p \in Payload : ready'[p] \in Nat /\ ready'[p] <= ready[p]
    BY <1>4 DEF PopTimeout, PromoteFails, PopFails, Crash, TypeOK
  <2>4. \A x \in Slot, t \in Task : Holds(x, t)' => Holds(x, t)
    BY <1>4 DEF PopTimeout, PromoteFails, PopFails, Crash, TypeOK, Holds, TaskOf
  <2>5. NoNewCarrier
    BY <2>1, <2>3, <2>4 DEF NoNewCarrier
  <2> QED BY <2>2, <2>5, NoNewCarrierInv
<1> QED BY <1>1, <1>2, <1>3, <1>4 DEF FetchStep

\* Deleting the scan and the passing of time move no payload.
LEMMA OtherSolo ==
  ASSUME TypeOK, SoloInv,
         DeleteScan \/ (\E p \in Payload : BecomeDue(p)) \/ UNCHANGED vars
  PROVE  SoloInv'
<1>1. UNCHANGED <<req, ready, delayed, read, cutoff, pc, job>>
  BY DEF DeleteScan, BecomeDue, vars, queueVars, fetchVars, slotVars
<1>2. NoNewCarrier
  BY <1>1 DEF NoNewCarrier, TypeOK, Holds, TaskOf
<1> QED BY <1>1, <1>2, NoNewCarrierInv

\* With one engine, whatever its concurrency and whatever fails, a task is never in
\* two places: it is being published, or once in one of the queues, or in the hands
\* of one coroutine, so no two coroutines ever work on the same row.
THEOREM OneCarrierAlways == ASSUME Solo PROVE Spec => []OneCarrier
<1>1. TypeOK /\ SoloInv /\ [Next]_vars => SoloInv'
  BY RequestSolo, FetchSolo, SlotSolo, OtherSolo DEF Next
<1>2. SoloInv => OneCarrier
  BY DEF SoloInv
<1> QED BY <1>1, <1>2, InitSolo, TypeCorrect, PTL DEF Spec
=============================================================================
