--------------------------- MODULE ScanPipelineRows ---------------------------
(***************************************************************************)
(* What becomes of the rows of a scan, for every value of the constants    *)
(* and whatever fails: a deleted scan stays deleted; the pipeline          *)
(* implements ScanRows; and, with one engine and one submission, COMPLETED *)
(* is true when it is written and stays true, although the evaluation      *)
(* reads the tasks in one step and commits in another.                     *)
(***************************************************************************)
EXTENDS ScanPipelineProofs

-----------------------------------------------------------------------------
(* Deletion.                                                               *)

\* The cascade leaves nothing, and nobody adds a row afterwards.
Gone == \A t \in Task : status[t] = "ABSENT" /\ resp[t] = "none"

\* A coroutine about to commit its evaluation has decided COMPLETED or FAILED.
VerdictKnown ==
  \A s \in Slot : pc[s] = "evalCommit" => mem[s].verdict \in {"COMPLETED", "FAILED"}

DeletedInv == (scan = "DELETED" => Gone) /\ VerdictKnown

\* Only EvalTasks takes a coroutine to that commit.
LEMMA VerdictStep ==
  ASSUME TypeOK, VerdictKnown, [Next]_vars
  PROVE  VerdictKnown'
<1> USE DEF dbVars, queueVars, fetchVars, slotVars
<1>1. ASSUME NEW s \in Slot, SlotStep(s) \/ ScheduleFails(s) \/ BuryFails(s) \/ DbError(s)
      PROVE  VerdictKnown'
  <2>1. pc'[s] = "evalCommit" => mem'[s].verdict \in {"COMPLETED", "FAILED"}
    <3>1. CASE EvalTasks(s)
      <4>1. CASE TooEarly
        <5>1. pc'[s] # "evalCommit"
          BY <3>1, <4>1, AfterSaveExits DEF EvalTasks
        <5> QED BY <5>1
      <4>2. CASE ~TooEarly
        BY <3>1, <4>2 DEF EvalTasks, TypeOK, Mem, Verdict
      <4> QED BY <4>1, <4>2
    <3>2. CASE SaveRollback(s) \/ EvalScan(s) \/ EvalCommit(s) \/ DbError(s)
      <4>1. AfterSave(s) \/ pc'[s] \in {"evalTasks", "send", "schedule", "bury"}
        BY <3>2 DEF TypeOK, SaveRollback, EvalScan, EvalCommit, DbError, Goto, AfterUpdate
      <4>2. pc[s] # "idle"
        BY <3>2 DEF SaveRollback, EvalScan, EvalCommit, DbError
      <4>3. pc'[s] # "evalCommit"
        BY <4>1, <4>2, AfterSaveExits
      <4> QED BY <4>3
    <3>3. CASE \/ MarkLoad(s) \/ MarkCommit(s) \/ Send(s)
               \/ SaveLoad(s) \/ SaveLoadRow(s) \/ SaveCommit(s)
               \/ UpdateLoad(s) \/ UpdateCommit(s) \/ Schedule(s) \/ Bury(s)
               \/ ScheduleFails(s) \/ BuryFails(s)
      <4>1. pc'[s] # "evalCommit"
        BY <3>3 DEF TypeOK, MarkLoad, MarkCommit, Send, SaveLoad, SaveLoadRow, SaveCommit,
          UpdateLoad, UpdateCommit, Schedule, Bury, ScheduleFails, BuryFails,
          LoadTask, AfterUpdate, Goto, Finish
      <4> QED BY <4>1
    <3> QED BY <1>1, <3>1, <3>2, <3>3 DEF SlotStep
  <2> QED BY <1>1, <2>1, SlotTouchesOwn DEF VerdictKnown
<1>2. ASSUME NEW r \in Request, RequestStep(r) \/ PublishFails(r) \/ AbortRequest(r)
      PROVE  UNCHANGED slotVars
  BY <1>2 DEF RequestStep, LoadScan, OpenScan, StoreTasks, PublishTasks, PublishFails, AbortRequest
<1>3. ASSUME NEW e \in Engine, FetchStep(e) \/ PromoteFails(e) \/ PopFails(e) \/ Crash(e)
      PROVE  VerdictKnown'
  <2>1. CASE Pop(e)
    BY <2>1 DEF Pop, TypeOK, VerdictKnown
  <2>2. CASE Crash(e)
    BY <2>2 DEF Crash, VerdictKnown
  <2>3. CASE ~Pop(e) /\ ~Crash(e)
    BY <1>3, <2>3 DEF FetchStep, ReadDue, Promote, PopTimeout, PromoteFails, PopFails, VerdictKnown
  <2> QED BY <2>1, <2>2, <2>3
<1>4. DeleteScan \/ (\E p \in Payload : BecomeDue(p)) \/ UNCHANGED vars => UNCHANGED slotVars
  BY DEF DeleteScan, BecomeDue, vars
<1>5. UNCHANGED slotVars => VerdictKnown'
  BY DEF VerdictKnown
<1> QED BY <1>1, <1>2, <1>3, <1>4, <1>5 DEF Next

\* Requests and workers that loaded the scan, a task or a response before the DELETE
\* commit nothing after it.
LEMMA DeletedStays ==
  ASSUME TypeOK, scan = "DELETED", Gone, [Next]_vars
  PROVE  scan' = "DELETED" /\ Gone'
<1> USE DEF dbVars, queueVars, fetchVars, slotVars
<1>1. ASSUME NEW r \in Request, RequestStep(r) \/ PublishFails(r) \/ AbortRequest(r)
      PROVE  UNCHANGED dbVars
  BY <1>1 DEF RequestStep, LoadScan, OpenScan, StoreTasks, PublishTasks, PublishFails, AbortRequest
<1>2. CASE DeleteScan
  BY <1>2 DEF DeleteScan
<1>3. ASSUME NEW e \in Engine, FetchStep(e) \/ PromoteFails(e) \/ PopFails(e) \/ Crash(e)
      PROVE  UNCHANGED dbVars
  BY <1>3 DEF FetchStep, ReadDue, Promote, Pop, PopTimeout, PromoteFails, PopFails, Crash
<1>4. ASSUME NEW s \in Slot, SlotStep(s) \/ ScheduleFails(s) \/ BuryFails(s) \/ DbError(s)
      PROVE  UNCHANGED dbVars
  <2>1. CASE MarkCommit(s) \/ UpdateCommit(s)
    <3>1. TaskOf(s) \in Task
      BY <2>1, JobTask DEF MarkCommit, UpdateCommit
    <3>2. PICK new \in TaskStatus : WriteStatus(s, new)
      BY <2>1 DEF MarkCommit, UpdateCommit, TaskStatus
    <3>3. status' = status
      BY <3>1, <3>2 DEF WriteStatus, Gone, TypeOK
    <3> QED BY <2>1, <3>3 DEF MarkCommit, UpdateCommit
  <2>2. CASE SaveCommit(s)
    <3>1. TaskOf(s) \in Task
      BY <2>2, JobTask DEF SaveCommit
    <3> QED BY <2>2, <3>1 DEF SaveCommit, SaveConflict, Gone
  <2>3. CASE EvalCommit(s)
    BY <2>3 DEF EvalCommit
  <2>4. CASE \/ MarkLoad(s) \/ Send(s) \/ SaveLoad(s) \/ SaveLoadRow(s) \/ SaveRollback(s)
             \/ EvalScan(s) \/ EvalTasks(s) \/ UpdateLoad(s) \/ Schedule(s) \/ Bury(s)
             \/ ScheduleFails(s) \/ BuryFails(s) \/ DbError(s)
    BY <2>4 DEF MarkLoad, Send, SaveLoad, SaveLoadRow, SaveRollback, EvalScan, EvalTasks,
      UpdateLoad, Schedule, Bury, ScheduleFails, BuryFails, DbError
  <2> QED BY <1>4, <2>1, <2>2, <2>3, <2>4 DEF SlotStep
<1>5. UNCHANGED dbVars => scan' = "DELETED" /\ Gone'
  BY DEF Gone
<1>6. (\E p \in Payload : BecomeDue(p)) \/ UNCHANGED vars => UNCHANGED dbVars
  BY DEF BecomeDue, vars
<1> QED BY <1>1, <1>2, <1>3, <1>4, <1>5, <1>6 DEF Next

\* Only DeleteScan deletes: an evaluation writes COMPLETED or FAILED.
LEMMA OnlyDelete ==
  ASSUME TypeOK, VerdictKnown, [Next]_vars, scan # "DELETED", scan' = "DELETED"
  PROVE  DeleteScan
<1> USE DEF dbVars, queueVars, fetchVars, slotVars
<1>1. ASSUME NEW r \in Request, RequestStep(r) \/ PublishFails(r) \/ AbortRequest(r)
      PROVE  scan' # "DELETED"
  BY <1>1 DEF RequestStep, LoadScan, OpenScan, StoreTasks, PublishTasks, PublishFails, AbortRequest
<1>2. ASSUME NEW e \in Engine, FetchStep(e) \/ PromoteFails(e) \/ PopFails(e) \/ Crash(e)
      PROVE  scan' # "DELETED"
  BY <1>2 DEF FetchStep, ReadDue, Promote, Pop, PopTimeout, PromoteFails, PopFails, Crash
<1>3. ASSUME NEW s \in Slot, SlotStep(s) \/ ScheduleFails(s) \/ BuryFails(s) \/ DbError(s)
      PROVE  scan' # "DELETED"
  <2>1. CASE EvalCommit(s)
    BY <2>1 DEF EvalCommit, Written, VerdictKnown
  <2>2. CASE ~EvalCommit(s)
    BY <1>3, <2>2 DEF SlotStep, MarkLoad, MarkCommit, Send, SaveLoad, SaveLoadRow, SaveCommit,
      SaveRollback, EvalScan, EvalTasks, UpdateLoad, UpdateCommit, Schedule, Bury,
      ScheduleFails, BuryFails, DbError
  <2> QED BY <2>1, <2>2
<1>4. (\E p \in Payload : BecomeDue(p)) \/ UNCHANGED vars => scan' # "DELETED"
  BY DEF BecomeDue, vars
<1> QED BY <1>1, <1>2, <1>3, <1>4 DEF Next

\* The invariant that carries the theorem is inductive.
LEMMA DeletedStep ==
  ASSUME TypeOK, DeletedInv, [Next]_vars
  PROVE  DeletedInv'
<1> SUFFICES ASSUME scan' = "DELETED" PROVE Gone'
  BY VerdictStep DEF DeletedInv
<1>1. CASE scan = "DELETED"
  BY <1>1, DeletedStays DEF DeletedInv
<1>2. CASE scan # "DELETED"
  <2>1. DeleteScan
    BY <1>2, OnlyDelete DEF DeletedInv
  <2> QED BY <2>1 DEF DeleteScan, Gone
<1> QED BY <1>1, <1>2

\* With any number of requests and engines, and whatever fails: a deleted scan, its
\* tasks and its responses never come back.
THEOREM DeletedForGood == Spec => NoResurrection
<1> DEFINE Kept == scan = "DELETED" =>
             /\ scan' = "DELETED"
             /\ \A t \in Task : status'[t] = "ABSENT" /\ resp'[t] = "none"
<1>1. Init => DeletedInv
  BY DEF Init, DeletedInv, VerdictKnown
<1>2. TypeOK /\ DeletedInv /\ [Next]_vars => Kept
  BY DeletedStays DEF DeletedInv, Gone
<1>3. Spec => []DeletedInv
  BY <1>1, DeletedStep, TypeCorrect, PTL DEF Spec
<1>4. Spec => [][Kept]_vars
  BY <1>2, <1>3, TypeCorrect, PTL DEF Spec
<1> QED BY <1>4 DEF NoResurrection

-----------------------------------------------------------------------------
(* The rows.                                                               *)

\* A submission has written no row before its one INSERT.
Unstored ==
  \A t \in Task : req[ReqOf[t]] \in {"load", "open", "store"} => status[t] = "ABSENT"

\* A response row that a session has loaded is there as long as the scan is.
RowStays ==
  \A s \in Slot : pc[s] = "saving" /\ mem[s].resp # "none" =>
    resp[TaskOf(s)] # "none" \/ scan = "DELETED"

\* A coroutine that has only its evaluation left to do, after a success.
Evaluates(s) == pc[s] \in {"evalScan", "evalTasks", "evalCommit"} /\ out[s] = "success"

\* A task somebody may still write.
Unsettled(t) ==
  Submitting(t) \/ Queued(t) \/ \E s \in Slot : Holds(s, t) /\ ~Evaluates(s)

\* Nobody writes a task that has succeeded (with one engine).
SuccessIsFinal == \A t \in Task : status[t] = "SUCCESS" => ~Unsettled(t)

RowInv == DeletedInv /\ Unstored /\ RowStays /\ (Solo => SoloInv /\ SuccessIsFinal)

-----------------------------------------------------------------------------
(* What each step writes.                                                  *)

\* A step of a coroutine writes no row but in its four commits.
LEMMA CommitsOnly ==
  ASSUME TypeOK, NEW s \in Slot,
         SlotStep(s) \/ ScheduleFails(s) \/ BuryFails(s) \/ DbError(s)
  PROVE  \/ UNCHANGED <<scan, status, resp>>
         \/ MarkCommit(s) \/ UpdateCommit(s) \/ SaveCommit(s) \/ EvalCommit(s)
  BY DEF dbVars, SlotStep, MarkLoad, Send, SaveLoad, SaveLoadRow, SaveRollback, EvalScan,
    EvalTasks, UpdateLoad, Schedule, Bury, ScheduleFails, BuryFails, DbError

\* The fetch loops and the passing of time write none.
LEMMA FetchWritesNothing ==
  ASSUME NEW e \in Engine,
         FetchStep(e) \/ PromoteFails(e) \/ PopFails(e) \/ Crash(e)
  PROVE  UNCHANGED <<scan, status, resp, req>>
  BY DEF dbVars, FetchStep, ReadDue, Promote, Pop, PopTimeout, PromoteFails, PopFails, Crash

\* A status written alone goes over a row that is there.
LEMMA MarkWrites ==
  ASSUME TypeOK, NEW s \in Slot, MarkCommit(s) \/ UpdateCommit(s)
  PROVE  /\ UNCHANGED <<scan, resp>>
         /\ TaskOf(s) \in Task
         /\ \/ status' = status
            \/ /\ status[TaskOf(s)] # "ABSENT"
               /\ \E new \in {"PROCESSING", "RETRYING", "FAILED"} :
                    status' = [status EXCEPT ![TaskOf(s)] = new]
<1>1. TaskOf(s) \in Task /\ UNCHANGED <<scan, resp>>
  BY JobTask DEF MarkCommit, UpdateCommit
<1>2. PICK new \in {"PROCESSING", "RETRYING", "FAILED"} : WriteStatus(s, new)
  BY DEF MarkCommit, UpdateCommit
<1>3. CASE status[TaskOf(s)] = "ABSENT" \/ mem[s].status = new
  <2>1. status' = status
    BY <1>1, <1>2, <1>3 DEF WriteStatus, Written, TypeOK
  <2> QED BY <1>1, <2>1
<1>4. CASE status[TaskOf(s)] # "ABSENT" /\ mem[s].status # new
  <2>1. status' = [status EXCEPT ![TaskOf(s)] = new]
    BY <1>1, <1>2, <1>4 DEF WriteStatus, Written, TypeOK
  <2> QED BY <1>1, <1>4, <2>1
<1> QED BY <1>3, <1>4

\* _save_response writes the outcome over a row that is there, and leaves a response.
LEMMA SaveWrites ==
  ASSUME TypeOK, DeletedInv, RowStays, NEW s \in Slot, SaveCommit(s)
  PROVE  LET t == TaskOf(s) IN
         /\ t \in Task /\ scan' = scan /\ status[t] # "ABSENT"
         /\ \E new \in {"SUCCESS", "FAILED", status[t]} :
              status' = [status EXCEPT ![t] = new]
         /\ \E row \in {"ok", "error"} : resp' = [resp EXCEPT ![t] = row]
         /\ status'[t] = "SUCCESS" => status[t] = "SUCCESS" \/ out[s] = "success"
<1> DEFINE t == TaskOf(s)
<1>1. t \in Task /\ scan' = scan /\ status[t] # "ABSENT" /\ pc[s] = "saving"
  BY JobTask DEF SaveCommit, SaveConflict
<1>2. scan # "DELETED"
  BY <1>1 DEF DeletedInv, Gone
<1>3. resp[t] \in Row /\ mem[s].resp \in Row
  BY <1>1 DEF TypeOK, Mem
<1>4. Written(resp[t], mem[s].resp, RowVerdict(s)) \in {"ok", "error"}
  BY <1>1, <1>2, <1>3 DEF Written, RowVerdict, RowStays, Row
<1>5. resp' = [resp EXCEPT ![t] = Written(resp[t], mem[s].resp, RowVerdict(s))]
  BY <1>1 DEF SaveCommit, TypeOK
<1>6. status' = [status EXCEPT ![t] = Written(status[t], mem[s].status, TaskVerdict(s))]
  BY <1>1 DEF SaveCommit, TypeOK
<1>7. Written(status[t], mem[s].status, TaskVerdict(s)) \in {"SUCCESS", "FAILED", status[t]}
  BY DEF Written, TaskVerdict
<1>8. status'[t] = "SUCCESS" => status[t] = "SUCCESS" \/ out[s] = "success"
  BY <1>1, <1>6 DEF Written, TaskVerdict, TypeOK
<1> QED BY <1>1, <1>4, <1>5, <1>6, <1>7, <1>8

-----------------------------------------------------------------------------
(* The invariant.                                                          *)

\* Only the INSERT of its submission makes a row appear.
LEMMA UnstoredStep ==
  ASSUME TypeOK, DeletedInv, RowStays, Unstored, [Next]_vars
  PROVE  Unstored'
<1> USE ConstantsAssumption
<1>1. ASSUME NEW r \in Request, RequestStep(r) \/ PublishFails(r) \/ AbortRequest(r)
      PROVE  Unstored'
  <2>1. CASE StoreTasks(r)
    BY <2>1 DEF StoreTasks, Unstored, TypeOK
  <2>2. CASE ~StoreTasks(r)
    BY <1>1, <2>2 DEF RequestStep, LoadScan, OpenScan, PublishTasks, PublishFails,
      AbortRequest, Unstored, TypeOK, dbVars
  <2> QED BY <2>1, <2>2
<1>2. CASE DeleteScan
  BY <1>2 DEF DeleteScan, Unstored
<1>3. ASSUME NEW e \in Engine, FetchStep(e) \/ PromoteFails(e) \/ PopFails(e) \/ Crash(e)
      PROVE  Unstored'
  BY <1>3, FetchWritesNothing DEF Unstored
<1>4. ASSUME NEW s \in Slot, SlotStep(s) \/ ScheduleFails(s) \/ BuryFails(s) \/ DbError(s)
      PROVE  Unstored'
  <2>1. req' = req
    BY <1>4, SlotTouchesOwn
  <2>2. \A t \in Task : status[t] = "ABSENT" => status'[t] = "ABSENT"
    <3>1. CASE MarkCommit(s) \/ UpdateCommit(s)
      BY <3>1, MarkWrites DEF TypeOK
    <3>2. CASE SaveCommit(s)
      BY <3>2, SaveWrites DEF TypeOK
    <3>3. CASE EvalCommit(s) \/ UNCHANGED <<scan, status, resp>>
      BY <3>3 DEF EvalCommit
    <3> QED BY <1>4, <3>1, <3>2, <3>3, CommitsOnly
  <2> QED BY <2>1, <2>2 DEF Unstored
<1>5. (\E p \in Payload : BecomeDue(p)) \/ UNCHANGED vars => UNCHANGED <<status, req>>
  BY DEF BecomeDue, vars, dbVars
<1>6. UNCHANGED <<status, req>> => Unstored'
  BY DEF Unstored
<1> QED BY <1>1, <1>2, <1>3, <1>4, <1>5, <1>6 DEF Next

\* Response rows go away with the scan only.
LEMMA RowStaysStep ==
  ASSUME TypeOK, DeletedInv, RowStays, [Next]_vars
  PROVE  RowStays'
<1>1. /\ \A t \in Task : resp[t] # "none" => resp'[t] # "none" \/ scan' = "DELETED"
      /\ scan = "DELETED" => scan' = "DELETED"
  <2>1. scan = "DELETED" => scan' = "DELETED"
    BY DeletedStays DEF DeletedInv
  <2>2. ASSUME NEW r \in Request, RequestStep(r) \/ PublishFails(r) \/ AbortRequest(r)
        PROVE  resp' = resp
    BY <2>2 DEF RequestStep, LoadScan, OpenScan, StoreTasks, PublishTasks, PublishFails,
      AbortRequest, dbVars
  <2>3. ASSUME NEW s \in Slot, SlotStep(s) \/ ScheduleFails(s) \/ BuryFails(s) \/ DbError(s)
        PROVE  \A t \in Task : resp[t] # "none" => resp'[t] # "none"
    <3>1. CASE SaveCommit(s)
      BY <3>1, SaveWrites DEF TypeOK
    <3>2. CASE ~SaveCommit(s)
      BY <2>3, <3>2, CommitsOnly, MarkWrites DEF EvalCommit
    <3> QED BY <3>1, <3>2
  <2>4. DeleteScan => scan' = "DELETED"
    BY DEF DeleteScan
  <2>5. (\E p \in Payload : BecomeDue(p)) \/ UNCHANGED vars => resp' = resp
    BY DEF BecomeDue, vars, dbVars
  <2> QED BY <2>1, <2>2, <2>3, <2>4, <2>5, FetchWritesNothing DEF Next
<1>2. ASSUME NEW s \in Slot, pc'[s] = "saving", mem'[s].resp # "none"
      PROVE  resp'[TaskOf(s)'] # "none" \/ scan' = "DELETED"
  <2>1. CASE pc[s] = "saving" /\ job'[s] = job[s] /\ mem'[s] = mem[s]
    <3>1. TaskOf(s)' = TaskOf(s) /\ TaskOf(s) \in Task
      BY <2>1, JobTask DEF TaskOf
    <3> QED BY <1>1, <1>2, <2>1, <3>1 DEF RowStays
  <2>2. CASE SaveLoadRow(s)
    <3>1. TaskOf(s)' = TaskOf(s) /\ TaskOf(s) \in Task /\ resp' = resp
      BY <2>2, JobTask DEF SaveLoadRow, TaskOf, dbVars
    <3>2. mem'[s].resp = resp[TaskOf(s)]
      BY <2>2 DEF SaveLoadRow, TypeOK, Mem
    <3> QED BY <1>2, <3>1, <3>2
  <2>3. \/ pc[s] = "saving" /\ job'[s] = job[s] /\ mem'[s] = mem[s]
        \/ SaveLoadRow(s)
    <3>1. ASSUME NEW r \in Request, RequestStep(r) \/ PublishFails(r) \/ AbortRequest(r)
          PROVE  UNCHANGED slotVars
      BY <3>1 DEF RequestStep, LoadScan, OpenScan, StoreTasks, PublishTasks, PublishFails,
        AbortRequest
    <3>2. DeleteScan \/ (\E p \in Payload : BecomeDue(p)) \/ UNCHANGED vars => UNCHANGED slotVars
      BY DEF DeleteScan, BecomeDue, vars
    <3>3. UNCHANGED slotVars => pc[s] = "saving" /\ job'[s] = job[s] /\ mem'[s] = mem[s]
      BY <1>2 DEF slotVars
    <3>4. ASSUME NEW e \in Engine, FetchStep(e) \/ PromoteFails(e) \/ PopFails(e) \/ Crash(e)
          PROVE  pc[s] = "saving" /\ job'[s] = job[s] /\ mem'[s] = mem[s]
      <4>1. CASE Pop(e)
        BY <1>2, <4>1 DEF Pop, TypeOK
      <4>2. CASE Crash(e)
        BY <1>2, <4>2 DEF Crash, TypeOK
      <4>3. CASE ~Pop(e) /\ ~Crash(e)
        BY <3>3, <3>4, <4>3 DEF FetchStep, ReadDue, Promote, PopTimeout, PromoteFails, PopFails
      <4> QED BY <4>1, <4>2, <4>3
    <3>5. ASSUME NEW x \in Slot, SlotStep(x) \/ ScheduleFails(x) \/ BuryFails(x) \/ DbError(x)
          PROVE  \/ pc[s] = "saving" /\ job'[s] = job[s] /\ mem'[s] = mem[s]
                 \/ SaveLoadRow(s)
      <4>1. CASE x # s
        BY <1>2, <3>5, <4>1, SlotTouchesOwn
      <4>2. CASE x = s
        <5>1. CASE SaveRollback(s) \/ EvalScan(s) \/ EvalTasks(s) \/ EvalCommit(s) \/ DbError(s)
          <6>1. pc[s] # "idle"
            BY <5>1 DEF SaveRollback, EvalScan, EvalTasks, EvalCommit, DbError
          <6>2. \/ AfterSave(s)
                \/ pc'[s] \in {"evalTasks", "evalCommit", "send", "schedule", "bury"}
            BY <5>1 DEF TypeOK, SaveRollback, EvalScan, EvalTasks, EvalCommit, DbError, Goto,
              AfterUpdate
          <6> QED BY <1>2, <6>1, <6>2, AfterSaveExits
        <5>2. CASE \/ MarkLoad(s) \/ MarkCommit(s) \/ Send(s) \/ SaveLoad(s) \/ SaveCommit(s)
                   \/ UpdateLoad(s) \/ UpdateCommit(s) \/ Schedule(s) \/ Bury(s)
                   \/ ScheduleFails(s) \/ BuryFails(s)
          <6>1. pc'[s] # "saving"
            BY <5>2 DEF TypeOK, MarkLoad, MarkCommit, Send, SaveLoad, SaveCommit, UpdateLoad,
              UpdateCommit, Schedule, Bury, ScheduleFails, BuryFails, LoadTask, AfterUpdate,
              Goto, Finish
          <6> QED BY <1>2, <6>1
        <5> QED BY <3>5, <4>2, <5>1, <5>2 DEF SlotStep
      <4> QED BY <4>1, <4>2
    <3> QED BY <3>1, <3>2, <3>3, <3>4, <3>5 DEF Next
  <2> QED BY <2>1, <2>2, <2>3
<1> QED BY <1>2 DEF RowStays

\* A step that settles nothing and gives no one a task to write keeps SUCCESS final.
LEMMA NobodyNew ==
  ASSUME SuccessIsFinal,
         \A t \in Task : /\ status'[t] = "SUCCESS" => status[t] = "SUCCESS"
                         /\ Unsettled(t)' => Unsettled(t)
  PROVE  SuccessIsFinal'
  BY DEF SuccessIsFinal

\* Storing and publishing tasks concerns tasks that are not settled.
LEMMA RequestFinal ==
  ASSUME TypeOK, SuccessIsFinal, NEW r \in Request,
         RequestStep(r) \/ PublishFails(r) \/ AbortRequest(r)
  PROVE  SuccessIsFinal'
<1> USE ConstantsAssumption DEF dbVars, queueVars, slotVars
<1>1. UNCHANGED slotVars /\ delayed' = delayed
  BY DEF RequestStep, LoadScan, OpenScan, StoreTasks, PublishTasks, PublishFails, AbortRequest
<1>2. \A s \in Slot, t \in Task : /\ Holds(s, t)' <=> Holds(s, t)
                                  /\ Evaluates(s)' <=> Evaluates(s)
  BY <1>1 DEF Holds, TaskOf, Evaluates
<1>3. SUFFICES ASSUME NEW t \in Task, status'[t] = "SUCCESS"
               PROVE  ~Unsettled(t)'
  BY DEF SuccessIsFinal
<1>4. status[t] = "SUCCESS" /\ (StoreTasks(r) => ReqOf[t] # r \/ req'[r] = "done")
  BY <1>3 DEF TypeOK, RequestStep, LoadScan, OpenScan, StoreTasks, PublishTasks, PublishFails,
    AbortRequest
<1>5. ~Submitting(t) /\ ~Queued(t) /\ \A s \in Slot : Holds(s, t) => Evaluates(s)
  BY <1>4 DEF SuccessIsFinal, Unsettled
<1>6. ~Submitting(t)'
  BY <1>4, <1>5 DEF Submitting, TypeOK, RequestStep, LoadScan, OpenScan, StoreTasks,
    PublishTasks, PublishFails, AbortRequest
<1>7. ~Queued(t)'
  <2>1. CASE PublishTasks(r)
    <3>1. ReqOf[t] # r
      BY <1>5, <2>1 DEF PublishTasks, Submitting
    <3> QED BY <1>5, <2>1, <3>1 DEF PublishTasks, Queued, TypeOK
  <2>2. CASE ~PublishTasks(r)
    BY <1>1, <1>5, <2>2 DEF RequestStep, LoadScan, OpenScan, StoreTasks, PublishFails,
      AbortRequest, Queued
  <2> QED BY <2>1, <2>2
<1> QED BY <1>2, <1>5, <1>6, <1>7 DEF Unsettled

\* Promotion and BLPOP move payloads that were queued.
LEMMA FetchFinal ==
  ASSUME TypeOK, SoloInv, SuccessIsFinal, NEW e \in Engine,
         FetchStep(e) \/ PromoteFails(e) \/ PopFails(e) \/ Crash(e)
  PROVE  SuccessIsFinal'
<1> USE DEF queueVars, slotVars
<1>1. status' = status /\ req' = req
  BY FetchWritesNothing
<1>2. \A t \in Task : Submitting(t)' <=> Submitting(t)
  BY <1>1 DEF Submitting
<1>3. \A p \in Payload : ready'[p] > 0 \/ p \in delayed' => ready[p] > 0 \/ p \in delayed
  <2>1. CASE Promote(e)
    BY <2>1 DEF Promote, Removed, TypeOK, SoloInv, ReadIsDelayed
  <2>2. CASE Pop(e)
    BY <2>2 DEF Pop, TypeOK
  <2>3. CASE PopFails(e)
    BY <2>3 DEF PopFails, TypeOK
  <2>4. CASE ReadDue(e) \/ PopTimeout(e) \/ PromoteFails(e) \/ Crash(e)
    BY <2>4 DEF ReadDue, PopTimeout, PromoteFails, Crash
  <2> QED BY <2>1, <2>2, <2>3, <2>4 DEF FetchStep
<1>4. \A t \in Task : Queued(t)' => Queued(t)
  BY <1>3 DEF Queued
<1>5. ASSUME NEW s \in Slot, NEW t \in Task, Holds(s, t)', ~Evaluates(s)'
      PROVE  Unsettled(t)
  <2>1. CASE Pop(e)
    <3> PICK p \in Payload, x \in Slot :
           /\ ready[p] > 0
           /\ EngineOf[x] = e /\ pc[x] = "idle"
           /\ ready' = [ready EXCEPT ![p] = @ - 1]
           /\ pc' = [pc EXCEPT ![x] = "mark"]
           /\ job' = [job EXCEPT ![x] = p]
      BY <2>1 DEF Pop
    <3>1. out' = out
      BY <2>1 DEF Pop
    <3>2. CASE s = x
      <4>1. p.task = t
        BY <1>5, <3>2 DEF Holds, TaskOf, TypeOK
      <4> QED BY <4>1 DEF Unsettled, Queued
    <3>3. CASE s # x
      <4>1. pc'[s] = pc[s] /\ job'[s] = job[s] /\ out'[s] = out[s]
        BY <3>1, <3>3 DEF TypeOK
      <4>2. Holds(s, t) /\ ~Evaluates(s)
        BY <1>5, <4>1 DEF Holds, TaskOf, Evaluates
      <4> QED BY <4>2 DEF Unsettled
    <3> QED BY <3>2, <3>3
  <2>2. CASE ~Pop(e)
    <3>1. \/ pc'[s] = "idle"
          \/ pc'[s] = pc[s] /\ job'[s] = job[s] /\ out'[s] = out[s]
      <4>1. CASE Crash(e)
        BY <4>1 DEF Crash
      <4>2. CASE ~Crash(e)
        BY <2>2, <4>2 DEF FetchStep, ReadDue, Promote, PopTimeout, PromoteFails, PopFails
      <4> QED BY <4>1, <4>2
    <3>2. Holds(s, t) /\ ~Evaluates(s)
      BY <1>5, <3>1 DEF Holds, TaskOf, Evaluates
    <3> QED BY <3>2 DEF Unsettled
  <2> QED BY <2>1, <2>2
<1>6. ASSUME NEW t \in Task, Unsettled(t)' PROVE Unsettled(t)
  BY <1>2, <1>4, <1>5, <1>6 DEF Unsettled
<1> QED BY <1>1, <1>6, NobodyNew

\* Of a task in its hands a coroutine writes SUCCESS last.
LEMMA SlotFinal ==
  ASSUME TypeOK, DeletedInv, RowStays, SoloInv, SuccessIsFinal, NEW s \in Slot,
         SlotStep(s) \/ ScheduleFails(s) \/ BuryFails(s) \/ DbError(s)
  PROVE  SuccessIsFinal'
<1> PICK u \in Task : u = TaskOf(s)
  BY SlotTouchesOwn, JobTask
<1>1. pc[s] # "idle" /\ job[s] \in Payload /\ Holds(s, u)
  BY SlotTouchesOwn, JobTask DEF Holds
<1>2. req' = req /\ ready' = ready
  BY SlotTouchesOwn
<1>3. \A t \in Task : Submitting(t)' <=> Submitting(t)
  BY <1>2 DEF Submitting
<1>4. \A t \in Task : Holds(s, t)' => t = u
  <2>1. pc'[s] # "idle" => job'[s] = job[s]
    <3>1. CASE SaveRollback(s) \/ EvalScan(s) \/ EvalTasks(s) \/ EvalCommit(s) \/ DbError(s)
      <4>1. AfterSave(s) \/ job' = job
        BY <3>1 DEF SaveRollback, EvalScan, EvalTasks, EvalCommit, DbError
      <4> QED BY <1>1, <4>1, AfterSaveExits
    <3>2. CASE \/ MarkLoad(s) \/ MarkCommit(s) \/ Send(s) \/ SaveLoad(s) \/ SaveLoadRow(s)
               \/ SaveCommit(s) \/ UpdateLoad(s) \/ UpdateCommit(s)
      BY <3>2 DEF MarkLoad, MarkCommit, Send, SaveLoad, SaveLoadRow, SaveCommit, UpdateLoad,
        UpdateCommit
    <3>3. CASE Schedule(s) \/ Bury(s) \/ ScheduleFails(s) \/ BuryFails(s)
      BY <3>3 DEF Schedule, Bury, ScheduleFails, BuryFails, Finish, TypeOK
    <3> QED BY <3>1, <3>2, <3>3 DEF SlotStep
  <2> QED BY <2>1 DEF Holds, TaskOf
<1>5. delayed' = delayed \/ Schedule(s)
  BY DEF SlotStep, MarkLoad, MarkCommit, Send, SaveLoad, SaveLoadRow, SaveCommit, SaveRollback,
    EvalScan, EvalTasks, EvalCommit, UpdateLoad, UpdateCommit, Bury, ScheduleFails, BuryFails,
    DbError, queueVars
<1>6. \A t \in Task : Queued(t)' => Queued(t) \/ (Schedule(s) /\ t = u)
  <2>1. CASE Schedule(s)
    <3>1. [job[s] EXCEPT !.attempt = @ + 1].task = u
      BY <1>1, <2>1, RetryPayload DEF TypeOK, Schedule, RetriesLeft, TaskOf
    <3> QED BY <1>2, <2>1, <3>1 DEF Schedule, Queued
  <2>2. CASE delayed' = delayed
    BY <1>2, <2>2 DEF Queued
  <2> QED BY <1>5, <2>1, <2>2
<1>7. ASSUME NEW t \in Task, t # u, status'[t] = "SUCCESS" PROVE ~Unsettled(t)'
  <2>1. status[t] = "SUCCESS"
    BY <1>7, SlotTouchesOwn
  <2>2. ~Unsettled(t)
    BY <2>1 DEF SuccessIsFinal
  <2>3. ~Submitting(t)' /\ ~Queued(t)'
    BY <1>3, <1>6, <1>7, <2>2 DEF Unsettled
  <2>4. ASSUME NEW x \in Slot, Holds(x, t)' PROVE Evaluates(x)'
    <3>1. x # s
      BY <1>4, <1>7, <2>4
    <3>2. pc'[x] = pc[x] /\ job'[x] = job[x] /\ out'[x] = out[x]
      BY <3>1, SlotTouchesOwn
    <3>3. Holds(x, t)
      BY <2>4, <3>2 DEF Holds, TaskOf
    <3>4. Evaluates(x)
      BY <2>2, <3>3 DEF Unsettled
    <3> QED BY <3>2, <3>4 DEF Evaluates
  <2> QED BY <2>3, <2>4 DEF Unsettled
<1>8. ASSUME status'[u] = "SUCCESS" PROVE ~Unsettled(u)'
  <2>1. ~Submitting(u) /\ ~Queued(u) /\ \A x \in Slot : Holds(x, u) => x = s
    BY <1>1 DEF SoloInv, OneCarrier, InHand
  <2>2. ~Schedule(s) /\ (Holds(s, u)' => Evaluates(s)')
    <3>1. CASE status[u] = "SUCCESS"
      <4>1. Evaluates(s)
        BY <1>1, <3>1 DEF SuccessIsFinal, Unsettled
      <4>2. EvalScan(s) \/ EvalTasks(s) \/ EvalCommit(s) \/ DbError(s)
        BY <4>1 DEF Evaluates, SlotStep, MarkLoad, MarkCommit, Send, SaveLoad, SaveLoadRow,
          SaveCommit, SaveRollback, UpdateLoad, UpdateCommit, Schedule, Bury, ScheduleFails,
          BuryFails
      <4>3. \/ AfterSave(s)
            \/ pc'[s] \in {"evalTasks", "evalCommit"} /\ out' = out
        BY <4>1, <4>2 DEF Evaluates, EvalScan, EvalTasks, EvalCommit, DbError, Goto, TypeOK
      <4>4. AfterSave(s) => pc'[s] = "idle"
        BY <1>1, <4>1, AfterSaveExits DEF Evaluates
      <4> QED BY <4>1, <4>3, <4>4 DEF Evaluates, Holds, Schedule
    <3>2. CASE status[u] # "SUCCESS"
      <4>1. SaveCommit(s)
        <5>1. CASE MarkCommit(s) \/ UpdateCommit(s)
          BY <1>1, <1>8, <3>2, <5>1, MarkWrites DEF TypeOK
        <5>2. CASE EvalCommit(s) \/ UNCHANGED <<scan, status, resp>>
          BY <1>8, <3>2, <5>2 DEF EvalCommit
        <5> QED BY <5>1, <5>2, CommitsOnly
      <4>2. out[s] = "success"
        BY <1>8, <3>2, <4>1, SaveWrites
      <4>3. pc'[s] = "evalScan" /\ out' = out
        BY <4>1 DEF SaveCommit, Goto, TypeOK
      <4> QED BY <4>1, <4>2, <4>3 DEF Evaluates, SaveCommit, Schedule
    <3> QED BY <3>1, <3>2
  <2>3. ~Submitting(u)' /\ ~Queued(u)'
    BY <1>1, <1>3, <1>6, <2>1, <2>2
  <2>4. ASSUME NEW x \in Slot, Holds(x, u)' PROVE Evaluates(x)'
    <3>1. CASE x = s
      BY <2>2, <2>4, <3>1
    <3>2. CASE x # s
      <4>1. pc'[x] = pc[x] /\ job'[x] = job[x]
        BY <3>2, SlotTouchesOwn
      <4>2. Holds(x, u)
        BY <2>4, <4>1 DEF Holds, TaskOf
      <4> QED BY <2>1, <3>2, <4>2
    <3> QED BY <3>1, <3>2
  <2> QED BY <2>3, <2>4 DEF Unsettled
<1> QED BY <1>7, <1>8 DEF SuccessIsFinal

\* The initial state.
LEMMA InitRows == Init => RowInv
<1> SUFFICES ASSUME Init PROVE RowInv
  OBVIOUS
<1>1. DeletedInv /\ Unstored /\ RowStays /\ SuccessIsFinal
  BY DEF Init, DeletedInv, VerdictKnown, Unstored, RowStays, SuccessIsFinal
<1> QED BY <1>1, InitSolo DEF RowInv

\* The invariant is inductive.
LEMMA StepRows ==
  ASSUME TypeOK, RowInv, [Next]_vars
  PROVE  RowInv'
<1>1. DeletedInv'
  BY DeletedStep DEF RowInv
<1>2. Unstored' /\ RowStays'
  BY UnstoredStep, RowStaysStep DEF RowInv
<1>3. ASSUME Solo PROVE SoloInv' /\ SuccessIsFinal'
  <2>1. SoloInv /\ SuccessIsFinal /\ DeletedInv /\ RowStays
    BY <1>3 DEF RowInv
  <2>2. SoloInv'
    BY <1>3, <2>1, RequestSolo, FetchSolo, SlotSolo, OtherSolo DEF Next
  <2>3. ASSUME DeleteScan \/ (\E p \in Payload : BecomeDue(p)) \/ UNCHANGED vars
        PROVE  SuccessIsFinal'
    <3>1. \A t \in Task : status'[t] = "SUCCESS" => status[t] = "SUCCESS"
      BY <2>3 DEF DeleteScan, BecomeDue, vars, dbVars
    <3>2. UNCHANGED <<req, ready, delayed, pc, job, out>>
      BY <2>3 DEF DeleteScan, BecomeDue, vars, queueVars, slotVars
    <3>3. \A t \in Task : Unsettled(t)' <=> Unsettled(t)
      BY <3>2 DEF Unsettled, Submitting, Queued, Holds, TaskOf, Evaluates
    <3> QED BY <2>1, <3>1, <3>3, NobodyNew
  <2>4. SuccessIsFinal'
    BY <2>1, <2>3, RequestFinal, FetchFinal, SlotFinal DEF Next
  <2> QED BY <2>2, <2>4
<1> QED BY <1>1, <1>2, <1>3 DEF RowInv

-----------------------------------------------------------------------------
(* The refinement.                                                         *)

\* A commit goes over a row that ScanRows lets it write.
LEMMA RowIsOpen ==
  ASSUME TypeOK, RowInv, NEW s \in Slot, status[TaskOf(s)] # "ABSENT",
         pc[s] \in {"marking", "updating", "saving"}
  PROVE  Rows!Open(TaskOf(s))
<1>1. TaskOf(s) \in Task /\ Holds(s, TaskOf(s)) /\ ~Evaluates(s)
  BY JobTask DEF Holds, Evaluates
<1>2. CASE Solo
  BY <1>1, <1>2 DEF Rows!Open, RowInv, SuccessIsFinal, Unsettled
<1>3. CASE ~Solo
  BY <1>3 DEF Rows!Open, Solo
<1> QED BY <1>2, <1>3

\* Every step of the pipeline is a step of ScanRows or changes no row.
LEMMA StepImplements ==
  ASSUME TypeOK, RowInv, [Next]_vars
  PROVE  [Rows!RowsNext]_(Rows!rowVars)
<1> USE DEF Rows!rowVars
<1>1. ASSUME NEW r \in Request, RequestStep(r) \/ PublishFails(r) \/ AbortRequest(r)
      PROVE  [Rows!RowsNext]_(Rows!rowVars)
  <2>1. CASE OpenScan(r) /\ scan # "DELETED"
    BY <2>1 DEF OpenScan, Rows!RowsNext, Rows!SetScan
  <2>2. CASE StoreTasks(r) /\ scan # "DELETED"
    <3> DEFINE S == {t \in Task : ReqOf[t] = r}
    <3>1. \A t \in S : status[t] = "ABSENT"
      BY <2>2 DEF StoreTasks, RowInv, Unstored
    <3>2. status' = [t \in Task |-> IF t \in S THEN "QUEUED" ELSE status[t]]
      BY <2>2 DEF StoreTasks
    <3>3. S \in SUBSET Task /\ UNCHANGED <<scan, resp>>
      BY <2>2 DEF StoreTasks
    <3>4. Rows!Submit
      BY <2>2, <3>1, <3>2, <3>3 DEF Rows!Submit
    <3> QED BY <3>4 DEF Rows!RowsNext
  <2>3. CASE ~(OpenScan(r) /\ scan # "DELETED") /\ ~(StoreTasks(r) /\ scan # "DELETED")
    BY <1>1, <2>3 DEF RequestStep, LoadScan, OpenScan, StoreTasks, PublishTasks, PublishFails,
      AbortRequest, dbVars
  <2> QED BY <2>1, <2>2, <2>3
<1>2. ASSUME NEW s \in Slot, SlotStep(s) \/ ScheduleFails(s) \/ BuryFails(s) \/ DbError(s)
      PROVE  [Rows!RowsNext]_(Rows!rowVars)
  <2>1. CASE MarkCommit(s) \/ UpdateCommit(s)
    <3>1. CASE status' = status
      BY <2>1, <3>1, MarkWrites
    <3>2. CASE status' # status
      <4>1. Rows!Open(TaskOf(s))
        BY <2>1, <3>2, MarkWrites, RowIsOpen DEF MarkCommit, UpdateCommit
      <4>2. Rows!Mark(TaskOf(s)) /\ TaskOf(s) \in Task
        BY <2>1, <3>2, <4>1, MarkWrites DEF Rows!Mark
      <4> QED BY <4>2 DEF Rows!RowsNext
    <3> QED BY <3>1, <3>2
  <2>2. CASE SaveCommit(s)
    <3>1. DeletedInv /\ RowStays
      BY DEF RowInv
    <3>2. Rows!Open(TaskOf(s))
      BY <2>2, <3>1, SaveWrites, RowIsOpen DEF SaveCommit
    <3>3. Rows!Save(TaskOf(s)) /\ TaskOf(s) \in Task
      BY <2>2, <3>1, <3>2, SaveWrites DEF Rows!Save
    <3> QED BY <3>3 DEF Rows!RowsNext
  <2>3. CASE EvalCommit(s)
    <3>1. mem[s].verdict \in {"COMPLETED", "FAILED"} /\ UNCHANGED <<status, resp>>
      BY <2>3 DEF EvalCommit, RowInv, DeletedInv, VerdictKnown
    <3>2. \/ scan' = scan
          \/ scan # "DELETED" /\ scan' = mem[s].verdict
      BY <2>3 DEF EvalCommit, Written
    <3> QED BY <3>1, <3>2 DEF Rows!RowsNext, Rows!SetScan
  <2> QED BY <1>2, <2>1, <2>2, <2>3, CommitsOnly
<1>3. DeleteScan => Rows!DeleteRows
  BY DEF DeleteScan, Rows!DeleteRows
<1>4. (\E p \in Payload : BecomeDue(p)) \/ UNCHANGED vars => UNCHANGED <<scan, status, resp>>
  BY DEF BecomeDue, vars, dbVars
<1> QED BY <1>1, <1>2, <1>3, <1>4, FetchWritesNothing DEF Next, Rows!RowsNext

\* For any number of tasks, requests, engines and permits, and whatever fails, the rows
\* change only as ScanRows allows: a status and its response in one commit, responses
\* never taken back, nothing after a deletion and, with one engine, no write to the
\* row of a task that has succeeded.
THEOREM RowsImplemented == Spec => ImplementsScanRows
<1>1. Init => Rows!RowsInit
  BY DEF Init, Rows!RowsInit
<1>2. Spec => []RowInv
  BY InitRows, StepRows, TypeCorrect, PTL DEF Spec
<1>3. Spec => Rows!RowsSpec
  BY <1>1, <1>2, StepImplements, TypeCorrect, PTL DEF Spec, Rows!RowsSpec
<1> QED BY <1>3 DEF ImplementsScanRows

-----------------------------------------------------------------------------
(* Completion.                                                             *)

\* There is at most one request.
OneRequest == \A a, b \in Request : a = b

AllSucceeded == \A t \in Task : status[t] = "SUCCESS"

\* One INSERT stores all rows, so an evaluation never sees some of them only.
AllOrNone == (\E t \in Task : status[t] # "ABSENT") => \A t \in Task : status[t] # "ABSENT"

\* An evaluation that has decided COMPLETED is still right when it commits.
StillRight ==
  \A s \in Slot : pc[s] = "evalCommit" /\ mem[s].verdict = "COMPLETED" =>
    AllSucceeded \/ scan = "DELETED"

CompletionInv == AllOrNone /\ StillRight /\ CompletedMeansSuccess

\* With one engine the row of a task that has succeeded changes only by deletion.
LEMMA SuccessStays ==
  ASSUME Solo, TypeOK, RowInv, [Next]_vars, NEW t \in Task, status[t] = "SUCCESS"
  PROVE  status'[t] = "SUCCESS" \/ scan' = "DELETED"
<1>1. ASSUME NEW r \in Request, RequestStep(r) \/ PublishFails(r) \/ AbortRequest(r)
      PROVE  status'[t] = "SUCCESS"
  <2>1. CASE StoreTasks(r)
    BY <2>1 DEF StoreTasks, RowInv, Unstored
  <2>2. CASE ~StoreTasks(r)
    BY <1>1, <2>2 DEF RequestStep, LoadScan, OpenScan, PublishTasks, PublishFails,
      AbortRequest, dbVars
  <2> QED BY <2>1, <2>2
<1>2. ASSUME NEW s \in Slot, SlotStep(s) \/ ScheduleFails(s) \/ BuryFails(s) \/ DbError(s)
      PROVE  status'[t] = "SUCCESS"
  <2>1. CASE t # TaskOf(s)
    BY <1>2, <2>1, SlotTouchesOwn
  <2>2. CASE t = TaskOf(s)
    <3>1. pc[s] \notin {"marking", "updating", "saving"}
      BY <2>2, RowIsOpen DEF Rows!Open, Solo
    <3>2. status' = status
      BY <1>2, <3>1, CommitsOnly DEF MarkCommit, UpdateCommit, SaveCommit, EvalCommit
    <3> QED BY <3>2
  <2> QED BY <2>1, <2>2
<1>3. DeleteScan => scan' = "DELETED"
  BY DEF DeleteScan
<1>4. (\E p \in Payload : BecomeDue(p)) \/ UNCHANGED vars => status' = status
  BY DEF BecomeDue, vars, dbVars
<1> QED BY <1>1, <1>2, <1>3, <1>4, FetchWritesNothing DEF Next

\* A verdict is decided by EvalTasks and carried to the commit.
LEMMA VerdictFrom ==
  ASSUME TypeOK, [Next]_vars, NEW s \in Slot, pc'[s] = "evalCommit"
  PROVE  \/ pc[s] = "evalCommit" /\ mem'[s] = mem[s]
         \/ /\ EvalTasks(s) /\ ~TooEarly
            /\ mem'[s].verdict = Verdict
<1> USE DEF dbVars, queueVars, fetchVars, slotVars
<1>1. ASSUME NEW r \in Request, RequestStep(r) \/ PublishFails(r) \/ AbortRequest(r)
      PROVE  UNCHANGED slotVars
  BY <1>1 DEF RequestStep, LoadScan, OpenScan, StoreTasks, PublishTasks, PublishFails,
    AbortRequest
<1>2. DeleteScan \/ (\E p \in Payload : BecomeDue(p)) \/ UNCHANGED vars => UNCHANGED slotVars
  BY DEF DeleteScan, BecomeDue, vars
<1>3. ASSUME NEW e \in Engine, FetchStep(e) \/ PromoteFails(e) \/ PopFails(e) \/ Crash(e)
      PROVE  pc[s] = "evalCommit" /\ mem'[s] = mem[s]
  <2>1. CASE Pop(e)
    BY <2>1 DEF Pop, TypeOK
  <2>2. CASE Crash(e)
    BY <2>2 DEF Crash, TypeOK
  <2>3. CASE ~Pop(e) /\ ~Crash(e)
    BY <1>3, <2>3 DEF FetchStep, ReadDue, Promote, PopTimeout, PromoteFails, PopFails
  <2> QED BY <2>1, <2>2, <2>3
<1>4. ASSUME NEW x \in Slot, x # s,
             SlotStep(x) \/ ScheduleFails(x) \/ BuryFails(x) \/ DbError(x)
      PROVE  pc[s] = "evalCommit" /\ mem'[s] = mem[s]
  BY <1>4, SlotTouchesOwn
<1>5. ASSUME SlotStep(s) \/ ScheduleFails(s) \/ BuryFails(s) \/ DbError(s)
      PROVE  EvalTasks(s) /\ ~TooEarly /\ mem'[s].verdict = Verdict
  <2>1. CASE EvalTasks(s)
    <3>1. ~TooEarly
      BY <2>1, AfterSaveExits DEF EvalTasks
    <3> QED BY <2>1, <3>1 DEF EvalTasks, TypeOK, Mem
  <2>2. CASE SaveRollback(s) \/ EvalScan(s) \/ EvalCommit(s) \/ DbError(s)
    <3>1. pc[s] # "idle"
      BY <2>2 DEF SaveRollback, EvalScan, EvalCommit, DbError
    <3>2. AfterSave(s) \/ pc'[s] \in {"evalTasks", "send", "schedule", "bury"}
      BY <2>2 DEF TypeOK, SaveRollback, EvalScan, EvalCommit, DbError, Goto, AfterUpdate
    <3> QED BY <3>1, <3>2, AfterSaveExits
  <2>3. CASE \/ MarkLoad(s) \/ MarkCommit(s) \/ Send(s)
             \/ SaveLoad(s) \/ SaveLoadRow(s) \/ SaveCommit(s)
             \/ UpdateLoad(s) \/ UpdateCommit(s) \/ Schedule(s) \/ Bury(s)
             \/ ScheduleFails(s) \/ BuryFails(s)
    <3>1. pc'[s] # "evalCommit"
      BY <2>3 DEF TypeOK, MarkLoad, MarkCommit, Send, SaveLoad, SaveLoadRow, SaveCommit,
        UpdateLoad, UpdateCommit, Schedule, Bury, ScheduleFails, BuryFails,
        LoadTask, AfterUpdate, Goto, Finish
    <3> QED BY <3>1
  <2> QED BY <1>5, <2>1, <2>2, <2>3 DEF SlotStep
<1>6. UNCHANGED slotVars => pc[s] = "evalCommit" /\ mem'[s] = mem[s]
  OBVIOUS
<1> QED BY <1>1, <1>2, <1>3, <1>4, <1>5, <1>6 DEF Next

\* Rows appear together and disappear together.
LEMMA AllOrNoneStep ==
  ASSUME OneRequest, TypeOK, RowInv, AllOrNone, [Next]_vars
  PROVE  AllOrNone'
<1> USE ConstantsAssumption DEF AllOrNone
<1>1. ASSUME NEW r \in Request, RequestStep(r) \/ PublishFails(r) \/ AbortRequest(r)
      PROVE  AllOrNone'
  <2>1. CASE StoreTasks(r)
    <3>1. \A t \in Task : ReqOf[t] = r
      BY DEF OneRequest
    <3> QED BY <2>1, <3>1 DEF StoreTasks
  <2>2. CASE ~StoreTasks(r)
    BY <1>1, <2>2 DEF RequestStep, LoadScan, OpenScan, PublishTasks, PublishFails,
      AbortRequest, dbVars
  <2> QED BY <2>1, <2>2
<1>2. ASSUME NEW s \in Slot, SlotStep(s) \/ ScheduleFails(s) \/ BuryFails(s) \/ DbError(s)
      PROVE  AllOrNone'
  <2>1. \A t \in Task : status'[t] = "ABSENT" <=> status[t] = "ABSENT"
    <3>1. CASE MarkCommit(s) \/ UpdateCommit(s)
      BY <3>1, MarkWrites DEF TypeOK
    <3>2. CASE SaveCommit(s)
      BY <3>2, SaveWrites DEF TypeOK, RowInv
    <3>3. CASE EvalCommit(s) \/ UNCHANGED <<scan, status, resp>>
      BY <3>3 DEF EvalCommit
    <3> QED BY <1>2, <3>1, <3>2, <3>3, CommitsOnly
  <2> QED BY <2>1
<1>3. DeleteScan => AllOrNone'
  BY DEF DeleteScan
<1>4. (\E p \in Payload : BecomeDue(p)) \/ UNCHANGED vars => status' = status
  BY DEF BecomeDue, vars, dbVars
<1>5. status' = status => AllOrNone'
  OBVIOUS
<1> QED BY <1>1, <1>2, <1>3, <1>4, <1>5, FetchWritesNothing DEF Next

\* What is written to scans.status.
LEMMA CompletedFrom ==
  ASSUME TypeOK, [Next]_vars, scan' = "COMPLETED", scan # "COMPLETED"
  PROVE  \E s \in Slot : pc[s] = "evalCommit" /\ mem[s].verdict = "COMPLETED" /\ scan # "DELETED"
                         /\ status' = status
<1>1. ASSUME NEW r \in Request, RequestStep(r) \/ PublishFails(r) \/ AbortRequest(r)
      PROVE  FALSE
  BY <1>1 DEF RequestStep, LoadScan, OpenScan, StoreTasks, PublishTasks, PublishFails,
    AbortRequest, dbVars
<1>2. ASSUME NEW s \in Slot, SlotStep(s) \/ ScheduleFails(s) \/ BuryFails(s) \/ DbError(s)
      PROVE  /\ pc[s] = "evalCommit" /\ mem[s].verdict = "COMPLETED" /\ scan # "DELETED"
             /\ status' = status
  <2>1. EvalCommit(s)
    BY <1>2, CommitsOnly, MarkWrites DEF SaveCommit
  <2> QED BY <2>1 DEF EvalCommit, Written
<1>3. DeleteScan \/ (\E p \in Payload : BecomeDue(p)) \/ UNCHANGED vars => FALSE
  BY DEF DeleteScan, BecomeDue, vars, dbVars
<1> QED BY <1>1, <1>2, <1>3, FetchWritesNothing DEF Next

\* The invariant is inductive.
LEMMA CompletionStep ==
  ASSUME Solo, OneRequest, TypeOK, RowInv, CompletionInv, [Next]_vars
  PROVE  CompletionInv'
<1> USE DEF CompletionInv
<1>1. AllOrNone'
  BY AllOrNoneStep
<1>2. AllSucceeded => AllSucceeded' \/ scan' = "DELETED"
  BY SuccessStays DEF AllSucceeded
<1>3. scan = "DELETED" => scan' = "DELETED"
  BY DeletedStays DEF RowInv, DeletedInv
<1>4. ASSUME NEW s \in Slot, pc'[s] = "evalCommit", mem'[s].verdict = "COMPLETED"
      PROVE  AllSucceeded' \/ scan' = "DELETED"
  <2>1. CASE pc[s] = "evalCommit" /\ mem'[s] = mem[s]
    BY <1>2, <1>3, <1>4, <2>1 DEF StillRight
  <2>2. CASE EvalTasks(s) /\ ~TooEarly /\ mem'[s].verdict = Verdict
    <3>1. \E t \in Task : status[t] # "ABSENT"
      BY <2>2 DEF TooEarly, Stored
    <3>2. \A t \in Stored : status[t] = "SUCCESS"
      BY <1>4, <2>2 DEF Verdict
    <3>3. AllSucceeded
      BY <3>1, <3>2 DEF AllOrNone, Stored, AllSucceeded
    <3> QED BY <1>2, <3>3
  <2> QED BY <1>4, <2>1, <2>2, VerdictFrom
<1>5. StillRight'
  BY <1>4 DEF StillRight
<1>6. ASSUME scan' = "COMPLETED" PROVE AllSucceeded'
  <2>1. CASE scan = "COMPLETED"
    BY <1>2, <1>6, <2>1 DEF CompletedMeansSuccess, AllSucceeded
  <2>2. CASE scan # "COMPLETED"
    BY <1>6, <2>2, CompletedFrom DEF StillRight, AllSucceeded
  <2> QED BY <2>1, <2>2
<1> QED BY <1>1, <1>5, <1>6 DEF CompletedMeansSuccess, AllSucceeded

\* With one engine and one submission, whatever the tasks, permits and retries and
\* whatever fails: a scan that says COMPLETED has had every task succeed.
THEOREM CompletedIsTrue == ASSUME Solo, OneRequest PROVE Spec => []CompletedMeansSuccess
<1>1. Init => CompletionInv
  BY DEF Init, CompletionInv, AllOrNone, StillRight, CompletedMeansSuccess
<1>2. TypeOK /\ RowInv /\ CompletionInv /\ [Next]_vars => CompletionInv'
  BY CompletionStep
<1>3. CompletionInv => CompletedMeansSuccess
  BY DEF CompletionInv
<1>4. Spec => []RowInv
  BY InitRows, StepRows, TypeCorrect, PTL DEF Spec
<1> QED BY <1>1, <1>2, <1>3, <1>4, TypeCorrect, PTL DEF Spec
=============================================================================
