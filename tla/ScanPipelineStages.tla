-------------------------- MODULE ScanPipelineStages --------------------------
(***************************************************************************)
(* Where a task and a scan go next, for every value of the constants.      *)
(* First with any number of engines, whose racing promotions may copy      *)
(* payloads: what a coroutine knows of its row while others write it gives *)
(* that no task is stranded; where the next evaluation of the scan will    *)
(* come from gives that a scan with nothing left to do is closed.  Then    *)
(* with one engine: what a coroutine's local state says of its task's row  *)
(* (the stages) and who may hold a payload, and with which count (the      *)
(* ledger), give that attempts counts the attempts and that the dead       *)
(* letter list is exact.                                                   *)
(***************************************************************************)
EXTENDS ScanPipelineRows

-----------------------------------------------------------------------------
(* The places of a payload.                                              *)

\* The submission has not inserted the task's row.
Unsubmitted(t) == req[ReqOf[t]] \in {"load", "open", "store"}

\* A payload in Redis that a worker may still get.
Waiting(p) == ready[p] > 0 \/ p \in delayed

\* A step of a coroutine leaves the counter and the payloads of other tasks alone.
LEMMA SlotLeavesOthers ==
  ASSUME TypeOK, NEW s \in Slot, NEW t \in Task, t # TaskOf(s),
         SlotStep(s) \/ ScheduleFails(s) \/ BuryFails(s) \/ DbError(s)
  PROVE  /\ attempts'[t] = attempts[t]
         /\ \A p \in Payload : p.task = t => /\ Waiting(p)' <=> Waiting(p)
                                             /\ p \in dlq' <=> p \in dlq
         /\ Submitting(t)' <=> Submitting(t)
         /\ Unsubmitted(t)' <=> Unsubmitted(t)
         /\ Carried(t)' <=> Carried(t)
<1> USE DEF dbVars, queueVars, fetchVars, slotVars
<1>1. req' = req /\ ready' = ready /\ pc[s] # "idle"
  BY SlotTouchesOwn
<1>2. attempts'[t] = attempts[t]
  BY DEF TypeOK, SlotStep, MarkLoad, MarkCommit, Send, SaveLoad, SaveLoadRow, SaveCommit,
    SaveRollback, EvalScan, EvalTasks, EvalCommit, UpdateLoad, UpdateCommit, Schedule, Bury,
    ScheduleFails, BuryFails, DbError
<1>3. job[s].task = TaskOf(s) /\ job[s] \in Payload
  BY <1>1, JobTask DEF TaskOf
<1>4. delayed' = delayed \/ Schedule(s)
  BY DEF SlotStep, MarkLoad, MarkCommit, Send, SaveLoad, SaveLoadRow, SaveCommit,
    SaveRollback, EvalScan, EvalTasks, EvalCommit, UpdateLoad, UpdateCommit, Bury,
    ScheduleFails, BuryFails, DbError
<1>5. dlq' = dlq \/ Bury(s)
  BY DEF SlotStep, MarkLoad, MarkCommit, Send, SaveLoad, SaveLoadRow, SaveCommit,
    SaveRollback, EvalScan, EvalTasks, EvalCommit, UpdateLoad, UpdateCommit, Schedule,
    ScheduleFails, BuryFails, DbError
<1>6. ASSUME NEW p \in Payload, p.task = t PROVE (Waiting(p)' <=> Waiting(p)) /\ (p \in dlq' <=> p \in dlq)
  <2>1. p \in delayed' <=> p \in delayed
    <3>1. CASE Schedule(s)
      <4>1. [job[s] EXCEPT !.attempt = @ + 1].task = TaskOf(s)
        BY <1>3, <3>1, RetryPayload DEF TypeOK, Schedule, RetriesLeft, TaskOf
      <4> QED BY <1>6, <3>1, <4>1 DEF Schedule
    <3> QED BY <1>4, <3>1
  <2>2. p \in dlq' <=> p \in dlq
    BY <1>3, <1>5, <1>6 DEF Bury
  <2> QED BY <1>1, <2>1, <2>2 DEF Waiting
<1>7. InHand(t)' <=> InHand(t)
  <2>1. ASSUME NEW x \in Slot PROVE Holds(x, t)' <=> Holds(x, t)
    <3>1. CASE x # s
      BY <3>1, SlotTouchesOwn DEF Holds, TaskOf
    <3>2. CASE x = s
      <4>1. pc'[s] = "idle" \/ job'[s] = job[s]
        BY DEF TypeOK, SlotStep, MarkLoad, MarkCommit, Send, SaveLoad, SaveLoadRow, SaveCommit,
          SaveRollback, EvalScan, EvalTasks, EvalCommit, UpdateLoad, UpdateCommit, Schedule, Bury,
          ScheduleFails, BuryFails, DbError, AfterSave, LoadTask, Goto, Finish
      <4> QED BY <3>2, <4>1 DEF Holds, TaskOf
    <3> QED BY <3>1, <3>2
  <2> QED BY <2>1 DEF InHand
<1>8. Queued(t)' <=> Queued(t)
  BY <1>6 DEF Queued, Waiting
<1>9. (Submitting(t)' <=> Submitting(t)) /\ (Unsubmitted(t)' <=> Unsubmitted(t))
  BY <1>1 DEF Submitting, Unsubmitted
<1> QED BY <1>2, <1>6, <1>7, <1>8, <1>9 DEF Carried

-----------------------------------------------------------------------------
(* On its way: any number of engines.                                      *)

\* A save that will fail: since it has looked for a response row, one was inserted.
Doomed(s) == mem[s].resp = "none" /\ resp[TaskOf(s)] # "none"

\* A coroutine that will settle its task or retry it, if nobody writes the row before.
Settling(s) ==
  \/ pc[s] \in {"mark", "marking", "send", "save", "schedule"}
  \/ pc[s] = "saveRow" /\ mem[s].status = status[TaskOf(s)]
  \/ pc[s] = "saving" /\ mem[s].status = status[TaskOf(s)] /\ ~Doomed(s)

\* Of the coroutines that hold a task, which may be several, one is such.
OnItsWay(t) == Submitting(t) \/ Queued(t) \/ \E s \in Slot : Holds(s, t) /\ Settling(s)

PendingIsOnItsWay == \A t \in Task : t \notin hit /\ status[t] \in Pending => OnItsWay(t)

\* Somebody carries the task, or is about to push a payload that he has read.
Known(t) == Carried(t) \/ \E e \in Engine : \E p \in read[e] : p.task = t

\* A row is there before its payload is published, and until the scan is deleted.
KnownIsStored == \A t \in Task : Known(t) => status[t] # "ABSENT" \/ scan = "DELETED"

\* What a status that a worker has written after an answer says.
AfterAnswer == {"SUCCESS", "FAILED", "RETRYING"}

\* Neither deleted nor hit by a failure.
Unharmed(t) == t \notin hit /\ scan # "DELETED"

\* Such a status is not there without a response.
AnswerIsThere ==
  \A t \in Task : Unharmed(t) /\ status[t] \in AfterAnswer => resp[t] # "none"

\* What a coroutine knows of its row although others may write it: a save that is to
\* insert the response has loaded a status that its own will replace.
Informed(s) ==
  LET t == TaskOf(s) IN
  pc[s] # "idle" /\ Unharmed(t) =>
    /\ pc[s] \in {"saveRow", "saving"} => mem[s].status # "ABSENT"
    /\ pc[s] = "saveRow" /\ mem[s].status \in AfterAnswer => resp[t] # "none"
    /\ pc[s] = "saving" /\ mem[s].resp = "none" => mem[s].status \in {"QUEUED", "PROCESSING"}
    /\ pc[s] \in {"evalScan", "evalTasks", "evalCommit", "update", "updating"} => resp[t] # "none"

\* The invariant behind NoStrandedTask.
WayInv ==
  /\ KnownIsStored /\ AnswerIsThere /\ PendingIsOnItsWay
  /\ \A s \in Slot : Informed(s)

\* Failures stay, deletions stay, and responses stay until the deletion.
LEMMA NothingComesBack ==
  ASSUME TypeOK, RowInv, [Next]_vars
  PROVE  /\ hit \subseteq hit'
         /\ scan = "DELETED" => scan' = "DELETED"
         /\ \A t \in Task : resp[t] # "none" => resp'[t] # "none" \/ scan' = "DELETED"
<1> USE DEF dbVars
<1>1. scan = "DELETED" => scan' = "DELETED"
  BY DeletedStays DEF RowInv, DeletedInv
<1>2. ASSUME NEW r \in Request, RequestStep(r) \/ PublishFails(r) \/ AbortRequest(r)
      PROVE  hit \subseteq hit' /\ resp' = resp
  BY <1>2 DEF RequestStep, LoadScan, OpenScan, StoreTasks, PublishTasks, PublishFails, AbortRequest
<1>3. ASSUME NEW e \in Engine, FetchStep(e) \/ PromoteFails(e) \/ PopFails(e) \/ Crash(e)
      PROVE  hit \subseteq hit' /\ resp' = resp
  BY <1>3 DEF FetchStep, ReadDue, Promote, Pop, PopTimeout, PromoteFails, PopFails, Crash
<1>4. ASSUME NEW s \in Slot, SlotStep(s) \/ ScheduleFails(s) \/ BuryFails(s) \/ DbError(s)
      PROVE  hit \subseteq hit' /\ \A t \in Task : resp[t] # "none" => resp'[t] # "none"
  <2>1. CASE SaveCommit(s)
    BY <1>4, <2>1, SaveWrites, SlotTouchesOwn DEF TypeOK, RowInv
  <2>2. CASE ~SaveCommit(s)
    BY <1>4, <2>2, CommitsOnly, MarkWrites, SlotTouchesOwn DEF EvalCommit
  <2> QED BY <2>1, <2>2
<1>5. DeleteScan => hit \subseteq hit' /\ scan' = "DELETED"
  BY DEF DeleteScan
<1>6. (\E p \in Payload : BecomeDue(p)) \/ UNCHANGED vars => hit \subseteq hit' /\ resp' = resp
  BY DEF BecomeDue, vars
<1> QED BY <1>1, <1>2, <1>3, <1>4, <1>5, <1>6 DEF Next

\* The fetch loops hand payloads to coroutines that begin; they know no new task, and
\* who loses a payload or a coroutine is hit.
LEMMA FetchHands ==
  ASSUME TypeOK, NEW e \in Engine,
         FetchStep(e) \/ PromoteFails(e) \/ PopFails(e) \/ Crash(e)
  PROVE  /\ \A t \in Task : Known(t)' => Known(t)
         /\ \A t \in Task : Queued(t) => \/ t \in hit' \/ Queued(t)'
                                         \/ Pop(e) /\ \E s \in Slot : pc'[s] = "mark" /\ Holds(s, t)'
         /\ \A s \in Slot : pc[s] # "idle" =>
              \/ TaskOf(s) \in hit'
              \/ pc'[s] = pc[s] /\ job'[s] = job[s] /\ out'[s] = out[s] /\ mem'[s] = mem[s]
         /\ \A s \in Slot : \/ pc'[s] \in {"idle", "mark"}
                            \/ pc'[s] = pc[s] /\ job'[s] = job[s] /\ out'[s] = out[s] /\ mem'[s] = mem[s]
<1> USE DEF dbVars, queueVars, fetchVars
<1>1. CASE ReadDue(e)
  <2>1. UNCHANGED <<req, ready, delayed, slotVars>>
    BY <1>1 DEF ReadDue
  <2>2. \A f \in Engine : \A p \in read'[f] : p \in read[f] \/ (p \in delayed /\ p \in Payload)
    BY <1>1 DEF ReadDue, TypeOK
  <2>3. \A t \in Task : Carried(t)' <=> Carried(t)
    BY <2>1 DEF Carried, Submitting, Queued, InHand, Holds, TaskOf, slotVars
  <2>4. \A t \in Task : Known(t)' => Known(t)
    BY <2>2, <2>3 DEF Known, Carried, Queued
  <2> QED BY <2>1, <2>4 DEF Queued, slotVars
<1>2. CASE PopTimeout(e) \/ PromoteFails(e)
  <2>1. UNCHANGED <<req, ready, delayed, slotVars>> /\ \A f \in Engine : read'[f] \subseteq read[f]
    BY <1>2 DEF PopTimeout, PromoteFails, TypeOK
  <2>2. \A t \in Task : Carried(t)' <=> Carried(t)
    BY <2>1 DEF Carried, Submitting, Queued, InHand, Holds, TaskOf, slotVars
  <2> QED BY <2>1, <2>2 DEF Queued, slotVars, Known
<1>3. CASE Promote(e)
  <2>1. UNCHANGED <<req, slotVars>> /\ \A f \in Engine : read'[f] \subseteq read[f]
    BY <1>3 DEF Promote, TypeOK
  <2>2. \A p \in Payload : /\ ready'[p] = IF p \in read[e] THEN ready[p] + 1 ELSE ready[p]
                           /\ ready[p] \in Nat
    BY <1>3 DEF TypeOK, Promote
  <2>3. delayed' \subseteq delayed
    BY <1>3 DEF Promote
  <2>4. \A t \in Task : Queued(t)' => Known(t)
    BY <2>2, <2>3 DEF Queued, Known, Carried
  <2>5. \A t \in Task : Known(t)' => Known(t)
    BY <2>1, <2>4 DEF Known, Carried, Submitting, InHand, Holds, TaskOf, slotVars
  <2>6. \A p \in Payload : p \in delayed => \/ p \in delayed' \/ p \in read[e]
                                            \/ p.task \in hit'
    BY <1>3 DEF Promote, Removed
  <2>7. \A t \in Task : Queued(t) => t \in hit' \/ Queued(t)'
    BY <2>2, <2>6 DEF Queued
  <2> QED BY <2>1, <2>5, <2>7 DEF slotVars
<1>4. CASE Pop(e)
  <2> PICK p \in Payload, s \in Slot :
         /\ ready[p] > 0
         /\ EngineOf[s] = e /\ pc[s] = "idle"
         /\ ready' = [ready EXCEPT ![p] = @ - 1]
         /\ pc' = [pc EXCEPT ![s] = "mark"]
         /\ job' = [job EXCEPT ![s] = p]
    BY <1>4 DEF Pop
  <2>1. UNCHANGED <<req, delayed, read, out, mem>> /\ p.task \in Task
    BY <1>4, PayloadShape DEF Pop
  <2>2. pc'[s] = "mark" /\ \A x \in Slot, t \in Task :
          Holds(x, t)' <=> IF x = s THEN t = p.task ELSE Holds(x, t)
    BY DEF Holds, TaskOf, TypeOK
  <2>3. \A q \in Payload : /\ ready'[q] = (IF q = p THEN ready[q] - 1 ELSE ready[q])
                           /\ ready[q] \in Nat
    BY DEF TypeOK
  <2>4. \A t \in Task : Queued(t)' => Queued(t)
    BY <2>1, <2>3 DEF Queued
  <2>5. \A t \in Task : InHand(t)' => InHand(t) \/ Queued(t)
    BY <2>2 DEF InHand, Queued
  <2>6. \A t \in Task : Known(t)' => Known(t)
    BY <2>1, <2>4, <2>5 DEF Known, Carried, Submitting
  <2>7. \A t \in Task : Queued(t) => Queued(t)' \/ t = p.task
    BY <2>1, <2>3 DEF Queued
  <2>8. \A x \in Slot : x # s => pc'[x] = pc[x] /\ job'[x] = job[x]
    BY DEF TypeOK
  <2> QED BY <1>4, <2>1, <2>2, <2>6, <2>7, <2>8
<1>5. CASE PopFails(e)
  <2>1. UNCHANGED <<req, delayed, read, slotVars>>
    BY <1>5 DEF PopFails
  <2>2. \A q \in Payload : /\ ready'[q] > 0 => ready[q] > 0
                           /\ ready[q] > 0 => ready'[q] > 0 \/ q.task \in hit'
    BY <1>5 DEF PopFails, TypeOK
  <2>3. \A t \in Task : Queued(t)' => Queued(t)
    BY <2>1, <2>2 DEF Queued
  <2>4. \A t \in Task : Queued(t) => Queued(t)' \/ t \in hit'
    BY <2>1, <2>2 DEF Queued
  <2> QED BY <2>1, <2>3, <2>4 DEF slotVars, Known, Carried, Submitting, InHand, Holds, TaskOf
<1>6. CASE Crash(e)
  <2>1. UNCHANGED <<req, ready, delayed>> /\ \A f \in Engine : read'[f] \subseteq read[f]
    BY <1>6 DEF Crash, TypeOK
  <2>2. \A x \in Slot : EngineOf[x] = e => pc'[x] = "idle"
    BY <1>6 DEF Crash
  <2>3. \A x \in Slot : EngineOf[x] # e => /\ pc'[x] = pc[x] /\ job'[x] = job[x]
                                           /\ out'[x] = out[x] /\ mem'[x] = mem[x]
    BY <1>6 DEF Crash
  <2>4. \A x \in Slot : EngineOf[x] = e /\ pc[x] # "idle" => TaskOf(x) \in hit'
    BY <1>6 DEF Crash
  <2>5. \A t \in Task : InHand(t)' => InHand(t)
    BY <2>2, <2>3 DEF InHand, Holds, TaskOf
  <2>6. \A t \in Task : Queued(t)' <=> Queued(t)
    BY <2>1 DEF Queued
  <2>7. \A t \in Task : Known(t)' => Known(t)
    BY <2>1, <2>5, <2>6 DEF Known, Carried, Submitting
  <2> QED BY <2>2, <2>3, <2>4, <2>6, <2>7
<1> QED BY <1>1, <1>2, <1>3, <1>4, <1>5, <1>6 DEF FetchStep

\* A task is known to nobody before its INSERT, and only the DELETE takes its row away.
LEMMA KnownStep ==
  ASSUME TypeOK, RowInv, KnownIsStored, [Next]_vars
  PROVE  KnownIsStored'
<1> USE ConstantsAssumption
<1>1. scan = "DELETED" => scan' = "DELETED"
  BY NothingComesBack
<1>2. ASSUME NEW r \in Request, RequestStep(r) \/ PublishFails(r) \/ AbortRequest(r)
      PROVE  KnownIsStored'
  <2> SUFFICES ASSUME NEW t \in Task, Known(t)', scan' # "DELETED"
               PROVE  status'[t] # "ABSENT"
    BY DEF KnownIsStored
  <2> USE DEF dbVars, queueVars, fetchVars, slotVars
  <2>1. CASE StoreTasks(r) /\ ReqOf[t] = r
    BY <1>1, <2>1 DEF TypeOK, StoreTasks
  <2>2. CASE ~(StoreTasks(r) /\ ReqOf[t] = r)
    <3>1. status'[t] = status[t]
      BY <1>2, <2>2 DEF TypeOK, RequestStep, LoadScan, OpenScan, StoreTasks, PublishTasks,
        PublishFails, AbortRequest
    <3>2. (InHand(t)' => InHand(t)) /\ read' = read
      BY <1>2 DEF RequestStep, LoadScan, OpenScan, StoreTasks, PublishTasks, PublishFails,
        AbortRequest, InHand, Holds, TaskOf
    <3>3. Submitting(t)' => Submitting(t)
      BY <1>2, <2>2 DEF TypeOK, RequestStep, LoadScan, OpenScan, StoreTasks, PublishTasks,
        PublishFails, AbortRequest, Submitting
    <3>4. Queued(t)' => Queued(t) \/ Submitting(t)
      BY <1>2 DEF TypeOK, RequestStep, LoadScan, OpenScan, StoreTasks, PublishTasks,
        PublishFails, AbortRequest, Queued, Submitting
    <3>5. Known(t)
      BY <3>2, <3>3, <3>4 DEF Known, Carried
    <3> QED BY <1>1, <3>1, <3>5 DEF KnownIsStored
  <2> QED BY <2>1, <2>2
<1>3. ASSUME NEW e \in Engine, FetchStep(e) \/ PromoteFails(e) \/ PopFails(e) \/ Crash(e)
      PROVE  KnownIsStored'
  BY <1>3, FetchWritesNothing, FetchHands DEF KnownIsStored
<1>4. ASSUME NEW s \in Slot, SlotStep(s) \/ ScheduleFails(s) \/ BuryFails(s) \/ DbError(s)
      PROVE  KnownIsStored'
  <2>1. Known(TaskOf(s)) /\ TaskOf(s) \in Task
    BY <1>4, SlotTouchesOwn, JobTask DEF Known, Carried, InHand, Holds
  <2>2. \A t \in Task : status[t] # "ABSENT" => status'[t] # "ABSENT"
    <3>1. CASE MarkCommit(s) \/ UpdateCommit(s)
      BY <3>1, MarkWrites DEF TypeOK
    <3>2. CASE SaveCommit(s)
      BY <3>2, SaveWrites DEF TypeOK, RowInv
    <3>3. CASE EvalCommit(s) \/ UNCHANGED <<scan, status, resp>>
      BY <3>3 DEF EvalCommit
    <3> QED BY <1>4, <3>1, <3>2, <3>3, CommitsOnly
  <2>3. read' = read
    BY <1>4 DEF fetchVars, SlotStep, MarkLoad, MarkCommit, Send, SaveLoad, SaveLoadRow, SaveCommit,
      SaveRollback, EvalScan, EvalTasks, EvalCommit, UpdateLoad, UpdateCommit, Schedule, Bury,
      ScheduleFails, BuryFails, DbError
  <2>4. \A t \in Task : t # TaskOf(s) => (Known(t)' => Known(t))
    BY <1>4, <2>3, SlotLeavesOthers DEF Known
  <2> QED BY <1>1, <2>1, <2>2, <2>4 DEF KnownIsStored
<1>5. DeleteScan => KnownIsStored'
  BY DEF DeleteScan, KnownIsStored
<1>6. (\E p \in Payload : BecomeDue(p)) \/ UNCHANGED vars => KnownIsStored'
  <2> SUFFICES ASSUME (\E p \in Payload : BecomeDue(p)) \/ UNCHANGED vars
               PROVE  KnownIsStored'
    OBVIOUS
  <2>1. UNCHANGED <<scan, status, req, ready, delayed, read, pc, job>>
    BY DEF BecomeDue, vars, dbVars, queueVars, fetchVars, slotVars
  <2> QED BY <2>1 DEF KnownIsStored, Known, Carried, Submitting, Queued, InHand, Holds, TaskOf
<1> QED BY <1>2, <1>3, <1>4, <1>5, <1>6 DEF Next

\* A coroutine stays informed while others leave its locals alone.
LEMMA InformedKept ==
  ASSUME TypeOK, RowInv, [Next]_vars, NEW s \in Slot, Informed(s),
         pc'[s] = pc[s], job'[s] = job[s], mem'[s] = mem[s]
  PROVE  Informed(s)'
<1>1. CASE pc[s] = "idle"
  BY <1>1 DEF Informed
<1>2. CASE pc[s] # "idle"
  <2>1. TaskOf(s)' = TaskOf(s) /\ TaskOf(s) \in Task
    BY <1>2, JobTask DEF TaskOf
  <2>2. Unharmed(TaskOf(s))' => Unharmed(TaskOf(s))
    BY <2>1, NothingComesBack DEF Unharmed
  <2>3. Unharmed(TaskOf(s))' /\ resp[TaskOf(s)] # "none" => resp'[TaskOf(s)] # "none"
    BY <2>1, NothingComesBack DEF Unharmed
  <2> QED BY <2>1, <2>2, <2>3 DEF Informed
<1> QED BY <1>1, <1>2

\* A coroutine's own step keeps it informed.
LEMMA OwnInformed ==
  ASSUME TypeOK, RowInv, [Next]_vars, KnownIsStored, AnswerIsThere,
         NEW s \in Slot, Informed(s), NEW t \in Task, t = TaskOf(s),
         SlotStep(s) \/ ScheduleFails(s) \/ BuryFails(s) \/ DbError(s)
  PROVE  Informed(s)'
<1> USE DEF dbVars, queueVars, fetchVars, slotVars
<1>1. pc[s] # "idle" /\ t \in Task
  BY SlotTouchesOwn
<1>2. Unharmed(t)' => Unharmed(t)
  BY <1>1, NothingComesBack DEF Unharmed
<1>3. Unharmed(t) => status[t] # "ABSENT"
  BY <1>1 DEF KnownIsStored, Known, Carried, InHand, Holds, Unharmed
<1>4. Unharmed(t)' /\ resp[t] # "none" => resp'[t] # "none"
  BY <1>1, NothingComesBack DEF Unharmed
<1>5. ASSUME pc'[s] \in {"idle", "mark", "marking", "send", "save", "schedule", "bury"}
      PROVE  Informed(s)'
  BY <1>5 DEF Informed
<1>6. ASSUME pc'[s] \in {"evalScan", "evalTasks", "evalCommit", "update", "updating"}, job' = job,
             Unharmed(t)' => resp'[t] # "none"
      PROVE  Informed(s)'
  BY <1>6 DEF Informed, TaskOf
<1>7. ASSUME AfterSave(s), Unharmed(t)' => resp'[t] # "none" PROVE Informed(s)'
  BY <1>1, <1>5, <1>6, <1>7, AfterSaveExits
<1>8. CASE MarkLoad(s) \/ MarkCommit(s) \/ Send(s) \/ Schedule(s) \/ Bury(s)
           \/ ScheduleFails(s) \/ BuryFails(s)
  <2>1. pc'[s] \in {"idle", "marking", "send", "save"}
    BY <1>8 DEF TypeOK, MarkLoad, MarkCommit, Send, Schedule, Bury, ScheduleFails, BuryFails,
      LoadTask, Goto, Finish
  <2> QED BY <1>5, <2>1
<1>9. CASE SaveLoad(s)
  <2>1. pc'[s] = "saveRow" /\ mem'[s].status = status[t] /\ job' = job
    BY <1>9 DEF TypeOK, SaveLoad, Goto, NoMem
  <2> QED BY <1>1, <1>2, <1>3, <1>4, <2>1 DEF Informed, AnswerIsThere, TaskOf
<1>10. CASE SaveLoadRow(s)
  <2>1. /\ pc'[s] = "saving" /\ pc[s] = "saveRow" /\ job' = job
        /\ mem'[s].status = mem[s].status /\ mem'[s].resp = resp[t]
        /\ mem[s].status \in TaskStatus
    BY <1>10 DEF TypeOK, SaveLoadRow, Goto, Mem
  <2> QED BY <1>1, <1>2, <2>1 DEF Informed, TaskOf, TaskStatus, AfterAnswer
<1>11. CASE SaveCommit(s)
  <2>1. pc'[s] = "evalScan" /\ job' = job
    BY <1>11 DEF TypeOK, SaveCommit, Goto
  <2>2. resp'[t] # "none"
    BY <1>1, <1>11, SaveWrites DEF TypeOK, RowInv
  <2> QED BY <1>6, <2>1, <2>2
<1>12. CASE SaveRollback(s)
  <2>1. Unharmed(t) => resp[t] # "none"
    BY <1>1, <1>3, <1>12 DEF SaveRollback, SaveConflict, Informed
  <2> QED BY <1>2, <1>4, <1>7, <1>12, <2>1 DEF SaveRollback
<1>13. CASE EvalScan(s) \/ EvalTasks(s) \/ EvalCommit(s) \/ UpdateLoad(s) \/ UpdateCommit(s)
  <2>1. Unharmed(t) => resp[t] # "none"
    BY <1>1, <1>13 DEF Informed, EvalScan, EvalTasks, EvalCommit, UpdateLoad, UpdateCommit
  <2>2. \/ AfterSave(s)
        \/ pc'[s] \in {"evalTasks", "evalCommit", "updating", "schedule", "bury"} /\ job' = job
    BY <1>13 DEF TypeOK, EvalScan, EvalTasks, EvalCommit, UpdateLoad, UpdateCommit, LoadTask,
      AfterUpdate, Goto
  <2> QED BY <1>2, <1>4, <1>5, <1>6, <1>7, <2>1, <2>2
<1>14. CASE DbError(s)
  <2>1. CASE pc[s] \in {"save", "saveRow", "saving"}
    <3>1. AfterSave(s) /\ ~Unharmed(t)'
      BY <1>14, <2>1 DEF DbError, Unharmed
    <3> QED BY <1>7, <3>1
  <2>2. CASE pc[s] \in {"evalScan", "evalTasks", "evalCommit"}
    <3>1. AfterSave(s) /\ (Unharmed(t) => resp[t] # "none")
      BY <1>14, <2>2 DEF DbError, Informed
    <3> QED BY <1>2, <1>4, <1>7, <3>1
  <2>3. CASE pc[s] \in {"mark", "marking", "update", "updating"}
    <3>1. pc'[s] \in {"send", "schedule", "bury"}
      BY <1>14, <2>3 DEF TypeOK, DbError, Goto, AfterUpdate
    <3> QED BY <1>5, <3>1
  <2> QED BY <1>14, <2>1, <2>2, <2>3 DEF DbError
<1> QED BY <1>8, <1>9, <1>10, <1>11, <1>12, <1>13, <1>14 DEF SlotStep

\* Whoever writes such a status has answered.
LEMMA AnswerStep ==
  ASSUME TypeOK, RowInv, AnswerIsThere, \A s \in Slot : Informed(s), [Next]_vars
  PROVE  AnswerIsThere'
<1> SUFFICES ASSUME NEW t \in Task, Unharmed(t)', status'[t] \in AfterAnswer
             PROVE  resp'[t] # "none"
  BY DEF AnswerIsThere
<1>1. Unharmed(t) /\ (resp[t] # "none" => resp'[t] # "none")
  BY NothingComesBack DEF Unharmed
<1>2. CASE status[t] \in AfterAnswer
  BY <1>1, <1>2 DEF AnswerIsThere
<1>3. CASE status'[t] = status[t]
  BY <1>2, <1>3
<1>4. CASE status[t] \notin AfterAnswer /\ status'[t] # status[t]
  <2>1. ASSUME NEW s \in Slot, SlotStep(s) \/ ScheduleFails(s) \/ BuryFails(s) \/ DbError(s)
        PROVE  resp'[t] # "none"
    <3>1. t = TaskOf(s)
      BY <1>4, <2>1, SlotTouchesOwn
    <3>2. CASE MarkCommit(s)
      BY <1>4, <3>1, <3>2 DEF TypeOK, MarkCommit, WriteStatus, Written, AfterAnswer
    <3>3. CASE UpdateCommit(s)
      BY <1>1, <3>1, <3>3 DEF UpdateCommit, Informed
    <3>4. CASE SaveCommit(s)
      BY <3>1, <3>4, SaveWrites DEF TypeOK, RowInv
    <3>5. CASE EvalCommit(s) \/ UNCHANGED <<scan, status, resp>>
      BY <1>4, <3>5 DEF EvalCommit
    <3> QED BY <2>1, <3>2, <3>3, <3>4, <3>5, CommitsOnly
  <2>2. ASSUME NEW r \in Request, RequestStep(r) \/ PublishFails(r) \/ AbortRequest(r)
        PROVE  FALSE
    BY <1>4, <2>2 DEF TypeOK, RequestStep, LoadScan, OpenScan, StoreTasks, PublishTasks,
      PublishFails, AbortRequest, dbVars, AfterAnswer
  <2>3. ~DeleteScan
    BY <1>4 DEF DeleteScan, AfterAnswer
  <2>4. ~((\E p \in Payload : BecomeDue(p)) \/ UNCHANGED vars)
    BY <1>4 DEF BecomeDue, vars, dbVars
  <2> QED BY <1>4, <2>1, <2>2, <2>3, <2>4, FetchWritesNothing DEF Next
<1> QED BY <1>2, <1>3, <1>4

\* A coroutine goes on settling its task while others leave its locals and the status
\* alone and insert no response.
LEMMA SettlingKept ==
  ASSUME NEW s \in Slot, NEW t \in Task, Holds(s, t), Settling(s),
         pc'[s] = pc[s], job'[s] = job[s], mem'[s] = mem[s],
         status'[t] = status[t], resp'[t] = resp[t] \/ resp[t] # "none"
  PROVE  Holds(s, t)' /\ Settling(s)'
  BY DEF Holds, Settling, Doomed, TaskOf

\* When a coroutine lets go of a pending task that nothing has hit, another settles it
\* or it is queued again.
LEMMA OwnWay ==
  ASSUME TypeOK, RowInv, [Next]_vars, WayInv, NEW s \in Slot, NEW t \in Task, t = TaskOf(s),
         SlotStep(s) \/ ScheduleFails(s) \/ BuryFails(s) \/ DbError(s),
         t \notin hit', status'[t] \in Pending
  PROVE  OnItsWay(t)'
<1> USE DEF dbVars, queueVars, fetchVars, slotVars
<1>1. pc[s] # "idle" /\ Holds(s, t) /\ t \notin hit /\ Informed(s)
  BY SlotTouchesOwn DEF Holds, WayInv
<1>2. Unharmed(t) /\ status[t] # "ABSENT"
  <2>1. scan # "DELETED"
    BY NothingComesBack, DeletedStays DEF RowInv, DeletedInv, Gone, Pending
  <2> QED BY <1>1, <2>1 DEF Unharmed, WayInv, KnownIsStored, Known, Carried, InHand
<1>3. ASSUME pc'[s] \in {"marking", "send", "save", "schedule"}, job' = job PROVE OnItsWay(t)'
  BY <1>3 DEF OnItsWay, Holds, Settling, TaskOf
<1>4. ASSUME status'[t] = status[t], resp'[t] = resp[t] \/ resp[t] # "none",
             Settling(s) => Holds(s, t)' /\ Settling(s)'
      PROVE  OnItsWay(t)'
  <2>1. OnItsWay(t)
    BY <1>1, <1>4 DEF WayInv, PendingIsOnItsWay
  <2>2. CASE Submitting(t) \/ Queued(t)
    BY <2>2, SlotTouchesOwn DEF OnItsWay, Submitting, Queued
  <2>3. ASSUME NEW x \in Slot, Holds(x, t), Settling(x) PROVE OnItsWay(t)'
    <3>1. CASE x = s
      BY <1>4, <2>3, <3>1 DEF OnItsWay
    <3>2. CASE x # s
      <4>1. Holds(x, t)' /\ Settling(x)'
        BY <1>4, <2>3, <3>2, SlotTouchesOwn, SettlingKept
      <4> QED BY <4>1 DEF OnItsWay
    <3> QED BY <3>1, <3>2
  <2> QED BY <2>1, <2>2, <2>3 DEF OnItsWay
<1>5. CASE MarkLoad(s) \/ MarkCommit(s) \/ Send(s)
  <2>1. pc'[s] \in {"marking", "send", "save"} /\ job' = job
    BY <1>5 DEF TypeOK, MarkLoad, MarkCommit, Send, LoadTask, Goto
  <2> QED BY <1>3, <2>1
<1>6. CASE SaveLoad(s)
  <2>1. pc'[s] = "saveRow" /\ mem'[s].status = status[t] /\ job' = job /\ status' = status
    BY <1>6 DEF TypeOK, SaveLoad, Goto, NoMem
  <2> QED BY <2>1 DEF OnItsWay, Holds, Settling, TaskOf
<1>7. CASE SaveLoadRow(s)
  <2>1. /\ pc[s] = "saveRow" /\ pc'[s] = "saving" /\ job' = job /\ status' = status /\ resp' = resp
        /\ mem'[s].status = mem[s].status /\ mem'[s].resp = resp[t]
    BY <1>7 DEF TypeOK, SaveLoadRow, Goto, Mem
  <2>2. Settling(s) => Holds(s, t)' /\ Settling(s)'
    BY <2>1 DEF Holds, Settling, Doomed, TaskOf
  <2> QED BY <1>4, <2>1, <2>2
<1>8. CASE SaveCommit(s)
  <2>1. pc[s] = "saving" /\ status'[t] = Written(status[t], mem[s].status, TaskVerdict(s))
    BY <1>8 DEF TypeOK, SaveCommit
  <2>2. mem[s].status = TaskVerdict(s) /\ status'[t] = status[t]
    BY <2>1 DEF Written, TaskVerdict, Pending
  <2>3. mem[s].status \notin Pending
    BY <2>2 DEF TaskVerdict, Pending
  <2>4. mem[s].resp # "none"
    BY <1>1, <1>2, <2>1, <2>3 DEF Informed, Pending
  <2>5. resp[t] # "none"
    BY <1>2, <2>1, <2>4 DEF RowInv, RowStays, Unharmed
  <2>6. ~Settling(s)
    BY <2>1, <2>2, <2>3 DEF Settling
  <2> QED BY <1>4, <2>2, <2>5, <2>6
<1>9. CASE SaveRollback(s)
  <2>1. pc[s] = "saving" /\ status' = status /\ resp' = resp /\ SaveConflict(s)
    BY <1>9 DEF SaveRollback
  <2>2. ~Settling(s)
    BY <1>2, <2>1 DEF Settling, SaveConflict, Doomed
  <2> QED BY <1>4, <2>1, <2>2
<1>10. CASE \/ EvalScan(s) \/ EvalTasks(s) \/ EvalCommit(s) \/ UpdateLoad(s) \/ Bury(s)
            \/ DbError(s) /\ pc[s] \in {"evalScan", "evalTasks", "evalCommit", "update", "updating"}
  <2>1. /\ pc[s] \in {"evalScan", "evalTasks", "evalCommit", "update", "updating", "bury"}
        /\ status' = status /\ resp' = resp
    BY <1>10 DEF EvalScan, EvalTasks, EvalCommit, UpdateLoad, Bury, DbError
  <2>2. ~Settling(s)
    BY <2>1 DEF Settling
  <2> QED BY <1>4, <2>1, <2>2
<1>11. CASE UpdateCommit(s)
  <2>1. CASE RetriesLeft(s)
    <3>1. pc'[s] = "schedule" /\ job' = job
      BY <1>11, <2>1 DEF TypeOK, UpdateCommit, AfterUpdate, Goto
    <3> QED BY <1>3, <3>1
  <2>2. CASE ~RetriesLeft(s)
    <3>1. pc[s] = "updating" /\ resp' = resp /\ status'[t] = Written(status[t], mem[s].status, "FAILED")
      BY <1>2, <1>11, <2>2 DEF TypeOK, UpdateCommit, WriteStatus
    <3>2. status'[t] = status[t] /\ ~Settling(s)
      BY <3>1 DEF Written, Pending, Settling
    <3> QED BY <1>4, <3>1, <3>2
  <2> QED BY <2>1, <2>2
<1>12. CASE Schedule(s)
  <2>1. [job[s] EXCEPT !.attempt = @ + 1] \in Payload /\ [job[s] EXCEPT !.attempt = @ + 1].task = t
    BY <1>12, JobTask, RetryPayload DEF TypeOK, Schedule, RetriesLeft, TaskOf
  <2> QED BY <1>12, <2>1 DEF Schedule, OnItsWay, Queued
<1>13. CASE ScheduleFails(s) \/ BuryFails(s)
  BY <1>13 DEF ScheduleFails, BuryFails
<1>14. CASE DbError(s) /\ pc[s] \in {"mark", "marking"}
  <2>1. pc'[s] = "send" /\ job' = job
    BY <1>14 DEF TypeOK, DbError, Goto
  <2> QED BY <1>3, <2>1
<1>15. CASE DbError(s) /\ pc[s] \in {"save", "saveRow", "saving"}
  BY <1>15 DEF DbError
<1> QED BY <1>5, <1>6, <1>7, <1>8, <1>9, <1>10, <1>11, <1>12, <1>13, <1>14, <1>15 DEF SlotStep, DbError

\* No step takes the last of them away from a pending task.
LEMMA WayStep ==
  ASSUME TypeOK, RowInv, WayInv, [Next]_vars
  PROVE  PendingIsOnItsWay'
<1> USE ConstantsAssumption
<1> SUFFICES ASSUME NEW t \in Task, t \notin hit', status'[t] \in Pending
             PROVE  OnItsWay(t)'
  BY DEF PendingIsOnItsWay
<1>1. t \notin hit /\ ReqOf[t] \in Request
  BY NothingComesBack
<1>2. status[t] \in Pending => OnItsWay(t)
  BY <1>1 DEF WayInv, PendingIsOnItsWay
<1>3. ASSUME status[t] = status'[t], resp'[t] = resp[t],
             \A s \in Slot : Holds(s, t) => pc'[s] = pc[s] /\ job'[s] = job[s] /\ mem'[s] = mem[s],
             Submitting(t) \/ Queued(t) => OnItsWay(t)'
      PROVE  OnItsWay(t)'
  <2>1. ASSUME NEW s \in Slot, Holds(s, t), Settling(s) PROVE OnItsWay(t)'
    <3>1. Holds(s, t)' /\ Settling(s)'
      BY <1>3, <2>1, SettlingKept
    <3> QED BY <3>1 DEF OnItsWay
  <2> QED BY <1>2, <1>3, <2>1 DEF OnItsWay
<1>4. ASSUME NEW r \in Request, RequestStep(r) \/ PublishFails(r) \/ AbortRequest(r)
      PROVE  OnItsWay(t)'
  <2> USE DEF dbVars, queueVars, fetchVars, slotVars
  <2>1. UNCHANGED slotVars /\ resp' = resp /\ delayed' = delayed
    BY <1>4 DEF RequestStep, LoadScan, OpenScan, StoreTasks, PublishTasks, PublishFails, AbortRequest
  <2>2. CASE StoreTasks(r) /\ ReqOf[t] = r /\ scan # "DELETED"
    BY <1>1, <2>2 DEF TypeOK, StoreTasks, OnItsWay, Submitting
  <2>3. CASE ~(StoreTasks(r) /\ ReqOf[t] = r /\ scan # "DELETED")
    <3>1. status'[t] = status[t]
      BY <1>4, <2>3 DEF TypeOK, RequestStep, LoadScan, OpenScan, StoreTasks, PublishTasks,
        PublishFails, AbortRequest
    <3>2. ASSUME Queued(t) PROVE OnItsWay(t)'
      BY <1>4, <2>1, <3>2 DEF TypeOK, Queued, OnItsWay, RequestStep, LoadScan, OpenScan, StoreTasks,
        PublishTasks, PublishFails, AbortRequest
    <3>3. ASSUME Submitting(t) PROVE OnItsWay(t)'
      <4>1. CASE PublishTasks(r) /\ ReqOf[t] = r
        <5>1. [task |-> t, attempt |-> 0] \in Payload
          BY DEF Payload
        <5> QED BY <4>1, <5>1 DEF TypeOK, PublishTasks, OnItsWay, Queued
      <4>2. CASE (PublishFails(r) \/ AbortRequest(r)) /\ ReqOf[t] = r
        BY <3>3, <4>2 DEF PublishFails, AbortRequest, TasksOf, Submitting
      <4>3. CASE ReqOf[t] # r
        BY <1>1, <1>4, <3>3, <4>3 DEF TypeOK, Submitting, OnItsWay, RequestStep, LoadScan, OpenScan,
          StoreTasks, PublishTasks, PublishFails, AbortRequest
      <4>4. CASE RequestStep(r) /\ ~PublishTasks(r) /\ ReqOf[t] = r
        BY <3>3, <4>4 DEF Submitting, RequestStep, LoadScan, OpenScan, StoreTasks
      <4> QED BY <1>4, <4>1, <4>2, <4>3, <4>4
    <3> QED BY <1>3, <2>1, <3>1, <3>2, <3>3
  <2> QED BY <2>2, <2>3
<1>5. ASSUME NEW e \in Engine, FetchStep(e) \/ PromoteFails(e) \/ PopFails(e) \/ Crash(e)
      PROVE  OnItsWay(t)'
  <2>1. UNCHANGED <<status, resp, req>>
    BY <1>5, FetchWritesNothing
  <2>2. Queued(t) => OnItsWay(t)'
    BY <1>5, FetchHands DEF OnItsWay, Settling
  <2>3. \A s \in Slot : Holds(s, t) => pc'[s] = pc[s] /\ job'[s] = job[s] /\ mem'[s] = mem[s]
    BY <1>5, FetchHands DEF Holds
  <2> QED BY <1>3, <2>1, <2>2, <2>3 DEF OnItsWay, Submitting
<1>6. ASSUME NEW s \in Slot, SlotStep(s) \/ ScheduleFails(s) \/ BuryFails(s) \/ DbError(s)
      PROVE  OnItsWay(t)'
  <2>1. CASE t = TaskOf(s)
    BY <1>6, <2>1, OwnWay
  <2>2. CASE t # TaskOf(s)
    <3>1. status'[t] = status[t] /\ resp'[t] = resp[t]
      BY <1>6, <2>2, SlotTouchesOwn
    <3>2. Submitting(t) \/ Queued(t) => OnItsWay(t)'
      BY <1>6, SlotTouchesOwn DEF OnItsWay, Submitting, Queued
    <3>3. \A x \in Slot : Holds(x, t) => pc'[x] = pc[x] /\ job'[x] = job[x] /\ mem'[x] = mem[x]
      BY <1>6, <2>2, SlotTouchesOwn DEF Holds
    <3> QED BY <1>3, <3>1, <3>2, <3>3
  <2> QED BY <2>1, <2>2
<1>7. ~DeleteScan
  BY DEF DeleteScan, Pending
<1>8. (\E p \in Payload : BecomeDue(p)) \/ UNCHANGED vars => OnItsWay(t)'
  <2> SUFFICES ASSUME (\E p \in Payload : BecomeDue(p)) \/ UNCHANGED vars
               PROVE  OnItsWay(t)'
    OBVIOUS
  <2>1. UNCHANGED <<status, resp, req, ready, delayed, pc, job, mem>>
    BY DEF BecomeDue, vars, dbVars, queueVars, slotVars
  <2> QED BY <1>3, <2>1 DEF OnItsWay, Submitting, Queued
<1> QED BY <1>4, <1>5, <1>6, <1>7, <1>8 DEF Next

\* The invariant is inductive, for any number of engines.
LEMMA WayAlways == Spec => [](TypeOK /\ RowInv /\ WayInv)
<1>1. Init => WayInv
  <2> SUFFICES ASSUME Init PROVE WayInv
    OBVIOUS
  <2>1. \A t \in Task : ~Known(t)
    BY ConstantsAssumption DEF Init, Known, Carried, Submitting, Queued, InHand, Holds
  <2>2. \A s \in Slot : Informed(s)
    BY DEF Init, Informed
  <2>3. \A t \in Task : status[t] = "ABSENT"
    BY DEF Init
  <2> QED BY <2>1, <2>2, <2>3 DEF WayInv, KnownIsStored, AnswerIsThere, PendingIsOnItsWay,
        AfterAnswer, Pending
<1>2. TypeOK /\ RowInv /\ WayInv /\ [Next]_vars => WayInv'
  <2> SUFFICES ASSUME TypeOK, RowInv, WayInv, [Next]_vars PROVE WayInv'
    OBVIOUS
  <2>1. ASSUME NEW s \in Slot PROVE Informed(s)'
    <3>1. Informed(s) /\ KnownIsStored /\ AnswerIsThere
      BY DEF WayInv
    <3>2. ASSUME NEW x \in Slot, SlotStep(x) \/ ScheduleFails(x) \/ BuryFails(x) \/ DbError(x)
          PROVE  Informed(s)'
      <4>1. CASE x = s
        <5>1. PICK t \in Task : t = TaskOf(s)
          BY <3>2, <4>1, SlotTouchesOwn, JobTask
        <5> QED BY <3>1, <3>2, <4>1, <5>1, OwnInformed
      <4>2. CASE x # s
        BY <3>1, <3>2, <4>2, SlotTouchesOwn, InformedKept
      <4> QED BY <4>1, <4>2
    <3>3. ASSUME NEW e \in Engine, FetchStep(e) \/ PromoteFails(e) \/ PopFails(e) \/ Crash(e)
          PROVE  Informed(s)'
      <4>1. CASE pc'[s] \in {"idle", "mark"}
        BY <4>1 DEF Informed
      <4>2. CASE pc'[s] \notin {"idle", "mark"}
        BY <3>1, <3>3, <4>2, FetchHands, InformedKept
      <4> QED BY <4>1, <4>2
    <3>4. ASSUME NEW r \in Request, RequestStep(r) \/ PublishFails(r) \/ AbortRequest(r)
          PROVE  UNCHANGED slotVars
      BY <3>4 DEF RequestStep, LoadScan, OpenScan, StoreTasks, PublishTasks, PublishFails, AbortRequest
    <3>5. DeleteScan \/ (\E p \in Payload : BecomeDue(p)) \/ UNCHANGED vars => UNCHANGED slotVars
      BY DEF DeleteScan, BecomeDue, vars
    <3>6. UNCHANGED slotVars => Informed(s)'
      BY <3>1, InformedKept DEF slotVars
    <3> QED BY <3>2, <3>3, <3>4, <3>5, <3>6 DEF Next
  <2>2. KnownIsStored' /\ AnswerIsThere' /\ PendingIsOnItsWay'
    BY KnownStep, AnswerStep, WayStep DEF WayInv
  <2> QED BY <2>1, <2>2 DEF WayInv
<1>3. Spec => []RowInv
  BY InitRows, StepRows, TypeCorrect, PTL DEF Spec
<1> QED BY <1>1, <1>2, <1>3, TypeCorrect, PTL DEF Spec

\* With any number of engines and requests, and whatever fails: a task whose row says
\* QUEUED, PROCESSING or RETRYING is on its way, unless a failure in Faults that loses
\* payloads or outcomes, or a promotion of more than PromoteBatch, has hit that task.
\* Where racing promotions have made copies of a payload, the copy that loses the race
\* for the row may give up, but never before another one is to settle it.
THEOREM NoTaskStranded == Spec => []NoStrandedTask
<1>1. WayInv => NoStrandedTask
  BY DEF WayInv, PendingIsOnItsWay, OnItsWay, NoStrandedTask, Carried, InHand
<1> QED BY <1>1, WayAlways, PTL

-----------------------------------------------------------------------------
(* The last evaluation.                                                    *)

\* No cancelled request, and no failing database.
NoAbortNoDbError == Faults \cap {"abort", "db"} = {}

\* There is a submission, and each has a task.
NoEmptySubmission == Request # {} /\ \A r \in Request : \E t \in Task : ReqOf[t] = r

\* What scans.status says before a verdict.
Unfinished == {"PENDING", "RUNNING"}

\* A coroutine that will evaluate the scan again and find it unfinished if it is: one
\* that has not loaded it yet, or loaded it unfinished, or will retry its task.  A save
\* that fails is not followed by an evaluation.
WillEvaluate(s) ==
  \/ pc[s] \in {"mark", "marking", "send", "save", "saveRow", "evalScan"}
  \/ pc[s] = "saving" /\ ~Doomed(s)
  \/ pc[s] \in {"evalTasks", "evalCommit"} /\ mem[s].scan \in Unfinished
  \/ pc[s] \in {"update", "updating", "schedule"} /\ RetriesLeft(s)

\* Somebody is on the way to an evaluation of the scan: a request, a queued payload,
\* or a coroutine.
EvaluationComes ==
  \/ \E r \in Request : req[r] # "done"
  \/ \E t \in Task : Queued(t)
  \/ \E s \in Slot : WillEvaluate(s)

\* A scan no failure has hit says it is unfinished only while an evaluation is to come.
UnfinishedIsComing == hit = {} /\ scan \in Unfinished => EvaluationComes

\* Who will evaluate still will while others leave its locals alone and insert no
\* response for its task.
LEMMA EvaluatorKept ==
  ASSUME NEW s \in Slot, WillEvaluate(s),
         pc'[s] = pc[s], job'[s] = job[s], mem'[s] = mem[s],
         resp' = resp \/ resp'[TaskOf(s)] = resp[TaskOf(s)] \/ resp[TaskOf(s)] # "none"
  PROVE  WillEvaluate(s)'
  BY DEF WillEvaluate, Doomed, RetriesLeft, TaskOf

\* An evaluation that returns early leaves another one to come: the pending task it has
\* seen is on its way.
LEMMA TooEarlyLeavesAnother ==
  ASSUME TypeOK, RowInv, WayInv, hit = {}, scan # "DELETED",
         NEW s \in Slot, pc[s] = "evalTasks", TooEarly
  PROVE  \/ \E r \in Request : req[r] # "done"
         \/ \E t \in Task : Queued(t)
         \/ \E x \in Slot : x # s /\ WillEvaluate(x)
<1>1. TaskOf(s) \in Task /\ Known(TaskOf(s))
  BY JobTask DEF Known, Carried, InHand, Holds
<1>2. status[TaskOf(s)] # "ABSENT"
  BY <1>1 DEF WayInv, KnownIsStored
<1>3. PICK u \in Task : status[u] \in Pending
  BY <1>1, <1>2 DEF TooEarly, Stored
<1>4. OnItsWay(u)
  BY <1>3 DEF WayInv, PendingIsOnItsWay
<1>5. CASE Submitting(u)
  <2>1. ReqOf[u] \in Request
    BY ConstantsAssumption
  <2> QED BY <1>5, <2>1 DEF Submitting
<1>6. ASSUME NEW x \in Slot, Settling(x) PROVE x # s /\ WillEvaluate(x)
  <2>1. pc[x] = "schedule" => RetriesLeft(x)
    BY DEF TypeOK
  <2> QED BY <1>6, <2>1 DEF Settling, WillEvaluate
<1> QED BY <1>4, <1>5, <1>6 DEF OnItsWay

\* A coroutine that ends, or that buries its task, has evaluated the scan or left
\* another coroutine to do it.
LEMMA OwnEvaluation ==
  ASSUME NoAbortNoDbError, TypeOK, RowInv, WayInv,
         hit = {}, hit' = {}, scan \in Unfinished, scan' \in Unfinished,
         NEW s \in Slot, WillEvaluate(s),
         SlotStep(s) \/ ScheduleFails(s) \/ BuryFails(s) \/ DbError(s)
  PROVE  EvaluationComes'
<1> USE DEF dbVars, queueVars, fetchVars, slotVars
<1> DEFINE t == TaskOf(s)
<1>1. pc[s] # "idle" /\ t \in Task /\ req' = req /\ ready' = ready /\ delayed \subseteq delayed'
  BY SlotTouchesOwn, JobTask
<1>2. scan # "DELETED" /\ status[t] # "ABSENT"
  BY <1>1 DEF WayInv, KnownIsStored, Known, Carried, InHand, Holds, Unfinished
<1>3. WillEvaluate(s)' => EvaluationComes'
  BY DEF EvaluationComes
<1>4. CASE MarkLoad(s) \/ MarkCommit(s) \/ Send(s) \/ SaveLoad(s) \/ SaveLoadRow(s) \/ SaveCommit(s)
  <2>1. CASE SaveLoadRow(s)
    <3>1. pc'[s] = "saving" /\ mem'[s].resp = resp[t] /\ resp' = resp /\ job' = job
      BY <2>1 DEF TypeOK, SaveLoadRow, Goto, Mem
    <3> QED BY <1>3, <3>1 DEF WillEvaluate, Doomed, TaskOf
  <2>2. CASE ~SaveLoadRow(s)
    <3>1. pc'[s] \in {"marking", "send", "save", "saveRow", "evalScan"}
      BY <1>4, <2>2 DEF TypeOK, MarkLoad, MarkCommit, Send, SaveLoad, SaveCommit, LoadTask, Goto
    <3> QED BY <1>3, <3>1 DEF WillEvaluate
  <2> QED BY <2>1, <2>2
<1>5. CASE SaveRollback(s)
  <2>1. pc[s] = "saving" /\ SaveConflict(s) /\ ~Doomed(s)
    BY <1>5 DEF SaveRollback, WillEvaluate
  <2>2. mem[s].status # "ABSENT"
    BY <1>1, <1>2, <2>1 DEF WayInv, Informed, Unharmed
  <2> QED BY <1>2, <2>1, <2>2 DEF SaveConflict, Doomed
<1>6. CASE EvalScan(s)
  <2>1. pc'[s] = "evalTasks" /\ mem'[s].scan = scan
    BY <1>2, <1>6 DEF TypeOK, EvalScan, Goto, NoMem
  <2> QED BY <1>3, <2>1 DEF WillEvaluate
<1>7. CASE EvalTasks(s)
  <2>1. CASE TooEarly
    <3>1. \/ \E r \in Request : req[r] # "done"
          \/ \E u \in Task : Queued(u)
          \/ \E x \in Slot : x # s /\ WillEvaluate(x)
      BY <1>2, <1>7, <2>1, TooEarlyLeavesAnother DEF EvalTasks
    <3>2. \A u \in Task : Queued(u) => Queued(u)'
      BY <1>1 DEF Queued
    <3>3. \A x \in Slot : x # s /\ WillEvaluate(x) => WillEvaluate(x)'
      BY <1>7, SlotTouchesOwn, EvaluatorKept DEF EvalTasks
    <3> QED BY <1>1, <3>1, <3>2, <3>3 DEF EvaluationComes
  <2>2. CASE ~TooEarly
    <3>1. pc'[s] = "evalCommit" /\ mem'[s].scan = mem[s].scan
      BY <1>7, <2>2 DEF TypeOK, EvalTasks, Goto, Mem
    <3>2. mem[s].scan \in Unfinished
      BY <1>7 DEF EvalTasks, WillEvaluate
    <3> QED BY <1>3, <3>1, <3>2 DEF WillEvaluate
  <2> QED BY <2>1, <2>2
<1>8. CASE EvalCommit(s)
  <2>1. mem[s].verdict \in {"COMPLETED", "FAILED"} /\ mem[s].scan \in Unfinished
    BY <1>8 DEF RowInv, DeletedInv, VerdictKnown, EvalCommit, WillEvaluate
  <2>2. scan' = mem[s].verdict
    BY <1>2, <1>8, <2>1 DEF EvalCommit, Written, Unfinished
  <2> QED BY <2>1, <2>2 DEF Unfinished
<1>9. CASE UpdateLoad(s) \/ UpdateCommit(s)
  <2>1. RetriesLeft(s) /\ job' = job
    BY <1>9 DEF UpdateLoad, UpdateCommit, WillEvaluate
  <2>2. pc'[s] \in {"updating", "schedule"} /\ RetriesLeft(s)'
    BY <1>9, <2>1 DEF TypeOK, UpdateLoad, UpdateCommit, LoadTask, AfterUpdate, Goto, RetriesLeft, TaskOf
  <2> QED BY <1>3, <2>2 DEF WillEvaluate
<1>10. CASE Schedule(s)
  <2>1. [job[s] EXCEPT !.attempt = @ + 1] \in Payload /\ [job[s] EXCEPT !.attempt = @ + 1].task = t
    BY <1>10, JobTask, RetryPayload DEF TypeOK, Schedule, RetriesLeft, TaskOf
  <2>2. [job[s] EXCEPT !.attempt = @ + 1] \in delayed'
    BY <1>10 DEF Schedule
  <2>3. \E u \in Task, p \in Payload : p.task = u /\ p \in delayed'
    BY <1>1, <2>1, <2>2
  <2> QED BY <2>3 DEF EvaluationComes, Queued
<1>11. CASE Bury(s) \/ BuryFails(s)
  BY <1>11 DEF Bury, BuryFails, WillEvaluate
<1>12. CASE ScheduleFails(s)
  BY <1>12 DEF ScheduleFails
<1>13. CASE DbError(s)
  BY <1>13 DEF DbError, NoAbortNoDbError
<1> QED BY <1>4, <1>5, <1>6, <1>7, <1>8, <1>9, <1>10, <1>11, <1>12, <1>13 DEF SlotStep

\* A scan that is unfinished after a step was unfinished before, or is being opened.
LEMMA UnfinishedFrom ==
  ASSUME TypeOK, RowInv, [Next]_vars, scan' \in Unfinished
  PROVE  scan \in Unfinished \/ \E r \in Request : OpenScan(r) /\ req'[r] = "store"
<1> USE DEF Unfinished
<1>1. ASSUME NEW r \in Request, RequestStep(r) \/ PublishFails(r) \/ AbortRequest(r)
      PROVE  scan \in Unfinished \/ (OpenScan(r) /\ req'[r] = "store")
  <2>1. CASE OpenScan(r)
    BY <2>1 DEF TypeOK, OpenScan
  <2>2. CASE ~OpenScan(r)
    <3>1. scan' = scan
      BY <1>1, <2>2 DEF RequestStep, LoadScan, StoreTasks, PublishTasks, PublishFails, AbortRequest,
        dbVars
    <3> QED BY <3>1
  <2> QED BY <2>1, <2>2
<1>2. ASSUME NEW s \in Slot, SlotStep(s) \/ ScheduleFails(s) \/ BuryFails(s) \/ DbError(s)
      PROVE  scan \in Unfinished
  <2>1. CASE EvalCommit(s)
    BY <2>1 DEF EvalCommit, Written, RowInv, DeletedInv, VerdictKnown
  <2>2. CASE ~EvalCommit(s)
    BY <1>2, <2>2, CommitsOnly, MarkWrites, SaveWrites DEF RowInv
  <2> QED BY <2>1, <2>2
<1>3. DeleteScan \/ (\E p \in Payload : BecomeDue(p)) \/ UNCHANGED vars => scan \in Unfinished
  BY DEF DeleteScan, BecomeDue, vars, dbVars
<1> QED BY <1>1, <1>2, <1>3, FetchWritesNothing DEF Next

\* As long as the scan is unfinished, an evaluation is to come.
LEMMA UnfinishedStep ==
  ASSUME NoAbortNoDbError, NoEmptySubmission, TypeOK, RowInv, WayInv, UnfinishedIsComing,
         [Next]_vars
  PROVE  UnfinishedIsComing'
<1> USE ConstantsAssumption
<1> SUFFICES ASSUME hit' = {}, scan' \in Unfinished, scan \in Unfinished
             PROVE  EvaluationComes'
  BY UnfinishedFrom DEF UnfinishedIsComing, EvaluationComes
<1>1. hit = {}
  BY NothingComesBack
<1>2. scan # "DELETED" /\ EvaluationComes
  BY <1>1 DEF Unfinished, UnfinishedIsComing
<1>3. ASSUME NEW r \in Request, RequestStep(r) \/ PublishFails(r) \/ AbortRequest(r)
      PROVE  EvaluationComes'
  <2>1. PICK t \in Task : ReqOf[t] = r
    BY DEF NoEmptySubmission
  <2>2. CASE PublishTasks(r)
    <3>1. [task |-> t, attempt |-> 0] \in Payload
      BY DEF Payload
    <3>2. Queued(t)'
      BY <2>1, <2>2, <3>1 DEF TypeOK, PublishTasks, Queued
    <3> QED BY <3>2 DEF EvaluationComes
  <2>3. CASE PublishFails(r)
    BY <2>1, <2>3 DEF PublishFails, TasksOf
  <2>4. CASE AbortRequest(r)
    BY <2>4 DEF AbortRequest, NoAbortNoDbError
  <2>5. CASE LoadScan(r) \/ OpenScan(r) \/ StoreTasks(r)
    BY <1>2, <2>5 DEF TypeOK, LoadScan, OpenScan, StoreTasks, EvaluationComes
  <2> QED BY <1>3, <2>2, <2>3, <2>4, <2>5 DEF RequestStep
<1>4. ASSUME NEW e \in Engine, FetchStep(e) \/ PromoteFails(e) \/ PopFails(e) \/ Crash(e)
      PROVE  EvaluationComes'
  <2>1. req' = req /\ resp' = resp
    BY <1>4, FetchWritesNothing
  <2>2. ASSUME NEW t \in Task, Queued(t) PROVE EvaluationComes'
    BY <1>4, <2>2, FetchHands DEF EvaluationComes, WillEvaluate
  <2>3. ASSUME NEW s \in Slot, WillEvaluate(s) PROVE WillEvaluate(s)'
    <3>1. pc[s] # "idle"
      BY <2>3 DEF WillEvaluate
    <3>2. pc'[s] = pc[s] /\ job'[s] = job[s] /\ mem'[s] = mem[s]
      BY <1>4, <3>1, FetchHands
    <3> QED BY <2>1, <2>3, <3>2, EvaluatorKept
  <2> QED BY <1>2, <2>1, <2>2, <2>3 DEF EvaluationComes
<1>5. ASSUME NEW s \in Slot, SlotStep(s) \/ ScheduleFails(s) \/ BuryFails(s) \/ DbError(s)
      PROVE  EvaluationComes'
  <2>1. req' = req /\ \A t \in Task : Queued(t) => Queued(t)'
    BY <1>5, SlotTouchesOwn DEF Queued
  <2>2. CASE SaveCommit(s)
    <3>1. pc'[s] = "evalScan"
      BY <2>2 DEF TypeOK, SaveCommit, Goto
    <3> QED BY <3>1 DEF EvaluationComes, WillEvaluate
  <2>3. CASE WillEvaluate(s)
    BY <1>1, <1>5, <2>3, OwnEvaluation
  <2>4. CASE ~SaveCommit(s) /\ ~WillEvaluate(s)
    <3>1. resp' = resp
      BY <1>5, <2>4, CommitsOnly, MarkWrites DEF EvalCommit
    <3>2. \A x \in Slot : WillEvaluate(x) => WillEvaluate(x)'
      BY <1>5, <2>4, <3>1, SlotTouchesOwn, EvaluatorKept
    <3> QED BY <1>2, <2>1, <3>2 DEF EvaluationComes
  <2> QED BY <2>2, <2>3, <2>4
<1>6. DeleteScan => FALSE
  BY DEF DeleteScan, Unfinished
<1>7. (\E p \in Payload : BecomeDue(p)) \/ UNCHANGED vars => EvaluationComes'
  <2> SUFFICES ASSUME (\E p \in Payload : BecomeDue(p)) \/ UNCHANGED vars
               PROVE  EvaluationComes'
    OBVIOUS
  <2>1. UNCHANGED <<req, ready, delayed, resp, pc, job, mem>>
    BY DEF BecomeDue, vars, dbVars, queueVars, slotVars
  <2> QED BY <1>2, <2>1, EvaluatorKept DEF EvaluationComes, Queued
<1> QED BY <1>3, <1>4, <1>5, <1>6, <1>7 DEF Next

\* With any number of engines and of submissions that each have a task, and whatever
\* else fails but a cancelled request or the database: when nothing is left to do and no
\* failure has hit the scan, it says so.  The evaluation that follows the last save is
\* never the one that returns early, nor one whose commit changes nothing because a
\* submission has opened the scan again since it was loaded; and a save that fails, as
\* the copy of its payload has inserted the response, leaves the evaluation to the copy.
THEOREM QuietScanAlwaysClosed ==
  ASSUME NoAbortNoDbError, NoEmptySubmission PROVE Spec => []QuietScanIsClosed
<1>1. Init => UnfinishedIsComing
  BY DEF Init, NoEmptySubmission, UnfinishedIsComing, EvaluationComes
<1>2. TypeOK /\ RowInv /\ WayInv /\ UnfinishedIsComing /\ [Next]_vars => UnfinishedIsComing'
  BY UnfinishedStep
<1>3. TypeOK /\ UnfinishedIsComing => QuietScanIsClosed
  <2> SUFFICES ASSUME TypeOK, UnfinishedIsComing, hit = {}, \A t \in Task : ~Carried(t),
                      \A r \in Request : req[r] = "done", scan \in Unfinished
               PROVE  FALSE
    BY DEF QuietScanIsClosed, Unfinished
  <2>1. PICK s \in Slot : WillEvaluate(s)
    BY DEF UnfinishedIsComing, EvaluationComes, Carried
  <2>2. pc[s] # "idle"
    BY <2>1 DEF WillEvaluate
  <2> QED BY <2>2, JobTask DEF Carried, InHand, Holds
<1> QED BY <1>1, <1>2, <1>3, WayAlways, PTL DEF Spec

-----------------------------------------------------------------------------
(* The stages of a coroutine: one engine.                                  *)

\* What a coroutine that has a payload knows of its task's row, as long as the row
\* exists and no failure has hit the task: the row it has loaded is the current one,
\* and once it has saved an outcome the status is that outcome.
Stage(s) ==
  LET t == TaskOf(s) IN
  pc[s] # "idle" /\ t \notin hit /\ status[t] # "ABSENT" =>
    /\ pc[s] \in {"saveRow", "saving"} => mem[s].status = status[t]
    /\ pc[s] = "saving" => mem[s].resp = resp[t]
    /\ pc[s] \in {"evalScan", "evalTasks", "evalCommit"} => status[t] = TaskVerdict(s)
    /\ pc[s] \in {"update", "updating", "bury"} => status[t] = "FAILED"

\* Every coroutine is at such a stage.
StageInv == \A s \in Slot : Stage(s)

\* Two coroutines that work have different tasks.
LEMMA OtherTask ==
  ASSUME TypeOK, SoloInv, NEW s \in Slot, NEW x \in Slot, x # s,
         pc[s] # "idle", pc[x] # "idle"
  PROVE  TaskOf(x) # TaskOf(s)
  BY JobTask DEF SoloInv, OneCarrier, Holds

\* A coroutine keeps its stage while others leave its locals and its row alone; its
\* row may be deleted and its task hit by a failure.
LEMMA StageKept ==
  ASSUME NEW s \in Slot, Stage(s), hit \subseteq hit',
         pc'[s] = pc[s], job'[s] = job[s], out'[s] = out[s], mem'[s] = mem[s],
         pc[s] # "idle" => \/ status'[TaskOf(s)] = "ABSENT"
                           \/ /\ status'[TaskOf(s)] = status[TaskOf(s)]
                              /\ resp'[TaskOf(s)] = resp[TaskOf(s)]
  PROVE  Stage(s)'
  BY DEF Stage, TaskOf, TaskVerdict

\* A step of a coroutine takes it to a stage that tells the truth about its row.
LEMMA OwnStage ==
  ASSUME TypeOK, SoloInv, NEW s \in Slot, Stage(s),
         SlotStep(s) \/ ScheduleFails(s) \/ BuryFails(s) \/ DbError(s)
  PROVE  Stage(s)'
<1> USE DEF dbVars, queueVars, fetchVars, slotVars
<1> DEFINE t == TaskOf(s)
<1>1. pc[s] # "idle" /\ t \in Task
  BY SlotTouchesOwn, JobTask
<1>2. CASE MarkLoad(s) \/ MarkCommit(s) \/ Send(s)
  <2>1. pc'[s] \in {"marking", "send", "save"}
    BY <1>2 DEF TypeOK, MarkLoad, MarkCommit, Send, LoadTask, Goto
  <2> QED BY <2>1 DEF Stage
<1>3. CASE SaveLoad(s)
  BY <1>3 DEF TypeOK, SaveLoad, Goto, Stage, TaskOf, NoMem
<1>4. CASE SaveLoadRow(s)
  BY <1>4 DEF TypeOK, SaveLoadRow, Goto, Stage, TaskOf, Mem
<1>5. CASE SaveCommit(s)
  <2>1. status[t] # "ABSENT" /\ job' = job /\ out' = out /\ hit' = hit /\ pc'[s] = "evalScan"
    BY <1>5 DEF TypeOK, SaveCommit, SaveConflict, Goto
  <2>2. t \notin hit => mem[s].status = status[t]
    BY <1>1, <1>5, <2>1 DEF Stage, SaveCommit
  <2>3. t \notin hit => status'[t] = TaskVerdict(s)
    BY <1>1, <1>5, <2>2 DEF TypeOK, SaveCommit, Written
  <2> QED BY <2>1, <2>3 DEF Stage, TaskOf, TaskVerdict
<1>6. CASE SaveRollback(s)
  <2>1. t \in hit \/ status[t] = "ABSENT"
    BY <1>1, <1>6 DEF SaveRollback, SaveConflict, Stage
  <2>2. pc'[s] = "idle" \/ job' = job
    BY <1>1, <1>6, AfterSaveExits DEF SaveRollback
  <2> QED BY <1>6, <2>1, <2>2 DEF SaveRollback, Stage, TaskOf
<1>7. CASE EvalScan(s) \/ EvalTasks(s) \/ EvalCommit(s)
  <2>1. t \notin hit /\ status[t] # "ABSENT" => status[t] = TaskVerdict(s)
    BY <1>1, <1>7 DEF Stage, EvalScan, EvalTasks, EvalCommit
  <2>2. status' = status /\ hit' = hit
    BY <1>7 DEF EvalScan, EvalTasks, EvalCommit
  <2>3. \/ AfterSave(s)
        \/ pc'[s] \in {"evalTasks", "evalCommit"} /\ job' = job /\ out' = out
    BY <1>7 DEF TypeOK, EvalScan, EvalTasks, EvalCommit, Goto
  <2>4. CASE AfterSave(s)
    BY <1>1, <2>1, <2>2, <2>4, AfterSaveExits DEF Stage, TaskOf, TaskVerdict
  <2>5. CASE ~AfterSave(s)
    BY <2>1, <2>2, <2>3, <2>5 DEF Stage, TaskOf, TaskVerdict
  <2> QED BY <2>4, <2>5
<1>8. CASE UpdateLoad(s)
  <2>1. pc'[s] \in {"updating", "schedule", "bury"} /\ UNCHANGED <<job, status, hit>>
    BY <1>8 DEF TypeOK, UpdateLoad, LoadTask, AfterUpdate, Goto
  <2>2. t \notin hit /\ status[t] # "ABSENT" => status[t] = "FAILED"
    BY <1>1, <1>8 DEF Stage, UpdateLoad
  <2> QED BY <2>1, <2>2 DEF Stage, TaskOf
<1>9. CASE UpdateCommit(s)
  <2>1. t \notin hit /\ status[t] # "ABSENT" => status[t] = "FAILED"
    BY <1>1, <1>9 DEF Stage, UpdateCommit
  <2>2. UNCHANGED <<job, hit>> /\ pc'[s] = IF RetriesLeft(s) THEN "schedule" ELSE "bury"
    BY <1>9 DEF TypeOK, UpdateCommit, AfterUpdate, Goto
  <2>3. CASE RetriesLeft(s)
    BY <2>2, <2>3 DEF Stage
  <2>4. CASE ~RetriesLeft(s)
    <3>1. t \notin hit /\ status'[t] # "ABSENT" => status'[t] = "FAILED"
      BY <1>1, <1>9, <2>1, <2>4 DEF TypeOK, UpdateCommit, WriteStatus, Written
    <3> QED BY <2>2, <2>4, <3>1 DEF Stage, TaskOf
  <2> QED BY <2>3, <2>4
<1>10. CASE Schedule(s) \/ Bury(s) \/ ScheduleFails(s) \/ BuryFails(s)
  <2>1. pc'[s] = "idle"
    BY <1>10 DEF TypeOK, Schedule, Bury, ScheduleFails, BuryFails, Finish
  <2> QED BY <2>1 DEF Stage
<1>11. CASE DbError(s)
  <2>1. status' = status /\ resp' = resp /\ hit \subseteq hit'
    BY <1>11 DEF DbError
  <2>2. CASE pc[s] \in {"mark", "marking"}
    <3>1. pc'[s] = "send"
      BY <1>11, <2>2 DEF TypeOK, DbError, Goto
    <3> QED BY <3>1 DEF Stage
  <2>3. CASE pc[s] \in {"save", "saveRow", "saving"}
    <3>1. AfterSave(s) /\ t \in hit'
      BY <1>11, <2>3 DEF DbError
    <3> QED BY <1>1, <3>1, AfterSaveExits DEF Stage, TaskOf
  <2>4. CASE pc[s] \in {"evalScan", "evalTasks", "evalCommit"}
    <3>1. AfterSave(s) /\ hit' = hit
      BY <1>11, <2>4 DEF DbError
    <3>2. t \notin hit /\ status[t] # "ABSENT" => status[t] = TaskVerdict(s)
      BY <1>1, <2>4 DEF Stage
    <3> QED BY <1>1, <2>1, <3>1, <3>2, AfterSaveExits DEF Stage, TaskOf, TaskVerdict
  <2>5. CASE pc[s] \in {"update", "updating"}
    <3>1. pc'[s] \in {"schedule", "bury"} /\ UNCHANGED <<job, hit>>
      BY <1>11, <2>5 DEF TypeOK, DbError, Goto, AfterUpdate
    <3>2. t \notin hit /\ status[t] # "ABSENT" => status[t] = "FAILED"
      BY <1>1, <2>5 DEF Stage
    <3> QED BY <2>1, <3>1, <3>2 DEF Stage, TaskOf
  <2> QED BY <1>11, <2>2, <2>3, <2>4, <2>5 DEF DbError
<1> QED BY <1>2, <1>3, <1>4, <1>5, <1>6, <1>7, <1>8, <1>9, <1>10, <1>11 DEF SlotStep

\* A step of a coroutine leaves the others at their stages: they have other tasks.
LEMMA SlotStages ==
  ASSUME TypeOK, SoloInv, StageInv, NEW s \in Slot,
         SlotStep(s) \/ ScheduleFails(s) \/ BuryFails(s) \/ DbError(s)
  PROVE  StageInv'
<1>1. pc[s] # "idle" /\ TaskOf(s) \in Task
  BY SlotTouchesOwn, JobTask
<1>2. ASSUME NEW x \in Slot, x # s PROVE Stage(x)'
  <2>1. pc[x] # "idle" => TaskOf(x) \in Task /\ TaskOf(x) # TaskOf(s)
    BY <1>1, <1>2, OtherTask, JobTask
  <2>2. pc[x] # "idle" => /\ status'[TaskOf(x)] = status[TaskOf(x)]
                          /\ resp'[TaskOf(x)] = resp[TaskOf(x)]
    BY <2>1, SlotTouchesOwn
  <2> QED BY <1>2, <2>2, SlotTouchesOwn, StageKept DEF StageInv
<1>3. Stage(s)'
  BY OwnStage DEF StageInv
<1> QED BY <1>2, <1>3 DEF StageInv

\* Steps that leave the coroutines alone keep the stages: they write no row of a task
\* in hand, except to delete it.
LEMMA StagesKept ==
  ASSUME TypeOK, StageInv, hit \subseteq hit', UNCHANGED slotVars,
         \A t \in Task : InHand(t) => \/ status'[t] = "ABSENT"
                                      \/ status'[t] = status[t] /\ resp'[t] = resp[t]
  PROVE  StageInv'
<1> SUFFICES ASSUME NEW s \in Slot PROVE Stage(s)'
  BY DEF StageInv
<1>1. pc[s] # "idle" => TaskOf(s) \in Task /\ InHand(TaskOf(s))
  BY JobTask DEF InHand, Holds
<1> QED BY <1>1, StageKept DEF StageInv, slotVars

\* Storing tasks and publishing them concerns tasks that are in nobody's hands.
LEMMA RequestStages ==
  ASSUME TypeOK, SoloInv, StageInv, NEW r \in Request,
         RequestStep(r) \/ PublishFails(r) \/ AbortRequest(r)
  PROVE  StageInv'
<1> USE DEF dbVars, queueVars, fetchVars
<1>1. UNCHANGED slotVars /\ hit \subseteq hit' /\ resp' = resp
  BY DEF RequestStep, LoadScan, OpenScan, StoreTasks, PublishTasks, PublishFails, AbortRequest
<1>2. \A t \in Task : InHand(t) => status'[t] = status[t]
  <2>1. \A t \in Task : req[ReqOf[t]] = "store" => ~InHand(t)
    BY DEF SoloInv, Fresh
  <2>2. CASE StoreTasks(r)
    BY <2>1, <2>2 DEF StoreTasks
  <2>3. CASE ~StoreTasks(r)
    BY <2>3 DEF RequestStep, LoadScan, OpenScan, PublishTasks, PublishFails, AbortRequest
  <2> QED BY <2>2, <2>3
<1> QED BY <1>1, <1>2, StagesKept

\* The fetch loops start coroutines and lose them; they touch no other.
LEMMA FetchStages ==
  ASSUME TypeOK, StageInv, NEW e \in Engine,
         FetchStep(e) \/ PromoteFails(e) \/ PopFails(e) \/ Crash(e)
  PROVE  StageInv'
<1>1. UNCHANGED <<status, resp>> /\ hit \subseteq hit'
  BY FetchWritesNothing DEF FetchStep, ReadDue, Promote, Pop, PopTimeout, PromoteFails, PopFails,
    Crash
<1>2. ASSUME NEW s \in Slot PROVE Stage(s)'
  <2>1. CASE pc'[s] \in {"idle", "mark"}
    BY <2>1 DEF Stage
  <2>2. CASE pc'[s] \notin {"idle", "mark"}
    BY <1>1, <2>2, FetchHands, StageKept DEF StageInv
  <2> QED BY <2>1, <2>2
<1> QED BY <1>2 DEF StageInv

\* Deleting the scan takes every row away; time changes none.
LEMMA OtherStages ==
  ASSUME TypeOK, StageInv,
         DeleteScan \/ (\E p \in Payload : BecomeDue(p)) \/ UNCHANGED vars
  PROVE  StageInv'
<1>1. UNCHANGED <<slotVars, hit>>
  BY DEF DeleteScan, BecomeDue, vars
<1>2. \A t \in Task : \/ status'[t] = "ABSENT"
                      \/ status'[t] = status[t] /\ resp'[t] = resp[t]
  BY DEF DeleteScan, BecomeDue, vars, dbVars
<1> QED BY <1>1, <1>2, StagesKept

-----------------------------------------------------------------------------
(* The ledger: attempts, responses and the dead letter list.               *)

\* A payload of the task is in the dead letter list.
Buried(t) == \E p \in dlq : p.task = t

\* What the places of a task's payload say of its row while no coroutine has it.
Ledger(t) ==
  /\ Buried(t) => ~Carried(t) /\ ~Unsubmitted(t)
  /\ Unsubmitted(t) => attempts[t] = 0
  /\ t \notin hit /\ status[t] # "ABSENT" =>
       /\ Submitting(t) => attempts[t] = 0
       /\ \A p \in Payload : p.task = t /\ Waiting(p) => attempts[t] = p.attempt
       /\ \A p \in dlq : p.task = t => status[t] = "FAILED" /\ attempts[t] = p.attempt + 1
       /\ ~Carried(t) => /\ resp[t] = IF status[t] = "SUCCESS" THEN "ok" ELSE "error"
                         /\ status[t] = "FAILED" => Buried(t)

\* What a coroutine has counted and saved of its task.
Account(s) ==
  LET t == TaskOf(s) IN
  pc[s] # "idle" /\ t \notin hit /\ status[t] # "ABSENT" =>
    /\ pc[s] \in {"mark", "marking", "send", "save", "saveRow", "saving"} =>
         attempts[t] = job[s].attempt
    /\ pc[s] \in {"saveRow", "saving"} => mem[s].attempts = attempts[t]
    /\ pc[s] \in {"evalScan", "evalTasks", "evalCommit", "update", "updating", "schedule", "bury"} =>
         attempts[t] = job[s].attempt + 1 /\ resp[t] = RowVerdict(s)
    /\ pc[s] \in {"update", "updating", "schedule", "bury"} => out[s] # "success"

\* The invariant behind AttemptsAgree and DeadLetterExact.
LedgerInv == (\A t \in Task : Ledger(t)) /\ (\A s \in Slot : Account(s))

\* A task keeps its ledger when it gets no new place in Redis, loses its places only
\* to a failure, and its row stays as it is or goes away.
LEMMA LedgerKept ==
  ASSUME TypeOK, NEW t \in Task, Ledger(t), hit \subseteq hit',
         \/ status'[t] = "ABSENT"
         \/ status'[t] = status[t] /\ resp'[t] = resp[t] /\ attempts'[t] = attempts[t],
         Unsubmitted(t)' => Unsubmitted(t) /\ attempts'[t] = attempts[t],
         Submitting(t)' => Submitting(t),
         Carried(t)' => Carried(t), Carried(t) => Carried(t)' \/ t \in hit',
         \A p \in Payload : p.task = t /\ Waiting(p)' => Waiting(p),
         \A p \in Payload : p.task = t => (p \in dlq' <=> p \in dlq),
         dlq' \subseteq Payload
  PROVE  Ledger(t)'
<1>1. Buried(t)' <=> Buried(t)
  BY DEF Buried, TypeOK
<1> DEFINE Open  == t \notin hit /\ status[t] # "ABSENT"
           OpenN == t \notin hit' /\ status'[t] # "ABSENT"
<1>2. OpenN => /\ Open
               /\ status'[t] = status[t] /\ resp'[t] = resp[t] /\ attempts'[t] = attempts[t]
  OBVIOUS
<1>3. OpenN => \A p \in Payload : p.task = t /\ Waiting(p)' => attempts'[t] = p.attempt
  BY <1>2 DEF Ledger
<1>4. OpenN => \A p \in dlq' : p.task = t => status'[t] = "FAILED" /\ attempts'[t] = p.attempt + 1
  BY <1>2 DEF Ledger, TypeOK
<1>5. OpenN /\ ~Carried(t)' =>
        /\ resp'[t] = IF status'[t] = "SUCCESS" THEN "ok" ELSE "error"
        /\ status'[t] = "FAILED" => Buried(t)'
  BY <1>1, <1>2 DEF Ledger
<1>6. OpenN => (Submitting(t)' => attempts'[t] = 0)
  BY <1>2 DEF Ledger
<1>7. /\ Buried(t)' => ~Carried(t)' /\ ~Unsubmitted(t)'
      /\ Unsubmitted(t)' => attempts'[t] = 0
  BY <1>1 DEF Ledger
<1> HIDE DEF Open, OpenN
<1> QED BY <1>3, <1>4, <1>5, <1>6, <1>7 DEF Ledger, OpenN

\* A coroutine keeps its account while others leave its locals and its row alone.
LEMMA AccountKept ==
  ASSUME NEW s \in Slot, Account(s), hit \subseteq hit',
         pc'[s] = pc[s], job'[s] = job[s], out'[s] = out[s], mem'[s] = mem[s],
         pc[s] # "idle" => \/ status'[TaskOf(s)] = "ABSENT"
                           \/ /\ status'[TaskOf(s)] = status[TaskOf(s)]
                              /\ resp'[TaskOf(s)] = resp[TaskOf(s)]
                              /\ attempts'[TaskOf(s)] = attempts[TaskOf(s)]
  PROVE  Account(s)'
  BY DEF Account, TaskOf, RowVerdict

\* A step of a coroutine keeps its account true: what it counts is what its payload says.
LEMMA OwnAccount ==
  ASSUME TypeOK, SoloInv, NEW s \in Slot, Stage(s), Account(s),
         SlotStep(s) \/ ScheduleFails(s) \/ BuryFails(s) \/ DbError(s)
  PROVE  Account(s)'
<1> USE DEF dbVars, queueVars, fetchVars, slotVars
<1> DEFINE t == TaskOf(s)
<1>1. pc[s] # "idle" /\ t \in Task
  BY SlotTouchesOwn, JobTask
<1>2. CASE MarkLoad(s) \/ MarkCommit(s) \/ Send(s)
  <2>1. /\ pc[s] \in {"mark", "marking", "send"} /\ pc'[s] \in {"marking", "send", "save"}
        /\ UNCHANGED <<job, attempts, hit>>
    BY <1>2 DEF TypeOK, MarkLoad, MarkCommit, Send, LoadTask, Goto
  <2>2. status[t] = "ABSENT" => status'[t] = "ABSENT"
    BY <1>1, <1>2 DEF TypeOK, MarkLoad, MarkCommit, Send, WriteStatus
  <2> QED BY <1>1, <2>1, <2>2 DEF Account, TaskOf
<1>3. CASE SaveLoad(s)
  BY <1>3 DEF TypeOK, SaveLoad, Goto, Account, TaskOf, NoMem
<1>4. CASE SaveLoadRow(s)
  BY <1>4 DEF TypeOK, SaveLoadRow, Goto, Account, TaskOf, Mem
<1>5. CASE SaveCommit(s)
  <2>1. status[t] # "ABSENT" /\ job' = job /\ out' = out /\ hit' = hit /\ pc'[s] = "evalScan"
    BY <1>5 DEF TypeOK, SaveCommit, SaveConflict, Goto
  <2>2. pc[s] = "saving" /\ mem[s].resp \in Row
    BY <1>5 DEF SaveCommit, TypeOK, Mem
  <2>3. t \notin hit => /\ mem[s].attempts = attempts[t] /\ attempts[t] = job[s].attempt
                        /\ mem[s].resp = resp[t]
    BY <1>1, <2>1, <2>2 DEF Stage, Account
  <2>4. t \notin hit => attempts'[t] = job[s].attempt + 1
    BY <1>1, <1>5, <2>3 DEF TypeOK, SaveCommit, Counted
  <2>5. t \notin hit => resp'[t] = RowVerdict(s)
    BY <1>1, <1>5, <2>3 DEF TypeOK, SaveCommit, Written
  <2> QED BY <2>1, <2>4, <2>5 DEF Account, TaskOf, RowVerdict
<1>6. CASE SaveRollback(s)
  <2>1. t \in hit \/ status[t] = "ABSENT"
    BY <1>1, <1>6 DEF SaveRollback, SaveConflict, Stage
  <2>2. pc'[s] = "idle" \/ job' = job
    BY <1>1, <1>6, AfterSaveExits DEF SaveRollback
  <2> QED BY <1>6, <2>1, <2>2 DEF SaveRollback, Account, TaskOf
<1>7. CASE \/ EvalScan(s) \/ EvalTasks(s) \/ EvalCommit(s)
           \/ DbError(s) /\ pc[s] \in {"evalScan", "evalTasks", "evalCommit"}
  <2>1. /\ pc[s] \in {"evalScan", "evalTasks", "evalCommit"}
        /\ UNCHANGED <<status, attempts, resp, hit>>
    BY <1>7 DEF EvalScan, EvalTasks, EvalCommit, DbError
  <2>2. t \notin hit /\ status[t] # "ABSENT" =>
          attempts[t] = job[s].attempt + 1 /\ resp[t] = RowVerdict(s)
    BY <1>1, <2>1 DEF Account
  <2>3. \/ AfterSave(s)
        \/ pc'[s] \in {"evalTasks", "evalCommit"} /\ job' = job /\ out' = out
    BY <1>7 DEF TypeOK, EvalScan, EvalTasks, EvalCommit, DbError, Goto
  <2>4. \/ pc'[s] = "idle"
        \/ /\ job' = job /\ out' = out
           /\ \/ pc'[s] \in {"evalTasks", "evalCommit"}
              \/ pc'[s] \in {"update", "bury"} /\ out[s] # "success"
    BY <1>1, <2>3, AfterSaveExits
  <2> QED BY <2>1, <2>2, <2>4 DEF Account, TaskOf, RowVerdict
<1>8. CASE \/ UpdateLoad(s) \/ UpdateCommit(s)
           \/ DbError(s) /\ pc[s] \in {"update", "updating"}
  <2>1. /\ pc[s] \in {"update", "updating"} /\ pc'[s] \in {"updating", "schedule", "bury"}
        /\ UNCHANGED <<job, out, attempts, resp, hit>>
    BY <1>8 DEF TypeOK, UpdateLoad, UpdateCommit, DbError, LoadTask, AfterUpdate, Goto
  <2>2. status[t] = "ABSENT" => status'[t] = "ABSENT"
    BY <1>1, <1>8 DEF TypeOK, UpdateLoad, UpdateCommit, DbError, WriteStatus
  <2> QED BY <1>1, <2>1, <2>2 DEF Account, TaskOf, RowVerdict
<1>9. CASE Schedule(s) \/ Bury(s) \/ ScheduleFails(s) \/ BuryFails(s)
  <2>1. pc'[s] = "idle"
    BY <1>9 DEF TypeOK, Schedule, Bury, ScheduleFails, BuryFails, Finish
  <2> QED BY <2>1 DEF Account
<1>10. CASE DbError(s) /\ pc[s] \in {"mark", "marking"}
  <2>1. pc'[s] = "send" /\ UNCHANGED <<job, status, attempts, hit>>
    BY <1>10 DEF TypeOK, DbError, Goto
  <2> QED BY <1>10, <2>1 DEF Account, TaskOf
<1>11. CASE DbError(s) /\ pc[s] \in {"save", "saveRow", "saving"}
  <2>1. AfterSave(s) /\ t \in hit'
    BY <1>11 DEF DbError
  <2> QED BY <1>1, <2>1, AfterSaveExits DEF Account, TaskOf
<1> QED BY <1>2, <1>3, <1>4, <1>5, <1>6, <1>7, <1>8, <1>9, <1>10, <1>11 DEF SlotStep, DbError

\* What a coroutine leaves behind for its task: it still has it, has given it back to
\* Redis, has settled it, or the task is hit.
LEMMA OwnLedger ==
  ASSUME TypeOK, SoloInv, NEW s \in Slot, Stage(s), Account(s),
         NEW t \in Task, t = TaskOf(s), Ledger(t),
         SlotStep(s) \/ ScheduleFails(s) \/ BuryFails(s) \/ DbError(s)
  PROVE  Ledger(t)'
<1> USE DEF dbVars, queueVars, fetchVars, slotVars
<1>1. /\ pc[s] # "idle" /\ job[s] \in Payload /\ job[s].task = t
      /\ req' = req /\ ready' = ready /\ hit \subseteq hit'
  BY SlotTouchesOwn, JobTask DEF TaskOf
<1>2. /\ Holds(s, t) /\ InHand(t) /\ ~Submitting(t) /\ ~Queued(t)
      /\ \A x \in Slot : Holds(x, t) => x = s
  BY <1>1 DEF SoloInv, OneCarrier, InHand, Holds
<1>3. ~Unsubmitted(t) /\ ~Buried(t)
  BY <1>2 DEF SoloInv, Fresh, Unsubmitted, Ledger, Carried
<1>4. ~Submitting(t)' /\ ~Unsubmitted(t)'
  BY <1>1, <1>2, <1>3 DEF Submitting, Unsubmitted
<1>5. \A p \in Payload : p.task = t => ready[p] = 0 /\ p \notin delayed
  BY <1>2 DEF Queued, TypeOK
<1>6. ASSUME dlq' = dlq, delayed' = delayed,
             \/ pc'[s] # "idle" /\ job'[s] = job[s]
             \/ t \in hit' \/ status'[t] = "ABSENT"
             \/ status'[t] = "SUCCESS" /\ resp'[t] = "ok"
      PROVE  Ledger(t)'
  <2>1. ~Buried(t)' /\ \A p \in dlq' : p.task # t
    BY <1>3, <1>6 DEF Buried
  <2>2. \A p \in Payload : p.task = t => ~Waiting(p)'
    BY <1>1, <1>5, <1>6 DEF Waiting
  <2>3. pc'[s] # "idle" /\ job'[s] = job[s] => Carried(t)'
    BY <1>1 DEF Carried, InHand, Holds, TaskOf
  <2> QED BY <1>4, <1>6, <2>1, <2>2, <2>3 DEF Ledger
<1>7. CASE \/ MarkLoad(s) \/ MarkCommit(s) \/ Send(s)
           \/ SaveLoad(s) \/ SaveLoadRow(s) \/ SaveCommit(s)
           \/ UpdateLoad(s) \/ UpdateCommit(s)
  <2>1. pc'[s] # "idle" /\ job' = job /\ dlq' = dlq /\ delayed' = delayed
    BY <1>7 DEF TypeOK, MarkLoad, MarkCommit, Send, SaveLoad, SaveLoadRow, SaveCommit,
      UpdateLoad, UpdateCommit, LoadTask, AfterUpdate, Goto
  <2> QED BY <1>6, <2>1
<1>8. CASE SaveRollback(s)
  <2>1. t \in hit \/ status[t] = "ABSENT"
    BY <1>1, <1>8 DEF SaveRollback, SaveConflict, Stage
  <2>2. status' = status /\ dlq' = dlq /\ delayed' = delayed
    BY <1>8 DEF SaveRollback
  <2> QED BY <1>1, <1>6, <2>1, <2>2
<1>9. CASE \/ EvalScan(s) \/ EvalTasks(s) \/ EvalCommit(s)
           \/ DbError(s) /\ pc[s] \in {"evalScan", "evalTasks", "evalCommit"}
  <2>1. /\ pc[s] \in {"evalScan", "evalTasks", "evalCommit"}
        /\ UNCHANGED <<status, resp, hit, dlq, delayed>>
    BY <1>9 DEF EvalScan, EvalTasks, EvalCommit, DbError
  <2>2. t \notin hit /\ status[t] # "ABSENT" => status[t] = TaskVerdict(s) /\ resp[t] = RowVerdict(s)
    BY <1>1, <2>1 DEF Stage, Account
  <2>3. \/ AfterSave(s)
        \/ pc'[s] \in {"evalTasks", "evalCommit"} /\ job' = job
    BY <1>9 DEF TypeOK, EvalScan, EvalTasks, EvalCommit, DbError, Goto
  <2>4. \/ pc'[s] # "idle" /\ job' = job
        \/ out[s] = "success"
    BY <1>1, <2>3, AfterSaveExits
  <2> QED BY <1>6, <2>1, <2>2, <2>4 DEF TaskVerdict, RowVerdict
<1>10. CASE DbError(s) /\ pc[s] \in {"mark", "marking", "update", "updating"}
  <2>1. pc'[s] # "idle" /\ job' = job /\ dlq' = dlq /\ delayed' = delayed
    BY <1>10 DEF TypeOK, DbError, Goto, AfterUpdate
  <2> QED BY <1>6, <2>1
<1>11. CASE \/ ScheduleFails(s) \/ BuryFails(s)
            \/ DbError(s) /\ pc[s] \in {"save", "saveRow", "saving"}
  <2>1. t \in hit' /\ dlq' = dlq /\ delayed' = delayed
    BY <1>11 DEF ScheduleFails, BuryFails, DbError
  <2> QED BY <1>6, <2>1
<1>12. CASE Schedule(s)
  <2> DEFINE p == [job[s] EXCEPT !.attempt = @ + 1]
  <2>1. p \in Payload /\ p.task = t /\ p.attempt = job[s].attempt + 1
    BY <1>1, <1>12, RetryPayload, PayloadShape DEF TypeOK, Schedule, RetriesLeft, TaskOf
  <2>2. delayed' = delayed \cup {p} /\ UNCHANGED <<dlq, status, attempts, hit>> /\ pc[s] = "schedule"
    BY <1>12 DEF Schedule
  <2> HIDE DEF p
  <2>3. \A q \in Payload : q.task = t /\ Waiting(q)' => q = p
    BY <1>1, <1>5, <2>2 DEF Waiting
  <2>4. Carried(t)'
    BY <2>1, <2>2 DEF Carried, Queued
  <2>5. t \notin hit /\ status[t] # "ABSENT" => attempts[t] = job[s].attempt + 1
    BY <1>1, <2>2 DEF Account
  <2>6. ~Buried(t)' /\ \A q \in dlq' : q.task # t
    BY <1>3, <2>2 DEF Buried
  <2> QED BY <1>4, <2>1, <2>2, <2>3, <2>4, <2>5, <2>6 DEF Ledger
<1>13. CASE Bury(s)
  <2>1. dlq' = dlq \cup {job[s]} /\ UNCHANGED <<delayed, status, attempts, resp, hit>> /\ pc[s] = "bury"
    BY <1>13 DEF Bury
  <2>2. \A x \in Slot : ~Holds(x, t)'
    <3>1. pc'[s] = "idle" /\ \A x \in Slot : x # s => pc'[x] = pc[x] /\ job'[x] = job[x]
      BY <1>13 DEF TypeOK, Bury, Finish
    <3> QED BY <1>2, <3>1 DEF Holds, TaskOf
  <2>3. ~Carried(t)' /\ Buried(t)' /\ \A q \in Payload : q.task = t => ~Waiting(q)'
    BY <1>1, <1>4, <1>5, <2>1, <2>2 DEF Carried, Queued, InHand, Buried, Waiting
  <2>4. \A q \in dlq' : q.task = t => q = job[s]
    BY <1>3, <2>1 DEF Buried
  <2>5. t \notin hit /\ status[t] # "ABSENT" =>
          status[t] = "FAILED" /\ attempts[t] = job[s].attempt + 1 /\ resp[t] = "error"
    BY <1>1, <2>1 DEF Stage, Account, RowVerdict
  <2> QED BY <1>4, <2>1, <2>3, <2>4, <2>5 DEF Ledger
<1> QED BY <1>7, <1>8, <1>9, <1>10, <1>11, <1>12, <1>13 DEF SlotStep, DbError

\* A step of a coroutine keeps the ledger.
LEMMA SlotLedger ==
  ASSUME TypeOK, TypeOK', SoloInv, StageInv, LedgerInv, NEW s \in Slot,
         SlotStep(s) \/ ScheduleFails(s) \/ BuryFails(s) \/ DbError(s)
  PROVE  LedgerInv'
<1>1. ASSUME NEW t \in Task PROVE Ledger(t)'
  <2>1. CASE t = TaskOf(s)
    BY <2>1, OwnLedger DEF StageInv, LedgerInv
  <2>2. CASE t # TaskOf(s)
    <3>1. /\ attempts'[t] = attempts[t]
          /\ \A p \in Payload : p.task = t => /\ Waiting(p)' <=> Waiting(p)
                                              /\ p \in dlq' <=> p \in dlq
          /\ Submitting(t)' <=> Submitting(t)
          /\ Unsubmitted(t)' <=> Unsubmitted(t)
          /\ Carried(t)' <=> Carried(t)
      BY <2>2, SlotLeavesOthers
    <3>2. status'[t] = status[t] /\ resp'[t] = resp[t] /\ hit \subseteq hit'
      BY <2>2, SlotTouchesOwn
    <3>3. dlq' \subseteq Payload /\ Ledger(t)
      BY DEF TypeOK, LedgerInv
    <3> QED BY <3>1, <3>2, <3>3, LedgerKept
  <2> QED BY <2>1, <2>2
<1>2. ASSUME NEW x \in Slot PROVE Account(x)'
  <2>1. CASE x = s
    BY <2>1, OwnAccount DEF StageInv, LedgerInv
  <2>2. CASE x # s
    <3>1. pc[x] # "idle" => TaskOf(x) \in Task /\ TaskOf(x) # TaskOf(s)
      BY <2>2, OtherTask, JobTask, SlotTouchesOwn
    <3>2. pc[x] # "idle" => /\ status'[TaskOf(x)] = status[TaskOf(x)]
                            /\ resp'[TaskOf(x)] = resp[TaskOf(x)]
                            /\ attempts'[TaskOf(x)] = attempts[TaskOf(x)]
      BY <3>1, SlotTouchesOwn, SlotLeavesOthers
    <3> QED BY <2>2, <3>2, SlotTouchesOwn, AccountKept DEF LedgerInv
  <2> QED BY <2>1, <2>2
<1> QED BY <1>1, <1>2 DEF LedgerInv

\* Steps that leave the coroutines alone keep their accounts.
LEMMA AccountsKept ==
  ASSUME TypeOK, LedgerInv, hit \subseteq hit', UNCHANGED slotVars,
         \A t \in Task : InHand(t) => \/ status'[t] = "ABSENT"
                                      \/ /\ status'[t] = status[t] /\ resp'[t] = resp[t]
                                         /\ attempts'[t] = attempts[t]
  PROVE  \A s \in Slot : Account(s)'
<1> SUFFICES ASSUME NEW s \in Slot PROVE Account(s)'
  OBVIOUS
<1>1. pc[s] # "idle" => TaskOf(s) \in Task /\ InHand(TaskOf(s))
  BY JobTask DEF InHand, Holds
<1> QED BY <1>1, AccountKept DEF LedgerInv, slotVars

\* A submission starts the ledger of its tasks at zero and publishes what it says.
LEMMA RequestLedger ==
  ASSUME TypeOK, TypeOK', SoloInv, Unstored, LedgerInv, NEW r \in Request,
         RequestStep(r) \/ PublishFails(r) \/ AbortRequest(r)
  PROVE  LedgerInv'
<1> USE ConstantsAssumption DEF dbVars, queueVars, fetchVars
<1>1. /\ UNCHANGED slotVars /\ hit \subseteq hit'
      /\ UNCHANGED <<resp, attempts, delayed, dlq>>
  BY DEF RequestStep, LoadScan, OpenScan, StoreTasks, PublishTasks, PublishFails, AbortRequest
<1>2. \A t \in Task : InHand(t)' <=> InHand(t)
  BY <1>1 DEF InHand, Holds, TaskOf, slotVars
<1>3. \A t \in Task : Unsubmitted(t) => ~InHand(t) /\ ~Queued(t) /\ status[t] = "ABSENT"
  BY DEF SoloInv, Fresh, Unstored, Unsubmitted
<1>4. \A t \in Task : InHand(t) => status'[t] = status[t]
  BY <1>3 DEF RequestStep, LoadScan, OpenScan, StoreTasks, PublishTasks, PublishFails,
    AbortRequest, Unsubmitted
<1>5. \A s \in Slot : Account(s)'
  BY <1>1, <1>4, AccountsKept
<1>6. ASSUME NEW t \in Task PROVE Ledger(t)'
  <2>1. Ledger(t) /\ ReqOf[t] \in Request /\ dlq' \subseteq Payload
    BY DEF LedgerInv, TypeOK
  <2>2. CASE StoreTasks(r) /\ ReqOf[t] = r /\ scan # "DELETED"
    <3>1. Unsubmitted(t) /\ Submitting(t)' /\ ~Unsubmitted(t)' /\ ready' = ready
      BY <2>1, <2>2 DEF TypeOK, StoreTasks, Unsubmitted, Submitting
    <3>2. ~Buried(t)' /\ attempts'[t] = 0 /\ \A p \in dlq' : p.task # t
      BY <1>1, <2>1, <3>1 DEF Ledger, Buried
    <3>3. \A p \in Payload : p.task = t => ~Waiting(p)'
      BY <1>1, <1>3, <3>1 DEF Queued, Waiting
    <3>4. Carried(t)'
      BY <3>1 DEF Carried
    <3> QED BY <3>1, <3>2, <3>3, <3>4 DEF Ledger
  <2>3. CASE PublishTasks(r) /\ ReqOf[t] = r
    <3>1. Submitting(t) /\ ~Submitting(t)' /\ ~Unsubmitted(t)' /\ Carried(t) /\ UNCHANGED <<status, hit>>
      BY <2>1, <2>3 DEF TypeOK, PublishTasks, Unsubmitted, Submitting, Carried
    <3>2. ~Buried(t)' /\ \A p \in dlq' : p.task # t
      BY <1>1, <2>1, <3>1 DEF Ledger, Buried
    <3>3. ~Queued(t)
      BY <3>1 DEF SoloInv, OneCarrier
    <3>4. \A p \in Payload : p.task = t /\ Waiting(p)' => p.attempt = 0
      BY <1>1, <2>3, <3>3 DEF TypeOK, PublishTasks, Queued, Waiting
    <3>5. [task |-> t, attempt |-> 0] \in Payload
      BY DEF Payload
    <3>6. Carried(t)'
      BY <2>3, <3>5 DEF TypeOK, PublishTasks, Carried, Queued
    <3>7. t \notin hit /\ status[t] # "ABSENT" => attempts[t] = 0
      BY <2>1, <3>1 DEF Ledger
    <3> QED BY <1>1, <3>1, <3>2, <3>4, <3>6, <3>7 DEF Ledger
  <2>4. CASE ~(StoreTasks(r) /\ ReqOf[t] = r /\ scan # "DELETED") /\ ~(PublishTasks(r) /\ ReqOf[t] = r)
    <3>1. status'[t] = status[t]
      BY <2>4 DEF TypeOK, RequestStep, LoadScan, OpenScan, StoreTasks, PublishTasks,
        PublishFails, AbortRequest
    <3>2. \A p \in Payload : p.task = t => ready'[p] = ready[p]
      BY <2>4 DEF TypeOK, RequestStep, LoadScan, OpenScan, StoreTasks, PublishTasks,
        PublishFails, AbortRequest
    <3>3. /\ Unsubmitted(t)' => Unsubmitted(t)
          /\ Submitting(t)' => Submitting(t)
          /\ Submitting(t) => Submitting(t)' \/ t \in hit'
      <4>1. CASE ReqOf[t] # r
        <5>1. req'[ReqOf[t]] = req[ReqOf[t]]
          BY <2>1, <4>1 DEF TypeOK, RequestStep, LoadScan, OpenScan, StoreTasks, PublishTasks,
            PublishFails, AbortRequest
        <5> QED BY <5>1 DEF Unsubmitted, Submitting
      <4>2. CASE ReqOf[t] = r
        BY <2>1, <2>4, <4>2 DEF TypeOK, RequestStep, LoadScan, OpenScan, StoreTasks, PublishTasks,
          PublishFails, AbortRequest, TasksOf, Unsubmitted, Submitting
      <4> QED BY <4>1, <4>2
    <3>4. \A p \in Payload : p.task = t => (Waiting(p)' <=> Waiting(p)) /\ (p \in dlq' <=> p \in dlq)
      BY <1>1, <3>2 DEF Waiting
    <3>5. Queued(t)' <=> Queued(t)
      BY <3>4 DEF Queued, Waiting
    <3>6. (Carried(t)' => Carried(t)) /\ (Carried(t) => Carried(t)' \/ t \in hit')
      BY <1>2, <3>3, <3>5 DEF Carried
    <3> QED BY <1>1, <2>1, <3>1, <3>3, <3>4, <3>6, LedgerKept
  <2> QED BY <2>2, <2>3, <2>4
<1> QED BY <1>5, <1>6 DEF LedgerInv

\* What the fetch loops do to the places of a payload: they move it on, or hit its task.
LEMMA FetchPlaces ==
  ASSUME TypeOK, SoloInv, NEW e \in Engine,
         FetchStep(e) \/ PromoteFails(e) \/ PopFails(e) \/ Crash(e)
  PROVE  /\ \A p \in Payload : Waiting(p)' => Waiting(p)
         /\ \A t \in Task : /\ InHand(t)' => InHand(t) \/ Queued(t)
                            /\ Queued(t) => t \in hit' \/ Queued(t)' \/ InHand(t)'
                            /\ InHand(t) => t \in hit' \/ InHand(t)'
<1> USE DEF dbVars, queueVars, fetchVars
<1>1. CASE ReadDue(e) \/ PopTimeout(e) \/ PromoteFails(e)
  <2>1. UNCHANGED <<ready, delayed, pc, job>>
    BY <1>1 DEF ReadDue, PopTimeout, PromoteFails, slotVars
  <2> QED BY <2>1 DEF Waiting, Queued, InHand, Holds, TaskOf
<1>2. CASE Promote(e)
  <2>1. UNCHANGED <<pc, job>>
    BY <1>2 DEF Promote, slotVars
  <2>2. \A p \in Payload : p \in read[e] => p \in delayed
    BY DEF SoloInv, ReadIsDelayed
  <2>3. \A p \in Payload : /\ ready'[p] = IF p \in read[e] THEN ready[p] + 1 ELSE ready[p]
                           /\ ready[p] \in Nat
    BY <1>2 DEF TypeOK, Promote
  <2>4. \A p \in Payload : /\ Waiting(p)' => Waiting(p)
                           /\ Waiting(p) => Waiting(p)' \/ p \in cutoff[e] \ read[e]
    BY <1>2, <2>2, <2>3 DEF Promote, Removed, Waiting
  <2>5. \A p \in Payload : p \in cutoff[e] \ read[e] => p.task \in hit'
    BY <1>2 DEF Promote
  <2> QED BY <2>1, <2>4, <2>5 DEF Queued, Waiting, InHand, Holds, TaskOf
<1>3. CASE Pop(e)
  <2> PICK p \in Payload, s \in Slot :
         /\ ready[p] > 0
         /\ EngineOf[s] = e /\ pc[s] = "idle"
         /\ ready' = [ready EXCEPT ![p] = @ - 1]
         /\ pc' = [pc EXCEPT ![s] = "mark"]
         /\ job' = [job EXCEPT ![s] = p]
    BY <1>3 DEF Pop
  <2>1. delayed' = delayed /\ p.task \in Task
    BY <1>3, PayloadShape DEF Pop
  <2>2. \A x \in Slot, t \in Task : Holds(x, t)' <=> IF x = s THEN t = p.task ELSE Holds(x, t)
    BY DEF Holds, TaskOf, TypeOK
  <2>3. \A q \in Payload : /\ ready'[q] = (IF q = p THEN ready[q] - 1 ELSE ready[q])
                           /\ ready[q] \in Nat
    BY DEF TypeOK
  <2>4. \A q \in Payload : /\ Waiting(q)' => Waiting(q)
                           /\ q # p => (Waiting(q) => Waiting(q)')
    BY <2>1, <2>3 DEF Waiting
  <2>5. \A t \in Task : InHand(t)' => InHand(t) \/ Queued(t)
    BY <2>2 DEF InHand, Queued
  <2>6. \A t \in Task : InHand(t) => InHand(t)'
    BY <2>2 DEF InHand, Holds
  <2>7. \A t \in Task : Queued(t) => Queued(t)' \/ InHand(t)'
    BY <2>2, <2>4 DEF Queued, Waiting, InHand
  <2> QED BY <2>4, <2>5, <2>6, <2>7
<1>4. CASE PopFails(e)
  <2>1. UNCHANGED <<delayed, pc, job>>
    BY <1>4 DEF PopFails, slotVars
  <2>2. \A q \in Payload : /\ Waiting(q)' => Waiting(q)
                           /\ Waiting(q) => Waiting(q)' \/ q.task \in hit'
    BY <1>4, <2>1 DEF PopFails, Waiting, TypeOK
  <2> QED BY <2>1, <2>2 DEF Queued, Waiting, InHand, Holds, TaskOf
<1>5. CASE Crash(e)
  <2>1. UNCHANGED <<ready, delayed>>
    BY <1>5 DEF Crash
  <2>2. \A x \in Slot : EngineOf[x] = e => pc'[x] = "idle"
    BY <1>5 DEF Crash
  <2>3. \A x \in Slot : EngineOf[x] # e => pc'[x] = pc[x] /\ job'[x] = job[x]
    BY <1>5 DEF Crash
  <2>4. \A x \in Slot : EngineOf[x] = e /\ pc[x] # "idle" => TaskOf(x) \in hit'
    BY <1>5 DEF Crash
  <2>5. \A t \in Task : InHand(t)' => InHand(t)
    BY <2>2, <2>3 DEF InHand, Holds, TaskOf
  <2>6. \A t \in Task : InHand(t) => t \in hit' \/ InHand(t)'
    BY <2>3, <2>4 DEF InHand, Holds, TaskOf
  <2> QED BY <2>1, <2>5, <2>6 DEF Queued, Waiting
<1> QED BY <1>1, <1>2, <1>3, <1>4, <1>5 DEF FetchStep

\* The fetch loops hand a payload over with the count it carries.
LEMMA FetchLedger ==
  ASSUME TypeOK, TypeOK', SoloInv, LedgerInv, NEW e \in Engine,
         FetchStep(e) \/ PromoteFails(e) \/ PopFails(e) \/ Crash(e)
  PROVE  LedgerInv'
<1> USE DEF dbVars, queueVars, fetchVars
<1>1. UNCHANGED <<status, resp, attempts, req, dlq>> /\ hit \subseteq hit'
  BY DEF FetchStep, ReadDue, Promote, Pop, PopTimeout, PromoteFails, PopFails, Crash
<1>2. ASSUME NEW t \in Task PROVE Ledger(t)'
  <2>1. (Submitting(t)' <=> Submitting(t)) /\ (Unsubmitted(t)' <=> Unsubmitted(t))
    BY <1>1 DEF Submitting, Unsubmitted
  <2>2. \A p \in Payload : Waiting(p)' => Waiting(p)
    BY FetchPlaces
  <2>3. Queued(t)' => Queued(t)
    BY <2>2 DEF Queued, Waiting
  <2>4. (Carried(t)' => Carried(t)) /\ (Carried(t) => Carried(t)' \/ t \in hit')
    BY <2>1, <2>3, FetchPlaces DEF Carried
  <2>5. dlq' \subseteq Payload /\ Ledger(t)
    BY DEF TypeOK, LedgerInv
  <2> QED BY <1>1, <2>1, <2>2, <2>4, <2>5, LedgerKept
<1>3. ASSUME NEW x \in Slot PROVE Account(x)'
  <2>1. CASE Pop(e)
    <3> PICK p \in Payload, s \in Slot :
           /\ ready[p] > 0
           /\ EngineOf[s] = e /\ pc[s] = "idle"
           /\ ready' = [ready EXCEPT ![p] = @ - 1]
           /\ pc' = [pc EXCEPT ![s] = "mark"]
           /\ job' = [job EXCEPT ![s] = p]
      BY <2>1 DEF Pop
    <3>1. UNCHANGED <<out, mem, hit>>
      BY <2>1 DEF Pop
    <3>2. CASE x = s
      <4>1. pc'[x] = "mark" /\ job'[x] = p /\ TaskOf(x)' = p.task /\ p.task \in Task
        BY <3>2, PayloadShape DEF TypeOK, TaskOf
      <4>2. p.task \notin hit /\ status[p.task] # "ABSENT" => attempts[p.task] = p.attempt
        BY <4>1 DEF LedgerInv, Ledger, Waiting
      <4> QED BY <1>1, <3>1, <4>1, <4>2 DEF Account
    <3>3. CASE x # s
      <4>1. pc'[x] = pc[x] /\ job'[x] = job[x]
        BY <3>3 DEF TypeOK
      <4> QED BY <1>1, <3>1, <4>1, AccountKept DEF LedgerInv
    <3> QED BY <3>2, <3>3
  <2>2. CASE Crash(e)
    <3>1. EngineOf[x] = e => pc'[x] = "idle"
      BY <2>2 DEF Crash
    <3>2. EngineOf[x] # e => /\ pc'[x] = pc[x] /\ job'[x] = job[x]
                             /\ out'[x] = out[x] /\ mem'[x] = mem[x]
      BY <2>2 DEF Crash
    <3>3. EngineOf[x] = e => Account(x)'
      BY <3>1 DEF Account
    <3>4. EngineOf[x] # e => Account(x)'
      BY <1>1, <3>2, AccountKept DEF LedgerInv
    <3> QED BY <3>3, <3>4
  <2>3. CASE ~Pop(e) /\ ~Crash(e)
    <3>1. UNCHANGED slotVars
      BY <2>3 DEF FetchStep, ReadDue, Promote, PopTimeout, PromoteFails, PopFails
    <3> QED BY <1>1, <3>1, AccountKept DEF LedgerInv, slotVars
  <2> QED BY <2>1, <2>2, <2>3
<1> QED BY <1>2, <1>3 DEF LedgerInv

\* Deleting the scan closes every ledger; time changes none.
LEMMA OtherLedger ==
  ASSUME TypeOK, TypeOK', LedgerInv,
         DeleteScan \/ (\E p \in Payload : BecomeDue(p)) \/ UNCHANGED vars
  PROVE  LedgerInv'
<1> USE DEF dbVars, queueVars, fetchVars, vars
<1>1. UNCHANGED <<req, ready, delayed, dlq, slotVars, hit>>
  BY DEF DeleteScan, BecomeDue
<1>2. \A t \in Task : \/ status'[t] = "ABSENT" /\ attempts'[t] = 0
                      \/ /\ status'[t] = status[t] /\ resp'[t] = resp[t]
                         /\ attempts'[t] = attempts[t]
  BY DEF DeleteScan, BecomeDue
<1>3. \A s \in Slot : Account(s)'
  BY <1>1, <1>2, AccountsKept
<1>4. ASSUME NEW t \in Task PROVE Ledger(t)'
  <2>1. /\ Carried(t)' <=> Carried(t)
        /\ Submitting(t)' <=> Submitting(t)
        /\ Unsubmitted(t)' <=> Unsubmitted(t)
        /\ \A p \in Payload : Waiting(p)' <=> Waiting(p)
    BY <1>1 DEF Carried, Submitting, Unsubmitted, Queued, InHand, Holds, TaskOf, Waiting, slotVars
  <2>2. Unsubmitted(t) => attempts[t] = 0
    BY DEF LedgerInv, Ledger
  <2>3. dlq' \subseteq Payload /\ Ledger(t)
    BY DEF TypeOK, LedgerInv
  <2>4. Unsubmitted(t)' => Unsubmitted(t) /\ attempts'[t] = attempts[t]
    BY <1>2, <2>1, <2>2
  <2> QED BY <1>1, <1>2, <2>1, <2>3, <2>4, LedgerKept
<1> QED BY <1>3, <1>4 DEF LedgerInv

\* Nothing is counted before the first submission.
LEMMA InitLedger == Init => LedgerInv
<1> SUFFICES ASSUME Init PROVE LedgerInv
  OBVIOUS
<1>1. \A t \in Task : Ledger(t)
  BY ConstantsAssumption DEF Init, Ledger, Buried
<1>2. \A s \in Slot : Account(s)
  BY DEF Init, Account
<1> QED BY <1>1, <1>2 DEF LedgerInv

\* The invariants of this module are inductive together.
LEMMA StagesAlways == ASSUME Solo PROVE Spec => [](TypeOK /\ RowInv /\ SoloInv /\ StageInv /\ LedgerInv)
<1>1. Init => TypeOK /\ RowInv /\ SoloInv /\ StageInv /\ LedgerInv
  <2>1. Init => StageInv
    BY DEF Init, StageInv, Stage
  <2> QED BY <2>1, InitType, InitRows, InitSolo, InitLedger
<1>2. TypeOK /\ TypeOK' /\ RowInv /\ SoloInv /\ StageInv /\ LedgerInv /\ [Next]_vars
        => RowInv' /\ SoloInv' /\ StageInv' /\ LedgerInv'
  <2> SUFFICES ASSUME TypeOK, TypeOK', RowInv, SoloInv, StageInv, LedgerInv, [Next]_vars
               PROVE  RowInv' /\ SoloInv' /\ StageInv' /\ LedgerInv'
    OBVIOUS
  <2>1. SoloInv'
    BY RequestSolo, FetchSolo, SlotSolo, OtherSolo DEF Next
  <2>2. StageInv'
    BY RequestStages, FetchStages, SlotStages, OtherStages DEF Next
  <2>3. Unstored
    BY DEF RowInv
  <2>4. LedgerInv'
    BY <2>3, RequestLedger, FetchLedger, SlotLedger, OtherLedger DEF Next
  <2>5. RowInv'
    BY StepRows
  <2> QED BY <2>1, <2>2, <2>4, <2>5
<1> QED BY <1>1, <1>2, TypeCorrect, PTL DEF Spec

\* With one engine, and whatever fails: the retry counter that Redis carries in the
\* payload and the attempts column that the sessions add to from what they have loaded
\* agree for every task that no failure has hit, and the response row tells the outcome
\* of the last attempt.
THEOREM AttemptsAlwaysAgree == ASSUME Solo PROVE Spec => []AttemptsAgree
<1>1. TypeOK /\ LedgerInv => AttemptsAgree
  BY PayloadShape DEF TypeOK, LedgerInv, Ledger, AttemptsAgree, Waiting
<1> QED BY <1>1, StagesAlways, PTL

\* With one engine, and whatever fails: the dead letter list holds exactly the tasks
\* that have failed for good, but for those that a failure has hit.
THEOREM DeadLettersExact == ASSUME Solo PROVE Spec => []DeadLetterExact
<1>1. TypeOK /\ LedgerInv => DeadLetterExact
  BY DEF TypeOK, LedgerInv, Ledger, DeadLetterExact, Buried
<1> QED BY <1>1, StagesAlways, PTL
=============================================================================
