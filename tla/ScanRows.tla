------------------------------ MODULE ScanRows ------------------------------
(***************************************************************************)
(* What the tables scans, tasks and scan_responses promise their readers   *)
(* while a scan runs: which commits there are and what each may change.    *)
(* ScanPipeline implements it (ScanPipeline!ImplementsScanRows), however   *)
(* many requests, engines and failures there are.                          *)
(*                                                                         *)
(* A task's row appears QUEUED; its status is written alone or, together   *)
(* with its response row, by _save_response; response rows never go away   *)
(* but with the scan; and what is deleted stays deleted.                   *)
(***************************************************************************)
CONSTANTS
  Task,          \* the tasks of one scan
  Again,         \* may a task be processed after SUCCESS (TRUE with two consumers)
  Verdicts,      \* what is written to scans.status: all of ScanVerdict, or fewer as a bound
  Marks          \* what is written to tasks.status alone: all of TaskMark, or fewer as a bound

VARIABLES
  scan,          \* scans.status, "DELETED" once the row is gone
  status,        \* tasks.status, "ABSENT" while there is no row
  resp           \* the response row: "none", "ok" or "error"

rowVars == <<scan, status, resp>>

ScanVerdict == {"RUNNING", "COMPLETED", "FAILED"}
TaskMark    == {"PROCESSING", "RETRYING", "FAILED"}

ASSUME RowsAssumption ==
  Again \in BOOLEAN /\ Verdicts \subseteq ScanVerdict /\ Marks \subseteq TaskMark

RowsInit ==
  /\ scan = "PENDING"
  /\ status = [t \in Task |-> "ABSENT"]
  /\ resp = [t \in Task |-> "none"]

\* A scan is opened by a submission and closed by an evaluation.
SetScan ==
  /\ scan # "DELETED"
  /\ scan' \in Verdicts
  /\ UNCHANGED <<status, resp>>

\* One commit inserts the rows of one submission.
Submit ==
  /\ scan # "DELETED"
  /\ \E S \in SUBSET Task :
       /\ \A t \in S : status[t] = "ABSENT"
       /\ status' = [t \in Task |-> IF t \in S THEN "QUEUED" ELSE status[t]]
  /\ UNCHANGED <<scan, resp>>

\* A row can be written while it is there.
Open(t) == status[t] # "ABSENT" /\ (status[t] = "SUCCESS" => Again)

\* _update_task_status
Mark(t) ==
  /\ Open(t)
  /\ \E new \in Marks : status' = [status EXCEPT ![t] = new]
  /\ UNCHANGED <<scan, resp>>

\* _save_response: status and response row in one commit.
Save(t) ==
  /\ Open(t)
  /\ \E new \in {"SUCCESS", "FAILED", status[t]} : status' = [status EXCEPT ![t] = new]
  /\ \E row \in {"ok", "error"} : resp' = [resp EXCEPT ![t] = row]
  /\ UNCHANGED scan

DeleteRows ==
  /\ scan # "DELETED"
  /\ scan' = "DELETED"
  /\ status' = [t \in Task |-> "ABSENT"]
  /\ resp' = [t \in Task |-> "none"]

RowsNext ==
  \/ SetScan \/ Submit \/ DeleteRows
  \/ \E t \in Task : Mark(t) \/ Save(t)

RowsSpec == RowsInit /\ [][RowsNext]_rowVars
=============================================================================
