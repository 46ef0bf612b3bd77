--------------------------- MODULE ResultCollector ---------------------------
(***************************************************************************)
(* A ScanResultCollector: responses arrive one by one, process_buffered    *)
(* may be called between them (for live findings), and flush builds the    *)
(* report.  Neither process_buffered nor flush empties the buffer or the   *)
(* diffs; flush processes the buffer only if no issue is known yet.        *)
(*                                                                         *)
(* The dictionary of lists _buffer is the sequence of its responses in     *)
(* order of arrival.  Abstracted: the callback on_issue_found, whose       *)
(* exceptions are caught, and the time stamps.                             *)
(***************************************************************************)
EXTENDS ResponseAnalysis

CONSTANTS
  Incoming,      \* the responses that may arrive
  MaxResults,    \* bound: responses in the buffer
  MaxDiffs       \* bound: diffs when another processing starts

ASSUME CollectorAssumption == Incoming \subseteq Response /\ MaxResults \in Nat

VARIABLES
  buffer,        \* _buffer
  diffs,         \* _diffs
  issues,        \* _issues
  report,        \* what the last call has returned, if it was flush
  seen           \* history: the size of the buffer when it was last processed

collectorVars == <<buffer, diffs, issues, report, seen>>

NoReport == BuildReport(<<>>, <<>>, <<>>)

CollectorInit ==
  /\ buffer = <<>> /\ diffs = <<>> /\ issues = <<>>
  /\ report = NoReport
  /\ seen = 0

OnResult(r) ==
  /\ Len(buffer) < MaxResults
  /\ buffer' = Append(buffer, r)
  /\ report' = NoReport
  /\ UNCHANGED <<diffs, issues, seen>>

Process ==
  /\ diffs'  = diffs \o DiffsOf(buffer)
  /\ issues' = IssuesOf(DiffsOf(buffer))
  /\ seen'   = Len(buffer)

ProcessBuffered ==
  /\ Len(diffs) <= MaxDiffs
  /\ Process
  /\ report' = NoReport
  /\ UNCHANGED buffer

\* Mutant of Unprocessed: a processing that found nothing counts.
UnprocessedEver == diffs = <<>>

\* if not self._issues
Unprocessed == issues = <<>>

Flush ==
  /\ Len(diffs) <= MaxDiffs
  /\ IF Unprocessed THEN Process ELSE UNCHANGED <<diffs, issues, seen>>
  /\ report' = BuildReport(issues', buffer, diffs')
  /\ UNCHANGED buffer

Reset ==
  /\ buffer' = <<>> /\ diffs' = <<>> /\ issues' = <<>>
  /\ seen' = 0
  /\ report' = NoReport

CollectorNext ==
  \/ \E r \in Incoming : OnResult(r)
  \/ ProcessBuffered
  \/ Flush
  \/ Reset

CollectorSpec == CollectorInit /\ [][CollectorNext]_collectorVars
-----------------------------------------------------------------------------
(* Properties.                                                             *)

Found(list, type, a, b) ==
  \E i \in DOMAIN list : list[i].type = type /\ list[i].diff.a = a /\ list[i].diff.b = b

\* An administrator and another user get the same data, or the other user gets
\* what the administrator is refused.
SameAnswer(a, b) ==
  a.status = 200 /\ b.status = 200 /\ a.body # NoBody /\ b.body # NoBody
    /\ Ratio[<<a.body, b.body>>] >= Threshold
Reversed(a, b)   == a.status \in {401, 403} /\ b.status = 200

\* A report names every pair of buffered responses of one endpoint in which the
\* administrator's answer reaches another user (BOLA) or another user gets what the
\* administrator is refused (BFLA): through pairing, rounding, the order of the
\* checkers and the sort nothing is lost, also when earlier processings found
\* nothing.  The one exception the code has: an earlier processing that did find
\* something hides what came after it.
ReportNamesEveryBreach ==
  [][Flush /\ (issues = <<>> \/ seen = Len(buffer)) =>
       \A i, j \in DOMAIN buffer :
         LET a == buffer[i]
             b == buffer[j]
         IN  /\ a.endpoint = b.endpoint /\ a.user # b.user
             /\ a.role = "admin" /\ b.role # "admin"
             => /\ SameAnswer(a, b) => Found(report'.issues, "BOLA", a, b)
                /\ Reversed(a, b)   => Found(report'.issues, "BFLA", a, b)]_collectorVars

\* The findings do not depend on the order in which concurrent workers deliver the
\* responses, provided every endpoint with two responses has an administrator's;
\* without one the first to arrive is the reference, and the findings do depend on it.
OrderIndependent ==
  (\A key \in {buffer[i].endpoint : i \in DOMAIN buffer} :
     Len(Group(buffer, key)) < 2 \/ \E i \in DOMAIN buffer :
                                      buffer[i].endpoint = key /\ IsReference(buffer[i]))
  => \A p \in Bijection(DOMAIN buffer, DOMAIN buffer) :
       ToSet(IssuesOf(DiffsOf([i \in DOMAIN buffer |-> buffer[p[i]]]))) =
         ToSet(IssuesOf(DiffsOf(buffer)))
=============================================================================
