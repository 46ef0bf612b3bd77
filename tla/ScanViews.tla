------------------------------ MODULE ScanViews ------------------------------
(***************************************************************************)
(* The requests that read a scan while workers write it: task list, task   *)
(* details, progress, telemetry, timeline, role swaps, report,             *)
(* vulnerabilities, dashboard and the copilots.  A request is a list of    *)
(* statements; each sees what is committed when it runs (READ COMMITTED),  *)
(* so an answer may combine several states of the rows.                    *)
(*                                                                         *)
(* One request is followed from its first statement to its answer, over    *)
(* the rows of module ScanRows.  Abstracted: the minutes by which          *)
(* telemetry and timeline group, latencies, texts, the scan's own columns, *)
(* and the other scans.                                                    *)
(***************************************************************************)
EXTENDS ScanRows, ResponseAnalysis

CONSTANTS
  Asking,        \* Asking[t]: what task t may ask: [url, path, token]
  Answering,     \* what the target may answer: [status, body, error]
  NoCode,        \* stands for "no status code" (a transport error)
  NoToken,       \* stands for "no Authorization header, or no JWT in it"
  Missing,       \* stands for a claim the token does not have
  Unknown,       \* the user "unknown"
  Anonymous      \* the user "anonymous"

ASSUME ViewsAssumption ==
  /\ {Unknown, Anonymous} \subseteq User /\ IsFiniteSet(Task)
  /\ \A x \in Answering : x.body \in Body \cup {NoBody}

VARIABLES
  asked,         \* each task's request, chosen once
  content,       \* what its response row holds, chosen once
  view,          \* the request that is served: its session
  answer         \* its answer

viewVars == <<rowVars, asked, content, view, answer>>

Kind == {"list", "details", "progress", "telemetry", "timeline", "swaps", "report",
         "vulnerabilities", "dashboard", "copilot", "copilotRisk", "context"}
Statement == {"scan", "tasks", "task", "row", "rows", "count", "join", "depth", "files"}

\* Mutant of Statements: responses before tasks, counts before the list.
StatementsSwapped(kind) ==
  CASE kind = "list"              -> <<"rows", "tasks">>
    [] kind = "details"           -> <<"rows", "task">>
    [] kind = "context"             -> <<"scan", "count", "rows", "tasks">>
    [] kind = "copilot"             -> <<"scan", "count", "tasks", "row">>
    [] OTHER                        -> <<"scan">>

\* The statements of each handler, in order: "rows" is the selectinload, "row" one
\* SELECT per task, "files" is save_report.
Statements(kind) ==
  CASE kind = "list"                          -> <<"tasks", "row">>
    [] kind = "details"                       -> <<"task", "row">>
    [] kind = "progress"                      -> <<"scan", "count">>
    [] kind = "telemetry"                     -> <<"scan", "join">>
    [] kind = "timeline"                      -> <<"scan", "join", "depth">>
    [] kind = "swaps"                         -> <<"scan", "tasks", "rows">>
    [] kind \in {"report", "vulnerabilities"} -> <<"scan", "tasks", "rows", "files">>
    [] kind = "dashboard"   -> <<"scan", "tasks", "join", "scan", "tasks", "rows", "files">>
    [] kind = "context"     -> <<"scan", "count", "tasks", "row">>
    [] kind = "copilot"     -> <<"scan", "tasks", "row", "count">>
    [] kind = "copilotRisk" -> <<"scan", "tasks", "row", "count", "scan", "tasks", "rows", "files">>

NoView(kind) ==
  [kind |-> kind, rest |-> Statements(kind), found |-> FALSE, tasks |-> {},
   shown |-> <<>>, rows |-> <<>>, done |-> 0, total |-> 0, pending |-> 0, depth |-> 0,
   failed |-> "no", gone |-> FALSE]

ViewsInit ==
  /\ RowsInit
  /\ asked \in {a \in [Task -> UNION {Asking[t] : t \in Task}] : \A t \in Task : a[t] \in Asking[t]}
  /\ content \in [Task -> Answering]
  /\ view \in {NoView(kind) : kind \in Kind}
  /\ answer = <<>>

-----------------------------------------------------------------------------
(* The statements of a session.                                            *)

Serving(statement) == view.rest # <<>> /\ Head(view.rest) = statement
Stored             == {t \in Task : status[t] # "ABSENT"}

\* Without the scan: 404; a report inside another handler is given up.
ReadScan ==
  /\ Serving("scan")
  /\ view' = IF scan = "DELETED"
               THEN [view EXCEPT !.rest = <<>>, !.failed = "scan"]
               ELSE [view EXCEPT !.rest = Tail(@), !.found = TRUE, !.tasks = {}, !.rows = <<>>]

\* SELECT tasks.  The status is kept for the handlers that look at it; without a task
\* there are no rows to read.
ReadTasks ==
  /\ Serving("tasks")
  /\ view' = [view EXCEPT !.rest = IF Stored = {} /\ Len(@) > 1 /\ @[2] = "row"
                                     THEN Tail(Tail(@)) ELSE Tail(@),
                          !.tasks = Stored,
                          !.shown = IF view.kind \in {"list", "copilot", "context"}
                                      THEN [t \in Stored |-> status[t]] ELSE <<>>]

\* db.get(Task); without the task: 404.
ReadTask ==
  /\ Serving("task")
  /\ \E t \in Task :
       view' = IF t \in Stored
                 THEN [view EXCEPT !.rest = Tail(@), !.tasks = {t}, !.shown = [u \in {t} |-> status[u]]]
                 ELSE [view EXCEPT !.rest = <<>>]

\* One SELECT per listed task.
ReadRow ==
  /\ Serving("row")
  /\ \E t \in view.tasks \ DOMAIN view.rows :
       view' = [view EXCEPT !.rest = IF view.tasks = DOMAIN view.rows \cup {t} THEN Tail(@) ELSE @,
                            !.rows = [u \in DOMAIN @ \cup {t} |-> IF u = t THEN resp[t] ELSE @[u]]]

ReadRows ==
  /\ Serving("rows")
  /\ view' = [view EXCEPT !.rest = Tail(@), !.rows = resp]

\* SELECT status, count: completed and pending tasks.
CountTasks ==
  /\ Serving("count")
  /\ view' = [view EXCEPT !.rest = Tail(@),
       !.total   = Cardinality(Stored),
       !.done    = Cardinality({t \in Stored : status[t] = "SUCCESS"}),
       !.pending = Cardinality({t \in Stored : status[t] \in {"QUEUED", "PROCESSING", "RETRYING"}})]

\* SELECT tasks LEFT JOIN responses.
ReadJoin ==
  /\ Serving("join")
  /\ view' = [view EXCEPT !.rest = Tail(@), !.tasks = Stored, !.rows = resp]

\* The four LLEN of the queue, 0 if Redis does not answer.
ReadDepth ==
  /\ Serving("depth")
  /\ \E n \in 0..Cardinality(Task) : view' = [view EXCEPT !.rest = Tail(@), !.depth = n]

\* save_report writes three files, or raises.
SaveReport ==
  /\ Serving("files")
  /\ \E failed \in {"no", "files"} : view' = [view EXCEPT !.rest = Tail(@), !.failed = failed]

-----------------------------------------------------------------------------
(* What the handlers make of the rows.                                     *)

CodeOf(t, row) == IF row = "ok" THEN content[t].status ELSE content[t].error

Rows(v)     == {t \in v.tasks : v.rows[t] # "none"}
\* Mutant of Fed: only answers without an error.
FedOnlyOk(v) == {t \in Rows(v) : CodeOf(t, v.rows[t]) = 200}
Fed(v)      == {t \in Rows(v) : CodeOf(t, v.rows[t]) # NoCode}

Claims(token) ==
  [user |-> IF token.user = Missing THEN Unknown ELSE token.user,
   role |-> IF token.role = Missing THEN "user" ELSE token.role]

\* The identities assumed for a request without a readable token.
ReportIdentity(token) ==
  IF token = NoToken THEN [user |-> Unknown, role |-> "user"] ELSE Claims(token)
SwapIdentity(token) ==
  IF token = NoToken THEN [user |-> Anonymous, role |-> "guest"] ELSE Claims(token)

TllResponse(t, row, key, who) ==
  [endpoint |-> key, status |-> CodeOf(t, row), body |-> content[t].body, user |-> who.user,
   role |-> who.role, tenant |-> NoTenant, tampered |-> FALSE]

\* generate_report groups by URL, get_scan_role_swaps by path.
ReportResponse(v, t) == TllResponse(t, v.rows[t], asked[t].url, ReportIdentity(asked[t].token))
SwapResponse(v, t)   == TllResponse(t, v.rows[t], asked[t].path, SwapIdentity(asked[t].token))

\* The responses in the order in which the database returned the tasks.
ReportBuffer(v, order) ==
  LET fed == Picked(order, {i \in DOMAIN order : order[i] \in Fed(v)})
  IN  [i \in DOMAIN fed |-> ReportResponse(v, fed[i])]

Report(v, order) ==
  LET buffer == ReportBuffer(v, order)
      ds     == DiffsOf(buffer)
  IN  BuildReport(IssuesOf(ds), buffer, ds)

\* The comparisons listed by get_scan_role_swaps: all of a group, also of one identity.
Crossed(group) ==
  FlattenSeq([i \in DOMAIN References(group) |->
    [j \in DOMAIN Challengers(group) |->
       Compare(References(group)[i], Challengers(group)[j])]])
Swaps(v, order) ==
  LET fed    == Picked(order, {i \in DOMAIN order : /\ order[i] \in Rows(v)
                                                       /\ CodeOf(order[i], v.rows[order[i]]) # NoCode})
      buffer == [i \in DOMAIN fed |-> SwapResponse(v, fed[i])]
  IN  FlattenSeq([k \in DOMAIN Keys(buffer) |-> Crossed(Group(buffer, Keys(buffer)[k]))])

\* The chart of a scan: one bucket, as minutes are not told apart.
Bucket(v) ==
  [requests |-> Cardinality(Rows(v)),
   failures |-> Cardinality({t \in Rows(v) : \/ v.rows[t] = "error"
                                             \/ CodeOf(t, v.rows[t]) >= 400})]

\* The chart again, with the depth of the queue beside it.
Timeline(v) == [bucket |-> Bucket(v), depth |-> v.depth]

\* At most n members of a set: the slices of sorted lists.
AtMost(n, S) == IF Cardinality(S) <= n THEN S ELSE CHOOSE X \in kSubset(n, S) : TRUE

Party(r) == [user |-> r.user, role |-> r.role, status |-> r.status]

\* The cvss of a severity, in tenths.
Cvss(severity) == CASE severity = "CRITICAL" -> 95 [] severity = "HIGH" -> 80
                    [] severity = "MEDIUM" -> 55   [] severity = "LOW" -> 30 [] OTHER -> 0

\* _issue_to_api_dict: an issue as the API shows it.
Vulnerability(i) ==
  [type |-> i.type, severity |-> i.severity, cvss |-> Cvss(i.severity), path |-> i.diff.a.endpoint,
   similarity |-> i.diff.similarity, leaked |-> AtMost(20, i.diff.leaked),
   added |-> AtMost(20, i.diff.added), foreign |-> AtMost(10, i.diff.foreign),
   a |-> Party(i.diff.a), b |-> Party(i.diff.b)]

\* What generate_report returns of a report.
Result(report) ==
  [endpoints |-> report.endpoints, requests |-> report.requests, found |-> Len(report.issues),
   counts |-> report.counts,
   vulnerabilities |-> [k \in DOMAIN report.issues |-> Vulnerability(report.issues[k])]]

\* get_dashboard_stats: penalties of 15, 10, 5 and 1, at least 0; risk by the worst.
SecurityScore(c) ==
  LET penalty == c[1] * 15 + c[2] * 10 + c[3] * 5 + c[4]
  IN  IF penalty > 100 THEN 0 ELSE 100 - penalty
RiskScore(c) ==
  CASE c[1] > 0 -> 95
    [] c[1] = 0 /\ c[2] > 0 -> 75
    [] c[1] = 0 /\ c[2] = 0 /\ c[3] > 0 -> 45
    [] c[1] = 0 /\ c[2] = 0 /\ c[3] = 0 -> IF c[4] > 0 THEN 15 ELSE 0

-----------------------------------------------------------------------------
(* The answers.                                                            *)

Listed(v) == [t \in v.tasks |-> [status |-> v.shown[t], row |-> v.rows[t]]]

\* failed_tasks and completed_tasks of copilot_query.
Succeeded(v)   == {t \in v.tasks : v.shown[t] = "SUCCESS"}
FailedTasks(v) == {t \in v.tasks : v.shown[t] = "FAILED" \/ v.rows[t] = "error"}

\* _gather_scan_context, for the language model; without the scan it is empty.
ScanContext(v) ==
  [total |-> v.total, listed |-> Listed(v),
   failed |-> Cardinality({t \in v.tasks : v.shown[t] = "FAILED"}),
   paths |-> {asked[t].path : t \in v.tasks}]

NotFound(v) == ~v.found /\ v.kind \notin {"list", "details", "dashboard", "context"}

\* get_scan_vulnerabilities: a report that could not be made has none.
Vulnerabilities(v, order) ==
  IF v.failed = "no" THEN Result(Report(v, order)).vulnerabilities ELSE <<>>

\* A report that could not be made counts nothing, but for the handler of reports, which
\* answers 500.
Answer(v, order) ==
  LET found == Result(IF v.failed = "no" THEN Report(v, order) ELSE BuildReport(<<>>, <<>>, <<>>))
      count == [total |-> v.total, completed |-> v.done, pending |-> v.pending]
  IN  CASE v.kind \in {"list", "details"} -> Listed(v)
        [] v.kind = "progress"      -> count
        [] v.kind = "telemetry"     -> Bucket(v)
        [] v.kind = "timeline"      -> Timeline(v)
        [] v.kind = "swaps"         -> Swaps(v, order)
        [] v.kind = "report"        -> found
        [] v.kind = "vulnerabilities" -> Vulnerabilities(v, order)
        [] v.kind = "dashboard"     -> [found |-> found.counts,
                                        security |-> SecurityScore(found.counts),
                                        risk |-> RiskScore(found.counts)]
        [] v.kind = "copilot"       -> [failed |-> Cardinality(FailedTasks(v)),
                                        listed |-> Cardinality(Succeeded(v)), count |-> count]
        [] v.kind = "context"       -> ScanContext(v)
        [] v.kind = "copilotRisk"   -> [top |-> {found.vulnerabilities[i] :
                                                   i \in DOMAIN found.vulnerabilities \cap {1}},
                                        count |-> count]

\* generate_report's exceptions are a 500 of get_scan_report only.
HttpCode(v) ==
  CASE NotFound(v) -> 404
    [] v.kind = "details" /\ v.tasks = {} -> 404
    [] v.kind = "report" /\ v.failed = "files" -> 500
    [] OTHER -> 200

Reply ==
  /\ view.rest = <<>>
  /\ answer = <<>>
  /\ \E order \in SetToSeqs(view.tasks) :
       answer' = IF HttpCode(view) = 200 THEN <<200, order, Answer(view, order)>>
                 ELSE <<HttpCode(view), order>>
  /\ UNCHANGED view

Read ==
  \/ ReadScan \/ ReadTasks \/ ReadTask \/ ReadRow \/ ReadRows
  \/ CountTasks \/ ReadJoin \/ ReadDepth \/ SaveReport

\* The rows change under the request, which is followed until its last SELECT.
Work ==
  /\ ToSet(view.rest) \ {"files", "depth"} # {}
  /\ RowsNext
  /\ view' = [view EXCEPT !.gone = @ \/ scan' = "DELETED"]

ViewsNext ==
  /\ \/ Read /\ UNCHANGED <<rowVars, answer>>
     \/ Reply /\ UNCHANGED rowVars
     \/ Work /\ UNCHANGED answer
  /\ UNCHANGED <<asked, content>>

ViewsSpec == ViewsInit /\ [][ViewsNext]_viewVars
-----------------------------------------------------------------------------
(* Properties.                                                             *)

Answered(kinds) == answer # <<>> /\ answer[1] = 200 /\ view.kind \in kinds

\* A client that is told that a task has succeeded gets its response with it, although
\* the list is read by one statement per task while workers commit: the status is
\* read before the response, and both are written in one commit.  Only a deletion
\* between two statements can take the response away.
ListedSuccessHasResponse ==
  Answered({"list", "details", "context"}) /\ ~view.gone =>
    LET listed == IF view.kind = "context" THEN answer[3].listed ELSE answer[3]
    IN  \A t \in DOMAIN listed : listed[t].status = "SUCCESS" => listed[t].row # "none"

\* The copilot's sentence "completed tasks: c; pending tasks: p" takes c from the list
\* and p from a later count: no task is counted twice, since no task is pending again
\* after its success.
CopilotCountsOnce ==
  Answered({"copilot"}) /\ ~view.gone /\ ~Again =>
    answer[3].listed + answer[3].count.pending <= answer[3].count.total

\* Two computations of the same comparison agree on the same rows: what role-swaps
\* shows as a bypass of an administrator's response is an issue of the report, which
\* assumes other identities and groups by URL instead of path.  The exceptions of the
\* code: URLs of one path that differ, and an administrator's token without a user
\* (the report takes the request without token for the same user "unknown").
SwapsAgreeWithReport ==
  Answered({"swaps"}) =>
    LET found == Report(view, answer[2]).issues IN
    \A t, u \in Rows(view) :
      /\ asked[t].url = asked[u].url
      /\ ReportIdentity(asked[t].token).user # Unknown
      /\ \E i \in DOMAIN answer[3] :
           LET d == answer[3][i] IN
           d.anomaly /\ d.a = SwapResponse(view, t) /\ d.b = SwapResponse(view, u)
      /\ SwapResponse(view, t).role = "admin"
      => \E i \in DOMAIN found : /\ found[i].diff.a = ReportResponse(view, t)
                                 /\ found[i].diff.b = ReportResponse(view, u)
=============================================================================
