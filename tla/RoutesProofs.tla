----------------------------- MODULE RoutesProofs -----------------------------
(***************************************************************************)
(* Theorems about the two ends of a scan in the API's routes.  What a      *)
(* request that reads a scan may tell its client, for any number of tasks  *)
(* and however their rows change between its statements (ScanViews).  What *)
(* the analysis behind the report finds in the responses of a scan, in     *)
(* whatever order they come (ResponseAnalysis, ResultCollector).  What     *)
(* POST /discover makes of a document, for any documents, sources, tokens  *)
(* and lists of payloads (TaskGeneration, MutationEngine).                 *)
(***************************************************************************)
EXTENDS ResultCollector, ScanViews, TaskGeneration, FiniteSetTheorems, WellFoundedInduction, TLAPS

-----------------------------------------------------------------------------
(* What a scan's readers are told.                                       *)

TaskStatus == {"QUEUED", "PROCESSING", "RETRYING", "SUCCESS", "FAILED", "ABSENT"}
RowState   == {"none", "ok", "error"}

\* The session's variables: `shown` and `rows` hold what was read of some tasks.
ViewType ==
  [kind : Kind, rest : Seq(Statement), found : BOOLEAN, tasks : SUBSET Task,
   shown : UNION {[S -> TaskStatus] : S \in SUBSET Task},
   rows : UNION {[S -> RowState] : S \in SUBSET Task},
   done : Nat, total : Nat, pending : Nat, depth : Nat,
   failed : {"no", "scan", "files"}, gone : BOOLEAN]

ViewsTypeOK ==
  /\ status \in [Task -> TaskStatus] /\ resp \in [Task -> RowState]
  /\ view \in ViewType

\* The commit that writes SUCCESS writes the response.
SuccessIsSaved == \A t \in Task : status[t] = "SUCCESS" => resp[t] # "none"

\* As long as the request has not missed a deletion there has been none.
GoneIsSeen == ~view.gone => scan # "DELETED"

\* The handlers the two properties are about, and what is left of their statements.
Lists == {"list", "details", "context"}
RestOf(kind) ==
  CASE kind = "list" -> {<<"tasks", "row">>, <<"row">>, <<>>}
    [] kind = "details" -> {<<"task", "row">>, <<"row">>, <<>>}
    [] kind = "context" -> {<<"scan", "count", "tasks", "row">>, <<"count", "tasks", "row">>,
                            <<"tasks", "row">>, <<"row">>, <<>>}
    [] kind = "copilot" -> {<<"scan", "tasks", "row", "count">>, <<"tasks", "row", "count">>,
                            <<"row", "count">>, <<"count">>, <<>>}
OnItsWay == view.kind \in Lists \cup {"copilot"} => view.rest \in RestOf(view.kind)

\* The list of tasks has been read.
TasksRead == view.rest \in {<<"row">>, <<"row", "count">>, <<"count">>, <<>>}

\* Until then there is nothing to tell.  What a list tells as a success has its
\* response in what was read of it, or in the table if that is yet to be read.
Fresh == view.tasks = {} /\ DOMAIN view.rows = {}
ListTrue ==
  view.kind \in Lists /\ ~view.gone =>
    IF TasksRead
      THEN /\ view.tasks \subseteq DOMAIN view.shown
           /\ \A t \in view.tasks : view.shown[t] = "SUCCESS" =>
                IF t \in DOMAIN view.rows THEN view.rows[t] # "none" ELSE resp[t] # "none"
           /\ view.rest = <<>> => view.tasks \subseteq DOMAIN view.rows
      ELSE Fresh

\* What the copilot takes for a success is one when it counts.
CopilotTrue ==
  view.kind = "copilot" /\ ~view.gone /\ ~Again =>
    /\ ~TasksRead => view.tasks = {}
    /\ TasksRead /\ view.rest # <<>> => \A t \in Succeeded(view) : status[t] = "SUCCESS"
    /\ view.rest = <<>> => Cardinality(Succeeded(view)) + view.pending <= view.total

\* The answer is made of what the session holds at its end.
Told ==
  answer # <<>> =>
    /\ view.rest = <<>>
    /\ answer[1] = 200 =>
         /\ view.kind \in {"list", "details"} => answer[3] = Listed(view)
         /\ view.kind = "context" => answer[3].listed = Listed(view)
         /\ view.kind = "copilot" =>
              /\ answer[3].listed = Cardinality(Succeeded(view))
              /\ answer[3].count.pending = view.pending
              /\ answer[3].count.total = view.total

ViewsInv == /\ ViewsTypeOK /\ SuccessIsSaved /\ GoneIsSeen /\ OnItsWay
            /\ ListTrue /\ CopilotTrue /\ Told

-----------------------------------------------------------------------------
(* The rows.                                                               *)

\* A commit that is not a deletion takes no response away, and no success unless a
\* task may be processed again.
LEMMA RowsStep ==
  ASSUME ViewsTypeOK, SuccessIsSaved, RowsNext
  PROVE  /\ status' \in [Task -> TaskStatus] /\ resp' \in [Task -> RowState]
         /\ SuccessIsSaved'
         /\ scan' # "DELETED" =>
              \A t \in Task : /\ resp[t] # "none" => resp'[t] # "none"
                              /\ status[t] = "SUCCESS" /\ ~Again => status'[t] = "SUCCESS"
<1> USE RowsAssumption DEF ViewsTypeOK, SuccessIsSaved, TaskStatus, RowState
<1>1. CASE SetScan
  BY <1>1 DEF SetScan
<1>2. CASE Submit
  BY <1>2 DEF Submit
<1>3. CASE DeleteRows
  BY <1>3 DEF DeleteRows
<1>4. ASSUME NEW t \in Task, Mark(t)
      PROVE  /\ status' \in [Task -> TaskStatus] /\ resp' = resp
             /\ \A u \in Task : /\ status'[u] = "SUCCESS" => status[u] = "SUCCESS"
                                /\ status[u] = "SUCCESS" /\ ~Again => status'[u] = "SUCCESS"
  BY <1>4 DEF Mark, Open, TaskMark
<1>5. ASSUME NEW t \in Task, Save(t)
      PROVE  /\ status' \in [Task -> TaskStatus] /\ resp' \in [Task -> RowState]
             /\ resp'[t] # "none"
             /\ \A u \in Task : u # t => status'[u] = status[u] /\ resp'[u] = resp[u]
             /\ status[t] = "SUCCESS" => Again
  BY <1>5 DEF Save, Open
<1> QED BY <1>1, <1>2, <1>3, <1>4, <1>5 DEF RowsNext

-----------------------------------------------------------------------------
(* The statements.                                                         *)

\* The statements that remain after one, or after two.
LEMMA Tails ==
  /\ Tail(<<"scan", "count", "tasks", "row">>) = <<"count", "tasks", "row">>
  /\ Tail(<<"scan", "tasks", "row", "count">>) = <<"tasks", "row", "count">>
  /\ Tail(<<"count", "tasks", "row">>) = <<"tasks", "row">>
  /\ Tail(<<"tasks", "row", "count">>) = <<"row", "count">>
  /\ Tail(<<"tasks", "row">>) = <<"row">> /\ Tail(<<"task", "row">>) = <<"row">>
  /\ Tail(<<"row", "count">>) = <<"count">>
  /\ Tail(<<"row">>) = <<>> /\ Tail(<<"count">>) = <<>>
  OBVIOUS

\* What is left of a list's or a copilot's statements tells which one is served.
LEMMA ServedNext ==
  ASSUME ViewsTypeOK, OnItsWay, view.kind \in Lists \cup {"copilot"}
  PROVE  /\ Serving("tasks") => view.rest \in {<<"tasks", "row">>, <<"tasks", "row", "count">>}
         /\ Serving("task") => view.rest = <<"task", "row">> /\ view.kind = "details"
         /\ Serving("row") => view.rest \in {<<"row">>, <<"row", "count">>}
         /\ Serving("scan") => view.rest \in {<<"scan", "count", "tasks", "row">>,
                                              <<"scan", "tasks", "row", "count">>}
         /\ Serving("count") => view.rest \in {<<"count", "tasks", "row">>, <<"count">>}
         /\ ~Serving("rows") /\ ~Serving("join") /\ ~Serving("depth") /\ ~Serving("files")
  BY DEF OnItsWay, RestOf, Serving, Lists

\* A session that has read nothing.
LEMMA NothingRead == ASSUME NEW S PROVE <<>> \in UNION {[X -> S] : X \in SUBSET Task}
  OBVIOUS

\* A statement leaves the session well-typed.
LEMMA ReadType ==
  ASSUME ViewsTypeOK, Read
  PROVE  view' \in ViewType
<1> USE DEF ViewsTypeOK, ViewType
<1>1. view.rest # <<>> => Tail(view.rest) \in Seq(Statement)
  OBVIOUS
<1>2. view.rest # <<>>
  BY DEF Read, ReadScan, ReadTasks, ReadTask, ReadRow, ReadRows, CountTasks, ReadJoin, ReadDepth, SaveReport, Serving
<1>3. /\ <<>> \in UNION {[S -> RowState] : S \in SUBSET Task}
      /\ <<>> \in UNION {[S -> TaskStatus] : S \in SUBSET Task}
  BY NothingRead
<1>4. resp \in UNION {[S -> RowState] : S \in SUBSET Task}
  OBVIOUS
<1>5. Stored \subseteq Task
  BY DEF Stored
<1>6. \A S \in SUBSET Task : Cardinality(S) \in Nat
  BY ViewsAssumption, FS_Subset, FS_CardinalityType
<1>7. CASE ReadScan
  <2>1. CASE scan = "DELETED"
    <3>1. <<>> \in Seq(Statement) /\ "scan" \in {"no", "scan", "files"}
      OBVIOUS
    <3> QED BY <1>7, <2>1, <3>1 DEF ReadScan
  <2>2. CASE scan # "DELETED"
    <3>1. view' = [view EXCEPT !.rest = Tail(@), !.found = TRUE, !.tasks = {}, !.rows = <<>>]
      BY <1>7, <2>2 DEF ReadScan
    <3> QED BY <1>1, <1>2, <1>3, <3>1
  <2> QED BY <2>1, <2>2
<1>8. CASE ReadTasks
  <2>2. [t \in Stored |-> status[t]] \in UNION {[S -> TaskStatus] : S \in SUBSET Task}
    BY <1>5
  <2>3. Len(view.rest) > 1 => Tail(Tail(view.rest)) \in Seq(Statement)
    <3> DEFINE s == Tail(view.rest)
    <3>1. Len(view.rest) > 1 => Len(s) > 0 /\ s \in Seq(Statement)
      BY <1>1, <1>2
    <3> HIDE DEF s
    <3>2. Len(view.rest) > 1 => Tail(s) \in Seq(Statement)
      BY <3>1
    <3> QED BY <3>2 DEF s
  <2> DEFINE rest  == IF Stored = {} /\ Len(view.rest) > 1 /\ view.rest[2] = "row"
                        THEN Tail(Tail(view.rest)) ELSE Tail(view.rest)
             shown == IF view.kind \in {"list", "copilot", "context"}
                        THEN [t \in Stored |-> status[t]] ELSE <<>>
  <2>4. rest \in Seq(Statement)
    BY <1>1, <1>2, <2>3
  <2>5. shown \in UNION {[S -> TaskStatus] : S \in SUBSET Task}
    BY <1>3, <2>2
  <2>6. view' = [view EXCEPT !.rest = rest, !.tasks = Stored, !.shown = shown]
    BY <1>8 DEF ReadTasks
  <2> HIDE DEF rest, shown
  <2> QED BY <1>5, <2>4, <2>5, <2>6
<1>9. CASE ReadRow
  <2>1. PICK t \in view.tasks \ DOMAIN view.rows :
          view' = [view EXCEPT
            !.rest = IF view.tasks = DOMAIN view.rows \cup {t} THEN Tail(@) ELSE @,
            !.rows = [u \in DOMAIN @ \cup {t} |-> IF u = t THEN resp[t] ELSE @[u]]]
    BY <1>9 DEF ReadRow
  <2> DEFINE rows == [u \in DOMAIN view.rows \cup {t} |-> IF u = t THEN resp[t] ELSE view.rows[u]]
             rest == IF view.tasks = DOMAIN view.rows \cup {t} THEN Tail(view.rest) ELSE view.rest
  <2>2. rest \in Seq(Statement)
    BY <1>1, <1>2
  <2>3. rows \in UNION {[S -> RowState] : S \in SUBSET Task}
    <3> DEFINE f == view.rows
               y == resp[t]
    <3>1. f \in UNION {[X -> RowState] : X \in SUBSET Task} /\ t \in Task /\ y \in RowState
      OBVIOUS
    <3> HIDE DEF f, y
    <3>2. [u \in DOMAIN f \cup {t} |-> IF u = t THEN y ELSE f[u]]
            \in UNION {[X -> RowState] : X \in SUBSET Task}
      <4>1. PICK X \in SUBSET Task : f \in [X -> RowState]
        BY <3>1
      <4>2. DOMAIN f \cup {t} \in SUBSET Task
        BY <3>1, <4>1
      <4>3. [u \in DOMAIN f \cup {t} |-> IF u = t THEN y ELSE f[u]] \in [DOMAIN f \cup {t} -> RowState]
        BY <3>1, <4>1
      <4> QED BY <4>2, <4>3
    <3> QED BY <3>2 DEF f, y
  <2>4. view' = [view EXCEPT !.rest = rest, !.rows = rows]
    BY <2>1
  <2> HIDE DEF rest, rows
  <2> QED BY <2>2, <2>3, <2>4
<1>10. CASE ReadRows
  BY <1>1, <1>2, <1>4, <1>10 DEF ReadRows
<1>11. CASE CountTasks
  BY <1>1, <1>2, <1>5, <1>6, <1>11 DEF CountTasks, Stored
<1>12. CASE ReadJoin
  BY <1>1, <1>2, <1>4, <1>5, <1>12 DEF ReadJoin
<1>13. CASE ReadDepth
  <2>1. Cardinality(Task) \in Nat
    BY <1>6
  <2>2. PICK n \in 0..Cardinality(Task) : view' = [view EXCEPT !.rest = Tail(@), !.depth = n]
    BY <1>13 DEF ReadDepth
  <2>3. n \in Nat
    BY <2>1
  <2> QED BY <1>1, <1>2, <2>2, <2>3
<1>14. CASE SaveReport
  BY <1>1, <1>2, <1>14 DEF SaveReport
<1>15. CASE ReadTask
  <2>1. PICK t \in Task :
          view' = IF t \in Stored
                    THEN [view EXCEPT !.rest = Tail(@), !.tasks = {t}, !.shown = [u \in {t} |-> status[u]]]
                    ELSE [view EXCEPT !.rest = <<>>]
    BY <1>15 DEF ReadTask
  <2>2. [u \in {t} |-> status[u]] \in UNION {[S -> TaskStatus] : S \in SUBSET Task}
    <3>1. {t} \in SUBSET Task /\ [u \in {t} |-> status[u]] \in [{t} -> TaskStatus]
      OBVIOUS
    <3> QED BY <3>1
  <2>3. <<>> \in Seq(Statement)
    OBVIOUS
  <2> DEFINE shown == [u \in {t} |-> status[u]]
  <2> HIDE DEF shown
  <2> QED BY <1>1, <1>2, <2>1, <2>2, <2>3 DEF shown
<1> QED BY <1>15, <1>7, <1>8, <1>9, <1>10, <1>11, <1>12, <1>13, <1>14 DEF Read

\* The statements of a list or a copilot follow each other.
LEMMA ReadOnItsWay ==
  ASSUME ViewsTypeOK, OnItsWay, Read
  PROVE  OnItsWay'
<1> SUFFICES ASSUME view'.kind \in Lists \cup {"copilot"}
             PROVE  view'.rest \in RestOf(view'.kind)
  BY DEF OnItsWay
<1>1. view'.kind = view.kind
  BY DEF ViewsTypeOK, ViewType, Read, ReadScan, ReadTasks, ReadTask, ReadRow, ReadRows, CountTasks, ReadJoin,
    ReadDepth, SaveReport
<1>2. \/ view'.rest = <<>>
      \/ view'.rest = Tail(view.rest)
      \/ view'.rest = view.rest
      \/ view'.rest = Tail(Tail(view.rest)) /\ Serving("tasks") /\ Len(view.rest) > 1
  BY DEF ViewsTypeOK, ViewType, Read, ReadScan, ReadTasks, ReadTask, ReadRow, ReadRows, CountTasks, ReadJoin,
    ReadDepth, SaveReport
<1>3. view.rest # <<>>
  BY DEF Read, ReadScan, ReadTasks, ReadTask, ReadRow, ReadRows, CountTasks, ReadJoin, ReadDepth, SaveReport,
    Serving
<1>4. view.rest \in RestOf(view.kind) /\ view.kind \in Lists \cup {"copilot"}
  BY <1>1 DEF OnItsWay
<1>5. /\ view.kind = "copilot" /\ Serving("tasks") => view.rest = <<"tasks", "row", "count">>
      /\ view.kind \in Lists /\ Serving("tasks") => view.rest = <<"tasks", "row">>
  BY <1>4 DEF Serving, RestOf, Lists
<1>6. view.kind = "copilot" /\ Serving("tasks") => Tail(Tail(view.rest)) = <<"count">>
  BY <1>5, Tails
<1>7. view.kind \in Lists /\ Serving("tasks") => Tail(Tail(view.rest)) = <<>>
  BY <1>5, Tails
<1>8. Tail(view.rest) \in RestOf(view.kind) /\ <<>> \in RestOf(view.kind)
  BY <1>3, <1>4, Tails DEF RestOf, Lists
<1>9. view.kind = "copilot" => <<"count">> \in RestOf(view.kind)
  BY DEF RestOf, Lists
<1> QED BY <1>1, <1>2, <1>4, <1>6, <1>7, <1>8, <1>9

\* A list that has been read tells the truth.
LEMMA ReadListTrue ==
  ASSUME ViewsInv, Read, UNCHANGED rowVars
  PROVE  ListTrue'
<1> USE DEF ViewsInv, ViewsTypeOK, ViewType
<1> SUFFICES ASSUME view'.kind \in Lists, ~view'.gone
             PROVE  IF TasksRead'
                      THEN /\ view'.tasks \subseteq DOMAIN view'.shown
                           /\ \A t \in view'.tasks : view'.shown[t] = "SUCCESS" =>
                                IF t \in DOMAIN view'.rows THEN view'.rows[t] # "none"
                                                           ELSE resp'[t] # "none"
                           /\ view'.rest = <<>> => view'.tasks \subseteq DOMAIN view'.rows
                      ELSE Fresh'
  BY DEF ListTrue
<1>1. view'.kind = view.kind /\ view'.gone = view.gone
  BY DEF Read, ReadScan, ReadTasks, ReadTask, ReadRow, ReadRows, CountTasks, ReadJoin, ReadDepth, SaveReport
<1>2. view.kind \in Lists /\ ~view.gone /\ scan # "DELETED"
  BY <1>1 DEF GoneIsSeen
<1>3. CASE ReadScan
  <2>1. view'.rest = Tail(view.rest) /\ view'.tasks = {} /\ view'.rows = <<>>
    BY <1>2, <1>3 DEF ReadScan
  <2>2. view.rest = <<"scan", "count", "tasks", "row">>
    BY <1>2, <1>3 DEF ReadScan, Serving, OnItsWay, RestOf, Lists
  <2> QED BY <2>1, <2>2, Tails DEF TasksRead, Fresh
<1>4. CASE ReadTasks
  <2>1. view.rest = <<"tasks", "row">> /\ DOMAIN view.rows = {}
    BY <1>2, <1>4 DEF ReadTasks, Serving, OnItsWay, RestOf, Lists, ListTrue, TasksRead, Fresh
  <2>3. /\ view'.tasks = Stored /\ view'.rows = view.rows
        /\ view'.shown = [t \in Stored |-> status[t]]
    BY <1>2, <1>4, <2>1 DEF ReadTasks, OnItsWay, RestOf, Lists
  <2>4. view'.rest = IF Stored = {} THEN <<>> ELSE <<"row">>
    BY <1>4, <2>1, Tails DEF ReadTasks
  <2>5. \A t \in Stored : status[t] = "SUCCESS" => resp'[t] # "none"
    BY DEF Stored, SuccessIsSaved, rowVars
  <2> QED BY <2>1, <2>3, <2>4, <2>5 DEF TasksRead
<1>5. CASE ReadRow
  <2>1. view.rest = <<"row">> /\ TasksRead
    BY <1>2, <1>5 DEF ReadRow, Serving, OnItsWay, RestOf, Lists, TasksRead
  <2>2. PICK t \in view.tasks \ DOMAIN view.rows :
          view' = [view EXCEPT
            !.rest = IF view.tasks = DOMAIN view.rows \cup {t} THEN Tail(@) ELSE @,
            !.rows = [u \in DOMAIN @ \cup {t} |-> IF u = t THEN resp[t] ELSE @[u]]]
    BY <1>5 DEF ReadRow
  <2>3. /\ view'.tasks = view.tasks /\ view'.shown = view.shown
        /\ view'.rows = [u \in DOMAIN view.rows \cup {t} |-> IF u = t THEN resp[t] ELSE view.rows[u]]
        /\ view'.rest = IF view.tasks = DOMAIN view.rows \cup {t} THEN <<>> ELSE <<"row">>
    BY <2>1, <2>2, Tails
  <2>4. /\ view.tasks \subseteq DOMAIN view.shown
        /\ \A u \in view.tasks : view.shown[u] = "SUCCESS" =>
             IF u \in DOMAIN view.rows THEN view.rows[u] # "none" ELSE resp[u] # "none"
    BY <1>2, <2>1 DEF ListTrue
  <2> QED BY <2>3, <2>4 DEF TasksRead, rowVars
<1>6. CASE CountTasks
  <2>1. view.rest = <<"count", "tasks", "row">>
    BY <1>2, <1>6 DEF CountTasks, Serving, OnItsWay, RestOf, Lists
  <2>2. view'.rest = Tail(view.rest) /\ view'.tasks = view.tasks /\ view'.rows = view.rows
    BY <1>6 DEF CountTasks
  <2>3. Fresh
    BY <1>2, <2>1 DEF ListTrue, TasksRead
  <2> QED BY <2>1, <2>2, <2>3, Tails DEF TasksRead, Fresh
<1>7. CASE ReadTask
  <2>1. view.rest = <<"task", "row">> /\ Fresh
    BY <1>2, <1>7 DEF ReadTask, Serving, OnItsWay, RestOf, Lists, ListTrue, TasksRead
  <2>2. PICK t \in Task :
          view' = IF t \in Stored
                    THEN [view EXCEPT !.rest = Tail(@), !.tasks = {t}, !.shown = [u \in {t} |-> status[u]]]
                    ELSE [view EXCEPT !.rest = <<>>]
    BY <1>7 DEF ReadTask
  <2>3. CASE t \in Stored
    <3>1. /\ view'.rest = <<"row">> /\ view'.tasks = {t} /\ view'.rows = view.rows
          /\ view'.shown = [u \in {t} |-> status[u]]
      BY <2>1, <2>2, <2>3, Tails
    <3>2. status[t] = "SUCCESS" => resp'[t] # "none"
      BY DEF SuccessIsSaved, rowVars
    <3> QED BY <2>1, <3>1, <3>2 DEF TasksRead, Fresh
  <2>4. CASE t \notin Stored
    <3>1. view'.tasks = {} /\ view'.rest = <<>>
      BY <2>1, <2>2, <2>4 DEF Fresh
    <3> QED BY <3>1 DEF TasksRead
  <2> QED BY <2>3, <2>4
<1> QED BY <1>2, <1>3, <1>4, <1>5, <1>6, <1>7, ServedNext DEF Read, ReadRows, ReadJoin, ReadDepth, SaveReport

\* A count finds the tasks that were listed as successes among the stored ones, and
\* none of them pending.
LEMMA CountedOnce ==
  ASSUME ViewsTypeOK, NEW S \in SUBSET Task, \A t \in S : status[t] = "SUCCESS"
  PROVE  Cardinality(S) + Cardinality({t \in Stored : status[t] \in {"QUEUED", "PROCESSING", "RETRYING"}})
           <= Cardinality(Stored)
<1> DEFINE P == {t \in Stored : status[t] \in {"QUEUED", "PROCESSING", "RETRYING"}}
<1>1. S \subseteq Stored /\ P \subseteq Stored /\ S \cap P = {} /\ Stored \subseteq Task
  BY DEF Stored
<1>2. IsFiniteSet(Stored) /\ IsFiniteSet(S) /\ IsFiniteSet(P)
  BY <1>1, ViewsAssumption, FS_Subset
<1>3. Cardinality(S \cup P) = Cardinality(S) + Cardinality(P) - Cardinality({})
  BY <1>1, <1>2, FS_Union
<1>4. Cardinality(S \cup P) <= Cardinality(Stored)
  BY <1>1, <1>2, FS_Subset
<1> HIDE DEF P
<1>5. Cardinality(S) + Cardinality(P) <= Cardinality(Stored)
  BY <1>2, <1>3, <1>4, FS_CardinalityType, FS_EmptySet
<1> QED BY <1>5 DEF P

\* What the copilot has listed stays true until it has counted.
LEMMA ReadCopilotTrue ==
  ASSUME ViewsInv, Read, UNCHANGED rowVars
  PROVE  CopilotTrue'
<1> USE DEF ViewsInv, ViewsTypeOK, ViewType
<1> SUFFICES ASSUME view'.kind = "copilot", ~view'.gone, ~Again
             PROVE  CopilotTrue'
  BY DEF CopilotTrue
<1>1. view'.kind = view.kind /\ view'.gone = view.gone
  BY DEF Read, ReadScan, ReadTasks, ReadTask, ReadRow, ReadRows, CountTasks, ReadJoin, ReadDepth, SaveReport
<1>2. view.kind = "copilot" /\ ~view.gone /\ scan # "DELETED"
  BY <1>1 DEF GoneIsSeen
<1>3. CASE ReadScan
  <2>1. view'.rest = Tail(view.rest) /\ view'.tasks = {}
    BY <1>2, <1>3 DEF ReadScan
  <2>2. view.rest = <<"scan", "tasks", "row", "count">>
    BY <1>2, <1>3 DEF ReadScan, Serving, OnItsWay, RestOf, Lists
  <2> QED BY <2>1, <2>2, Tails DEF TasksRead, CopilotTrue
<1>4. CASE ReadTasks
  <2>1. view.rest = <<"tasks", "row", "count">>
    BY <1>2, <1>4 DEF ReadTasks, Serving, OnItsWay, RestOf, Lists
  <2>3. /\ view'.tasks = Stored
        /\ view'.shown = [t \in Stored |-> status[t]]
    BY <1>2, <1>4 DEF ReadTasks
  <2>4. TasksRead' /\ view'.rest # <<>>
    <3>1. <<"count">> # <<>> /\ <<"row", "count">> # <<>>
      OBVIOUS
    <3> QED BY <1>4, <2>1, <3>1, Tails DEF ReadTasks, TasksRead
  <2>5. \A t \in Succeeded(view)' : status'[t] = "SUCCESS"
    BY <2>3 DEF Succeeded, rowVars
  <2> QED BY <2>4, <2>5 DEF CopilotTrue
<1>5. CASE ReadRow
  <2>1. view.rest = <<"row", "count">> /\ TasksRead
    BY <1>2, <1>5 DEF ReadRow, Serving, OnItsWay, RestOf, Lists, TasksRead
  <2>2. /\ view'.tasks = view.tasks /\ view'.shown = view.shown
        /\ view'.rest = Tail(view.rest) \/ view'.rest = view.rest
    BY <1>5 DEF ReadRow
  <2>3. \A t \in Succeeded(view) : status[t] = "SUCCESS"
    BY <1>2, <2>1 DEF CopilotTrue
  <2>4. TasksRead' /\ view'.rest # <<>>
    <3>1. <<"count">> # <<>> /\ <<"row", "count">> # <<>>
      OBVIOUS
    <3> QED BY <2>1, <2>2, <3>1, Tails DEF TasksRead
  <2> QED BY <2>2, <2>3, <2>4 DEF CopilotTrue, Succeeded, rowVars
<1>6. CASE CountTasks
  <2>1. view.rest = <<"count">> /\ TasksRead
    BY <1>2, <1>6 DEF CountTasks, Serving, OnItsWay, RestOf, Lists, TasksRead
  <2>2. /\ view'.tasks = view.tasks /\ view'.shown = view.shown /\ view'.rest = Tail(view.rest)
        /\ view'.total = Cardinality(Stored)
        /\ view'.pending = Cardinality({t \in Stored : status[t] \in {"QUEUED", "PROCESSING", "RETRYING"}})
    BY <1>6 DEF CountTasks
  <2>3. \A t \in Succeeded(view) : status[t] = "SUCCESS"
    BY <1>2, <2>1 DEF CopilotTrue
  <2>4. Succeeded(view) \in SUBSET Task /\ Succeeded(view)' = Succeeded(view)
    BY <2>2 DEF Succeeded
  <2>5. Cardinality(Succeeded(view)') + view'.pending <= view'.total
    BY <2>2, <2>3, <2>4, CountedOnce
  <2>6. view'.rest = <<>>
    BY <2>1, <2>2, Tails
  <2> QED BY <2>5, <2>6 DEF CopilotTrue, TasksRead
<1> QED BY <1>2, <1>3, <1>4, <1>5, <1>6, ServedNext
      DEF Read, ReadTask, ReadRows, ReadJoin, ReadDepth, SaveReport

-----------------------------------------------------------------------------
(* The theorems.                                                           *)

\* The session has read nothing yet.
LEMMA ViewsInitInv == ViewsInit => ViewsInv
<1> SUFFICES ASSUME ViewsInit PROVE ViewsInv
  OBVIOUS
<1>1. PICK kind \in Kind : view = NoView(kind)
  BY DEF ViewsInit
<1>2. Statements(kind) \in Seq(Statement)
  <2>1. /\ <<"tasks", "row">> \in Seq(Statement) /\ <<"task", "row">> \in Seq(Statement)
        /\ <<"scan", "count">> \in Seq(Statement)
        /\ <<"scan", "join">> \in Seq(Statement) /\ <<"scan", "join", "depth">> \in Seq(Statement)
        /\ <<"scan", "tasks", "rows">> \in Seq(Statement)
        /\ <<"scan", "tasks", "rows", "files">> \in Seq(Statement)
        /\ <<"scan", "count", "tasks", "row">> \in Seq(Statement)
        /\ <<"scan", "tasks", "row", "count">> \in Seq(Statement)
    BY DEF Statement
  <2>2. CASE kind = "dashboard"
    BY <2>2 DEF Statements, Statement
  <2>3. CASE kind = "copilotRisk"
    BY <2>3 DEF Statements, Statement
  <2>4. CASE kind \notin {"dashboard", "copilotRisk"}
    <3> HIDE DEF Statement
    <3> QED BY <2>1, <2>4 DEF Statements, Kind
  <2> QED BY <2>2, <2>3, <2>4
<1>3. view \in ViewType
  BY <1>1, <1>2, NothingRead DEF NoView, ViewType
<1>4. /\ view.tasks = {} /\ view.rows = <<>> /\ view.kind = kind /\ view.rest = Statements(kind)
  BY <1>1 DEF NoView
<1>5. OnItsWay
  BY <1>4 DEF OnItsWay, Statements, RestOf, Lists
<1>6. kind \in Lists \cup {"copilot"} => ~TasksRead
  BY <1>4 DEF Statements, TasksRead, Lists
<1>7. ListTrue
  BY <1>4, <1>6 DEF ListTrue, Fresh
<1>8. CopilotTrue
  BY <1>4, <1>6 DEF CopilotTrue, TasksRead
<1> QED BY <1>3, <1>5, <1>7, <1>8
  DEF ViewsInit, RowsInit, ViewsInv, ViewsTypeOK, TaskStatus, RowState, SuccessIsSaved, GoneIsSeen, Told

\* A step of the workers while the request is served.
LEMMA WorkInv ==
  ASSUME ViewsInv, Work, UNCHANGED <<answer, asked, content>>
  PROVE  ViewsInv'
<1> USE DEF ViewsInv
<1>1. /\ view.rest # <<>> /\ RowsNext
      /\ view' = [view EXCEPT !.gone = @ \/ scan' = "DELETED"]
  <2>1. ToSet(<<>>) = {}
    BY DEF ToSet
  <2> QED BY <2>1 DEF Work
<1>2. /\ view' \in ViewType
      /\ \A f \in {"kind", "rest", "tasks", "shown", "rows", "total", "pending"} : view'[f] = view[f]
      /\ ~view'.gone => ~view.gone /\ scan' # "DELETED"
  BY <1>1 DEF ViewsTypeOK, ViewType
<1>3. status' \in [Task -> TaskStatus] /\ resp' \in [Task -> RowState] /\ SuccessIsSaved'
  BY <1>1, RowsStep
<1>4. /\ view'.kind = view.kind /\ view'.rest = view.rest /\ view'.tasks = view.tasks
      /\ view'.shown = view.shown /\ view'.rows = view.rows
      /\ view'.total = view.total /\ view'.pending = view.pending
  BY <1>1 DEF ViewsTypeOK, ViewType
<1>5. ViewsTypeOK' /\ OnItsWay' /\ GoneIsSeen' /\ Told'
  BY <1>1, <1>2, <1>3, <1>4 DEF ViewsTypeOK, OnItsWay, GoneIsSeen, Told
<1>6. ListTrue'
  <2>1. ~view'.gone => \A t \in Task : resp[t] # "none" => resp'[t] # "none"
    BY <1>1, <1>2, RowsStep
  <2>2. view.tasks \subseteq Task
    BY DEF ViewsTypeOK, ViewType
  <2> QED BY <1>2, <1>4, <2>1, <2>2 DEF ListTrue, TasksRead, Fresh
<1>7. CopilotTrue'
  <2>1. ~view'.gone /\ ~Again => \A t \in Task : status[t] = "SUCCESS" => status'[t] = "SUCCESS"
    BY <1>1, <1>2, RowsStep
  <2>2. Succeeded(view)' = Succeeded(view) /\ Succeeded(view) \subseteq Task
    BY <1>4 DEF ViewsTypeOK, ViewType, Succeeded
  <2> QED BY <1>1, <1>2, <1>4, <2>1, <2>2 DEF CopilotTrue, TasksRead
<1> QED BY <1>3, <1>5, <1>6, <1>7

\* The invariant is inductive: a statement of the session, its answer, or a commit of a
\* worker.
LEMMA ViewsStep == ViewsInv /\ [ViewsNext]_viewVars => ViewsInv'
<1> SUFFICES ASSUME ViewsInv, [ViewsNext]_viewVars PROVE ViewsInv'
  OBVIOUS
<1> USE DEF ViewsInv
<1>1. CASE Read /\ UNCHANGED <<rowVars, answer>>
  <2>1. view.rest # <<>> /\ view'.gone = view.gone
    BY <1>1 DEF ViewsTypeOK, ViewType, Read, ReadScan, ReadTasks, ReadTask, ReadRow, ReadRows, CountTasks,
      ReadJoin, ReadDepth, SaveReport, Serving
  <2>2. ViewsTypeOK' /\ SuccessIsSaved' /\ GoneIsSeen' /\ OnItsWay' /\ Told'
    BY <1>1, <2>1, ReadType, ReadOnItsWay DEF ViewsTypeOK, SuccessIsSaved, GoneIsSeen, Told, rowVars
  <2> QED BY <1>1, <2>2, ReadListTrue, ReadCopilotTrue
<1>2. CASE Reply /\ UNCHANGED rowVars
  <2>1. UNCHANGED <<scan, status, resp, view>>
    BY <1>2 DEF Reply, rowVars
  <2>2. PICK order : answer' = IF HttpCode(view) = 200 THEN <<200, order, Answer(view, order)>>
                               ELSE <<HttpCode(view), order>>
    BY <1>2 DEF Reply
  <2>3. answer'[1] = 200 => answer'[3] = Answer(view, order)
    BY <2>2
  <2>4. /\ view.kind \in {"list", "details"} => Answer(view, order) = Listed(view)
        /\ view.kind = "context" => Answer(view, order) = ScanContext(view)
        /\ view.kind = "copilot" =>
             Answer(view, order) =
               [failed |-> Cardinality(FailedTasks(view)), listed |-> Cardinality(Succeeded(view)),
                count |-> [total |-> view.total, completed |-> view.done, pending |-> view.pending]]
    BY DEF Answer
  <2>5. Told'
    BY <1>2, <2>1, <2>3, <2>4 DEF Reply, Told, ScanContext, Listed, Succeeded
  <2> QED BY <2>1, <2>5 DEF ViewsTypeOK, SuccessIsSaved, GoneIsSeen, OnItsWay, ListTrue, CopilotTrue,
    TasksRead, Fresh, Succeeded
<1>3. CASE Work /\ UNCHANGED <<answer, asked, content>>
  BY <1>3, WorkInv
<1>4. CASE UNCHANGED viewVars
  BY <1>4 DEF viewVars, rowVars, ViewsTypeOK, SuccessIsSaved, GoneIsSeen, OnItsWay, ListTrue, CopilotTrue,
    TasksRead, Fresh, Succeeded, Told, Listed
<1> QED BY <1>1, <1>2, <1>3, <1>4 DEF ViewsNext

\* However many tasks the scan has and however their rows change while the list is read,
\* a task that is listed as a success is listed with its response, unless the scan has
\* been deleted meanwhile: ListedSuccessHasResponse.
THEOREM ListedSuccessAlwaysHasResponse == ViewsSpec => []ListedSuccessHasResponse
<1>1. ViewsInv => ListedSuccessHasResponse
  <2> DEFINE listed == IF view.kind = "context" THEN answer[3].listed ELSE answer[3]
  <2> SUFFICES ASSUME ViewsInv, Answered(Lists), ~view.gone
               PROVE  \A t \in DOMAIN listed : listed[t].status = "SUCCESS" => listed[t].row # "none"
    BY DEF ListedSuccessHasResponse, Lists
  <2>1. view.rest = <<>> /\ view.kind \in Lists /\ listed = Listed(view)
    BY DEF ViewsInv, Told, Answered, Lists
  <2> HIDE DEF listed
  <2> QED BY <2>1 DEF ViewsInv, ListTrue, TasksRead, Listed
<1> QED BY <1>1, ViewsInitInv, ViewsStep, PTL DEF ViewsSpec

\* The copilot's two numbers never count a task twice: CopilotCountsOnce.
THEOREM CopilotAlwaysCountsOnce == ViewsSpec => []CopilotCountsOnce
<1>1. ViewsInv => CopilotCountsOnce
  <2> SUFFICES ASSUME ViewsInv, Answered({"copilot"}), ~view.gone, ~Again
               PROVE  answer[3].listed + answer[3].count.pending <= answer[3].count.total
    BY DEF CopilotCountsOnce
  <2>1. view.rest = <<>> /\ view.kind = "copilot"
    BY DEF ViewsInv, Told, Answered
  <2> QED BY <2>1 DEF ViewsInv, CopilotTrue, Told, Answered
<1> QED BY <1>1, ViewsInitInv, ViewsStep, PTL DEF ViewsSpec

-----------------------------------------------------------------------------
(* Lists.                                                                  *)

\* A set of naturals has a least member.
LEMMA LeastNumber ==
  ASSUME NEW I \in SUBSET Nat, I # {}
  PROVE  \E i \in I : \A j \in I : i <= j
<1> DEFINE Less == {p \in Nat \X Nat : p[1] < p[2]}
<1>1. IsWellFoundedOn(Less, Nat)
  BY NatLessThanWellFounded DEF OpToRel
<1> HIDE DEF Less
<1>2. PICK i \in I : \A j \in I : ~(<<j, i>> \in Less)
  BY <1>1, WFMin
<1>3. ASSUME NEW j \in I  PROVE i <= j
  <2>1. i \in Nat /\ j \in Nat
    OBVIOUS
  <2>2. ~(j < i)
    BY <1>2, <2>1 DEF Less
  <2> QED  BY <2>1, <2>2
<1> QED  BY <1>3

\* What the operators on lists are applied to.
IsList(s) == s \in Seq(ToSet(s))

\* A function on 1..n is a list of what it maps to.
LEMMA ListFunction ==
  ASSUME NEW n \in Nat, NEW s, s = [i \in 1..n |-> s[i]]
  PROVE  IsList(s) /\ Len(s) = n /\ DOMAIN s = 1..n
<1>1. s \in [1..n -> ToSet(s)]
  BY DEF ToSet
<1> QED BY <1>1 DEF IsList

\* The places and members of a list.
LEMMA ListShape ==
  ASSUME NEW s, IsList(s)
  PROVE  /\ Len(s) \in Nat /\ DOMAIN s = 1..Len(s)
         /\ s = [i \in 1..Len(s) |-> s[i]]
         /\ \A i \in DOMAIN s : s[i] \in ToSet(s)
BY DEF IsList, ToSet

\* A sequence over any set is a list.
LEMMA ListOf ==
  ASSUME NEW T, NEW s \in Seq(T)
  PROVE  IsList(s) /\ \A i \in DOMAIN s : s[i] \in T
<1>1. Len(s) \in Nat /\ s = [i \in 1..Len(s) |-> s[i]] /\ \A i \in DOMAIN s : s[i] \in T
  OBVIOUS
<1> QED BY <1>1, ListFunction

\* Two lists, one after the other.
LEMMA ListConcat ==
  ASSUME NEW a, NEW b, IsList(a), IsList(b)
  PROVE  IsList(a \o b) /\ ToSet(a \o b) = ToSet(a) \cup ToSet(b)
<1> DEFINE T == ToSet(a) \cup ToSet(b)
<1>1. a \in Seq(T) /\ b \in Seq(T)
  BY DEF IsList
<1> HIDE DEF T
<1>2. /\ a \o b \in Seq(T) /\ Len(a \o b) = Len(a) + Len(b)
      /\ \A i \in 1..(Len(a) + Len(b)) :
            (a \o b)[i] = IF i <= Len(a) THEN a[i] ELSE b[i - Len(a)]
  BY <1>1
<1>3. Len(a) \in Nat /\ Len(b) \in Nat /\ DOMAIN a = 1..Len(a) /\ DOMAIN b = 1..Len(b)
      /\ DOMAIN (a \o b) = 1..(Len(a) + Len(b))
  BY <1>1, <1>2
<1>4. IsList(a \o b)
  BY <1>2, ListOf
<1>5. ToSet(a \o b) \subseteq ToSet(a) \cup ToSet(b)
  <2> SUFFICES ASSUME NEW i \in 1..(Len(a) + Len(b))
               PROVE  (a \o b)[i] \in ToSet(a) \cup ToSet(b)
    BY <1>3 DEF ToSet
  <2>1. CASE i <= Len(a)
    BY <2>1, <1>2, <1>3 DEF ToSet
  <2>2. CASE i > Len(a)
    <3>1. i - Len(a) \in DOMAIN b /\ (a \o b)[i] = b[i - Len(a)]
      BY <2>2, <1>2, <1>3
    <3> QED BY <3>1 DEF ToSet
  <2> QED BY <1>3, <2>1, <2>2
<1>6. ToSet(a) \subseteq ToSet(a \o b)
  <2> SUFFICES ASSUME NEW i \in DOMAIN a PROVE \E j \in DOMAIN (a \o b) : (a \o b)[j] = a[i]
    BY DEF ToSet
  <2> QED BY <1>2, <1>3
<1>7. ToSet(b) \subseteq ToSet(a \o b)
  <2> SUFFICES ASSUME NEW i \in DOMAIN b PROVE \E j \in DOMAIN (a \o b) : (a \o b)[j] = b[i]
    BY DEF ToSet
  <2>1. i + Len(a) \in DOMAIN (a \o b) /\ ~(i + Len(a) <= Len(a)) /\ (i + Len(a)) - Len(a) = i
    BY <1>3
  <2> QED BY <2>1, <1>2, <1>3
<1> QED BY <1>4, <1>5, <1>6, <1>7

\* A list of lists is flattened from left to right: the recursion of FlattenSeq has a
\* solution, found one place after the other, and its last value has all members.
LEMMA Flattened ==
  ASSUME NEW s, IsList(s), \A i \in DOMAIN s : IsList(s[i])
  PROVE  /\ IsList(FlattenSeq(s))
         /\ ToSet(FlattenSeq(s)) = UNION {ToSet(s[i]) : i \in DOMAIN s}
<1> DEFINE n == Len(s)
           Solves(g, m) == g = [i \in 1..m |-> IF i = 1 THEN s[i] ELSE g[i - 1] \o s[i]]
           f == CHOOSE g : Solves(g, n)
           Upto(i) == UNION {ToSet(s[j]) : j \in 1..i}
<1>1. n \in Nat /\ DOMAIN s = 1..n
  BY ListShape
<1>2. CASE n = 0
  <2>1. FlattenSeq(s) = s /\ DOMAIN s = {}
    BY <1>1, <1>2 DEF FlattenSeq
  <2> QED BY <2>1 DEF ToSet
<1>3. CASE n > 0
  <2>1. \E g : Solves(g, n)
    <3> DEFINE Bad == {m \in 0..n : ~\E g : Solves(g, m)}
    <3>0. n \in 0..n /\ 0..n \subseteq Nat /\ Bad \subseteq 0..n
      <4>1. Bad \subseteq 0..n
        OBVIOUS
      <4> HIDE DEF Bad
      <4> QED BY <1>1, <4>1
    <3> SUFFICES ASSUME Bad # {} PROVE FALSE
      BY <3>0
    <3> HIDE DEF Bad
    <3>1. PICK m \in Bad : \A k \in Bad : m <= k
      BY <3>0, LeastNumber
    <3>2. m \in 0..n /\ ~\E g : Solves(g, m)
      BY <3>1 DEF Bad
    <3>3. CASE m = 0
      <4>1. Solves([i \in 1..0 |-> 0], m)
        BY <3>3
      <4> QED BY <4>1, <3>2
    <3>4. CASE m # 0
      <4>1. m - 1 \in 0..n /\ ~(m <= m - 1)
        BY <1>1, <3>2, <3>4
      <4>2. PICK g : Solves(g, m - 1)
        BY <4>1, <3>1 DEF Bad
      <4> DEFINE h == [i \in 1..m |-> IF i = 1 THEN s[i] ELSE g[i - 1] \o s[i]]
      <4>3. ASSUME NEW i \in 1..m, i # 1  PROVE g[i - 1] = h[i - 1]
        <5>1. i - 1 \in 1..(m - 1) /\ i - 1 \in 1..m
          BY <4>3, <3>2
        <5>2. g[i - 1] = IF i - 1 = 1 THEN s[i - 1] ELSE g[(i - 1) - 1] \o s[i - 1]
          BY <4>2, <5>1
        <5> QED BY <5>1, <5>2
      <4>4. Solves(h, m)
        BY <4>3
      <4> QED BY <4>4, <3>2
    <3> QED BY <3>3, <3>4
  <2>2. Solves(f, n)
    BY <2>1
  <2>3. FlattenSeq(s) = f[n]
    BY <1>1, <1>3 DEF FlattenSeq
  <2> HIDE DEF f
  <2>4. \A i \in 1..n : IsList(f[i]) /\ ToSet(f[i]) = Upto(i)
    <3> DEFINE Bad == {i \in 1..n : ~(IsList(f[i]) /\ ToSet(f[i]) = Upto(i))}
    <3> SUFFICES ASSUME Bad # {} PROVE FALSE
      OBVIOUS
    <3>0. Bad \in SUBSET Nat
      BY <1>1
    <3> HIDE DEF Bad
    <3>1. PICK m \in Bad : \A k \in Bad : m <= k
      BY <3>0, LeastNumber
    <3>2. m \in 1..n /\ ~(IsList(f[m]) /\ ToSet(f[m]) = Upto(m)) /\ IsList(s[m])
      BY <1>1, <3>1 DEF Bad
    <3>3. CASE m = 1
      <4>1. f[m] = s[m]
        BY <2>2, <3>2, <3>3
      <4>2. Upto(m) = ToSet(s[m])
        BY <3>3
      <4> QED BY <4>1, <4>2, <3>2
    <3>4. CASE m # 1
      <4>1. m - 1 \in 1..n /\ ~(m <= m - 1)
        BY <1>1, <3>2, <3>4
      <4>2. IsList(f[m - 1]) /\ ToSet(f[m - 1]) = Upto(m - 1)
        BY <4>1, <3>1 DEF Bad
      <4>3. f[m] = f[m - 1] \o s[m]
        BY <2>2, <3>2, <3>4
      <4>4. IsList(f[m]) /\ ToSet(f[m]) = Upto(m - 1) \cup ToSet(s[m])
        BY <4>2, <4>3, <3>2, ListConcat
      <4>5. 1..m = 1..(m - 1) \cup {m}
        BY <1>1, <3>2
      <4>6. Upto(m) = Upto(m - 1) \cup ToSet(s[m])
        BY <4>5
      <4> QED BY <4>4, <4>6, <3>2
    <3> QED BY <3>3, <3>4
  <2> QED BY <1>1, <1>3, <2>3, <2>4
<1> QED BY <1>1, <1>2, <1>3

\* Tuples are lists.
LEMMA Tuples ==
  /\ IsList(<<>>) /\ ToSet(<<>>) = {}
  /\ \A a : IsList(<<a>>) /\ ToSet(<<a>>) = {a}
  /\ \A a, b : IsList(<<a, b>>) /\ ToSet(<<a, b>>) = {a, b}
<1>1. IsList(<<>>) /\ ToSet(<<>>) = {}
  <2>1. DOMAIN <<>> = {} /\ \A T : <<>> \in Seq(T)
    OBVIOUS
  <2> QED BY <2>1 DEF ToSet, IsList
<1>2. ASSUME NEW a PROVE IsList(<<a>>) /\ ToSet(<<a>>) = {a}
  <2>1. <<a>> \in Seq({a}) /\ DOMAIN <<a>> = {1} /\ <<a>>[1] = a
    OBVIOUS
  <2> QED BY <2>1, ListOf DEF ToSet
<1>3. ASSUME NEW a, NEW b PROVE IsList(<<a, b>>) /\ ToSet(<<a, b>>) = {a, b}
  <2>1. <<a, b>> \in Seq({a, b}) /\ DOMAIN <<a, b>> = {1, 2} /\ <<a, b>>[1] = a /\ <<a, b>>[2] = b
    OBVIOUS
  <2> QED BY <2>1, ListOf DEF ToSet
<1> QED BY <1>1, <1>2, <1>3

\* Picked selects the members at the given places.
LEMMA PickedMembers ==
  ASSUME NEW s, IsList(s), NEW I
  PROVE  /\ IsList(Picked(s, I))
         /\ ToSet(Picked(s, I)) = {s[i] : i \in DOMAIN s \cap I}
<1> DEFINE parts == [i \in DOMAIN s |-> IF i \in I THEN <<s[i]>> ELSE <<>>]
<1>1. Len(s) \in Nat /\ DOMAIN s = 1..Len(s)
  BY ListShape
<1>2. \A i \in DOMAIN s : parts[i] = IF i \in I THEN <<s[i]>> ELSE <<>>
  OBVIOUS
<1>3. parts = [i \in 1..Len(s) |-> parts[i]] /\ DOMAIN parts = DOMAIN s
  BY <1>1
<1>4. Picked(s, I) = FlattenSeq(parts)
  BY DEF Picked
<1> HIDE DEF parts
<1>5. IsList(parts)
  BY <1>1, <1>3, ListFunction
<1>6. \A i \in DOMAIN parts : /\ IsList(parts[i])
                              /\ ToSet(parts[i]) = IF i \in I THEN {s[i]} ELSE {}
  BY <1>2, <1>3, Tuples
<1>7. /\ IsList(FlattenSeq(parts))
      /\ ToSet(FlattenSeq(parts)) = UNION {ToSet(parts[i]) : i \in DOMAIN parts}
  BY <1>5, <1>6, Flattened
<1>8. UNION {ToSet(parts[i]) : i \in DOMAIN parts} = {s[i] : i \in DOMAIN s \cap I}
  BY <1>3, <1>6
<1> QED BY <1>4, <1>7, <1>8

\* Every value is there first somewhere.
LEMMA FirstPlaces ==
  ASSUME NEW s, IsList(s), NEW i \in DOMAIN s
  PROVE  \E j \in Firsts(s) : s[j] = s[i]
<1> DEFINE I == {j \in DOMAIN s : s[j] = s[i]}
<1>1. DOMAIN s = 1..Len(s) /\ Len(s) \in Nat
  BY ListShape
<1>2. I \in SUBSET Nat /\ i \in I
  BY <1>1
<1>3. PICK j \in I : \A k \in I : j <= k
  BY <1>2, LeastNumber
<1>4. \A k \in 1..(j - 1) : s[k] # s[j]
  <2> SUFFICES ASSUME NEW k \in 1..(j - 1), s[k] = s[j] PROVE FALSE
    OBVIOUS
  <2>1. j \in 1..Len(s) /\ k \in 1..Len(s) /\ ~(j <= k)
    BY <1>1
  <2> QED BY <1>1, <1>3, <2>1
<1> QED BY <1>3, <1>4 DEF Firsts

\* A finite set can be listed.
LEMMA SetListed ==
  ASSUME NEW S, IsFiniteSet(S)
  PROVE  IsList(SetToSeq(S)) /\ ToSet(SetToSeq(S)) = S
<1> DEFINE n == Cardinality(S)
           f == SetToSeq(S)
<1>1. n \in Nat /\ ExistsBijection(1..n, S)
  BY FS_CardinalityType
<1>2. \E g \in [1..n -> S] : IsInjective(g)
  BY <1>1 DEF ExistsBijection, Bijection, Injection
<1>3. f \in [1..n -> S] /\ IsInjective(f)
  BY <1>2 DEF SetToSeq
<1> HIDE DEF f
<1>4. f \in Injection(1..n, S) /\ Cardinality(1..n) = n
  <2>1. Cardinality(1..n) = IF 1 > n THEN 0 ELSE n - 1 + 1
    BY <1>1, FS_Interval, 1 \in Int, n \in Int
  <2> QED BY <1>1, <1>3, <2>1 DEF Injection
<1>5. f \in Surjection(1..n, S)
  BY <1>4, FS_Injection
<1>6. \A x \in S : \E i \in 1..n : f[i] = x
  BY <1>5 DEF Surjection
<1>7. f \in Seq(S) /\ DOMAIN f = 1..n
  BY <1>1, <1>3
<1>8. ToSet(f) = S
  BY <1>3, <1>6, <1>7 DEF ToSet
<1> QED BY <1>7, <1>8, ListOf DEF f

\* Longer tuples are lists, too.
LEMMA LongTuples ==
  /\ \A a, b, c : IsList(<<a, b, c>>)
  /\ \A a, b, c, d : IsList(<<a, b, c, d>>)
  /\ \A a, b, c, d, e : IsList(<<a, b, c, d, e>>)
  /\ \A a, b, c, d, e, f : IsList(<<a, b, c, d, e, f>>)
  /\ \A a, b, c, d, e, f, g : IsList(<<a, b, c, d, e, f, g>>)
<1>1. ASSUME NEW a, NEW b, NEW c PROVE IsList(<<a, b, c>>)
  BY <<a, b, c>> \in Seq({a, b, c}), ListOf
<1>2. ASSUME NEW a, NEW b, NEW c, NEW d PROVE IsList(<<a, b, c, d>>)
  BY <<a, b, c, d>> \in Seq({a, b, c, d}), ListOf
<1>3. ASSUME NEW a, NEW b, NEW c, NEW d, NEW e PROVE IsList(<<a, b, c, d, e>>)
  BY <<a, b, c, d, e>> \in Seq({a, b, c, d, e}), ListOf
<1>4. ASSUME NEW a, NEW b, NEW c, NEW d, NEW e, NEW f PROVE IsList(<<a, b, c, d, e, f>>)
  BY <<a, b, c, d, e, f>> \in Seq({a, b, c, d, e, f}), ListOf
<1>5. ASSUME NEW a, NEW b, NEW c, NEW d, NEW e, NEW f, NEW g
      PROVE  IsList(<<a, b, c, d, e, f, g>>)
  BY <<a, b, c, d, e, f, g>> \in Seq({a, b, c, d, e, f, g}), ListOf
<1> QED BY <1>1, <1>2, <1>3, <1>4, <1>5

-----------------------------------------------------------------------------
(* What the analysis finds.                                                *)

\* A function on the places of a list is a list.
LEMMA ListMap ==
  ASSUME NEW s, IsList(s), NEW f, f = [i \in DOMAIN s |-> f[i]]
  PROVE  IsList(f) /\ DOMAIN f = DOMAIN s
<1>1. Len(s) \in Nat /\ DOMAIN s = 1..Len(s)
  BY ListShape
<1>2. f = [i \in 1..Len(s) |-> f[i]]
  BY <1>1
<1> QED BY <1>1, <1>2, ListFunction

\* The keys of the buffer are the endpoints that have a response.
LEMMA KeySet ==
  ASSUME NEW b, IsList(b)
  PROVE  IsList(Keys(b)) /\ ToSet(Keys(b)) = {r.endpoint : r \in ToSet(b)}
<1> DEFINE ends == [i \in DOMAIN b |-> b[i].endpoint]
<1>1. ends = [i \in DOMAIN b |-> ends[i]] /\ \A i \in DOMAIN b : ends[i] = b[i].endpoint
  OBVIOUS
<1>2. Keys(b) = Picked(ends, Firsts(ends))
  BY DEF Keys
<1> HIDE DEF ends
<1>3. IsList(ends) /\ DOMAIN ends = DOMAIN b
  BY <1>1, ListMap
<1>4. /\ IsList(Picked(ends, Firsts(ends)))
      /\ ToSet(Picked(ends, Firsts(ends))) = {ends[i] : i \in DOMAIN ends \cap Firsts(ends)}
  BY <1>3, PickedMembers
<1>5. \A i \in DOMAIN ends : \E j \in DOMAIN ends \cap Firsts(ends) : ends[j] = ends[i]
  BY <1>3, FirstPlaces DEF Firsts
<1>6. {ends[i] : i \in DOMAIN ends \cap Firsts(ends)} = {r.endpoint : r \in ToSet(b)}
  BY <1>1, <1>3, <1>5 DEF ToSet
<1> QED BY <1>2, <1>4, <1>6

\* The list of a key has the responses of its endpoint.
LEMMA GroupSet ==
  ASSUME NEW b, IsList(b), NEW key
  PROVE  IsList(Group(b, key)) /\ ToSet(Group(b, key)) = {r \in ToSet(b) : r.endpoint = key}
<1> DEFINE I == {i \in DOMAIN b : b[i].endpoint = key}
<1>1. IsList(Picked(b, I)) /\ ToSet(Picked(b, I)) = {b[i] : i \in DOMAIN b \cap I}
  BY PickedMembers
<1>2. {b[i] : i \in DOMAIN b \cap I} = {r \in ToSet(b) : r.endpoint = key}
  BY DEF ToSet
<1> QED BY <1>1, <1>2 DEF Group

\* References and challengers are responses of the group, and if there is an
\* administrator's, they are divided by that.
LEMMA Parties ==
  ASSUME NEW g, IsList(g), g # <<>>
  PROVE  /\ IsList(References(g)) /\ ToSet(References(g)) \subseteq ToSet(g)
         /\ IsList(Challengers(g)) /\ ToSet(Challengers(g)) \subseteq ToSet(g)
         /\ (\E r \in ToSet(g) : IsReference(r)) =>
              /\ ToSet(References(g)) = {r \in ToSet(g) : IsReference(r)}
              /\ ToSet(Challengers(g)) = {r \in ToSet(g) : ~IsReference(r)}
<1>1. Len(g) \in Nat /\ DOMAIN g = 1..Len(g) /\ g \in Seq(ToSet(g))
  BY ListShape DEF IsList
<1>2. (\E r \in ToSet(g) : IsReference(r)) <=> Admins(g) # {}
  BY DEF ToSet, Admins
<1>3. CASE Admins(g) = {}
  <2>1. 1 \in DOMAIN g
    BY <1>1
  <2>2. References(g) = <<g[1]>> /\ Challengers(g) = Tail(g)
    BY <1>3 DEF References, Challengers
  <2>3. IsList(<<g[1]>>) /\ ToSet(<<g[1]>>) = {g[1]} /\ g[1] \in ToSet(g)
    BY <2>1, Tuples DEF ToSet
  <2>4. Tail(g) \in Seq(ToSet(g))
    BY <1>1
  <2>5. IsList(Tail(g)) /\ ToSet(Tail(g)) \subseteq ToSet(g)
    BY <2>4, ListOf DEF ToSet
  <2> QED BY <1>2, <1>3, <2>2, <2>3, <2>5
<1>4. CASE Admins(g) # {}
  <2>1. References(g) = Picked(g, Admins(g)) /\ Challengers(g) = Picked(g, DOMAIN g \ Admins(g))
    BY <1>4 DEF References, Challengers
  <2>2. /\ IsList(Picked(g, Admins(g)))
        /\ ToSet(Picked(g, Admins(g))) = {g[i] : i \in DOMAIN g \cap Admins(g)}
        /\ IsList(Picked(g, DOMAIN g \ Admins(g)))
        /\ ToSet(Picked(g, DOMAIN g \ Admins(g))) = {g[i] : i \in DOMAIN g \cap (DOMAIN g \ Admins(g))}
    BY PickedMembers
  <2>3. {g[i] : i \in DOMAIN g \cap Admins(g)} = {r \in ToSet(g) : IsReference(r)}
    BY DEF Admins, ToSet
  <2>4. {g[i] : i \in DOMAIN g \cap (DOMAIN g \ Admins(g))} = {r \in ToSet(g) : ~IsReference(r)}
    BY DEF Admins, ToSet
  <2> QED BY <2>1, <2>2, <2>3, <2>4
<1> QED BY <1>3, <1>4

\* Each reference is paired with each challenger of another user or role.
Differ(a, b) == a.user # b.user \/ a.role # b.role
LEMMA PairSet ==
  ASSUME NEW rs, IsList(rs), NEW cs, IsList(cs)
  PROVE  /\ IsList(Pairings(rs, cs))
         /\ ToSet(Pairings(rs, cs)) = {p \in ToSet(rs) \X ToSet(cs) : Differ(p[1], p[2])}
<1> DEFINE row(i) == [j \in DOMAIN cs |-> <<rs[i], cs[j]>>]
           other(i) == {j \in DOMAIN cs : Differ(rs[i], cs[j])}
           part == [i \in DOMAIN rs |-> Picked(row(i), other(i))]
<1>1. Pairings(rs, cs) = FlattenSeq(part)
  BY DEF Pairings, Differ
<1>2. ASSUME NEW i \in DOMAIN rs
      PROVE  IsList(part[i]) /\ ToSet(part[i]) = {<<rs[i], cs[j]>> : j \in other(i)}
  <2> DEFINE s == row(i)
  <2>1. s = [j \in DOMAIN cs |-> s[j]] /\ \A j \in DOMAIN cs : s[j] = <<rs[i], cs[j]>>
    OBVIOUS
  <2>2. part[i] = Picked(s, other(i))
    OBVIOUS
  <2> HIDE DEF s, part
  <2>3. IsList(s) /\ DOMAIN s = DOMAIN cs
    BY <2>1, ListMap
  <2>4. IsList(part[i]) /\ ToSet(part[i]) = {s[j] : j \in DOMAIN s \cap other(i)}
    BY <2>2, <2>3, PickedMembers
  <2>5. {s[j] : j \in DOMAIN s \cap other(i)} = {<<rs[i], cs[j]>> : j \in other(i)}
    BY <2>1, <2>3
  <2> QED BY <2>4, <2>5
<1>3. part = [i \in DOMAIN rs |-> part[i]]
  OBVIOUS
<1> HIDE DEF part
<1>4. IsList(part) /\ DOMAIN part = DOMAIN rs
  BY <1>3, ListMap
<1>5. /\ IsList(FlattenSeq(part))
      /\ ToSet(FlattenSeq(part)) = UNION {ToSet(part[i]) : i \in DOMAIN part}
  BY <1>2, <1>4, Flattened
<1>6. UNION {ToSet(part[i]) : i \in DOMAIN part} = {p \in ToSet(rs) \X ToSet(cs) : Differ(p[1], p[2])}
  <2>1. ASSUME NEW p \in UNION {ToSet(part[i]) : i \in DOMAIN part}
        PROVE  p \in {q \in ToSet(rs) \X ToSet(cs) : Differ(q[1], q[2])}
    <3>1. PICK i \in DOMAIN rs : \E j \in other(i) : p = <<rs[i], cs[j]>>
      BY <1>2, <1>4
    <3> QED BY <3>1 DEF ToSet
  <2>2. ASSUME NEW p \in ToSet(rs) \X ToSet(cs), Differ(p[1], p[2])
        PROVE  p \in UNION {ToSet(part[i]) : i \in DOMAIN part}
    <3>1. PICK i \in DOMAIN rs, j \in DOMAIN cs : p[1] = rs[i] /\ p[2] = cs[j]
      BY DEF ToSet
    <3>2. p = <<rs[i], cs[j]>> /\ j \in other(i)
      BY <2>2, <3>1
    <3> QED BY <1>2, <1>4, <3>2
  <2> QED BY <2>1, <2>2
<1> QED BY <1>1, <1>5, <1>6

\* If there is an administrator's response, each of them is paired with each other one;
\* a single response is not paired with itself.
LEMMA GroupPairs ==
  ASSUME NEW g, IsList(g), g # <<>>
  PROVE  /\ IsList(BuildPairs(g)) /\ ToSet(BuildPairs(g)) \subseteq ToSet(g) \X ToSet(g)
         /\ (\E r \in ToSet(g) : IsReference(r)) =>
              ToSet(BuildPairs(g)) = {p \in ToSet(g) \X ToSet(g) : IsReference(p[1]) /\ ~IsReference(p[2])}
         /\ (\A r, q \in ToSet(g) : r = q) => ToSet(BuildPairs(g)) = {}
<1>1. BuildPairs(g) = Pairings(References(g), Challengers(g))
  BY DEF BuildPairs
<1>2. /\ IsList(References(g)) /\ ToSet(References(g)) \subseteq ToSet(g)
      /\ IsList(Challengers(g)) /\ ToSet(Challengers(g)) \subseteq ToSet(g)
  BY Parties
<1>3. /\ IsList(BuildPairs(g))
      /\ ToSet(BuildPairs(g)) =
           {p \in ToSet(References(g)) \X ToSet(Challengers(g)) : Differ(p[1], p[2])}
  BY <1>1, <1>2, PairSet
<1>4. ASSUME \E r \in ToSet(g) : IsReference(r)
      PROVE  ToSet(BuildPairs(g)) = {p \in ToSet(g) \X ToSet(g) : IsReference(p[1]) /\ ~IsReference(p[2])}
  <2>1. /\ ToSet(References(g)) = {r \in ToSet(g) : IsReference(r)}
        /\ ToSet(Challengers(g)) = {r \in ToSet(g) : ~IsReference(r)}
    BY <1>4, Parties
  <2>2. \A a, b : IsReference(a) /\ ~IsReference(b) => Differ(a, b)
    BY DEF IsReference, Differ
  <2> QED BY <1>3, <2>1, <2>2
<1>5. ASSUME \A r, q \in ToSet(g) : r = q PROVE ToSet(BuildPairs(g)) = {}
  BY <1>2, <1>3, <1>5 DEF Differ
<1> QED BY <1>2, <1>3, <1>4, <1>5

\* The comparisons of a processing are those of the pairs of each endpoint.
PairsOf(b) == UNION {ToSet(BuildPairs(Group(b, r.endpoint))) : r \in ToSet(b)}
LEMMA DiffSet ==
  ASSUME NEW b, IsList(b)
  PROVE  IsList(DiffsOf(b)) /\ ToSet(DiffsOf(b)) = {Compare(p[1], p[2]) : p \in PairsOf(b)}
<1> DEFINE groups == [k \in DOMAIN Keys(b) |-> BuildPairs(Group(b, Keys(b)[k]))]
           pairs == FlattenSeq(groups)
           found == [i \in DOMAIN pairs |-> Compare(pairs[i][1], pairs[i][2])]
<1>1. IsList(Keys(b)) /\ ToSet(Keys(b)) = {r.endpoint : r \in ToSet(b)}
  BY KeySet
<1>2. groups = [k \in DOMAIN Keys(b) |-> groups[k]]
      /\ \A k \in DOMAIN Keys(b) : groups[k] = BuildPairs(Group(b, Keys(b)[k]))
  OBVIOUS
<1>3. found = [i \in DOMAIN pairs |-> found[i]]
      /\ \A i \in DOMAIN pairs : found[i] = Compare(pairs[i][1], pairs[i][2])
  OBVIOUS
<1>4. DiffsOf(b) = found
  BY DEF DiffsOf
<1> HIDE DEF found, groups
<1>5. IsList(groups) /\ DOMAIN groups = DOMAIN Keys(b)
  BY <1>1, <1>2, ListMap
<1>6. \A r \in ToSet(b) : IsList(BuildPairs(Group(b, r.endpoint)))
  <2> TAKE r \in ToSet(b)
  <2>1. IsList(Group(b, r.endpoint)) /\ r \in ToSet(Group(b, r.endpoint))
    BY GroupSet
  <2>2. Group(b, r.endpoint) # <<>>
    BY <2>1, Tuples
  <2> QED BY <2>1, <2>2, GroupPairs
<1>7. \A k \in DOMAIN Keys(b) : \E r \in ToSet(b) : Keys(b)[k] = r.endpoint
  <2>1. \A k \in DOMAIN Keys(b) : Keys(b)[k] \in ToSet(Keys(b))
    BY DEF ToSet
  <2> QED BY <1>1, <2>1
<1>8. \A r \in ToSet(b) : \E k \in DOMAIN Keys(b) : Keys(b)[k] = r.endpoint
  <2>1. \A x \in ToSet(Keys(b)) : \E k \in DOMAIN Keys(b) : Keys(b)[k] = x
    BY DEF ToSet
  <2> QED BY <1>1, <2>1
<1>9. \A k \in DOMAIN groups : IsList(groups[k])
  BY <1>2, <1>5, <1>6, <1>7
<1>10. IsList(pairs) /\ ToSet(pairs) = UNION {ToSet(groups[k]) : k \in DOMAIN groups}
  BY <1>5, <1>9, Flattened
<1>11. UNION {ToSet(groups[k]) : k \in DOMAIN groups} = PairsOf(b)
  <2>1. ASSUME NEW k \in DOMAIN groups
        PROVE  \E r \in ToSet(b) : groups[k] = BuildPairs(Group(b, r.endpoint))
    BY <1>2, <1>5, <1>7
  <2>2. ASSUME NEW r \in ToSet(b)
        PROVE  \E k \in DOMAIN groups : groups[k] = BuildPairs(Group(b, r.endpoint))
    BY <1>2, <1>5, <1>8
  <2> QED BY <2>1, <2>2 DEF PairsOf
<1> HIDE DEF pairs
<1>12. IsList(found) /\ DOMAIN found = DOMAIN pairs
  BY <1>3, <1>10, ListMap
<1>13. ToSet(found) = {Compare(p[1], p[2]) : p \in ToSet(pairs)}
  BY <1>3, <1>12 DEF ToSet
<1> QED BY <1>4, <1>10, <1>11, <1>12, <1>13

\* An administrator's response and another one of the same endpoint are compared.
LEMMA Compared ==
  ASSUME NEW b, IsList(b), NEW x \in ToSet(b), NEW y \in ToSet(b),
         x.endpoint = y.endpoint, IsReference(x), ~IsReference(y)
  PROVE  Compare(x, y) \in ToSet(DiffsOf(b))
<1> DEFINE g == Group(b, x.endpoint)
<1>1. IsList(g) /\ x \in ToSet(g) /\ y \in ToSet(g)
  BY GroupSet
<1>2. g # <<>>
  BY <1>1, Tuples
<1>3. <<x, y>> \in ToSet(BuildPairs(g))
  BY <1>1, <1>2, GroupPairs
<1>4. <<x, y>> \in PairsOf(b)
  BY <1>3 DEF PairsOf
<1>5. ToSet(DiffsOf(b)) = {Compare(p[1], p[2]) : p \in PairsOf(b)}
  BY DiffSet
<1> QED BY <1>4, <1>5

\* With an administrator's response wherever two can be compared, these are all.
HasReference(b) ==
  \A key \in {r.endpoint : r \in ToSet(b)} :
    \/ \A r, q \in ToSet(b) : r.endpoint = key /\ q.endpoint = key => r = q
    \/ \E r \in ToSet(b) : r.endpoint = key /\ IsReference(r)
LEMMA AllCompared ==
  ASSUME NEW b, IsList(b), HasReference(b)
  PROVE  PairsOf(b) = {p \in ToSet(b) \X ToSet(b) : p[1].endpoint = p[2].endpoint
                                                    /\ IsReference(p[1]) /\ ~IsReference(p[2])}
<1> DEFINE all == {p \in ToSet(b) \X ToSet(b) : p[1].endpoint = p[2].endpoint
                                                /\ IsReference(p[1]) /\ ~IsReference(p[2])}
<1>1. ASSUME NEW r \in ToSet(b)
      PROVE  ToSet(BuildPairs(Group(b, r.endpoint))) = {p \in all : p[1].endpoint = r.endpoint}
  <2> DEFINE g == Group(b, r.endpoint)
  <2>1. IsList(g) /\ ToSet(g) = {q \in ToSet(b) : q.endpoint = r.endpoint}
    BY GroupSet
  <2>2. g # <<>>
    BY <2>1, Tuples
  <2> HIDE DEF g
  <2>3. CASE \E q \in ToSet(g) : IsReference(q)
    <3>1. ToSet(BuildPairs(g)) = {p \in ToSet(g) \X ToSet(g) : IsReference(p[1]) /\ ~IsReference(p[2])}
      BY <2>1, <2>2, <2>3, GroupPairs
    <3> QED BY <2>1, <3>1 DEF g
  <2>4. CASE ~\E q \in ToSet(g) : IsReference(q)
    <3>1. \A q, s \in ToSet(g) : q = s
      BY <2>1, <2>4 DEF HasReference
    <3>2. ToSet(BuildPairs(g)) = {}
      BY <2>1, <2>2, <3>1, GroupPairs
    <3>3. {p \in all : p[1].endpoint = r.endpoint} = {}
      BY <2>1, <2>4
    <3> QED BY <3>2, <3>3 DEF g
  <2> QED BY <2>3, <2>4
<1>2. PairsOf(b) = UNION {{p \in all : p[1].endpoint = r.endpoint} : r \in ToSet(b)}
  BY <1>1 DEF PairsOf
<1> QED BY <1>2

\* An anomalous comparison becomes one issue for each checker that finds something.
Issue(c, d) == [type |-> c.type, severity |-> c.severity, diff |-> d]
LEMMA Classified ==
  ASSUME NEW d
  PROVE  /\ IsList(Classify(d))
         /\ ToSet(Classify(d)) = IF d.anomaly THEN {Issue(c, d) : c \in {x \in ToSet(Checkers(d)) : x.found}}
                                 ELSE {}
<1> DEFINE cs == Checkers(d)
           I == {i \in DOMAIN cs : cs[i].found}
           kept == Picked(cs, I)
           made == [i \in DOMAIN kept |-> Issue(kept[i], d)]
<1>1. IsList(cs)
  BY LongTuples DEF Checkers
<1> HIDE DEF cs
<1>2. IsList(kept) /\ ToSet(kept) = {cs[i] : i \in DOMAIN cs \cap I}
  BY <1>1, PickedMembers
<1>3. {cs[i] : i \in DOMAIN cs \cap I} = {x \in ToSet(cs) : x.found}
  BY DEF ToSet
<1>4. Classify(d) = IF ~d.anomaly THEN <<>> ELSE made
  BY DEF Classify, Issue, cs
<1>5. made = [i \in DOMAIN kept |-> made[i]] /\ \A i \in DOMAIN kept : made[i] = Issue(kept[i], d)
  OBVIOUS
<1> HIDE DEF kept, made
<1>6. IsList(made) /\ DOMAIN made = DOMAIN kept
  BY <1>2, <1>5, ListMap
<1>7. ToSet(made) = {Issue(c, d) : c \in ToSet(kept)}
  BY <1>5, <1>6 DEF ToSet
<1>8. ToSet(made) = {Issue(c, d) : c \in {x \in ToSet(cs) : x.found}}
  BY <1>2, <1>3, <1>7
<1> QED BY <1>4, <1>6, <1>8, Tuples DEF cs

\* What the checkers for data, function and tenant find, with a severity that the report
\* sorts by.
LEMMA Checked ==
  ASSUME NEW d
  PROVE  /\ Bola(d) => \E c \in ToSet(Checkers(d)) : c.found /\ c.type = "BOLA"
         /\ Bfla(d) => \E c \in ToSet(Checkers(d)) : c.found /\ c.type = "BFLA"
         /\ TenantLeak(d) => \E c \in ToSet(Checkers(d)) : c.found
         /\ \A c \in ToSet(Checkers(d)) : c.severity \in ToSet(Severities)
<1> DEFINE cs == Checkers(d)
<1>1. /\ DOMAIN cs = 1..6
      /\ cs[2].found = TenantLeak(d)
      /\ cs[3].found = Bola(d) /\ cs[3].type = "BOLA" /\ cs[3].severity = BolaSeverity(d)
      /\ cs[4].found = Bfla(d) /\ cs[4].type = "BFLA" /\ cs[4].severity = BflaSeverity(d)
      /\ cs[1].severity = "CRITICAL" /\ cs[2].severity = "CRITICAL"
      /\ cs[5].severity = "HIGH" /\ cs[6].severity = "MEDIUM"
  BY DEF Checkers
<1>2. ToSet(Severities) = {"CRITICAL", "HIGH", "MEDIUM", "LOW", "INFO"}
  BY DEF Severities, ToSet
<1>3. BolaSeverity(d) \in {"CRITICAL", "HIGH", "MEDIUM"}
  BY DEF BolaSeverity
<1>4. BflaSeverity(d) \in {"CRITICAL", "HIGH", "MEDIUM"}
  <2> DEFINE hints == {x \in {Destructive, AdminPath} : d.a.endpoint \in x}
  <2>1. CASE hints = {}
    BY <2>1 DEF BflaSeverity
  <2>2. CASE hints # {} /\ d.a.endpoint \in Destructive \cap AdminPath
    BY <2>2 DEF BflaSeverity
  <2>3. CASE hints # {} /\ d.a.endpoint \notin Destructive \cap AdminPath
    BY <2>3 DEF BflaSeverity
  <2> QED BY <2>1, <2>2, <2>3
<1> HIDE DEF cs
<1>5. \A i \in 1..6 : cs[i].severity \in ToSet(Severities)
  BY <1>1, <1>2, <1>3, <1>4
<1>6. \A i \in 1..6 : cs[i] \in ToSet(cs)
  BY <1>1 DEF ToSet
<1>7. \A c \in ToSet(cs) : c.severity \in ToSet(Severities)
  BY <1>1, <1>5 DEF ToSet
<1>8. 2 \in 1..6 /\ 3 \in 1..6 /\ 4 \in 1..6
  OBVIOUS
<1> QED BY <1>1, <1>6, <1>7, <1>8 DEF cs

\* The issues of a list of comparisons.
LEMMA IssueSet ==
  ASSUME NEW ds, IsList(ds)
  PROVE  IsList(IssuesOf(ds)) /\ ToSet(IssuesOf(ds)) = UNION {ToSet(Classify(d)) : d \in ToSet(ds)}
<1> DEFINE parts == [i \in DOMAIN ds |-> Classify(ds[i])]
<1>1. IssuesOf(ds) = FlattenSeq(parts)
  BY DEF IssuesOf
<1>2. parts = [i \in DOMAIN ds |-> parts[i]] /\ \A i \in DOMAIN ds : parts[i] = Classify(ds[i])
  OBVIOUS
<1> HIDE DEF parts
<1>3. IsList(parts) /\ DOMAIN parts = DOMAIN ds
  BY <1>2, ListMap
<1>4. \A i \in DOMAIN parts : IsList(parts[i])
  BY <1>2, <1>3, Classified
<1>5. IsList(FlattenSeq(parts)) /\ ToSet(FlattenSeq(parts)) = UNION {ToSet(parts[i]) : i \in DOMAIN parts}
  BY <1>3, <1>4, Flattened
<1>6. UNION {ToSet(parts[i]) : i \in DOMAIN parts} = UNION {ToSet(Classify(d)) : d \in ToSet(ds)}
  BY <1>2, <1>3 DEF ToSet
<1> QED BY <1>1, <1>5, <1>6

\* The report sorts the issues and loses none that has one of the severities.
LEMMA Reported ==
  ASSUME NEW is, IsList(is), NEW b, NEW ds
  PROVE  ToSet(BuildReport(is, b, ds).issues) = {x \in ToSet(is) : x.severity \in ToSet(Severities)}
<1> DEFINE parts == [k \in DOMAIN Severities |-> With(is, Severities[k])]
<1>1. BuildReport(is, b, ds).issues = FlattenSeq(parts)
  BY DEF BuildReport
<1>2. parts = [k \in DOMAIN Severities |-> parts[k]]
      /\ \A k \in DOMAIN Severities : parts[k] = With(is, Severities[k])
  OBVIOUS
<1> HIDE DEF parts
<1>3. IsList(Severities)
  BY LongTuples DEF Severities
<1>4. IsList(parts) /\ DOMAIN parts = DOMAIN Severities
  BY <1>2, <1>3, ListMap
<1>5. ASSUME NEW s
      PROVE  IsList(With(is, s)) /\ ToSet(With(is, s)) = {x \in ToSet(is) : x.severity = s}
  <2> DEFINE I == {i \in DOMAIN is : is[i].severity = s}
  <2>1. IsList(Picked(is, I)) /\ ToSet(Picked(is, I)) = {is[i] : i \in DOMAIN is \cap I}
    BY PickedMembers
  <2>2. {is[i] : i \in DOMAIN is \cap I} = {x \in ToSet(is) : x.severity = s}
    BY DEF ToSet
  <2> QED BY <2>1, <2>2 DEF With
<1>6. \A k \in DOMAIN parts : IsList(parts[k]) /\ ToSet(parts[k]) = {x \in ToSet(is) : x.severity = Severities[k]}
  BY <1>2, <1>4, <1>5
<1>7. ToSet(FlattenSeq(parts)) = UNION {ToSet(parts[k]) : k \in DOMAIN parts}
  BY <1>4, <1>6, Flattened
<1>8. UNION {ToSet(parts[k]) : k \in DOMAIN parts} = {x \in ToSet(is) : x.severity \in ToSet(Severities)}
  BY <1>4, <1>6 DEF ToSet
<1> QED BY <1>1, <1>7, <1>8

\* An anomaly of two responses in which a checker finds something is in the report.
LEMMA InReport ==
  ASSUME NEW b, IsList(b), NEW ds, NEW d \in ToSet(DiffsOf(b)), d.anomaly,
         NEW c \in ToSet(Checkers(d)), c.found
  PROVE  \E i \in DOMAIN BuildReport(IssuesOf(DiffsOf(b)), b, ds).issues :
            BuildReport(IssuesOf(DiffsOf(b)), b, ds).issues[i] = Issue(c, d)
<1> DEFINE is == IssuesOf(DiffsOf(b))
<1>1. IsList(is) /\ ToSet(is) = UNION {ToSet(Classify(x)) : x \in ToSet(DiffsOf(b))}
  BY DiffSet, IssueSet
<1>2. Issue(c, d) \in ToSet(Classify(d))
  BY Classified
<1>3. Issue(c, d) \in ToSet(is) /\ Issue(c, d).severity \in ToSet(Severities)
  BY <1>1, <1>2, Checked DEF Issue
<1> HIDE DEF is
<1>4. Issue(c, d) \in ToSet(BuildReport(is, b, ds).issues)
  BY <1>1, <1>3, Reported
<1> QED BY <1>4 DEF is, ToSet

\* A pair that the diff engine takes for a breach is one for the classifier, too: what
\* reaches the threshold still reaches 0.65 after the rounding.
LEMMA Breach ==
  ASSUME NEW a, NEW b, {a.body, b.body} \subseteq Body \cup {NoBody}, a.user # b.user
  PROVE  /\ SameData(a, b) => Compare(a, b).anomaly /\ Bola(Compare(a, b))
         /\ Restricted(a, b) => Compare(a, b).anomaly /\ Bfla(Compare(a, b))
         /\ IdsShared(a, b) /\ a.tenant = NoTenant => Compare(a, b).anomaly /\ TenantLeak(Compare(a, b))
<1> DEFINE d == Compare(a, b)
<1>1. /\ d.a = a /\ d.b = b /\ d.similarity = Rounded(BodySimilarity(a, b))
      /\ d.foreign = ForeignIds(a, b) /\ d.anomaly = IsAnomaly(a, b)
  BY DEF Compare
<1> HIDE DEF d
<1>2. BodySimilarity(a, b) \in Nat
  <2>1. a.body # NoBody /\ b.body # NoBody => Ratio[<<a.body, b.body>>] \in Nat
    BY AnalysisAssumption
  <2>2. CASE a.body = NoBody /\ b.body = NoBody
    BY SMT, <2>2 DEF BodySimilarity
  <2>3. CASE a.body # NoBody /\ b.body # NoBody
    BY SMT, <2>1, <2>3 DEF BodySimilarity
  <2>4. CASE (a.body = NoBody) # (b.body = NoBody)
    BY SMT, <2>4 DEF BodySimilarity
  <2> QED BY <2>2, <2>3, <2>4
<1>3. ASSUME NEW r \in Nat, r >= 65000 PROVE Rounded(r) >= 6500
  BY SMT, <1>3 DEF Rounded
<1>4. SameData(a, b) => d.anomaly /\ Bola(d)
  <2> SUFFICES ASSUME SameData(a, b) PROVE d.anomaly /\ Bola(d)
    OBVIOUS
  <2>1. BodySimilarity(a, b) >= 65000
    BY SMT, <1>2, AnalysisAssumption DEF SameData
  <2>2. d.similarity >= 6500
    BY SMT, <1>1, <1>2, <1>3, <2>1
  <2>3. d.a.status = 200 /\ d.b.status = 200 /\ d.a.user # d.b.user /\ d.anomaly
    BY <1>1 DEF SameData, IsAnomaly
  <2> QED BY SMT, <2>2, <2>3 DEF Bola
<1>5. Restricted(a, b) => d.anomaly /\ Bfla(d)
  BY <1>1 DEF Restricted, IsAnomaly, Bfla
<1>6. IdsShared(a, b) /\ a.tenant = NoTenant => d.anomaly /\ TenantLeak(d)
  BY <1>1 DEF IdsShared, IsAnomaly, TenantLeak
<1> QED BY <1>4, <1>5, <1>6 DEF d

\* What the collector has found belongs to the buffer as it was last processed.
CollectorInv ==
  /\ buffer \in Seq(Response)
  /\ seen \in Nat /\ seen <= Len(buffer)
  /\ seen = Len(buffer) /\ issues # <<>> => issues = IssuesOf(DiffsOf(buffer))

\* A response moves the buffer on, a processing catches up with it.
LEMMA CollectorInvariant == CollectorSpec => []CollectorInv
<1>1. CollectorInit => CollectorInv
  BY DEF CollectorInit, CollectorInv
<1>2. CollectorInv /\ [CollectorNext]_collectorVars => CollectorInv'
  <2> SUFFICES ASSUME CollectorInv, [CollectorNext]_collectorVars PROVE CollectorInv'
    OBVIOUS
  <2> USE DEF CollectorInv
  <2>1. ASSUME NEW r \in Incoming, OnResult(r) PROVE CollectorInv'
    <3>1. buffer' \in Seq(Response) /\ Len(buffer') = Len(buffer) + 1
      BY <2>1, CollectorAssumption DEF OnResult
    <3>2. seen' = seen /\ Len(buffer) \in Nat
      BY <2>1 DEF OnResult
    <3> QED BY <3>1, <3>2
  <2>2. ASSUME Process, UNCHANGED buffer PROVE CollectorInv'
    <3>1. Len(buffer) \in Nat
      OBVIOUS
    <3> QED BY <2>2, <3>1 DEF Process
  <2>3. CASE ProcessBuffered
    BY <2>2, <2>3 DEF ProcessBuffered
  <2>4. CASE Flush
    <3>1. CASE Unprocessed
      BY <2>2, <2>4, <3>1 DEF Flush
    <3>2. CASE ~Unprocessed
      BY <2>4, <3>2 DEF Flush
    <3> QED BY <3>1, <3>2
  <2>5. CASE Reset
    BY <2>5 DEF Reset
  <2>6. CASE UNCHANGED collectorVars
    BY <2>6 DEF collectorVars
  <2> QED BY <2>1, <2>3, <2>4, <2>5, <2>6 DEF CollectorNext
<1> QED BY <1>1, <1>2, PTL DEF CollectorSpec

\* A report names every pair of responses in which an administrator's data reach another
\* user, or another user gets what an administrator is refused: ReportNamesEveryBreach, for
\* any bodies, similarities and identities, and whatever was processed before.
THEOREM EveryBreachIsNamed == CollectorSpec => ReportNamesEveryBreach
<1> DEFINE Named(a, b) == /\ SameAnswer(a, b) => Found(report'.issues, "BOLA", a, b)
                          /\ Reversed(a, b)   => Found(report'.issues, "BFLA", a, b)
<1>1. ASSUME CollectorInv, Flush, issues = <<>> \/ seen = Len(buffer),
             NEW i \in DOMAIN buffer, NEW j \in DOMAIN buffer,
             buffer[i].endpoint = buffer[j].endpoint, buffer[i].user # buffer[j].user,
             buffer[i].role = "admin", buffer[j].role # "admin"
      PROVE  Named(buffer[i], buffer[j])
  <2> DEFINE a == buffer[i]
             b == buffer[j]
             d == Compare(a, b)
  <2>1. issues' = IssuesOf(DiffsOf(buffer))
    BY <1>1 DEF Flush, Unprocessed, Process, CollectorInv
  <2>2. report' = BuildReport(IssuesOf(DiffsOf(buffer)), buffer, diffs')
    BY <1>1, <2>1 DEF Flush
  <2>3. IsList(buffer) /\ a \in ToSet(buffer) /\ b \in ToSet(buffer)
    BY <1>1, ListOf DEF CollectorInv, ToSet
  <2>4. a \in Response /\ b \in Response
    BY <1>1 DEF CollectorInv
  <2>5. {a.body, b.body} \subseteq Body \cup {NoBody}
    BY <2>4 DEF Response
  <2>6. d \in ToSet(DiffsOf(buffer))
    BY <1>1, <2>3, Compared DEF IsReference
  <2>7. d.a = a /\ d.b = b
    BY DEF Compare
  <2>8. ASSUME NEW c \in ToSet(Checkers(d)), c.found, d.anomaly
        PROVE  Found(report'.issues, c.type, a, b)
    <3>1. PICK k \in DOMAIN report'.issues : report'.issues[k] = Issue(c, d)
      BY <2>2, <2>3, <2>6, <2>8, InReport
    <3>2. Issue(c, d).type = c.type /\ Issue(c, d).diff = d
      BY DEF Issue
    <3> QED BY <2>7, <3>1, <3>2 DEF Found
  <2>9. /\ SameAnswer(a, b) => d.anomaly /\ Bola(d)
        /\ Reversed(a, b) => d.anomaly /\ Bfla(d)
    <3>1. SameAnswer(a, b) => SameData(a, b)
      BY DEF SameAnswer, SameData, BodySimilarity
    <3>2. Reversed(a, b) => Restricted(a, b)
      BY DEF Reversed, Restricted
    <3> QED BY <1>1, <2>5, <3>1, <3>2, Breach
  <2> HIDE DEF a, b, d
  <2>10. Named(a, b)
    BY <2>8, <2>9, Checked
  <2> QED BY <2>10 DEF a, b
<1> DEFINE Step == Flush /\ (issues = <<>> \/ seen = Len(buffer)) =>
                     \A i, j \in DOMAIN buffer :
                       LET a == buffer[i]
                           b == buffer[j]
                       IN  /\ a.endpoint = b.endpoint /\ a.user # b.user
                           /\ a.role = "admin" /\ b.role # "admin"
                           => /\ SameAnswer(a, b) => Found(report'.issues, "BOLA", a, b)
                              /\ Reversed(a, b)   => Found(report'.issues, "BFLA", a, b)
<1>2. CollectorInv /\ [CollectorNext]_collectorVars => [Step]_collectorVars
  BY <1>1
<1> QED BY <1>2, CollectorInvariant, PTL DEF CollectorSpec, ReportNamesEveryBreach

\* A rearrangement of places reaches every place.
LEMMA Rearranged ==
  ASSUME NEW S, NEW p \in Bijection(S, S)
  PROVE  p \in [S -> S] /\ \A i \in S : \E j \in S : p[j] = i
BY DEF Bijection, Injection, Surjection

\* The findings do not depend on the order of the responses, if there is an
\* administrator's wherever two can be compared: OrderIndependent, for buffers of any length.
THEOREM FindingsUnordered == CollectorSpec => []OrderIndependent
<1>1. ASSUME NEW b, IsList(b), NEW c, IsList(c), ToSet(b) = ToSet(c), HasReference(b)
      PROVE  ToSet(IssuesOf(DiffsOf(b))) = ToSet(IssuesOf(DiffsOf(c)))
  <2>1. HasReference(c)
    BY <1>1 DEF HasReference
  <2>2. PairsOf(b) = PairsOf(c)
    BY <1>1, <2>1, AllCompared
  <2>3. ToSet(DiffsOf(b)) = ToSet(DiffsOf(c)) /\ IsList(DiffsOf(b)) /\ IsList(DiffsOf(c))
    BY <1>1, <2>2, DiffSet
  <2> QED BY <2>3, IssueSet
<1>2. CollectorInv => OrderIndependent
  <2> SUFFICES ASSUME CollectorInv PROVE OrderIndependent
    OBVIOUS
  <2> DEFINE Divided == \A key \in {buffer[i].endpoint : i \in DOMAIN buffer} :
                          Len(Group(buffer, key)) < 2 \/ \E i \in DOMAIN buffer :
                                                           buffer[i].endpoint = key /\ IsReference(buffer[i])
  <2>1. IsList(buffer)
    BY ListOf DEF CollectorInv
  <2>2. ASSUME Divided PROVE HasReference(buffer)
    <3> SUFFICES ASSUME NEW r \in ToSet(buffer),
                        ~\E q \in ToSet(buffer) : q.endpoint = r.endpoint /\ IsReference(q)
                 PROVE  \A s, q \in ToSet(buffer) :
                          s.endpoint = r.endpoint /\ q.endpoint = r.endpoint => s = q
      BY DEF HasReference
    <3> DEFINE g == Group(buffer, r.endpoint)
    <3>1. PICK k \in DOMAIN buffer : r = buffer[k]
      BY DEF ToSet
    <3>2. Len(g) < 2
      BY <2>2, <3>1 DEF ToSet
    <3>3. IsList(g) /\ ToSet(g) = {q \in ToSet(buffer) : q.endpoint = r.endpoint}
      BY <2>1, GroupSet
    <3> HIDE DEF g
    <3>4. Len(g) \in Nat /\ DOMAIN g = 1..Len(g)
      BY <3>3, ListShape
    <3>5. \A s, q \in ToSet(g) : s = q
      BY <3>2, <3>4 DEF ToSet
    <3> QED BY <3>3, <3>5
  <2>3. ASSUME HasReference(buffer), NEW p \in Bijection(DOMAIN buffer, DOMAIN buffer)
        PROVE  ToSet(IssuesOf(DiffsOf([i \in DOMAIN buffer |-> buffer[p[i]]]))) =
                 ToSet(IssuesOf(DiffsOf(buffer)))
    <3> DEFINE c == [i \in DOMAIN buffer |-> buffer[p[i]]]
    <3>1. p \in [DOMAIN buffer -> DOMAIN buffer] /\ \A i \in DOMAIN buffer : \E j \in DOMAIN buffer : p[j] = i
      BY Rearranged
    <3>2. c = [i \in DOMAIN buffer |-> c[i]] /\ \A i \in DOMAIN buffer : c[i] = buffer[p[i]]
      OBVIOUS
    <3> HIDE DEF c
    <3>3. IsList(c) /\ DOMAIN c = DOMAIN buffer
      BY <2>1, <3>2, ListMap
    <3>4. ToSet(c) = ToSet(buffer)
      BY <3>1, <3>2, <3>3 DEF ToSet
    <3>5. ToSet(IssuesOf(DiffsOf(c))) = ToSet(IssuesOf(DiffsOf(buffer)))
      BY <1>1, <2>1, <2>3, <3>3, <3>4
    <3> QED BY <3>5 DEF c
  <2> QED BY <2>2, <2>3 DEF OrderIndependent
<1> QED BY <1>2, CollectorInvariant, PTL

\* The comparisons that the role swaps of a group show.
LEMMA CrossedSet ==
  ASSUME NEW g, IsList(g), g # <<>>
  PROVE  /\ IsList(Crossed(g))
         /\ \A d \in ToSet(Crossed(g)) :
              \E a \in ToSet(References(g)), b \in ToSet(Challengers(g)) : d = Compare(a, b)
<1> DEFINE rs == References(g)
           cs == Challengers(g)
           rows == [i \in DOMAIN rs |-> [j \in DOMAIN cs |-> Compare(rs[i], cs[j])]]
<1>1. IsList(rs) /\ IsList(cs)
  BY Parties
<1>2. Crossed(g) = FlattenSeq(rows)
  BY DEF Crossed
<1> HIDE DEF rs, cs
<1>3. rows = [i \in DOMAIN rs |-> rows[i]]
      /\ \A i \in DOMAIN rs : rows[i] = [j \in DOMAIN cs |-> Compare(rs[i], cs[j])]
  OBVIOUS
<1> HIDE DEF rows
<1>4. IsList(rows) /\ DOMAIN rows = DOMAIN rs
  BY <1>1, <1>3, ListMap
<1>5. ASSUME NEW i \in DOMAIN rs
      PROVE  /\ IsList(rows[i])
             /\ \A d \in ToSet(rows[i]) : \E j \in DOMAIN cs : d = Compare(rs[i], cs[j])
  <2> DEFINE r == rows[i]
  <2>1. r = [j \in DOMAIN cs |-> r[j]] /\ \A j \in DOMAIN cs : r[j] = Compare(rs[i], cs[j])
    BY <1>3
  <2> HIDE DEF r
  <2>2. IsList(r) /\ DOMAIN r = DOMAIN cs
    BY <1>1, <2>1, ListMap
  <2>3. \A d \in ToSet(r) : \E j \in DOMAIN cs : d = Compare(rs[i], cs[j])
    BY <2>1, <2>2 DEF ToSet
  <2> QED BY <2>2, <2>3 DEF r
<1>6. IsList(FlattenSeq(rows)) /\ ToSet(FlattenSeq(rows)) = UNION {ToSet(rows[i]) : i \in DOMAIN rows}
  BY <1>4, <1>5, Flattened
<1>7. \A d \in UNION {ToSet(rows[i]) : i \in DOMAIN rows} :
         \E a \in ToSet(rs), b \in ToSet(cs) : d = Compare(a, b)
  BY <1>4, <1>5 DEF ToSet
<1> QED BY <1>2, <1>6, <1>7 DEF rs, cs

\* An administrator's response that the role swaps compare is compared with another
\* user's, and both come from tasks with a status code.
Shows(v, t) == t \in Rows(v) /\ CodeOf(t, v.rows[t]) # NoCode
LEMMA SwapShown ==
  ASSUME NEW v, NEW order, IsList(order), NEW d \in ToSet(Swaps(v, order)), d.a.role = "admin"
  PROVE  /\ d = Compare(d.a, d.b) /\ d.b.role # "admin"
         /\ \E t \in ToSet(order) : Shows(v, t) /\ d.a = SwapResponse(v, t)
         /\ \E u \in ToSet(order) : Shows(v, u) /\ d.b = SwapResponse(v, u)
<1> DEFINE I == {i \in DOMAIN order : Shows(v, order[i])}
           fed == Picked(order, I)
           b == [i \in DOMAIN fed |-> SwapResponse(v, fed[i])]
           parts == [k \in DOMAIN Keys(b) |-> Crossed(Group(b, Keys(b)[k]))]
<1>1. Swaps(v, order) = FlattenSeq(parts)
  BY DEF Swaps, Shows
<1>2. b = [i \in DOMAIN fed |-> b[i]] /\ \A i \in DOMAIN fed : b[i] = SwapResponse(v, fed[i])
  OBVIOUS
<1>3. parts = [k \in DOMAIN Keys(b) |-> parts[k]]
      /\ \A k \in DOMAIN Keys(b) : parts[k] = Crossed(Group(b, Keys(b)[k]))
  OBVIOUS
<1> HIDE DEF parts, b
<1>4. IsList(fed) /\ ToSet(fed) = {order[i] : i \in DOMAIN order \cap I}
  BY PickedMembers
<1>5. \A t \in ToSet(fed) : t \in ToSet(order) /\ Shows(v, t)
  BY <1>4 DEF ToSet
<1> HIDE DEF fed
<1>6. IsList(b) /\ DOMAIN b = DOMAIN fed
  BY <1>2, <1>4, ListMap
<1>7. \A r \in ToSet(b) : \E t \in ToSet(order) : Shows(v, t) /\ r = SwapResponse(v, t)
  BY <1>2, <1>5, <1>6 DEF ToSet
<1>8. IsList(Keys(b)) /\ ToSet(Keys(b)) = {r.endpoint : r \in ToSet(b)}
  BY <1>6, KeySet
<1>9. IsList(parts) /\ DOMAIN parts = DOMAIN Keys(b)
  BY <1>3, <1>8, ListMap
<1>10. ASSUME NEW k \in DOMAIN Keys(b)
       PROVE  LET g == Group(b, Keys(b)[k]) IN IsList(g) /\ g # <<>> /\ ToSet(g) \subseteq ToSet(b)
  <2>1. Keys(b)[k] \in ToSet(Keys(b))
    BY DEF ToSet
  <2>2. PICK r \in ToSet(b) : Keys(b)[k] = r.endpoint
    BY <1>8, <2>1
  <2>3. IsList(Group(b, r.endpoint)) /\ r \in ToSet(Group(b, r.endpoint)) /\ ToSet(Group(b, r.endpoint)) \subseteq ToSet(b)
    BY <1>6, GroupSet
  <2>4. Group(b, r.endpoint) # <<>>
    BY <2>3, Tuples
  <2> QED BY <2>2, <2>3, <2>4
<1>11. \A k \in DOMAIN parts : IsList(parts[k])
  BY <1>3, <1>9, <1>10, CrossedSet
<1>12. ToSet(FlattenSeq(parts)) = UNION {ToSet(parts[k]) : k \in DOMAIN parts}
  BY <1>9, <1>11, Flattened
<1>13. PICK k \in DOMAIN Keys(b) : d \in ToSet(Crossed(Group(b, Keys(b)[k])))
  BY <1>1, <1>3, <1>9, <1>12
<1> DEFINE g == Group(b, Keys(b)[k])
<1>14. IsList(g) /\ g # <<>> /\ ToSet(g) \subseteq ToSet(b)
  BY <1>10
<1>15. PICK x \in ToSet(References(g)), y \in ToSet(Challengers(g)) : d = Compare(x, y)
  BY <1>13, <1>14, CrossedSet
<1>16. d.a = x /\ d.b = y
  BY <1>15 DEF Compare
<1> HIDE DEF g
<1>17. x \in ToSet(g) /\ y \in ToSet(g) /\ IsReference(x)
  BY <1>14, <1>16, Parties DEF IsReference
<1>18. ~IsReference(y)
  BY <1>14, <1>17, Parties
<1> QED BY <1>7, <1>14, <1>15, <1>16, <1>17, <1>18 DEF IsReference

\* A list of all members of a set has them all.
LEMMA AllListed ==
  ASSUME NEW S, IsFiniteSet(S), NEW s \in SetToSeqs(S)
  PROVE  IsList(s) /\ ToSet(s) = S
<1> DEFINE n == Cardinality(S)
<1>1. n \in Nat
  BY FS_CardinalityType
<1>2. s \in [1..n -> S] /\ \A i, j \in 1..n : i # j => s[i] # s[j]
  BY DEF SetToSeqs
<1> HIDE DEF n
<1>3. s \in Injection(1..n, S) /\ Cardinality(1..n) = n
  <2>1. Cardinality(1..n) = IF 1 > n THEN 0 ELSE n - 1 + 1
    BY <1>1, FS_Interval, 1 \in Int, n \in Int
  <2>2. IsInjective(s)
    BY <1>2 DEF IsInjective
  <2> QED BY <1>1, <1>2, <2>1, <2>2 DEF Injection
<1>4. s \in Surjection(1..n, S)
  BY <1>3, FS_Injection DEF n
<1>5. \A x \in S : \E i \in 1..n : s[i] = x
  BY <1>4 DEF Surjection
<1>6. s \in Seq(S) /\ DOMAIN s = 1..n
  BY <1>1, <1>2
<1> QED BY <1>2, <1>5, <1>6, ListOf DEF ToSet

\* The report is made from the same tasks, under other identities.
LEMMA ReportBufferSet ==
  ASSUME NEW v, NEW order, IsList(order)
  PROVE  /\ IsList(ReportBuffer(v, order))
         /\ \A t \in ToSet(order) \cap Fed(v) : ReportResponse(v, t) \in ToSet(ReportBuffer(v, order))
<1> DEFINE I == {i \in DOMAIN order : order[i] \in Fed(v)}
           fed == Picked(order, I)
           b == [i \in DOMAIN fed |-> ReportResponse(v, fed[i])]
<1>1. ReportBuffer(v, order) = b
  BY DEF ReportBuffer
<1>2. b = [i \in DOMAIN fed |-> b[i]] /\ \A i \in DOMAIN fed : b[i] = ReportResponse(v, fed[i])
  OBVIOUS
<1> HIDE DEF b
<1>3. IsList(fed) /\ ToSet(fed) = {order[i] : i \in DOMAIN order \cap I}
  BY PickedMembers
<1>4. \A t \in ToSet(order) \cap Fed(v) : t \in ToSet(fed)
  BY <1>3 DEF ToSet
<1> HIDE DEF fed
<1>5. IsList(b) /\ DOMAIN b = DOMAIN fed
  BY <1>2, <1>3, ListMap
<1>6. \A t \in ToSet(order) \cap Fed(v) : ReportResponse(v, t) \in ToSet(b)
  BY <1>2, <1>4, <1>5 DEF ToSet
<1> QED BY <1>1, <1>5, <1>6

\* What differs between the two responses of a task is the key and, without a token, the
\* identity.
LEMMA SameTask ==
  ASSUME NEW v, NEW t
  PROVE  LET s == SwapResponse(v, t)
             r == ReportResponse(v, t)
         IN  /\ s.status = CodeOf(t, v.rows[t]) /\ r.status = s.status
             /\ r.body = s.body /\ s.body = content[t].body
             /\ r.tenant = NoTenant /\ s.tenant = NoTenant
             /\ r.endpoint = asked[t].url
             /\ r.user = ReportIdentity(asked[t].token).user
             /\ asked[t].token # NoToken => r.user = s.user /\ r.role = s.role
             /\ asked[t].token = NoToken => r.user = Unknown /\ r.role = "user" /\ s.role = "guest"
BY DEF SwapResponse, ReportResponse, TllResponse, SwapIdentity, ReportIdentity

\* Without tenants, what the diff engine compares are statuses and bodies, once the
\* users differ.
LEMMA SameVerdict ==
  ASSUME NEW a, NEW b, NEW x, NEW y, a.user # b.user, x.user # y.user,
         a.status = x.status, b.status = y.status, a.body = x.body, b.body = y.body,
         a.tenant = NoTenant, x.tenant = NoTenant
  PROVE  /\ SameData(a, b) => SameData(x, y)
         /\ IdsShared(a, b) => IdsShared(x, y)
         /\ Restricted(a, b) => Restricted(x, y)
<1>1. BodySimilarity(a, b) = BodySimilarity(x, y) /\ ForeignIds(a, b) = ForeignIds(x, y)
  BY DEF BodySimilarity, ForeignIds, DifferentTenant, IdsOf
<1> QED BY <1>1 DEF SameData, IdsShared, Restricted

\* What was answered about role swaps was computed from the session.
SwapsTold ==
  answer # <<>> /\ answer[1] = 200 /\ view.kind = "swaps" =>
    answer[2] \in SetToSeqs(view.tasks) /\ answer[3] = Swaps(view, answer[2])
SwapsInv == ViewsInv /\ content \in [Task -> Answering] /\ SwapsTold

\* After its answer a session does not move.
LEMMA SwapsStep == SwapsInv /\ [ViewsNext]_viewVars => SwapsInv'
<1> SUFFICES ASSUME SwapsInv, [ViewsNext]_viewVars PROVE SwapsTold' /\ content' \in [Task -> Answering]
  BY ViewsStep DEF SwapsInv
<1>1. content' = content /\ asked' = asked
  BY DEF ViewsNext, viewVars
<1>2. view.rest # <<>> => answer = <<>>
  BY DEF SwapsInv, ViewsInv, Told
<1>3. CASE Read /\ UNCHANGED answer
  <2>1. view.rest # <<>>
    BY <1>3 DEF Read, ReadScan, ReadTasks, ReadTask, ReadRow, ReadRows, CountTasks, ReadJoin, ReadDepth,
      SaveReport, Serving
  <2> QED BY <1>1, <1>2, <1>3, <2>1 DEF SwapsInv, SwapsTold
<1>4. CASE Work /\ UNCHANGED answer
  <2>1. ToSet(<<>>) = {}
    BY Tuples
  <2>2. view.rest # <<>>
    BY <1>4, <2>1 DEF Work
  <2> QED BY <1>1, <1>2, <1>4, <2>2 DEF SwapsInv, SwapsTold
<1>5. ASSUME NEW v, NEW order
      PROVE  view' = v /\ answer'[2] = order => Swaps(view, answer[2])' = Swaps(v, order)
  BY <1>1 DEF Swaps, SwapResponse, TllResponse, CodeOf
<1>6. CASE Reply
  <2>1. PICK order \in SetToSeqs(view.tasks) :
          answer' = IF HttpCode(view) = 200 THEN <<200, order, Answer(view, order)>>
                    ELSE <<HttpCode(view), order>>
    BY <1>6 DEF Reply
  <2>2. answer'[1] = 200 => answer'[2] = order /\ answer'[3] = Answer(view, order)
    BY <2>1
  <2>3. view.kind = "swaps" => Answer(view, order) = Swaps(view, order)
    BY DEF Answer
  <2>4. view' = view /\ answer = <<>>
    BY <1>6 DEF Reply
  <2> QED BY <1>1, <1>5, <2>2, <2>3, <2>4 DEF SwapsInv, SwapsTold
<1>7. CASE UNCHANGED viewVars
  <2>1. view' = view /\ answer' = answer
    BY <1>7 DEF viewVars
  <2> QED BY <1>1, <1>5, <2>1 DEF SwapsInv, SwapsTold
<1> QED BY <1>3, <1>4, <1>6, <1>7 DEF ViewsNext

\* Two computations of one comparison agree: what role-swaps shows as a bypass of an
\* administrator's response is an issue of the report on the same rows, for any requests,
\* tokens, answers and order of the tasks: SwapsAgreeWithReport.
THEOREM SwapsAlwaysAgree == ViewsSpec => []SwapsAgreeWithReport
<1>1. ViewsInit => SwapsInv
  BY ViewsInitInv DEF ViewsInit, SwapsInv, SwapsTold
<1>2. SwapsInv => SwapsAgreeWithReport
  <2> SUFFICES ASSUME SwapsInv, Answered({"swaps"}),
                      NEW t \in Rows(view), NEW u \in Rows(view),
                      asked[t].url = asked[u].url, ReportIdentity(asked[t].token).user # Unknown,
                      NEW k \in DOMAIN answer[3], answer[3][k].anomaly,
                      answer[3][k].a = SwapResponse(view, t), answer[3][k].b = SwapResponse(view, u),
                      SwapResponse(view, t).role = "admin"
               PROVE  \E i \in DOMAIN Report(view, answer[2]).issues :
                         /\ Report(view, answer[2]).issues[i].diff.a = ReportResponse(view, t)
                         /\ Report(view, answer[2]).issues[i].diff.b = ReportResponse(view, u)
    BY DEF SwapsAgreeWithReport
  <2> DEFINE order == answer[2]
             d == answer[3][k]
             a == SwapResponse(view, t)
             b == SwapResponse(view, u)
             x == ReportResponse(view, t)
             y == ReportResponse(view, u)
             buf == ReportBuffer(view, order)
             e == Compare(x, y)
  <2>1. view.tasks \subseteq Task /\ IsFiniteSet(view.tasks)
    BY ViewsAssumption, FS_Subset DEF SwapsInv, ViewsInv, ViewsTypeOK, ViewType
  <2>2. order \in SetToSeqs(view.tasks) /\ d \in ToSet(Swaps(view, order))
    BY DEF Answered, SwapsInv, SwapsTold, ToSet
  <2>3. IsList(order) /\ ToSet(order) = view.tasks
    BY <2>1, <2>2, AllListed
  <2>4. d.a = a /\ d.b = b /\ d.anomaly /\ a.role = "admin"
    OBVIOUS
  <2> HIDE DEF d, order
  <2>5. /\ d = Compare(a, b) /\ b.role # "admin"
        /\ \E w \in ToSet(order) : Shows(view, w) /\ a = SwapResponse(view, w)
        /\ \E w \in ToSet(order) : Shows(view, w) /\ b = SwapResponse(view, w)
    BY <2>2, <2>3, <2>4, SwapShown
  <2>6. a.status # NoCode /\ b.status # NoCode
    BY <2>5, SameTask DEF Shows
  <2>7. t \in ToSet(order) \cap Fed(view) /\ u \in ToSet(order) \cap Fed(view)
    BY <2>3, <2>6, SameTask DEF Fed, Rows
  <2>8. IsList(buf) /\ x \in ToSet(buf) /\ y \in ToSet(buf)
    BY <2>3, <2>7, ReportBufferSet
  <2>9. /\ x.endpoint = y.endpoint /\ x.user # Unknown /\ asked[t].token # NoToken
        /\ a.status = x.status /\ b.status = y.status /\ a.body = x.body /\ b.body = y.body
        /\ a.tenant = NoTenant /\ x.tenant = NoTenant
        /\ x.user = a.user /\ x.role = a.role
        /\ x.body = content[t].body /\ y.body = content[u].body
    BY <2>4, SameTask
  <2>10. y.role # "admin" /\ (a.user # b.user => x.user # y.user)
    <3>1. CASE asked[u].token = NoToken
      BY <2>9, <3>1, SameTask
    <3>2. CASE asked[u].token # NoToken
      BY <2>5, <2>9, <3>2, SameTask
    <3> QED BY <3>1, <3>2
  <2>11. {x.body, y.body} \subseteq Body \cup {NoBody}
    <3>1. t \in Task /\ u \in Task
      BY <2>1 DEF Rows
    <3>2. content[t] \in Answering /\ content[u] \in Answering
      BY <3>1 DEF SwapsInv
    <3> QED BY <2>9, <3>2, ViewsAssumption
  <2> HIDE DEF a, b, x, y, buf
  <2>12. IsAnomaly(a, b)
    <3>1. Compare(a, b).anomaly = IsAnomaly(a, b)
      BY DEF Compare
    <3> QED BY <2>4, <2>5, <3>1
  <2>13. x.user # y.user /\ (SameData(x, y) \/ IdsShared(x, y) \/ Restricted(x, y))
    <3>1. a.user # b.user /\ (SameData(a, b) \/ IdsShared(a, b) \/ Restricted(a, b))
      BY <2>12 DEF IsAnomaly
    <3> QED BY <2>9, <2>10, <3>1, SameVerdict
  <2>14. e.anomaly /\ (Bola(e) \/ TenantLeak(e) \/ Bfla(e))
    BY <2>9, <2>11, <2>13, Breach
  <2>15. PICK c \in ToSet(Checkers(e)) : c.found
    BY <2>14, Checked
  <2>16. e \in ToSet(DiffsOf(buf))
    BY <2>4, <2>8, <2>9, <2>10, Compared DEF IsReference
  <2>17. Report(view, order) = BuildReport(IssuesOf(DiffsOf(buf)), buf, DiffsOf(buf))
    BY DEF Report, buf
  <2>18. e.a = x /\ e.b = y
    BY DEF Compare
  <2> HIDE DEF e
  <2>19. PICK i \in DOMAIN Report(view, order).issues : Report(view, order).issues[i] = Issue(c, e)
    BY <2>8, <2>14, <2>15, <2>16, <2>17, InReport
  <2>20. Issue(c, e).diff = e
    BY DEF Issue
  <2> QED BY <2>18, <2>19, <2>20 DEF order, x, y
<1>3. SwapsInv /\ [ViewsNext]_viewVars => SwapsInv'
  BY SwapsStep
<1> QED BY <1>1, <1>2, <1>3, PTL DEF ViewsSpec

-----------------------------------------------------------------------------
(* What a scan is made of.                                                 *)

\* What is kept was there, and has the fingerprint of whatever is not kept.
LEMMA Deduplicated ==
  ASSUME NEW ms, IsList(ms)
  PROVE  /\ IsList(Deduplicate(ms))
         /\ ToSet(Deduplicate(ms)) \subseteq ToSet(ms)
         /\ \A m \in ToSet(ms) :
              \E k \in ToSet(Deduplicate(ms)) : Fingerprint(k) = Fingerprint(m)
<1> DEFINE prints == [i \in DOMAIN ms |-> Fingerprint(ms[i])]
<1>1. Len(ms) \in Nat /\ DOMAIN ms = 1..Len(ms)
  BY ListShape
<1>2. /\ prints = [i \in 1..Len(ms) |-> prints[i]] /\ DOMAIN prints = DOMAIN ms
      /\ \A i \in DOMAIN ms : prints[i] = Fingerprint(ms[i])
  BY <1>1
<1>3. Deduplicate(ms) = Picked(ms, Firsts(prints))
  BY DEF Deduplicate
<1> HIDE DEF prints
<1>4. IsList(prints)
  BY <1>1, <1>2, ListFunction
<1>5. /\ IsList(Deduplicate(ms))
      /\ ToSet(Deduplicate(ms)) = {ms[i] : i \in DOMAIN ms \cap Firsts(prints)}
  BY <1>3, PickedMembers
<1>6. \A i \in DOMAIN ms : \E j \in DOMAIN ms \cap Firsts(prints) :
         Fingerprint(ms[j]) = Fingerprint(ms[i])
  <2> TAKE i \in DOMAIN ms
  <2>1. PICK j \in Firsts(prints) : prints[j] = prints[i]
    BY <1>2, <1>4, FirstPlaces
  <2>2. j \in DOMAIN ms
    BY <1>2 DEF Firsts
  <2> QED BY <1>2, <2>1, <2>2
<1> QED BY <1>5, <1>6 DEF ToSet

-----------------------------------------------------------------------------
(* The mutations of one request.                                           *)

\* A URL is a record of pieces.
IsUrl(u) == /\ u = [authority |-> u.authority, path |-> u.path, suffix |-> u.suffix, form |-> u.form]
            /\ u.authority \in Seq(Piece) /\ u.path \in Seq(Piece)

\* A URL made of another one goes where that goes, but for the two exceptions: it names no
\* host, or digits of the host or port are replaced, and the path is as it was.
NumberKinds == {{"number", "version"}, {"version"}}
Near(x, url) ==
  \/ SameAuthority(x.authority, url.authority)
  \/ x.authority = <<>>
  \/ x.path = url.path /\ \E kinds \in NumberKinds : Astray(url, kinds)

\* A mutation in full.
Made(carries, strategy, method, path, headers, body) ==
  [carries |-> carries, strategy |-> strategy,
   method |-> method, path |-> path, headers |-> headers, body |-> body]

\* What the mutators make of a request with method `name` for `url`: each sets one part,
\* but for one that sets method and headers.
ByHeaders(m) == \E h, s : m = Made({"headers"}, s, NoMethod, NoUrl, h, <<>>)
ByBody(m)    == \E b, s : m = Made({"body"}, s, NoMethod, NoUrl, <<>>, b)
ByMethod(m)  == \E n, s : m = Made({"method"}, s, n, NoUrl, <<>>, <<>>)
ByPath(m, url) == \E x, s : Near(x, url) /\ m = Made({"path"}, s, NoMethod, x, <<>>, <<>>)
ByOverride(m, name) ==
  m = Made({"method", "headers"}, "method_override", Method(name), NoUrl,
           Only("X-HTTP-Method-Override", "DELETE"), <<>>)
Shaped(m, name, url) ==
  ByHeaders(m) \/ ByBody(m) \/ ByMethod(m) \/ ByPath(m, url) \/ ByOverride(m, name)

Fine(ms, name, url) == IsList(ms) /\ \A m \in ToSet(ms) : Shaped(m, name, url)

\* The constructors.
LEMMA Constructed ==
  ASSUME NEW name, NEW url
  PROVE  /\ \A h, s : Shaped(OfHeaders(h, s), name, url)
         /\ \A b, s : Shaped(OfBody(b, s), name, url)
         /\ \A n, s : Shaped(OfMethod(n, s), name, url)
         /\ \A x, s : Near(x, url) => Shaped(OfPath(x, s), name, url)
<1>1. ASSUME NEW c, NEW s, NEW v
      PROVE  /\ [Mutation(c, s) EXCEPT !.headers = v] = Made(c, s, NoMethod, NoUrl, v, <<>>)
             /\ [Mutation(c, s) EXCEPT !.body = v] = Made(c, s, NoMethod, NoUrl, <<>>, v)
             /\ [Mutation(c, s) EXCEPT !.method = v] = Made(c, s, v, NoUrl, <<>>, <<>>)
             /\ [Mutation(c, s) EXCEPT !.path = v] = Made(c, s, NoMethod, v, <<>>, <<>>)
  BY DEF Mutation, Made
<1>2. ASSUME NEW v, NEW s
      PROVE  /\ OfHeaders(v, s) = Made({"headers"}, s, NoMethod, NoUrl, v, <<>>)
             /\ OfBody(v, s) = Made({"body"}, s, NoMethod, NoUrl, <<>>, v)
             /\ OfMethod(v, s) = Made({"method"}, s, v, NoUrl, <<>>, <<>>)
             /\ OfPath(v, s) = Made({"path"}, s, NoMethod, v, <<>>, <<>>)
  <2>1. OfHeaders(v, s) = [Mutation({"headers"}, s) EXCEPT !.headers = v]
    BY DEF OfHeaders
  <2>2. OfBody(v, s) = [Mutation({"body"}, s) EXCEPT !.body = v]
    BY DEF OfBody
  <2>3. OfMethod(v, s) = [Mutation({"method"}, s) EXCEPT !.method = v]
    BY DEF OfMethod
  <2>4. OfPath(v, s) = [Mutation({"path"}, s) EXCEPT !.path = v]
    BY DEF OfPath
  <2> QED BY <1>1, <2>1, <2>2, <2>3, <2>4
<1> QED BY <1>2 DEF Shaped, ByHeaders, ByBody, ByMethod, ByPath

\* Lists of mutations, put together.
LEMMA FineConcat ==
  ASSUME NEW name, NEW url, NEW a, NEW b, Fine(a, name, url), Fine(b, name, url)
  PROVE  Fine(a \o b, name, url)
BY ListConcat DEF Fine

\* A list of such lists, flattened.
LEMMA FineFlat ==
  ASSUME NEW name, NEW url, NEW s, IsList(s), \A i \in DOMAIN s : Fine(s[i], name, url)
  PROVE  Fine(FlattenSeq(s), name, url)
BY Flattened DEF Fine

\* A list made place by place of another one.
LEMMA FineEach ==
  ASSUME NEW name, NEW url, NEW s, NEW v, IsList(v), s = [i \in DOMAIN v |-> s[i]],
         \A i \in DOMAIN v : Shaped(s[i], name, url)
  PROVE  Fine(s, name, url)
<1>1. Len(v) \in Nat /\ DOMAIN v = 1..Len(v)
  BY ListShape
<1>2. IsList(s) /\ DOMAIN s = DOMAIN v
  BY <1>1, ListFunction
<1> QED BY <1>2 DEF Fine, ToSet

\* None, one and two.
LEMMA FineOne ==
  ASSUME NEW name, NEW url
  PROVE  /\ Fine(<<>>, name, url)
         /\ \A m : Shaped(m, name, url) => Fine(<<m>>, name, url)
         /\ \A m, n : Shaped(m, name, url) /\ Shaped(n, name, url) => Fine(<<m, n>>, name, url)
BY Tuples DEF Fine

\* The header mutators.
LEMMA HeadersFine ==
  ASSUME NEW name, NEW url, NEW h, IsFiniteSet(DOMAIN h)
  PROVE  Fine(HeaderMutations(h), name, url)
<1>1. ASSUME NEW key, NEW values, IsList(values), NEW strategy
      PROVE  Fine(HeadersEach(h, key, values, strategy), name, url)
  <2>1. \A i \in DOMAIN values : Shaped(HeadersEach(h, key, values, strategy)[i], name, url)
    BY Constructed DEF HeadersEach
  <2>2. HeadersEach(h, key, values, strategy) =
          [i \in DOMAIN values |-> HeadersEach(h, key, values, strategy)[i]]
    BY DEF HeadersEach
  <2> QED BY <2>1, <2>2, <1>1, FineEach
<1>2. IsList(Garbage) /\ IsList(Privileges) /\ IsList(Types) /\ IsList(Spoofed)
  BY ListOf, EngineAssumption
<1>3. ASSUME NEW key
      PROVE  /\ Fine(RemoveHeader(h, key), name, url) /\ Fine(BlankValue(h, key), name, url)
             /\ Fine(GarbageToken(h, key), name, url) /\ Fine(PrivilegeEsc(h, key), name, url)
             /\ Fine(TenantSwapping(h, key), name, url) /\ Fine(ContentTypeSwap(h, key), name, url)
  <2>1. Fine(RemoveHeader(h, key), name, url)
    BY Constructed, FineOne DEF RemoveHeader
  <2>2. Fine(BlankValue(h, key), name, url)
    BY <1>1, Tuples DEF BlankValue
  <2>3. Fine(GarbageToken(h, key), name, url) /\ Fine(PrivilegeEsc(h, key), name, url)
        /\ Fine(ContentTypeSwap(h, key), name, url)
    BY <1>1, <1>2, FineOne DEF GarbageToken, PrivilegeEsc, ContentTypeSwap
  <2>4. Fine(TenantSwapping(h, key), name, url)
    BY <1>1, LongTuples, FineOne DEF TenantSwapping
  <2> QED BY <2>1, <2>2, <2>3, <2>4
<1> DEFINE Of(key) == RemoveHeader(h, key) \o BlankValue(h, key) \o GarbageToken(h, key)
                      \o PrivilegeEsc(h, key) \o TenantSwapping(h, key) \o ContentTypeSwap(h, key)
           keys == SetToSeq(DOMAIN h)
           each == [i \in DOMAIN keys |-> Of(keys[i])]
<1>4. \A key : Fine(Of(key), name, url)
  <2> TAKE key
  <2>1. Fine(RemoveHeader(h, key) \o BlankValue(h, key), name, url)
    BY <1>3, FineConcat
  <2>2. Fine(RemoveHeader(h, key) \o BlankValue(h, key) \o GarbageToken(h, key), name, url)
    BY <1>3, <2>1, FineConcat
  <2>3. Fine(RemoveHeader(h, key) \o BlankValue(h, key) \o GarbageToken(h, key)
             \o PrivilegeEsc(h, key), name, url)
    BY <1>3, <2>2, FineConcat
  <2>4. Fine(RemoveHeader(h, key) \o BlankValue(h, key) \o GarbageToken(h, key)
             \o PrivilegeEsc(h, key) \o TenantSwapping(h, key), name, url)
    BY <1>3, <2>3, FineConcat
  <2> QED BY <1>3, <2>4, FineConcat
<1>5. IsList(keys)
  BY SetListed
<1>6. Fine(IdSpoofing(h), name, url)
  <2>1. \A i \in DOMAIN Spoofed : Shaped(IdSpoofing(h)[i], name, url)
    BY Constructed DEF IdSpoofing
  <2>2. IdSpoofing(h) = [i \in DOMAIN Spoofed |-> IdSpoofing(h)[i]]
    BY DEF IdSpoofing
  <2> QED BY <2>1, <2>2, <1>2, FineEach
<1>7. HeaderMutations(h) = FlattenSeq(each) \o IdSpoofing(h)
  BY DEF HeaderMutations
<1> HIDE DEF keys, Of
<1>8. IsList(each) /\ \A i \in DOMAIN each : Fine(each[i], name, url)
  <2>1. Len(keys) \in Nat /\ DOMAIN keys = 1..Len(keys)
    BY <1>5, ListShape
  <2>2. each = [i \in 1..Len(keys) |-> each[i]]
    BY <2>1
  <2> QED BY <1>4, <2>1, <2>2, ListFunction
<1> HIDE DEF each
<1> QED BY <1>6, <1>7, <1>8, FineFlat, FineConcat

\* The body mutators.
LEMMA BodiesFine ==
  ASSUME NEW name, NEW url, NEW b, IsFiniteSet(DOMAIN b)
  PROVE  Fine(BodyMutations(b), name, url)
<1>1. ASSUME NEW key, NEW values, IsList(values), NEW strategy
      PROVE  Fine(BodiesEach(b, key, values, strategy), name, url)
  <2>1. \A i \in DOMAIN values : Shaped(BodiesEach(b, key, values, strategy)[i], name, url)
    BY Constructed DEF BodiesEach
  <2>2. BodiesEach(b, key, values, strategy) =
          [i \in DOMAIN values |-> BodiesEach(b, key, values, strategy)[i]]
    BY DEF BodiesEach
  <2> QED BY <2>1, <2>2, <1>1, FineEach
<1>2. ASSUME NEW list, IsList(list) PROVE IsList(Texts(list))
  <2>1. Len(list) \in Nat /\ DOMAIN list = 1..Len(list)
    BY <1>2, ListShape
  <2>2. Texts(list) = [i \in 1..Len(list) |-> Texts(list)[i]]
    BY <2>1 DEF Texts
  <2> QED BY <2>1, <2>2, ListFunction
<1>3. IsList(Payloads) /\ IsList(Blanks)
  BY ListOf, EngineAssumption
<1>4. ASSUME NEW key
      PROVE  /\ Fine(IdEnumeration(b, key), name, url) /\ Fine(RemoveField(b, key), name, url)
             /\ Fine(InjectSpecialChars(b, key), name, url) /\ Fine(Nullify(b, key), name, url)
             /\ Fine(TypeConfusion(b, key), name, url)
  <2>1. Fine(RemoveField(b, key), name, url)
    BY Constructed, FineOne DEF RemoveField
  <2>2. Fine(InjectSpecialChars(b, key), name, url) /\ Fine(Nullify(b, key), name, url)
    BY <1>1, <1>2, <1>3 DEF InjectSpecialChars, Nullify
  <2>3. Fine(IdEnumeration(b, key), name, url)
    BY <1>1, <1>2, LongTuples, FineOne DEF IdEnumeration
  <2>4. Fine(TypeConfusion(b, key), name, url)
    <3> DEFINE types == Confused(b[key].type)
               values == [i \in DOMAIN types |-> [b[key] EXCEPT !.type = types[i]]]
    <3>1. IsList(types)
      BY LongTuples, Tuples DEF Confused
    <3>2. TypeConfusion(b, key) = BodiesEach(b, key, values, "type_confusion")
      BY DEF TypeConfusion
    <3> HIDE DEF types
    <3>3. Len(types) \in Nat /\ DOMAIN types = 1..Len(types)
      BY <3>1, ListShape
    <3>4. values = [i \in 1..Len(types) |-> values[i]]
      BY <3>3
    <3> HIDE DEF values
    <3>5. IsList(values)
      BY <3>3, <3>4, ListFunction
    <3> QED BY <3>2, <3>5, <1>1
  <2> QED BY <2>1, <2>2, <2>3, <2>4
<1> DEFINE Of(key) == IdEnumeration(b, key) \o RemoveField(b, key) \o InjectSpecialChars(b, key)
                      \o Nullify(b, key) \o TypeConfusion(b, key)
           keys == SetToSeq(DOMAIN b)
           each == [i \in DOMAIN keys |-> Of(keys[i])]
<1>5. \A key : Fine(Of(key), name, url)
  <2> TAKE key
  <2>1. Fine(IdEnumeration(b, key) \o RemoveField(b, key), name, url)
    BY <1>4, FineConcat
  <2>2. Fine(IdEnumeration(b, key) \o RemoveField(b, key) \o InjectSpecialChars(b, key), name, url)
    BY <1>4, <2>1, FineConcat
  <2>3. Fine(IdEnumeration(b, key) \o RemoveField(b, key) \o InjectSpecialChars(b, key)
             \o Nullify(b, key), name, url)
    BY <1>4, <2>2, FineConcat
  <2> QED BY <1>4, <2>3, FineConcat
<1>6. IsList(keys)
  BY SetListed
<1>7. Fine(MassAssignment(b), name, url)
  BY Constructed, FineOne DEF MassAssignment
<1>8. BodyMutations(b) = FlattenSeq(each) \o MassAssignment(b)
  BY DEF BodyMutations
<1> HIDE DEF keys, Of
<1>9. IsList(each) /\ \A i \in DOMAIN each : Fine(each[i], name, url)
  <2>1. Len(keys) \in Nat /\ DOMAIN keys = 1..Len(keys)
    BY <1>6, ListShape
  <2>2. each = [i \in 1..Len(keys) |-> each[i]]
    BY <2>1
  <2> QED BY <1>5, <2>1, <2>2, ListFunction
<1> HIDE DEF each
<1> QED BY <1>7, <1>8, <1>9, FineFlat, FineConcat

\* The method mutators.
LEMMA MethodsFine ==
  ASSUME NEW name \in ValidMethods, NEW url
  PROVE  Fine(MethodMutations(name), name, url)
<1>1. Fine(MethodSwitching(name), name, url)
  <2> DEFINE others == Picked(Methods, {i \in DOMAIN Methods : Methods[i] # name})
  <2>1. IsList(others)
    BY LongTuples, PickedMembers DEF Methods
  <2>2. MethodSwitching(name) =
          [i \in DOMAIN others |-> OfMethod(Method(others[i]), "method_switch")]
    BY DEF MethodSwitching
  <2> HIDE DEF others
  <2>3. \A i \in DOMAIN others : Shaped(MethodSwitching(name)[i], name, url)
    BY <2>2, Constructed
  <2> QED BY <2>1, <2>2, <2>3, FineEach
<1>2. Fine(CaseSwapping(name), name, url)
  <2> DEFINE n == Length[name]
             each == [i \in 1..n |-> <<OfMethod(Spelled(name, "one lower", i), "case_swap"),
                                       OfMethod(Spelled(name, "one upper", i), "case_swap")>>]
  <2>1. n \in Nat
    BY DEF Length, ValidMethods
  <2>2. CaseSwapping(name) =
          <<OfMethod(Spelled(name, "lower", 0), "case_swap")>> \o FlattenSeq(each)
    BY DEF CaseSwapping
  <2> HIDE DEF n
  <2>3. each = [i \in 1..n |-> each[i]] /\ \A i \in 1..n : Fine(each[i], name, url)
    BY Constructed, FineOne
  <2> HIDE DEF each
  <2>4. IsList(each) /\ DOMAIN each = 1..n
    BY <2>1, <2>3, ListFunction
  <2>5. Fine(FlattenSeq(each), name, url)
    BY <2>3, <2>4, FineFlat
  <2>6. Fine(<<OfMethod(Spelled(name, "lower", 0), "case_swap")>>, name, url)
    BY Constructed, FineOne
  <2> QED BY <2>2, <2>5, <2>6, FineConcat
<1>3. Fine(GarbageMethod, name, url)
  <2> DEFINE names == <<"HACK", "", "FAKEMETHOD", "NULL">>
  <2>1. IsList(names)
    BY LongTuples
  <2>2. GarbageMethod = [i \in DOMAIN names |-> OfMethod(Method(names[i]), "garbage_method")]
    BY DEF GarbageMethod
  <2> HIDE DEF names
  <2>3. \A i \in DOMAIN names : Shaped(GarbageMethod[i], name, url)
    BY <2>2, Constructed
  <2> QED BY <2>1, <2>2, <2>3, FineEach
<1>4. Fine(MethodOverrideHeader(name), name, url)
  <2> DEFINE c == {"method", "headers"}
  <2>1. ASSUME NEW d, NEW s, NEW v, NEW w
        PROVE  [Mutation(d, s) EXCEPT !.method = v, !.headers = w] = Made(d, s, v, NoUrl, w, <<>>)
    <3> DEFINE m == Made(d, s, v, NoUrl, <<>>, <<>>)
    <3>1. [Mutation(d, s) EXCEPT !.method = v] = m
      BY DEF Mutation, Made
    <3>2. [m EXCEPT !.headers = w] = Made(d, s, v, NoUrl, w, <<>>)
      BY DEF Made
    <3>3. [Mutation(d, s) EXCEPT !.method = v, !.headers = w]
            = [[Mutation(d, s) EXCEPT !.method = v] EXCEPT !.headers = w]
      OBVIOUS
    <3> QED BY <3>1, <3>2, <3>3
  <2>2. MethodOverrideHeader(name) =
          <<Made(c, "method_override", Method(name), NoUrl, Only("X-HTTP-Method-Override", "DELETE"), <<>>)>>
    BY <2>1 DEF MethodOverrideHeader
  <2>3. Shaped(Made(c, "method_override", Method(name), NoUrl, Only("X-HTTP-Method-Override", "DELETE"), <<>>),
               name, url)
    BY DEF Shaped, ByOverride
  <2> QED BY <2>2, <2>3, FineOne
<1>5. Fine(MethodSwitching(name) \o CaseSwapping(name), name, url)
  BY <1>1, <1>2, FineConcat
<1>6. Fine(MethodSwitching(name) \o CaseSwapping(name) \o GarbageMethod, name, url)
  BY <1>3, <1>5, FineConcat
<1> QED BY <1>4, <1>6, FineConcat DEF MethodMutations

\* The least and the greatest of a set of places.
LEMMA Extremes ==
  ASSUME NEW n \in Nat, NEW I, I \subseteq 1..n, I # {}
  PROVE  Min(I) \in I /\ Max(I) \in I
<1>1. PICK i \in I : \A j \in I : i <= j
  BY LeastNumber
<1>2. Min(I) \in I
  BY <1>1 DEF Min
<1> DEFINE Mirror == {n - x : x \in I}
<1>3. Mirror \in SUBSET Nat /\ Mirror # {}
  OBVIOUS
<1>4. PICK m \in Mirror : \A k \in Mirror : m <= k
  <2> HIDE DEF Mirror
  <2> QED BY <1>3, LeastNumber
<1>5. PICK g \in I : m = n - g
  OBVIOUS
<1>6. \A j \in I : j <= g
  <2> TAKE j \in I
  <2>1. n - g <= n - j
    BY <1>4, <1>5
  <2>2. g \in Int /\ j \in Int
    OBVIOUS
  <2> QED BY <2>1, <2>2
<1>7. Max(I) \in I
  BY <1>6 DEF Max
<1> QED BY <1>2, <1>7

\* A piece that is replaced is one of the authority or one of the path.
LEMMA PieceSet ==
  ASSUME NEW url, IsUrl(url), NEW i \in DOMAIN Pieces(url), NEW piece
  PROVE  /\ Pieces(url)[i] \in Piece
         /\ i \in DOMAIN url.authority =>
              /\ Pieces(url)[i] = url.authority[i]
              /\ SetPiece(url, i, piece).authority = [url.authority EXCEPT ![i] = piece]
              /\ SetPiece(url, i, piece).path = url.path
         /\ i \notin DOMAIN url.authority => SetPiece(url, i, piece).authority = url.authority
<1>1. url.authority \in Seq(Piece) /\ url.path \in Seq(Piece)
  BY DEF IsUrl
<1>2. /\ Len(url.authority) \in Nat /\ DOMAIN url.authority = 1..Len(url.authority)
      /\ Pieces(url) \in Seq(Piece)
      /\ \A k \in DOMAIN url.authority : Pieces(url)[k] = url.authority[k]
      /\ i \in Nat \ {0}
  <2> DEFINE a == url.authority
             p == url.path
  <2>1. a \in Seq(Piece) /\ p \in Seq(Piece) /\ Pieces(url) = a \o p
    BY <1>1 DEF Pieces
  <2> HIDE DEF a, p
  <2>2. /\ Len(a) \in Nat /\ DOMAIN a = 1..Len(a) /\ a \o p \in Seq(Piece)
        /\ \A k \in 1..Len(a) : (a \o p)[k] = a[k]
    BY <2>1
  <2>3. DOMAIN (a \o p) = 1..Len(a \o p)
    BY <2>2
  <2> QED BY <2>1, <2>2, <2>3 DEF a
<1>3. Pieces(url)[i] \in Piece
  BY <1>2
<1>4. CASE i <= Len(url.authority)
  <2>1. i \in DOMAIN url.authority
    BY <1>2, <1>4
  <2>2. SetPiece(url, i, piece) = [url EXCEPT !.authority[i] = piece]
    BY <1>4 DEF SetPiece
  <2>3. /\ SetPiece(url, i, piece).authority = [url.authority EXCEPT ![i] = piece]
        /\ SetPiece(url, i, piece).path = url.path
    BY <2>2 DEF IsUrl
  <2> QED BY <1>2, <1>3, <2>1, <2>3
<1>5. CASE ~(i <= Len(url.authority))
  <2>1. i \notin DOMAIN url.authority
    BY <1>2, <1>5
  <2>2. SetPiece(url, i, piece) = [url EXCEPT !.path[i - Len(url.authority)] = piece]
    BY <1>5 DEF SetPiece
  <2>3. SetPiece(url, i, piece).authority = url.authority
    BY <2>2 DEF IsUrl
  <2> QED BY <1>3, <2>1, <2>3
<1> QED BY <1>4, <1>5

\* A list of digits is a part of itself, at its beginning.
LEMMA OffsetZero ==
  ASSUME NEW p, p.digits \in Seq(Int), NEW kinds
  PROVE  Offsets(p, p.digits, kinds) # {}
<1>1. Len(p.digits) \in Nat /\ SubSeq(p.digits, 0 + 1, 0 + Len(p.digits)) = p.digits
  OBVIOUS
<1>2. 0 \in 0..(Len(p.digits) - Len(p.digits))
  BY <1>1
<1>3. 0 \in Offsets(p, p.digits, kinds)
  BY <1>1, <1>2 DEF Offsets
<1> QED BY <1>3

\* The piece that the number mutators take is one of their kind, and holds the digits of
\* the last one.
LEMMA PlaceIsNumbered ==
  ASSUME NEW url, IsUrl(url), NEW kinds, Numbered(url, kinds) # {}
  PROVE  Place(url, kinds)[1] \in Copied(url, kinds)
<1> DEFINE n == Len(Pieces(url))
           last == Max(Numbered(url, kinds))
<1>1. n \in Nat /\ DOMAIN Pieces(url) = 1..n /\ Pieces(url) \in Seq(Piece)
  BY DEF Pieces, IsUrl
<1>2. Numbered(url, kinds) \subseteq 1..n
  BY <1>1 DEF Numbered
<1>3. last \in Numbered(url, kinds)
  BY <1>1, <1>2, Extremes
<1>4. Pieces(url)[last] \in Piece
  BY <1>1, <1>2, <1>3
<1>5. Pieces(url)[last].digits \in Seq(Int)
  BY <1>4 DEF Piece
<1>6. last \in Copied(url, kinds)
  BY <1>3, <1>5, OffsetZero DEF Copied, LastNumber
<1>7. Copied(url, kinds) \subseteq 1..n
  BY <1>2 DEF Copied
<1> HIDE DEF n, last
<1>8. Min(Copied(url, kinds)) \in Copied(url, kinds)
  BY <1>1, <1>6, <1>7, Extremes
<1> QED BY <1>8 DEF Place

\* A number that is replaced is not one of the authority, but for the exception.
LEMMA RenumberedFine ==
  ASSUME NEW name, NEW url, IsUrl(url), NEW kinds \in NumberKinds, NEW candidates,
         IsList(candidates), NEW strategy
  PROVE  Fine(Renumbered(url, kinds, candidates, strategy), name, url)
<1> DEFINE i == Place(url, kinds)[1]
           New(n) == Rewritten(Pieces(url)[i], Place(url, kinds)[2], LastNumber(url, kinds), n)
           made == Renumbered(url, kinds, candidates, strategy)
<1>1. CASE Numbered(url, kinds) = {}
  BY <1>1, FineOne DEF Renumbered
<1>2. CASE Numbered(url, kinds) # {}
  <2>1. made = [k \in DOMAIN candidates |->
                 OfPath(SetPiece(url, i, New(candidates[k])), strategy)]
    BY <1>2 DEF Renumbered
  <2>2. /\ i \in DOMAIN Pieces(url) /\ Pieces(url)[i].kind \in kinds
        /\ Offsets(Pieces(url)[i], LastNumber(url, kinds), kinds) # {}
    BY <1>2, PlaceIsNumbered DEF Numbered, Copied
  <2> HIDE DEF i, New, made
  <2>3. \A piece : Near(SetPiece(url, i, piece), url)
    <3> TAKE piece
    <3>1. CASE i \in DOMAIN url.authority
      <4>1. Pieces(url)[i] \in ToSet(url.authority)
        BY <2>2, <3>1, PieceSet DEF ToSet
      <4>2. Astray(url, kinds)
        BY <1>2, <2>2, <4>1 DEF Astray
      <4>3. SetPiece(url, i, piece).path = url.path
        BY <2>2, <3>1, PieceSet
      <4> QED BY <4>2, <4>3 DEF Near
    <3>2. CASE i \notin DOMAIN url.authority
      <4>1. SetPiece(url, i, piece).authority = url.authority
        BY <2>2, <3>2, PieceSet
      <4> QED BY <4>1 DEF Near, SameAuthority
    <3> QED BY <3>1, <3>2
  <2>4. \A k \in DOMAIN candidates : Shaped(made[k], name, url)
    BY <2>1, <2>3, Constructed
  <2>5. made = [k \in DOMAIN candidates |-> made[k]]
    BY <2>1
  <2> QED BY <2>4, <2>5, FineEach DEF made
<1> QED BY <1>1, <1>2

\* Letters in the other case do not change the host.
LEMMA UpperTwice == ASSUME NEW p \in Piece PROVE Upper(Upper(p)) = Upper(p)
BY DEF Upper, Piece

\* A piece in the other case leaves the URL on its host.
LEMMA CasePiece ==
  ASSUME NEW url, IsUrl(url), NEW f \in DOMAIN Pieces(url)
  PROVE  Near(SetPiece(url, f, Upper(Pieces(url)[f])), url)
<1> DEFINE p == Pieces(url)[f]
<1>1. p \in Piece /\ Upper(Upper(p)) = Upper(p)
  BY PieceSet, UpperTwice
<1>2. CASE f \in DOMAIN url.authority
  <2>1. url.authority[f] = p /\ SetPiece(url, f, Upper(p)).authority = [url.authority EXCEPT ![f] = Upper(p)]
    BY <1>2, PieceSet
  <2> HIDE DEF p
  <2>2. SameAuthority([url.authority EXCEPT ![f] = Upper(p)], url.authority)
    BY <1>1, <1>2, <2>1 DEF SameAuthority, IsUrl
  <2> QED BY <2>1, <2>2 DEF Near, p
<1>3. CASE f \notin DOMAIN url.authority
  <2>1. SetPiece(url, f, Upper(p)).authority = url.authority
    BY <1>3, PieceSet
  <2> QED BY <2>1 DEF Near, SameAuthority
<1> QED BY <1>2, <1>3

\* The words in the other case: scheme, authority, each word of the path.
LEMMA CasesFine ==
  ASSUME NEW name, NEW url, IsUrl(url)
  PROVE  Fine(CaseSwitching(url), name, url)
<1> DEFINE words == Picked(url.path, {i \in DOMAIN url.path : url.path[i].kind = "word"})
           First(p) == Min({i \in DOMAIN Pieces(url) : Pieces(url)[i] = p})
           upper == [i \in DOMAIN url.authority |-> Upper(url.authority[i])]
           host == url.authority
           first == <<OfPath([url EXCEPT !.form = "SCHEME"], "case_switching")>>
           second == IF host # <<>> /\ host[Len(host)].kind = "version" THEN <<>>
                     ELSE <<OfPath([url EXCEPT !.authority = upper], "case_switching")>>
           rest == [i \in DOMAIN words |->
                     OfPath(SetPiece(url, First(words[i]), Upper(words[i])), "case_switching")]
<1>0. CaseSwitching(url) = (first \o second) \o rest
  BY DEF CaseSwitching
<1>1. /\ url.authority \in Seq(Piece) /\ url.path \in Seq(Piece)
      /\ url = [authority |-> url.authority, path |-> url.path, suffix |-> url.suffix, form |-> url.form]
  BY DEF IsUrl
<1>2. Near([url EXCEPT !.form = "SCHEME"], url)
  <2>1. [url EXCEPT !.form = "SCHEME"].authority = url.authority
    BY <1>1
  <2> QED BY <2>1 DEF Near, SameAuthority
<1>3. Near([url EXCEPT !.authority = upper], url)
  <2>1. [url EXCEPT !.authority = upper].authority = upper
    BY <1>1
  <2>2. \A i \in DOMAIN url.authority : Upper(Upper(url.authority[i])) = Upper(url.authority[i])
    BY <1>1, UpperTwice
  <2>3. DOMAIN upper = DOMAIN url.authority /\ \A i \in DOMAIN upper : upper[i] = Upper(url.authority[i])
    OBVIOUS
  <2> HIDE DEF upper
  <2>4. SameAuthority(upper, url.authority)
    BY <2>2, <2>3 DEF SameAuthority
  <2> QED BY <2>1, <2>4 DEF Near
<1>4. Fine(first \o second, name, url)
  <2>1. Fine(first, name, url)
    BY <1>2, Constructed, FineOne
  <2>2. Fine(<<OfPath([url EXCEPT !.authority = upper], "case_switching")>>, name, url)
    BY <1>3, Constructed, FineOne
  <2>3. Fine(second, name, url)
    BY <2>2, FineOne
  <2> HIDE DEF first, second
  <2> QED BY <2>1, <2>3, FineConcat
<1>5. IsList(words) /\ \A i \in DOMAIN words : words[i] \in ToSet(url.path)
  <2>1. IsList(url.path)
    BY <1>1, ListOf
  <2>2. IsList(words) /\ ToSet(words) \subseteq ToSet(url.path)
    BY <2>1, PickedMembers DEF ToSet
  <2> HIDE DEF words
  <2> QED BY <2>2 DEF ToSet
<1>6. \A p \in ToSet(url.path) : Near(SetPiece(url, First(p), Upper(p)), url)
  <2> TAKE p \in ToSet(url.path)
  <2> DEFINE places == {i \in DOMAIN Pieces(url) : Pieces(url)[i] = p}
             f == First(p)
  <2>1. Len(Pieces(url)) \in Nat /\ DOMAIN Pieces(url) = 1..Len(Pieces(url))
    BY <1>1 DEF Pieces
  <2>2. p \in ToSet(Pieces(url))
    BY <1>1, ListOf, ListConcat DEF Pieces
  <2>3. places # {} /\ places \subseteq 1..Len(Pieces(url))
    BY <2>1, <2>2 DEF ToSet
  <2>4. f \in places
    <3> HIDE DEF places
    <3> QED BY <2>1, <2>3, Extremes DEF places
  <2> HIDE DEF f
  <2>5. f \in DOMAIN Pieces(url) /\ Pieces(url)[f] = p
    BY <2>4
  <2>6. Near(SetPiece(url, f, Upper(p)), url)
    BY <2>5, CasePiece
  <2> QED BY <2>6 DEF f
<1> HIDE DEF words, First
<1>7. Fine(rest, name, url)
  <2>1. rest = [i \in DOMAIN words |-> rest[i]]
    OBVIOUS
  <2>2. \A i \in DOMAIN words : Shaped(rest[i], name, url)
    BY <1>5, <1>6, Constructed
  <2> HIDE DEF rest
  <2> QED BY <2>1, <2>2, <1>5, FineEach
<1> HIDE DEF rest, first, second
<1> QED BY <1>0, <1>4, <1>7, FineConcat

\* The path mutators.
LEMMA PathsFine ==
  ASSUME NEW name, NEW url, IsUrl(url)
  PROVE  Fine(PathMutations(url), name, url)
<1>1. Fine(PathIdEnumeration(url), name, url) /\ Fine(VersionSwitching(url), name, url)
  BY RenumberedFine, LongTuples DEF PathIdEnumeration, VersionSwitching, NumberKinds
<1>2. ASSUME NEW suffixes, IsList(suffixes), NEW strategy
      PROVE  Fine(Appended(url, suffixes, strategy), name, url)
  <2> DEFINE made == Appended(url, suffixes, strategy)
  <2>1. made = [i \in DOMAIN suffixes |-> OfPath([url EXCEPT !.suffix = suffixes[i]], strategy)]
    BY DEF Appended
  <2>2. \A x : Near([url EXCEPT !.suffix = x], url)
    <3> TAKE x
    <3>1. [url EXCEPT !.suffix = x].authority = url.authority
      BY DEF IsUrl
    <3> QED BY <3>1 DEF Near, SameAuthority
  <2> HIDE DEF made
  <2>3. \A i \in DOMAIN suffixes : Shaped(made[i], name, url)
    BY <2>1, <2>2, Constructed
  <2>4. made = [i \in DOMAIN suffixes |-> made[i]]
    BY <2>1
  <2> QED BY <1>2, <2>3, <2>4, FineEach DEF made
<1>3. IsList(Extensions) /\ IsList(Junk) /\ IsList(Traversals)
  BY ListOf, EngineAssumption
<1>4. Fine(AddedExtension(url), name, url) /\ Fine(AddingJunk(url), name, url)
      /\ Fine(PathTraversal(url), name, url)
  BY <1>2, <1>3 DEF AddedExtension, AddingJunk, PathTraversal
<1>5. Fine(DoubleSlashing(url), name, url)
  <2> DEFINE x == [url EXCEPT !.authority = <<>>, !.path = Pieces(url), !.form = "doubled"]
  <2>1. x.authority = <<>>
    BY DEF IsUrl
  <2>2. Near(x, url)
    BY <2>1 DEF Near
  <2> HIDE DEF x
  <2> QED BY <2>2, Constructed, FineOne DEF DoubleSlashing, x
<1>6. Fine(PathIdEnumeration(url) \o AddedExtension(url), name, url)
  BY <1>1, <1>4, FineConcat
<1>7. Fine(PathIdEnumeration(url) \o AddedExtension(url) \o AddingJunk(url), name, url)
  BY <1>6, <1>4, FineConcat
<1>8. Fine(PathIdEnumeration(url) \o AddedExtension(url) \o AddingJunk(url) \o CaseSwitching(url),
           name, url)
  BY <1>7, CasesFine, FineConcat
<1>9. Fine(PathIdEnumeration(url) \o AddedExtension(url) \o AddingJunk(url) \o CaseSwitching(url)
           \o DoubleSlashing(url), name, url)
  BY <1>8, <1>5, FineConcat
<1>10. Fine(PathIdEnumeration(url) \o AddedExtension(url) \o AddingJunk(url) \o CaseSwitching(url)
            \o DoubleSlashing(url) \o PathTraversal(url), name, url)
  BY <1>9, <1>4, FineConcat
<1> QED BY <1>10, <1>1, FineConcat DEF PathMutations

-----------------------------------------------------------------------------
(* The engine and the three makers of tasks.                               *)

\* What the parser keeps of an operation.
Good(ep) == ep.method \in ValidMethods /\ ep.path \in Seq(Piece)
GoodList(found) == IsList(found) /\ \A i \in DOMAIN found : Good(found[i])

\* The base URL of a request, or the source taken for one.
GoodBase(b) == b.authority \in Seq(Piece) /\ b.path \in Seq(Piece)

\* base_url and a path make a URL of the base's host.
LEMMA TargetIsUrl ==
  ASSUME NEW b, GoodBase(b), NEW path \in Seq(Piece)
  PROVE  IsUrl(TargetUrl(b, path)) /\ TargetUrl(b, path).authority = b.authority
<1>1. b.authority \in Seq(Piece) /\ b.path \o path \in Seq(Piece)
  BY DEF GoodBase
<1> QED BY <1>1 DEF IsUrl, TargetUrl, UrlOf

\* All mutations of a request that is made of an endpoint.
LEMMA AllFine ==
  ASSUME NEW b, GoodBase(b), NEW ep, Good(ep)
  PROVE  Fine(AllMutations(FuzzRequest(b, ep)), ep.method, TargetUrl(b, ep.path))
<1> DEFINE r == FuzzRequest(b, ep)
           url == TargetUrl(b, ep.path)
           hs == IF r.headers = <<>> THEN <<>> ELSE HeaderMutations(r.headers)
           bs == IF r.body = <<>> THEN <<>> ELSE BodyMutations(r.body)
<1>1. r.method = ep.method /\ r.path = url
  BY DEF FuzzRequest
<1>2. IsFiniteSet(DOMAIN r.headers)
  <2>1. DOMAIN r.headers = {"Content-Type"}
    BY DEF FuzzRequest, Only
  <2> QED BY <2>1, FS_Singleton
<1>3. r.body # <<>> => IsFiniteSet(DOMAIN r.body)
  <2>1. r.body # <<>> => DOMAIN r.body = {"dummy"}
    BY DEF FuzzRequest, Only
  <2> QED BY <2>1, FS_Singleton
<1>4. AllMutations(r) = hs \o bs \o MethodMutations(ep.method) \o PathMutations(url)
  BY <1>1 DEF AllMutations
<1> HIDE DEF r
<1>5. Fine(hs, ep.method, url) /\ Fine(bs, ep.method, url)
  BY <1>2, <1>3, HeadersFine, BodiesFine, FineOne
<1> HIDE DEF hs, bs
<1>6. Fine(MethodMutations(ep.method), ep.method, url)
  BY MethodsFine DEF Good
<1>7. Fine(PathMutations(url), ep.method, url)
  BY PathsFine, TargetIsUrl DEF Good
<1>8. Fine(hs \o bs, ep.method, url)
  BY <1>5, FineConcat
<1>9. Fine(hs \o bs \o MethodMutations(ep.method), ep.method, url)
  BY <1>8, <1>6, FineConcat
<1> QED BY <1>4, <1>7, <1>9, FineConcat DEF r

\* What mutate returns is what the deduplication kept.
LEMMA Mutated ==
  ASSUME NEW request, IsList(AllMutations(request))
  PROVE  /\ IsList(Mutate(request)) /\ Len(Mutate(request)) \in Nat
         /\ \A j \in DOMAIN Mutate(request) :
              Mutate(request)[j].mutation \in ToSet(AllMutations(request))
         /\ \A m \in ToSet(AllMutations(request)) :
              \E j \in DOMAIN Mutate(request) : Fingerprint(Mutate(request)[j].mutation) = Fingerprint(m)
<1> DEFINE kept == Deduplicate(AllMutations(request))
           made == Mutate(request)
<1>1. made = [i \in DOMAIN kept |-> [mutation |-> kept[i], severity |-> Severity(kept[i].strategy)]]
  BY DEF Mutate
<1>2. IsList(kept) /\ ToSet(kept) \subseteq ToSet(AllMutations(request))
      /\ \A m \in ToSet(AllMutations(request)) :
           \E k \in ToSet(kept) : Fingerprint(k) = Fingerprint(m)
  BY Deduplicated
<1> HIDE DEF kept, made
<1>3. Len(kept) \in Nat /\ DOMAIN kept = 1..Len(kept) /\ \A i \in DOMAIN kept : kept[i] \in ToSet(kept)
  BY <1>2, ListShape
<1>4. made = [i \in 1..Len(kept) |-> made[i]] /\ DOMAIN made = DOMAIN kept
  BY <1>1, <1>3
<1>5. IsList(made) /\ Len(made) \in Nat
  BY <1>3, <1>4, ListFunction
<1>6. \A j \in DOMAIN made : made[j].mutation = kept[j]
  BY <1>1
<1>7. \A m \in ToSet(AllMutations(request)) :
        \E j \in DOMAIN made : Fingerprint(made[j].mutation) = Fingerprint(m)
  BY <1>2, <1>4, <1>6 DEF ToSet
<1> QED BY <1>2, <1>3, <1>4, <1>5, <1>6, <1>7 DEF made

\* Mutations of one request with one fingerprint set the same parts to the same values,
\* but for those that empty what they carry.
LEMMA SamePrint ==
  ASSUME NEW name \in ValidMethods, NEW url, NEW m, NEW k,
         Shaped(m, name, url), Shaped(k, name, url), Fingerprint(k) = Fingerprint(m)
  PROVE  m = Mutation(m.carries, m.strategy) \/ [k EXCEPT !.strategy = m.strategy] = m
<1> DEFINE override == Only("X-HTTP-Method-Override", "DELETE")
           Parts(c, me, p, h, b) ==
             \/ c = {"headers"} /\ me = NoMethod /\ p = NoUrl /\ b = <<>>
             \/ c = {"body"} /\ me = NoMethod /\ p = NoUrl /\ h = <<>>
             \/ c = {"method"} /\ p = NoUrl /\ h = <<>> /\ b = <<>>
             \/ c = {"path"} /\ me = NoMethod /\ h = <<>> /\ b = <<>>
             \/ /\ c = {"method", "headers"} /\ me = Method(name) /\ p = NoUrl
                /\ h = override /\ b = <<>>
<1>1. ASSUME NEW x, Shaped(x, name, url)
      PROVE  \E c, s, me, p, h, b : x = Made(c, s, me, p, h, b) /\ Parts(c, me, p, h, b)
  BY <1>1 DEF Shaped, ByHeaders, ByBody, ByMethod, ByPath, ByOverride
<1>2. Method(name) # NoMethod /\ override # <<>>
  <2>1. name # ""
    BY DEF ValidMethods
  <2>2. DOMAIN override = {"X-HTTP-Method-Override"} /\ DOMAIN <<>> = {}
    BY DEF Only
  <2> QED BY <2>1, <2>2 DEF Method, NoMethod, Spelled
<1> HIDE DEF Parts, override
<1>3. PICK c, s, me, p, h, b : m = Made(c, s, me, p, h, b) /\ Parts(c, me, p, h, b)
  BY <1>1
<1>4. PICK c2, s2, me2, p2, h2, b2 : k = Made(c2, s2, me2, p2, h2, b2) /\ Parts(c2, me2, p2, h2, b2)
  BY <1>1
<1>5. me2 = me /\ p2 = p /\ h2 = h /\ b2 = b
  BY <1>3, <1>4 DEF Fingerprint, Made
<1>6. c2 = c \/ (me = NoMethod /\ p = NoUrl /\ h = <<>> /\ b = <<>>)
  BY <1>2, <1>3, <1>4, <1>5 DEF Parts
<1>7. c2 = c => [k EXCEPT !.strategy = m.strategy] = m
  BY <1>3, <1>4, <1>5 DEF Made
<1>8. me = NoMethod /\ p = NoUrl /\ h = <<>> /\ b = <<>> => m = Mutation(m.carries, m.strategy)
  BY <1>3 DEF Made, Mutation
<1> QED BY <1>6, <1>7, <1>8

\* A crawler task for every endpoint.
LEMMA Crawled ==
  ASSUME NEW b, NEW found, IsList(found)
  PROVE  /\ IsList(CrawlerTasks(b, found)) /\ DOMAIN CrawlerTasks(b, found) = DOMAIN found
         /\ \A i \in DOMAIN found : CrawlerTasks(b, found)[i] =
              GenTask("crawler", Method(found[i].method), TargetUrl(b, found[i].path), NoJwt, "P3")
<1> DEFINE made == CrawlerTasks(b, found)
<1>1. made = [i \in DOMAIN found |->
        GenTask("crawler", Method(found[i].method), TargetUrl(b, found[i].path), NoJwt, "P3")]
  BY DEF CrawlerTasks
<1>2. Len(found) \in Nat /\ DOMAIN found = 1..Len(found)
  BY ListShape
<1> HIDE DEF made
<1>3. made = [i \in 1..Len(found) |-> made[i]]
  BY <1>1, <1>2
<1>4. IsList(made) /\ DOMAIN made = DOMAIN found
  BY <1>2, <1>3, ListFunction
<1> QED BY <1>1, <1>4 DEF made

\* A task for every guarded endpoint and every token.
LEMMA Swapped ==
  ASSUME NEW b, NEW found, IsList(found)
  PROVE  /\ IsList(SwapTasks(b, found))
         /\ ToSet(SwapTasks(b, found)) =
              {GenTask("jwt", Method(found[i].method), SwapUrl(b, found[i].path), j, "P2") :
                 i \in {k \in DOMAIN found : found[k].auth}, j \in Jwts}
<1> DEFINE guarded == Picked(found, {i \in DOMAIN found : found[i].auth})
           jwts == SetToSeq(Jwts)
           Of(g, j) == GenTask("jwt", Method(g.method), SwapUrl(b, g.path), j, "P2")
           Row(g) == [j \in DOMAIN jwts |-> Of(g, jwts[j])]
           each == [i \in DOMAIN guarded |-> Row(guarded[i])]
<1>1. SwapTasks(b, found) = FlattenSeq(each)
  BY DEF SwapTasks
<1>2. /\ IsList(guarded)
      /\ ToSet(guarded) = {found[i] : i \in DOMAIN found \cap {k \in DOMAIN found : found[k].auth}}
  BY PickedMembers
<1>3. IsList(jwts) /\ ToSet(jwts) = Jwts
  BY SetListed, GenerationAssumption
<1> HIDE DEF guarded, jwts, Of
<1>4. ASSUME NEW g PROVE IsList(Row(g)) /\ ToSet(Row(g)) = {Of(g, j) : j \in Jwts}
  <2>1. Len(jwts) \in Nat /\ DOMAIN jwts = 1..Len(jwts)
    BY <1>3, ListShape
  <2>2. Row(g) = [j \in 1..Len(jwts) |-> Row(g)[j]] /\ DOMAIN Row(g) = DOMAIN jwts
    BY <2>1
  <2>3. IsList(Row(g))
    BY <2>1, <2>2, ListFunction
  <2>4. ToSet(Row(g)) = {Of(g, jwts[j]) : j \in DOMAIN jwts}
    BY DEF ToSet
  <2>5. {Of(g, jwts[j]) : j \in DOMAIN jwts} = {Of(g, j) : j \in Jwts}
    BY <1>3 DEF ToSet
  <2> QED BY <2>3, <2>4, <2>5
<1> HIDE DEF Row
<1>5. /\ IsList(each) /\ DOMAIN each = DOMAIN guarded
      /\ \A i \in DOMAIN each : each[i] = Row(guarded[i])
  <2>1. Len(guarded) \in Nat /\ DOMAIN guarded = 1..Len(guarded)
    BY <1>2, ListShape
  <2>2. each = [i \in 1..Len(guarded) |-> each[i]]
    BY <2>1
  <2> QED BY <2>1, <2>2, ListFunction
<1> HIDE DEF each
<1>6. /\ IsList(FlattenSeq(each))
      /\ ToSet(FlattenSeq(each)) = UNION {ToSet(each[i]) : i \in DOMAIN each}
  BY <1>4, <1>5, Flattened
<1>7. UNION {ToSet(each[i]) : i \in DOMAIN each}
        = {Of(found[i], j) : i \in {k \in DOMAIN found : found[k].auth}, j \in Jwts}
  <2>1. ASSUME NEW t, NEW i \in DOMAIN each, t \in ToSet(each[i])
        PROVE  \E k \in DOMAIN found, j \in Jwts : found[k].auth /\ t = Of(found[k], j)
    <3>1. PICK j \in Jwts : t = Of(guarded[i], j)
      BY <2>1, <1>4, <1>5
    <3>2. guarded[i] \in ToSet(guarded)
      BY <1>5 DEF ToSet
    <3> QED BY <3>1, <3>2, <1>2
  <2>2. ASSUME NEW k \in DOMAIN found, found[k].auth, NEW j \in Jwts
        PROVE  \E i \in DOMAIN each : Of(found[k], j) \in ToSet(each[i])
    <3>1. found[k] \in ToSet(guarded)
      BY <2>2, <1>2
    <3>2. PICK i \in DOMAIN guarded : guarded[i] = found[k]
      BY <3>1 DEF ToSet
    <3> QED BY <3>2, <1>4, <1>5
  <2> QED BY <2>1, <2>2
<1> QED BY <1>1, <1>6, <1>7 DEF Of

\* A mutated task has the URL of a path mutation, or none.
LEMMA Fuzzed ==
  ASSUME NEW b, GoodBase(b), NEW found, GoodList(found)
  PROVE  /\ IsList(FuzzTasks(b, found))
         /\ \A t \in ToSet(FuzzTasks(b, found)) :
              /\ t.kind = "fuzz"
              /\ t.url = NoUrl \/ \E i \in DOMAIN found : Near(t.url, TargetUrl(b, found[i].path))
<1> DEFINE made(i) == Mutate(FuzzRequest(b, found[i]))
           Row(i) == [j \in DOMAIN made(i) |-> FuzzTask(made(i)[j].mutation)]
           each == [i \in DOMAIN found |-> Row(i)]
<1>1. FuzzTasks(b, found) = FlattenSeq(each)
  BY DEF FuzzTasks
<1>2. ASSUME NEW i \in DOMAIN found
      PROVE  /\ IsList(Row(i))
             /\ \A t \in ToSet(Row(i)) :
                  t.kind = "fuzz" /\ (t.url = NoUrl \/ Near(t.url, TargetUrl(b, found[i].path)))
  <2> DEFINE r == FuzzRequest(b, found[i])
             url == TargetUrl(b, found[i].path)
             ms == Mutate(r)
             name == found[i].method
  <2>1. Fine(AllMutations(r), name, url)
    BY AllFine DEF GoodList
  <2> HIDE DEF r, url, name
  <2>2. /\ IsList(ms) /\ Len(ms) \in Nat
        /\ \A j \in DOMAIN ms : Shaped(ms[j].mutation, name, url)
    BY <2>1, Mutated DEF Fine
  <2>3. \A m : Shaped(m, name, url) =>
          FuzzTask(m).kind = "fuzz" /\ (FuzzTask(m).url = NoUrl \/ Near(FuzzTask(m).url, url))
    BY DEF Shaped, ByHeaders, ByBody, ByMethod, ByPath, ByOverride, Made, FuzzTask, GenTask
  <2> DEFINE row == [j \in DOMAIN ms |-> FuzzTask(ms[j].mutation)]
  <2> HIDE DEF ms
  <2>4. DOMAIN ms = 1..Len(ms)
    BY <2>2, ListShape
  <2>5. row = [j \in 1..Len(ms) |-> row[j]] /\ DOMAIN row = DOMAIN ms
        /\ \A j \in DOMAIN ms : row[j] = FuzzTask(ms[j].mutation)
    BY <2>4
  <2> HIDE DEF row
  <2>6. IsList(row)
    BY <2>2, <2>5, ListFunction
  <2>7. \A t \in ToSet(row) : t.kind = "fuzz" /\ (t.url = NoUrl \/ Near(t.url, url))
    <3> TAKE t \in ToSet(row)
    <3>1. PICK j \in DOMAIN ms : t = FuzzTask(ms[j].mutation)
      BY <2>5 DEF ToSet
    <3>2. Shaped(ms[j].mutation, name, url)
      BY <2>2
    <3> QED BY <2>3, <3>1, <3>2
  <2>8. Row(i) = row
    BY DEF row, ms, r
  <2> QED BY <2>6, <2>7, <2>8 DEF url
<1> HIDE DEF Row
<1>3. Len(found) \in Nat /\ DOMAIN found = 1..Len(found)
  BY ListShape DEF GoodList
<1>4. each = [i \in 1..Len(found) |-> each[i]] /\ \A i \in DOMAIN found : each[i] = Row(i)
  BY <1>3
<1> HIDE DEF each
<1>5. IsList(each) /\ DOMAIN each = DOMAIN found
  BY <1>3, <1>4, ListFunction
<1>6. /\ IsList(FlattenSeq(each))
      /\ ToSet(FlattenSeq(each)) = UNION {ToSet(each[i]) : i \in DOMAIN each}
  BY <1>2, <1>4, <1>5, Flattened
<1>7. ASSUME NEW t \in ToSet(FlattenSeq(each))
      PROVE  /\ t.kind = "fuzz"
             /\ t.url = NoUrl \/ \E i \in DOMAIN found : Near(t.url, TargetUrl(b, found[i].path))
  <2>1. PICK i \in DOMAIN found : t \in ToSet(Row(i))
    BY <1>4, <1>5, <1>6
  <2> QED BY <1>2, <2>1
<1> QED BY <1>1, <1>6, <1>7

-----------------------------------------------------------------------------
(* The parser.                                                             *)

\* What the parser returns of any document.
LEMMA Parsed ==
  ASSUME NEW doc \in Documents, NEW hint
  PROVE  GoodList(Parse(doc, hint).endpoints)
<1> DEFINE Kept(op) == op.method \in ValidMethods /\ op.details # "none"
           Ops(entry) == Picked(entry.ops, {i \in DOMAIN entry.ops : Kept(entry.ops[i])})
           One(entry, op) == [details |-> op.details, endpoint |-> DiscoveredEndpoint(doc, entry, op)]
           Of(entry) == [i \in DOMAIN Ops(entry) |-> One(entry, Ops(entry)[i])]
           each == [i \in DOMAIN doc.paths |-> Of(doc.paths[i])]
           GoodOps(s) == IsList(s) /\ \A o \in ToSet(s) : Good(o.endpoint)
<1>2. GoodList(<<>>)
  BY Tuples DEF GoodList
<1>3. ASSUME NEW entry \in PathItem PROVE GoodOps(Of(entry))
  <2> DEFINE ops == Ops(entry)
  <2>1. entry.ops \in Seq(OperationObject) /\ entry.pieces \in Seq(Piece)
    BY DEF PathItem
  <2>2. IsList(entry.ops)
    BY <2>1, ListOf
  <2>3. IsList(ops) /\ \A op \in ToSet(ops) : op.method \in ValidMethods
    BY <2>2, PickedMembers
  <2> HIDE DEF ops
  <2>4. Len(ops) \in Nat /\ DOMAIN ops = 1..Len(ops) /\ \A i \in DOMAIN ops : ops[i] \in ToSet(ops)
    BY <2>3, ListShape
  <2> DEFINE made == [i \in DOMAIN ops |-> One(entry, ops[i])]
  <2>5. made = [i \in 1..Len(ops) |-> made[i]]
    BY <2>4
  <2>6. \A i \in DOMAIN ops : Good(made[i].endpoint)
    BY <2>1, <2>3, <2>4 DEF Good, DiscoveredEndpoint, NormalizePath
  <2>7. DOMAIN made = DOMAIN ops
    OBVIOUS
  <2> HIDE DEF made
  <2>8. IsList(made)
    BY <2>4, <2>5, ListFunction
  <2>9. GoodOps(made)
    BY <2>6, <2>7, <2>8 DEF ToSet
  <2>10. made = Of(entry)
    BY DEF made, ops
  <2> QED BY <2>9, <2>10
<1>4. doc.paths \in Seq(PathItem)
  BY GenerationAssumption
<1> HIDE DEF Of
<1>5. /\ IsList(each) /\ DOMAIN each = DOMAIN doc.paths
      /\ \A i \in DOMAIN each : GoodOps(each[i])
  <2>1. IsList(doc.paths) /\ \A i \in DOMAIN doc.paths : doc.paths[i] \in PathItem
    BY <1>4, ListOf
  <2>2. Len(doc.paths) \in Nat /\ DOMAIN doc.paths = 1..Len(doc.paths)
    BY <2>1, ListShape
  <2>3. each = [i \in 1..Len(doc.paths) |-> each[i]]
    BY <2>2
  <2>4. \A i \in DOMAIN doc.paths : each[i] = Of(doc.paths[i])
    OBVIOUS
  <2> HIDE DEF each, GoodOps
  <2>5. IsList(each) /\ DOMAIN each = DOMAIN doc.paths
    BY <2>2, <2>3, ListFunction
  <2> QED BY <2>1, <2>4, <2>5, <1>3
<1>6. Operations(doc) = FlattenSeq(each)
  BY DEF Operations, Of
<1> HIDE DEF each
<1>7. GoodOps(Operations(doc))
  BY <1>5, <1>6, Flattened
<1>8. ASSUME NEW found, GoodOps(found) PROVE GoodOps(Unseen(found))
  <2> DEFINE prints == [i \in DOMAIN found |-> <<found[i].endpoint.method, found[i].endpoint.path>>]
  <2>1. Unseen(found) = Picked(found, Firsts(prints))
    BY DEF Unseen
  <2>2. IsList(Unseen(found)) /\ ToSet(Unseen(found)) \subseteq ToSet(found)
    BY <1>8, <2>1, PickedMembers DEF ToSet
  <2> QED BY <1>8, <2>2
<1> DEFINE kept == Unseen(Operations(doc))
           eps == [i \in DOMAIN kept |-> kept[i].endpoint]
<1>9. GoodOps(kept)
  BY <1>7, <1>8
<1>10. doc.root = "object" => Parse(doc, hint).endpoints = eps
  BY DEF Parse
<1>11. doc.root # "object" => Parse(doc, hint).endpoints = <<>>
  BY GenerationAssumption DEF Parse
<1> HIDE DEF kept
<1>12. GoodList(eps)
  <2>1. Len(kept) \in Nat /\ DOMAIN kept = 1..Len(kept) /\ \A i \in DOMAIN kept : kept[i] \in ToSet(kept)
    BY <1>9, ListShape
  <2>2. eps = [i \in 1..Len(kept) |-> eps[i]] /\ DOMAIN eps = DOMAIN kept
        /\ \A i \in DOMAIN kept : eps[i] = kept[i].endpoint
    BY <2>1
  <2> HIDE DEF eps
  <2>3. IsList(eps)
    BY <2>1, <2>2, ListFunction
  <2> QED BY <1>9, <2>1, <2>2, <2>3 DEF GoodList
<1> QED BY <1>2, <1>10, <1>11, <1>12

-----------------------------------------------------------------------------
(* The handler.                                                            *)

\* The endpoints are the parser's, or the source itself, which needs no token.
FoundInv ==
  /\ source \in Sources /\ base \in Bases /\ fallback \in BOOLEAN
  /\ GoodList(endpoints)
  /\ fallback => /\ stage \notin {"scan", "load", "probe"}
                 /\ \A i \in DOMAIN endpoints : endpoints[i].auth = FALSE

\* Every task is made by one of the three makers, and the first two have made all of
\* theirs by the time the tasks are submitted.
Crawling == ToSet(CrawlerTasks(CrawlBase, endpoints))
Swapping == ToSet(SwapTasks(base, endpoints))
Fuzzing  == ToSet(FuzzTasks(base, endpoints))
Reached(stages) == stage \in stages \/ reply = 202
TasksMade ==
  /\ reply # 0 => stage = "end"
  /\ stage \in {"scan", "load", "probe", "crawl"} => tasks = <<>>
  /\ IsList(tasks) /\ ToSet(tasks) \subseteq Crawling \cup Swapping \cup Fuzzing
  /\ Reached({"swap", "fuzz", "submit"}) => Crawling \subseteq ToSet(tasks)
  /\ Reached({"fuzz", "submit"}) => Swapping \subseteq ToSet(tasks)

GenInv == FoundInv /\ TasksMade

\* Both base URLs are pieces.
LEMMA BasesGood ==
  ASSUME FoundInv
  PROVE  GoodBase(base) /\ GoodBase(CrawlBase)
<1>1. {source.authority, source.path} \subseteq Seq(Piece) /\ {base.authority, base.path} \subseteq Seq(Piece)
  BY GenerationAssumption DEF FoundInv
<1>2. <<>> \in Seq(Piece)
  OBVIOUS
<1> QED BY <1>1, <1>2 DEF GoodBase, CrawlBase

\* At first nothing is found and nothing made.
LEMMA GenInitInv == GenInit => GenInv
<1> SUFFICES ASSUME GenInit PROVE GenInv
  OBVIOUS
<1>1. IsList(<<>>) /\ ToSet(<<>>) = {} /\ DOMAIN <<>> = {}
  BY Tuples
<1>2. FoundInv
  BY <1>1 DEF GenInit, FoundInv, GoodList
<1>3. tasks = <<>> /\ stage = "scan" /\ reply = 0
  BY DEF GenInit
<1> QED BY <1>1, <1>2, <1>3 DEF GenInv, TasksMade, Reached

\* Every step of the handler keeps the invariant.
LEMMA GenStep == GenInv /\ [GenNext]_genVars => GenInv'
<1> SUFFICES ASSUME GenInv, [GenNext]_genVars PROVE GenInv'
  OBVIOUS
<1> USE DEF GenInv
<1>0. IsList(<<>>) /\ ToSet(<<>>) = {} /\ DOMAIN <<>> = {}
  BY Tuples
<1>1. ASSUME LookUpScan \/ LoadSpec \/ Probe \/ FallBack PROVE GenInv'
  <2>0. stage \in {"scan", "load", "probe"} /\ tasks = <<>> /\ reply = 0
    BY <1>1 DEF TasksMade, LookUpScan, LoadSpec, Probe, FallBack
  <2>1. /\ tasks' = <<>>
        /\ stage' \in {"load", "probe", "crawl", "end"}
        /\ reply' # 0 => stage' = "end"
        /\ reply' # 202
    <3>1. CASE LookUpScan
      BY <3>1, <2>0 DEF LookUpScan, Replies
    <3>2. CASE LoadSpec
      <4>1. (stage' = "crawl" /\ reply' = reply) \/ Replies(500) \/ \E hint : NothingFound(hint)
        BY <3>2 DEF LoadSpec
      <4>2. \A hint : NothingFound(hint) => (stage' = "probe" /\ reply' = reply) \/ Replies(400)
        BY DEF NothingFound
      <4>3. tasks' = tasks
        BY <3>2 DEF LoadSpec
      <4> QED BY <4>1, <4>2, <4>3, <2>0 DEF Replies
    <3>3. CASE Probe
      <4>1. stage = "probe" /\ tasks' = tasks /\ reply' = reply
        BY <3>3 DEF Probe
      <4>2. stage' = "crawl" \/ stage' = stage
        BY <3>3 DEF Probe
      <4> QED BY <4>1, <4>2, <2>0
    <3>4. CASE FallBack
      BY <3>4, <2>0 DEF FallBack
    <3> QED BY <1>1, <3>1, <3>2, <3>3, <3>4
  <2>2. FoundInv'
    <3>1. CASE LookUpScan
      BY <3>1 DEF LookUpScan, FoundInv
    <3>2. CASE LoadSpec
      <4>1. /\ UNCHANGED <<source, base, fallback>> /\ stage = "load"
            /\ \E doc \in Documents :
                 endpoints' \in {endpoints, Parse(doc, source.kind = "url" /\ source.json).endpoints}
        BY <3>2 DEF LoadSpec, NothingFound
      <4>2. GoodList(endpoints')
        BY <4>1, Parsed DEF FoundInv
      <4> QED BY <4>1, <4>2 DEF FoundInv
    <3>3. CASE Probe
      <4>1. /\ UNCHANGED <<source, base, fallback>> /\ stage = "probe"
            /\ \E doc \in Documents : endpoints' \in {endpoints, Parse(doc, TRUE).endpoints}
        BY <3>3 DEF Probe
      <4>2. GoodList(endpoints')
        BY <4>1, Parsed DEF FoundInv
      <4> QED BY <4>1, <4>2 DEF FoundInv
    <3>4. CASE FallBack
      <4> DEFINE ep == [method |-> "GET", path |-> source.path, auth |-> FALSE,
                        required |-> FALSE, schema |-> FALSE]
      <4>1. /\ UNCHANGED <<source, base>> /\ fallback' = TRUE /\ stage' = "crawl"
            /\ endpoints' = <<ep>>
        BY <3>4 DEF FallBack
      <4>2. IsList(<<ep>>) /\ DOMAIN <<ep>> = {1} /\ <<ep>>[1] = ep
        <5> HIDE DEF ep
        <5> QED BY Tuples
      <4>3. ep.method \in ValidMethods /\ ep.path \in Seq(Piece) /\ ep.auth = FALSE
        <5>1. source.path \in Seq(Piece)
          BY GenerationAssumption DEF FoundInv
        <5> QED BY <5>1 DEF ValidMethods
      <4> HIDE DEF ep
      <4>4. GoodList(endpoints') /\ \A i \in DOMAIN endpoints' : endpoints'[i].auth = FALSE
        BY <4>1, <4>2, <4>3 DEF GoodList, Good
      <4> QED BY <4>1, <4>4 DEF FoundInv
    <3> QED BY <1>1, <3>1, <3>2, <3>3, <3>4
  <2>3. TasksMade'
    <3>1. IsList(tasks') /\ ToSet(tasks') = {}
      BY <2>1, <1>0
    <3> QED BY <2>1, <3>1 DEF TasksMade, Reached
  <2> QED BY <2>2, <2>3
<1>2. ASSUME Crawl PROVE GenInv'
  <2>1. FoundInv' /\ Crawling' = Crawling /\ Swapping' = Swapping /\ Fuzzing' = Fuzzing
    BY <1>2 DEF Crawl, FoundInv, CrawlBase, Crawling, Swapping, Fuzzing
  <2>2. tasks' = CrawlerTasks(CrawlBase, endpoints) /\ stage' = "swap" /\ reply' = 0
    BY <1>2 DEF Crawl, TasksMade
  <2>3. IsList(tasks') /\ ToSet(tasks') = Crawling
    BY <2>2, Crawled DEF Crawling, FoundInv, GoodList
  <2> QED BY <2>1, <2>2, <2>3 DEF TasksMade, Reached
<1>3. ASSUME Swap PROVE GenInv'
  <2>1. FoundInv' /\ Crawling' = Crawling /\ Swapping' = Swapping /\ Fuzzing' = Fuzzing
    BY <1>3 DEF Swap, FoundInv, CrawlBase, Crawling, Swapping, Fuzzing
  <2>2. tasks' = tasks \o SwapTasks(base, endpoints) /\ stage = "swap" /\ stage' = "fuzz" /\ reply' = 0
    BY <1>3 DEF Swap, TasksMade
  <2>3. IsList(SwapTasks(base, endpoints))
    BY Swapped DEF FoundInv, GoodList
  <2>4. IsList(tasks') /\ ToSet(tasks') = ToSet(tasks) \cup Swapping
    BY <2>2, <2>3, ListConcat DEF TasksMade, Swapping
  <2> QED BY <2>1, <2>2, <2>4 DEF TasksMade, Reached
<1>4. ASSUME Fuzz PROVE GenInv'
  <2>1. FoundInv' /\ Crawling' = Crawling /\ Swapping' = Swapping /\ Fuzzing' = Fuzzing
    BY <1>4 DEF Fuzz, FoundInv, CrawlBase, Crawling, Swapping, Fuzzing
  <2>2. /\ tasks' = tasks \/ tasks' = tasks \o FuzzTasks(base, endpoints)
        /\ stage = "fuzz" /\ stage' = "submit" /\ reply' = 0
    BY <1>4 DEF Fuzz, TasksMade
  <2>3. IsList(FuzzTasks(base, endpoints))
    BY Fuzzed, BasesGood DEF FoundInv
  <2>4. IsList(tasks') /\ ToSet(tasks) \subseteq ToSet(tasks')
        /\ ToSet(tasks') \subseteq ToSet(tasks) \cup Fuzzing
    <3>1. IsList(tasks)
      BY DEF TasksMade
    <3>2. CASE tasks' = tasks
      BY <3>1, <3>2
    <3>3. CASE tasks' = tasks \o FuzzTasks(base, endpoints)
      <4>1. ToSet(tasks') = ToSet(tasks) \cup Fuzzing /\ IsList(tasks')
        BY <3>1, <3>3, <2>3, ListConcat DEF Fuzzing
      <4> QED BY <4>1
    <3> QED BY <2>2, <3>2, <3>3
  <2> QED BY <2>1, <2>2, <2>4 DEF TasksMade, Reached
<1>5. ASSUME SubmitAll PROVE GenInv'
  <2>1. FoundInv' /\ Crawling' = Crawling /\ Swapping' = Swapping /\ Fuzzing' = Fuzzing
    BY <1>5 DEF SubmitAll, Replies, FoundInv, CrawlBase, Crawling, Swapping, Fuzzing
  <2>2. tasks' = tasks /\ stage = "submit" /\ stage' = "end"
    BY <1>5 DEF SubmitAll, Replies
  <2> QED BY <2>1, <2>2 DEF TasksMade, Reached
<1>6. ASSUME UNCHANGED genVars PROVE GenInv'
  BY <1>6 DEF genVars, FoundInv, TasksMade, Reached, Crawling, Swapping, Fuzzing, CrawlBase
<1> QED BY <1>1, <1>2, <1>3, <1>4, <1>5, <1>6 DEF GenNext

\* So it always holds.
LEMMA GenInvariant == GenSpec => []GenInv
BY GenInitInv, GenStep, PTL DEF GenSpec

\* A scan that is accepted has, for every guarded endpoint, the request without token
\* and one with each token, letter by letter for one URL, unless base_url ends with a
\* slash: SwapsMeetCrawler, for any documents, sources and tokens.
THEOREM SwapsAlwaysMeetCrawler == GenSpec => []SwapsMeetCrawler
<1>1. GenInv => SwapsMeetCrawler
  <2> SUFFICES ASSUME GenInv, reply = 202, ~base.slash, NEW i \in DOMAIN endpoints, endpoints[i].auth
               PROVE  \E c \in TasksOf("crawler") :
                        /\ c.method = Method(endpoints[i].method)
                        /\ \A j \in Jwts : \E t \in TasksOf("jwt") :
                             t.url = c.url /\ t.method = c.method /\ t.token = j
    BY DEF SwapsMeetCrawler
  <2> DEFINE ep == endpoints[i]
             c == GenTask("crawler", Method(ep.method), TargetUrl(base, ep.path), NoJwt, "P3")
             t(j) == GenTask("jwt", Method(ep.method), SwapUrl(base, ep.path), j, "P2")
  <2>1. ~fallback /\ CrawlBase = base
    BY DEF GenInv, FoundInv, CrawlBase
  <2>2. IsList(endpoints)
    BY DEF GenInv, FoundInv, GoodList
  <2>3. Crawling \subseteq ToSet(tasks) /\ Swapping \subseteq ToSet(tasks)
    BY DEF GenInv, TasksMade, Reached
  <2>4. c \in Crawling
    BY <2>1, <2>2, Crawled DEF Crawling, ToSet
  <2>5. \A j \in Jwts : t(j) \in Swapping
    BY <2>2, Swapped DEF Swapping
  <2>6. \A kind, x : x \in ToSet(tasks) /\ x.kind = kind => x \in TasksOf(kind)
    BY DEF TasksOf, ToSet
  <2>7. c \in TasksOf("crawler") /\ \A j \in Jwts : t(j) \in TasksOf("jwt")
    BY <2>3, <2>4, <2>5, <2>6 DEF GenTask
  <2>8. SwapUrl(base, ep.path) = TargetUrl(base, ep.path)
    <3>1. SwapUrl(base, ep.path) = [TargetUrl(base, ep.path) EXCEPT !.form = "plain"]
      BY DEF SwapUrl
    <3>2. ASSUME NEW a, NEW p, NEW s, NEW f
          PROVE  [[authority |-> a, path |-> p, suffix |-> s, form |-> f] EXCEPT !.form = f]
                   = [authority |-> a, path |-> p, suffix |-> s, form |-> f]
      OBVIOUS
    <3> QED BY <3>1, <3>2 DEF TargetUrl, UrlOf
  <2>9. \A j \in Jwts : t(j).url = c.url /\ t(j).method = c.method /\ t(j).token = j
    BY <2>8 DEF GenTask
  <2>10. c.method = Method(ep.method)
    BY DEF GenTask
  <2> QED BY <2>7, <2>9, <2>10
<1> QED BY <1>1, GenInvariant, PTL

\* Every request goes to the host and port that it is meant for, but for mutations that
\* name no host, and for those of a URL in whose host or port the digits of its last
\* number, or of its last version, are found: StaysOnTarget.
THEOREM AlwaysStaysOnTarget == GenSpec => []StaysOnTarget
<1>1. GenInv => StaysOnTarget
  <2> DEFINE Goes(t) ==
        \/ SameAuthority(t.url.authority, IF t.kind = "crawler" THEN CrawlBase.authority
                                          ELSE base.authority)
        \/ t.kind = "fuzz" /\ t.url.authority = <<>>
        \/ t.kind = "fuzz" /\ \E e \in DOMAIN endpoints, k \in NumberKinds :
             /\ Astray(TargetUrl(base, endpoints[e].path), k)
             /\ t.url.path = TargetUrl(base, endpoints[e].path).path
  <2> SUFFICES ASSUME GenInv PROVE StaysOnTarget
    OBVIOUS
  <2>1. GoodBase(base) /\ GoodBase(CrawlBase) /\ GoodList(endpoints)
    BY BasesGood DEF GenInv, FoundInv
  <2>2. \A a : SameAuthority(a, a)
    BY DEF SameAuthority
  <2>3. \A t \in Crawling : Goes(t)
    <3>1. \A i \in DOMAIN endpoints : TargetUrl(CrawlBase, endpoints[i].path).authority = CrawlBase.authority
      BY DEF TargetUrl, UrlOf
    <3>2. \A t \in Crawling : t.kind = "crawler" /\ t.url.authority = CrawlBase.authority
      <4> TAKE t \in Crawling
      <4>1. PICK i \in DOMAIN endpoints : t = CrawlerTasks(CrawlBase, endpoints)[i]
        BY <2>1, Crawled DEF Crawling, ToSet, GoodList
      <4>2. t = GenTask("crawler", Method(endpoints[i].method),
                        TargetUrl(CrawlBase, endpoints[i].path), NoJwt, "P3")
        BY <2>1, <4>1, Crawled DEF GoodList
      <4> QED BY <3>1, <4>2 DEF GenTask
    <3> QED BY <2>2, <3>2
  <2>4. \A t \in Swapping : Goes(t)
    <3>1. \A path : SwapUrl(base, path).authority = base.authority
      BY DEF SwapUrl, TargetUrl, UrlOf
    <3>2. \A t \in Swapping : t.kind = "jwt" /\ t.url.authority = base.authority
      BY <2>1, <3>1, Swapped DEF Swapping, GoodList, GenTask
    <3> QED BY <2>2, <3>2
  <2>5. \A t \in Fuzzing : Goes(t)
    <3> TAKE t \in Fuzzing
    <3>1. /\ t.kind = "fuzz"
          /\ t.url = NoUrl \/ \E i \in DOMAIN endpoints : Near(t.url, TargetUrl(base, endpoints[i].path))
      BY <2>1, Fuzzed DEF Fuzzing
    <3>2. \A i \in DOMAIN endpoints : TargetUrl(base, endpoints[i].path).authority = base.authority
      BY DEF TargetUrl, UrlOf
    <3>3. NoUrl.authority = <<>>
      BY DEF NoUrl, UrlOf
    <3> QED BY <3>1, <3>2, <3>3 DEF Near
  <2>6. \A t \in ToSet(tasks) : Goes(t)
    BY <2>3, <2>4, <2>5 DEF GenInv, TasksMade
  <2>7. \A i \in DOMAIN tasks : Goes(tasks[i])
    BY <2>6 DEF ToSet
  <2> QED BY <2>7 DEF StaysOnTarget, NumberKinds
<1> QED BY <1>1, GenInvariant, PTL

\* The engine drops a mutation only if it keeps one that sets the same parts to the same
\* values, or if it empties what it carries: MutationsSurvive, for any lists of payloads
\* and any endpoints.
THEOREM MutationsAlwaysSurvive == GenSpec => []MutationsSurvive
<1>1. GenInv => MutationsSurvive
  <2> SUFFICES ASSUME GenInv, NEW i \in DOMAIN endpoints
               PROVE  LET request == FuzzRequest(base, endpoints[i])
                          kept    == Mutate(request)
                      IN  \A m \in ToSet(AllMutations(request)) :
                            \/ m = Mutation(m.carries, m.strategy)
                            \/ \E k \in DOMAIN kept : [kept[k].mutation EXCEPT !.strategy = m.strategy] = m
    BY DEF MutationsSurvive
  <2> DEFINE request == FuzzRequest(base, endpoints[i])
             kept == Mutate(request)
             name == endpoints[i].method
             url == TargetUrl(base, endpoints[i].path)
  <2>1. Good(endpoints[i])
    BY DEF GenInv, FoundInv, GoodList
  <2>2. Fine(AllMutations(request), name, url)
    BY <2>1, AllFine, BasesGood DEF GenInv
  <2>3. name \in ValidMethods
    BY <2>1 DEF Good
  <2> HIDE DEF request, name, url
  <2>4. /\ \A j \in DOMAIN kept : kept[j].mutation \in ToSet(AllMutations(request))
        /\ \A m \in ToSet(AllMutations(request)) :
             \E j \in DOMAIN kept : Fingerprint(kept[j].mutation) = Fingerprint(m)
    BY <2>2, Mutated DEF Fine
  <2> HIDE DEF kept
  <2>5. ASSUME NEW m \in ToSet(AllMutations(request))
        PROVE  \/ m = Mutation(m.carries, m.strategy)
               \/ \E k \in DOMAIN kept : [kept[k].mutation EXCEPT !.strategy = m.strategy] = m
    <3>1. PICK k \in DOMAIN kept : Fingerprint(kept[k].mutation) = Fingerprint(m)
      BY <2>4
    <3>2. Shaped(m, name, url) /\ Shaped(kept[k].mutation, name, url)
      BY <2>2, <2>4 DEF Fine
    <3> QED BY <2>3, <3>1, <3>2, SamePrint
  <2> QED BY <2>5 DEF kept, request
<1> QED BY <1>1, GenInvariant, PTL

=============================================================================
