----------------------------- MODULE EventStream -----------------------------
(***************************************************************************)
(* Live progress: a worker coroutine loads a row, commits its status and   *)
(* then publishes an event on the scan's channel; scan_event_generator     *)
(* subscribes, says "connected" and relays what it receives.  Redis keeps  *)
(* nothing for a subscriber that is not there, a failed publication is     *)
(* only logged, the API commits some statuses without any event, and a     *)
(* generator that fails ends the stream.                                   *)
(*                                                                         *)
(* A status is the number of times the row's status has changed, 0 for a   *)
(* task that is not yet inserted.  After the deletion of a scan there is   *)
(* no row left to speak about; it is left out.                             *)
(***************************************************************************)
EXTENDS Naturals, Sequences

CONSTANTS
  Writer,        \* worker coroutines
  TaskRow,       \* the rows of tasks
  ScanRow,       \* the scan's row
  MaxStatus,     \* bound: changes of a status
  MaxPending,    \* bound: events in the channel
  MaxBreaks      \* bound: streams that end

Row == TaskRow \cup {ScanRow}
ASSUME ScanRowAssumption == ScanRow \notin TaskRow

VARIABLES
  db,            \* each row's status in the database
  work,          \* each worker's session, from its load to its event
  stream,        \* the statements of Opening the generator has executed
  channel,       \* events received by the subscription, not yet relayed
  told,          \* history: what was stored at "connected", then what was relayed
  unsure,        \* history: rows whose last change since then has no sure event
  breaks         \* streams that have ended

streamVars == <<db, work, stream, channel, told, unsure, breaks>>

\* `alone`: nobody else has had the row at work since it was loaded.
NoSession == [stage |-> "idle", row |-> ScanRow, status |-> 0, alone |-> TRUE]

StreamInit ==
  /\ db = [r \in Row |-> IF r = ScanRow THEN 1 ELSE 0]
  /\ work = [w \in Writer |-> NoSession]
  /\ stream = 0
  /\ channel = <<>>
  /\ told = [r \in Row |-> 0]
  /\ unsure = {}
  /\ breaks = 0

-----------------------------------------------------------------------------
(* The writers.                                                            *)

Has(w, r) == work[w].stage # "idle" /\ work[w].row = r

\* Nobody that is at work on r is alone with it any more.
Disturbed(r) == [w \in Writer |-> IF Has(w, r) THEN [work[w] EXCEPT !.alone = FALSE] ELSE work[w]]

\* session.get of _mark_task_processing, _update_task_status, _save_response and
\* _evaluate_scan_completion: any row, as a task may be promoted twice.
Load(w, r) ==
  /\ work[w] = NoSession
  /\ db[r] > 0
  /\ work' = [Disturbed(r) EXCEPT
       ![w] = [stage |-> "loaded", row |-> r, status |-> db[r],
               alone |-> \A v \in Writer : ~Has(v, r)]]
  /\ UNCHANGED <<db, stream, channel, told, unsure, breaks>>

\* session.commit() of the same.  A status equal to the loaded one is not written,
\* whatever the row holds by then, but its event follows all the same.
Commit(w) ==
  /\ work[w].stage = "loaded"
  /\ \/ /\ db[work[w].row] < MaxStatus
        /\ db' = [db EXCEPT ![work[w].row] = @ + 1]
        /\ work' = [work EXCEPT ![w].stage = "committed",
                                ![w].status = db[work[w].row] + 1]
     \/ /\ work' = [work EXCEPT ![w].stage = "committed"]
        /\ UNCHANGED db
  /\ UNCHANGED <<stream, channel, told, unsure, breaks>>

\* A database error is rolled back and logged; an evaluation may end without a verdict.
GiveUp(w) ==
  /\ work[w].stage = "loaded"
  /\ work' = [work EXCEPT ![w] = NoSession]
  /\ UNCHANGED <<db, stream, channel, told, unsure, breaks>>

\* submit_tasks tells nobody that it commits the scan as RUNNING, maybe from a stale
\* PENDING, and that it inserts tasks as QUEUED.
SilentCommit(r) ==
  /\ r = ScanRow \/ db[r] = 0
  /\ db[r] < MaxStatus
  /\ db' = [db EXCEPT ![r] = @ + 1]
  /\ work' = Disturbed(r)
  /\ unsure' = unsure \cup {r}
  /\ UNCHANGED <<stream, channel, told, breaks>>

-----------------------------------------------------------------------------
(* The stream.                                                             *)

\* Mutant of Opening: "connected" is sent before the subscription.
OpeningSwapped == <<"connected", "subscribe">>

\* What the generator does before it relays.
Opening == <<"subscribe", "connected">>

Did(statement) == \E i \in 1..stream : Opening[i] = statement
Listening      == Did("subscribe")

\* redis.publish reaches who is subscribed, or fails and is logged.
Publish(w) ==
  LET r == work[w].row
  IN  /\ work[w].stage = "committed"
      /\ Len(channel) < MaxPending
      /\ \/ /\ channel' = IF Listening THEN Append(channel, [row |-> r, status |-> work[w].status])
                                       ELSE channel
            /\ unsure' = IF work[w].alone THEN unsure \ {r} ELSE unsure \cup {r}
         \/ /\ unsure' = unsure \cup {r}
            /\ UNCHANGED channel
      /\ work' = [work EXCEPT ![w] = NoSession]
      /\ UNCHANGED <<db, stream, told, breaks>>

\* GET /stream/scan/{scan_id}, and the generator's next statement.
Open ==
  /\ stream < Len(Opening)
  /\ stream' = stream + 1
  /\ unsure' = IF stream = 0 THEN {} ELSE unsure
  /\ told' = IF Opening[stream + 1] = "connected" THEN db ELSE told
  /\ UNCHANGED <<db, work, channel, breaks>>

\* get_message answers what the subscription has received, in order; it is yielded.
Relay ==
  /\ stream = Len(Opening)
  /\ channel # <<>>
  /\ told' = [told EXCEPT ![Head(channel).row] = Head(channel).status]
  /\ channel' = Tail(channel)
  /\ UNCHANGED <<db, work, stream, unsure, breaks>>

\* An exception in the generator, or the reader goes away: unsubscribe, close.
Break ==
  /\ stream > 0
  /\ breaks < MaxBreaks
  /\ breaks' = breaks + 1
  /\ stream' = 0
  /\ channel' = <<>>
  /\ UNCHANGED <<db, work, told, unsure>>

StreamNext ==
  \/ \E w \in Writer : \/ \E r \in Row : Load(w, r)
                       \/ Commit(w) \/ GiveUp(w) \/ Publish(w)
  \/ \E r \in Row : SilentCommit(r)
  \/ Open \/ Relay \/ Break

StreamSpec == StreamInit /\ [][StreamNext]_streamVars
-----------------------------------------------------------------------------
(* Properties.                                                             *)

\* What was stored when "connected" was sent, with the events relayed since, is what is
\* stored, once the channel is empty and no session is open: no event falls between the
\* subscription and "connected", and one that is relayed late is followed by the one
\* that corrects it (scan_event_generator; the publications of engine.py).  Except for a
\* row whose last change was committed by the API, which publishes none, whose event
\* failed, or whose writers overlapped: their events may come in another order than
\* their commits, or name a status that one of them loaded and did not write.
QuietStreamIsComplete ==
  /\ stream = Len(Opening) /\ channel = <<>>
  /\ \A w \in Writer : work[w] = NoSession
  => \A r \in Row \ unsure : told[r] = db[r]
=============================================================================
