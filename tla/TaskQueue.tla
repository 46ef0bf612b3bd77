------------------------------ MODULE TaskQueue ------------------------------
(***************************************************************************)
(* The Redis keys of one task queue and the code that uses them: four      *)
(* lists in FIFO order, polled in one of four weighted orders, and the     *)
(* delayed sorted set, kept as a sequence in score order whose first `due` *)
(* members have reached their score.                                       *)
(*                                                                         *)
(* A payload is a model value; a retry is the same value again, as nothing *)
(* here looks at its attempt counter.                                      *)
(***************************************************************************)
EXTENDS Naturals, Sequences, FiniteSets, SequencesExt

CONSTANTS
  Payload,       \* the payloads that circulate
  LevelOf,       \* LevelOf[p]: the payload's priority_level
  Consumer,      \* the consume() loops, one per WorkerEngine
  Capacity,      \* the permits of an engine's semaphore
  PromoteBatch,  \* num of the ZRANGEBYSCORE (50 in the code)
  MaxBatch       \* bound: payloads of one publish_batch

List  == {"critical", "high", "medium", "low"}
Level == {"P1", "P2", "P3", "P4", "other"}

ASSUME QueueAssumption ==
  /\ IsFiniteSet(Payload)
  /\ LevelOf \in [Payload -> Level]
  /\ Capacity \in Nat \ {0}
  /\ PromoteBatch \in Nat \ {0}
  /\ MaxBatch \in Nat \ {0}

VARIABLES
  lists,     \* the priority lists
  delayed,   \* the sorted set, by score
  due,       \* how many of its members have reached their score
  at,        \* where each consume() is
  read,      \* the due_tasks it has read
  cutoff,    \* the members whose score is at most its `now`
  hand       \* the payloads its engine has in hand

vars == <<lists, delayed, due, at, read, cutoff, hand>>

-----------------------------------------------------------------------------

ListOf(level) ==
  CASE level = "P1" -> "critical"
    [] level = "P2" -> "high"
    [] level = "P4" -> "low"
    [] OTHER        -> "medium"

\* QueuePublisher._get_priority_queue.
PublishList(p) == ListOf(LevelOf[p])

\* QueueConsumer._get_priority_queue, the consumer's own copy of the mapping, with a
\* mutant that has another default.
PromoteListOther(p) == IF LevelOf[p] = "other" THEN "low" ELSE ListOf(LevelOf[p])
PromoteList(p) == ListOf(LevelOf[p])

\* _get_poll_queues, with a mutant whose first list is always critical.
PollOrdersStrict == {<<"critical", "high", "medium", "low">>}
PollOrders ==
  { <<"critical", "high", "medium", "low">>,
    <<"high", "critical", "medium", "low">>,
    <<"medium", "critical", "high", "low">>,
    <<"low", "critical", "high", "medium">> }

Queued  == (UNION {ToSet(lists[l]) : l \in List}) \cup ToSet(delayed)
InHand  == UNION {hand[c] : c \in Consumer}
Outside == Payload \ (Queued \cup InHand)

Init ==
  /\ lists = [l \in List |-> <<>>]
  /\ delayed = <<>>
  /\ due = 0
  /\ at = [c \in Consumer |-> "consume"]
  /\ read = [c \in Consumer |-> <<>>]
  /\ cutoff = [c \in Consumer |-> {}]
  /\ hand = [c \in Consumer |-> {}]

\* The entries of s that are in S, in their order: SelectSeq without recursion, which
\* the proofs cannot follow.
PlacesOf(s, S) == {i \in DOMAIN s : s[i] \in S}
Rank(i, I)     == Cardinality({j \in I : j <= i})
Filtered(s, S) ==
  [k \in 1..Cardinality(PlacesOf(s, S)) |->
     s[CHOOSE i \in PlacesOf(s, S) : Rank(i, PlacesOf(s, S)) = k]]

\* The MULTI of RPUSHes, one per list, in batch order.
PushAll(batch, dest) ==
  lists' = [l \in List |-> lists[l] \o Filtered(batch, {p \in Payload : dest[p] = l})]

\* publish and publish_batch.
Publish ==
  /\ \E B \in SUBSET Outside :
       /\ B # {} /\ Cardinality(B) <= MaxBatch
       /\ \E batch \in SetToSeqs(B) : PushAll(batch, [p \in Payload |-> PublishList(p)])
  /\ UNCHANGED <<delayed, due, at, read, cutoff, hand>>

\* The clock reaches the lowest score that lies in the future.
BecomeDue ==
  /\ due < Len(delayed)
  /\ due' = due + 1
  /\ UNCHANGED <<lists, delayed, at, read, cutoff, hand>>

\* semaphore.acquire() before consume().
HasPermit(c) == Cardinality(hand[c]) < Capacity

\* consume, with a permit: ZRANGEBYSCORE 0 now LIMIT 0 50.
ReadDue(c) ==
  /\ at[c] = "consume"
  /\ HasPermit(c)
  /\ at' = [at EXCEPT ![c] = IF due = 0 THEN "poll" ELSE "promote"]
  /\ read' = [read EXCEPT ![c] = SubSeq(delayed, 1, IF due < PromoteBatch
                                                      THEN due ELSE PromoteBatch)]
  /\ cutoff' = [cutoff EXCEPT ![c] = {delayed[i] : i \in 1..due}]
  /\ UNCHANGED <<lists, delayed, due, hand>>

\* Mutant of Removed: the range is taken with a new `now`.
RemovedLate(c) == {delayed[i] : i \in 1..due}

\* ZREMRANGEBYSCORE 0 now, with the `now` of the read.
Removed(c) == cutoff[c]

\* The MULTI that moves due payloads.
Promote(c) ==
  /\ at[c] = "promote"
  /\ at' = [at EXCEPT ![c] = "poll"]
  /\ PushAll(read[c], [p \in Payload |-> PromoteList(p)])
  /\ delayed' = Filtered(delayed, Payload \ Removed(c))
  /\ due' = due - Cardinality({i \in 1..due : delayed[i] \in Removed(c)})
  /\ read' = [read EXCEPT ![c] = <<>>]
  /\ cutoff' = [cutoff EXCEPT ![c] = {}]
  /\ UNCHANGED hand

\* The Redis list of a BLPOP with several keys: the first that is not empty.
FirstNonEmpty(order) ==
  order[CHOOSE i \in DOMAIN order : /\ lists[order[i]] # <<>>
                                    /\ \A j \in 1..(i - 1) : lists[order[j]] = <<>>]

\* BLPOP in one of the poll orders.
Pop(c, order) ==
  /\ at[c] = "poll"
  /\ \E l \in List : lists[l] # <<>>
  /\ LET l == FirstNonEmpty(order) IN
       /\ hand' = [hand EXCEPT ![c] = @ \cup {Head(lists[l])}]
       /\ lists' = [lists EXCEPT ![l] = Tail(@)]
  /\ at' = [at EXCEPT ![c] = "consume"]
  /\ UNCHANGED <<delayed, due, read, cutoff>>

\* BLPOP times out: consume returns None.
PopTimeout(c) ==
  /\ at[c] = "poll"
  /\ \A l \in List : lists[l] = <<>>
  /\ at' = [at EXCEPT ![c] = "consume"]
  /\ UNCHANGED <<lists, delayed, due, read, cutoff, hand>>

\* schedule_delayed: ZADD with a score in the future; an old member moves there.
ScheduleDelayed(c, p) ==
  /\ p \in hand[c]
  /\ hand' = [hand EXCEPT ![c] = @ \ {p}]
  /\ LET others == Filtered(delayed, Payload \ {p})
         first  == Cardinality({i \in 1..due : delayed[i] # p})
     IN /\ \E i \in first..Len(others) : delayed' = InsertAt(others, i + 1, p)
        /\ due' = first
  /\ cutoff' = [d \in Consumer |-> cutoff[d] \ {p}]
  /\ UNCHANGED <<lists, at, read>>

\* The worker is done with a payload, and another task may have its place.
Settle(c, p) ==
  /\ p \in hand[c]
  /\ hand' = [hand EXCEPT ![c] = @ \ {p}]
  /\ UNCHANGED <<lists, delayed, due, at, read, cutoff>>

Poll(c) == \E order \in PollOrders : Pop(c, order)

Next ==
  \/ Publish
  \/ BecomeDue
  \/ \E c \in Consumer :
       \/ ReadDue(c) \/ Promote(c) \/ Poll(c) \/ PopTimeout(c)
       \/ \E p \in Payload : ScheduleDelayed(c, p) \/ Settle(c, p)

Spec == Init /\ [][Next]_vars

\* A consumer never stops; every payload in hand is settled or given back; time
\* passes; and a random order that has positive probability comes up again and
\* again (strong fairness of each order, which _get_poll_queues owes to random()).
Fairness ==
  /\ WF_vars(BecomeDue)
  /\ \A c \in Consumer :
       /\ WF_vars(ReadDue(c) \/ Promote(c) \/ Poll(c) \/ PopTimeout(c))
       /\ \A order \in PollOrders : SF_vars(Pop(c, order))
       /\ \A p \in Payload : WF_vars(ScheduleDelayed(c, p) \/ Settle(c, p))

FairSpec == Spec /\ Fairness

-----------------------------------------------------------------------------
(* Properties.                                                             *)

\* With one consumer, the keys and the two-step promotion implement the queue that
\* delivers each payload once and loses none.
Abstract == INSTANCE WorkQueue WITH held <- Queued, taken <- InHand
ImplementsWorkQueue == Abstract!Spec

\* A payload waits in the list of its priority, whichever of the two copies of the
\* mapping has put it there.
RightList == \A l \in List : \A p \in ToSet(lists[l]) : ListOf(LevelOf[p]) = l

\* The docstring of _get_poll_queues ("to prevent starvation"): a payload in any
\* list is delivered, however much keeps arriving in the lists above it.
NoStarvation ==
  \A p \in Payload : p \in ToSet(lists[ListOf(LevelOf[p])]) ~> p \in InHand

\* The comment on the pipeline ("to ensure atomicity"): promotion is atomic, so that
\* a payload is in the queue once or in one worker's hands.
DeliveredOnce ==
  \A p \in Payload :
    /\ ~(p \in Queued /\ p \in InHand)
    /\ \A c, d \in Consumer : p \in hand[c] /\ p \in hand[d] => c = d
=============================================================================
