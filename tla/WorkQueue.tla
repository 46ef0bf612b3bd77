------------------------------ MODULE WorkQueue ------------------------------
(***************************************************************************)
(* What QueuePublisher and QueueConsumer promise to the rest of the        *)
(* engine: a payload that is published or scheduled is delivered to one    *)
(* worker, once, and is in the queue until then.                           *)
(***************************************************************************)
CONSTANT Payload

VARIABLES
  held,      \* payloads in the queue, ready or delayed
  taken      \* payloads delivered to a worker that has not settled them yet

vars == <<held, taken>>

Init == held = {} /\ taken = {}

\* publish, publish_batch: payloads that nobody holds.
Put(B) ==
  /\ B \cap (held \cup taken) = {}
  /\ held' = held \cup B
  /\ UNCHANGED taken

\* consume: one payload leaves the queue.
Deliver(p) ==
  /\ p \in held
  /\ held' = held \ {p}
  /\ taken' = taken \cup {p}

\* schedule_delayed: its worker gives a payload back.
Return(p) ==
  /\ p \in taken
  /\ taken' = taken \ {p}
  /\ held' = held \cup {p}

\* Its worker has settled a payload.
Settle(p) ==
  /\ p \in taken
  /\ taken' = taken \ {p}
  /\ UNCHANGED held

Next ==
  \/ \E B \in SUBSET Payload : Put(B)
  \/ \E p \in Payload : Deliver(p) \/ Return(p) \/ Settle(p)

Spec == Init /\ [][Next]_vars
=============================================================================
