---------------------------- MODULE RequestWindow ----------------------------
(***************************************************************************)
(* rate_limit_middleware: per client address a deque with the times of the *)
(* requests let through in the last 60 seconds.  The middleware runs       *)
(* between two awaits, so a request is one step.                           *)
(*                                                                         *)
(* The monotonic clock, a float, is counted in fractions of a second.      *)
(***************************************************************************)
EXTENDS Naturals, Sequences

CONSTANTS
  Client,        \* client addresses
  Limit,         \* RATE_LIMIT_PER_MINUTE
  Second,        \* ticks of the clock in a second
  Window,        \* the window in ticks (60 seconds)
  MaxTime        \* bound on the clock

ASSUME WindowAssumption == Limit \in Nat \ {0} /\ Second \in Nat \ {0} /\ Window \in Nat

VARIABLES
  time,          \* time.monotonic()
  bucket,        \* _rate_buckets
  passed,        \* history: when the requests of a client were let through
  promise        \* history: when a refused client may come back, by Retry-After

windowVars == <<time, bucket, passed, promise>>

WindowInit ==
  /\ time = 0
  /\ bucket = [c \in Client |-> <<>>]
  /\ passed = [c \in Client |-> <<>>]
  /\ promise = [c \in Client |-> 0]

Oldest(I) == CHOOSE i \in I : \A j \in I : i <= j

\* Mutant of Kept: an entry of exactly one window ago is dropped.
KeptShorter(c) ==
  LET b    == bucket[c]
      live == {i \in 1..Len(b) : time - b[i] < Window}
  IN  IF live = {} THEN <<>> ELSE SubSeq(b, Oldest(live), Len(b))

\* while now - bucket[0] > window: popleft
Kept(c) ==
  LET b    == bucket[c]
      live == {i \in 1..Len(b) : time - b[i] <= Window}
  IN  IF live = {} THEN <<>> ELSE SubSeq(b, Oldest(live), Len(b))

\* Mutant of RetryAfter: rounded down.
RetryAfterFloor(b) == (Window - (time - b[1])) \div Second

\* int(window - (now - bucket[0])) + 1, in seconds
RetryAfter(b) == (Window - (time - b[1])) \div Second + 1

Full(c) == Len(Kept(c)) >= Limit

LetThrough(c) ==
  /\ ~Full(c)
  /\ bucket' = [bucket EXCEPT ![c] = Append(Kept(c), time)]
  /\ passed' = [passed EXCEPT ![c] = Append(@, time)]
  /\ promise' = [promise EXCEPT ![c] = 0]
  /\ UNCHANGED time

Refuse(c) ==
  /\ Full(c)
  /\ bucket' = [bucket EXCEPT ![c] = Kept(c)]
  /\ promise' = [promise EXCEPT ![c] = time + RetryAfter(Kept(c)) * Second]
  /\ UNCHANGED <<time, passed>>

Tick ==
  /\ time < MaxTime
  /\ time' = time + 1
  /\ UNCHANGED <<bucket, passed, promise>>

WindowNext ==
  \/ \E c \in Client : LetThrough(c) \/ Refuse(c)
  \/ Tick

WindowSpec == WindowInit /\ [][WindowNext]_windowVars
-----------------------------------------------------------------------------
(* Properties.                                                             *)

\* No span of one window, its two ends included, holds more than Limit requests of a
\* client that were let through.
WindowHolds ==
  \A c \in Client : \A i \in 1..(Len(passed[c]) - Limit) :
    passed[c][i + Limit] - passed[c][i] > Window

\* A refused client that waits as long as Retry-After says is let through, unless
\* another request of its address took the place: the seconds are rounded the safe way.
RetryAfterIsEnough ==
  [][\A c \in Client : Refuse(c) => promise[c] = 0 \/ time < promise[c]]_windowVars
=============================================================================
