-------------------------- MODULE RateLimiterProofs --------------------------
(***************************************************************************)
(* The invariants and action properties of RateLimiter, for any number of  *)
(* engines, coroutines, domains and scans, any rates and any token size.   *)
(***************************************************************************)
EXTENDS RateLimiter, FiniteSetTheorems, TLAPS

\* A script is sent with a time that has been, and so is every refill.
TimesPast == /\ \A c \in Coroutine : call[c].now <= clock
             /\ \A b \in Backend, k \in Key : bucket[b][k].last <= clock

\* A coroutine asks one of the buckets of its request.
Turns(c) == Len(KeysOf(c))
TurnInRange == \A c \in Coroutine : call[c].turn <= Turns(c)

\* The account of a bucket: what was taken and what it still holds is the capacity
\* and the refill up to last_refill; a bucket that is not used holds a capacity.
\* `slack` is the time that late scripts made it count again.
Gain(k, x) == Capacity(k) * x
Covered(b, k, slack) ==
  LET r == bucket[b][k]
  IN  IF r.used THEN taken[b][k] + r.tokens <= Gain(k, 1 + r.last + slack)
      ELSE taken[b][k] <= Gain(k, clock + slack)
AccountsHold == \A k \in Key : Covered("redis", k, back[k]) /\ Covered("local", k, 0)

\* What bucket k gains in d ticks with multiplier m.
Inflow(k, m, d) == d * Rate[k] * m

\* A hash with a TTL, written by no 429 since, is full again when the TTL runs out.
FullAtExpiry ==
  \A k \in Key \ slowed :
    LET r == bucket["redis"][k]
    IN  r.expires # 0 =>
          /\ r.used /\ clock < r.expires
          /\ Capacity(k) <= r.tokens + Inflow(k, r.mult, r.expires - r.last)

\* A report that is not stale is about to halve the multiplier the hash has.
SeenIsCurrent ==
  \A c \in Coroutine \ stale :
    call[c].pc = "hset" => call[c].seen = bucket["redis"][DomainOf[c]].mult

\* The global bucket has been paid for every token of a scan's bucket and for every
\* coroutine that is on its way there.
Ahead == {c \in Coroutine : call[c].turn > 1}
Price(n) == Token * n
GlobalPaid ==
  scanned + Price(Cardinality(Ahead)) <= taken["redis"][Global] + taken["local"][Global]

LimiterInv == /\ TypeOK /\ TimesPast /\ TurnInRange /\ GlobalPaid
              /\ AccountsHold /\ FullAtExpiry /\ SeenIsCurrent

-----------------------------------------------------------------------------
(* The operators of the model.                                             *)

\* acquire asks two or three buckets.
LEMMA KeysType ==
  ASSUME NEW c \in Coroutine
  PROVE  /\ Turns(c) \in 2..3
         /\ \A i \in 1..Turns(c) : KeysOf(c)[i] \in Key
BY LimiterAssumption DEF Turns, KeysOf, Key

\* report_429 keeps the multiplier between its floor and one.
LEMMA HalvedType ==
  ASSUME NEW m \in Lowest..Full
  PROVE  Halved(m) \in Lowest..Full /\ Halved(m) <= m
BY DEF Halved, Lowest, Full

\* The TTL that a grant sets outlives the refill of an empty bucket.
LEMMA LifetimeFills ==
  ASSUME NEW r \in BucketType
  PROVE  Lifetime(r) \in Nat \ {0} /\ Lifetime(r) * r.mult >= Full
<1>1. r.mult \in 4..40
  BY DEF BucketType, Full, Lowest
<1> QED BY <1>1 DEF Lifetime, Full

\* Every bucket holds and gains something.
LEMMA CapacityType ==
  ASSUME NEW k \in Key
  PROVE  Capacity(k) \in Nat \ {0} /\ Rate[k] \in Nat \ {0}
BY LimiterAssumption DEF Capacity, Full

\* A refill adds nothing to a bucket whose last_refill is later, at most a capacity
\* per tick, and never fills it beyond its capacity.
LEMMA RefillBounds ==
  ASSUME NEW k \in Key, NEW r \in BucketType, r.tokens <= Capacity(k), NEW t \in Nat
  PROVE  /\ Refilled(r, k, t) \in Nat /\ Refilled(r, k, t) <= Capacity(k)
         /\ ~r.used => Refilled(r, k, t) = Capacity(k)
         /\ r.used /\ t <= r.last => Refilled(r, k, t) = r.tokens
         /\ r.used /\ r.last < t =>
              /\ Refilled(r, k, t) <= r.tokens + Gain(k, t - r.last)
              /\ \/ Refilled(r, k, t) = Capacity(k)
                 \/ Refilled(r, k, t) = r.tokens + (t - r.last) * Rate[k] * r.mult
<1>1. /\ r.tokens \in Nat /\ r.last \in Nat /\ r.mult \in Nat /\ r.mult <= Full
      /\ r.used \in BOOLEAN
  BY DEF BucketType, Full, Lowest
<1>2. Capacity(k) \in Nat /\ Rate[k] \in Nat
  BY CapacityType
<1>3. CASE r.used /\ r.last < t
  <2> DEFINE d == t - r.last
             gain == d * Rate[k] * r.mult
  <2>1. d \in Nat
    BY <1>1, <1>3
  <2>2. gain \in Nat /\ gain <= d * Capacity(k)
    <3>1. d * Rate[k] \in Nat
      BY <1>2, <2>1
    <3> HIDE DEF d
    <3>2. (d * Rate[k]) * r.mult <= (d * Rate[k]) * Full
      BY <1>1, <3>1 DEF Full
    <3>3. (d * Rate[k]) * Full = d * Capacity(k)
      BY <1>2, <2>1 DEF Capacity, Full
    <3> QED BY <1>1, <3>1, <3>2, <3>3
  <2>3. Refilled(r, k, t) = LeastOf(Capacity(k), r.tokens + gain)
    BY <1>1, <1>3 DEF Refilled
  <2> HIDE DEF gain
  <2>4. /\ Refilled(r, k, t) \in Nat /\ Refilled(r, k, t) <= Capacity(k)
        /\ Refilled(r, k, t) <= r.tokens + gain
        /\ Refilled(r, k, t) = Capacity(k) \/ Refilled(r, k, t) = r.tokens + gain
    BY <1>1, <1>2, <2>2, <2>3 DEF LeastOf
  <2>5. Refilled(r, k, t) <= r.tokens + Gain(k, t - r.last)
    <3>1. Gain(k, d) = d * Capacity(k) /\ Gain(k, d) \in Nat
      BY <1>2, <2>1 DEF Gain
    <3>2. d = t - r.last
      OBVIOUS
    <3> HIDE DEF d
    <3>3. gain <= Gain(k, d)
      BY <2>2, <3>1
    <3>4. Refilled(r, k, t) <= r.tokens + Gain(k, d)
      BY <1>1, <2>2, <2>4, <3>1, <3>3
    <3> QED BY <3>2, <3>4
  <2> QED BY <1>1, <1>3, <2>4, <2>5 DEF gain
<1>4. CASE ~(r.used /\ r.last < t)
  BY <1>1, <1>2, <1>4 DEF Refilled, LeastOf
<1> QED BY <1>3, <1>4

\* What a bucket gains grows with time, and adds up.
LEMMA Gains ==
  ASSUME NEW k \in Key, NEW x \in Nat, NEW y \in Nat
  PROVE  /\ Gain(k, x) \in Nat
         /\ Gain(k, x + 1) = Gain(k, x) + Capacity(k)
         /\ Gain(k, x + y) = Gain(k, x) + Gain(k, y)
         /\ x <= y => Gain(k, x) <= Gain(k, y)
<1>1. Capacity(k) \in Nat
  BY CapacityType
<1>2. ASSUME NEW C \in Nat
      PROVE  /\ C * x \in Nat /\ C * (x + 1) = C * x + C /\ C * (x + y) = C * x + C * y
             /\ x <= y => C * x <= C * y
  OBVIOUS
<1> QED BY <1>1, <1>2 DEF Gain

-----------------------------------------------------------------------------
(* Types.                                                                  *)

\* A try keeps the bucket between nothing and its capacity.
LEMMA TriedBucket ==
  ASSUME TypeOK, NEW b \in Backend, NEW k \in Key, NEW t \in 0..clock
  PROVE  /\ AfterTry(b, k, t) \in BucketType
         /\ AfterTry(b, k, t).tokens <= Capacity(k)
<1> DEFINE r == bucket[b][k]
<1>1. r \in BucketType /\ r.tokens <= Capacity(k) /\ t \in Nat /\ clock \in Nat /\ Token \in Nat
  BY LimiterAssumption DEF TypeOK
<1>2. Refilled(r, k, t) \in Nat /\ Refilled(r, k, t) <= Capacity(k) /\ Capacity(k) \in Nat
  BY <1>1, RefillBounds, CapacityType
<1>3. Lifetime(r) \in Nat
  BY <1>1, LifetimeFills
<1> HIDE DEF r
<1>4. AfterTry(b, k, t) = [r EXCEPT !.used = TRUE,
                !.tokens = Refilled(r, k, t) - (IF Grants(r, k, t) THEN Token ELSE 0),
                !.last = t,
                !.expires = IF b = "redis" /\ Grants(r, k, t)
                              THEN clock + Lifetime(r) ELSE @]
  BY DEF AfterTry, r
<1>5. AfterTry(b, k, t) \in BucketType
  <2>1. AfterTry(b, k, t).tokens \in Nat /\ AfterTry(b, k, t).expires \in Nat
    BY <1>1, <1>2, <1>3, <1>4 DEF BucketType, Grants
  <2> QED BY <1>1, <1>4, <2>1 DEF BucketType
<1> QED BY <1>1, <1>2, <1>4, <1>5 DEF BucketType, Grants

\* The same of a report in a local bucket.
LEMMA ReportedBucket ==
  ASSUME TypeOK, NEW c \in Coroutine, ReportLocal(c)
  PROVE  /\ bucket' \in [Backend -> [Key -> BucketType]]
         /\ \A b \in Backend, k \in Key : bucket'[b][k].tokens <= Capacity(k)
         /\ bucket'["redis"] = bucket["redis"]
<1> DEFINE d == DomainOf[c]
           r == bucket["local"][d]
           new == [r EXCEPT !.used = TRUE, !.mult = Halved(@),
                            !.last = IF r.used THEN @ ELSE clock]
<1>1. d \in Key /\ r \in BucketType /\ clock \in Nat /\ r.tokens <= Capacity(d)
  BY LimiterAssumption DEF TypeOK, Key, Backend
<1>2. Halved(r.mult) \in Lowest..Full
  BY <1>1, HalvedType DEF BucketType
<1>3. new \in BucketType /\ new.tokens = r.tokens
  BY <1>1, <1>2 DEF BucketType
<1>4. bucket' = [bucket EXCEPT !["local"][d] = new]
  BY DEF ReportLocal
<1> HIDE DEF new
<1> QED BY <1>1, <1>3, <1>4 DEF TypeOK, Backend

\* A coroutine that begins or ends a scope, and one that moves to another place.
LEMMA AtType ==
  ASSUME NEW p \in Pc
  PROVE  At(p) \in CallType /\ At(p).turn = 1 /\ At(p).now = 0
BY LimiterAssumption DEF At, CallType, Full, Lowest

\* The types of a coroutine's record are kept by any change of it to a typed one.
LEMMA Moves ==
  ASSUME TypeOK, TurnInRange, NEW c \in Coroutine, NEW x, x \in CallType,
         x.turn = 1 \/ x.turn <= Turns(c), call' = [call EXCEPT ![c] = x]
  PROVE  call' \in [Coroutine -> CallType] /\ TurnInRange'
<1>1. x.turn <= Turns(c)
  BY KeysType DEF CallType
<1> QED BY <1>1 DEF TypeOK, TurnInRange

\* The records that the places of a coroutine change into.
LEMMA PlaceTypes ==
  ASSUME NEW x \in CallType, clock \in 0..MaxClock, NEW p \in Pc
  PROVE  /\ [x EXCEPT !.pc = p, !.now = 0] \in CallType
         /\ [x EXCEPT !.pc = p, !.now = clock] \in CallType
         /\ [x EXCEPT !.pc = p, !.turn = 1] \in CallType
<1>1. 0 \in 0..MaxClock /\ 1 \in 1..3
  BY LimiterAssumption
<1>2. [x EXCEPT !.pc = p, !.now = 0] \in CallType
  BY <1>1 DEF CallType
<1>3. [x EXCEPT !.pc = p, !.now = clock] \in CallType
  BY DEF CallType
<1>4. [x EXCEPT !.pc = p, !.turn = 1] \in CallType
  BY <1>1 DEF CallType
<1> QED BY <1>2, <1>3, <1>4

\* A coroutine that goes on to its next bucket keeps its type.
LEMMA NextTurn ==
  ASSUME NEW x \in CallType, x.turn < 3
  PROVE  /\ [x EXCEPT !.pc = "call", !.now = 0, !.turn = x.turn + 1] \in CallType
         /\ [x EXCEPT !.pc = "call", !.now = 0, !.turn = x.turn + 1].turn = x.turn + 1
<1>1. 0 \in 0..MaxClock /\ x.turn + 1 \in 1..3 /\ "call" \in Pc
  BY LimiterAssumption DEF CallType, Pc
<1> QED BY <1>1 DEF CallType

\* Each action gives its coroutine a typed record and leaves its turn in range.
LEMMA CallStep ==
  ASSUME TypeOK, TurnInRange, NEW c \in Coroutine, Step(c)
  PROVE  call' \in [Coroutine -> CallType] /\ TurnInRange'
<1> DEFINE Goal == call' \in [Coroutine -> CallType] /\ TurnInRange'
<1>1. /\ call[c] \in CallType /\ call[c].turn <= Turns(c) /\ clock \in 0..MaxClock
      /\ Turns(c) \in 2..3 /\ call[c].turn \in 1..3
  BY KeysType DEF TypeOK, TurnInRange, CallType
<1>2. {"load", "call", "evalsha", "sleep", "send", "hmget", "hset", "refused", "done"} \subseteq Pc
  BY DEF Pc
<1>3. ASSUME NEW p \in Pc, call' = [call EXCEPT ![c] = At(p)]
      PROVE  Goal
  <2>1. At(p) \in CallType /\ At(p).turn = 1
    BY AtType
  <2> QED BY <1>3, <2>1, Moves
<1>4. ASSUME call' = [call EXCEPT ![c] = [At("call") EXCEPT !.start = clock]]
      PROVE  Goal
  <2> DEFINE x == [At("call") EXCEPT !.start = clock]
  <2>1. At("call") \in CallType /\ At("call").turn = 1
    BY <1>2, AtType
  <2>2. x \in CallType
    BY <1>1, <2>1 DEF CallType
  <2>3. x.turn = 1
    BY <2>1 DEF CallType
  <2> HIDE DEF x
  <2> QED BY <1>4, <2>2, <2>3, Moves DEF x
<1>5. ASSUME NEW b, NEW t, Try(c, b, t)
      PROVE  Goal
  <2>1. CASE call' = [call EXCEPT ![c] = At("send")]
    BY <1>2, <1>3, <2>1
  <2>2. CASE call' = [call EXCEPT ![c] = [call[c] EXCEPT !.pc = "sleep", !.now = 0]]
    <3> DEFINE x == [call[c] EXCEPT !.pc = "sleep", !.now = 0]
    <3>1. x \in CallType /\ x.turn = call[c].turn
      BY <1>1, <1>2, PlaceTypes DEF CallType
    <3> HIDE DEF x
    <3> QED BY <1>1, <2>2, <3>1, Moves DEF x
  <2>3. CASE /\ call' = [call EXCEPT ![c] =
                         [call[c] EXCEPT !.pc = "call", !.now = 0, !.turn = call[c].turn + 1]]
             /\ call[c].turn # Turns(c)
    <3> DEFINE x == [call[c] EXCEPT !.pc = "call", !.now = 0, !.turn = call[c].turn + 1]
    <3>1. call[c].turn < 3 /\ call[c].turn + 1 <= Turns(c)
      BY <1>1, <2>3
    <3>2. x \in CallType /\ x.turn = call[c].turn + 1
      BY <1>1, <3>1, NextTurn
    <3> HIDE DEF x
    <3> QED BY <1>1, <2>3, <3>1, <3>2, Moves DEF x
  <2>4. \/ call' = [call EXCEPT ![c] = [call[c] EXCEPT !.pc = "sleep", !.now = 0]]
        \/ call' = [call EXCEPT ![c] = At("send")]
        \/ /\ call' = [call EXCEPT ![c] =
                         [call[c] EXCEPT !.pc = "call", !.now = 0, !.turn = call[c].turn + 1]]
           /\ call[c].turn # Turns(c)
    <3> DEFINE k == KeysOf(c)[call[c].turn]
    <3>1. CASE ~Grants(bucket[b][k], k, t)
      BY <1>5, <3>1 DEF Try, Turns
    <3>2. CASE Grants(bucket[b][k], k, t) /\ call[c].turn = Turns(c)
      BY <1>5, <3>2 DEF Try, Turns
    <3>3. CASE Grants(bucket[b][k], k, t) /\ call[c].turn # Turns(c)
      BY <1>5, <3>3 DEF Try, Turns
    <3> QED BY <3>1, <3>2, <3>3
  <2> QED BY <2>1, <2>2, <2>3, <2>4
<1>6. CASE SendScript(c)
  <2> DEFINE x == [call[c] EXCEPT !.pc = "evalsha", !.now = clock]
  <2>1. x \in CallType
    BY <1>1, <1>2, PlaceTypes
  <2>2. x.turn = call[c].turn
    BY <1>1 DEF CallType
  <2>3. call' = [call EXCEPT ![c] = x]
    BY <1>6 DEF SendScript
  <2> HIDE DEF x
  <2> QED BY <1>1, <2>1, <2>2, <2>3, Moves
<1>7. ASSUME Wake(c), WithinTimeout(c)
      PROVE  Goal
  <2> DEFINE x == [call[c] EXCEPT !.pc = "call", !.turn = 1]
  <2>1. x \in CallType
    BY <1>1, <1>2, PlaceTypes
  <2>2. x.turn = 1
    BY <1>1 DEF CallType
  <2>3. call' = [call EXCEPT ![c] = x]
    BY <1>7 DEF Wake
  <2> HIDE DEF x
  <2> QED BY <2>1, <2>2, <2>3, Moves
<1>8. CASE \/ Begin(c) \/ Loaded(c) \/ (Wake(c) /\ ~WithinTimeout(c))
           \/ Respond(c) \/ WriteMultiplier(c) \/ ReportFails(c)
  BY <1>2, <1>3, <1>4, <1>8 DEF Begin, Loaded, Wake, Respond, WriteMultiplier, ReportFails
<1>9. CASE ReadMultiplier(c)
  <2> DEFINE m == bucket["redis"][DomainOf[c]].mult
             x == [At("hset") EXCEPT !.seen = m]
  <2>1. m \in Lowest..Full
    BY LimiterAssumption DEF TypeOK, Backend, Key, BucketType
  <2>2. At("hset") \in CallType /\ At("hset").turn = 1
    BY <1>2, AtType
  <2>3. x \in CallType
    BY <2>1, <2>2 DEF CallType
  <2>4. x.turn = 1
    BY <2>2 DEF CallType
  <2>5. call' = [call EXCEPT ![c] = x]
    BY <1>9 DEF ReadMultiplier
  <2> HIDE DEF x
  <2> QED BY <2>3, <2>4, <2>5, Moves
<1> QED BY <1>5, <1>6, <1>7, <1>8, <1>9 DEF Step, RunScript, ScriptFails, TryLocal

\* Types are kept, the capacities of the buckets included.
LEMMA TypeStep ==
  ASSUME TypeOK, TimesPast, TurnInRange, [Next]_vars
  PROVE  TypeOK' /\ TurnInRange'
<1> USE DEF histVars
<1>1. ASSUME NEW c \in Coroutine, NEW b \in Backend, NEW t \in 0..clock, Try(c, b, t),
             backend' \in [Limiter -> Backend \cup {"unknown"}],
             call' \in [Coroutine -> CallType] /\ TurnInRange'
      PROVE  TypeOK' /\ TurnInRange'
  <2> DEFINE k == KeysOf(c)[call[c].turn]
             r == bucket[b][k]
  <2>1. k \in Key /\ call[c] \in CallType
    BY KeysType DEF TypeOK, TurnInRange, CallType
  <2>2. /\ bucket' \in [Backend -> [Key -> BucketType]]
        /\ \A d \in Backend, j \in Key : bucket'[d][j].tokens <= Capacity(j)
    BY <1>1, <2>1, TriedBucket DEF Try, TypeOK
  <2>3. taken' \in [Backend -> [Key -> Nat]]
    BY <1>1, <2>1, LimiterAssumption DEF Try, TypeOK
  <2>4. back' \in [Key -> Nat]
    <3>1. TooEarly(r, t) \in Nat
      BY <2>1 DEF TooEarly, TypeOK, BucketType
    <3> QED BY <1>1, <2>1, <3>1 DEF Try, TypeOK
  <2>5. scanned' \in Nat
    BY <1>1, LimiterAssumption DEF Try, TypeOK
  <2> QED BY <1>1, <2>1, <2>2, <2>3, <2>4, <2>5 DEF Try, TypeOK
<1>2. ASSUME NEW c \in Coroutine, RunScript(c) \/ ScriptFails(c) \/ TryLocal(c)
      PROVE  TypeOK' /\ TurnInRange'
  <2>1. call[c].now \in 0..clock /\ clock \in 0..clock
    BY DEF TimesPast, TypeOK, CallType
  <2>2. call' \in [Coroutine -> CallType] /\ TurnInRange'
    BY <1>2, CallStep DEF Step
  <2>3. backend' \in [Limiter -> Backend \cup {"unknown"}]
    BY <1>2 DEF RunScript, ScriptFails, TryLocal, TypeOK, Backend
  <2>4. PICK b \in Backend, t \in 0..clock : Try(c, b, t)
    BY <1>2, <2>1 DEF RunScript, ScriptFails, TryLocal, Backend
  <2> QED BY <1>1, <2>2, <2>3, <2>4
<1>3. ASSUME NEW c \in Coroutine, Begin(c) \/ Loaded(c) \/ SendScript(c) \/ Wake(c)
      PROVE  TypeOK' /\ TurnInRange'
  <2>1. call' \in [Coroutine -> CallType] /\ TurnInRange'
    BY <1>3, CallStep DEF Step
  <2> QED BY <1>3, <2>1, LimiterAssumption DEF Begin, Loaded, SendScript, Wake, TypeOK, Backend
<1>4. ASSUME NEW c \in Coroutine, Respond(c) \/ ReadMultiplier(c) \/ WriteMultiplier(c) \/ ReportFails(c)
      PROVE  TypeOK' /\ TurnInRange'
  <2>1. call' \in [Coroutine -> CallType] /\ TurnInRange'
    BY <1>4, CallStep DEF Step
  <2>2. /\ bucket' \in [Backend -> [Key -> BucketType]]
        /\ \A b \in Backend, k \in Key : bucket'[b][k].tokens <= Capacity(k)
    <3>1. CASE WriteMultiplier(c)
      <4>1. Halved(call[c].seen) \in Lowest..Full /\ DomainOf[c] \in Key
        BY HalvedType, LimiterAssumption DEF TypeOK, CallType, Key
      <4> DEFINE new == [bucket["redis"][DomainOf[c]] EXCEPT !.mult = Halved(call[c].seen)]
      <4>2. new \in BucketType /\ new.tokens = bucket["redis"][DomainOf[c]].tokens
        <5> DEFINE r == bucket["redis"][DomainOf[c]]
        <5>1. r \in BucketType
          BY <4>1 DEF TypeOK, Backend
        <5> HIDE DEF r
        <5>2. /\ [r EXCEPT !.mult = Halved(call[c].seen)] \in BucketType
              /\ [r EXCEPT !.mult = Halved(call[c].seen)].tokens = r.tokens
          BY <4>1, <5>1 DEF BucketType
        <5> QED BY <5>2 DEF r
      <4>3. bucket' = [bucket EXCEPT !["redis"][DomainOf[c]] = new]
        BY <3>1 DEF WriteMultiplier
      <4> HIDE DEF new
      <4> QED BY <4>1, <4>2, <4>3 DEF TypeOK, Backend
    <3>2. CASE ~WriteMultiplier(c)
      BY <1>4, <3>2, ReportedBucket DEF Respond, ReadMultiplier, ReportFails, TypeOK
    <3> QED BY <3>1, <3>2
  <2>3. /\ backend' \in [Limiter -> Backend \cup {"unknown"}]
        /\ stale' \subseteq Coroutine /\ slowed' \subseteq Key
    BY <1>4, LimiterAssumption
       DEF Respond, ReadMultiplier, WriteMultiplier, ReportFails, TypeOK, Backend, Key
  <2> QED BY <1>4, <2>1, <2>2, <2>3
          DEF Respond, ReadMultiplier, WriteMultiplier, ReportFails, TypeOK
<1>5. CASE Tick
  <2>1. NoBucket \in BucketType /\ \A k \in Key : NoBucket.tokens <= Capacity(k)
    BY CapacityType DEF NoBucket, BucketType, Full, Lowest
  <2> QED BY <1>5, <2>1, LimiterAssumption DEF Tick, TypeOK, TurnInRange, Backend
<1>6. CASE UNCHANGED vars
  BY <1>6 DEF vars, TypeOK, TurnInRange
<1> QED BY <1>2, <1>3, <1>4, <1>5, <1>6 DEF Next, Step

\* Times stay in the past: what is sent or written is the clock, or a time sent before.
LEMMA TimesPastStep ==
  ASSUME TypeOK, TimesPast, TurnInRange, [Next]_vars
  PROVE  TimesPast'
<1> USE DEF histVars
<1>1. ASSUME NEW c \in Coroutine, NEW b \in Backend, NEW t \in 0..clock, Try(c, b, t)
      PROVE  TimesPast'
  <2>1. KeysOf(c)[call[c].turn] \in Key /\ call[c] \in CallType
    BY KeysType DEF TypeOK, TurnInRange, CallType
  <2> QED BY <1>1, <2>1 DEF Try, AfterTry, TypeOK, TimesPast, BucketType, CallType, At
<1>2. ASSUME NEW c \in Coroutine, RunScript(c) \/ ScriptFails(c) \/ TryLocal(c)
      PROVE  TimesPast'
  <2>1. call[c].now \in 0..clock /\ clock \in 0..clock
    BY DEF TimesPast, TypeOK, CallType
  <2> QED BY <1>1, <1>2, <2>1 DEF RunScript, ScriptFails, TryLocal, Backend
<1>3. ASSUME NEW c \in Coroutine, \/ Begin(c) \/ Loaded(c) \/ SendScript(c) \/ Wake(c)
                                  \/ ReadMultiplier(c)
      PROVE  TimesPast'
  <2>1. clock' = clock /\ bucket' = bucket /\ clock \in Nat
    BY <1>3 DEF Begin, Loaded, SendScript, Wake, ReadMultiplier, TypeOK
  <2>2. call'[c].now <= clock
    <3>1. call[c] \in CallType /\ call[c].now <= clock /\ 0 <= clock /\ clock <= clock
      BY <2>1 DEF TypeOK, TimesPast
    <3>2. CASE Begin(c) \/ Loaded(c)
      BY <3>1, <3>2 DEF Begin, Loaded, TypeOK, At
    <3>3. CASE SendScript(c)
      BY <3>1, <3>3 DEF SendScript, TypeOK, CallType
    <3>4. CASE Wake(c) \/ ReadMultiplier(c)
      <4>1. call'[c].now = call[c].now \/ call'[c].now = 0
        <5>1. CASE Wake(c) /\ WithinTimeout(c)
          BY <3>1, <5>1 DEF Wake, TypeOK, CallType
        <5>2. CASE Wake(c) /\ ~WithinTimeout(c)
          BY <3>1, <5>2 DEF Wake, TypeOK, At
        <5>3. CASE ReadMultiplier(c)
          BY <3>1, <5>3 DEF ReadMultiplier, TypeOK, At
        <5> QED BY <3>4, <5>1, <5>2, <5>3
      <4> QED BY <3>1, <4>1
    <3> QED BY <1>3, <3>2, <3>3, <3>4
  <2>3. \A d \in Coroutine \ {c} : call'[d] = call[d]
    BY <1>3 DEF Begin, Loaded, SendScript, Wake, ReadMultiplier, TypeOK
  <2> QED BY <2>1, <2>2, <2>3 DEF TimesPast
<1>4. ASSUME NEW c \in Coroutine, Respond(c) \/ WriteMultiplier(c) \/ ReportFails(c)
      PROVE  TimesPast'
  <2>1. clock' = clock /\ \A d \in Coroutine : call'[d].now <= clock
    <3>1. clock' = clock /\ \A d \in Coroutine \ {c} : call'[d] = call[d]
      BY <1>4 DEF Respond, WriteMultiplier, ReportFails, TypeOK
    <3>2. call'[c] = At("done") \/ call'[c] = At("hmget")
      BY <1>4 DEF Respond, WriteMultiplier, ReportFails, TypeOK
    <3>3. 0 <= clock
      BY DEF TypeOK
    <3> QED BY <3>1, <3>2, <3>3 DEF TimesPast, At
  <2>2. \A b \in Backend, k \in Key : bucket'[b][k].last <= clock
    <3>1. CASE WriteMultiplier(c)
      BY <3>1, LimiterAssumption DEF WriteMultiplier, TypeOK, TimesPast, BucketType, Backend, Key
    <3>2. CASE ReportLocal(c)
      <4>1. clock <= clock
        BY DEF TypeOK
      <4> QED BY <3>2, <4>1, LimiterAssumption DEF ReportLocal, TypeOK, TimesPast, BucketType, Backend, Key
    <3>3. CASE bucket' = bucket
      BY <3>3 DEF TimesPast
    <3> QED BY <1>4, <3>1, <3>2, <3>3 DEF Respond, ReportFails
  <2> QED BY <2>1, <2>2 DEF TimesPast
<1>5. CASE Tick
  <2>1. \A b \in Backend, k \in Key : bucket'[b][k] = bucket[b][k] \/ bucket'[b][k] = NoBucket
    BY <1>5 DEF Tick, TypeOK, Backend
  <2> QED BY <1>5, <2>1 DEF Tick, TypeOK, TimesPast, CallType, BucketType, NoBucket
<1>6. CASE UNCHANGED vars
  BY <1>6 DEF vars, TimesPast
<1> QED BY <1>2, <1>3, <1>4, <1>5, <1>6 DEF Next, Step

-----------------------------------------------------------------------------
(* The account of a bucket.                                                *)

\* A try takes out of the bucket what it adds to what was taken; the refill is paid
\* by the time that passed, and what a late script refills again by `TooEarly`.
LEMMA CoveredAfterTry ==
  ASSUME TypeOK, TimesPast, NEW b \in Backend, NEW k \in Key, NEW t \in 0..clock,
         NEW slack \in Nat, Covered(b, k, slack)
  PROVE  taken[b][k] + Refilled(bucket[b][k], k, t)
           <= Gain(k, 1 + t + (slack + TooEarly(bucket[b][k], t)))
<1> DEFINE r == bucket[b][k]
           T == taken[b][k]
           C == Capacity(k)
<1>1. /\ r \in BucketType /\ r.tokens <= C /\ r.last <= clock /\ T \in Nat
      /\ clock \in Nat /\ t \in Nat /\ C \in Nat
  BY CapacityType DEF TypeOK, TimesPast
<1>2. r.tokens \in Nat /\ r.last \in Nat
  BY <1>1 DEF BucketType
<1> HIDE DEF r, T, C
<1>3. CASE ~r.used
  <2>1. TooEarly(r, t) = clock - t /\ Refilled(r, k, t) = C
    BY <1>3 DEF TooEarly, Refilled, C
  <2>2. 1 + t + (slack + (clock - t)) = (clock + slack) + 1
    BY <1>1
  <2>3. T <= Gain(k, clock + slack)
    BY <1>3 DEF Covered, r, T
  <2>4. Gain(k, (clock + slack) + 1) = Gain(k, clock + slack) + C /\ Gain(k, clock + slack) \in Nat
    <3>1. clock + slack \in Nat
      BY <1>1
    <3> QED BY <3>1, Gains DEF C
  <2>5. T + C <= Gain(k, (clock + slack) + 1)
    BY <1>1, <2>3, <2>4
  <2> QED BY <2>1, <2>2, <2>5 DEF r, T
<1>4. CASE r.used /\ t <= r.last
  <2>1. TooEarly(r, t) = r.last - t
    BY <1>1, <1>2, <1>4 DEF TooEarly
  <2>2. Refilled(r, k, t) = r.tokens
    BY <1>1, <1>4, RefillBounds DEF C
  <2>3. 1 + t + (slack + (r.last - t)) = 1 + r.last + slack
    BY <1>1, <1>2
  <2>4. T + r.tokens <= Gain(k, 1 + r.last + slack)
    BY <1>4 DEF Covered, r, T
  <2> QED BY <2>1, <2>2, <2>3, <2>4 DEF r, T
<1>5. CASE r.used /\ r.last < t
  <2>1. TooEarly(r, t) = 0
    BY <1>1, <1>2, <1>5 DEF TooEarly
  <2>2. Refilled(r, k, t) <= r.tokens + Gain(k, t - r.last) /\ Refilled(r, k, t) \in Nat
    BY <1>1, <1>5, RefillBounds DEF C
  <2>3. T + r.tokens <= Gain(k, 1 + r.last + slack)
    BY <1>5 DEF Covered, r, T
  <2>4. /\ 1 + t + (slack + 0) = (1 + r.last + slack) + (t - r.last)
        /\ 1 + r.last + slack \in Nat /\ t - r.last \in Nat
    BY <1>1, <1>2, <1>5
  <2>5. /\ Gain(k, (1 + r.last + slack) + (t - r.last))
             = Gain(k, 1 + r.last + slack) + Gain(k, t - r.last)
        /\ Gain(k, 1 + r.last + slack) \in Nat /\ Gain(k, t - r.last) \in Nat
    BY <2>4, Gains
  <2>6. T + Refilled(r, k, t) <= Gain(k, (1 + r.last + slack) + (t - r.last))
    BY <1>1, <1>2, <2>2, <2>3, <2>5
  <2> QED BY <2>1, <2>4, <2>6 DEF r, T
<1> QED BY <1>1, <1>2, <1>3, <1>4, <1>5

\* What Try writes.
LEMMA TryWrites ==
  ASSUME TypeOK, TurnInRange, NEW c \in Coroutine, NEW b \in Backend, NEW t \in 0..clock,
         Try(c, b, t)
  PROVE  \E k \in Key :
           /\ bucket'[b][k] = AfterTry(b, k, t)
           /\ taken'[b][k] = taken[b][k] + (IF Grants(bucket[b][k], k, t) THEN Token ELSE 0)
           /\ back'[k] = back[k] + (IF b = "redis" THEN TooEarly(bucket[b][k], t) ELSE 0)
           /\ slowed' = IF b = "redis" /\ Grants(bucket[b][k], k, t) THEN slowed \ {k} ELSE slowed
           /\ \A d \in Backend, j \in Key : (d # b \/ j # k) =>
                /\ bucket'[d][j] = bucket[d][j] /\ taken'[d][j] = taken[d][j]
           /\ \A j \in Key : j # k => back'[j] = back[j]
<1> DEFINE k == KeysOf(c)[call[c].turn]
<1>1. k \in Key
  <2>1. call[c].turn \in 1..Turns(c)
    BY KeysType DEF TypeOK, TurnInRange, CallType
  <2> QED BY <2>1, KeysType DEF Turns
<1>2. /\ bucket' = [bucket EXCEPT ![b][k] = AfterTry(b, k, t)]
      /\ taken' = [taken EXCEPT ![b][k] = @ + (IF Grants(bucket[b][k], k, t) THEN Token ELSE 0)]
      /\ back' = [back EXCEPT ![k] = @ + (IF b = "redis" THEN TooEarly(bucket[b][k], t) ELSE 0)]
      /\ slowed' = IF b = "redis" /\ Grants(bucket[b][k], k, t) THEN slowed \ {k} ELSE slowed
  BY DEF Try
<1> HIDE DEF k
<1> WITNESS k \in Key
<1> QED BY <1>1, <1>2 DEF TypeOK

\* The accounts are kept: a grant moves tokens from the bucket to the taken, a refill
\* adds what the time since last_refill gains, a new hash starts with a capacity.
LEMMA AccountsStep ==
  ASSUME TypeOK, TimesPast, TurnInRange, AccountsHold, [Next]_vars
  PROVE  AccountsHold'
<1> USE DEF histVars
<1>0. /\ clock \in Nat /\ {"redis", "local"} = Backend
      /\ \A b \in Backend, k \in Key :
           /\ bucket[b][k] \in BucketType /\ bucket[b][k].tokens <= Capacity(k)
           /\ bucket[b][k].last <= clock /\ bucket[b][k].last \in Nat /\ bucket[b][k].tokens \in Nat
           /\ taken[b][k] \in Nat /\ back[k] \in Nat
  BY DEF TypeOK, TimesPast, BucketType, Backend
<1>1. ASSUME NEW c \in Coroutine, NEW b \in Backend, NEW t \in 0..clock, Try(c, b, t),
             b = "local" => t = clock
      PROVE  AccountsHold'
  <2>1. PICK k \in Key :
           /\ bucket'[b][k] = AfterTry(b, k, t)
           /\ taken'[b][k] = taken[b][k] + (IF Grants(bucket[b][k], k, t) THEN Token ELSE 0)
           /\ back'[k] = back[k] + (IF b = "redis" THEN TooEarly(bucket[b][k], t) ELSE 0)
           /\ \A d \in Backend, j \in Key : (d # b \/ j # k) =>
                /\ bucket'[d][j] = bucket[d][j] /\ taken'[d][j] = taken[d][j]
           /\ \A j \in Key : j # k => back'[j] = back[j]
    BY <1>1, TryWrites
  <2>2. clock' = clock
    BY <1>1 DEF Try
  <2> DEFINE r == bucket[b][k]
             slack == IF b = "redis" THEN back[k] ELSE 0
             later == slack + TooEarly(r, t)
  <2>3. slack \in Nat /\ Covered(b, k, slack)
    BY <1>0 DEF AccountsHold
  <2>4. taken[b][k] + Refilled(r, k, t) <= Gain(k, 1 + t + later)
    BY <2>3, CoveredAfterTry
  <2>5. Refilled(r, k, t) \in Nat /\ Token \in Nat /\ t \in Nat
    BY <1>0, RefillBounds, LimiterAssumption
  <2>6. /\ bucket'[b][k].used /\ bucket'[b][k].last = t
        /\ taken'[b][k] + bucket'[b][k].tokens = taken[b][k] + Refilled(r, k, t)
    <3>1. r \in BucketType /\ taken[b][k] \in Nat
      BY <1>0
    <3>2. /\ bucket'[b][k].used /\ bucket'[b][k].last = t
          /\ bucket'[b][k].tokens = Refilled(r, k, t) - (IF Grants(r, k, t) THEN Token ELSE 0)
      BY <2>1, <3>1 DEF AfterTry, BucketType
    <3>3. taken'[b][k] = taken[b][k] + (IF Grants(r, k, t) THEN Token ELSE 0)
      BY <2>1
    <3> QED BY <2>5, <3>1, <3>2, <3>3
  <2>7. taken'[b][k] + bucket'[b][k].tokens <= Gain(k, 1 + t + later)
    BY <2>4, <2>6
  <2>9. IF b = "redis" THEN back'[k] = later ELSE later = 0 /\ back'[k] = back[k]
    BY <1>0, <1>1, <2>1 DEF TooEarly
  <2> HIDE DEF later
  <2>10. ASSUME NEW d \in Backend, NEW j \in Key, NEW s \in Nat, d # b \/ j # k, Covered(d, j, s)
         PROVE  Covered(d, j, s)'
    BY <2>1, <2>2, <2>10 DEF Covered
  <2>11. ASSUME NEW j \in Key
         PROVE  Covered("redis", j, back[j])' /\ Covered("local", j, 0)'
    <3>1. Covered("redis", j, back[j]) /\ Covered("local", j, 0)
      BY DEF AccountsHold
    <3>2. CASE j # k
      BY <1>0, <2>1, <2>10, <3>1, <3>2 DEF Covered
    <3>3. CASE j = k /\ b = "redis"
      <4>1. Covered("redis", k, back[k])'
        BY <2>6, <2>7, <2>9, <3>3 DEF Covered
      <4>2. Covered("local", k, 0)'
        BY <1>0, <2>10, <3>1, <3>3 DEF Covered
      <4> QED BY <3>3, <4>1, <4>2
    <3>4. CASE j = k /\ b = "local"
      <4>1. Covered("local", k, 0)'
        BY <2>6, <2>7, <2>9, <3>4 DEF Covered
      <4>2. Covered("redis", k, back[k])'
        BY <1>0, <2>1, <2>2, <2>9, <3>1, <3>4 DEF Covered
      <4> QED BY <3>4, <4>1, <4>2
    <3> QED BY <1>0, <3>2, <3>3, <3>4
  <2> QED BY <2>11 DEF AccountsHold
<1>2. ASSUME NEW c \in Coroutine, RunScript(c) \/ ScriptFails(c) \/ TryLocal(c)
      PROVE  AccountsHold'
  <2>1. call[c].now \in 0..clock /\ clock \in 0..clock
    BY DEF TimesPast, TypeOK, CallType
  <2> QED BY <1>0, <1>1, <1>2, <2>1 DEF RunScript, ScriptFails, TryLocal
<1>3. ASSUME UNCHANGED <<clock, bucket, taken, back>>
      PROVE  AccountsHold'
  BY <1>3 DEF AccountsHold, Covered
<1>4. ASSUME NEW c \in Coroutine, Begin(c) \/ Loaded(c) \/ SendScript(c) \/ Wake(c) \/ ReadMultiplier(c)
      PROVE  AccountsHold'
  BY <1>3, <1>4 DEF Begin, Loaded, SendScript, Wake, ReadMultiplier
<1>5. ASSUME NEW c \in Coroutine, ReportLocal(c), UNCHANGED <<clock, taken, back>>
      PROVE  AccountsHold'
  <2> DEFINE d == DomainOf[c]
             r == bucket["local"][d]
  <2>1. d \in Key /\ r \in BucketType
    BY <1>0, LimiterAssumption DEF Key
  <2>2. bucket' = [bucket EXCEPT !["local"][d] =
                     [r EXCEPT !.used = TRUE, !.mult = Halved(@),
                               !.last = IF r.used THEN @ ELSE clock]]
    BY <1>5 DEF ReportLocal
  <2>3. /\ bucket'["redis"] = bucket["redis"]
        /\ \A j \in Key \ {d} : bucket'["local"][j] = bucket["local"][j]
        /\ bucket'["local"][d].used /\ bucket'["local"][d].tokens = r.tokens
        /\ bucket'["local"][d].last = IF r.used THEN r.last ELSE clock
    BY <1>0, <2>1, <2>2 DEF TypeOK, BucketType
  <2>4. Covered("local", d, 0)'
    <3>1. Covered("local", d, 0)
      BY <2>1 DEF AccountsHold
    <3>2. CASE r.used
      BY <1>5, <2>3, <3>1, <3>2 DEF Covered
    <3>3. CASE ~r.used
      <4>1. taken["local"][d] <= Gain(d, clock + 0)
        BY <3>1, <3>3 DEF Covered
      <4>2. /\ Gain(d, clock + 1) = Gain(d, clock) + Capacity(d)
            /\ Gain(d, clock) \in Nat /\ Capacity(d) \in Nat
        BY <1>0, <2>1, Gains, CapacityType
      <4>3. clock + 0 = clock /\ 1 + clock + 0 = clock + 1
        BY <1>0
      <4>4. taken["local"][d] + r.tokens <= Gain(d, 1 + clock + 0)
        BY <1>0, <2>1, <4>1, <4>2, <4>3
      <4> QED BY <1>5, <2>3, <3>3, <4>4 DEF Covered
    <3> QED BY <3>2, <3>3
  <2> QED BY <1>5, <2>3, <2>4 DEF AccountsHold, Covered
<1>6. ASSUME NEW c \in Coroutine, Respond(c) \/ ReportFails(c)
      PROVE  AccountsHold'
  BY <1>3, <1>5, <1>6 DEF Respond, ReportFails
<1>7. ASSUME NEW c \in Coroutine, WriteMultiplier(c)
      PROVE  AccountsHold'
  <2>1. \A b \in Backend, k \in Key :
           /\ bucket'[b][k].used = bucket[b][k].used /\ bucket'[b][k].tokens = bucket[b][k].tokens
           /\ bucket'[b][k].last = bucket[b][k].last
    BY <1>0, <1>7, LimiterAssumption DEF WriteMultiplier, TypeOK, BucketType, Key
  <2> QED BY <1>0, <1>7, <2>1 DEF WriteMultiplier, AccountsHold, Covered
<1>8. CASE Tick
  <2>1. /\ clock' = clock + 1 /\ taken' = taken /\ back' = back
        /\ bucket'["local"] = bucket["local"]
        /\ \A k \in Key : \/ bucket'["redis"][k] = bucket["redis"][k]
                          \/ bucket'["redis"][k] = NoBucket
    BY <1>0, <1>8 DEF Tick, TypeOK
  <2>2. ASSUME NEW b \in Backend, NEW k \in Key, NEW s \in Nat, Covered(b, k, s)
        PROVE  bucket'[b][k] = bucket[b][k] \/ bucket'[b][k] = NoBucket => Covered(b, k, s)'
    <3>1. /\ Gain(k, clock + s) <= Gain(k, (clock + 1) + s)
          /\ Gain(k, 1 + bucket[b][k].last + s) <= Gain(k, (clock + 1) + s)
          /\ Gain(k, clock + s) \in Nat /\ Gain(k, (clock + 1) + s) \in Nat
          /\ Gain(k, 1 + bucket[b][k].last + s) \in Nat
      <4>1. /\ clock + s \in Nat /\ (clock + 1) + s \in Nat /\ 1 + bucket[b][k].last + s \in Nat
            /\ clock + s <= (clock + 1) + s /\ 1 + bucket[b][k].last + s <= (clock + 1) + s
        BY <1>0
      <4> QED BY <4>1, Gains
    <3>2. taken[b][k] <= Gain(k, (clock + 1) + s)
      BY <1>0, <2>2, <3>1 DEF Covered
    <3>3. bucket'[b][k] = bucket[b][k] => Covered(b, k, s)'
      BY <2>1, <2>2, <3>2 DEF Covered
    <3>4. bucket'[b][k] = NoBucket => Covered(b, k, s)'
      BY <2>1, <3>2 DEF Covered, NoBucket
    <3> QED BY <3>3, <3>4
  <2>3. ASSUME NEW k \in Key
        PROVE  Covered("redis", k, back[k])' /\ Covered("local", k, 0)'
    <3>1. Covered("redis", k, back[k]) /\ Covered("local", k, 0)
      BY DEF AccountsHold
    <3>2. Covered("local", k, 0)'
      BY <1>0, <2>1, <2>2, <3>1
    <3>3. back[k] \in Nat /\ back'[k] = back[k] /\ "redis" \in Backend
      BY <1>0, <2>1
    <3> QED BY <2>1, <2>2, <3>1, <3>2, <3>3 DEF Covered
  <2> QED BY <2>3 DEF AccountsHold
<1>9. CASE UNCHANGED vars
  BY <1>3, <1>9 DEF vars
<1> QED BY <1>2, <1>4, <1>6, <1>7, <1>8, <1>9 DEF Next, Step

-----------------------------------------------------------------------------
(* What a hash that expires would have held, and what a report has seen.   *)

\* The refill of a lifetime is at least the capacity, whenever the hash was written.
LEMMA LifetimeIsEnough ==
  ASSUME NEW k \in Key, NEW r \in BucketType, NEW d \in Nat, Lifetime(r) <= d
  PROVE  Capacity(k) <= Inflow(k, r.mult, d)
<1>1. /\ Lifetime(r) \in Nat /\ r.mult \in Nat /\ Lifetime(r) * r.mult >= Full
      /\ Rate[k] \in Nat
  BY LifetimeFills, CapacityType DEF BucketType, Full, Lowest
<1>2. ASSUME NEW l \in Nat, NEW m \in Nat, NEW n \in Nat, l <= d, l * m >= 40
      PROVE  40 * n <= d * n * m
  <2>1. l * m <= d * m /\ d * m \in Nat
    BY <1>2
  <2>2. 40 <= d * m
    BY <1>2, <2>1
  <2>3. 40 * n <= (d * m) * n
    BY <2>1, <2>2
  <2> QED BY <2>3
<1> QED BY <1>1, <1>2 DEF Capacity, Full, Inflow

\* A refill moves tokens from the time that is left to the bucket.
LEMMA RefillKeepsPromise ==
  ASSUME NEW k \in Key, NEW r \in BucketType, r.used, r.tokens <= Capacity(k),
         NEW t \in Nat, NEW e \in Nat, t < e, r.last < e,
         Capacity(k) <= r.tokens + Inflow(k, r.mult, e - r.last)
  PROVE  Capacity(k) <= Refilled(r, k, t) + Inflow(k, r.mult, e - t)
<1> DEFINE P == Rate[k] * r.mult
<1>1. /\ r.last \in Nat /\ r.tokens \in Nat /\ P \in Nat /\ Capacity(k) \in Nat
      /\ Rate[k] \in Nat /\ r.mult \in Nat
  BY CapacityType DEF BucketType, Full, Lowest
<1>2. ASSUME NEW a \in Nat, NEW b \in Nat, NEW c \in Nat, NEW p \in Nat
      PROVE  /\ a * b * c = a * (b * c) /\ a * p \in Nat
             /\ (a + b) * p = a * p + b * p
             /\ a <= b => a * p <= b * p
  OBVIOUS
<1>3. /\ Inflow(k, r.mult, e - r.last) = (e - r.last) * P
      /\ Inflow(k, r.mult, e - t) = (e - t) * P
      /\ (e - r.last) * P \in Nat /\ (e - t) * P \in Nat
  BY <1>1, <1>2 DEF Inflow
<1> HIDE DEF P
<1>4. CASE t <= r.last
  <2>1. Refilled(r, k, t) = r.tokens
    BY <1>4, RefillBounds
  <2>2. (e - r.last) * P <= (e - t) * P
    BY <1>1, <1>2, <1>4
  <2> QED BY <1>1, <1>3, <2>1, <2>2
<1>5. CASE r.last < t
  <2>1. CASE Refilled(r, k, t) = Capacity(k)
    BY <1>1, <1>3, <2>1
  <2>2. CASE Refilled(r, k, t) = r.tokens + (t - r.last) * Rate[k] * r.mult
    <3>1. (t - r.last) * Rate[k] * r.mult = (t - r.last) * P /\ (t - r.last) * P \in Nat
      BY <1>1, <1>2, <1>5 DEF P
    <3>2. (e - r.last) * P = (t - r.last) * P + (e - t) * P
      <4>1. e - r.last = (t - r.last) + (e - t) /\ t - r.last \in Nat /\ e - t \in Nat
        BY <1>1, <1>5
      <4> QED BY <1>1, <1>2, <4>1
    <3> QED BY <1>1, <1>3, <2>2, <3>1, <3>2
  <2> QED BY <1>5, <2>1, <2>2, RefillBounds
<1> QED BY <1>1, <1>4, <1>5

\* What a TTL promises is kept: a grant sets a new one, and time does not reach it
\* unseen.
LEMMA FullAtExpiryStep ==
  ASSUME TypeOK, TimesPast, TurnInRange, FullAtExpiry, [Next]_vars
  PROVE  FullAtExpiry'
<1> USE DEF histVars
<1>0. /\ clock \in Nat /\ "redis" \in Backend
      /\ \A b \in Backend, k \in Key :
           /\ bucket[b][k] \in BucketType /\ bucket[b][k].tokens <= Capacity(k)
           /\ bucket[b][k].last <= clock /\ bucket[b][k].last \in Nat /\ bucket[b][k].tokens \in Nat
           /\ bucket[b][k].expires \in Nat
  BY DEF TypeOK, TimesPast, BucketType, Backend
<1>1. ASSUME clock' = clock, slowed \subseteq slowed',
             \A k \in Key \ slowed' : bucket'["redis"][k] = bucket["redis"][k]
      PROVE  FullAtExpiry'
  BY <1>1 DEF FullAtExpiry
<1>2. ASSUME NEW c \in Coroutine, NEW b \in Backend, NEW t \in 0..clock, Try(c, b, t)
      PROVE  FullAtExpiry'
  <2>1. PICK k \in Key :
           /\ bucket'[b][k] = AfterTry(b, k, t)
           /\ slowed' = IF b = "redis" /\ Grants(bucket[b][k], k, t) THEN slowed \ {k} ELSE slowed
           /\ \A d \in Backend, j \in Key : (d # b \/ j # k) =>
                bucket'[d][j] = bucket[d][j]
    BY <1>2, TryWrites
  <2>2. clock' = clock
    BY <1>2 DEF Try
  <2>3. CASE b # "redis"
    BY <1>0, <1>1, <2>1, <2>2, <2>3
  <2>4. CASE b = "redis"
    <3> DEFINE r == bucket["redis"][k]
               new == bucket'["redis"][k]
    <3>1. /\ r \in BucketType /\ r.tokens <= Capacity(k) /\ r.last <= clock /\ r.last \in Nat
          /\ r.expires \in Nat /\ t \in Nat /\ t <= clock
      BY <1>0
    <3>2. /\ new.used /\ new.last = t /\ new.mult = r.mult
          /\ new.tokens = Refilled(r, k, t) - (IF Grants(r, k, t) THEN Token ELSE 0)
          /\ new.expires = IF Grants(r, k, t) THEN clock + Lifetime(r) ELSE r.expires
      BY <2>1, <2>4, <3>1 DEF AfterTry, BucketType
    <3>3. slowed' = IF Grants(r, k, t) THEN slowed \ {k} ELSE slowed
      BY <2>1, <2>4
    <3> HIDE DEF r, new
    <3>4. CASE Grants(r, k, t)
      <4>1. /\ Lifetime(r) \in Nat \ {0} /\ clock + Lifetime(r) - t \in Nat
            /\ Lifetime(r) <= clock + Lifetime(r) - t
        BY <1>0, <3>1, LifetimeFills
      <4>2. Capacity(k) <= Inflow(k, r.mult, clock + Lifetime(r) - t)
        BY <3>1, <4>1, LifetimeIsEnough
      <4>3. Inflow(k, r.mult, clock + Lifetime(r) - t) \in Nat
        <5>1. Rate[k] \in Nat /\ r.mult \in Nat
          BY <3>1, CapacityType DEF BucketType, Full, Lowest
        <5> QED BY <4>1, <5>1 DEF Inflow
      <4>4. new.tokens \in Nat /\ Capacity(k) \in Nat
        BY <3>1, <3>2, <3>4, RefillBounds, CapacityType, LimiterAssumption DEF Grants
      <4>5. new.expires = clock + Lifetime(r) /\ new.last = t /\ new.mult = r.mult
        BY <3>2, <3>4
      <4>6. Capacity(k) <= new.tokens + Inflow(k, new.mult, new.expires - new.last)
        <5>1. /\ Capacity(k) <= Inflow(k, new.mult, new.expires - new.last)
              /\ Inflow(k, new.mult, new.expires - new.last) \in Nat
          <6>1. new.expires - new.last = clock + Lifetime(r) - t
            BY <1>0, <3>1, <4>1, <4>5
          <6> QED BY <4>2, <4>3, <4>5, <6>1
        <5> QED BY <4>4, <5>1
      <4>7. clock < new.expires
        BY <1>0, <3>2, <3>4, <4>1
      <4>8. ASSUME NEW j \in Key \ slowed', bucket'["redis"][j].expires # 0
            PROVE  /\ bucket'["redis"][j].used /\ clock' < bucket'["redis"][j].expires
                   /\ Capacity(j) <= bucket'["redis"][j].tokens
                        + Inflow(j, bucket'["redis"][j].mult,
                                 bucket'["redis"][j].expires - bucket'["redis"][j].last)
        <5>1. CASE j = k
          BY <2>2, <3>2, <4>6, <4>7, <5>1 DEF new
        <5>2. CASE j # k
          <6>1. j \in Key \ slowed /\ bucket'["redis"][j] = bucket["redis"][j]
            BY <1>0, <2>1, <2>4, <3>3, <3>4, <4>8, <5>2
          <6> QED BY <2>2, <4>8, <6>1 DEF FullAtExpiry
        <5> QED BY <5>1, <5>2
      <4> QED BY <4>8 DEF FullAtExpiry
    <3>5. CASE ~Grants(r, k, t)
      <4>1. ASSUME NEW j \in Key \ slowed', bucket'["redis"][j].expires # 0
            PROVE  /\ bucket'["redis"][j].used /\ clock' < bucket'["redis"][j].expires
                   /\ Capacity(j) <= bucket'["redis"][j].tokens
                        + Inflow(j, bucket'["redis"][j].mult,
                                 bucket'["redis"][j].expires - bucket'["redis"][j].last)
        <5>1. CASE j = k
          <6>1. new.expires = r.expires /\ new.tokens = Refilled(r, k, t) /\ r.expires # 0
            <7>1. Refilled(r, k, t) \in Nat
              BY <3>1, RefillBounds
            <7> QED BY <3>2, <3>5, <4>1, <5>1, <7>1 DEF new
          <6>2. /\ r.used /\ clock < r.expires
                /\ Capacity(k) <= r.tokens + Inflow(k, r.mult, r.expires - r.last)
            BY <3>3, <3>5, <4>1, <5>1, <6>1 DEF FullAtExpiry, r
          <6>3. t < r.expires /\ r.last < r.expires
            BY <1>0, <3>1, <6>2
          <6>4. Capacity(k) <= Refilled(r, k, t) + Inflow(k, r.mult, r.expires - t)
            BY <3>1, <6>2, <6>3, RefillKeepsPromise
          <6> QED BY <2>2, <3>2, <5>1, <6>1, <6>2, <6>4 DEF new
        <5>2. CASE j # k
          <6>1. j \in Key \ slowed /\ bucket'["redis"][j] = bucket["redis"][j]
            BY <1>0, <2>1, <2>4, <3>3, <3>5, <4>1, <5>2
          <6> QED BY <2>2, <4>1, <6>1 DEF FullAtExpiry
        <5> QED BY <5>1, <5>2
      <4> QED BY <4>1 DEF FullAtExpiry
    <3> QED BY <3>4, <3>5
  <2> QED BY <2>3, <2>4
<1>3. ASSUME NEW c \in Coroutine, RunScript(c) \/ ScriptFails(c) \/ TryLocal(c)
      PROVE  FullAtExpiry'
  <2>1. call[c].now \in 0..clock /\ clock \in 0..clock
    BY DEF TimesPast, TypeOK, CallType
  <2> QED BY <1>2, <1>3, <2>1 DEF RunScript, ScriptFails, TryLocal, Backend
<1>4. ASSUME NEW c \in Coroutine, \/ Begin(c) \/ Loaded(c) \/ SendScript(c) \/ Wake(c)
                                  \/ ReadMultiplier(c) \/ Respond(c) \/ ReportFails(c)
      PROVE  FullAtExpiry'
  <2>1. clock' = clock /\ slowed' = slowed /\ (bucket' = bucket \/ ReportLocal(c))
    BY <1>4 DEF Begin, Loaded, SendScript, Wake, ReadMultiplier, Respond, ReportFails
  <2> QED BY <1>1, <2>1, ReportedBucket
<1>5. ASSUME NEW c \in Coroutine, WriteMultiplier(c)
      PROVE  FullAtExpiry'
  BY <1>1, <1>5, LimiterAssumption DEF WriteMultiplier, TypeOK, Backend, Key
<1>6. CASE Tick
  <2>1. ASSUME NEW k \in Key \ slowed', bucket'["redis"][k].expires # 0
        PROVE  /\ k \in Key \ slowed /\ bucket'["redis"][k] = bucket["redis"][k]
               /\ clock' < bucket["redis"][k].expires
    <3>1. bucket'["redis"][k] = IF Expired(k) THEN NoBucket ELSE bucket["redis"][k]
      BY <1>0, <1>6 DEF Tick, TypeOK
    <3>2. ~Expired(k)
      BY <2>1, <3>1 DEF NoBucket
    <3> QED BY <1>0, <1>6, <2>1, <3>1, <3>2 DEF Tick, Expired
  <2> QED BY <2>1 DEF FullAtExpiry
<1>7. CASE UNCHANGED vars
  BY <1>1, <1>7 DEF vars
<1> QED BY <1>3, <1>4, <1>5, <1>6, <1>7 DEF Next, Step

\* Whatever else writes a multiplier makes the reports that wait to write it stale.
LEMMA SeenIsCurrentStep ==
  ASSUME TypeOK, TimesPast, TurnInRange, SeenIsCurrent, [Next]_vars
  PROVE  SeenIsCurrent'
<1> USE DEF histVars
<1>0. /\ "redis" \in Backend /\ \A c \in Coroutine : DomainOf[c] \in Key
      /\ \A k \in Key : bucket["redis"][k] \in BucketType
  BY LimiterAssumption DEF TypeOK, Backend, Key
<1>1. ASSUME NEW c \in Coroutine, \A k \in Key : bucket'["redis"][k].mult = bucket["redis"][k].mult,
             \A d \in Coroutine \ {c} : call'[d] = call[d], call'[c].pc # "hset",
             stale \ {c} \subseteq stale'
      PROVE  SeenIsCurrent'
  BY <1>0, <1>1 DEF SeenIsCurrent
<1>2. ASSUME NEW c \in Coroutine, NEW b \in Backend, NEW t \in 0..clock, Try(c, b, t)
      PROVE  SeenIsCurrent'
  <2>1. PICK k \in Key :
           /\ bucket'[b][k] = AfterTry(b, k, t)
           /\ \A d \in Backend, j \in Key : (d # b \/ j # k) =>
                bucket'[d][j] = bucket[d][j]
    BY <1>2, TryWrites
  <2>2. bucket'[b][k].mult = bucket[b][k].mult
    BY <2>1 DEF AfterTry, BucketType, TypeOK
  <2>3. \A j \in Key : bucket'["redis"][j].mult = bucket["redis"][j].mult
    BY <1>0, <2>1, <2>2
  <2>4. call'[c].pc # "hset" /\ \A d \in Coroutine \ {c} : call'[d] = call[d]
    BY <1>2 DEF Try, TypeOK, CallType, At
  <2>5. stale' = stale
    BY <1>2 DEF Try
  <2> QED BY <1>1, <2>3, <2>4, <2>5
<1>3. ASSUME NEW c \in Coroutine, RunScript(c) \/ ScriptFails(c) \/ TryLocal(c)
      PROVE  SeenIsCurrent'
  <2>1. call[c].now \in 0..clock /\ clock \in 0..clock
    BY DEF TimesPast, TypeOK, CallType
  <2> QED BY <1>2, <1>3, <2>1 DEF RunScript, ScriptFails, TryLocal, Backend
<1>4. ASSUME NEW c \in Coroutine, \/ Begin(c) \/ Loaded(c) \/ SendScript(c) \/ Wake(c)
                                  \/ Respond(c) \/ ReportFails(c)
      PROVE  SeenIsCurrent'
  <2>1. stale \ {c} \subseteq stale' /\ (bucket' = bucket \/ ReportLocal(c))
    BY <1>4 DEF Begin, Loaded, SendScript, Wake, Respond, ReportFails
  <2>2. call'[c].pc # "hset" /\ \A d \in Coroutine \ {c} : call'[d] = call[d]
    <3>1. CASE SendScript(c) \/ (Wake(c) /\ WithinTimeout(c))
      <4>1. call \in [Coroutine -> CallType]
        BY DEF TypeOK
      <4>2. CASE SendScript(c)
        BY <4>1, <4>2 DEF SendScript, CallType
      <4>3. CASE Wake(c) /\ WithinTimeout(c)
        <5>1. call' = [call EXCEPT ![c] = [@ EXCEPT !.pc = "call", !.turn = 1]]
          BY <4>3 DEF Wake
        <5> QED BY <4>1, <5>1 DEF CallType
      <4> QED BY <3>1, <4>2, <4>3
    <3>2. CASE (Wake(c) /\ ~WithinTimeout(c)) \/ Respond(c) \/ ReportFails(c)
      BY <3>2 DEF Wake, Respond, ReportFails, TypeOK, At
    <3>3. CASE Begin(c) \/ Loaded(c)
      <4>1. [At("call") EXCEPT !.start = clock].pc # "hset" /\ At("load").pc # "hset"
        BY DEF At
      <4> QED BY <3>3, <4>1 DEF Begin, Loaded, TypeOK
    <3> QED BY <1>4, <3>1, <3>2, <3>3
  <2> QED BY <1>1, <2>1, <2>2, ReportedBucket
<1>5. ASSUME NEW c \in Coroutine, ReadMultiplier(c)
      PROVE  SeenIsCurrent'
  <2>1. bucket' = bucket /\ stale' = stale /\ \A d \in Coroutine \ {c} : call'[d] = call[d]
    BY <1>5 DEF ReadMultiplier, TypeOK
  <2>2. call'[c].seen = bucket["redis"][DomainOf[c]].mult
    BY <1>5 DEF ReadMultiplier, TypeOK, At
  <2> QED BY <2>1, <2>2 DEF SeenIsCurrent
<1>6. ASSUME NEW c \in Coroutine, WriteMultiplier(c)
      PROVE  SeenIsCurrent'
  <2>1. \A d \in Coroutine \ {c} : call'[d] = call[d]
    BY <1>6 DEF WriteMultiplier, TypeOK
  <2>2. call'[c].pc # "hset"
    BY <1>6 DEF WriteMultiplier, TypeOK, At
  <2>3. \A k \in Key \ {DomainOf[c]} : bucket'["redis"][k] = bucket["redis"][k]
    BY <1>0, <1>6 DEF WriteMultiplier, TypeOK
  <2>4. stale' = (stale \cup {d \in Coroutine : call[d].pc = "hset" /\ DomainOf[d] = DomainOf[c]})
                   \ {c}
    BY <1>6 DEF WriteMultiplier
  <2> QED BY <1>0, <2>1, <2>2, <2>3, <2>4 DEF SeenIsCurrent
<1>7. CASE Tick
  <2>1. /\ call' = call /\ stale' = stale \cup {c \in Coroutine : call[c].pc = "hset" /\ Expired(DomainOf[c])}
        /\ \A k \in Key : ~Expired(k) => bucket'["redis"][k] = bucket["redis"][k]
    BY <1>0, <1>7 DEF Tick, TypeOK
  <2> QED BY <1>0, <2>1 DEF SeenIsCurrent
<1>8. CASE UNCHANGED vars
  BY <1>8 DEF vars, SeenIsCurrent
<1> QED BY <1>3, <1>4, <1>5, <1>6, <1>7, <1>8 DEF Next, Step

-----------------------------------------------------------------------------
(* The price of a scan's token.                                            *)

\* Only the first turn asks the global bucket, and only the last one a scan's.
LEMMA TurnKey ==
  ASSUME NEW c \in Coroutine, NEW i \in 1..Turns(c)
  PROVE  /\ KeysOf(c)[i] = Global <=> i = 1
         /\ KeysOf(c)[i] \in Scan <=> i = Turns(c)
BY LimiterAssumption DEF KeysOf, Turns

\* Who is ahead, when one coroutine moves.
LEMMA AheadMoves ==
  ASSUME TypeOK, NEW c \in Coroutine, call'[c].turn \in Nat,
         \A d \in Coroutine \ {c} : call'[d] = call[d]
  PROVE  /\ Cardinality(Ahead) \in Nat /\ Cardinality(Ahead)' \in Nat
         /\ call'[c].turn <= 1 => /\ Cardinality(Ahead)' <= Cardinality(Ahead)
                                  /\ c \in Ahead => Cardinality(Ahead)' = Cardinality(Ahead) - 1
         /\ c \in Ahead => Cardinality(Ahead)' <= Cardinality(Ahead)
         /\ Cardinality(Ahead)' <= Cardinality(Ahead) + 1
<1>1. IsFiniteSet(Ahead)
  BY FS_Subset, LimiterAssumption DEF Ahead
<1>2. Cardinality(Ahead) \in Nat
  BY <1>1, FS_CardinalityType
<1>3. CASE call'[c].turn > 1
  <2>1. Ahead' = Ahead \cup {c}
    BY <1>3 DEF Ahead
  <2> QED BY <1>1, <1>2, <1>3, <2>1, FS_AddElement
<1>4. CASE ~(call'[c].turn > 1)
  <2>1. Ahead' = Ahead \ {c}
    BY <1>4 DEF Ahead
  <2>2. Cardinality(Ahead') = IF c \in Ahead THEN Cardinality(Ahead) - 1 ELSE Cardinality(Ahead)
    BY <1>1, <2>1, FS_RemoveElement
  <2>3. IsFiniteSet(Ahead') /\ Cardinality(Ahead') \in Nat
    BY <1>1, <2>1, FS_RemoveElement, FS_CardinalityType
  <2> QED BY <1>2, <2>2, <2>3
<1> QED BY <1>3, <1>4

\* Products with the size of a token, for the provers.
LEMMA Prices ==
  ASSUME NEW n \in Nat, NEW m \in Nat
  PROVE  /\ Price(n) \in Nat /\ Token \in Nat
         /\ m <= n => Price(m) <= Price(n)
         /\ m <= n + 1 => Price(m) <= Price(n) + Token
         /\ m = n - 1 => Price(m) + Token = Price(n)
<1>1. Token \in Nat
  BY LimiterAssumption
<1>2. ASSUME NEW a \in Nat
      PROVE  /\ a * n \in Nat /\ a * m \in Nat
             /\ m <= n => a * m <= a * n
             /\ m <= n + 1 => a * m <= a * n + a
             /\ m = n - 1 => a * m + a = a * n
  OBVIOUS
<1> QED BY <1>1, <1>2 DEF Price

\* A coroutine gets ahead by paying the global bucket, and no scan is paid by one that
\* is not.
LEMMA GlobalPaidStep ==
  ASSUME TypeOK, TimesPast, TurnInRange, GlobalPaid, [Next]_vars
  PROVE  GlobalPaid'
<1> USE DEF histVars
<1>0. /\ Global \in Key /\ scanned \in Nat /\ {"redis", "local"} = Backend
      /\ taken["redis"][Global] \in Nat /\ taken["local"][Global] \in Nat
  BY DEF TypeOK, Key, Backend
<1>1. ASSUME NEW c \in Coroutine, \A d \in Coroutine \ {c} : call'[d] = call[d],
             call'[c].turn \in Nat, call'[c].turn <= 1 \/ c \in Ahead,
             scanned' = scanned, taken' = taken
      PROVE  GlobalPaid'
  <2>1. /\ Cardinality(Ahead) \in Nat /\ Cardinality(Ahead)' \in Nat
        /\ Cardinality(Ahead)' <= Cardinality(Ahead)
    BY <1>1, AheadMoves
  <2>2. /\ Price(Cardinality(Ahead)) \in Nat /\ Price(Cardinality(Ahead)') \in Nat
        /\ Price(Cardinality(Ahead)') <= Price(Cardinality(Ahead))
    BY <2>1, Prices
  <2>3. Price(Cardinality(Ahead))' = Price(Cardinality(Ahead)')
    BY DEF Price
  <2> QED BY <1>0, <1>1, <2>2, <2>3 DEF GlobalPaid
<1>2. ASSUME NEW c \in Coroutine, NEW b \in Backend, NEW t \in 0..clock, Try(c, b, t)
      PROVE  GlobalPaid'
  <2> DEFINE k == KeysOf(c)[call[c].turn]
             granted == Grants(bucket[b][k], k, t)
             i == call[c].turn
  <2>1. i \in 1..Turns(c) /\ Turns(c) \in 2..3 /\ k \in Key
    <3>1. i \in 1..Turns(c) /\ Turns(c) \in 2..3
      BY KeysType DEF TypeOK, TurnInRange, CallType
    <3> QED BY <3>1, KeysType DEF Turns
  <2>2. /\ k = Global <=> i = 1
        /\ k \in Scan <=> i = Turns(c)
    BY <2>1, TurnKey
  <2>3. /\ taken' = [taken EXCEPT ![b][k] = @ + (IF granted THEN Token ELSE 0)]
        /\ scanned' = scanned + (IF granted /\ k \in Scan THEN Token ELSE 0)
    BY <1>2 DEF Try
  <2>4. /\ \A d \in Coroutine \ {c} : call'[d] = call[d]
        /\ ~granted => call'[c].turn = i
        /\ granted /\ i = Turns(c) => call'[c].turn = 1
        /\ granted /\ i # Turns(c) => call'[c].turn = i + 1
    <3>1. \A d \in Coroutine \ {c} : call'[d] = call[d]
      BY <1>2 DEF Try, TypeOK
    <3>2. ASSUME ~granted PROVE call'[c].turn = i
      BY <1>2, <3>2 DEF Try, TypeOK, CallType
    <3>3. ASSUME granted, i = Turns(c) PROVE call'[c].turn = 1
      <4>1. call'[c] = At("send")
        BY <1>2, <3>3 DEF Try, TypeOK, Turns
      <4> QED BY <4>1 DEF At
    <3>4. ASSUME granted, i # Turns(c) PROVE call'[c].turn = i + 1
      <4>1. call'[c] = [call[c] EXCEPT !.pc = "call", !.now = 0, !.turn = call[c].turn + 1]
        BY <1>2, <3>4 DEF Try, TypeOK, Turns
      <4> QED BY <4>1 DEF TypeOK, CallType
    <3> QED BY <3>1, <3>2, <3>3, <3>4
  <2>5. c \in Ahead <=> i # 1
    BY <2>1 DEF Ahead
  <2> HIDE DEF k, granted, i
  <2>6. CASE ~granted
    <3>1. taken' = taken /\ scanned' = scanned
      BY <1>0, <2>1, <2>3, <2>6 DEF TypeOK
    <3> QED BY <1>1, <2>1, <2>4, <2>5, <2>6, <3>1
  <2>7. CASE granted /\ i = 1
    <3>1. call'[c].turn = 2 /\ scanned' = scanned
      BY <1>0, <2>1, <2>2, <2>3, <2>4, <2>7
    <3>2. taken'["redis"][Global] + taken'["local"][Global]
            = taken["redis"][Global] + taken["local"][Global] + Token
      <4>1. taken'[b][Global] = taken[b][Global] + Token
        BY <1>0, <2>2, <2>3, <2>7 DEF TypeOK
      <4>2. \A d \in Backend \ {b} : taken'[d] = taken[d]
        BY <2>3 DEF TypeOK
      <4> QED BY <1>0, <4>1, <4>2, LimiterAssumption
    <3>3. /\ Cardinality(Ahead) \in Nat /\ Cardinality(Ahead)' \in Nat
          /\ Cardinality(Ahead)' <= Cardinality(Ahead) + 1
      BY <2>4, <3>1, AheadMoves
    <3>4. /\ Price(Cardinality(Ahead)) \in Nat /\ Price(Cardinality(Ahead)') \in Nat
          /\ Price(Cardinality(Ahead)') <= Price(Cardinality(Ahead)) + Token /\ Token \in Nat
      BY <3>3, Prices
    <3>5. Price(Cardinality(Ahead))' = Price(Cardinality(Ahead)')
      BY DEF Price
    <3> QED BY <1>0, <3>1, <3>2, <3>4, <3>5 DEF GlobalPaid
  <2>8. CASE granted /\ i # 1
    <3>1. taken'["redis"][Global] = taken["redis"][Global] /\ taken'["local"][Global] = taken["local"][Global]
      BY <1>0, <2>2, <2>3, <2>8 DEF TypeOK
    <3>2. CASE i # Turns(c)
      <4>1. scanned' = scanned /\ call'[c].turn \in Nat
        BY <1>0, <2>1, <2>2, <2>3, <2>4, <2>8, <3>2
      <4>2. /\ Cardinality(Ahead) \in Nat /\ Cardinality(Ahead)' \in Nat
            /\ Cardinality(Ahead)' <= Cardinality(Ahead)
        BY <2>4, <2>5, <2>8, <4>1, AheadMoves
      <4>3. /\ Price(Cardinality(Ahead)) \in Nat /\ Price(Cardinality(Ahead)') \in Nat
            /\ Price(Cardinality(Ahead)') <= Price(Cardinality(Ahead))
        BY <4>2, Prices
      <4>4. Price(Cardinality(Ahead))' = Price(Cardinality(Ahead)')
        BY DEF Price
      <4> QED BY <1>0, <3>1, <4>1, <4>3, <4>4 DEF GlobalPaid
    <3>3. CASE i = Turns(c)
      <4>1. scanned' = scanned + Token /\ call'[c].turn = 1
        BY <1>0, <2>1, <2>2, <2>3, <2>4, <2>8, <3>3
      <4>2. /\ Cardinality(Ahead) \in Nat /\ Cardinality(Ahead)' \in Nat
            /\ Cardinality(Ahead)' = Cardinality(Ahead) - 1
        BY <2>4, <2>5, <2>8, <4>1, AheadMoves
      <4>3. /\ Price(Cardinality(Ahead)) \in Nat /\ Price(Cardinality(Ahead)') \in Nat
            /\ Price(Cardinality(Ahead)') + Token = Price(Cardinality(Ahead)) /\ Token \in Nat
        BY <4>2, Prices
      <4>4. Price(Cardinality(Ahead))' = Price(Cardinality(Ahead)')
        BY DEF Price
      <4> QED BY <1>0, <3>1, <4>1, <4>3, <4>4 DEF GlobalPaid
    <3> QED BY <3>2, <3>3
  <2> QED BY <2>6, <2>7, <2>8
<1>3. ASSUME NEW c \in Coroutine, RunScript(c) \/ ScriptFails(c) \/ TryLocal(c)
      PROVE  GlobalPaid'
  <2>1. call[c].now \in 0..clock /\ clock \in 0..clock
    BY DEF TimesPast, TypeOK, CallType
  <2> QED BY <1>2, <1>3, <2>1 DEF RunScript, ScriptFails, TryLocal, Backend
<1>4. ASSUME NEW c \in Coroutine, \/ Begin(c) \/ Loaded(c) \/ SendScript(c) \/ Wake(c)
                                  \/ Respond(c) \/ ReadMultiplier(c) \/ WriteMultiplier(c)
                                  \/ ReportFails(c)
      PROVE  GlobalPaid'
  <2>1. /\ scanned' = scanned /\ taken' = taken
        /\ \A d \in Coroutine \ {c} : call'[d] = call[d]
    BY <1>4 DEF Begin, Loaded, SendScript, Wake, Respond, ReadMultiplier, WriteMultiplier,
       ReportFails, TypeOK
  <2>2. call[c].turn \in 1..3
    BY DEF TypeOK, CallType
  <2>3. call'[c].turn = call[c].turn \/ call'[c].turn = 1
    <3>1. CASE SendScript(c)
      BY <3>1 DEF SendScript, TypeOK, CallType
    <3>5. CASE Wake(c) /\ WithinTimeout(c)
      BY <3>5 DEF Wake, TypeOK, CallType
    <3>2. CASE (Wake(c) /\ ~WithinTimeout(c)) \/ Respond(c) \/ WriteMultiplier(c) \/ ReportFails(c)
      BY <3>2 DEF Wake, Respond, WriteMultiplier, ReportFails, TypeOK, At
    <3>3. CASE Begin(c) \/ Loaded(c)
      <4>1. [At("call") EXCEPT !.start = clock].turn = 1 /\ At("load").turn = 1
        BY DEF At
      <4> QED BY <3>3, <4>1 DEF Begin, Loaded, TypeOK
    <3>4. CASE ReadMultiplier(c)
      BY <3>4 DEF ReadMultiplier, TypeOK, At
    <3> QED BY <1>4, <3>1, <3>2, <3>3, <3>4, <3>5
  <2>4. call'[c].turn \in Nat /\ (call'[c].turn <= 1 \/ c \in Ahead)
    BY <2>2, <2>3 DEF Ahead
  <2> QED BY <1>1, <2>1, <2>4
<1>5. CASE Tick \/ UNCHANGED vars
  BY <1>5 DEF Tick, vars, GlobalPaid, Ahead, Price
<1> QED BY <1>3, <1>4, <1>5 DEF Next, Step

-----------------------------------------------------------------------------
(* The theorems.                                                           *)

\* All buckets are unused and all coroutines idle at first.
LEMMA LimiterInit == Init => LimiterInv
<1> SUFFICES ASSUME Init PROVE LimiterInv
  OBVIOUS
<1>1. NoBucket \in BucketType /\ ~NoBucket.used /\ NoBucket.expires = 0 /\ NoBucket.last = 0
      /\ NoBucket.tokens = 0
  BY DEF NoBucket, BucketType, Full, Lowest
<1>2. \A b \in Backend, k \in Key : bucket[b][k] = NoBucket /\ taken[b][k] = 0
  BY DEF Init
<1>3. \A k \in Key : Capacity(k) \in Nat /\ back[k] = 0 /\ Gain(k, 0) \in Nat
  BY CapacityType, Gains DEF Init
<1>4. "idle" \in Pc
  BY DEF Pc
<1>5. \A c \in Coroutine : /\ call[c] = At("idle") /\ call[c] \in CallType
                           /\ call[c].turn = 1 /\ call[c].now = 0 /\ call[c].pc = "idle"
  <2>1. At("idle").pc = "idle"
    BY DEF At
  <2> QED BY <1>4, <2>1, AtType DEF Init
<1>6. TypeOK
  <2>1. call \in [Coroutine -> CallType]
    BY <1>4, AtType DEF Init
  <2>2. bucket \in [Backend -> [Key -> BucketType]]
    BY <1>1 DEF Init
  <2> QED BY <1>1, <1>2, <1>3, <2>1, <2>2, LimiterAssumption DEF Init, TypeOK
<1>7. TimesPast /\ TurnInRange
  BY <1>1, <1>2, <1>5, KeysType DEF Init, TimesPast, TurnInRange
<1>8. AccountsHold
  <2>1. {"redis", "local"} = Backend /\ clock = 0 /\ 0 + 0 = 0
    BY DEF Backend, Init
  <2> QED BY <1>1, <1>2, <1>3, <2>1 DEF AccountsHold, Covered
<1>9. FullAtExpiry /\ SeenIsCurrent
  BY <1>1, <1>2, <1>5 DEF FullAtExpiry, SeenIsCurrent, Backend
<1>10. GlobalPaid
  <2>1. Ahead = {}
    BY <1>5 DEF Ahead
  <2>2. Price(Cardinality(Ahead)) = 0
    BY <2>1, FS_EmptySet, LimiterAssumption DEF Price
  <2> QED BY <1>2, <2>2 DEF Init, GlobalPaid, Key, Backend
<1> QED BY <1>6, <1>7, <1>8, <1>9, <1>10 DEF LimiterInv

\* The invariant holds in every behaviour.
LEMMA LimiterInvariant == Spec => []LimiterInv
<1>1. LimiterInv /\ [Next]_vars => LimiterInv'
  BY TypeStep, TimesPastStep, AccountsStep, FullAtExpiryStep, SeenIsCurrentStep,
     GlobalPaidStep DEF LimiterInv
<1> QED BY <1>1, LimiterInit, PTL DEF Spec

\* Every variable has its type and no bucket exceeds its capacity, for any rates, any
\* number of engines and coroutines, and scripts that arrive in any order.
THEOREM LimiterTypeCorrect == Spec => []TypeOK
BY LimiterInvariant, PTL DEF LimiterInv

\* No more is taken from a bucket than its capacity and what it gained in the time
\* that passed, late scripts counted; the hashes that expired on the way, the local
\* buckets and the reports of 429 add nothing.
THEOREM RateAlwaysHolds == Spec => []RateHolds
<1>1. LimiterInv => RateHolds
  <2> SUFFICES ASSUME LimiterInv, NEW k \in Key
               PROVE  /\ taken["redis"][k] <= Capacity(k) * (1 + clock + back[k])
                      /\ taken["local"][k] <= Capacity(k) * (1 + clock)
    BY DEF RateHolds
  <2>1. ASSUME NEW b \in Backend, NEW s \in Nat, Covered(b, k, s)
        PROVE  taken[b][k] <= Gain(k, 1 + clock + s)
    <3>1. /\ bucket[b][k].last \in Nat /\ bucket[b][k].tokens \in Nat /\ taken[b][k] \in Nat
          /\ bucket[b][k].last <= clock /\ clock \in Nat
      BY DEF LimiterInv, TypeOK, TimesPast, BucketType
    <3>2. /\ 1 + bucket[b][k].last + s \in Nat /\ clock + s \in Nat /\ 1 + clock + s \in Nat
          /\ 1 + bucket[b][k].last + s <= 1 + clock + s /\ clock + s <= 1 + clock + s
      BY <3>1
    <3>3. /\ Gain(k, 1 + bucket[b][k].last + s) <= Gain(k, 1 + clock + s)
          /\ Gain(k, clock + s) <= Gain(k, 1 + clock + s)
          /\ Gain(k, 1 + bucket[b][k].last + s) \in Nat /\ Gain(k, clock + s) \in Nat
          /\ Gain(k, 1 + clock + s) \in Nat
      BY <3>2, Gains
    <3> QED BY <2>1, <3>1, <3>3 DEF Covered
  <2>2. back[k] \in Nat /\ clock \in Nat /\ Backend = {"redis", "local"}
    BY DEF LimiterInv, TypeOK, Backend
  <2>3. taken["redis"][k] <= Gain(k, 1 + clock + back[k])
    BY <2>1, <2>2 DEF LimiterInv, AccountsHold
  <2>4. taken["local"][k] <= Gain(k, 1 + clock)
    <3>1. 1 + clock + 0 = 1 + clock
      BY <2>2
    <3> QED BY <2>1, <2>2, <3>1 DEF LimiterInv, AccountsHold
  <2> QED BY <2>3, <2>4 DEF Gain
<1> QED BY <1>1, LimiterInvariant, PTL

\* The global bucket is paid for every token that any scan's bucket gives, for any
\* number of scans and coroutines, whichever backends the limiters are in.
THEOREM GlobalAlwaysPaid == Spec => []GlobalPaysForScans
<1>1. LimiterInv => GlobalPaysForScans
  <2> SUFFICES ASSUME LimiterInv PROVE GlobalPaysForScans
    OBVIOUS
  <2>1. IsFiniteSet(Ahead)
    BY FS_Subset, LimiterAssumption DEF Ahead
  <2>2. Price(Cardinality(Ahead)) \in Nat
    BY <2>1, FS_CardinalityType, Prices
  <2>3. /\ scanned \in Nat /\ taken["redis"][Global] \in Nat /\ taken["local"][Global] \in Nat
        /\ scanned + Price(Cardinality(Ahead)) <= taken["redis"][Global] + taken["local"][Global]
    BY DEF LimiterInv, TypeOK, Key, Backend, GlobalPaid
  <2> QED BY <2>2, <2>3 DEF GlobalPaysForScans
<1> QED BY <1>1, LimiterInvariant, PTL

\* A hash that expires would have been full at that time anyway, unless a 429 slowed
\* it down after its TTL was set: forgetting it grants nothing.
THEOREM ForgettingIsFree == Spec => ExpiryGrantsNothing
<1>1. ASSUME LimiterInv, [Next]_vars
      PROVE  [\A k \in Key :
                (clock' # clock /\ Expired(k) /\ k \notin slowed)
                  => Refilled(bucket["redis"][k], k, clock') = Capacity(k)]_vars
  <2> SUFFICES ASSUME NEW k \in Key, clock' # clock, Expired(k), k \notin slowed
               PROVE  Refilled(bucket["redis"][k], k, clock') = Capacity(k)
    OBVIOUS
  <2> DEFINE r == bucket["redis"][k]
             n == clock + 1
  <2>1. clock' = n
    BY <1>1 DEF Next, Step, Tick, Begin, Loaded, SendScript, RunScript, ScriptFails, TryLocal, Try,
      Wake, Respond, ReadMultiplier, WriteMultiplier, ReportFails, vars
  <2>2. /\ r \in BucketType /\ r.tokens <= Capacity(k) /\ r.last <= clock /\ clock \in Nat
        /\ r.expires \in Nat /\ r.last \in Nat /\ r.tokens \in Nat
    BY <1>1 DEF LimiterInv, TypeOK, TimesPast, BucketType, Backend
  <2>3. /\ r.used /\ r.expires <= n /\ clock < r.expires
        /\ Capacity(k) <= r.tokens + Inflow(k, r.mult, r.expires - r.last)
    BY <1>1 DEF LimiterInv, FullAtExpiry, Expired
  <2>4. r.expires = n /\ r.last < n /\ n \in Nat
    BY <2>2, <2>3
  <2> HIDE DEF r, n
  <2>5. \/ Refilled(r, k, n) = Capacity(k)
        \/ Refilled(r, k, n) = r.tokens + Inflow(k, r.mult, n - r.last)
    BY <2>2, <2>3, <2>4, RefillBounds DEF Inflow
  <2>6. Refilled(r, k, n) <= Capacity(k) /\ Refilled(r, k, n) \in Nat /\ Capacity(k) \in Nat
    BY <2>2, <2>4, RefillBounds, CapacityType
  <2>7. Refilled(r, k, n) = Capacity(k)
    BY <2>3, <2>4, <2>5, <2>6
  <2> QED BY <2>1, <2>7 DEF r
<1> QED BY <1>1, LimiterInvariant, PTL DEF Spec, ExpiryGrantsNothing

\* A multiplier rises only when its hash expires or by a report that is stale.
THEOREM RecoveryIsSeen == Spec => NoSilentRecovery
<1>1. ASSUME LimiterInv, [Next]_vars
      PROVE  [\A k \in Key :
                bucket'["redis"][k].mult > bucket["redis"][k].mult
                  => \/ clock' # clock /\ Expired(k)
                     \/ \E c \in stale : call[c].pc = "hset" /\ call'[c].pc = "done" /\ DomainOf[c] = k]_vars
  <2> SUFFICES ASSUME NEW k \in Key, bucket'["redis"][k].mult > bucket["redis"][k].mult
               PROVE  \/ clock' # clock /\ Expired(k)
                      \/ \E c \in stale : call[c].pc = "hset" /\ call'[c].pc = "done" /\ DomainOf[c] = k
    OBVIOUS
  <2> USE DEF histVars
  <2>0. /\ TypeOK /\ TimesPast /\ TurnInRange /\ SeenIsCurrent /\ "redis" \in Backend
        /\ bucket["redis"][k].mult \in Nat /\ bucket["redis"][k] \in BucketType
        /\ clock \in Nat
    BY <1>1 DEF LimiterInv, TypeOK, BucketType, Backend, Full, Lowest
  <2>1. bucket'["redis"][k].mult # bucket["redis"][k].mult
    BY <2>0
  <2>2. ASSUME NEW c \in Coroutine, NEW b \in Backend, NEW t \in 0..clock, Try(c, b, t)
        PROVE  FALSE
    <3>1. PICK j \in Key :
             /\ bucket'[b][j] = AfterTry(b, j, t)
             /\ \A d \in Backend, i \in Key : (d # b \/ i # j) =>
                  bucket'[d][i] = bucket[d][i]
      BY <2>0, <2>2, TryWrites
    <3>2. bucket'[b][j].mult = bucket[b][j].mult
      BY <2>0, <3>1 DEF AfterTry, BucketType, TypeOK
    <3> QED BY <2>0, <2>1, <3>1, <3>2
  <2>3. ASSUME NEW c \in Coroutine, RunScript(c) \/ ScriptFails(c) \/ TryLocal(c)
        PROVE  FALSE
    <3>1. call[c].now \in 0..clock /\ clock \in 0..clock
      BY <2>0 DEF TimesPast, TypeOK, CallType
    <3> QED BY <2>2, <2>3, <3>1 DEF RunScript, ScriptFails, TryLocal, Backend
  <2>4. ASSUME NEW c \in Coroutine, ReportLocal(c)
        PROVE  FALSE
    BY <2>0, <2>1, <2>4, ReportedBucket
  <2>5. ASSUME NEW c \in Coroutine, WriteMultiplier(c)
        PROVE  \E d \in stale : call[d].pc = "hset" /\ call'[d].pc = "done" /\ DomainOf[d] = k
    <3>1. call[c].pc = "hset" /\ call'[c].pc = "done"
      BY <2>0, <2>5 DEF WriteMultiplier, TypeOK, At
    <3>2. DomainOf[c] \in Key /\ call[c].seen \in Lowest..Full
      BY <2>0, LimiterAssumption DEF TypeOK, CallType, Key
    <3>3. /\ DomainOf[c] = k
          /\ bucket'["redis"][k].mult = Halved(call[c].seen)
      BY <2>0, <2>1, <2>5, <3>2 DEF WriteMultiplier, TypeOK, BucketType
    <3>4. c \in stale
      <4> SUFFICES ASSUME c \notin stale PROVE FALSE
        OBVIOUS
      <4>1. call[c].seen = bucket["redis"][k].mult
        BY <2>0, <3>1, <3>3 DEF SeenIsCurrent
      <4>2. Halved(call[c].seen) <= call[c].seen /\ Halved(call[c].seen) \in Lowest..Full
        BY <3>2, HalvedType
      <4> QED BY <2>0, <3>3, <4>1, <4>2 DEF Full, Lowest
    <3> QED BY <3>1, <3>3, <3>4
  <2>6. CASE Tick
    <3>1. clock' # clock
      BY <2>0, <2>6 DEF Tick
    <3>2. Expired(k)
      BY <2>0, <2>1, <2>6 DEF Tick, TypeOK
    <3> QED BY <3>1, <3>2
  <2>7. CASE bucket' = bucket
    BY <2>1, <2>7
  <2>8. ASSUME NEW c \in Coroutine, \/ Begin(c) \/ Loaded(c) \/ SendScript(c) \/ Wake(c)
                                    \/ ReadMultiplier(c) \/ Respond(c) \/ ReportFails(c)
        PROVE  FALSE
    BY <2>1, <2>4, <2>8 DEF Begin, Loaded, SendScript, Wake, ReadMultiplier, Respond, ReportFails
  <2> QED BY <1>1, <2>3, <2>5, <2>6, <2>7, <2>8 DEF Next, Step, vars
<1> QED BY <1>1, LimiterInvariant, PTL DEF Spec, NoSilentRecovery
=============================================================================
