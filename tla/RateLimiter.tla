---------------------------- MODULE RateLimiter ----------------------------
(***************************************************************************)
(* The outbound rate limiter: the token buckets in Redis with their Lua    *)
(* script, the in-process buckets that replace them, RateLimiter.acquire   *)
(* over the global, the domain and the scan bucket, and report_429.        *)
(*                                                                         *)
(* A tick is a second.  Numbers are integers: Token units make one token   *)
(* and a multiplier is counted in fortieths, in which the code's 1, 1/2,   *)
(* 1/4, 1/8 and the floor 0.1 are exact.  time.time() is read by the       *)
(* caller, before the script is sent: scripts may run in another order     *)
(* than that of their `now`.  Each call to Redis is a step and may fail.   *)
(* A local variable is reset to its initial value when its scope ends.     *)
(*                                                                         *)
(* Abstracted: clock skew between hosts beyond that reordering, and        *)
(* rounding of floats.  One process: its local buckets are shared.         *)
(***************************************************************************)
EXTENDS Naturals, Sequences, FiniteSets

CONSTANTS
  Coroutine,   \* the _process_payload coroutines that call the limiter
  Limiter,     \* the RateLimiter objects, one per engine
  LimiterOf,   \* LimiterOf[c]: the object c's engine has
  Domain,      \* host names
  Configured,  \* the domains that rate_limit.yaml lists
  Scan,        \* scan ids
  DomainOf,    \* DomainOf[c]: the domain of c's request
  ScanOf,      \* ScanOf[c]: the scan of c's request
  Global,      \* the key rl:global
  Token,       \* units of one token
  Rate,        \* Rate[k]: units bucket k gains per tick and fortieth of its multiplier
  Timeout,     \* the timeout of acquire, in ticks
  MaxClock,    \* bound on the ticks
  RedisFails   \* whether a call to Redis may fail

Key     == {Global} \cup Domain \cup Scan
Backend == {"redis", "local"}

\* The prefixes rl:domain: and rl:scan: keep the keys apart.
ASSUME LimiterAssumption ==
  /\ IsFiniteSet(Coroutine)
  /\ Global \notin Domain \cup Scan /\ Domain \cap Scan = {}
  /\ LimiterOf \in [Coroutine -> Limiter]
  /\ Configured \subseteq Domain
  /\ DomainOf \in [Coroutine -> Domain] /\ ScanOf \in [Coroutine -> Scan]
  /\ Token \in Nat \ {0} /\ Timeout \in Nat \ {0} /\ MaxClock \in Nat
  /\ Rate \in [Key -> Nat \ {0}]
  /\ RedisFails \in BOOLEAN

VARIABLES
  clock,     \* the time
  bucket,    \* bucket[b][k]: the bucket of key k in backend b
  backend,   \* each limiter's _scripting_supported
  call,      \* each coroutine: where it is, and its local variables
  taken,     \* history: units taken from each bucket
  scanned,   \* history: units taken from the buckets of all scans
  back,      \* history: by how much scripts set last_refill too early
  stale,     \* history: reports whose `seen` was overwritten since
  slowed     \* history: keys whose multiplier was written after their TTL

histVars == <<taken, scanned, back, stale, slowed>>
vars == <<clock, bucket, backend, call, histVars>>

Full   == 40                    \* multiplier 1.0
Lowest == 4                     \* multiplier 0.1
Capacity(k) == Full * Rate[k]   \* a burst of one second

\* max(0.1, multiplier * 0.5)
Halved(m) == IF m \div 2 < Lowest THEN Lowest ELSE m \div 2

\* A hash, `used` when it has tokens and last_refill; expires = 0 without TTL.
BucketType == [used : BOOLEAN, tokens : Nat, last : Nat, mult : Lowest..Full,
               expires : Nat]
NoBucket   == [used |-> FALSE, tokens |-> 0, last |-> 0, mult |-> Full, expires |-> 0]

\* turn: the index of the bucket asked; start: start_time; now: the time sent
\* with EVALSHA; seen: the multiplier report_429 read.
Pc == {"idle", "load", "call", "evalsha", "sleep", "send", "hmget", "hset", "refused", "done"}
CallType == [pc : Pc, turn : 1..3, start : 0..MaxClock, now : 0..MaxClock,
             seen : Lowest..Full]
At(p) == [pc |-> p, turn |-> 1, start |-> 0, now |-> 0, seen |-> Full]

Init ==
  /\ clock = 0
  /\ bucket = [b \in Backend |-> [k \in Key |-> NoBucket]]
  /\ backend = [l \in Limiter |-> "unknown"]
  /\ call = [c \in Coroutine |-> At("idle")]
  /\ taken = [b \in Backend |-> [k \in Key |-> 0]]
  /\ scanned = 0 /\ back = [k \in Key |-> 0]
  /\ stale = {} /\ slowed = {}

-----------------------------------------------------------------------------
(* One bucket.                                                             *)

\* The buckets of a request, in the order in which they are asked.
KeysScanFirst(c) ==
  IF DomainOf[c] \in Configured THEN <<ScanOf[c], Global, DomainOf[c]>>
  ELSE <<ScanOf[c], Global>>
KeysOf(c) ==
  IF DomainOf[c] \in Configured THEN <<Global, DomainOf[c], ScanOf[c]>>
  ELSE <<Global, ScanOf[c]>>

LeastOf(x, y) == IF x <= y THEN x ELSE y

\* tokens after the refill up to time t.
RefilledUnbounded(r, k, t) ==
  IF ~r.used THEN Capacity(k)
  ELSE IF t <= r.last THEN r.tokens
  ELSE r.tokens + (t - r.last) * Rate[k] * r.mult
RefilledIfZero(r, k, t) ==
  IF ~r.used \/ r.tokens = 0 THEN Capacity(k)
  ELSE IF t <= r.last THEN LeastOf(Capacity(k), r.tokens)
  ELSE LeastOf(Capacity(k), r.tokens + (t - r.last) * Rate[k] * r.mult)
Refilled(r, k, t) ==
  IF ~r.used THEN Capacity(k)
  ELSE IF t <= r.last THEN LeastOf(Capacity(k), r.tokens)
  ELSE LeastOf(Capacity(k), r.tokens + (t - r.last) * Rate[k] * r.mult)

Grants(r, k, t) == Refilled(r, k, t) >= Token

\* EXPIRE: twice the time that fills an empty bucket, rounded up.
LifetimeFullRate(r) == 1
Lifetime(r) == 2 * ((Full + r.mult - 1) \div r.mult)

\* The hash after the script or _LocalTokenBucket.acquire ran with time t:
\* both write the refill back also when they refuse.
AfterTryForgets(b, k, t) ==
  LET r == bucket[b][k]
  IN  [r EXCEPT !.used = TRUE,
                !.tokens = Refilled(r, k, t) - (IF Grants(r, k, t) THEN Token ELSE 0),
                !.last = t,
                !.mult = Full,
                !.expires = IF b = "redis" /\ Grants(r, k, t)
                              THEN clock + Lifetime(r) ELSE @]
AfterTry(b, k, t) ==
  LET r == bucket[b][k]
  IN  [r EXCEPT !.used = TRUE,
                !.tokens = Refilled(r, k, t) - (IF Grants(r, k, t) THEN Token ELSE 0),
                !.last = t,
                !.expires = IF b = "redis" /\ Grants(r, k, t)
                              THEN clock + Lifetime(r) ELSE @]

\* By how much the script, with the time t it was sent, sets last_refill too
\* early: before its value, or before the clock for a new bucket.
TooEarly(r, t) ==
  IF ~r.used THEN clock - t ELSE IF t < r.last THEN r.last - t ELSE 0

\* Coroutine c tries the bucket it is at: on to the next one, out of the
\* loop with True, or to sleep.  Nothing is given back on a refusal.
Try(c, b, t) ==
  LET k == KeysOf(c)[call[c].turn]
      r == bucket[b][k]
  IN  /\ bucket' = [bucket EXCEPT ![b][k] = AfterTry(b, k, t)]
      /\ taken' = [taken EXCEPT ![b][k] = @ + (IF Grants(r, k, t) THEN Token ELSE 0)]
      /\ scanned' = scanned + (IF Grants(r, k, t) /\ k \in Scan THEN Token ELSE 0)
      /\ back' = [back EXCEPT ![k] = @ + (IF b = "redis" THEN TooEarly(r, t) ELSE 0)]
      /\ slowed' = IF b = "redis" /\ Grants(r, k, t) THEN slowed \ {k} ELSE slowed
      /\ call' = [call EXCEPT ![c] =
                    IF ~Grants(r, k, t) THEN [@ EXCEPT !.pc = "sleep", !.now = 0]
                    ELSE IF @.turn = Len(KeysOf(c)) THEN At("send")
                    ELSE [@ EXCEPT !.pc = "call", !.now = 0, !.turn = call[c].turn + 1]]
      /\ UNCHANGED <<clock, stale>>

-----------------------------------------------------------------------------
(* acquire.                                                                *)

\* _ensure_backend: known already, or a SCRIPT LOAD to wait for.
Begin(c) ==
  /\ call[c].pc = "idle"
  /\ call' = [call EXCEPT ![c] =
                IF backend[LimiterOf[c]] = "unknown" THEN At("load")
                ELSE [At("call") EXCEPT !.start = clock]]
  /\ UNCHANGED <<clock, bucket, backend, histVars>>

\* Its answer, or its failure, decides for every coroutine of the limiter,
\* also over what another one has decided.
Loaded(c) ==
  /\ call[c].pc = "load"
  /\ \E b \in IF RedisFails THEN Backend ELSE {"redis"} :
       backend' = [backend EXCEPT ![LimiterOf[c]] = b]
  /\ call' = [call EXCEPT ![c] = [At("call") EXCEPT !.start = clock]]
  /\ UNCHANGED <<clock, bucket, histVars>>

\* _acquire_one up to the EVALSHA, with the time it sends.
SendScript(c) ==
  /\ call[c].pc = "call" /\ backend[LimiterOf[c]] = "redis"
  /\ call' = [call EXCEPT ![c] = [@ EXCEPT !.pc = "evalsha", !.now = clock]]
  /\ UNCHANGED <<clock, bucket, backend, histVars>>

\* Redis runs the script.
RunScript(c) ==
  /\ call[c].pc = "evalsha"
  /\ Try(c, "redis", call[c].now)
  /\ UNCHANGED backend

\* EVALSHA raises: this limiter uses the local buckets from now on.
ScriptFails(c) ==
  /\ RedisFails
  /\ call[c].pc = "evalsha"
  /\ backend' = [backend EXCEPT ![LimiterOf[c]] = "local"]
  /\ Try(c, "local", clock)

TryLocal(c) ==
  /\ call[c].pc = "call" /\ backend[LimiterOf[c]] = "local"
  /\ Try(c, "local", clock)
  /\ UNCHANGED backend

\* The condition of acquire's loop; start_time is taken once, before it.
WithinTimeoutAlways(c) == TRUE
WithinTimeout(c) == clock - call[c].start < Timeout

\* After the sleep: another pass from the first bucket, or False.
Wake(c) ==
  /\ call[c].pc = "sleep"
  /\ call' = [call EXCEPT ![c] = IF WithinTimeout(c) THEN [@ EXCEPT !.pc = "call", !.turn = 1]
                                ELSE At("refused")]
  /\ UNCHANGED <<clock, bucket, backend, histVars>>

-----------------------------------------------------------------------------
(* report_429, called when the target answers 429.                         *)

\* The local half: setdefault creates an empty bucket.
ReportLocal(c) ==
  LET r == bucket["local"][DomainOf[c]]
  IN  bucket' = [bucket EXCEPT !["local"][DomainOf[c]] =
                   [r EXCEPT !.used = TRUE, !.mult = Halved(@),
                             !.last = IF r.used THEN @ ELSE clock]]

\* The target's answer: another status, or 429.
Respond(c) ==
  /\ call[c].pc = "send"
  /\ \/ call' = [call EXCEPT ![c] = At("done")] /\ UNCHANGED bucket
     \/ /\ backend[LimiterOf[c]] = "redis"
        /\ call' = [call EXCEPT ![c] = At("hmget")] /\ UNCHANGED bucket
     \/ /\ backend[LimiterOf[c]] = "local"
        /\ call' = [call EXCEPT ![c] = At("done")] /\ ReportLocal(c)
  /\ UNCHANGED <<clock, backend, histVars>>

ReadMultiplier(c) ==
  /\ call[c].pc = "hmget"
  /\ call' = [call EXCEPT ![c] =
                [At("hset") EXCEPT !.seen = bucket["redis"][DomainOf[c]].mult]]
  /\ UNCHANGED <<clock, bucket, backend, histVars>>

\* HSET of half of what was read, whatever the hash holds by now; a hash
\* that does not exist is created without tokens and without TTL.
WriteMultiplier(c) ==
  /\ call[c].pc = "hset"
  /\ bucket' = [bucket EXCEPT !["redis"][DomainOf[c]].mult = Halved(call[c].seen)]
  /\ call' = [call EXCEPT ![c] = At("done")]
  /\ stale' = (stale \cup {d \in Coroutine : call[d].pc = "hset" /\ DomainOf[d] = DomainOf[c]})
                \ {c}
  /\ slowed' = slowed \cup {DomainOf[c]}
  /\ UNCHANGED <<clock, backend, taken, scanned, back>>

ReportFails(c) ==
  /\ RedisFails
  /\ call[c].pc \in {"hmget", "hset"}
  /\ backend' = [backend EXCEPT ![LimiterOf[c]] = "local"]
  /\ ReportLocal(c)
  /\ call' = [call EXCEPT ![c] = At("done")]
  /\ stale' = stale \ {c}
  /\ UNCHANGED <<clock, taken, scanned, back, slowed>>

-----------------------------------------------------------------------------
Expired(k) == LET r == bucket["redis"][k] IN r.expires # 0 /\ r.expires <= clock + 1

\* Time passes; Redis drops the keys whose TTL has run out.
Tick ==
  /\ clock < MaxClock
  /\ clock' = clock + 1
  /\ bucket' = [bucket EXCEPT !["redis"] =
                  [k \in Key |-> IF Expired(k) THEN NoBucket ELSE @[k]]]
  /\ stale' = stale \cup {c \in Coroutine : call[c].pc = "hset" /\ Expired(DomainOf[c])}
  /\ slowed' = {k \in slowed : ~Expired(k)}
  /\ UNCHANGED <<backend, call, taken, scanned, back>>

Step(c) ==
  \/ Begin(c) \/ Loaded(c) \/ SendScript(c) \/ RunScript(c) \/ ScriptFails(c)
  \/ TryLocal(c) \/ Wake(c)
  \/ Respond(c) \/ ReadMultiplier(c) \/ WriteMultiplier(c) \/ ReportFails(c)

Next == Tick \/ \E c \in Coroutine : Step(c)

\* Time passes and no coroutine waits for ever.
Fairness == WF_vars(Tick) /\ \A c \in Coroutine : WF_vars(Step(c))

Spec == Init /\ [][Next]_vars /\ Fairness

-----------------------------------------------------------------------------
\* Types; a bucket never holds more than its capacity nor less than nothing.
TypeOK ==
  /\ clock \in 0..MaxClock
  /\ bucket \in [Backend -> [Key -> BucketType]]
  /\ \A b \in Backend, k \in Key : bucket[b][k].tokens <= Capacity(k)
  /\ backend \in [Limiter -> Backend \cup {"unknown"}]
  /\ call \in [Coroutine -> CallType]
  /\ taken \in [Backend -> [Key -> Nat]] /\ scanned \in Nat
  /\ back \in [Key -> Nat]
  /\ stale \subseteq Coroutine /\ slowed \subseteq Key

\* What the limiter is for: from each backend no more is taken than its
\* capacity and the refill of the time that passed, with the time by which
\* late scripts set last_refill too early counted again.
RateHolds ==
  \A k \in Key :
    /\ taken["redis"][k] <= Capacity(k) * (1 + clock + back[k])
    /\ taken["local"][k] <= Capacity(k) * (1 + clock)

\* No request passes a scan's bucket without having paid the global one,
\* whichever backends either of them was in (acquire asks them in order, and a
\* pass that is refused later has paid for nothing).
GlobalPaysForScans == scanned <= taken["redis"][Global] + taken["local"][Global]

\* When a hash expires, its bucket would be full again anyway: forgetting it
\* grants nothing, unless a 429 slowed it down after the TTL was set.
ExpiryGrantsNothing ==
  [][\A k \in Key :
       (clock' # clock /\ Expired(k) /\ k \notin slowed)
         => Refilled(bucket["redis"][k], k, clock') = Capacity(k)]_vars

\* A multiplier rises only when its hash expires, or by a report_429 that
\* read it before another one wrote it or before it expired.
NoSilentRecovery ==
  [][\A k \in Key :
       bucket'["redis"][k].mult > bucket["redis"][k].mult
         => \/ clock' # clock /\ Expired(k)
            \/ \E c \in stale : call[c].pc = "hset" /\ call'[c].pc = "done" /\ DomainOf[c] = k]_vars

\* acquire answers: a coroutine that waits gets its tokens or is refused,
\* when its timeout falls within the bound on time.
Waiting == {"call", "evalsha", "sleep"}
AcquireAnswers ==
  \A c \in Coroutine :
    (call[c].pc \in Waiting /\ call[c].start + Timeout < MaxClock) ~> (call[c].pc \notin Waiting)
=============================================================================
