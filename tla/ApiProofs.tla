------------------------------ MODULE ApiProofs ------------------------------
(***************************************************************************)
(* Theorems about the API: the sliding window of the request limiter, for  *)
(* any limit, window, clock and number of clients; the event stream, for   *)
(* any number of workers, commits and lost streams; and AuthSessions, for  *)
(* any number of requests and addresses.                                   *)
(***************************************************************************)
EXTENDS RequestWindow, EventStream, AuthSessions, Integers, WellFoundedInduction, TLAPS

-----------------------------------------------------------------------------
(* The window.                                                             *)

\* The deque is what remains of the requests let through when those of more than a
\* window ago are dropped from the front.
Tracks(c) ==
  LET n == Len(passed[c])
      m == Len(bucket[c])
  IN  /\ m <= n
      /\ \A i \in 1..m : bucket[c][i] = passed[c][n - m + i]
      /\ \A i \in 1..(n - m) : time - passed[c][i] > Window

InOrder(c) == \A i \in 1..Len(passed[c]) : passed[c][i] <= time

WindowInv ==
  /\ time \in Nat
  /\ bucket \in [Client -> Seq(Nat)] /\ passed \in [Client -> Seq(Nat)]
  /\ \A c \in Client : Tracks(c) /\ InOrder(c)
  /\ WindowHolds

\* No deque and no history at first.
LEMMA WindowInitInv == WindowInit => WindowInv
<1> SUFFICES ASSUME WindowInit PROVE WindowInv
  OBVIOUS
<1>1. time \in Nat /\ bucket \in [Client -> Seq(Nat)] /\ passed \in [Client -> Seq(Nat)]
  BY DEF WindowInit
<1>2. \A c \in Client : passed[c] = <<>> /\ bucket[c] = <<>>
  BY DEF WindowInit
<1>3. \A c \in Client : Len(passed[c]) = 0 /\ Len(bucket[c]) = 0
  <2>1. Len(<<>>) = 0
    OBVIOUS
  <2> QED  BY <1>2, <2>1, Zenon
<1>4. \A c \in Client : Tracks(c) /\ InOrder(c)
  <2> SUFFICES ASSUME NEW c \in Client  PROVE Tracks(c) /\ InOrder(c)
    OBVIOUS
  <2>1. Len(passed[c]) = 0 /\ Len(bucket[c]) = 0
    BY <1>3
  <2>2. 1..0 = {} /\ 1..(0 - 0) = {}
    OBVIOUS
  <2> QED  BY <2>1, <2>2 DEF Tracks, InOrder
<1>5. WindowHolds
  BY <1>3, WindowAssumption DEF WindowHolds
<1> QED  BY <1>1, <1>4, <1>5 DEF WindowInv

\* The first live entry.
LEMMA OldestIsFirst ==
  ASSUME NEW I \in SUBSET Nat, I # {}
  PROVE  Oldest(I) \in I /\ \A j \in I : Oldest(I) <= j
<1> DEFINE Less == {p \in Nat \X Nat : p[1] < p[2]}
<1>1. IsWellFoundedOn(Less, Nat)
  BY NatLessThanWellFounded DEF OpToRel
<1> HIDE DEF Less
<1>2. PICK i \in I : \A j \in I : ~(<<j, i>> \in Less)
  BY <1>1, WFMin
<1>3. ASSUME NEW j \in I  PROVE i <= j
  <2>1. i \in Nat /\ j \in Nat
    OBVIOUS
  <2>2. ~(j < i)
    BY <1>2, <2>1 DEF Less
  <2> QED  BY <2>1, <2>2
<1> QED  BY <1>3 DEF Oldest

\* popleft leaves a suffix of the deque, and what it drops is more than a window old.
LEMMA KeptIsSuffix ==
  ASSUME WindowInv, NEW c \in Client
  PROVE  LET k == Len(Kept(c))
             m == Len(bucket[c])
         IN  /\ Kept(c) \in Seq(Nat) /\ k <= m
             /\ \A i \in 1..k : Kept(c)[i] = bucket[c][m - k + i]
             /\ \A i \in 1..(m - k) : time - bucket[c][i] > Window
<1> DEFINE b    == bucket[c]
           live == {i \in 1..Len(b) : time - b[i] <= Window}
<1>1. b \in Seq(Nat) /\ Len(b) \in Nat /\ time \in Nat /\ Window \in Nat
  BY WindowAssumption DEF WindowInv
<1>2. \A i \in 1..Len(b) : b[i] \in Nat
  BY <1>1
<1> HIDE DEF b
<1> USE DEF live
<1>3. CASE live = {}
  <2>1. Kept(c) = <<>>
    BY <1>3 DEF Kept, b
  <2>2. ASSUME NEW i \in 1..Len(b)  PROVE time - b[i] > Window
    <3>1. i \notin live /\ b[i] \in Nat
      BY <1>2, <1>3
    <3>2. ~(time - b[i] <= Window)
      BY <3>1
    <3> QED  BY <1>1, <3>1, <3>2
  <2> QED  BY <1>1, <2>1, <2>2 DEF b
<1>4. CASE live # {}
  <2> DEFINE o == Oldest(live)
  <2>1. o \in live /\ \A j \in live : o <= j
    <3>1. live \in SUBSET Nat
      BY <1>1
    <3> HIDE DEF live
    <3> QED  BY <1>4, <3>1, OldestIsFirst
  <2>3. Kept(c) = SubSeq(b, o, Len(b))
    BY <1>4 DEF Kept, b
  <2> HIDE DEF o
  <2>2. o \in 1..Len(b) /\ \A i \in 1..(o - 1) : i \in 1..Len(b) /\ i \notin live
    BY <1>1, <2>1
  <2> HIDE DEF o
  <2>4. /\ Kept(c) \in Seq(Nat) /\ Len(Kept(c)) = Len(b) - o + 1
        /\ \A i \in 1..(Len(b) - o + 1) : Kept(c)[i] = b[o + i - 1]
    BY <1>1, <1>2, <2>2, <2>3
  <2>5. ASSUME NEW i \in 1..(o - 1)  PROVE time - b[i] > Window
    <3>1. i \in 1..Len(b) /\ i \notin live /\ b[i] \in Nat
      BY <1>2, <2>2
    <3>2. ~(time - b[i] <= Window)
      BY <3>1
    <3> QED  BY <1>1, <3>1, <3>2
  <2> HIDE DEF live
  <2>6. /\ Kept(c) \in Seq(Nat) /\ Len(Kept(c)) <= Len(b)
        /\ \A i \in 1..Len(Kept(c)) : Kept(c)[i] = b[Len(b) - Len(Kept(c)) + i]
        /\ \A i \in 1..(Len(b) - Len(Kept(c))) : time - b[i] > Window
    BY <1>1, <2>2, <2>4, <2>5
  <2> QED  BY <2>6 DEF b
<1> QED  BY <1>3, <1>4

\* What the deque drops the history may forget.
LEMMA KeptTracks ==
  ASSUME WindowInv, NEW c \in Client
  PROVE  LET n == Len(passed[c])
             k == Len(Kept(c))
         IN  /\ Kept(c) \in Seq(Nat) /\ k <= n
             /\ \A i \in 1..k : Kept(c)[i] = passed[c][n - k + i]
             /\ \A i \in 1..(n - k) : time - passed[c][i] > Window
<1> DEFINE n == Len(passed[c])
           m == Len(bucket[c])
           k == Len(Kept(c))
<1>1. n \in Nat /\ m \in Nat /\ m <= n /\ Kept(c) \in Seq(Nat) /\ k \in Nat /\ k <= m
  BY KeptIsSuffix DEF WindowInv, Tracks
<1>2. /\ \A i \in 1..m : bucket[c][i] = passed[c][n - m + i]
      /\ \A i \in 1..(n - m) : time - passed[c][i] > Window
  BY DEF WindowInv, Tracks
<1>3. /\ \A i \in 1..k : Kept(c)[i] = bucket[c][m - k + i]
      /\ \A i \in 1..(m - k) : time - bucket[c][i] > Window
  BY KeptIsSuffix
<1> HIDE DEF n, m, k
<1>4. ASSUME NEW i \in 1..k  PROVE Kept(c)[i] = passed[c][n - k + i]
  <2>1. m - k + i \in 1..m /\ n - m + (m - k + i) = n - k + i
    BY <1>1, <1>4
  <2> QED  BY <1>2, <1>3, <2>1
<1>5. ASSUME NEW i \in 1..(n - k)  PROVE time - passed[c][i] > Window
  <2>1. CASE i <= n - m
    <3>1. i \in 1..(n - m)
      BY <1>1, <2>1
    <3> QED  BY <1>2, <3>1
  <2>2. CASE i > n - m
    <3>1. i - (n - m) \in 1..(m - k) /\ i - (n - m) \in 1..m /\ n - m + (i - (n - m)) = i
      BY <1>1, <2>2
    <3> QED  BY <1>2, <1>3, <3>1
  <2> QED  BY <1>1, <2>1, <2>2
<1> QED  BY <1>1, <1>4, <1>5 DEF n, k

\* A refusal only drops old times from the deque.
LEMMA WindowRefuse ==
  ASSUME WindowInv, NEW c \in Client, Refuse(c)
  PROVE  WindowInv'
<1>1. /\ time' = time /\ passed' = passed
      /\ bucket' = [bucket EXCEPT ![c] = Kept(c)]
  BY DEF Refuse
<1>2. /\ Kept(c) \in Seq(Nat) /\ bucket' \in [Client -> Seq(Nat)] /\ bucket'[c] = Kept(c)
      /\ \A d \in Client : d # c => bucket'[d] = bucket[d]
  BY <1>1, KeptTracks DEF WindowInv
<1>3. Tracks(c)'
  BY <1>1, <1>2, KeptTracks DEF Tracks
<1>4. \A d \in Client : d # c => Tracks(d)'
  BY <1>1, <1>2 DEF WindowInv, Tracks
<1> QED  BY <1>1, <1>2, <1>3, <1>4 DEF WindowInv, InOrder, WindowHolds

\* A request that is let through is appended to the deque and to the history.
LEMMA WindowLetThrough ==
  ASSUME WindowInv, NEW c \in Client, LetThrough(c)
  PROVE  WindowInv'
<1> DEFINE n == Len(passed[c])
           k == Len(Kept(c))
<1>1. /\ time' = time /\ time \in Nat
      /\ bucket' = [bucket EXCEPT ![c] = Append(Kept(c), time)]
      /\ passed' = [passed EXCEPT ![c] = Append(passed[c], time)]
      /\ k < Limit /\ Limit \in Nat /\ Window \in Nat
  BY KeptTracks, WindowAssumption DEF LetThrough, Full, WindowInv
<1>2. /\ passed[c] \in Seq(Nat) /\ n \in Nat /\ Kept(c) \in Seq(Nat) /\ k \in Nat /\ k <= n
      /\ \A i \in 1..k : Kept(c)[i] = passed[c][n - k + i]
      /\ \A i \in 1..(n - k) : time - passed[c][i] > Window
  BY KeptTracks DEF WindowInv
<1>3. /\ bucket' \in [Client -> Seq(Nat)] /\ passed' \in [Client -> Seq(Nat)]
      /\ bucket'[c] = Append(Kept(c), time) /\ passed'[c] = Append(passed[c], time)
      /\ \A d \in Client : d # c => bucket'[d] = bucket[d] /\ passed'[d] = passed[d]
  BY <1>1, <1>2 DEF WindowInv
<1>4. /\ Len(passed'[c]) = n + 1 /\ passed'[c][n + 1] = time
      /\ \A i \in 1..n : passed'[c][i] = passed[c][i]
      /\ Len(bucket'[c]) = k + 1 /\ bucket'[c][k + 1] = time
      /\ \A i \in 1..k : bucket'[c][i] = Kept(c)[i]
  BY <1>1, <1>2, <1>3
<1> HIDE DEF n, k
<1>5. Tracks(c)'
  <2>1. \A i \in 1..(k + 1) : bucket'[c][i] = passed'[c][n - k + i]
    <3> SUFFICES ASSUME NEW i \in 1..(k + 1)  PROVE bucket'[c][i] = passed'[c][n - k + i]
      OBVIOUS
    <3>1. CASE i = k + 1
      BY <1>2, <1>4, <3>1
    <3>2. CASE i \in 1..k
      <4>1. n - k + i \in 1..n
        BY <1>2, <3>2
      <4> QED  BY <1>2, <1>4, <3>2, <4>1
    <3> QED  BY <1>2, <3>1, <3>2
  <2>2. \A i \in 1..(n - k) : time' - passed'[c][i] > Window
    <3> SUFFICES ASSUME NEW i \in 1..(n - k)  PROVE time - passed'[c][i] > Window
      BY <1>1
    <3>1. i \in 1..n
      BY <1>2
    <3> QED  BY <1>2, <1>4, <3>1
  <2>3. (n + 1) - (k + 1) = n - k /\ k + 1 <= n + 1
    BY <1>2
  <2> QED  BY <1>4, <2>1, <2>2, <2>3 DEF Tracks
<1>6. InOrder(c)'
  <2> SUFFICES ASSUME NEW i \in 1..(n + 1)  PROVE passed'[c][i] <= time
    BY <1>1, <1>4 DEF InOrder
  <2>1. CASE i = n + 1
    BY <1>1, <1>4, <2>1
  <2>2. CASE i \in 1..n
    BY <1>4, <2>2 DEF WindowInv, InOrder, n
  <2> QED  BY <1>2, <2>1, <2>2
<1>7. \A d \in Client : d # c => Tracks(d)' /\ InOrder(d)'
  BY <1>1, <1>3 DEF WindowInv, Tracks, InOrder
<1>8. WindowHolds'
  <2> SUFFICES ASSUME NEW d \in Client, NEW i \in 1..(Len(passed'[d]) - Limit)
               PROVE  passed'[d][i + Limit] - passed'[d][i] > Window
    BY DEF WindowHolds
  <2>1. CASE d # c
    BY <1>3, <2>1 DEF WindowInv, WindowHolds
  <2>2. CASE d = c
    <3>1. i \in 1..(n + 1 - Limit)
      <4>1. Len(passed'[d]) = n + 1
        BY <1>4, <2>2
      <4> QED  BY <1>1, <1>2, <4>1
    <3>2. CASE i + Limit = n + 1
      <4>1. i \in 1..(n - k) /\ i \in 1..n
        BY <1>1, <1>2, <3>1, <3>2
      <4> QED  BY <1>2, <1>4, <2>2, <3>2, <4>1
    <3>3. CASE i + Limit # n + 1
      <4>1. i \in 1..n /\ i + Limit \in 1..n /\ i \in 1..(n - Limit)
        BY <1>1, <1>2, <3>1, <3>3
      <4>2. passed[c][i + Limit] - passed[c][i] > Window
        BY <4>1 DEF WindowInv, WindowHolds, n
      <4> QED  BY <1>4, <2>2, <4>1, <4>2
    <3> QED  BY <3>2, <3>3
  <2> QED  BY <2>1, <2>2
<1> QED  BY <1>1, <1>3, <1>5, <1>6, <1>7, <1>8 DEF WindowInv

\* Time only makes what was dropped older.
LEMMA WindowTick ==
  ASSUME WindowInv, Tick
  PROVE  WindowInv'
<1>1. /\ time \in Nat /\ time' = time + 1 /\ bucket' = bucket /\ passed' = passed
      /\ passed \in [Client -> Seq(Nat)] /\ Window \in Nat
  BY WindowAssumption DEF Tick, WindowInv
<1>2. \A c \in Client : \A i \in 1..Len(passed[c]) : passed[c][i] \in Nat
  BY <1>1
<1>3. \A c \in Client : InOrder(c)'
  BY <1>1, <1>2 DEF WindowInv, InOrder
<1>4. \A c \in Client : Tracks(c)'
  <2> SUFFICES ASSUME NEW c \in Client  PROVE Tracks(c)'
    OBVIOUS
  <2>1. Tracks(c) /\ Len(passed[c]) \in Nat /\ Len(bucket[c]) \in Nat
    BY <1>1 DEF WindowInv
  <2>2. ASSUME NEW i \in 1..(Len(passed[c]) - Len(bucket[c]))
        PROVE  time' - passed[c][i] > Window
    <3>1. i \in 1..Len(passed[c]) /\ time - passed[c][i] > Window
      BY <2>1 DEF Tracks
    <3> QED  BY <1>1, <1>2, <3>1
  <2> QED  BY <1>1, <2>1, <2>2 DEF Tracks
<1>5. WindowHolds'
  BY <1>1 DEF WindowInv, WindowHolds
<1> QED  BY <1>1, <1>3, <1>4, <1>5 DEF WindowInv

\* The window's invariant, for the theorems.
LEMMA WindowStep == WindowInv /\ [WindowNext]_windowVars => WindowInv'
<1> SUFFICES ASSUME WindowInv, [WindowNext]_windowVars  PROVE WindowInv'
  OBVIOUS
<1>1. CASE UNCHANGED windowVars
  BY <1>1 DEF windowVars, WindowInv, Tracks, InOrder, WindowHolds
<1> QED  BY <1>1, WindowRefuse, WindowLetThrough, WindowTick DEF WindowNext

\* No window holds more than Limit requests of one address: WindowHolds.
THEOREM WindowAlwaysHolds == WindowSpec => []WindowHolds
<1>1. WindowInv => WindowHolds
  BY DEF WindowInv
<1> QED  BY <1>1, WindowInitInv, WindowStep, PTL DEF WindowSpec

\* The deque holds no more than the limit.  A client that has been refused, and not let
\* through since, has a deque whose first entry is out of the window at the time that
\* Retry-After named.
Promised(c) ==
  /\ Len(bucket[c]) <= Limit
  /\ promise[c] # 0 => Len(bucket[c]) > 0 /\ promise[c] > bucket[c][1] + Window

PromiseInv == promise \in [Client -> Nat] /\ \A c \in Client : Promised(c)

\* Rounding down and adding one is rounding up, or better.
LEMMA RoundedUp ==
  ASSUME NEW n \in Nat, NEW d \in Nat \ {0}
  PROVE  (n \div d + 1) \in Nat /\ (n \div d + 1) * d > n
<1> DEFINE q == n \div d
<1>1. q \in Nat /\ n = d * q + (n % d) /\ (n % d) \in 0..(d - 1)
  OBVIOUS
<1> HIDE DEF q
<1>2. (q + 1) * d = d * q + d /\ d * q \in Nat
  BY <1>1
<1> QED  BY <1>1, <1>2 DEF q

\* The deque is left empty, or with an entry in the window at its front.
LEMMA KeptFront ==
  ASSUME WindowInv, NEW c \in Client
  PROVE  \/ Len(Kept(c)) = 0
         \/ \E o \in 1..Len(bucket[c]) :
              /\ Len(Kept(c)) = Len(bucket[c]) - o + 1
              /\ Kept(c)[1] = bucket[c][o] /\ time - bucket[c][o] <= Window
<1> DEFINE b    == bucket[c]
           live == {i \in 1..Len(b) : time - b[i] <= Window}
<1>1. b \in Seq(Nat) /\ Len(b) \in Nat /\ time \in Nat
  BY DEF WindowInv
<1>2. CASE live = {}
  BY <1>2 DEF Kept
<1>3. CASE live # {}
  <2> DEFINE o == Oldest(live)
  <2>1. o \in live
    <3>1. live \in SUBSET Nat
      BY <1>1
    <3> HIDE DEF live
    <3> QED  BY <1>3, <3>1, OldestIsFirst
  <2>2. Kept(c) = SubSeq(b, o, Len(b))
    BY <1>3 DEF Kept
  <2> HIDE DEF o
  <2>3. o \in 1..Len(b) /\ time - b[o] <= Window
    BY <2>1
  <2> HIDE DEF b
  <2>4. Len(Kept(c)) = Len(b) - o + 1 /\ Kept(c)[1] = b[o]
    BY <1>1, <2>2, <2>3
  <2> QED  BY <2>3, <2>4 DEF b
<1> QED  BY <1>2, <1>3

\* An entry out of the window leaves the deque.
LEMMA KeptDropsTheOld ==
  ASSUME WindowInv, NEW c \in Client, Len(bucket[c]) > 0, time - bucket[c][1] > Window
  PROVE  Len(Kept(c)) < Len(bucket[c])
<1>1. /\ Len(bucket[c]) \in Nat /\ time \in Nat /\ Window \in Nat
      /\ \A o \in 1..Len(bucket[c]) : bucket[c][o] \in Nat
  BY WindowAssumption DEF WindowInv
<1>2. ASSUME NEW o \in 1..Len(bucket[c]), Len(Kept(c)) = Len(bucket[c]) - o + 1,
             time - bucket[c][o] <= Window
      PROVE  Len(Kept(c)) < Len(bucket[c])
  <2>1. o # 1
    BY <1>1, <1>2
  <2> QED  BY <1>1, <1>2, <2>1
<1> QED  BY <1>1, <1>2, KeptFront

\* A refusal tells the client to wait until its first request has left the window.
LEMMA RefusePromises ==
  ASSUME WindowInv, PromiseInv, NEW c \in Client, Refuse(c)
  PROVE  PromiseInv'
<1> DEFINE k == Kept(c)
           p == time + RetryAfter(k) * Second
<1>1. /\ bucket' = [bucket EXCEPT ![c] = k] /\ promise' = [promise EXCEPT ![c] = p]
      /\ Len(k) >= Limit
  BY DEF Refuse, Full
<1>2. /\ time \in Nat /\ Window \in Nat /\ Second \in Nat \ {0} /\ Limit \in Nat \ {0}
      /\ Len(bucket[c]) \in Nat /\ Len(bucket[c]) <= Limit
  BY WindowAssumption DEF WindowInv, PromiseInv, Promised
<1>3. k \in Seq(Nat) /\ Len(k) \in Nat /\ Len(k) <= Limit
  BY <1>2, KeptIsSuffix
<1>4. k[1] \in Nat /\ k[1] <= time /\ time - k[1] <= Window
  <2>1. PICK o \in 1..Len(bucket[c]) : k[1] = bucket[c][o] /\ time - bucket[c][o] <= Window
    BY <1>1, <1>2, <1>3, KeptFront
  <2>2. k[1] \in Nat
    BY <1>1, <1>2, <1>3
  <2>3. /\ Len(k) <= Len(passed[c]) /\ passed[c] \in Seq(Nat)
        /\ \A i \in 1..Len(k) : k[i] = passed[c][Len(passed[c]) - Len(k) + i]
    BY KeptTracks DEF WindowInv
  <2> HIDE DEF k
  <2>4. k[1] <= time
    <3>1. 1 \in 1..Len(k) /\ Len(passed[c]) - Len(k) + 1 \in 1..Len(passed[c])
      BY <1>1, <1>2, <1>3, <2>3
    <3> QED  BY <2>3, <3>1 DEF WindowInv, InOrder
  <2> QED  BY <2>1, <2>2, <2>4
<1> HIDE DEF k
<1>5. p \in Nat /\ p > k[1] + Window
  <2> DEFINE n == Window - (time - k[1])
  <2>1. n \in Nat
    BY <1>2, <1>4
  <2>2. RetryAfter(k) = n \div Second + 1
    BY DEF RetryAfter
  <2> HIDE DEF n
  <2>3. RetryAfter(k) \in Nat /\ RetryAfter(k) * Second > n
    BY <1>2, <2>1, <2>2, RoundedUp
  <2> DEFINE x == RetryAfter(k) * Second
  <2>4. x \in Nat /\ x > n
    BY <1>2, <2>3
  <2> HIDE DEF x
  <2>5. time + x > k[1] + Window
    BY <1>2, <1>4, <2>1, <2>4 DEF n
  <2> QED  BY <1>2, <2>4, <2>5 DEF x
<1> HIDE DEF p
<1>6. /\ promise' \in [Client -> Nat]
      /\ promise'[c] = p /\ bucket'[c] = k
      /\ \A d \in Client : d # c => promise'[d] = promise[d] /\ bucket'[d] = bucket[d]
  BY <1>1, <1>5 DEF WindowInv, PromiseInv
<1>7. Promised(c)'
  BY <1>1, <1>2, <1>3, <1>5, <1>6 DEF Promised
<1>8. \A d \in Client : d # c => Promised(d)'
  BY <1>6 DEF PromiseInv, Promised
<1> QED  BY <1>6, <1>7, <1>8 DEF PromiseInv

\* A request let through fulfils what a refusal promised.
LEMMA LetThroughPromises ==
  ASSUME WindowInv, PromiseInv, NEW c \in Client, LetThrough(c)
  PROVE  PromiseInv'
<1>1. /\ bucket' = [bucket EXCEPT ![c] = Append(Kept(c), time)]
      /\ promise' = [promise EXCEPT ![c] = 0]
      /\ Len(Kept(c)) < Limit /\ Kept(c) \in Seq(Nat) /\ Limit \in Nat /\ time \in Nat
  BY KeptIsSuffix, WindowAssumption DEF LetThrough, Full, WindowInv
<1>2. /\ promise' \in [Client -> Nat] /\ promise'[c] = 0 /\ bucket'[c] = Append(Kept(c), time)
      /\ \A d \in Client : d # c => promise'[d] = promise[d] /\ bucket'[d] = bucket[d]
  BY <1>1 DEF WindowInv, PromiseInv
<1>3. Len(bucket'[c]) <= Limit
  BY <1>1, <1>2
<1>4. Promised(c)'
  BY <1>2, <1>3 DEF Promised
<1>5. \A d \in Client : d # c => Promised(d)'
  BY <1>2 DEF PromiseInv, Promised
<1> QED  BY <1>2, <1>4, <1>5 DEF PromiseInv

\* What a refusal promised is kept until the client is let through.
LEMMA PromiseStep == WindowInv /\ PromiseInv /\ [WindowNext]_windowVars => PromiseInv'
<1> SUFFICES ASSUME WindowInv, PromiseInv, [WindowNext]_windowVars  PROVE PromiseInv'
  OBVIOUS
<1>1. CASE Tick \/ UNCHANGED windowVars
  BY <1>1 DEF Tick, windowVars, PromiseInv, Promised
<1> QED  BY <1>1, RefusePromises, LetThroughPromises DEF WindowNext

\* A client that comes back when Retry-After told it to is not refused, unless another
\* request of its address has been let through: RetryAfterIsEnough.
THEOREM RetryAfterSuffices == WindowSpec => RetryAfterIsEnough
<1>1. WindowInit => PromiseInv
  <2> SUFFICES ASSUME WindowInit  PROVE PromiseInv
    OBVIOUS
  <2>1. \A c \in Client : bucket[c] = <<>> /\ promise[c] = 0
    BY DEF WindowInit
  <2>2. promise \in [Client -> Nat] /\ Len(<<>>) = 0 /\ Limit \in Nat
    BY WindowAssumption DEF WindowInit
  <2> QED  BY <2>1, <2>2 DEF PromiseInv, Promised
<1>2. WindowInv /\ PromiseInv /\ [WindowNext]_windowVars
        => [\A c \in Client : Refuse(c) => promise[c] = 0 \/ time < promise[c]]_windowVars
  <2> SUFFICES ASSUME WindowInv, PromiseInv, NEW c \in Client, Refuse(c), promise[c] # 0
               PROVE  time < promise[c]
    OBVIOUS
  <2>1. /\ Len(bucket[c]) > 0 /\ promise[c] > bucket[c][1] + Window /\ promise[c] \in Nat
        /\ Len(bucket[c]) <= Limit /\ Len(Kept(c)) >= Limit
        /\ time \in Nat /\ bucket[c][1] \in Nat /\ Window \in Nat /\ Limit \in Nat
        /\ Len(bucket[c]) \in Nat /\ Len(Kept(c)) \in Nat
    BY KeptIsSuffix, WindowAssumption DEF PromiseInv, Promised, Refuse, Full, WindowInv
  <2>2. ~(time - bucket[c][1] > Window)
    BY <2>1, KeptDropsTheOld
  <2> QED  BY <2>1, <2>2
<1> QED  BY <1>1, <1>2, WindowInitInv, WindowStep, PromiseStep, PTL DEF WindowSpec, RetryAfterIsEnough

-----------------------------------------------------------------------------
(* The stream.                                                             *)

Event   == [row : Row, status : Nat]
Session == [stage : {"idle", "loaded", "committed"}, row : Row, status : Nat, alone : BOOLEAN]

StreamTypeOK ==
  /\ db \in [Row -> Nat] /\ told \in [Row -> Nat]
  /\ work \in [Writer -> Session]
  /\ stream \in {0, 1, 2}
  /\ channel \in Seq(Event)
  /\ stream = 0 => channel = <<>>
  /\ unsure \subseteq Row

\* Who is alone with a row holds the status that is stored.
Alone ==
  \A w \in Writer, r \in Row : Has(w, r) /\ work[w].alone =>
    /\ work[w].status = db[r]
    /\ \A v \in Writer : Has(v, r) => v = w

\* The worker w has still to publish a commit to the row r.
Owes(w, r) == work[w].stage = "committed" /\ work[w].row = r

\* The event at place i is the last one of r in the channel.
LastOf(i, r) ==
  /\ i \in 1..Len(channel) /\ channel[i].row = r
  /\ \A j \in 1..Len(channel) : j > i => channel[j].row # r

\* When nobody owes an event of the row, its last event in the channel brings what is
\* stored; when there is none, "connected" or an earlier event has.
Newest(r) ==
  r \notin unsure /\ (\A w \in Writer : ~Owes(w, r)) =>
    /\ \A i \in 1..Len(channel) : LastOf(i, r) => channel[i].status = db[r]
    /\ stream = 2 /\ (\A i \in 1..Len(channel) : channel[i].row # r) => told[r] = db[r]

StreamInv == StreamTypeOK /\ Alone /\ \A r \in Row : Newest(r)

\* Nobody writes and nobody listens at first.
LEMMA StreamInitInv == StreamInit => StreamInv
<1> SUFFICES ASSUME StreamInit  PROVE StreamInv
  OBVIOUS
<1>1. /\ db \in [Row -> Nat] /\ told \in [Row -> Nat] /\ stream = 0 /\ channel = <<>>
      /\ unsure = {} /\ work = [w \in Writer |-> NoSession]
  BY DEF StreamInit
<1>2. NoSession \in Session /\ NoSession.stage = "idle"
  BY DEF NoSession, Session, Row
<1>3. StreamTypeOK
  BY <1>1, <1>2 DEF StreamTypeOK
<1>4. Alone
  BY <1>1, <1>2 DEF Alone, Has
<1>5. Len(channel) = 0
  BY <1>1
<1>6. \A i \in 1..Len(channel) : FALSE
  BY <1>5
<1> QED  BY <1>1, <1>3, <1>4, <1>6 DEF StreamInv, Newest

\* What a step leaves alone, and a new debt, keep the row's claim.
LEMMA NewestKept ==
  ASSUME NEW q \in Row, Newest(q), db'[q] = db[q],
         channel' = channel, stream' = stream, told' = told,
         q \in unsure => q \in unsure',
         \A w \in Writer : Owes(w, q) => Owes(w, q)'
  PROVE  Newest(q)'
<1>1. \A i : LastOf(i, q)' <=> LastOf(i, q)
  BY DEF LastOf
<1> QED  BY <1>1 DEF Newest

\* Disturbing a row changes nothing but that its workers are not alone.
LEMMA DisturbedWork ==
  ASSUME StreamTypeOK, NEW r \in Row
  PROVE  /\ Disturbed(r) \in [Writer -> Session]
         /\ \A w \in Writer : /\ Disturbed(r)[w].stage = work[w].stage
                              /\ Disturbed(r)[w].row = work[w].row
                              /\ Disturbed(r)[w].status = work[w].status
                              /\ Disturbed(r)[w].alone => work[w].alone /\ ~Has(w, r)
<1> SUFFICES ASSUME NEW w \in Writer
             PROVE  /\ Disturbed(r)[w] \in Session
                    /\ Disturbed(r)[w].stage = work[w].stage
                    /\ Disturbed(r)[w].row = work[w].row
                    /\ Disturbed(r)[w].status = work[w].status
                    /\ Disturbed(r)[w].alone => work[w].alone /\ ~Has(w, r)
  BY DEF Disturbed
<1>1. work[w] \in Session
  BY DEF StreamTypeOK
<1>2. CASE Has(w, r)
  BY <1>1, <1>2 DEF Disturbed, Session
<1>3. CASE ~Has(w, r)
  BY <1>1, <1>3 DEF Disturbed
<1> QED  BY <1>2, <1>3

\* Whoever loads a row is alone with it only if nobody has it at work.
LEMMA LoadInv ==
  ASSUME StreamInv, NEW w \in Writer, NEW r \in Row, Load(w, r)
  PROVE  StreamInv'
<1> DEFINE s == [stage |-> "loaded", row |-> r, status |-> db[r],
                 alone |-> \A v \in Writer : ~Has(v, r)]
<1>1. /\ StreamTypeOK /\ Alone
      /\ work[w] = NoSession /\ work' = [Disturbed(r) EXCEPT ![w] = s]
      /\ db' = db /\ stream' = stream /\ channel' = channel /\ told' = told /\ unsure' = unsure
  BY DEF StreamInv, Load
<1>2. /\ s \in Session /\ s.stage = "loaded" /\ s.row = r /\ s.status = db[r]
      /\ s.alone => \A v \in Writer : ~Has(v, r)
  <2>1. (\A v \in Writer : ~Has(v, r)) \in BOOLEAN
    OBVIOUS
  <2>2. db[r] \in Nat
    BY <1>1 DEF StreamTypeOK
  <2> QED  BY <2>1, <2>2 DEF Session
<1> HIDE DEF s
<1>3. /\ work' \in [Writer -> Session] /\ work'[w] = s
      /\ \A v \in Writer : v # w => work'[v] = Disturbed(r)[v]
  BY <1>1, <1>2, DisturbedWork
<1>4. StreamTypeOK'
  BY <1>1, <1>3 DEF StreamTypeOK
<1>5. ASSUME NEW v \in Writer, NEW q \in Row, v # w
      PROVE  Has(v, q)' <=> Has(v, q)
  BY <1>1, <1>3, <1>5, DisturbedWork DEF Has
<1>6. ASSUME NEW v \in Writer, NEW q \in Row, Has(v, q)', work'[v].alone
      PROVE  work'[v].status = db'[q] /\ \A x \in Writer : Has(x, q)' => x = v
  <2>1. CASE v = w
    <3>1. q = r /\ work'[v] = s
      BY <1>2, <1>3, <1>6, <2>1 DEF Has
    <3> QED  BY <1>1, <1>2, <1>5, <1>6, <2>1, <3>1
  <2>2. CASE v # w
    <3>1. Has(v, q) /\ work[v].alone /\ ~Has(v, r) /\ work'[v].status = work[v].status
      BY <1>1, <1>3, <1>5, <1>6, <2>2, DisturbedWork
    <3>2. q # r /\ ~Has(w, q)'
      BY <1>2, <1>3, <3>1 DEF Has
    <3> QED  BY <1>1, <1>5, <3>1, <3>2 DEF Alone
  <2> QED  BY <2>1, <2>2
<1>7. Alone'
  BY <1>6 DEF Alone
<1>8. ASSUME NEW q \in Row  PROVE Newest(q)'
  <2>1. \A v \in Writer : Owes(v, q) => Owes(v, q)'
    <3>1. ~Owes(w, q)
      BY <1>1 DEF NoSession, Owes
    <3> QED  BY <1>1, <1>3, <3>1, DisturbedWork DEF Owes
  <2> QED  BY <1>1, <2>1, NewestKept DEF StreamInv
<1> QED  BY <1>4, <1>7, <1>8 DEF StreamInv

\* A commit owes an event with the status it wrote, or with the one it found.
LEMMA CommitInv ==
  ASSUME StreamInv, NEW w \in Writer, Commit(w)
  PROVE  StreamInv'
<1> DEFINE r == work[w].row
<1>1. /\ StreamTypeOK /\ Alone /\ work[w] \in Session /\ r \in Row
      /\ work[w].stage = "loaded"
      /\ stream' = stream /\ channel' = channel /\ told' = told /\ unsure' = unsure
  BY DEF StreamInv, StreamTypeOK, Commit, Session
<1>2. /\ work' \in [Writer -> Session] /\ db' \in [Row -> Nat]
      /\ work'[w].stage = "committed" /\ work'[w].row = r /\ work'[w].alone = work[w].alone
      /\ \A v \in Writer : v # w => work'[v] = work[v]
      /\ \A q \in Row : q # r => db'[q] = db[q]
      /\ \/ work'[w].status = db'[r]
         \/ db' = db /\ work'[w].status = work[w].status
  <2>1. CASE /\ db' = [db EXCEPT ![r] = @ + 1]
             /\ work' = [work EXCEPT ![w].stage = "committed", ![w].status = db[r] + 1]
    <3>1. db[r] \in Nat
      BY <1>1 DEF StreamTypeOK
    <3>2. PICK n \in Nat : n = db[r] + 1
      BY <3>1
    <3> DEFINE t == [work[w] EXCEPT !.stage = "committed", !.status = n]
    <3>3. /\ t \in Session /\ t.stage = "committed" /\ t.row = r /\ t.alone = work[w].alone
          /\ t.status = db[r] + 1
      BY <1>1, <3>2 DEF Session
    <3>4. work' = [work EXCEPT ![w] = t]
      BY <2>1, <3>2
    <3> HIDE DEF t
    <3>5. /\ db' \in [Row -> Nat] /\ db'[r] = db[r] + 1
          /\ \A q \in Row : q # r => db'[q] = db[q]
      BY <1>1, <2>1, <3>1 DEF StreamTypeOK
    <3>6. /\ work' \in [Writer -> Session] /\ work'[w] = t
          /\ \A v \in Writer : v # w => work'[v] = work[v]
      BY <1>1, <3>3, <3>4 DEF StreamTypeOK
    <3> QED  BY <3>3, <3>5, <3>6
  <2>2. CASE db' = db /\ work' = [work EXCEPT ![w].stage = "committed"]
    BY <1>1, <2>2 DEF StreamTypeOK, Session
  <2> QED  BY <2>1, <2>2 DEF Commit
<1>3. \A v \in Writer, q \in Row : Has(v, q)' <=> Has(v, q)
  BY <1>1, <1>2 DEF Has
<1>4. Has(w, r)
  BY <1>1 DEF Has
<1>5. StreamTypeOK'
  BY <1>1, <1>2 DEF StreamTypeOK
<1> HIDE DEF r
<1>6. ASSUME NEW v \in Writer, NEW q \in Row, Has(v, q)', work'[v].alone
      PROVE  work'[v].status = db'[q] /\ \A x \in Writer : Has(x, q)' => x = v
  <2>1. Has(v, q) /\ work[v].alone
    BY <1>2, <1>3, <1>6
  <2>2. work[v].status = db[q] /\ \A x \in Writer : Has(x, q) => x = v
    BY <1>1, <2>1 DEF Alone
  <2>3. CASE v = w
    <3>1. q = r
      BY <1>4, <2>1, <2>3 DEF Has
    <3> QED  BY <1>2, <1>3, <2>2, <2>3, <3>1
  <2>4. CASE v # w
    <3>1. q # r
      BY <1>4, <2>2, <2>4
    <3> QED  BY <1>2, <1>3, <2>2, <2>4, <3>1
  <2> QED  BY <2>3, <2>4
<1>7. Alone'
  BY <1>6 DEF Alone
<1>8. ASSUME NEW q \in Row  PROVE Newest(q)'
  <2>1. CASE q = r
    <3>1. Owes(w, q)'
      BY <1>2, <2>1 DEF Owes
    <3> QED  BY <3>1 DEF Newest
  <2>2. CASE q # r
    <3>1. \A v \in Writer : Owes(v, q) => Owes(v, q)'
      BY <1>1, <1>2, <2>2 DEF Owes
    <3> QED  BY <1>1, <1>2, <2>2, <3>1, NewestKept DEF StreamInv
  <2> QED  BY <2>1, <2>2
<1> QED  BY <1>5, <1>7, <1>8 DEF StreamInv

\* A session that is closed leaves nothing behind.
LEMMA SessionClosed ==
  ASSUME StreamInv, NEW w \in Writer, work' = [work EXCEPT ![w] = NoSession], db' = db
  PROVE  /\ work' \in [Writer -> Session] /\ Alone'
         /\ \A v \in Writer : v # w => work'[v] = work[v]
         /\ \A q \in Row : ~Owes(w, q)'
<1>1. StreamTypeOK /\ Alone
  BY DEF StreamInv
<1>2. NoSession \in Session /\ NoSession.stage = "idle"
  BY DEF NoSession, Session, Row
<1>3. /\ work' \in [Writer -> Session] /\ work'[w] = NoSession
      /\ \A v \in Writer : v # w => work'[v] = work[v]
  BY <1>1, <1>2 DEF StreamTypeOK
<1>4. \A v \in Writer, q \in Row : Has(v, q)' => v # w /\ Has(v, q)
  BY <1>2, <1>3 DEF Has
<1>5. Alone'
  BY <1>1, <1>3, <1>4 DEF Alone
<1>6. \A q \in Row : ~Owes(w, q)'
  BY <1>2, <1>3 DEF Owes
<1> QED  BY <1>3, <1>5, <1>6

\* Giving up before the commit owes nothing.
LEMMA GiveUpInv ==
  ASSUME StreamInv, NEW w \in Writer, GiveUp(w)
  PROVE  StreamInv'
<1>1. /\ work[w].stage = "loaded" /\ work' = [work EXCEPT ![w] = NoSession]
      /\ db' = db /\ stream' = stream /\ channel' = channel /\ told' = told /\ unsure' = unsure
  BY DEF GiveUp
<1>2. StreamTypeOK' /\ Alone'
  BY <1>1, SessionClosed DEF StreamInv, StreamTypeOK
<1>3. ASSUME NEW q \in Row  PROVE Newest(q)'
  <2>1. \A v \in Writer : Owes(v, q) => Owes(v, q)'
    BY <1>1, SessionClosed DEF Owes
  <2> QED  BY <1>1, <2>1, NewestKept DEF StreamInv
<1> QED  BY <1>2, <1>3 DEF StreamInv

\* What the API commits without an event is noted as such.
LEMMA SilentCommitInv ==
  ASSUME StreamInv, NEW r \in Row, SilentCommit(r)
  PROVE  StreamInv'
<1>1. /\ StreamTypeOK /\ Alone
      /\ db' = [db EXCEPT ![r] = @ + 1] /\ work' = Disturbed(r) /\ unsure' = unsure \cup {r}
      /\ stream' = stream /\ channel' = channel /\ told' = told
  BY DEF StreamInv, SilentCommit
<1>2. /\ db' \in [Row -> Nat] /\ \A q \in Row : q # r => db'[q] = db[q]
  BY <1>1 DEF StreamTypeOK
<1>3. StreamTypeOK'
  BY <1>1, <1>2, DisturbedWork DEF StreamTypeOK
<1>4. \A v \in Writer, q \in Row : (Has(v, q)' <=> Has(v, q)) /\ (Owes(v, q)' <=> Owes(v, q))
  BY <1>1, DisturbedWork DEF Has, Owes
<1>5. ASSUME NEW v \in Writer, NEW q \in Row, Has(v, q)', work'[v].alone
      PROVE  work'[v].status = db'[q] /\ \A x \in Writer : Has(x, q)' => x = v
  <2>1. Has(v, q) /\ work[v].alone /\ ~Has(v, r) /\ work'[v].status = work[v].status
    BY <1>1, <1>4, <1>5, DisturbedWork
  <2>2. q # r
    BY <2>1
  <2> QED  BY <1>1, <1>2, <1>4, <2>1, <2>2 DEF Alone
<1>6. Alone'
  BY <1>5 DEF Alone
<1>7. ASSUME NEW q \in Row  PROVE Newest(q)'
  <2>1. CASE q = r
    BY <1>1, <2>1 DEF Newest
  <2>2. CASE q # r
    BY <1>1, <1>2, <1>4, <2>2, NewestKept DEF StreamInv
  <2> QED  BY <2>1, <2>2
<1> QED  BY <1>3, <1>6, <1>7 DEF StreamInv

\* What is published is received by whoever listens, or noted.
LEMMA PublishInv ==
  ASSUME StreamInv, NEW w \in Writer, Publish(w)
  PROVE  StreamInv'
<1>0. PICK r \in Row, e \in Event : r = work[w].row /\ e = [row |-> r, status |-> work[w].status]
  BY DEF StreamInv, StreamTypeOK, Session, Event
<1>1. /\ StreamTypeOK /\ Alone /\ work[w] \in Session /\ work[w].stage = "committed"
      /\ work' = [work EXCEPT ![w] = NoSession]
      /\ db' = db /\ stream' = stream /\ told' = told
      /\ unsure' \subseteq unsure \cup {r} /\ unsure \subseteq unsure' \cup {r}
      /\ \/ /\ channel' = IF Listening THEN Append(channel, e) ELSE channel
            /\ work[w].alone \/ r \in unsure'
         \/ channel' = channel /\ r \in unsure'
  BY <1>0 DEF StreamInv, StreamTypeOK, Publish
<1>2. e \in Event /\ e.row = r /\ e.status = work[w].status /\ r \in Row
  BY <1>0
<1>3. Has(w, r) /\ Owes(w, r)
  BY <1>0, <1>1 DEF Has, Owes
<1>4. Listening <=> stream # 0
  <2>1. Opening[1] = "subscribe" /\ Opening[2] = "connected"
    BY DEF Opening
  <2>2. \A i \in 1..stream : i \in {1, 2}
    BY <1>1 DEF StreamTypeOK
  <2>3. 1 \in 1..stream <=> stream # 0
    BY <1>1 DEF StreamTypeOK
  <2> QED  BY <2>1, <2>2, <2>3 DEF Listening, Did
<1>5. /\ channel \in Seq(Event) /\ Len(channel) \in Nat
      /\ LET c == Append(channel, e)
         IN  /\ c \in Seq(Event) /\ Len(c) = Len(channel) + 1 /\ c[Len(channel) + 1] = e
             /\ \A i \in 1..Len(channel) : c[i] = channel[i]
  BY <1>1, <1>2 DEF StreamTypeOK
<1>6. StreamTypeOK' /\ Alone'
  <2>1. work' \in [Writer -> Session] /\ Alone'
    BY <1>1, SessionClosed
  <2>2. channel' \in Seq(Event) /\ (stream' = 0 => channel' = <<>>)
    BY <1>1, <1>4, <1>5 DEF StreamTypeOK
  <2> QED  BY <1>1, <1>2, <2>1, <2>2 DEF StreamTypeOK
<1>7. \A v \in Writer, q \in Row : v # w => (Owes(v, q)' <=> Owes(v, q))
  BY <1>1, SessionClosed DEF Owes
<1>8. ASSUME NEW q \in Row, q # r  PROVE Newest(q)'
  <2>1. \A v \in Writer : Owes(v, q)' <=> Owes(v, q)
    <3>1. ~Owes(w, q) /\ ~Owes(w, q)'
      BY <1>1, <1>3, <1>8, SessionClosed DEF Owes
    <3> QED  BY <1>7, <3>1
  <2>2. Newest(q) /\ (q \in unsure => q \in unsure')
    BY <1>1, <1>8 DEF StreamInv
  <2>3. CASE channel' = channel
    BY <1>1, <2>1, <2>2, <2>3, NewestKept
  <2>4. CASE channel' = Append(channel, e)
    <3>1. ASSUME NEW i \in 1..Len(channel'), LastOf(i, q)'
          PROVE  i \in 1..Len(channel) /\ LastOf(i, q) /\ channel'[i] = channel[i]
      <4>1. i # Len(channel) + 1
        BY <1>2, <1>5, <1>8, <2>4, <3>1 DEF LastOf
      <4>2. i \in 1..Len(channel)
        BY <1>5, <2>4, <4>1
      <4>3. \A j \in 1..Len(channel) : j > i => channel[j].row # q
        BY <1>5, <2>4, <3>1 DEF LastOf
      <4> QED  BY <1>5, <2>4, <3>1, <4>2, <4>3 DEF LastOf
    <3>2. (\A i \in 1..Len(channel') : channel'[i].row # q)
            => \A i \in 1..Len(channel) : channel[i].row # q
      BY <1>5, <2>4
    <3>3. q \in unsure' <=> q \in unsure
      BY <1>1, <1>8
    <3> QED  BY <1>1, <2>1, <2>2, <3>1, <3>2, <3>3 DEF Newest
  <2> QED  BY <1>1, <2>3, <2>4
<1>9. Newest(r)'
  <2>1. CASE r \in unsure'
    BY <2>1 DEF Newest
  <2>2. CASE r \notin unsure' /\ stream = 0
    <3>1. channel' = <<>>
      BY <1>1, <1>4, <2>2 DEF StreamTypeOK
    <3>2. Len(channel') = 0
      BY <3>1
    <3>3. \A i \in 1..Len(channel') : FALSE
      BY <3>2
    <3> QED  BY <1>1, <2>2, <3>3 DEF Newest
  <2>3. CASE r \notin unsure' /\ stream # 0
    <3>1. channel' = Append(channel, e) /\ work[w].alone
      BY <1>1, <1>4, <2>3
    <3>2. e.status = db[r]
      BY <1>1, <1>2, <1>3, <3>1 DEF Alone
    <3>3. \A i \in 1..Len(channel') : LastOf(i, r)' => i = Len(channel) + 1
      BY <1>2, <1>5, <3>1 DEF LastOf
    <3>4. ~ \A i \in 1..Len(channel') : channel'[i].row # r
      <4>1. Len(channel) + 1 \in 1..Len(channel')
        BY <1>5, <3>1
      <4> QED  BY <1>2, <1>5, <3>1, <4>1
    <3> QED  BY <1>1, <1>5, <3>1, <3>2, <3>3, <3>4 DEF Newest
  <2> QED  BY <2>1, <2>2, <2>3
<1> QED  BY <1>6, <1>8, <1>9 DEF StreamInv

\* A subscription starts with nothing received; "connected" tells what is stored.
LEMMA OpenInv ==
  ASSUME StreamInv, Open
  PROVE  StreamInv'
<1>1. /\ StreamTypeOK /\ Alone /\ Len(Opening) = 2
      /\ Opening[1] = "subscribe" /\ Opening[2] = "connected"
  BY DEF StreamInv, Opening
<1>2. /\ stream \in {0, 1} /\ stream' = stream + 1
      /\ db' = db /\ work' = work /\ channel' = channel
      /\ unsure' = IF stream = 0 THEN {} ELSE unsure
      /\ told' = IF stream = 1 THEN db ELSE told
  BY <1>1 DEF Open, StreamTypeOK
<1>3. StreamTypeOK'
  BY <1>1, <1>2 DEF StreamTypeOK
<1>4. \A v \in Writer, q \in Row : (Has(v, q)' <=> Has(v, q)) /\ (Owes(v, q)' <=> Owes(v, q))
  BY <1>2 DEF Has, Owes
<1>5. Alone'
  BY <1>1, <1>2, <1>4 DEF Alone
<1>6. ASSUME NEW q \in Row  PROVE Newest(q)'
  <2>1. Newest(q) /\ \A i : LastOf(i, q)' <=> LastOf(i, q)
    BY <1>2 DEF StreamInv, LastOf
  <2>2. CASE stream = 0
    <3>1. Len(channel') = 0
      BY <1>1, <1>2, <2>2 DEF StreamTypeOK
    <3>2. \A i \in 1..Len(channel') : FALSE
      BY <3>1
    <3> QED  BY <1>2, <2>2, <3>2 DEF Newest
  <2>3. CASE stream = 1
    BY <1>2, <1>4, <2>1, <2>3 DEF Newest
  <2> QED  BY <1>2, <2>2, <2>3
<1> QED  BY <1>3, <1>5, <1>6 DEF StreamInv

\* The last event of a row tells what is stored.
LEMMA RelayInv ==
  ASSUME StreamInv, Relay
  PROVE  StreamInv'
<1> DEFINE e == Head(channel)
           n == Len(channel)
<1>1. StreamTypeOK
  BY DEF StreamInv
<1>2. /\ channel # <<>> /\ channel \in Seq(Event)
      /\ told' = [told EXCEPT ![e.row] = e.status] /\ channel' = Tail(channel)
      /\ db' = db /\ work' = work /\ stream' = stream /\ stream = 2 /\ unsure' = unsure
  <2>1. Len(Opening) = 2
    BY DEF Opening
  <2> QED  BY <1>1, <2>1 DEF Relay, StreamTypeOK
<1>3. /\ e \in Event /\ e = channel[1] /\ n \in Nat /\ n >= 1
      /\ channel' \in Seq(Event) /\ Len(channel') = n - 1
      /\ \A i \in 1..(n - 1) : channel'[i] = channel[i + 1]
  BY <1>2
<1>4. e.row \in Row /\ e.status \in Nat
  BY <1>3 DEF Event
<1> HIDE DEF e, n
<1>5. /\ told' \in [Row -> Nat] /\ told'[e.row] = e.status
      /\ \A q \in Row : q # e.row => told'[q] = told[q]
  BY <1>1, <1>2, <1>4 DEF StreamTypeOK
<1>6. StreamTypeOK'
  BY <1>1, <1>2, <1>3, <1>5 DEF StreamTypeOK
<1>7. ASSUME NEW q \in Row  PROVE Newest(q)'
  <2>1. Newest(q)
    BY DEF StreamInv
  <2>2. \A v \in Writer : Owes(v, q)' <=> Owes(v, q)
    BY <1>2 DEF Owes
  <2>3. ASSUME NEW i \in 1..Len(channel'), LastOf(i, q)'
        PROVE  i + 1 \in 1..Len(channel) /\ LastOf(i + 1, q) /\ channel'[i] = channel[i + 1]
    <3>1. i \in 1..(n - 1) /\ i + 1 \in 1..n /\ n = Len(channel)
      BY <1>3 DEF n
    <3>2. channel'[i] = channel[i + 1] /\ channel[i + 1].row = q
      BY <1>3, <2>3, <3>1 DEF LastOf
    <3>3. ASSUME NEW j \in 1..n, j > i + 1  PROVE channel[j].row # q
      <4>1. j - 1 \in 1..(n - 1) /\ j - 1 > i /\ (j - 1) + 1 = j
        BY <1>3, <3>1, <3>3
      <4>2. channel'[j - 1].row # q
        BY <1>3, <2>3, <4>1 DEF LastOf
      <4> QED  BY <1>3, <4>1, <4>2
    <3> QED  BY <3>1, <3>2, <3>3 DEF LastOf
  <2>4. ASSUME \A i \in 1..Len(channel') : channel'[i].row # q
        PROVE  \A j \in 1..n : j > 1 => channel[j].row # q
    <3> SUFFICES ASSUME NEW j \in 1..n, j > 1  PROVE channel[j].row # q
      OBVIOUS
    <3>1. j - 1 \in 1..(n - 1) /\ (j - 1) + 1 = j
      BY <1>3
    <3> QED  BY <1>3, <2>4, <3>1
  <2>5. ASSUME q \notin unsure, \A w \in Writer : ~Owes(w, q),
               \A i \in 1..Len(channel') : channel'[i].row # q
        PROVE  told'[q] = db[q]
    <3>1. \A j \in 1..n : j > 1 => channel[j].row # q
      BY <2>4, <2>5
    <3>2. 1 \in 1..n /\ n = Len(channel)
      BY <1>3 DEF n
    <3>3. CASE q = e.row
      <4>1. LastOf(1, q)
        BY <1>3, <3>1, <3>2, <3>3 DEF LastOf
      <4>2. channel[1].status = db[q]
        BY <2>1, <2>5, <3>2, <4>1 DEF Newest
      <4> QED  BY <1>3, <1>5, <3>3, <4>2
    <3>4. CASE q # e.row
      <4>1. ASSUME NEW j \in 1..n  PROVE channel[j].row # q
        BY <1>3, <3>1, <3>4
      <4>2. told[q] = db[q]
        BY <1>2, <2>1, <2>5, <3>2, <4>1 DEF Newest
      <4> QED  BY <1>5, <3>4, <4>2
    <3> QED  BY <3>3, <3>4
  <2> QED  BY <1>2, <2>1, <2>2, <2>3, <2>5 DEF Newest
<1>8. Alone'
  BY <1>2 DEF StreamInv, Alone, Has
<1> QED  BY <1>6, <1>7, <1>8 DEF StreamInv

\* A broken stream leaves nothing in the channel.
LEMMA BreakInv ==
  ASSUME StreamInv, Break
  PROVE  StreamInv'
<1>1. /\ StreamTypeOK /\ Alone
      /\ stream' = 0 /\ channel' = <<>> /\ Len(channel') = 0
      /\ db' = db /\ work' = work /\ told' = told /\ unsure' = unsure
  BY DEF StreamInv, Break
<1>2. StreamTypeOK'
  BY <1>1 DEF StreamTypeOK
<1>3. Alone'
  BY <1>1 DEF Alone, Has
<1>4. \A i \in 1..Len(channel') : FALSE
  BY <1>1
<1>5. ASSUME NEW q \in Row  PROVE Newest(q)'
  BY <1>1, <1>4 DEF Newest
<1> QED  BY <1>2, <1>3, <1>5 DEF StreamInv

\* When nothing is under way, what was stored at "connected" with the events relayed
\* since is what is stored: QuietStreamIsComplete.
THEOREM QuietStreamStaysComplete == StreamSpec => []QuietStreamIsComplete
<1>1. StreamInv /\ [StreamNext]_streamVars => StreamInv'
  <2> SUFFICES ASSUME StreamInv, [StreamNext]_streamVars  PROVE StreamInv'
    OBVIOUS
  <2>1. CASE UNCHANGED streamVars
    <3>1. StreamTypeOK'
      BY <2>1 DEF streamVars, StreamInv, StreamTypeOK
    <3>2. Alone'
      BY <2>1 DEF streamVars, StreamInv, Alone, Has
    <3>3. ASSUME NEW q \in Row  PROVE Newest(q)'
      <4>1. \A w \in Writer : Owes(w, q) => Owes(w, q)'
        BY <2>1 DEF streamVars, Owes
      <4> QED  BY <2>1, <4>1, NewestKept DEF streamVars, StreamInv
    <3> QED  BY <3>1, <3>2, <3>3 DEF StreamInv
  <2>2. CASE \E w \in Writer : \/ \E r \in Row : Load(w, r)
                              \/ Commit(w) \/ GiveUp(w) \/ Publish(w)
    BY <2>2, LoadInv, CommitInv, GiveUpInv, PublishInv
  <2>3. CASE (\E r \in Row : SilentCommit(r)) \/ Open \/ Relay \/ Break
    BY <2>3, SilentCommitInv, OpenInv, RelayInv, BreakInv
  <2> QED  BY <2>1, <2>2, <2>3 DEF StreamNext
<1>2. StreamInv => QuietStreamIsComplete
  <2> SUFFICES ASSUME StreamInv, stream = Len(Opening), channel = <<>>,
                      \A w \in Writer : work[w] = NoSession, NEW r \in Row \ unsure
               PROVE  told[r] = db[r]
    BY DEF QuietStreamIsComplete
  <2>1. \A w \in Writer : ~Owes(w, r)
    BY DEF Owes, NoSession
  <2>2. Len(channel) = 0 /\ stream = 2
    BY DEF Opening
  <2>3. \A i \in 1..Len(channel) : FALSE
    BY <2>2
  <2> QED  BY <2>1, <2>2, <2>3 DEF StreamInv, Newest
<1> QED  BY <1>1, <1>2, StreamInitInv, PTL DEF StreamSpec

-----------------------------------------------------------------------------
(* Authentication: types, tokens stay used up, and late registrations do   *)
(* not make administrators.                                                *)


Call == [op : Operation, email : Email \cup {NoEmail}, token : Token \cup {NoToken},
         pc : Pc, first : BOOLEAN]

Accounts == {"register", "bootstrap", "login"}
Bearers  == {"refresh", "logout", "me", "users"}

TypeInv ==
  /\ role \in [Email -> Roles \cup {"none"}]
  /\ revoked \subseteq {t \in Token : Issued(t)}
  /\ call \in [Request -> Call]
  /\ answer \in [Request -> Status]
  /\ owner \in [Request -> Email \cup {NoEmail}]
  /\ before \in [Request -> SUBSET Request]

\* A request that has begun has the argument its operation needs.
ArgInv ==
  \A r \in Request : call[r].pc # "new" =>
    /\ call[r].op \in Accounts => call[r].email \in Email
    /\ call[r].op \in Bearers  => call[r].token \in Token /\ Issued(call[r].token)

\* Nobody is answered before it begins, and `before` holds answered requests.
AnswerInv ==
  \A r \in Request :
    /\ call[r].pc = "new" => answer[r] = "none"
    /\ \A q \in before[r] : answer[q] # "none"

AuthInv == TypeInv /\ ArgInv /\ AnswerInv

\* No account and no request at first.
LEMMA InitInv == AuthInit => AuthInv
  BY NoneAssumption DEF AuthInit, AuthInv, TypeInv, ArgInv, AnswerInv, Call, Idle, Operation, Pc,
     Status, Roles

\* The owner of an issued token is an address.
LEMMA SubjectIsEmail ==
  ASSUME AuthInv, NEW r \in Request, call[r].pc # "new", call[r].op \in Bearers
  PROVE  Subject(r) \in Email
  BY DEF AuthInv, TypeInv, ArgInv, Issued, Subject, Token, Bearers

\* What all steps but Begin and LookForFirst have in common.
Moves(r) ==
  /\ \E pc \in Pc \ {"new"} : call' = [call EXCEPT ![r].pc = pc]
  /\ \/ answer' = answer
     \/ \E status \in Status :
          answer' = [answer EXCEPT ![r] = IF @ = "none" THEN status ELSE @]
  /\ \/ owner' = owner
     \/ \E email \in Email :
          owner' = [owner EXCEPT ![r] = IF answer[r] = "none" THEN email ELSE @]
  /\ before' = before

\* Reading and answering: the tables stay as they are.
Reads(r) == FindEmail(r) \/ Reread(r) \/ CheckRevoked(r) \/ GetUser(r) \/ LookAgain(r) \/ TimeOut(r)

\* A statement that only reads moves its own request on.
LEMMA ReadMoves ==
  ASSUME AuthInv, NEW r \in Request, Reads(r)
  PROVE  Moves(r) /\ role' = role /\ revoked' = revoked
<1> USE DEF Moves, Pc, Status, At, Goto
<1>1. CASE FindEmail(r)
  <2>1. call[r].email \in Email
    BY <1>1 DEF FindEmail, LogIn, AuthInv, ArgInv, Accounts
  <2>2. CASE call[r].op = "register"
    BY <1>1, <2>2 DEF FindEmail, LogIn, Answers, Fails, Continues
  <2>3. CASE call[r].op = "bootstrap"
    BY <1>1, <2>3 DEF FindEmail, LogIn, Answers, Fails, Continues
  <2>4. CASE call[r].op = "login"
    BY <1>1, <2>1, <2>4 DEF FindEmail, LogIn, Answers, Issues, Fails
  <2> QED  BY <1>1, <2>2, <2>3, <2>4 DEF FindEmail, LogIn
<1>2. CASE Reread(r)
  <2>1. call[r].email \in Email
    BY <1>2 DEF Reread, AuthInv, ArgInv, Accounts
  <2> QED  BY <1>2, <2>1 DEF Reread, Answers, Issues
<1>3. CASE CheckRevoked(r)
  BY <1>3 DEF CheckRevoked, Answers, Fails, Continues
<1>4. CASE GetUser(r)
  <2>1. CASE role[Subject(r)] = "none"
    BY <1>4, <2>1 DEF GetUser, Serve, Answers, Fails
  <2>2. CASE role[Subject(r)] # "none" /\ call[r].op = "refresh"
    BY <1>4, <2>2 DEF GetUser, Serve, Continues
  <2>3. CASE role[Subject(r)] # "none" /\ call[r].op = "me"
    BY <1>4, <2>3 DEF GetUser, Serve, Answers, Fails
  <2>4. CASE role[Subject(r)] # "none" /\ call[r].op = "users"
    BY <1>4, <2>4 DEF GetUser, Serve, Answers, Fails
  <2> QED  BY <1>4, <2>1, <2>2, <2>3, <2>4 DEF GetUser, Serve
<1>5. CASE LookAgain(r)
  <2>1. Subject(r) \in Email
    BY <1>5, SubjectIsEmail DEF LookAgain, Bearers
  <2> QED  BY <1>5, <2>1 DEF LookAgain, Rotated, Answers, Issues, Fails, Continues
<1>6. CASE TimeOut(r)
  <2>1. PICK pc \in Pc \ {"new"} : call' = [call EXCEPT ![r].pc = pc]
    <3>1. CASE Goto(r, "done")
      BY <3>1
    <3>2. CASE UNCHANGED call
      <4>1. call = [call EXCEPT ![r].pc = call[r].pc]
        BY DEF AuthInv, TypeInv, Call
      <4>2. call[r].pc \in Pc \ {"new"}
        BY <1>6 DEF TimeOut, AuthInv, TypeInv, Call
      <4> QED  BY <3>2, <4>1, <4>2
    <3> QED  BY <1>6, <3>1, <3>2 DEF TimeOut
  <2>2. answer' = [answer EXCEPT ![r] = IF @ = "none" THEN "504" ELSE @]
    BY <1>6 DEF TimeOut
  <2> QED  BY <1>6, <2>1, <2>2 DEF TimeOut
<1> QED  BY <1>1, <1>2, <1>3, <1>4, <1>5, <1>6 DEF Reads

\* An insertion moves its request on and may open the account.
LEMMA InsertMoves ==
  ASSUME AuthInv, NEW r \in Request, Insert(r)
  PROVE  /\ Moves(r) /\ revoked' = revoked
         /\ \/ role' = role
            \/ /\ role[call[r].email] = "none"
               /\ \E new \in RoleFor(r) : role' = [role EXCEPT ![call[r].email] = new]
<1> USE DEF Insert, Moves, Pc, Status, At, Goto, Answers, Fails, Continues
<1>1. CASE role[call[r].email] # "none"
  BY <1>1
<1>2. CASE role[call[r].email] = "none" /\ call[r].op = "register"
  BY <1>2
<1>3. CASE role[call[r].email] = "none" /\ call[r].op # "register"
  BY <1>3
<1> QED  BY <1>1, <1>2, <1>3

\* A revocation moves its request on and may add its token to the table.
LEMMA RevokeMoves ==
  ASSUME AuthInv, NEW r \in Request, Revoke(r)
  PROVE  /\ Moves(r) /\ role' = role
         /\ revoked' = revoked \/ revoked' = revoked \cup {call[r].token}
<1>1. Subject(r) \in Email
  BY SubjectIsEmail DEF Revoke, At, Bearers
<1> USE DEF Revoke, Moves, Pc, Status, At, Goto, Answers, Issues, Fails, Rotated
<1>2. CASE call[r].token \in revoked
  BY <1>2
<1>3. CASE call[r].token \notin revoked /\ call[r].op = "refresh"
  BY <1>1, <1>3
<1>4. CASE call[r].token \notin revoked /\ call[r].op # "refresh"
  BY <1>4
<1> QED  BY <1>2, <1>3, <1>4

\* A step of one request, by what it may do to the tables and to the request.
LEMMA MoveFrame ==
  ASSUME AuthInv, NEW r \in Request, Moves(r)
  PROVE  /\ call' \in [Request -> Call] /\ answer' \in [Request -> Status]
         /\ owner' \in [Request -> Email \cup {NoEmail}]
         /\ before' \in [Request -> SUBSET Request]
         /\ \A q \in Request : /\ call'[q].op = call[q].op /\ call'[q].email = call[q].email
                               /\ call'[q].token = call[q].token /\ call'[q].first = call[q].first
                               /\ before'[q] = before[q]
                               /\ answer[q] # "none" => answer'[q] = answer[q]
                               /\ owner[q] # NoEmail => owner'[q] # NoEmail
                               /\ q # r => call'[q] = call[q] /\ answer'[q] = answer[q]
         /\ call'[r].pc # "new"
<1>1. PICK pc \in Pc \ {"new"} : call' = [call EXCEPT ![r].pc = pc]
  BY DEF Moves
<1>2. call \in [Request -> Call]
  BY DEF AuthInv, TypeInv
<1>3. /\ call' \in [Request -> Call]
      /\ call'[r] = [call[r] EXCEPT !.pc = pc]
      /\ \A q \in Request \ {r} : call'[q] = call[q]
  BY <1>1, <1>2 DEF Call
<1>4. /\ call'[r].op = call[r].op /\ call'[r].email = call[r].email
      /\ call'[r].token = call[r].token /\ call'[r].first = call[r].first
      /\ call'[r].pc = pc
  BY <1>2, <1>3 DEF Call
<1>5. /\ answer' \in [Request -> Status]
      /\ \A q \in Request : /\ answer[q] # "none" => answer'[q] = answer[q]
                            /\ q # r => answer'[q] = answer[q]
  BY DEF Moves, AuthInv, TypeInv
<1>6. /\ owner' \in [Request -> Email \cup {NoEmail}]
      /\ \A q \in Request : owner[q] # NoEmail => owner'[q] # NoEmail
  BY NoneAssumption DEF Moves, AuthInv, TypeInv
<1>7. before' = before /\ before \in [Request -> SUBSET Request]
  BY DEF Moves, AuthInv, TypeInv
<1> QED  BY <1>3, <1>4, <1>5, <1>6, <1>7

\* A request that moves on, with an account opened or its own token revoked, keeps the
\* types.
LEMMA MoveInv ==
  ASSUME AuthInv, NEW r \in Request, Moves(r), call[r].pc # "new",
         role' \in [Email -> Roles \cup {"none"}],
         revoked' \subseteq revoked \cup {call[r].token},
         revoked' = revoked \/ call[r].op \in Bearers
  PROVE  AuthInv'
<1>1. \A t : t \in Token /\ Issued(t) => Issued(t)'
  BY MoveFrame DEF Issued, Token
<1>2. revoked' \subseteq {t \in Token : Issued(t)'}
  BY <1>1 DEF AuthInv, TypeInv, ArgInv
<1>3. TypeInv'
  BY <1>2, MoveFrame DEF TypeInv
<1>4. ArgInv'
  <2> SUFFICES ASSUME NEW q \in Request, call'[q].pc # "new"
               PROVE  /\ call'[q].op \in Accounts => call'[q].email \in Email
                      /\ call'[q].op \in Bearers => call'[q].token \in Token
                                                 /\ owner'[call'[q].token.by] # NoEmail
    BY DEF ArgInv, Issued
  <2>1. call[q].pc # "new"
    BY MoveFrame
  <2>2. call[q].op \in Bearers => call[q].token.by \in Request
    BY <2>1 DEF AuthInv, ArgInv, Token
  <2> QED  BY <2>1, <2>2, MoveFrame DEF AuthInv, ArgInv, Issued
<1>5. AnswerInv'
  <2> SUFFICES ASSUME NEW q \in Request
               PROVE  /\ call'[q].pc = "new" => answer'[q] = "none"
                      /\ \A s \in before'[q] : answer'[s] # "none"
    BY DEF AnswerInv
  <2>1. \A s \in before'[q] : s \in Request /\ answer[s] # "none"
    BY MoveFrame DEF AuthInv, TypeInv, AnswerInv
  <2>2. call'[q].pc = "new" => q # r
    BY MoveFrame
  <2> QED  BY <2>1, <2>2, MoveFrame DEF AuthInv, AnswerInv
<1> QED  BY <1>3, <1>4, <1>5 DEF AuthInv

\* Begin gives a request its argument and notes who has been answered.
LEMMA BeginFrame ==
  ASSUME AuthInv, NEW r \in Request, Begin(r)
  PROVE  /\ call[r].pc = "new" /\ answer[r] = "none"
         /\ call' \in [Request -> Call]
         /\ call'[r].pc \in {"email", "again", "revoked"}
         /\ call'[r].first = FALSE
         /\ call'[r].op \in Accounts => call'[r].email \in Email
         /\ call'[r].op \in Bearers => call'[r].token \in Token /\ Issued(call'[r].token)
         /\ call'[r].op \in Bearers \ {"logout"} => call'[r].pc = "revoked"
         /\ before' \in [Request -> SUBSET Request]
         /\ before'[r] = {q \in Request : answer[q] # "none"}
         /\ \A q \in Request \ {r} : call'[q] = call[q] /\ before'[q] = before[q]
         /\ UNCHANGED <<role, revoked, answer, owner>>
<1>1. /\ call[r].pc = "new" /\ answer[r] = "none"
      /\ call \in [Request -> Call] /\ before \in [Request -> SUBSET Request]
  BY DEF Begin, AuthInv, TypeInv, AnswerInv
<1>2. /\ before' \in [Request -> SUBSET Request]
      /\ before'[r] = {q \in Request : answer[q] # "none"}
      /\ \A q \in Request \ {r} : before'[q] = before[q]
      /\ UNCHANGED <<role, revoked, answer, owner>>
  BY <1>1 DEF Begin
<1>3. CASE \E op \in {"register", "bootstrap", "login"}, e \in Email :
             call' = [call EXCEPT ![r] = [Idle EXCEPT !.op = op, !.email = e, !.pc = "email"]]
  <2>1. PICK op \in {"register", "bootstrap", "login"}, e \in Email :
             call' = [call EXCEPT ![r] = [Idle EXCEPT !.op = op, !.email = e, !.pc = "email"]]
    BY <1>3
  <2> DEFINE new == [Idle EXCEPT !.op = op, !.email = e, !.pc = "email"]
  <2>2. /\ new \in Call /\ new.op = op /\ new.email = e /\ new.pc = "email" /\ new.first = FALSE
    BY DEF Idle, Call, Operation, Pc
  <2> HIDE DEF new
  <2>3. /\ call' \in [Request -> Call] /\ call'[r] = new
        /\ \A q \in Request \ {r} : call'[q] = call[q]
    BY <1>1, <2>1, <2>2 DEF new
  <2> QED  BY <1>1, <1>2, <2>2, <2>3 DEF Bearers
<1>4. CASE \E op \in {"refresh", "logout", "me", "users"}, t \in Token :
             /\ Issued(t)
             /\ call' = [call EXCEPT ![r] = [Idle EXCEPT !.op = op, !.token = t,
                           !.pc = IF op = "logout" THEN "again" ELSE "revoked"]]
  <2>1. PICK op \in {"refresh", "logout", "me", "users"}, t \in Token :
             /\ Issued(t)
             /\ call' = [call EXCEPT ![r] = [Idle EXCEPT !.op = op, !.token = t,
                           !.pc = IF op = "logout" THEN "again" ELSE "revoked"]]
    BY <1>4
  <2> DEFINE new == [Idle EXCEPT !.op = op, !.token = t,
                           !.pc = IF op = "logout" THEN "again" ELSE "revoked"]
  <2>2. /\ new \in Call /\ new.op = op /\ new.token = t /\ new.first = FALSE
        /\ new.pc = IF op = "logout" THEN "again" ELSE "revoked"
    BY DEF Idle, Call, Operation, Pc
  <2> HIDE DEF new
  <2>3. /\ call' \in [Request -> Call] /\ call'[r] = new
        /\ \A q \in Request \ {r} : call'[q] = call[q]
    BY <1>1, <2>1, <2>2 DEF new
  <2> QED  BY <1>1, <1>2, <2>1, <2>2, <2>3 DEF Accounts, Bearers
<1> QED  BY <1>3, <1>4 DEF Begin

\* A request begins with arguments of its operation.
LEMMA BeginInv ==
  ASSUME AuthInv, NEW r \in Request, Begin(r)
  PROVE  AuthInv'
<1>1. TypeInv'
  BY BeginFrame DEF AuthInv, TypeInv, Issued
<1>2. ArgInv'
  BY BeginFrame DEF AuthInv, ArgInv, Issued
<1>3. AnswerInv'
  BY BeginFrame DEF AuthInv, AnswerInv
<1> QED  BY <1>1, <1>2, <1>3 DEF AuthInv

\* What looking for the first account changes.
LEMMA LookForFirstFrame ==
  ASSUME AuthInv, NEW r \in Request, LookForFirst(r)
  PROVE  /\ call[r].op = "register" /\ call[r].pc = "first"
         /\ call' \in [Request -> Call]
         /\ call'[r].op = call[r].op /\ call'[r].email = call[r].email
         /\ call'[r].token = call[r].token /\ call'[r].pc = "insert"
         /\ call'[r].first = NobodyThere
         /\ \A q \in Request \ {r} : call'[q] = call[q]
         /\ UNCHANGED <<role, revoked, answer, owner, before>>
<1>1. /\ call[r].op = "register" /\ call[r].pc = "first" /\ call \in [Request -> Call]
  BY DEF LookForFirst, At, AuthInv, TypeInv
<1> DEFINE new == [call[r] EXCEPT !.first = NobodyThere, !.pc = "insert"]
<1>2. NobodyThere \in BOOLEAN
  BY DEF NobodyThere
<1>3. /\ new \in Call /\ new.op = call[r].op /\ new.email = call[r].email
      /\ new.token = call[r].token /\ new.pc = "insert" /\ new.first = NobodyThere
  BY <1>1, <1>2 DEF Call, Pc
<1>4. call' = [call EXCEPT ![r] = new]
  BY DEF LookForFirst
<1> HIDE DEF new
<1> QED  BY <1>1, <1>3, <1>4 DEF LookForFirst

\* Looking for the first account keeps the types.
LEMMA LookForFirstInv ==
  ASSUME AuthInv, NEW r \in Request, LookForFirst(r)
  PROVE  AuthInv'
<1>1. TypeInv'
  BY LookForFirstFrame DEF AuthInv, TypeInv, Issued
<1>2. ArgInv'
  BY LookForFirstFrame DEF AuthInv, ArgInv, Issued
<1>3. AnswerInv'
  BY LookForFirstFrame DEF AuthInv, AnswerInv
<1> QED  BY <1>1, <1>2, <1>3 DEF AuthInv

\* An insertion gives a role and changes no account that is there.
LEMMA RoleOfInsert ==
  ASSUME AuthInv, NEW r \in Request, Insert(r)
  PROVE  /\ role' \in [Email -> Roles \cup {"none"}]
         /\ \A e \in Email : role[e] # "none" => role'[e] = role[e]
<1>1. \A new \in RoleFor(r) : new \in Roles
  BY DEF RoleFor, Roles
<1> QED  BY <1>1, InsertMoves DEF AuthInv, TypeInv

\* The types, the arguments and the order of answers are kept by every step.
LEMMA StepInv ==
  ASSUME AuthInv, [AuthNext]_authVars
  PROVE  AuthInv'
<1>1. CASE UNCHANGED authVars
  BY <1>1 DEF authVars, AuthInv, TypeInv, ArgInv, AnswerInv, Issued
<1>2. ASSUME NEW r \in Request, Begin(r)  PROVE AuthInv'
  BY <1>2, BeginInv
<1>3. ASSUME NEW r \in Request, LookForFirst(r)  PROVE AuthInv'
  BY <1>3, LookForFirstInv
<1>4. ASSUME NEW r \in Request, Insert(r)  PROVE AuthInv'
  <2>1. call[r].pc # "new"
    BY <1>4 DEF Insert, At
  <2> QED  BY <1>4, <2>1, InsertMoves, RoleOfInsert, MoveInv
<1>5. ASSUME NEW r \in Request, Revoke(r)  PROVE AuthInv'
  <2>1. call[r].pc # "new" /\ call[r].op \in Bearers
    BY <1>5 DEF Revoke, At, Bearers
  <2>2. role' \in [Email -> Roles \cup {"none"}]
    BY <1>5, RevokeMoves DEF AuthInv, TypeInv
  <2>3. Moves(r) /\ revoked' \subseteq revoked \cup {call[r].token}
    BY <1>5, RevokeMoves
  <2> QED  BY <2>1, <2>2, <2>3, MoveInv
<1>6. ASSUME NEW r \in Request, Reads(r)  PROVE AuthInv'
  <2>1. call[r].pc # "new"
    BY <1>6 DEF Reads, FindEmail, LogIn, Reread, CheckRevoked, GetUser, Serve, LookAgain, TimeOut, At
  <2>2. role' \in [Email -> Roles \cup {"none"}] /\ revoked' = revoked /\ Moves(r)
    BY <1>6, ReadMoves DEF AuthInv, TypeInv
  <2> QED  BY <2>1, <2>2, MoveInv
<1> QED  BY <1>1, <1>2, <1>3, <1>4, <1>5, <1>6 DEF AuthNext, Reads

\* Every variable has its type: AuthTypeOK.
THEOREM AuthTypeCorrect == AuthSpec => []AuthTypeOK
<1>1. AuthInv => AuthTypeOK
  BY DEF AuthInv, TypeInv, AuthTypeOK, Call
<1> QED  BY <1>1, InitInv, StepInv, PTL DEF AuthSpec

-----------------------------------------------------------------------------
(* A token that is used up stays used up.                                  *)

Spent(r) == call[r].op \in {"refresh", "logout"} /\ answer[r] = "200"

\* Who has used a token up finds it in the table; who begins later still has to look it
\* up there, or has been refused.
UsedInv ==
  /\ \A r \in Request : call[r].pc # "done" => answer[r] \in {"none", "504"}
  /\ \A r \in Request : Spent(r) => call[r].token \in revoked
  /\ \A r, q \in Request :
       /\ Spent(r) /\ Precedes(r, q)
       /\ call[q].op \in {"refresh", "me", "users"}
       /\ call[r].token = call[q].token
       => \/ call[q].pc = "revoked"
          \/ call[q].pc = "done" /\ answer[q] # "200"

\* No token is used up at first.
LEMMA UsedInit == AuthInit => UsedInv
  BY DEF AuthInit, UsedInv, Spent, Idle, Precedes

\* Who has used up a token was answered, and so is done.
LEMMA UsedBegin ==
  ASSUME AuthInv, UsedInv, NEW r \in Request, Begin(r)
  PROVE  UsedInv'
<1>1. \A q \in Request : Spent(q)' => q # r /\ Spent(q)
  BY BeginFrame DEF Spent
<1>2. \A q \in Request : call'[q].pc # "done" => answer'[q] \in {"none", "504"}
  BY BeginFrame DEF UsedInv
<1>3. ASSUME NEW q \in Request, Spent(q)'  PROVE call'[q].token \in revoked'
  <2>1. q # r /\ call[q].token \in revoked
    BY <1>1, <1>3 DEF UsedInv
  <2>2. revoked' = revoked
    BY BeginFrame
  <2>3. call'[q] = call[q]
    BY <2>1, BeginFrame
  <2> QED  BY <2>1, <2>2, <2>3
<1>4. ASSUME NEW s \in Request, NEW q \in Request, Spent(s)', Precedes(s, q)',
             call'[q].op \in {"refresh", "me", "users"}, call'[s].token = call'[q].token
      PROVE  call'[q].pc = "revoked" \/ (call'[q].pc = "done" /\ answer'[q] # "200")
  <2>1. CASE q = r
    BY <1>4, <2>1, BeginFrame DEF Bearers
  <2>2. CASE q # r
    <3>1. /\ call'[q] = call[q] /\ answer'[q] = answer[q] /\ before'[q] = before[q]
      BY <2>2, BeginFrame
    <3>2. Spent(s) /\ call'[s] = call[s]
      BY <1>1, <1>4, BeginFrame
    <3>3. Precedes(s, q)
      BY <1>4, <3>1 DEF Precedes
    <3> QED  BY <1>4, <3>1, <3>2, <3>3 DEF UsedInv
  <2> QED  BY <2>1, <2>2
<1> QED  BY <1>2, <1>3, <1>4 DEF UsedInv

\* A step of r after which r is done, or may be answered.
LEMMA UsedMove ==
  ASSUME AuthInv, UsedInv, NEW r \in Request, Moves(r), call[r].pc \notin {"new", "done"},
         revoked \subseteq revoked',
         call'[r].pc # "done" => answer'[r] \in {"none", "504"},
         Spent(r)' => call[r].token \in revoked',
         call[r].pc = "revoked" /\ call[r].token \in revoked
           => call'[r].pc = "revoked" \/ (call'[r].pc = "done" /\ answer'[r] # "200")
  PROVE  UsedInv'
<1>1. \A q \in Request : q # r => (Spent(q)' <=> Spent(q))
  BY MoveFrame DEF Spent
<1>2. \A q \in Request : call'[q].pc # "done" => answer'[q] \in {"none", "504"}
  BY MoveFrame DEF UsedInv
<1>3. \A q \in Request : Spent(q)' => call'[q].token \in revoked'
  BY <1>1, MoveFrame DEF UsedInv
<1>4. ASSUME NEW s \in Request, NEW q \in Request, Spent(s)', Precedes(s, q)',
             call'[q].op \in {"refresh", "me", "users"}, call'[s].token = call'[q].token
      PROVE  call'[q].pc = "revoked" \/ (call'[q].pc = "done" /\ answer'[q] # "200")
  <2>1. answer[s] # "none" /\ s \in before[q]
    BY <1>4, MoveFrame DEF Precedes, AuthInv, AnswerInv
  <2>2. Spent(s)
    BY <1>4, <2>1, MoveFrame DEF Spent
  <2>3. call[s].token \in revoked /\ call[s].token = call[q].token
        /\ call[q].op \in {"refresh", "me", "users"}
    BY <1>4, <2>2, MoveFrame DEF UsedInv
  <2>4. \/ call[q].pc = "revoked"
        \/ call[q].pc = "done" /\ answer[q] # "200"
    BY <2>1, <2>2, <2>3 DEF UsedInv, Precedes
  <2>5. CASE q = r
    BY <2>3, <2>4, <2>5
  <2>6. CASE q # r
    BY <2>4, <2>6, MoveFrame
  <2> QED  BY <2>5, <2>6
<1> QED  BY <1>2, <1>3, <1>4 DEF UsedInv

\* The look for a first account concerns no token.
LEMMA UsedLook ==
  ASSUME AuthInv, UsedInv, NEW r \in Request, LookForFirst(r)
  PROVE  UsedInv'
<1>1. /\ revoked' = revoked /\ answer' = answer /\ before' = before
      /\ call[r].op = "register" /\ call'[r].op = "register"
      /\ call[r].pc = "first" /\ call'[r].token = call[r].token
  BY LookForFirstFrame
<1>2. ASSUME NEW q \in Request, q # r  PROVE call'[q] = call[q]
  BY <1>2, LookForFirstFrame
<1>3. ASSUME NEW q \in Request  PROVE Spent(q)' <=> Spent(q)
  <2>1. CASE q = r
    BY <1>1, <2>1 DEF Spent
  <2>2. CASE q # r
    BY <1>1, <1>2, <2>2 DEF Spent
  <2> QED  BY <2>1, <2>2
<1>4. ASSUME NEW q \in Request  PROVE call'[q].pc # "done" => answer'[q] \in {"none", "504"}
  <2>1. CASE q = r
    BY <1>1, <2>1 DEF UsedInv
  <2>2. CASE q # r
    BY <1>1, <1>2, <2>2 DEF UsedInv
  <2> QED  BY <2>1, <2>2
<1>5. ASSUME NEW q \in Request, Spent(q)'  PROVE q # r /\ call'[q].token \in revoked'
  <2>1. q # r
    BY <1>1, <1>5 DEF Spent
  <2>2. call[q].token \in revoked
    BY <1>3, <1>5 DEF UsedInv
  <2> QED  BY <1>1, <1>2, <2>1, <2>2
<1>6. ASSUME NEW s \in Request, NEW q \in Request, Spent(s)', Precedes(s, q)',
             call'[q].op \in {"refresh", "me", "users"}, call'[s].token = call'[q].token
      PROVE  call'[q].pc = "revoked" \/ (call'[q].pc = "done" /\ answer'[q] # "200")
  <2>1. q # r /\ s # r
    BY <1>1, <1>5, <1>6
  <2>2. call'[q] = call[q] /\ call'[s] = call[s] /\ answer' = answer
    BY <1>1, <1>2, <2>1
  <2>3. Spent(s) /\ Precedes(s, q)
    BY <1>1, <1>3, <1>6 DEF Precedes
  <2> QED  BY <1>6, <2>2, <2>3 DEF UsedInv
<1> QED  BY <1>4, <1>5, <1>6 DEF UsedInv

\* Every step keeps what is known of used tokens.
LEMMA UsedStep ==
  ASSUME AuthInv, UsedInv, [AuthNext]_authVars
  PROVE  UsedInv'
<1>1. CASE UNCHANGED authVars
  BY <1>1 DEF authVars, UsedInv, Spent, Precedes
<1>2. ASSUME NEW r \in Request, Begin(r)  PROVE UsedInv'
  BY <1>2, UsedBegin
<1>3. ASSUME NEW r \in Request, LookForFirst(r)  PROVE UsedInv'
  BY <1>3, UsedLook
<1>4. ASSUME NEW r \in Request, Insert(r)  PROVE UsedInv'
  <2>1. Moves(r) /\ revoked' = revoked
    BY <1>4, InsertMoves
  <2>2. call[r].pc = "insert" /\ call[r].op \in {"register", "bootstrap"}
    BY <1>4 DEF Insert, At
  <2>3. call'[r].pc # "done" => answer'[r] \in {"none", "504"}
    <3>1. answer[r] \in {"none", "504"}
      BY <2>2 DEF UsedInv
    <3>2. CASE Continues(r, "reread")
      BY <3>1, <3>2 DEF Continues
    <3>3. ASSUME NEW status, Fails(r, status)  PROVE call'[r].pc = "done"
      BY <3>3 DEF Fails, Answers, Goto, AuthInv, TypeInv, Call
    <3> QED  BY <1>4, <3>2, <3>3 DEF Insert
  <2>4. ~Spent(r)'
    BY <2>1, <2>2, MoveFrame DEF Spent
  <2> QED  BY <2>1, <2>2, <2>3, <2>4, UsedMove
<1>5. ASSUME NEW r \in Request, Revoke(r)  PROVE UsedInv'
  <2>1. Moves(r) /\ (revoked' = revoked \/ revoked' = revoked \cup {call[r].token})
    BY <1>5, RevokeMoves
  <2>2. call[r].pc = "revoke" /\ call[r].op \in {"refresh", "logout"}
    BY <1>5 DEF Revoke, At
  <2>3. call'[r].pc = "done"
    BY <1>5 DEF Revoke, Fails, Rotated, Issues, Answers, Goto, AuthInv, TypeInv, Call
  <2>4. Spent(r)' => call[r].token \in revoked'
    <3>1. CASE call[r].token \in revoked
      BY <2>1, <3>1
    <3>2. CASE call[r].token \notin revoked
      BY <1>5, <3>2 DEF Revoke
    <3> QED  BY <3>1, <3>2
  <2> QED  BY <2>1, <2>2, <2>3, <2>4, UsedMove
<1>6. ASSUME NEW r \in Request, Reads(r)  PROVE UsedInv'
  <2>1. Moves(r) /\ revoked' = revoked
    BY <1>6, ReadMoves
  <2>2. call[r].pc \notin {"new", "done"} /\ answer[r] \in {"none", "504"}
    BY <1>6 DEF Reads, FindEmail, LogIn, Reread, CheckRevoked, GetUser, Serve, LookAgain, TimeOut, At, UsedInv
  <2>3. call'[r].pc # "done" => answer'[r] \in {"none", "504"}
    <3>1. ASSUME NEW pc, Continues(r, pc)  PROVE answer'[r] = answer[r]
      BY <3>1 DEF Continues
    <3>2. ASSUME NEW status, Answers(r, status)  PROVE call'[r].pc = "done"
      BY <3>2 DEF Answers, Goto, AuthInv, TypeInv, Call
    <3>3. CASE TimeOut(r)
      BY <3>3 DEF TimeOut, AuthInv, TypeInv
    <3>4. CASE FindEmail(r)
      <4>1. call[r].op \in {"register", "bootstrap", "login"}
        BY <3>4 DEF FindEmail, LogIn, At
      <4> QED  BY <2>2, <3>1, <3>2, <3>4, <4>1 DEF FindEmail, LogIn, Fails, Issues
    <3>5. CASE Reread(r)
      BY <3>2, <3>5 DEF Reread, Issues
    <3>6. CASE CheckRevoked(r)
      BY <2>2, <3>1, <3>2, <3>6 DEF CheckRevoked, Fails
    <3>7. CASE GetUser(r)
      <4>1. call[r].op \in {"refresh", "me", "users"}
        BY <3>7 DEF GetUser, Serve, At
      <4> QED  BY <2>2, <3>1, <3>2, <3>7, <4>1 DEF GetUser, Serve, Fails
    <3>8. CASE LookAgain(r)
      BY <2>2, <3>1, <3>2, <3>8 DEF LookAgain, Rotated, Fails, Issues
    <3> QED  BY <1>6, <3>3, <3>4, <3>5, <3>6, <3>7, <3>8 DEF Reads
  <2>4. Spent(r)' => call[r].token \in revoked'
    <3> SUFFICES ASSUME Spent(r)'  PROVE call[r].token \in revoked
      BY <2>1
    <3>1. call[r].op \in {"refresh", "logout"} /\ answer'[r] = "200"
      BY <2>1, MoveFrame DEF Spent
    <3>2. ~TimeOut(r) /\ ~FindEmail(r) /\ ~Reread(r)
      BY <3>1 DEF TimeOut, FindEmail, LogIn, Reread, At, AuthInv, TypeInv
    <3>3. ~CheckRevoked(r)
      BY <2>2, <3>1 DEF CheckRevoked, Fails, Continues, Answers, AuthInv, TypeInv
    <3>4. ~GetUser(r)
      BY <2>2, <3>1 DEF GetUser, Serve, At, Fails, Continues, Answers, AuthInv, TypeInv
    <3>5. LookAgain(r)
      BY <1>6, <3>2, <3>3, <3>4 DEF Reads
    <3> QED  BY <2>2, <3>1, <3>5 DEF LookAgain, Continues
  <2>5. call[r].pc = "revoked" /\ call[r].token \in revoked
          => call'[r].pc = "revoked" \/ (call'[r].pc = "done" /\ answer'[r] # "200")
    <3> SUFFICES ASSUME call[r].pc = "revoked", call[r].token \in revoked
                 PROVE  call'[r].pc = "revoked" \/ (call'[r].pc = "done" /\ answer'[r] # "200")
      OBVIOUS
    <3>1. CheckRevoked(r) \/ TimeOut(r)
      BY <1>6 DEF Reads, FindEmail, LogIn, Reread, GetUser, Serve, LookAgain, At
    <3>2. CASE CheckRevoked(r)
      <4>1. Fails(r, "401")
        BY <3>2 DEF CheckRevoked, Refused
      <4> QED  BY <2>2, <4>1 DEF Fails, Answers, Goto, AuthInv, TypeInv, Call
    <3>3. CASE TimeOut(r)
      BY <3>3 DEF TimeOut, Goto, AuthInv, TypeInv, Call
    <3> QED  BY <3>1, <3>2, <3>3
  <2> QED  BY <2>1, <2>2, <2>3, <2>4, <2>5, UsedMove
<1> QED  BY <1>1, <1>2, <1>3, <1>4, <1>5, <1>6 DEF AuthNext, Reads

\* A token that is used up opens nothing for a request that begins later, for any number
\* of requests that overlap in any way.
THEOREM UsedUpForGood == AuthSpec => []UsedUpStaysUsedUp
<1>1. AuthInv /\ UsedInv => UsedUpStaysUsedUp
  BY DEF UsedInv, UsedUpStaysUsedUp, Spent
<1>2. AuthInit => AuthInv /\ UsedInv
  BY InitInv, UsedInit
<1>3. AuthInv /\ UsedInv /\ [AuthNext]_authVars => (AuthInv /\ UsedInv)'
  BY StepInv, UsedStep
<1> QED  BY <1>1, <1>2, <1>3, PTL DEF AuthSpec

-----------------------------------------------------------------------------
(* A late registration makes no administrator.                             *)

\* The request has created an account and said so.
Opened(r) == call[r].op \in {"register", "bootstrap"} /\ answer[r] = "201"

\* The account is in the table, as "user" at the latest when the registration is about
\* to be answered; whoever begins after another account has been reported never takes
\* itself for the first.
LateInv ==
  /\ \A r \in Request : Opened(r) => role[call[r].email] # "none"
  /\ \A r \in Request :
       call[r].op = "register" /\ call[r].pc = "reread" => role[call[r].email] # "none"
  /\ \A r, q \in Request :
       call[r].op = "register" /\ Precedes(q, r) /\ Opened(q)
       => /\ call[r].first = FALSE
          /\ call[r].pc = "reread" \/ answer[r] = "201" => role[call[r].email] = "user"

\* No account has been reported at first.
LEMMA LateInit == AuthInit => LateInv
  BY DEF AuthInit, LateInv, Opened, Idle, Precedes

\* A registration that begins has not looked yet.
LEMMA LateBegin ==
  ASSUME AuthInv, LateInv, NEW r \in Request, Begin(r)
  PROVE  LateInv'
<1>1. /\ role' = role /\ answer' = answer /\ answer[r] = "none"
      /\ call'[r].pc # "reread" /\ call'[r].first = FALSE
  BY BeginFrame
<1>2. ASSUME NEW q \in Request, q # r  PROVE call'[q] = call[q] /\ before'[q] = before[q]
  BY <1>2, BeginFrame
<1>3. ASSUME NEW q \in Request, Opened(q)'
      PROVE  q # r /\ Opened(q) /\ role'[call'[q].email] # "none"
  <2>1. q # r
    BY <1>1, <1>3 DEF Opened
  <2>2. Opened(q)
    BY <1>1, <1>2, <1>3, <2>1 DEF Opened
  <2> QED  BY <1>1, <1>2, <2>1, <2>2 DEF LateInv
<1>4. ASSUME NEW q \in Request, call'[q].op = "register", call'[q].pc = "reread"
      PROVE  role'[call'[q].email] # "none"
  <2>1. q # r /\ call'[q] = call[q]
    BY <1>1, <1>2, <1>4
  <2> QED  BY <1>1, <1>4, <2>1 DEF LateInv
<1>5. ASSUME NEW s \in Request, NEW q \in Request, call'[s].op = "register",
             Precedes(q, s)', Opened(q)'
      PROVE  /\ call'[s].first = FALSE
             /\ call'[s].pc = "reread" \/ answer'[s] = "201" => role'[call'[s].email] = "user"
  <2>1. CASE s = r
    BY <1>1, <2>1
  <2>2. CASE s # r
    <3>1. call'[s] = call[s] /\ Precedes(q, s) /\ Opened(q)
      BY <1>2, <1>3, <1>5, <2>2 DEF Precedes
    <3> QED  BY <1>1, <1>5, <3>1 DEF LateInv
  <2> QED  BY <2>1, <2>2
<1> QED  BY <1>3, <1>4, <1>5 DEF LateInv

\* With an account in the table, nobody finds himself the first.
LEMMA LateLook ==
  ASSUME AuthInv, LateInv, NEW r \in Request, LookForFirst(r)
  PROVE  LateInv'
<1>1. /\ role' = role /\ answer' = answer /\ before' = before
      /\ call[r].op = "register" /\ call'[r].op = "register" /\ call[r].pc = "first"
      /\ call'[r].email = call[r].email /\ call'[r].pc = "insert"
      /\ call'[r].first = NobodyThere
  BY LookForFirstFrame
<1>2. ASSUME NEW q \in Request, q # r  PROVE call'[q] = call[q]
  BY <1>2, LookForFirstFrame
<1>3. ASSUME NEW q \in Request
      PROVE  call'[q].op = call[q].op /\ call'[q].email = call[q].email
  <2>1. CASE q = r
    BY <1>1, <2>1
  <2>2. CASE q # r
    BY <1>2, <2>2
  <2> QED  BY <2>1, <2>2
<1>4. ASSUME NEW q \in Request, Opened(q)'
      PROVE  Opened(q) /\ role[call[q].email] # "none" /\ role'[call'[q].email] # "none"
  <2>1. Opened(q)
    BY <1>1, <1>3, <1>4 DEF Opened
  <2>2. role[call[q].email] # "none"
    BY <2>1 DEF LateInv
  <2> QED  BY <1>1, <1>3, <2>1, <2>2
<1>5. ASSUME NEW q \in Request, call'[q].op = "register", call'[q].pc = "reread"
      PROVE  role'[call'[q].email] # "none"
  <2>1. call'[q] = call[q]
    BY <1>1, <1>2, <1>5
  <2> QED  BY <1>1, <1>5, <2>1 DEF LateInv
<1>6. ASSUME NEW s \in Request, NEW q \in Request, call'[s].op = "register",
             Precedes(q, s)', Opened(q)'
      PROVE  /\ call'[s].first = FALSE
             /\ call'[s].pc = "reread" \/ answer'[s] = "201" => role'[call'[s].email] = "user"
  <2>1. Precedes(q, s) /\ Opened(q) /\ role[call[q].email] # "none"
    BY <1>1, <1>4, <1>6 DEF Precedes
  <2>2. call[s].op = "register"
    BY <1>3, <1>6
  <2>3. /\ call[s].first = FALSE
        /\ call[s].pc = "reread" \/ answer[s] = "201" => role[call[s].email] = "user"
    BY <2>1, <2>2 DEF LateInv
  <2>4. CASE s = r
    <3>1. call[q].pc # "new" /\ call[q].op \in {"register", "bootstrap"}
      BY <2>1 DEF Opened, AuthInv, AnswerInv
    <3>2. call[q].email \in Email
      BY <3>1 DEF AuthInv, ArgInv, Accounts
    <3>3. NobodyThere = FALSE
      BY <2>1, <3>2 DEF NobodyThere
    <3> QED  BY <1>1, <2>3, <2>4, <3>3
  <2>5. CASE s # r
    BY <1>1, <1>2, <2>3, <2>5
  <2> QED  BY <2>4, <2>5
<1> QED  BY <1>4, <1>5, <1>6 DEF LateInv

\* Any other step of r: what it has to show about r alone.
LEMMA LateMove ==
  ASSUME AuthInv, UsedInv, LateInv, NEW r \in Request, Moves(r), call[r].pc \notin {"new", "done"},
         \A e \in Email : role[e] # "none" => role'[e] = role[e],
         Opened(r)' => role'[call[r].email] # "none",
         call[r].op = "register" /\ call'[r].pc = "reread" => role'[call[r].email] # "none",
         call[r].op = "register" /\ call[r].first = FALSE
           /\ (call'[r].pc = "reread" \/ answer'[r] = "201")
           => call[r].pc = "reread" \/ role'[call[r].email] = "user"
  PROVE  LateInv'
<1>1. ASSUME NEW q \in Request
      PROVE  /\ call'[q].op = call[q].op /\ call'[q].email = call[q].email
             /\ call'[q].first = call[q].first /\ before'[q] = before[q]
             /\ q # r => call'[q] = call[q] /\ answer'[q] = answer[q]
             /\ answer[q] # "none" => answer'[q] = answer[q]
  BY <1>1, MoveFrame
<1>2. ASSUME NEW q \in Request, call[q].pc # "new", call[q].op \in {"register", "bootstrap"},
             role[call[q].email] # "none"
      PROVE  role'[call[q].email] = role[call[q].email]
  <2>1. call[q].email \in Email
    BY <1>2 DEF AuthInv, ArgInv, Accounts
  <2> QED  BY <1>2, <2>1
<1>3. ASSUME NEW q \in Request, Opened(q)'  PROVE role'[call'[q].email] # "none"
  <2>1. CASE q = r
    BY <1>1, <1>3, <2>1
  <2>2. CASE q # r
    <3>1. Opened(q) /\ call[q].pc # "new"
      BY <1>1, <1>3, <2>2 DEF Opened, AuthInv, AnswerInv
    <3>2. role[call[q].email] # "none"
      BY <3>1 DEF LateInv
    <3> QED  BY <1>1, <1>2, <3>1, <3>2 DEF Opened
  <2> QED  BY <2>1, <2>2
<1>4. ASSUME NEW q \in Request, call'[q].op = "register", call'[q].pc = "reread"
      PROVE  role'[call'[q].email] # "none"
  <2>1. CASE q = r
    BY <1>1, <1>4, <2>1
  <2>2. CASE q # r
    <3>1. call'[q] = call[q] /\ role[call[q].email] # "none"
      BY <1>1, <1>4, <2>2 DEF LateInv
    <3> QED  BY <1>2, <1>4, <3>1
  <2> QED  BY <2>1, <2>2
<1>5. ASSUME NEW s \in Request, NEW q \in Request, call'[s].op = "register",
             Precedes(q, s)', Opened(q)'
      PROVE  /\ call'[s].first = FALSE
             /\ call'[s].pc = "reread" \/ answer'[s] = "201" => role'[call'[s].email] = "user"
  <2>1. q \in before[s] /\ call[s].op = "register"
    BY <1>1, <1>5 DEF Precedes
  <2>2. answer[q] # "none"
    BY <2>1 DEF AuthInv, AnswerInv
  <2>3. Opened(q)
    BY <1>1, <1>5, <2>2 DEF Opened
  <2>4. /\ call[s].first = FALSE
        /\ call[s].pc = "reread" \/ answer[s] = "201" => role[call[s].email] = "user"
    BY <2>1, <2>3 DEF LateInv, Precedes
  <2>5. call'[s].first = FALSE
    BY <1>1, <2>4
  <2>6. ASSUME call[s].pc = "reread" \/ answer[s] = "201"
        PROVE  role'[call'[s].email] = "user"
    <3>1. role[call[s].email] = "user" /\ call[s].pc # "new"
      BY <2>4, <2>6 DEF AuthInv, AnswerInv
    <3> QED  BY <1>1, <1>2, <2>1, <3>1
  <2>7. CASE s = r
    <3>1. SUFFICES ASSUME call'[s].pc = "reread" \/ answer'[s] = "201"
                   PROVE  role'[call'[s].email] = "user"
      BY <2>5
    <3>2. call[r].pc = "reread" \/ role'[call[r].email] = "user"
      BY <2>1, <2>4, <2>7, <3>1
    <3>3. CASE call[r].pc = "reread"
      BY <2>6, <2>7, <3>3
    <3>4. CASE role'[call[r].email] = "user"
      BY <1>1, <2>7, <3>4
    <3> QED  BY <3>2, <3>3, <3>4
  <2>8. CASE s # r
    <3>1. call'[s] = call[s] /\ answer'[s] = answer[s]
      BY <1>1, <2>8
    <3> QED  BY <2>5, <2>6, <3>1
  <2> QED  BY <2>7, <2>8
<1> QED  BY <1>3, <1>4, <1>5 DEF LateInv

\* An insertion after a report finds an account, so it gives the role "user".
LEMMA LateInsert ==
  ASSUME AuthInv, UsedInv, LateInv, NEW r \in Request, Insert(r)
  PROVE  LateInv'
<1>1. /\ call[r].pc = "insert" /\ call[r].op \in {"register", "bootstrap"}
      /\ answer[r] \in {"none", "504"} /\ call[r].email \in Email
  BY DEF Insert, At, UsedInv, AuthInv, ArgInv, Accounts
<1>2. Moves(r) /\ \A e \in Email : role[e] # "none" => role'[e] = role[e]
  BY InsertMoves, RoleOfInsert
<1>3. call'[r].op = call[r].op
  BY <1>2, MoveFrame
<1>4. CASE role[call[r].email] # "none"
  <2>1. /\ call'[r].pc = "done"
        /\ answer'[r] # "201"
        /\ role' = role
    BY <1>1, <1>4 DEF Insert, Fails, Answers, Goto, AuthInv, TypeInv, Call
  <2> QED  BY <1>1, <1>2, <1>4, <2>1, LateMove
<1>5. CASE role[call[r].email] = "none"
  <2>1. PICK new \in RoleFor(r) : role' = [role EXCEPT ![call[r].email] = new]
    BY <1>5 DEF Insert
  <2>2. new \in Roles /\ (call[r].op = "register" /\ call[r].first = FALSE => new = "user")
    BY <1>1 DEF RoleFor, Roles
  <2>3. role'[call[r].email] = new /\ new # "none"
    BY <1>1, <2>1, <2>2 DEF AuthInv, TypeInv, Roles
  <2> QED  BY <1>1, <1>2, <2>2, <2>3, LateMove
<1> QED  BY <1>4, <1>5

\* A look after a report finds an account.
LEMMA LateReads ==
  ASSUME AuthInv, UsedInv, LateInv, NEW r \in Request, Reads(r)
  PROVE  LateInv'
<1>1. Moves(r) /\ role' = role
  BY ReadMoves
<1>2. call[r].pc \notin {"new", "done"} /\ answer[r] \in {"none", "504"}
  BY DEF Reads, FindEmail, LogIn, Reread, CheckRevoked, GetUser, Serve, LookAgain, TimeOut, At, UsedInv
<1>3. call'[r].op = call[r].op
  BY <1>1, MoveFrame
<1>4. CASE Reread(r)
  <2>1. call[r].op = "register" /\ call[r].pc = "reread" /\ call'[r].pc = "done"
    BY <1>4 DEF Reread, At, Issues, Answers, Goto, AuthInv, TypeInv, Call
  <2>2. role'[call[r].email] # "none"
    BY <1>1, <2>1 DEF LateInv
  <2> QED  BY <1>1, <1>2, <2>1, <2>2, LateMove
<1>5. CASE TimeOut(r)
  <2>1. answer'[r] = "504" /\ (call'[r].pc = "done" \/ call'[r].pc = call[r].pc)
    BY <1>5 DEF TimeOut, Goto, AuthInv, TypeInv, Call
  <2>2. call[r].op = "register" /\ call'[r].pc = "reread"
          => call[r].pc = "reread" /\ role'[call[r].email] # "none"
    BY <1>1, <2>1 DEF LateInv
  <2>3. ~Opened(r)'
    BY <2>1 DEF Opened
  <2> QED  BY <1>1, <1>2, <2>1, <2>2, <2>3, LateMove
<1>6. CASE FindEmail(r)
  <2>1. call'[r].pc # "reread" /\ answer'[r] # "201"
    <3>1. call[r].op \in {"register", "bootstrap", "login"}
      BY <1>6 DEF FindEmail, LogIn, At
    <3>2. \/ \E pc \in {"first", "insert"} : Continues(r, pc)
          \/ \E status \in {"200", "401", "409"} : Answers(r, status)
      <4>1. CASE call[r].op = "register"
        BY <1>6, <4>1 DEF FindEmail, LogIn, Fails
      <4>2. CASE call[r].op = "bootstrap"
        BY <1>6, <4>2 DEF FindEmail, LogIn, Fails
      <4>3. CASE call[r].op = "login"
        BY <1>6, <4>3 DEF FindEmail, LogIn, Fails, Issues
      <4> QED  BY <3>1, <4>1, <4>2, <4>3
    <3>3. CASE \E pc \in {"first", "insert"} : Continues(r, pc)
      BY <1>2, <3>3 DEF Continues, Goto, AuthInv, TypeInv, Call
    <3>4. CASE \E status \in {"200", "401", "409"} : Answers(r, status)
      BY <1>2, <3>4 DEF Answers, Goto, AuthInv, TypeInv, Call
    <3> QED  BY <3>2, <3>3, <3>4
  <2> QED  BY <1>1, <1>2, <2>1, LateMove DEF Opened
<1>7. CASE CheckRevoked(r) \/ GetUser(r) \/ LookAgain(r)
  <2>1. call[r].op \notin {"register", "bootstrap"}
    BY <1>7 DEF CheckRevoked, GetUser, Serve, LookAgain, At
  <2>2. ~Opened(r)'
    BY <1>3, <2>1 DEF Opened
  <2> QED  BY <1>1, <1>2, <2>1, <2>2, LateMove
<1> QED  BY <1>4, <1>5, <1>6, <1>7 DEF Reads

\* Every step keeps what is known of late registrations.
LEMMA LateStep ==
  ASSUME AuthInv, UsedInv, LateInv, [AuthNext]_authVars
  PROVE  LateInv'
<1>1. CASE UNCHANGED authVars
  BY <1>1 DEF authVars, LateInv, Opened, Precedes
<1>2. ASSUME NEW r \in Request, Begin(r)  PROVE LateInv'
  BY <1>2, LateBegin
<1>3. ASSUME NEW r \in Request, LookForFirst(r)  PROVE LateInv'
  BY <1>3, LateLook
<1>4. ASSUME NEW r \in Request, Insert(r)  PROVE LateInv'
  BY <1>4, LateInsert
<1>5. ASSUME NEW r \in Request, Revoke(r)  PROVE LateInv'
  <2>1. Moves(r) /\ role' = role
    BY <1>5, RevokeMoves
  <2>2. call[r].pc = "revoke" /\ call[r].op \notin {"register", "bootstrap"}
    BY <1>5 DEF Revoke, At
  <2>3. ~Opened(r)'
    BY <2>1, <2>2, MoveFrame DEF Opened
  <2> QED  BY <2>1, <2>2, <2>3, LateMove
<1>6. ASSUME NEW r \in Request, Reads(r)  PROVE LateInv'
  BY <1>6, LateReads
<1> QED  BY <1>1, <1>2, <1>3, <1>4, <1>5, <1>6 DEF AuthNext, Reads

\* Who begins to register after an account has been reported becomes "user", whatever
\* role it asks for and however many requests overlap.
THEOREM LateRegistrationStaysUser == AuthSpec => []LateRegistrationIsUser
<1>1. LateInv => LateRegistrationIsUser
  BY DEF LateInv, LateRegistrationIsUser, Opened
<1>2. AuthInit => AuthInv /\ UsedInv /\ LateInv
  BY InitInv, UsedInit, LateInit
<1>3. AuthInv /\ UsedInv /\ LateInv /\ [AuthNext]_authVars => (AuthInv /\ UsedInv /\ LateInv)'
  BY StepInv, UsedStep, LateStep
<1> QED  BY <1>1, <1>2, <1>3, PTL DEF AuthSpec
=============================================================================
