--------------------------- MODULE TaskQueueProofs ---------------------------
(***************************************************************************)
(* TaskQueue, for any payloads and any number of consumers: a payload      *)
(* waits in the list of its priority.  And with one consumer and no more   *)
(* payloads than a promotion takes: the queue implements WorkQueue, so a   *)
(* payload is delivered once and none is lost.                             *)
(***************************************************************************)
EXTENDS TaskQueue, FiniteSetTheorems, TLAPS

-----------------------------------------------------------------------------
(* Sequences.                                                              *)

\* A sequence without repetitions.
Distinct(s) == \A i, j \in DOMAIN s : s[i] = s[j] => i = j

\* The k-th of a finite set of numbers is there for every k, and only once.
LEMMA Ranks ==
  ASSUME NEW I \in SUBSET Nat, IsFiniteSet(I), NEW k \in 1..Cardinality(I)
  PROVE  /\ \E i \in I : Rank(i, I) = k
         /\ \A i, j \in I : Rank(i, I) = Rank(j, I) => i = j
         /\ \A i \in I : Rank(i, I) \in 1..Cardinality(I)
<1> DEFINE Upto(i) == {j \in I : j <= i}
           f == [i \in I |-> Rank(i, I)]
<1>1. \A i \in I : IsFiniteSet(Upto(i)) /\ Cardinality(Upto(i)) \in 1..Cardinality(I)
  <2> SUFFICES ASSUME NEW i \in I
               PROVE  IsFiniteSet(Upto(i)) /\ Cardinality(Upto(i)) \in 1..Cardinality(I)
    OBVIOUS
  <2>1. IsFiniteSet(Upto(i)) /\ Cardinality(Upto(i)) <= Cardinality(I)
    BY FS_Subset
  <2>2. Cardinality(Upto(i)) \in Nat /\ Cardinality(I) \in Nat
    BY <2>1, FS_CardinalityType
  <2>3. i \in Upto(i)
    OBVIOUS
  <2>4. Cardinality(Upto(i)) # 0
    BY <2>1, <2>3, FS_EmptySet
  <2> QED BY <2>1, <2>2, <2>4
<1>2. ASSUME NEW x \in I, NEW y \in I, x < y
      PROVE  Cardinality(Upto(x)) # Cardinality(Upto(y))
  <2>1. \A z \in I : z \in Nat
    OBVIOUS
  <2>2. Upto(x) \subseteq Upto(y)
    <3>1. \A z \in I : z <= x => z <= y
      BY <1>2, <2>1
    <3> QED BY <3>1
  <2>3. y \in Upto(y) /\ y \notin Upto(x)
    BY <1>2, <2>1
  <2>4. Cardinality(Upto(x)) = Cardinality(Upto(y)) => Upto(x) = Upto(y)
    BY <1>1, <2>2, FS_Subset
  <2> QED BY <2>3, <2>4
<1>3. \A i, j \in I : Rank(i, I) = Rank(j, I) => i = j
  BY <1>2 DEF Rank
<1>4. \A i \in I : Rank(i, I) \in 1..Cardinality(I)
  BY <1>1 DEF Rank
<1>5. f \in Injection(I, 1..Cardinality(I))
  BY <1>3, <1>4 DEF Injection, IsInjective
<1>6. Cardinality(I) \in Nat /\ IsFiniteSet(1..Cardinality(I)) /\ Cardinality(1..Cardinality(I)) = Cardinality(I)
  BY FS_CardinalityType, FS_Interval
<1>7. f \in Surjection(I, 1..Cardinality(I))
  BY <1>5, <1>6, FS_Injection
<1>8. \E i \in I : Rank(i, I) = k
  BY <1>7 DEF Surjection
<1> QED BY <1>3, <1>4, <1>8

\* The places of a sequence's entries are finitely many.
LEMMA Places ==
  ASSUME NEW T, NEW s \in Seq(T), NEW S
  PROVE  /\ PlacesOf(s, S) \subseteq 1..Len(s) /\ PlacesOf(s, S) \in SUBSET Nat
         /\ IsFiniteSet(PlacesOf(s, S)) /\ Cardinality(PlacesOf(s, S)) \in Nat
<1>1. PlacesOf(s, S) \subseteq 1..Len(s) /\ Len(s) \in Nat
  BY DEF PlacesOf
<1>2. IsFiniteSet(1..Len(s))
  BY <1>1, FS_Interval
<1> QED BY <1>1, <1>2, FS_Subset, FS_CardinalityType

\* What Filtered keeps: the entries in S, as often as they were there.
LEMMA FilteredEntries ==
  ASSUME NEW T, NEW s \in Seq(T), NEW S
  PROVE  /\ Filtered(s, S) \in Seq(T)
         /\ ToSet(Filtered(s, S)) = ToSet(s) \cap S
         /\ Len(Filtered(s, S)) = Cardinality(PlacesOf(s, S))
         /\ Distinct(s) => Distinct(Filtered(s, S))
<1> DEFINE I == PlacesOf(s, S)
           n == Cardinality(I)
           At(k) == CHOOSE i \in I : Rank(i, I) = k
<1>1. I \subseteq 1..Len(s) /\ I \in SUBSET Nat /\ IsFiniteSet(I) /\ n \in Nat
  BY Places
<1>2. \A k \in 1..n : At(k) \in I /\ Rank(At(k), I) = k
  BY <1>1, Ranks
<1>3. \A i \in I : Rank(i, I) \in 1..n /\ At(Rank(i, I)) = i
  <2> SUFFICES ASSUME NEW i \in I PROVE Rank(i, I) \in 1..n /\ At(Rank(i, I)) = i
    OBVIOUS
  <2>1. n # 0
    BY <1>1, FS_EmptySet
  <2>2. n \in 1..n
    BY <1>1, <2>1
  <2>3. /\ Rank(i, I) \in 1..n
        /\ \A x, y \in I : Rank(x, I) = Rank(y, I) => x = y
    BY <1>1, <2>2, Ranks
  <2> QED BY <1>2, <2>3
<1>4. /\ DOMAIN Filtered(s, S) = 1..n
      /\ \A k \in 1..n : Filtered(s, S)[k] = s[At(k)]
  BY DEF Filtered
<1> HIDE DEF I, n, At
<1>5. Filtered(s, S) \in Seq(T)
  <2>1. \A k \in 1..n : Filtered(s, S)[k] \in T
    <3> SUFFICES ASSUME NEW k \in 1..n PROVE Filtered(s, S)[k] \in T
      OBVIOUS
    <3>1. At(k) \in 1..Len(s)
      BY <1>1, <1>2
    <3> QED BY <1>4, <3>1
  <2>2. Filtered(s, S) = [k \in 1..n |-> Filtered(s, S)[k]]
    BY <1>4 DEF Filtered, n, I
  <2> QED BY <1>1, <2>1, <2>2
<1>6. \A i \in 1..Len(s) : i \in I <=> s[i] \in S
  BY DEF I, PlacesOf
<1>7. ToSet(Filtered(s, S)) = ToSet(s) \cap S
  <2>1. ASSUME NEW k \in 1..n PROVE Filtered(s, S)[k] \in ToSet(s) \cap S
    <3>1. At(k) \in 1..Len(s) /\ At(k) \in I
      BY <1>1, <1>2
    <3> QED BY <1>4, <1>6, <3>1 DEF ToSet
  <2>2. ASSUME NEW i \in 1..Len(s), s[i] \in S
        PROVE  \E k \in 1..n : Filtered(s, S)[k] = s[i]
    <3>1. Rank(i, I) \in 1..n /\ At(Rank(i, I)) = i
      BY <1>3, <1>6, <2>2
    <3> QED BY <1>4, <3>1
  <2> QED BY <1>4, <2>1, <2>2 DEF ToSet
<1>8. Distinct(s) => Distinct(Filtered(s, S))
  <2> SUFFICES ASSUME Distinct(s), NEW k \in 1..n, NEW l \in 1..n,
                      Filtered(s, S)[k] = Filtered(s, S)[l]
               PROVE  k = l
    BY <1>4 DEF Distinct
  <2>1. At(k) \in 1..Len(s) /\ At(l) \in 1..Len(s) /\ s[At(k)] = s[At(l)]
    BY <1>1, <1>2, <1>4
  <2>2. At(k) = At(l)
    BY <2>1 DEF Distinct
  <2> QED BY <1>2, <2>2
<1>9. Len(Filtered(s, S)) = n
  BY <1>1, <1>4, <1>5
<1> QED BY <1>5, <1>7, <1>8, <1>9 DEF n, I

\* Concatenation keeps what both sequences hold.
LEMMA Concatenated ==
  ASSUME NEW T, NEW s \in Seq(T), NEW u \in Seq(T)
  PROVE  /\ s \o u \in Seq(T) /\ Len(s \o u) = Len(s) + Len(u)
         /\ ToSet(s \o u) = ToSet(s) \cup ToSet(u)
         /\ Distinct(s) /\ Distinct(u) /\ ToSet(s) \cap ToSet(u) = {} => Distinct(s \o u)
<1>1. /\ s \o u \in Seq(T) /\ Len(s \o u) = Len(s) + Len(u) /\ Len(s) \in Nat /\ Len(u) \in Nat
      /\ DOMAIN (s \o u) = 1..(Len(s) + Len(u)) /\ DOMAIN s = 1..Len(s) /\ DOMAIN u = 1..Len(u)
      /\ \A i \in 1..Len(s) : (s \o u)[i] = s[i]
  OBVIOUS
<1>2. \A i \in 1..Len(u) : (s \o u)[Len(s) + i] = u[i]
  OBVIOUS
<1>3. \A i \in 1..(Len(s) + Len(u)) : i \in 1..Len(s) \/ (i - Len(s) \in 1..Len(u) /\ (s \o u)[i] = u[i - Len(s)])
  BY <1>1, <1>2
<1>4. \A i \in 1..Len(s) : i \in 1..(Len(s) + Len(u))
  BY <1>1
<1>5. \A i \in 1..Len(u) : Len(s) + i \in 1..(Len(s) + Len(u))
  BY <1>1
<1>6. ToSet(s \o u) = ToSet(s) \cup ToSet(u)
  <2>1. ASSUME NEW i \in 1..(Len(s) + Len(u)) PROVE (s \o u)[i] \in ToSet(s) \cup ToSet(u)
    BY <1>1, <1>3 DEF ToSet
  <2>2. ASSUME NEW i \in 1..Len(s) PROVE s[i] \in ToSet(s \o u)
    BY <1>1, <1>4 DEF ToSet
  <2>3. ASSUME NEW i \in 1..Len(u) PROVE u[i] \in ToSet(s \o u)
    BY <1>1, <1>2, <1>5 DEF ToSet
  <2>4. /\ ToSet(s \o u) = {(s \o u)[i] : i \in 1..(Len(s) + Len(u))}
        /\ ToSet(s) = {s[i] : i \in 1..Len(s)} /\ ToSet(u) = {u[i] : i \in 1..Len(u)}
    BY <1>1 DEF ToSet
  <2> QED BY <2>1, <2>2, <2>3, <2>4
<1>7. ASSUME Distinct(s), Distinct(u), ToSet(s) \cap ToSet(u) = {},
             NEW i \in 1..(Len(s) + Len(u)), NEW j \in 1..(Len(s) + Len(u)), (s \o u)[i] = (s \o u)[j]
      PROVE  i = j
  <2>1. CASE i \in 1..Len(s) /\ j \in 1..Len(s)
    BY <1>1, <1>7, <2>1 DEF Distinct
  <2>2. CASE i \notin 1..Len(s) /\ j \notin 1..Len(s)
    <3>1. i - Len(s) = j - Len(s)
      BY <1>1, <1>3, <1>7, <2>2 DEF Distinct
    <3> QED BY <1>1, <3>1
  <2>3. CASE i \in 1..Len(s) /\ j \notin 1..Len(s)
    BY <1>1, <1>3, <1>7, <2>3 DEF ToSet
  <2>4. CASE i \notin 1..Len(s) /\ j \in 1..Len(s)
    BY <1>1, <1>3, <1>7, <2>4 DEF ToSet
  <2> QED BY <2>1, <2>2, <2>3, <2>4
<1> QED BY <1>1, <1>6, <1>7 DEF Distinct

\* The first element and the others.
LEMMA HeadAndTail ==
  ASSUME NEW T, NEW s \in Seq(T), s # <<>>
  PROVE  /\ Head(s) \in ToSet(s) /\ Head(s) \in T /\ Tail(s) \in Seq(T)
         /\ ToSet(s) = ToSet(Tail(s)) \cup {Head(s)}
         /\ Distinct(s) => Head(s) \notin ToSet(Tail(s)) /\ Distinct(Tail(s))
<1>1. /\ Len(s) \in Nat /\ Len(s) > 0 /\ Head(s) = s[1] /\ Tail(s) \in Seq(T)
      /\ DOMAIN s = 1..Len(s) /\ DOMAIN Tail(s) = 1..(Len(s) - 1)
      /\ \A i \in 1..(Len(s) - 1) : Tail(s)[i] = s[i + 1]
  OBVIOUS
<1>2. \A i \in 1..Len(s) : i = 1 \/ (i - 1 \in 1..(Len(s) - 1) /\ Tail(s)[i - 1] = s[i])
  BY <1>1
<1>3. \A i \in 1..(Len(s) - 1) : i + 1 \in 1..Len(s) /\ i + 1 # 1
  BY <1>1
<1>4. 1 \in 1..Len(s)
  BY <1>1
<1>5. ToSet(s) = ToSet(Tail(s)) \cup {Head(s)}
  <2>1. ASSUME NEW i \in 1..Len(s) PROVE s[i] \in ToSet(Tail(s)) \cup {Head(s)}
    BY <1>1, <1>2 DEF ToSet
  <2>2. ASSUME NEW i \in 1..(Len(s) - 1) PROVE Tail(s)[i] \in ToSet(s)
    BY <1>1, <1>3 DEF ToSet
  <2>3. /\ ToSet(s) = {s[i] : i \in 1..Len(s)}
        /\ ToSet(Tail(s)) = {Tail(s)[i] : i \in 1..(Len(s) - 1)}
    BY <1>1 DEF ToSet
  <2>4. Head(s) \in ToSet(s)
    BY <1>1, <1>4, <2>3
  <2> QED BY <2>1, <2>2, <2>3, <2>4
<1>6. Distinct(s) => Head(s) \notin ToSet(Tail(s))
  BY <1>1, <1>3, <1>4 DEF ToSet, Distinct
<1>7. ASSUME Distinct(s), NEW i \in 1..(Len(s) - 1), NEW j \in 1..(Len(s) - 1), Tail(s)[i] = Tail(s)[j]
      PROVE  i = j
  <2>1. i + 1 = j + 1
    BY <1>1, <1>3, <1>7 DEF Distinct
  <2> QED BY <1>1, <2>1
<1>8. Distinct(s) => Distinct(Tail(s))
  BY <1>1, <1>7 DEF Distinct
<1>9. Head(s) \in T
  BY <1>1, <1>4
<1> QED BY <1>1, <1>5, <1>6, <1>8, <1>9

\* An insertion moves the entries behind it one place back.
LEMMA Inserted ==
  ASSUME NEW s \in Seq(Payload), NEW p \in Payload, NEW i \in 0..Len(s)
  PROVE  /\ InsertAt(s, i + 1, p) \in Seq(Payload) /\ Len(InsertAt(s, i + 1, p)) = Len(s) + 1
         /\ ToSet(InsertAt(s, i + 1, p)) = ToSet(s) \cup {p}
         /\ Distinct(s) /\ p \notin ToSet(s) => Distinct(InsertAt(s, i + 1, p))
<1> DEFINE a == SubSeq(s, 1, i)
           b == SubSeq(s, i + 1, Len(s))
<1>1. Len(s) \in Nat /\ i \in Nat /\ i <= Len(s) /\ \A k \in 1..Len(s) : s[k] \in Payload
  OBVIOUS
<1>2. a \in Seq(Payload) /\ Len(a) = i /\ \A k \in 1..i : a[k] = s[k]
  BY <1>1
<1>3. b \in Seq(Payload) /\ Len(b) = Len(s) - i /\ \A k \in 1..(Len(s) - i) : b[k] = s[i + k]
  BY <1>1
<1>4. InsertAt(s, i + 1, p) = a \o <<p>> \o b
  <2>1. (i + 1) - 1 = i
    BY <1>1
  <2> QED BY <2>1 DEF InsertAt
<1> HIDE DEF a, b
<1>5. <<p>> \in Seq(Payload) /\ ToSet(<<p>>) = {p} /\ Distinct(<<p>>) /\ Len(<<p>>) = 1
  BY DEF ToSet, Distinct
<1>6. /\ a \o <<p>> \in Seq(Payload) /\ ToSet(a \o <<p>>) = ToSet(a) \cup {p} /\ Len(a \o <<p>>) = i + 1
      /\ Distinct(a) /\ p \notin ToSet(a) => Distinct(a \o <<p>>)
  <2> DEFINE u == <<p>>
  <2>1. u \in Seq(Payload) /\ ToSet(u) = {p} /\ Distinct(u) /\ Len(u) = 1
    BY <1>5
  <2> HIDE DEF u
  <2>2. /\ a \o u \in Seq(Payload) /\ Len(a \o u) = Len(a) + Len(u) /\ ToSet(a \o u) = ToSet(a) \cup ToSet(u)
        /\ Distinct(a) /\ Distinct(u) /\ ToSet(a) \cap ToSet(u) = {} => Distinct(a \o u)
    BY <1>2, <2>1, Concatenated
  <2>3. Len(a \o u) = i + 1
    BY <1>1, <1>2, <2>1, <2>2
  <2> QED BY <2>1, <2>2, <2>3 DEF u
<1>7. /\ a \o <<p>> \o b \in Seq(Payload) /\ ToSet(a \o <<p>> \o b) = ToSet(a) \cup {p} \cup ToSet(b)
      /\ Len(a \o <<p>> \o b) = Len(s) + 1
      /\ Distinct(a \o <<p>>) /\ Distinct(b) /\ ToSet(a \o <<p>>) \cap ToSet(b) = {}
           => Distinct(a \o <<p>> \o b)
  <2> DEFINE u == a \o <<p>>
  <2>1. u \in Seq(Payload) /\ ToSet(u) = ToSet(a) \cup {p} /\ Len(u) = i + 1
    BY <1>6
  <2> HIDE DEF u
  <2>2. /\ u \o b \in Seq(Payload) /\ Len(u \o b) = Len(u) + Len(b) /\ ToSet(u \o b) = ToSet(u) \cup ToSet(b)
        /\ Distinct(u) /\ Distinct(b) /\ ToSet(u) \cap ToSet(b) = {} => Distinct(u \o b)
    BY <1>3, <2>1, Concatenated
  <2>3. Len(u \o b) = Len(s) + 1
    BY <1>1, <1>3, <2>1, <2>2
  <2> QED BY <2>1, <2>2, <2>3 DEF u
<1>8. ToSet(s) = ToSet(a) \cup ToSet(b)
  <2>1. /\ ToSet(s) = {s[k] : k \in 1..Len(s)} /\ ToSet(a) = {a[k] : k \in 1..i}
        /\ ToSet(b) = {b[k] : k \in 1..(Len(s) - i)}
    <3>1. DOMAIN s = 1..Len(s) /\ DOMAIN a = 1..i /\ DOMAIN b = 1..(Len(s) - i)
      BY <1>2, <1>3
    <3> QED BY <3>1 DEF ToSet
  <2>2. ASSUME NEW k \in 1..Len(s) PROVE s[k] \in ToSet(a) \cup ToSet(b)
    <3>1. CASE k \in 1..i
      BY <1>2, <2>1, <3>1
    <3>2. CASE k \notin 1..i
      <4>1. k - i \in 1..(Len(s) - i) /\ i + (k - i) = k
        BY <1>1, <3>2
      <4> QED BY <1>3, <2>1, <4>1
    <3> QED BY <3>1, <3>2
  <2>3. ASSUME NEW k \in 1..i PROVE a[k] \in ToSet(s)
    BY <1>1, <1>2, <2>1
  <2>4. ASSUME NEW k \in 1..(Len(s) - i) PROVE b[k] \in ToSet(s)
    <3>1. i + k \in 1..Len(s)
      BY <1>1
    <3> QED BY <1>3, <2>1, <3>1
  <2> QED BY <2>1, <2>2, <2>3, <2>4
<1>9. Distinct(s) => Distinct(a) /\ Distinct(b) /\ ToSet(a) \cap ToSet(b) = {}
  <2> SUFFICES ASSUME Distinct(s) PROVE Distinct(a) /\ Distinct(b) /\ ToSet(a) \cap ToSet(b) = {}
    OBVIOUS
  <2>1. DOMAIN s = 1..Len(s) /\ DOMAIN a = 1..i /\ DOMAIN b = 1..(Len(s) - i)
    BY <1>2, <1>3
  <2>2. ASSUME NEW k \in 1..i, NEW l \in 1..i, a[k] = a[l] PROVE k = l
    BY <1>1, <1>2, <2>1, <2>2 DEF Distinct
  <2>3. ASSUME NEW k \in 1..(Len(s) - i), NEW l \in 1..(Len(s) - i), b[k] = b[l] PROVE k = l
    <3>1. i + k \in 1..Len(s) /\ i + l \in 1..Len(s)
      BY <1>1
    <3>2. i + k = i + l
      BY <1>3, <2>1, <2>3, <3>1 DEF Distinct
    <3> QED BY <1>1, <3>2
  <2>4. ASSUME NEW k \in 1..i, NEW l \in 1..(Len(s) - i), a[k] = b[l] PROVE FALSE
    <3>1. k \in 1..Len(s) /\ i + l \in 1..Len(s) /\ k # i + l
      BY <1>1
    <3>2. s[k] = s[i + l]
      BY <1>2, <1>3, <2>4
    <3> QED BY <2>1, <3>1, <3>2 DEF Distinct
  <2> QED BY <2>1, <2>2, <2>3, <2>4 DEF Distinct, ToSet
<1> QED BY <1>4, <1>6, <1>7, <1>8, <1>9

\* A batch holds each payload of its set once.
LEMMA Batches ==
  ASSUME NEW B \in SUBSET Payload, NEW batch \in SetToSeqs(B)
  PROVE  batch \in Seq(Payload) /\ ToSet(batch) = B /\ Distinct(batch)
<1> DEFINE n == Cardinality(B)
<1>1. IsFiniteSet(B) /\ n \in Nat
  BY QueueAssumption, FS_Subset, FS_CardinalityType
<1>2. batch \in [1..n -> B] /\ \A i, j \in 1..n : i # j => batch[i] # batch[j]
  BY DEF SetToSeqs
<1>3. batch \in Injection(1..n, B)
  BY <1>2 DEF Injection, IsInjective
<1>4. Cardinality(1..n) = n
  BY <1>1, FS_Interval
<1>5. batch \in Surjection(1..n, B)
  BY <1>1, <1>3, <1>4, FS_Injection
<1>6. \A y \in B : \E i \in 1..n : batch[i] = y
  BY <1>5 DEF Surjection
<1> HIDE DEF n
<1> QED BY <1>1, <1>2, <1>6 DEF ToSet, Distinct

-----------------------------------------------------------------------------
(* Types, and the right list.                                              *)

QueueTypeOK ==
  /\ lists \in [List -> Seq(Payload)]
  /\ delayed \in Seq(Payload) /\ due \in 0..Len(delayed)
  /\ at \in [Consumer -> {"consume", "promote", "poll"}]
  /\ read \in [Consumer -> Seq(Payload)]
  /\ cutoff \in [Consumer -> SUBSET Payload]
  /\ hand \in [Consumer -> SUBSET Payload]

\* The pipeline appends to each list what goes there, and nothing else.
LEMMA Pushed ==
  ASSUME lists \in [List -> Seq(Payload)], NEW batch \in Seq(Payload), NEW dest,
         PushAll(batch, dest)
  PROVE  /\ lists' \in [List -> Seq(Payload)]
         /\ \A l \in List :
              /\ ToSet(lists'[l]) = ToSet(lists[l]) \cup {p \in ToSet(batch) : dest[p] = l}
              /\ Distinct(lists[l]) /\ Distinct(batch) /\ ToSet(lists[l]) \cap ToSet(batch) = {}
                   => Distinct(lists'[l])
<1>1. ASSUME NEW l \in List
      PROVE  /\ lists'[l] \in Seq(Payload)
             /\ ToSet(lists'[l]) = ToSet(lists[l]) \cup {p \in ToSet(batch) : dest[p] = l}
             /\ Distinct(lists[l]) /\ Distinct(batch) /\ ToSet(lists[l]) \cap ToSet(batch) = {}
                  => Distinct(lists'[l])
  <2> DEFINE S == {p \in Payload : dest[p] = l}
             s == lists[l]
             u == Filtered(batch, S)
  <2>1. lists'[l] = s \o u /\ s \in Seq(Payload)
    BY DEF PushAll
  <2>2. ToSet(batch) \subseteq Payload
    BY DEF ToSet
  <2>3. ToSet(batch) \cap S = {p \in ToSet(batch) : dest[p] = l}
    BY <2>2
  <2> HIDE DEF S, s
  <2>4. u \in Seq(Payload) /\ ToSet(u) = ToSet(batch) \cap S /\ (Distinct(batch) => Distinct(u))
    BY FilteredEntries
  <2> HIDE DEF u
  <2>5. /\ s \o u \in Seq(Payload) /\ ToSet(s \o u) = ToSet(s) \cup ToSet(u)
        /\ Distinct(s) /\ Distinct(u) /\ ToSet(s) \cap ToSet(u) = {} => Distinct(s \o u)
    BY <2>1, <2>4, Concatenated
  <2> QED BY <2>1, <2>3, <2>4, <2>5 DEF s
<1>2. lists' = [l \in List |-> lists'[l]]
  BY DEF PushAll
<1> QED BY <1>1, <1>2

\* schedule_delayed puts the payload where its score belongs.
LEMMA Scheduled ==
  ASSUME QueueTypeOK, NEW c \in Consumer, NEW p \in Payload, ScheduleDelayed(c, p)
  PROVE  /\ delayed' \in Seq(Payload) /\ due' \in 0..Len(delayed')
         /\ ToSet(delayed') = ToSet(delayed) \cup {p}
         /\ Distinct(delayed) => Distinct(delayed')
<1> DEFINE others == Filtered(delayed, Payload \ {p})
           first  == Cardinality({i \in 1..due : delayed[i] # p})
<1>1. delayed \in Seq(Payload) /\ due \in Nat /\ due <= Len(delayed) /\ Len(delayed) \in Nat
  BY DEF QueueTypeOK
<1>2. ToSet(delayed) \subseteq Payload
  BY <1>1 DEF ToSet
<1>3. /\ others \in Seq(Payload) /\ ToSet(others) = ToSet(delayed) \ {p}
      /\ Len(others) = Cardinality(PlacesOf(delayed, Payload \ {p}))
      /\ Distinct(delayed) => Distinct(others)
  BY <1>1, <1>2, FilteredEntries
<1>4. first \in 0..Len(others)
  <2>1. {i \in 1..due : delayed[i] # p} \subseteq PlacesOf(delayed, Payload \ {p})
    BY <1>1 DEF PlacesOf
  <2>2. IsFiniteSet(PlacesOf(delayed, Payload \ {p}))
    BY <1>1, Places
  <2>3. /\ IsFiniteSet({i \in 1..due : delayed[i] # p})
        /\ first <= Cardinality(PlacesOf(delayed, Payload \ {p}))
    BY <2>1, <2>2, FS_Subset
  <2>4. first \in Nat
    BY <2>3, FS_CardinalityType
  <2> QED BY <1>3, <2>2, <2>3, <2>4, FS_CardinalityType
<1>5. PICK i \in first..Len(others) : delayed' = InsertAt(others, i + 1, p)
  BY DEF ScheduleDelayed
<1>6. due' = first
  BY DEF ScheduleDelayed
<1> HIDE DEF others, first
<1>7. i \in 0..Len(others) /\ Len(others) \in Nat
  BY <1>3, <1>4
<1>8. /\ delayed' \in Seq(Payload) /\ Len(delayed') = Len(others) + 1
      /\ ToSet(delayed') = ToSet(others) \cup {p}
      /\ Distinct(others) /\ p \notin ToSet(others) => Distinct(delayed')
  <2> DEFINE t == InsertAt(others, i + 1, p)
  <2>0. /\ InsertAt(others, i + 1, p) \in Seq(Payload)
        /\ Len(InsertAt(others, i + 1, p)) = Len(others) + 1
        /\ ToSet(InsertAt(others, i + 1, p)) = ToSet(others) \cup {p}
        /\ (Distinct(others) /\ p \notin ToSet(others)) => Distinct(InsertAt(others, i + 1, p))
    <3>1. others \in Seq(Payload) /\ i \in 0..Len(others) /\ p \in Payload
      BY <1>3, <1>7
    <3> QED BY ONLY <3>1, Inserted
  <2>1. /\ t \in Seq(Payload) /\ Len(t) = Len(others) + 1 /\ ToSet(t) = ToSet(others) \cup {p}
        /\ Distinct(others) /\ p \notin ToSet(others) => Distinct(t)
    BY <2>0
  <2>2. delayed' = t
    BY <1>5
  <2> HIDE DEF t
  <2> QED BY <2>1, <2>2
<1> QED BY <1>3, <1>4, <1>6, <1>7, <1>8

\* Promotion takes the range away.
LEMMA Promoted ==
  ASSUME QueueTypeOK, NEW c \in Consumer, Promote(c)
  PROVE  /\ delayed' \in Seq(Payload) /\ due' \in 0..Len(delayed')
         /\ ToSet(delayed') = ToSet(delayed) \ cutoff[c]
         /\ Distinct(delayed) => Distinct(delayed')
<1> DEFINE S    == Payload \ cutoff[c]
           gone == {i \in 1..due : delayed[i] \in cutoff[c]}
           stay == 1..due \ gone
<1>1. delayed \in Seq(Payload) /\ due \in Nat /\ due <= Len(delayed) /\ Len(delayed) \in Nat
  BY DEF QueueTypeOK
<1>2. ToSet(delayed) \subseteq Payload
  BY <1>1 DEF ToSet
<1>3. delayed' = Filtered(delayed, S) /\ due' = due - Cardinality(gone)
  BY DEF Promote, Removed
<1>4. /\ delayed' \in Seq(Payload) /\ ToSet(delayed') = ToSet(delayed) \ cutoff[c]
      /\ Len(delayed') = Cardinality(PlacesOf(delayed, S))
      /\ Distinct(delayed) => Distinct(delayed')
  <2>1. /\ Filtered(delayed, S) \in Seq(Payload) /\ ToSet(Filtered(delayed, S)) = ToSet(delayed) \cap S
        /\ Len(Filtered(delayed, S)) = Cardinality(PlacesOf(delayed, S))
        /\ Distinct(delayed) => Distinct(Filtered(delayed, S))
    BY <1>1, FilteredEntries
  <2> QED BY <1>2, <1>3, <2>1
<1>5. IsFiniteSet(PlacesOf(delayed, S)) /\ IsFiniteSet(1..due) /\ Cardinality(1..due) = due
  <2>1. IsFiniteSet(PlacesOf(delayed, S))
    BY <1>1, Places
  <2>2. IsFiniteSet(1..due) /\ Cardinality(1..due) = due
    BY <1>1, FS_Interval
  <2> QED BY <2>1, <2>2
<1>6. gone \subseteq 1..due /\ stay \subseteq PlacesOf(delayed, S)
  BY <1>1 DEF PlacesOf
<1>7. Cardinality(stay) = due - Cardinality(gone) /\ IsFiniteSet(gone)
  <2>1. IsFiniteSet(gone) /\ 1..due \cap gone = gone
    BY <1>5, <1>6, FS_Subset
  <2>2. Cardinality(stay) = Cardinality(1..due) - Cardinality(1..due \cap gone)
    BY <1>5, FS_Difference
  <2> QED BY <1>5, <2>1, <2>2
<1>8. Cardinality(stay) <= Cardinality(PlacesOf(delayed, S)) /\ IsFiniteSet(stay)
  BY <1>5, <1>6, FS_Subset
<1>9. Cardinality(stay) \in Nat /\ Cardinality(gone) \in Nat
  BY <1>7, <1>8, FS_CardinalityType
<1> HIDE DEF stay, gone
<1>10. due' \in Nat /\ due' <= Len(delayed')
  BY <1>1, <1>3, <1>4, <1>7, <1>8, <1>9
<1>11. Len(delayed') \in Nat
  BY <1>4
<1> QED BY <1>4, <1>10, <1>11

\* BLPOP finds the list it pops: one of the four, and not empty.
LEMMA FirstList ==
  ASSUME NEW order \in PollOrders, \E l \in List : lists[l] # <<>>
  PROVE  FirstNonEmpty(order) \in List /\ lists[FirstNonEmpty(order)] # <<>>
<1> DEFINE Found(i) == /\ lists[order[i]] # <<>>
                       /\ \A j \in 1..(i - 1) : lists[order[j]] = <<>>
<1>1. /\ DOMAIN order = 1..4 /\ \A i \in 1..4 : order[i] \in List
      /\ \A l \in List : l \in {order[1], order[2], order[3], order[4]}
  BY DEF PollOrders, List
<1>2. \E i \in 1..4 : Found(i)
  <2>1. /\ 1..(1 - 1) = {} /\ 1..(2 - 1) = {1} /\ 1..(3 - 1) = {1, 2} /\ 1..(4 - 1) = {1, 2, 3}
        /\ 1..4 = {1, 2, 3, 4}
    OBVIOUS
  <2>2. CASE lists[order[1]] # <<>>
    BY <2>1, <2>2
  <2>3. CASE lists[order[1]] = <<>> /\ lists[order[2]] # <<>>
    BY <2>1, <2>3
  <2>4. CASE lists[order[1]] = <<>> /\ lists[order[2]] = <<>> /\ lists[order[3]] # <<>>
    BY <2>1, <2>4
  <2>5. CASE lists[order[1]] = <<>> /\ lists[order[2]] = <<>> /\ lists[order[3]] = <<>>
    BY <1>1, <2>1, <2>5
  <2> QED BY <2>2, <2>3, <2>4, <2>5
<1> DEFINE k == CHOOSE i \in 1..4 : Found(i)
<1>3. k \in 1..4 /\ Found(k)
  BY <1>2
<1>4. FirstNonEmpty(order) = order[k]
  BY <1>1 DEF FirstNonEmpty
<1> HIDE DEF k
<1> QED BY <1>1, <1>3, <1>4

\* What a BLPOP takes and leaves, in the list it finds.
LEMMA Popped ==
  ASSUME QueueTypeOK, NEW c \in Consumer, NEW order \in PollOrders, Pop(c, order)
  PROVE  \E l \in List, p \in Payload :
           /\ lists[l] # <<>> /\ p = Head(lists[l])
           /\ lists' = [lists EXCEPT ![l] = Tail(lists[l])]
           /\ hand' = [hand EXCEPT ![c] = hand[c] \cup {p}]
           /\ p \in ToSet(lists[l]) /\ Tail(lists[l]) \in Seq(Payload)
           /\ ToSet(lists[l]) = ToSet(Tail(lists[l])) \cup {p}
           /\ Distinct(lists[l]) => p \notin ToSet(Tail(lists[l])) /\ Distinct(Tail(lists[l]))
<1> DEFINE l == FirstNonEmpty(order)
<1>1. l \in List /\ lists[l] # <<>>
  BY FirstList DEF Pop
<1>2. /\ lists' = [lists EXCEPT ![l] = Tail(lists[l])]
      /\ hand' = [hand EXCEPT ![c] = hand[c] \cup {Head(lists[l])}]
  BY DEF Pop
<1> HIDE DEF l
<1>3. lists[l] \in Seq(Payload)
  BY <1>1 DEF QueueTypeOK
<1>4. /\ Head(lists[l]) \in ToSet(lists[l]) /\ Head(lists[l]) \in Payload
      /\ Tail(lists[l]) \in Seq(Payload)
      /\ ToSet(lists[l]) = ToSet(Tail(lists[l])) \cup {Head(lists[l])}
      /\ Distinct(lists[l]) => Head(lists[l]) \notin ToSet(Tail(lists[l])) /\ Distinct(Tail(lists[l]))
  BY <1>1, <1>3, HeadAndTail
<1> QED BY <1>1, <1>2, <1>4

\* The range that ReadDue reads: in the delayed set, and no longer than it.
LEMMA ReadRange ==
  ASSUME QueueTypeOK, NEW n \in 0..Len(delayed)
  PROVE  /\ SubSeq(delayed, 1, n) \in Seq(Payload)
         /\ ToSet(SubSeq(delayed, 1, n)) = {delayed[i] : i \in 1..n}
         /\ {delayed[i] : i \in 1..n} \subseteq ToSet(delayed)
         /\ Distinct(delayed) => Distinct(SubSeq(delayed, 1, n))
         /\ n = 0 => SubSeq(delayed, 1, n) = <<>>
<1> DEFINE r == SubSeq(delayed, 1, n)
<1>1. delayed \in Seq(Payload) /\ n \in Nat /\ Len(delayed) \in Nat /\ n <= Len(delayed)
      /\ DOMAIN delayed = 1..Len(delayed)
  BY DEF QueueTypeOK
<1>2. r \in Seq(Payload) /\ Len(r) = n /\ DOMAIN r = 1..n /\ \A i \in 1..n : r[i] = delayed[i]
  BY <1>1
<1> HIDE DEF r
<1>3. 1..n \subseteq 1..Len(delayed)
  BY <1>1
<1>4. ToSet(r) = {delayed[i] : i \in 1..n}
  BY <1>2 DEF ToSet
<1>5. {delayed[i] : i \in 1..n} \subseteq ToSet(delayed)
  BY <1>1, <1>3 DEF ToSet
<1>6. Distinct(delayed) => Distinct(r)
  BY <1>1, <1>2, <1>3 DEF Distinct
<1>7. n = 0 => r = <<>>
  BY <1>2
<1> QED BY <1>2, <1>4, <1>5, <1>6, <1>7 DEF r

\* Every step keeps the types.
LEMMA QueueTypeStep == QueueTypeOK /\ [Next]_vars => QueueTypeOK'
<1> SUFFICES ASSUME QueueTypeOK, [Next]_vars PROVE QueueTypeOK'
  OBVIOUS
<1>1. CASE Publish
  <2>1. PICK B \in SUBSET Outside : \E batch \in SetToSeqs(B) :
          PushAll(batch, [p \in Payload |-> PublishList(p)])
    BY <1>1 DEF Publish
  <2>2. PICK batch \in SetToSeqs(B) : PushAll(batch, [p \in Payload |-> PublishList(p)])
    BY <2>1
  <2>3. batch \in Seq(Payload)
    BY Batches DEF Outside
  <2>4. lists' \in [List -> Seq(Payload)]
    BY <2>2, <2>3, Pushed DEF QueueTypeOK
  <2> QED BY <1>1, <2>4 DEF Publish, QueueTypeOK
<1>2. CASE BecomeDue
  BY <1>2 DEF BecomeDue, QueueTypeOK
<1>3. ASSUME NEW c \in Consumer, ReadDue(c) PROVE QueueTypeOK'
  <2> DEFINE n == IF due < PromoteBatch THEN due ELSE PromoteBatch
  <2>1. n \in 0..Len(delayed) /\ due \in 0..Len(delayed)
    BY QueueAssumption DEF QueueTypeOK
  <2>2. SubSeq(delayed, 1, n) \in Seq(Payload)
    BY <2>1, ReadRange
  <2>3. {delayed[i] : i \in 1..due} \subseteq Payload
    BY <2>1, ReadRange DEF QueueTypeOK, ToSet
  <2>4. read' \in [Consumer -> Seq(Payload)] /\ cutoff' \in [Consumer -> SUBSET Payload]
    BY <1>3, <2>2, <2>3 DEF ReadDue, QueueTypeOK
  <2> QED BY <1>3, <2>4 DEF ReadDue, QueueTypeOK
<1>4. ASSUME NEW c \in Consumer, Promote(c) PROVE QueueTypeOK'
  <2>1. PushAll(read[c], [p \in Payload |-> PromoteList(p)]) /\ read[c] \in Seq(Payload)
    BY <1>4 DEF Promote, QueueTypeOK
  <2>2. lists' \in [List -> Seq(Payload)]
    BY <2>1, Pushed DEF QueueTypeOK
  <2>3. delayed' \in Seq(Payload) /\ due' \in 0..Len(delayed')
    BY <1>4, Promoted
  <2>4. <<>> \in Seq(Payload)
    OBVIOUS
  <2> QED BY <1>4, <2>2, <2>3, <2>4 DEF Promote, QueueTypeOK
<1>5. ASSUME NEW c \in Consumer, NEW order \in PollOrders, Pop(c, order) PROVE QueueTypeOK'
  <2>1. PICK l \in List, p \in Payload :
          /\ lists' = [lists EXCEPT ![l] = Tail(lists[l])]
          /\ hand' = [hand EXCEPT ![c] = hand[c] \cup {p}]
          /\ Tail(lists[l]) \in Seq(Payload)
    BY <1>5, Popped
  <2>2. lists' \in [List -> Seq(Payload)] /\ hand' \in [Consumer -> SUBSET Payload]
    BY <2>1 DEF QueueTypeOK
  <2>3. at' \in [Consumer -> {"consume", "promote", "poll"}]
    BY <1>5 DEF Pop, QueueTypeOK
  <2> QED BY <1>5, <2>2, <2>3 DEF Pop, QueueTypeOK
<1>6. ASSUME NEW c \in Consumer, PopTimeout(c) PROVE QueueTypeOK'
  BY <1>6 DEF PopTimeout, QueueTypeOK
<1>7. ASSUME NEW c \in Consumer, NEW p \in Payload, ScheduleDelayed(c, p) PROVE QueueTypeOK'
  <2>1. delayed' \in Seq(Payload) /\ due' \in 0..Len(delayed')
    BY <1>7, Scheduled
  <2> QED BY <1>7, <2>1 DEF ScheduleDelayed, QueueTypeOK
<1>8. ASSUME NEW c \in Consumer, NEW p \in Payload, Settle(c, p) PROVE QueueTypeOK'
  BY <1>8 DEF Settle, QueueTypeOK
<1>9. CASE UNCHANGED vars
  BY <1>9 DEF vars, QueueTypeOK
<1> QED BY <1>1, <1>2, <1>3, <1>4, <1>5, <1>6, <1>7, <1>8, <1>9 DEF Next, Poll

\* Every step leaves the payloads of a list in the list of their priority.
LEMMA RightListStep == QueueTypeOK /\ RightList /\ [Next]_vars => RightList'
<1> SUFFICES ASSUME QueueTypeOK, RightList, [Next]_vars PROVE RightList'
  OBVIOUS
<1>1. ASSUME NEW batch \in Seq(Payload), PushAll(batch, [p \in Payload |-> ListOf(LevelOf[p])])
      PROVE  RightList'
  <2> DEFINE dest == [p \in Payload |-> ListOf(LevelOf[p])]
  <2>1. ToSet(batch) \subseteq Payload
    BY DEF ToSet
  <2>2. PushAll(batch, dest) /\ \A p \in ToSet(batch) : dest[p] = ListOf(LevelOf[p])
    BY <1>1, <2>1
  <2> HIDE DEF dest
  <2>3. \A l \in List : ToSet(lists'[l]) = ToSet(lists[l]) \cup {p \in ToSet(batch) : dest[p] = l}
    BY <1>1, <2>2, Pushed DEF QueueTypeOK
  <2> QED BY <2>2, <2>3 DEF RightList
<1>2. CASE Publish
  <2>1. PICK B \in SUBSET Outside : \E batch \in SetToSeqs(B) :
          PushAll(batch, [p \in Payload |-> PublishList(p)])
    BY <1>2 DEF Publish
  <2>2. PICK batch \in SetToSeqs(B) : PushAll(batch, [p \in Payload |-> PublishList(p)])
    BY <2>1
  <2>3. batch \in Seq(Payload)
    BY Batches DEF Outside
  <2> QED BY <1>1, <2>2, <2>3 DEF PublishList
<1>3. ASSUME NEW c \in Consumer, Promote(c) PROVE RightList'
  BY <1>1, <1>3 DEF Promote, PromoteList, QueueTypeOK
<1>4. ASSUME NEW c \in Consumer, NEW order \in PollOrders, Pop(c, order) PROVE RightList'
  <2>1. PICK l \in List, p \in Payload :
          /\ lists' = [lists EXCEPT ![l] = Tail(lists[l])]
          /\ ToSet(lists[l]) = ToSet(Tail(lists[l])) \cup {p}
    BY <1>4, Popped
  <2>2. \A m \in List : ToSet(lists'[m]) \subseteq ToSet(lists[m])
    BY <2>1 DEF QueueTypeOK
  <2> QED BY <2>2 DEF RightList
<1>5. CASE UNCHANGED lists
  BY <1>5 DEF RightList
<1> QED BY <1>2, <1>3, <1>4, <1>5
        DEF Next, BecomeDue, ReadDue, Poll, PopTimeout, ScheduleDelayed, Settle, vars

\* A payload waits in the list of its priority, in a fleet of any size.
THEOREM AlwaysRightList == Spec => []RightList
<1>1. Init => QueueTypeOK /\ RightList
  BY DEF Init, QueueTypeOK, RightList, ToSet
<1> QED BY <1>1, QueueTypeStep, RightListStep, PTL DEF Spec

-----------------------------------------------------------------------------
(* The queue that delivers each payload once.                              *)

\* A payload is in one place of one key, and in the queue or in hand, not both.
Once ==
  /\ \A l \in List : Distinct(lists[l]) /\ ToSet(lists[l]) \cap ToSet(delayed) = {}
  /\ Distinct(delayed)
  /\ Queued \cap InHand = {}

\* Between its read and its MULTI, a consumer has read what it will remove, and no
\* more: the range was whole, and still is in the sorted set.
Batch ==
  \A c \in Consumer :
    /\ ToSet(read[c]) = cutoff[c] /\ cutoff[c] \subseteq ToSet(delayed)
    /\ Distinct(read[c])
    /\ at[c] # "promote" => read[c] = <<>> /\ cutoff[c] = {}

\* The inductive invariant of the refinement.
QueueInv == QueueTypeOK /\ RightList /\ Once /\ Batch

\* No two lists share a payload, as a payload has one priority.
LEMMA ListsApart ==
  ASSUME RightList, NEW l \in List, NEW m \in List, l # m
  PROVE  ToSet(lists[l]) \cap ToSet(lists[m]) = {}
BY DEF RightList

\* A sequence without repetitions is no longer than the set of payloads.
LEMMA NoLonger ==
  ASSUME NEW s \in Seq(Payload), Distinct(s)
  PROVE  Len(s) <= Cardinality(Payload)
<1>1. Len(s) \in Nat /\ s \in Injection(1..Len(s), Payload)
  BY DEF Distinct, Injection, IsInjective
<1>2. IsFiniteSet(1..Len(s)) /\ Cardinality(1..Len(s)) = Len(s)
  <2>1. /\ IsFiniteSet(1..Len(s))
        /\ Cardinality(1..Len(s)) = IF 1 > Len(s) THEN 0 ELSE Len(s) - 1 + 1
    BY <1>1, FS_Interval, 1 \in Int, Len(s) \in Int
  <2> QED BY <1>1, <2>1
<1>3. Cardinality(1..Len(s)) <= Cardinality(Payload)
  BY <1>1, QueueAssumption, FS_Injection
<1> QED BY <1>2, <1>3

\* Where a queued payload is, before and after a step.
LEMMA InQueue ==
  /\ \A p : p \in Queued <=> p \in ToSet(delayed) \/ \E l \in List : p \in ToSet(lists[l])
  /\ \A p : p \in Queued' <=> p \in ToSet(delayed)' \/ \E l \in List : p \in ToSet(lists'[l])
BY DEF Queued

\* The initial states map to the initial state of WorkQueue.
LEMMA QueueInit == Init => QueueInv /\ Abstract!Init
<1> SUFFICES ASSUME Init PROVE QueueInv /\ Abstract!Init
  OBVIOUS
<1>1. /\ lists = [l \in List |-> <<>>] /\ delayed = <<>> /\ due = 0
      /\ read = [c \in Consumer |-> <<>>] /\ cutoff = [c \in Consumer |-> {}]
      /\ hand = [c \in Consumer |-> {}] /\ at = [c \in Consumer |-> "consume"]
  BY DEF Init
<1>2. /\ ToSet(<<>>) = {} /\ Distinct(<<>>)
      /\ \A l \in List : lists[l] = <<>>
      /\ \A c \in Consumer : read[c] = <<>> /\ cutoff[c] = {} /\ hand[c] = {}
  BY <1>1 DEF ToSet, Distinct
<1>3. Queued = {} /\ InHand = {}
  BY <1>1, <1>2 DEF Queued, InHand
<1>4. QueueTypeOK
  BY <1>1 DEF QueueTypeOK
<1>5. RightList /\ Once /\ Batch
  BY <1>1, <1>2, <1>3 DEF RightList, Once, Batch
<1> QED BY <1>3, <1>4, <1>5 DEF QueueInv, Abstract!Init

\* publish puts a batch that was outside into the lists.
LEMMA PublishStep ==
  ASSUME QueueInv, Publish
  PROVE  Once' /\ Batch' /\ Abstract!Next
<1> USE DEF QueueInv
<1>1. PICK B \in SUBSET Outside : \E batch \in SetToSeqs(B) :
        PushAll(batch, [p \in Payload |-> PublishList(p)])
  BY DEF Publish
<1>2. PICK batch \in SetToSeqs(B) : PushAll(batch, [p \in Payload |-> PublishList(p)])
  BY <1>1
<1>3. batch \in Seq(Payload) /\ ToSet(batch) = B /\ Distinct(batch)
  BY Batches DEF Outside
<1>4. UNCHANGED <<delayed, due, at, read, cutoff, hand>>
  BY DEF Publish
<1> DEFINE dest == [p \in Payload |-> PublishList(p)]
<1>5. \A p \in B : dest[p] \in List
  BY DEF Outside, PublishList, ListOf, List
<1>6. PushAll(batch, dest)
  BY <1>2
<1> HIDE DEF dest
<1>7. \A l \in List :
        /\ ToSet(lists'[l]) = ToSet(lists[l]) \cup {p \in B : dest[p] = l}
        /\ Distinct(lists[l]) /\ Distinct(batch) /\ ToSet(lists[l]) \cap ToSet(batch) = {}
             => Distinct(lists'[l])
  BY <1>3, <1>6, Pushed DEF QueueTypeOK
<1>8. B \in SUBSET Payload /\ B \cap Queued = {} /\ B \cap InHand = {}
  BY DEF Outside
<1>9. \A l \in List : ToSet(lists[l]) \cap B = {}
  BY <1>8, InQueue
<1>10. ToSet(delayed) \cap B = {}
  BY <1>8, InQueue
<1>11. Queued' = Queued \cup B /\ InHand' = InHand
  <2>1. ToSet(delayed)' = ToSet(delayed)
    BY <1>4
  <2>2. \A p : p \in Queued' <=> p \in Queued \/ p \in B
    BY <1>5, <1>7, <2>1, InQueue
  <2> QED BY <1>4, <2>2 DEF InHand
<1>12. \A l \in List : Distinct(lists'[l]) /\ ToSet(lists'[l]) \cap ToSet(delayed) = {}
  BY <1>3, <1>7, <1>9, <1>10 DEF Once
<1>13. Once'
  BY <1>4, <1>8, <1>11, <1>12 DEF Once
<1>14. Batch'
  BY <1>4 DEF Batch
<1>15. Abstract!Put(B)
  BY <1>8, <1>11 DEF Abstract!Put
<1> QED BY <1>8, <1>13, <1>14, <1>15 DEF Abstract!Next

\* A read takes the whole range, as it fits into one promotion.
LEMMA ReadStep ==
  ASSUME QueueInv, Cardinality(Payload) <= PromoteBatch, NEW c \in Consumer, ReadDue(c)
  PROVE  Once' /\ Batch' /\ UNCHANGED <<Queued, InHand>>
<1> USE DEF QueueInv
<1>1. UNCHANGED <<lists, delayed, due, hand>>
  BY DEF ReadDue
<1>2. UNCHANGED <<Queued, InHand>>
  BY <1>1 DEF Queued, InHand
<1>3. due \in 0..Len(delayed) /\ due <= PromoteBatch
  <2>1. delayed \in Seq(Payload) /\ Len(delayed) \in Nat /\ due \in 0..Len(delayed)
    BY DEF QueueTypeOK
  <2>2. Len(delayed) <= Cardinality(Payload)
    BY <2>1, NoLonger DEF Once
  <2>3. Cardinality(Payload) \in Nat /\ PromoteBatch \in Nat
    BY QueueAssumption, FS_CardinalityType
  <2> QED BY <2>1, <2>2, <2>3
<1>4. (IF due < PromoteBatch THEN due ELSE PromoteBatch) = due
  BY <1>3, QueueAssumption
<1> DEFINE r == SubSeq(delayed, 1, due)
           k == {delayed[i] : i \in 1..due}
<1>5. /\ read' = [read EXCEPT ![c] = r] /\ cutoff' = [cutoff EXCEPT ![c] = k]
      /\ at' = [at EXCEPT ![c] = IF due = 0 THEN "poll" ELSE "promote"]
  BY <1>4 DEF ReadDue
<1>6. ToSet(r) = k /\ k \subseteq ToSet(delayed) /\ Distinct(r) /\ (due = 0 => r = <<>> /\ k = {})
  <2>1. /\ ToSet(r) = k /\ k \subseteq ToSet(delayed)
        /\ Distinct(delayed) => Distinct(r)
        /\ due = 0 => r = <<>>
    BY <1>3, ReadRange
  <2>2. due = 0 => k = {}
    OBVIOUS
  <2> QED BY <2>1, <2>2 DEF Once
<1> HIDE DEF r, k
<1>7. Batch'
  <2> SUFFICES ASSUME NEW d \in Consumer
               PROVE  /\ ToSet(read'[d]) = cutoff'[d] /\ cutoff'[d] \subseteq ToSet(delayed)
                      /\ Distinct(read'[d])
                      /\ at'[d] # "promote" => read'[d] = <<>> /\ cutoff'[d] = {}
    BY <1>1 DEF Batch
  <2>1. CASE d = c
    BY <1>5, <1>6, <2>1 DEF QueueTypeOK
  <2>2. CASE d # c
    BY <1>5, <2>2 DEF Batch, QueueTypeOK
  <2> QED BY <2>1, <2>2
<1>8. Once'
  BY <1>1, <1>2 DEF Once
<1> QED BY <1>2, <1>7, <1>8

\* The only consumer's promotion moves payloads between keys.
LEMMA PromoteStep ==
  ASSUME QueueInv, \A a, b \in Consumer : a = b, NEW c \in Consumer, Promote(c)
  PROVE  Once' /\ Batch' /\ UNCHANGED <<Queued, InHand>>
<1> USE DEF QueueInv
<1>1. /\ read[c] \in Seq(Payload) /\ ToSet(read[c]) = cutoff[c] /\ Distinct(read[c])
      /\ cutoff[c] \subseteq ToSet(delayed) /\ cutoff[c] \subseteq Payload
  BY DEF QueueTypeOK, Batch
<1> DEFINE dest == [p \in Payload |-> PromoteList(p)]
<1>2. PushAll(read[c], dest) /\ hand' = hand
  BY DEF Promote
<1>3. \A p \in Payload : dest[p] \in List
  BY DEF PromoteList, ListOf, List
<1> HIDE DEF dest
<1>4. \A l \in List :
        /\ ToSet(lists'[l]) = ToSet(lists[l]) \cup {p \in ToSet(read[c]) : dest[p] = l}
        /\ Distinct(lists[l]) /\ Distinct(read[c]) /\ ToSet(lists[l]) \cap ToSet(read[c]) = {}
             => Distinct(lists'[l])
  BY <1>1, <1>2, Pushed DEF QueueTypeOK
<1>5. ToSet(delayed') = ToSet(delayed) \ cutoff[c] /\ (Distinct(delayed) => Distinct(delayed'))
  BY Promoted
<1>6. \A l \in List : Distinct(lists'[l]) /\ ToSet(lists'[l]) \cap ToSet(delayed') = {}
  BY <1>1, <1>4, <1>5 DEF Once
<1>7. Queued' = Queued
  <2>1. ToSet(delayed)' = ToSet(delayed) \ cutoff[c]
    BY <1>5
  <2>2. \A p : p \in Queued' <=> p \in Queued
    BY <1>1, <1>3, <1>4, <2>1, InQueue
  <2> QED BY <2>2
<1>8. InHand' = InHand
  BY <1>2 DEF InHand
<1>9. Once'
  BY <1>5, <1>6, <1>7, <1>8 DEF Once
<1>10. Batch'
  <2>1. /\ \A d \in Consumer : d = c
        /\ read'[c] = <<>> /\ cutoff'[c] = {}
    BY DEF Promote, QueueTypeOK
  <2>2. ToSet(<<>>) = {} /\ Distinct(<<>>)
    BY DEF ToSet, Distinct
  <2>3. \A d \in Consumer : read'[d] = <<>> /\ cutoff'[d] = {}
    BY <2>1
  <2> QED BY <2>2, <2>3 DEF Batch
<1> QED BY <1>7, <1>8, <1>9, <1>10

\* A pop delivers a payload that is nowhere else in the queue.
LEMMA PopStep ==
  ASSUME QueueInv, NEW c \in Consumer, NEW order \in PollOrders, Pop(c, order)
  PROVE  Once' /\ Batch' /\ Abstract!Next
<1> USE DEF QueueInv
<1>1. PICK l \in List, p \in Payload :
        /\ lists' = [lists EXCEPT ![l] = Tail(lists[l])]
        /\ hand' = [hand EXCEPT ![c] = hand[c] \cup {p}]
        /\ p \in ToSet(lists[l])
        /\ ToSet(lists[l]) = ToSet(Tail(lists[l])) \cup {p}
        /\ Distinct(lists[l]) => p \notin ToSet(Tail(lists[l])) /\ Distinct(Tail(lists[l]))
  BY Popped
<1>2. UNCHANGED <<delayed, due, read, cutoff>>
  BY DEF Pop
<1>3. p \notin ToSet(delayed) /\ p \in Queued
  BY <1>1 DEF Once, Queued
<1>4. \A m \in List : m # l => p \notin ToSet(lists[m])
  BY <1>1, ListsApart
<1>5. \A m \in List : m # l => lists'[m] = lists[m]
  BY <1>1 DEF QueueTypeOK
<1>6. lists'[l] = Tail(lists[l])
  BY <1>1 DEF QueueTypeOK
<1>7. p \notin ToSet(lists'[l]) /\ Distinct(lists'[l]) /\ ToSet(lists[l]) = ToSet(lists'[l]) \cup {p}
  BY <1>1, <1>6 DEF Once
<1>8. Queued' = Queued \ {p}
  <2>1. ToSet(delayed)' = ToSet(delayed)
    BY <1>2
  <2>2. \A q : q \in Queued' <=> q \in Queued /\ q # p
    <3>1. \A m \in List : ToSet(lists'[m]) = ToSet(lists[m]) \ {p}
      BY <1>4, <1>5, <1>7
    <3> QED BY <1>3, <2>1, <3>1, InQueue
  <2> QED BY <2>2
<1>9. InHand' = InHand \cup {p}
  BY <1>1 DEF InHand, QueueTypeOK
<1>10. \A m \in List : Distinct(lists'[m]) /\ ToSet(lists'[m]) \cap ToSet(delayed) = {}
  BY <1>5, <1>7 DEF Once
<1>11. Once'
  BY <1>2, <1>8, <1>9, <1>10 DEF Once
<1>12. Batch'
  <2>1. at[c] # "promote" /\ \A d \in Consumer : at'[d] # "promote" => at[d] # "promote"
    BY DEF Pop, QueueTypeOK
  <2> QED BY <1>2, <2>1 DEF Batch
<1>13. Abstract!Deliver(p)
  BY <1>3, <1>8, <1>9 DEF Abstract!Deliver
<1> QED BY <1>11, <1>12, <1>13 DEF Abstract!Next

\* A payload that its worker gives back waits in the sorted set.
LEMMA ScheduleStep ==
  ASSUME QueueInv, \A a, b \in Consumer : a = b, NEW c \in Consumer, NEW p \in Payload,
         ScheduleDelayed(c, p)
  PROVE  Once' /\ Batch' /\ Abstract!Next
<1> USE DEF QueueInv
<1>1. /\ p \in hand[c] /\ hand' = [hand EXCEPT ![c] = hand[c] \ {p}]
      /\ cutoff' = [d \in Consumer |-> cutoff[d] \ {p}]
      /\ UNCHANGED <<lists, at, read>>
  BY DEF ScheduleDelayed
<1>2. ToSet(delayed') = ToSet(delayed) \cup {p} /\ (Distinct(delayed) => Distinct(delayed'))
  BY Scheduled
<1>3. p \in InHand /\ p \notin Queued
  BY <1>1 DEF InHand, Once
<1>4. Queued' = Queued \cup {p}
  <2>1. ToSet(delayed)' = ToSet(delayed) \cup {p}
    BY <1>2
  <2>2. \A q : q \in Queued' <=> q \in Queued \/ q = p
    BY <1>1, <2>1, InQueue
  <2> QED BY <2>2
<1>5. InHand' = InHand \ {p}
  <2>1. \A d \in Consumer : d = c
    OBVIOUS
  <2>2. InHand = hand[c] /\ InHand' = hand'[c]
    BY <2>1 DEF InHand
  <2> QED BY <1>1, <2>2 DEF QueueTypeOK
<1>6. \A l \in List : p \notin ToSet(lists[l])
  BY <1>3 DEF Queued
<1>7. Once'
  BY <1>1, <1>2, <1>4, <1>5, <1>6 DEF Once
<1>8. Batch'
  <2>1. \A d \in Consumer : p \notin cutoff[d]
    BY <1>3, InQueue DEF Batch
  <2>2. \A d \in Consumer : cutoff'[d] = cutoff[d]
    BY <1>1, <2>1
  <2> QED BY <1>1, <1>2, <2>2 DEF Batch
<1>9. Abstract!Return(p)
  BY <1>3, <1>4, <1>5 DEF Abstract!Return
<1> QED BY <1>7, <1>8, <1>9 DEF Abstract!Next

\* A payload that its worker is done with is nowhere any more.
LEMMA SettleStep ==
  ASSUME QueueInv, \A a, b \in Consumer : a = b, NEW c \in Consumer, NEW p \in Payload,
         Settle(c, p)
  PROVE  Once' /\ Batch' /\ Abstract!Next
<1> USE DEF QueueInv
<1>1. /\ p \in hand[c] /\ hand' = [hand EXCEPT ![c] = hand[c] \ {p}]
      /\ UNCHANGED <<lists, delayed, due, at, read, cutoff>>
  BY DEF Settle
<1>2. Queued' = Queued
  BY <1>1 DEF Queued
<1>3. p \in InHand /\ InHand' = InHand \ {p}
  <2>1. \A d \in Consumer : d = c
    OBVIOUS
  <2>2. InHand = hand[c] /\ InHand' = hand'[c]
    BY <2>1 DEF InHand
  <2> QED BY <1>1, <2>2 DEF QueueTypeOK
<1>4. Once' /\ Batch'
  BY <1>1, <1>2, <1>3 DEF Once, Batch
<1>5. Abstract!Settle(p)
  BY <1>2, <1>3 DEF Abstract!Settle
<1> QED BY <1>4, <1>5 DEF Abstract!Next

\* With one consumer, every step maps to a step of WorkQueue or to a stutter.
LEMMA QueueStep ==
  ASSUME \A a, b \in Consumer : a = b, Cardinality(Payload) <= PromoteBatch,
         QueueInv, [Next]_vars
  PROVE  QueueInv' /\ [Abstract!Next]_<<Queued, InHand>>
<1>1. QueueTypeOK' /\ RightList'
  BY QueueTypeStep, RightListStep DEF QueueInv
<1> DEFINE Goal == Once' /\ Batch' /\ [Abstract!Next]_<<Queued, InHand>>
<1>2. ASSUME Publish PROVE Goal
  BY <1>2, PublishStep
<1>3. ASSUME BecomeDue PROVE Goal
  <2>1. UNCHANGED <<lists, delayed, at, read, cutoff, hand>>
    BY <1>3 DEF BecomeDue
  <2>2. UNCHANGED <<Queued, InHand>>
    BY <2>1 DEF Queued, InHand
  <2> QED BY <2>1, <2>2 DEF QueueInv, Once, Batch
<1>4. ASSUME NEW c \in Consumer, PopTimeout(c)
      PROVE  Once' /\ Batch' /\ UNCHANGED <<Queued, InHand>>
  <2>1. UNCHANGED <<lists, delayed, due, read, cutoff, hand>>
    BY <1>4 DEF PopTimeout
  <2>2. at[c] # "promote" /\ \A d \in Consumer : at'[d] # "promote" => at[d] # "promote"
    BY <1>4 DEF PopTimeout, QueueInv, QueueTypeOK
  <2>3. UNCHANGED <<Queued, InHand>>
    BY <2>1 DEF Queued, InHand
  <2> QED BY <2>1, <2>2, <2>3 DEF QueueInv, Once, Batch
<1>5. ASSUME UNCHANGED vars PROVE Goal
  <2>1. UNCHANGED <<lists, delayed, due, at, read, cutoff, hand>>
    BY <1>5 DEF vars
  <2>2. UNCHANGED <<Queued, InHand>>
    BY <2>1 DEF Queued, InHand
  <2> QED BY <2>1, <2>2 DEF QueueInv, Once, Batch
<1>6. \A c \in Consumer : ReadDue(c) \/ Promote(c) => Goal
  BY ReadStep, PromoteStep DEF QueueInv
<1>7. \A c \in Consumer : Poll(c) => Goal
  BY PopStep DEF Poll
<1>8. \A c \in Consumer, p \in Payload : ScheduleDelayed(c, p) \/ Settle(c, p) => Goal
  BY ScheduleStep, SettleStep
<1> HIDE DEF Goal
<1>9. Goal
  <2>1. \A c \in Consumer : PopTimeout(c) => Goal
    BY <1>4 DEF Goal
  <2> QED BY <1>2, <1>3, <1>5, <1>6, <1>7, <1>8, <2>1 DEF Next
<1> QED BY <1>1, <1>9 DEF Goal, QueueInv

\* One consumer, and no more payloads than a promotion takes: the four lists, the
\* sorted set and the two-step promotion implement the queue that delivers each
\* payload once and loses none.
THEOREM QueueDeliversOnce ==
  ASSUME \A a, b \in Consumer : a = b, Cardinality(Payload) <= PromoteBatch
  PROVE  Spec => ImplementsWorkQueue
<1>1. Init => QueueInv /\ Abstract!Init
  BY QueueInit
<1>2. QueueInv /\ [Next]_vars => QueueInv' /\ [Abstract!Next]_<<Queued, InHand>>
  BY QueueStep
<1> QED BY <1>1, <1>2, PTL DEF Spec, ImplementsWorkQueue, Abstract!Spec, Abstract!vars
=============================================================================
