--------------------------- MODULE DispatcherProof ---------------------------
(***************************************************************************)
(* Proofs about Dispatcher, for any threads, tasks, lanes and capacities:   *)
(* its admission counters balance, its flags never hide published work from *)
(* the merge or from the sleep, a task is always in one place, tasks start  *)
(* in their order, and a stopped timer stays stopped.                       *)
(***************************************************************************)
EXTENDS Dispatcher, FiniteSetTheorems, SequenceTheorems, WellFoundedInduction,
        TLAPS

-----------------------------------------------------------------------------
(* Queues: their members, that none is there twice, and who is before whom. *)

Before(s, f, e) == \E i, j \in DOMAIN s : i < j /\ s[i] = f /\ s[j] = e

(* The smallest of some numbers is one of them.                             *)
LEMMA Smallest ==
    ASSUME NEW S \in SUBSET Nat, S # {}
    PROVE  Min(S) \in S /\ \A x \in S : Min(S) <= x
<1> DEFINE R == {p \in Nat \X Nat : p[1] < p[2]}
<1>1. IsWellFoundedOn(R, Nat)
  BY NatLessThanWellFounded, Zenon DEF OpToRel
<1>2. PICK x \in S : \A y \in S : ~ (<<y, x>> \in R)
  <2> HIDE DEF R
  <2> QED BY <1>1, WFMin
<1>3. ASSUME NEW y \in S PROVE x =< y
  <2>1. x \in Nat /\ y \in Nat /\ <<y, x>> \notin R
    BY <1>2
  <2>2. ~(y < x)
    BY <2>1
  <2> QED BY <2>1, <2>2
<1> QED BY <1>3 DEF Min

(* What joins a queue comes behind those who are there.                     *)
LEMMA Joined ==
    ASSUME NEW K, NEW r \in Seq(K), NEW s \in Seq(K), IsInjective(r), IsInjective(s),
           Range(r) \cap Range(s) = {}
    PROVE  /\ r \o s \in Seq(K) /\ IsInjective(r \o s)
           /\ Range(r \o s) = Range(r) \cup Range(s)
           /\ \A f, e :
                 Before(r, f, e) \/ Before(s, f, e) \/ (f \in Range(r) /\ e \in Range(s))
                    => Before(r \o s, f, e)
<1> DEFINE q == r \o s
           n == Len(r)
<1>1. /\ q \in Seq(K) /\ n \in Nat /\ Len(s) \in Nat
      /\ DOMAIN r = 1..n /\ DOMAIN s = 1..Len(s) /\ DOMAIN q = 1..(n + Len(s))
      /\ \A i \in 1..n : q[i] = r[i]
      /\ \A i \in 1..Len(s) : q[n + i] = s[i]
  OBVIOUS
<1> HIDE DEF q, n
<1>2. \A k \in DOMAIN q : \/ k \in DOMAIN r /\ q[k] = r[k]
                          \/ k - n \in DOMAIN s /\ q[k] = s[k - n] /\ k > n
  <2> SUFFICES ASSUME NEW k \in DOMAIN q, ~(k \in DOMAIN r)
               PROVE  k - n \in DOMAIN s /\ q[k] = s[k - n] /\ k > n
    BY <1>1
  <2>1. k > n /\ k - n \in 1..Len(s) /\ n + (k - n) = k
    BY <1>1
  <2> QED BY <1>1, <2>1
<1>3. \A i \in DOMAIN r : i \in DOMAIN q /\ q[i] = r[i]
  BY <1>1
<1>4. \A i \in DOMAIN s : n + i \in DOMAIN q /\ q[n + i] = s[i]
  BY <1>1
<1>5. Range(q) = Range(r) \cup Range(s)
  <2>1. \A k \in DOMAIN q : q[k] \in Range(r) \cup Range(s)
    BY <1>2 DEF Range
  <2>2. \A i \in DOMAIN r : r[i] \in Range(q)
    BY <1>3 DEF Range
  <2>3. \A i \in DOMAIN s : s[i] \in Range(q)
    BY <1>4 DEF Range
  <2> QED BY <2>1, <2>2, <2>3 DEF Range
<1>6. IsInjective(q)
  <2> SUFFICES ASSUME NEW i \in DOMAIN q, NEW j \in DOMAIN q, q[i] = q[j] PROVE i = j
    BY DEF IsInjective
  <2>1. CASE i \in DOMAIN r /\ q[i] = r[i]
    <3>1. q[i] \in Range(r)
      BY <2>1 DEF Range
    <3>2. j \in DOMAIN r /\ q[j] = r[j]
      BY <1>2, <3>1 DEF Range
    <3> QED BY <2>1, <3>2 DEF IsInjective
  <2>2. CASE i - n \in DOMAIN s /\ q[i] = s[i - n]
    <3>1. q[i] \in Range(s)
      BY <2>2 DEF Range
    <3>2. j - n \in DOMAIN s /\ q[j] = s[j - n]
      BY <1>2, <3>1 DEF Range
    <3>3. i - n = j - n
      BY <2>2, <3>2 DEF IsInjective
    <3>4. i \in Int /\ j \in Int
      BY <1>1
    <3> QED BY <1>1, <3>3, <3>4
  <2> QED BY <1>2, <2>1, <2>2
<1>7. ASSUME NEW f, NEW e,
             \/ Before(r, f, e) \/ Before(s, f, e)
             \/ f \in Range(r) /\ e \in Range(s)
      PROVE  Before(q, f, e)
  <2>1. CASE Before(r, f, e)
    BY <1>3, <2>1 DEF Before
  <2>2. CASE Before(s, f, e)
    <3>1. PICK i \in DOMAIN s, j \in DOMAIN s : i < j /\ s[i] = f /\ s[j] = e
      BY <2>2 DEF Before
    <3>2. n + i < n + j
      BY <1>1, <3>1
    <3> QED BY <1>4, <3>1, <3>2 DEF Before
  <2>3. CASE f \in Range(r) /\ e \in Range(s)
    <3>1. PICK i \in DOMAIN r : r[i] = f
      BY <2>3 DEF Range
    <3>2. PICK j \in DOMAIN s : s[j] = e
      BY <2>3 DEF Range
    <3>3. i < n + j
      BY <1>1
    <3> QED BY <1>3, <1>4, <3>1, <3>2, <3>3 DEF Before
  <2> QED BY <1>7, <2>1, <2>2, <2>3
<1> QED BY <1>1, <1>5, <1>6, <1>7 DEF q

(* A task published alone.                                                  *)
LEMMA Appended ==
    ASSUME NEW K, NEW s \in Seq(K), IsInjective(s), NEW k \in K, k \notin Range(s)
    PROVE  /\ Append(s, k) \in Seq(K) /\ IsInjective(Append(s, k))
           /\ Range(Append(s, k)) = Range(s) \cup {k}
           /\ \A f, e : Before(s, f, e) \/ (f \in Range(s) /\ e = k)
                           => Before(Append(s, k), f, e)
<1> DEFINE one == <<k>>
           q == Append(s, k)
<1>1. one \in Seq(K) /\ IsInjective(one) /\ Range(one) = {k}
  BY DEF IsInjective, Range
<1>2. q = s \o one
  OBVIOUS
<1> HIDE DEF one, q
<1>3. Range(s) \cap Range(one) = {} /\ k \in Range(one)
  BY <1>1
<1>4. /\ q \in Seq(K) /\ IsInjective(q)
      /\ Range(q) = Range(s) \cup Range(one)
      /\ \A f, e :
            Before(s, f, e) \/ Before(one, f, e) \/ (f \in Range(s) /\ e \in Range(one))
               => Before(q, f, e)
  BY <1>1, <1>2, <1>3, Joined
<1> QED BY <1>1, <1>4 DEF q

(* A queue from which one place is taken is a queue.                        *)
LEMMA Removed ==
    ASSUME NEW K, NEW s \in Seq(K), NEW i \in DOMAIN s
    PROVE  RemoveAt(s, i) \in Seq(K)
  BY DEF RemoveAt

(* What is taken out leaves the others as they are.                         *)
LEMMA TakenOut ==
    ASSUME NEW K, NEW s \in Seq(K), IsInjective(s), NEW i \in DOMAIN s
    PROVE  /\ RemoveAt(s, i) \in Seq(K) /\ IsInjective(RemoveAt(s, i))
           /\ Range(RemoveAt(s, i)) = Range(s) \ {s[i]}
           /\ \A f, e : Before(s, f, e) /\ f # s[i] /\ e # s[i]
                           => Before(RemoveAt(s, i), f, e)
<1> DEFINE r == RemoveAt(s, i)
           n == Len(s)
<1>1. n \in Nat /\ DOMAIN s = 1..n /\ i \in 1..n
  OBVIOUS
<1> DEFINE a == SubSeq(s, 1, i - 1)
           b == SubSeq(s, i + 1, n)
<1>2. a \in Seq(K) /\ Len(a) = i - 1 /\ \A j \in 1..(i - 1) : a[j] = s[j]
  BY <1>1
<1>3. b \in Seq(K) /\ Len(b) = n - i /\ \A j \in 1..(n - i) : b[j] = s[i + j]
  BY <1>1
<1> HIDE DEF a, b
<1>4. /\ r \in Seq(K) /\ Len(r) = n - 1 /\ DOMAIN r = 1..(n - 1)
      /\ \A j \in 1..(n - 1) : r[j] = IF j < i THEN s[j] ELSE s[j + 1]
  <2>1. r = a \o b
    BY DEF RemoveAt, a, b
  <2>2. \A j \in 1..(n - 1) : (a \o b)[j] = IF j < i THEN a[j] ELSE b[j - (i - 1)]
    BY <1>1, <1>2, <1>3
  <2>3. ASSUME NEW j \in 1..(n - 1)
        PROVE  (a \o b)[j] = IF j < i THEN s[j] ELSE s[j + 1]
    <3>1. CASE j < i
      BY <2>2, <2>3, <3>1, <1>1, <1>2
    <3>2. CASE ~(j < i)
      <4>1. j - (i - 1) \in 1..(n - i) /\ i + (j - (i - 1)) = j + 1
        BY <2>3, <3>2, <1>1
      <4> QED BY <2>2, <2>3, <3>2, <4>1, <1>3
    <3> QED BY <3>1, <3>2
  <2>4. a \o b \in Seq(K) /\ Len(a \o b) = Len(a) + Len(b)
    BY <1>2, <1>3, ConcatProperties
  <2>5. Len(r) = n - 1 /\ r \in Seq(K)
    BY <2>1, <2>4, <1>1, <1>2, <1>3
  <2>6. DOMAIN r = 1..(n - 1)
    BY <2>5
  <2> QED BY <2>1, <2>3, <2>5, <2>6
<1> HIDE DEF r, n
<1> DEFINE from(j) == IF j < i THEN j ELSE j + 1
<1>5. \A j \in DOMAIN r : from(j) \in DOMAIN s /\ r[j] = s[from(j)] /\ from(j) # i
  BY <1>1, <1>4
<1>6. \A j, k \in DOMAIN r : from(j) = from(k) => j = k
  BY <1>1, <1>4
<1>7. \A m \in DOMAIN s : m # i => \E j \in DOMAIN r : from(j) = m
  <2> SUFFICES ASSUME NEW m \in DOMAIN s, m # i PROVE \E j \in DOMAIN r : from(j) = m
    OBVIOUS
  <2>1. CASE m < i
    <3>1. m \in DOMAIN r /\ from(m) = m
      BY <1>1, <1>4, <2>1
    <3> QED BY <3>1
  <2>2. CASE ~(m < i)
    <3>1. m - 1 \in DOMAIN r /\ from(m - 1) = m
      BY <1>1, <1>4, <2>2
    <3> QED BY <3>1
  <2> QED BY <2>1, <2>2
<1>8. \A j, k \in DOMAIN r : from(j) < from(k) => j < k
  BY <1>1, <1>4
<1> HIDE DEF from
<1>9. Range(r) = Range(s) \ {s[i]}
  <2>1. ASSUME NEW x \in Range(r) PROVE x \in Range(s) \ {s[i]}
    <3>1. PICK j \in DOMAIN r : x = r[j]
      BY DEF Range
    <3> QED BY <3>1, <1>1, <1>5 DEF Range, IsInjective
  <2>2. ASSUME NEW x \in Range(s) \ {s[i]} PROVE x \in Range(r)
    <3>1. PICK m \in DOMAIN s : x = s[m] /\ m # i
      BY DEF Range
    <3>2. PICK j \in DOMAIN r : from(j) = m
      BY <3>1, <1>7
    <3> QED BY <3>1, <3>2, <1>5 DEF Range
  <2> QED BY <2>1, <2>2
<1>10. IsInjective(r)
  BY <1>5, <1>6 DEF IsInjective
<1>11. ASSUME NEW f, NEW e, Before(s, f, e), f # s[i], e # s[i]
       PROVE  Before(r, f, e)
  <2>1. PICK m \in DOMAIN s, k \in DOMAIN s : m < k /\ s[m] = f /\ s[k] = e
    BY <1>11 DEF Before
  <2>2. PICK u \in DOMAIN r : from(u) = m
    BY <1>7, <1>11, <2>1
  <2>3. PICK v \in DOMAIN r : from(v) = k
    BY <1>7, <1>11, <2>1
  <2> QED BY <1>5, <1>8, <2>1, <2>2, <2>3 DEF Before
<1> QED BY <1>4, <1>9, <1>10, <1>11 DEF r

FirstOf(s, n) == {s[i] : i \in 1..n}
RestOf(s, n) == SubSeq(s, n + 1, Len(s))

(* The first n leave a queue, and with one of them all before it.           *)
LEMMA FirstOut ==
    ASSUME NEW K, NEW s \in Seq(K), IsInjective(s), NEW n \in 1..Len(s)
    PROVE  /\ RestOf(s, n) \in Seq(K) /\ IsInjective(RestOf(s, n))
           /\ Range(RestOf(s, n)) = Range(s) \ FirstOf(s, n) /\ FirstOf(s, n) \subseteq Range(s)
           /\ \A f, e : Before(s, f, e) =>
                 /\ f \notin FirstOf(s, n) /\ e \notin FirstOf(s, n) => Before(RestOf(s, n), f, e)
                 /\ e \in FirstOf(s, n) => f \in FirstOf(s, n)
<1> DEFINE r == SubSeq(s, n + 1, Len(s))
           first == {s[i] : i \in 1..n}
           m == Len(s)
<1>1. m \in Nat /\ DOMAIN s = 1..m /\ n \in 1..m
  OBVIOUS
<1>2. r \in Seq(K) /\ DOMAIN r = 1..(m - n) /\ \A j \in 1..(m - n) : r[j] = s[n + j]
  BY <1>1
<1> HIDE DEF r, m
<1>3. \A j \in DOMAIN r : n + j \in DOMAIN s /\ r[j] = s[n + j] /\ n + j > n
  BY <1>1, <1>2
<1>4. \A k \in DOMAIN s : k > n => k - n \in DOMAIN r /\ r[k - n] = s[k]
  <2> SUFFICES ASSUME NEW k \in DOMAIN s, k > n PROVE k - n \in DOMAIN r /\ r[k - n] = s[k]
    OBVIOUS
  <2>1. k - n \in 1..(m - n) /\ n + (k - n) = k
    BY <1>1
  <2> QED BY <1>2, <2>1
<1>5. \A k \in DOMAIN s : s[k] \in first <=> k <= n
  BY <1>1 DEF IsInjective
<1>6. Range(r) = Range(s) \ first
  <2>1. ASSUME NEW x \in Range(r) PROVE x \in Range(s) \ first
    <3>1. PICK j \in DOMAIN r : x = r[j]
      BY DEF Range
    <3>2. n + j \in DOMAIN s /\ x = s[n + j] /\ ~(n + j <= n)
      BY <1>1, <1>3, <3>1
    <3> QED BY <1>5, <3>2 DEF Range
  <2>2. ASSUME NEW x \in Range(s) \ first PROVE x \in Range(r)
    <3>1. PICK k \in DOMAIN s : x = s[k]
      BY DEF Range
    <3>2. k > n
      BY <1>1, <1>5, <3>1
    <3> QED BY <1>4, <3>1, <3>2 DEF Range
  <2> QED BY <2>1, <2>2
<1>7. IsInjective(r)
  <2> SUFFICES ASSUME NEW i \in DOMAIN r, NEW j \in DOMAIN r, r[i] = r[j] PROVE i = j
    BY DEF IsInjective
  <2>1. n + i = n + j
    BY <1>3 DEF IsInjective
  <2> QED BY <1>1, <1>2, <2>1
<1>8. first \subseteq Range(s)
  BY <1>1 DEF Range
<1>9. ASSUME NEW f, NEW e, Before(s, f, e)
      PROVE  /\ f \notin first /\ e \notin first => Before(r, f, e)
             /\ e \in first => f \in first
  <2>1. PICK i \in DOMAIN s, j \in DOMAIN s : i < j /\ s[i] = f /\ s[j] = e
    BY <1>9 DEF Before
  <2>2. CASE e \in first
    BY <1>1, <1>5, <2>1, <2>2
  <2>3. CASE f \notin first /\ e \notin first
    <3>1. i > n /\ j > n /\ i - n < j - n
      BY <1>1, <1>5, <2>1, <2>3
    <3> QED BY <1>4, <2>1, <2>2, <2>3, <3>1 DEF Before
  <2> QED BY <2>2, <2>3
<1>10. RestOf(s, n) = r /\ FirstOf(s, n) = first
  BY DEF RestOf, FirstOf, r, m
<1> HIDE DEF first
<1> QED BY <1>2, <1>6, <1>7, <1>8, <1>9, <1>10

(* Producer fairness serves the first task of the token it has chosen.      *)
LEMMA FairFirst ==
    ASSUME NEW q \in Seq(Events), q # <<>>, NEW last \in Nat
    PROVE  /\ FairIndex(q, last) \in DOMAIN q
           /\ \A i \in DOMAIN q :
                 TokenOf[q[i]] = TokenOf[q[FairIndex(q, last)]] => FairIndex(q, last) <= i
<1> DEFINE tokens == {TokenOf[q[i]] : i \in DOMAIN q}
           beyond == {k \in tokens : k > last}
           from == IF beyond # {} THEN beyond ELSE tokens
           chosen == Min(from)
           first == {i \in DOMAIN q : TokenOf[q[i]] = chosen}
<1>1. from \in SUBSET Nat /\ from # {} /\ from \subseteq tokens
  <2>1. tokens \subseteq Nat
    BY EventsAssumption
  <2>2. 1 \in DOMAIN q
    OBVIOUS
  <2>3. tokens # {}
    BY <2>2
  <2> QED BY <2>1, <2>3
<1>2. chosen \in tokens
  <2> HIDE DEF from, tokens
  <2> QED BY <1>1, Smallest
<1>3. first \in SUBSET Nat /\ first # {}
  <2> HIDE DEF chosen
  <2> QED BY <1>2
<1>4. FairIndex(q, last) = Min(first)
  BY DEF FairIndex
<1>5. Min(first) \in first /\ \A i \in first : Min(first) <= i
  <2> HIDE DEF first
  <2> QED BY <1>3, Smallest
<1> HIDE DEF chosen
<1> QED BY <1>4, <1>5

-----------------------------------------------------------------------------
(* The admission slots.                                                     *)

Buckets(l) == {e \in Holders(l) : Kind[e] = "async"}
Ordinary(l) == {e \in Holders(l) : Kind[e] # "async"}

(* Work that may not use the reserve stays below the capacity without it.   *)
SInv ==
    /\ slotted \subseteq Events
    /\ unused \cap slotted = {}
    /\ reserved = [l \in Lanes |-> reserved[l]]
    /\ SlotsMatch
    /\ \A l \in Lanes : Cardinality(Ordinary(l)) <= LaneCapacity

(* Only tasks hold slots, and there are finitely many of them.               *)
LEMMA HoldersFinite ==
    ASSUME slotted \subseteq Events, NEW l
    PROVE  /\ IsFiniteSet(Holders(l)) /\ Cardinality(Holders(l)) \in Nat
           /\ IsFiniteSet(Ordinary(l)) /\ Cardinality(Ordinary(l)) \in Nat
           /\ IsFiniteSet(Buckets(l)) /\ Cardinality(Buckets(l)) \in Nat
<1>1. Holders(l) \subseteq Events /\ Ordinary(l) \subseteq Events /\ Buckets(l) \subseteq Events
  BY DEF Holders, Ordinary, Buckets
<1> QED BY <1>1, ThreadsAssumption, FS_Subset, FS_CardinalityType

(* No slot is taken at the start.                                            *)
LEMMA SInvInit == Init => SInv
<1> SUFFICES ASSUME Init PROVE SInv
  OBVIOUS
<1>1. slotted = {} /\ reserved = [l \in Lanes |-> 0]
  BY DEF Init
<1>2. \A l \in Lanes : Holders(l) = {} /\ Ordinary(l) = {}
  BY <1>1 DEF Holders, Ordinary
<1>3. Cardinality({}) = 0 /\ 0 <= LaneCapacity
  BY FS_EmptySet, BoundsAssumption
<1> QED BY <1>1, <1>2, <1>3 DEF SInv, SlotsMatch

(* A reservation.                                                           *)
LEMMA SInvAdmit ==
    ASSUME SInv, NEW t \in Threads, NEW e \in Events, Admit(t, e)
    PROVE  SInv'
<1> DEFINE k == LaneOf[e]
<1>1. /\ slotted' = slotted \cup {e} /\ unused' = unused \ {e}
      /\ e \notin slotted /\ k \in Lanes
      /\ slotted \subseteq Events /\ slotted' \subseteq Events
  BY EventsAssumption DEF SInv, Admit
<1>2. /\ reserved' = [l \in Lanes |-> reserved'[l]]
      /\ reserved'[k] = reserved[k] + 1
      /\ \A l \in Lanes : l # k => reserved'[l] = reserved[l]
  BY <1>1 DEF SInv, Admit
<1>3. ASSUME NEW l \in Lanes
      PROVE  /\ reserved'[l] = Cardinality(Holders(l)')
             /\ Cardinality(Ordinary(l)') <= LaneCapacity
  <2>1. reserved[l] = Cardinality(Holders(l)) /\ Cardinality(Ordinary(l)) <= LaneCapacity
    BY DEF SInv, SlotsMatch
  <2>2. CASE l # k
    <3>1. Holders(l)' = Holders(l) /\ Ordinary(l)' = Ordinary(l)
      BY <1>1, <2>2 DEF Holders, Ordinary
    <3> QED BY <1>2, <2>1, <2>2, <3>1
  <2>3. CASE l = k
    <3>1. Holders(l)' = Holders(l) \cup {e} /\ e \notin Holders(l)
      BY <1>1, <2>3 DEF Holders
    <3>2. reserved'[l] = Cardinality(Holders(l)')
      <4>1. Cardinality(Holders(l) \cup {e}) = Cardinality(Holders(l)) + 1
        BY <1>1, <3>1, HoldersFinite, FS_AddElement
      <4> QED BY <1>2, <2>1, <2>3, <3>1, <4>1
    <3>3. CASE Kind[e] = "async"
      <4>1. Ordinary(l)' = Ordinary(l)
        BY <3>1, <3>3 DEF Ordinary
      <4> QED BY <2>1, <3>2, <4>1
    <3>4. CASE Kind[e] # "async"
      <4>1. Ordinary(l)' = Ordinary(l) \cup {e} /\ e \notin Ordinary(l)
        BY <3>1, <3>4 DEF Ordinary
      <4>2. Cardinality(Ordinary(l)') = Cardinality(Ordinary(l)) + 1
        BY <1>1, <4>1, HoldersFinite, FS_AddElement
      <4>3. Ordinary(l) \subseteq Holders(l)
        BY DEF Ordinary
      <4>4. Cardinality(Ordinary(l)) <= reserved[l]
        BY <1>1, <2>1, <4>3, HoldersFinite, FS_Subset
      <4>5. reserved[l] < LaneCapacity
        BY <2>3, <3>4, BoundsAssumption DEF Admit, CapacityFor
      <4>6. Cardinality(Ordinary(l)) \in Nat /\ reserved[l] \in Nat /\ LaneCapacity \in Nat
        BY <1>1, <2>1, HoldersFinite, BoundsAssumption
      <4> QED BY <3>2, <4>2, <4>4, <4>5, <4>6
    <3> QED BY <3>3, <3>4
  <2> QED BY <2>2, <2>3
<1>4. unused' \cap slotted' = {}
  BY <1>1 DEF SInv
<1> QED BY <1>1, <1>2, <1>3, <1>4 DEF SInv, SlotsMatch

(* releaseDispatcherSlot, for any tasks: those that hold no slot any more   *)
(* do not count.                                                            *)
LEMMA SInvRelease ==
    ASSUME SInv, NEW S, Release(S), unused' = unused
    PROVE  SInv'
<1>1. /\ slotted' = slotted \ S /\ slotted' \subseteq Events /\ slotted \subseteq Events
      /\ unused' \cap slotted' = {}
  BY DEF SInv, Release
<1>2. /\ reserved' = [l \in Lanes |-> reserved'[l]]
      /\ \A l \in Lanes : reserved'[l] =
            reserved[l] - Cardinality({e \in S \cap slotted : LaneOf[e] = l})
  BY DEF Release
<1>3. ASSUME NEW l \in Lanes
      PROVE  /\ reserved'[l] = Cardinality(Holders(l)')
             /\ Cardinality(Ordinary(l)') <= LaneCapacity
  <2> DEFINE G == {e \in S \cap slotted : LaneOf[e] = l}
  <2>1. reserved[l] = Cardinality(Holders(l)) /\ Cardinality(Ordinary(l)) <= LaneCapacity
    BY DEF SInv, SlotsMatch
  <2>2. Holders(l)' = Holders(l) \ G /\ Holders(l) \cap G = G /\ G \subseteq Holders(l)
    BY <1>1 DEF Holders
  <2>3. Ordinary(l)' \subseteq Ordinary(l)
    BY <2>2 DEF Ordinary
  <2>4. IsFiniteSet(G)
    BY <1>1, <2>2, HoldersFinite, FS_Subset
  <2>5. Cardinality(Holders(l) \ G) = Cardinality(Holders(l)) - Cardinality(Holders(l) \cap G)
    BY <1>1, HoldersFinite, FS_Difference
  <2>6. reserved'[l] = Cardinality(Holders(l)')
    BY <1>2, <2>1, <2>2, <2>5
  <2>7. Cardinality(Ordinary(l)') <= Cardinality(Ordinary(l))
    BY <1>1, <2>3, HoldersFinite, FS_Subset
  <2>8. /\ Cardinality(Ordinary(l)) \in Nat /\ Cardinality(Ordinary(l)') \in Nat
        /\ LaneCapacity \in Nat
    BY <1>1, <2>3, HoldersFinite, FS_Subset, FS_CardinalityType, BoundsAssumption
  <2> QED BY <2>1, <2>6, <2>7, <2>8
<1> QED BY <1>1, <1>2, <1>3 DEF SInv, SlotsMatch

(* A step that neither reserves nor releases.                                *)
LEMMA SInvKept ==
    ASSUME SInv, UNCHANGED <<slotVars, unused>>
    PROVE  SInv'
<1>1. \A l : Holders(l)' = Holders(l) /\ Ordinary(l)' = Ordinary(l)
  BY DEF slotVars, Holders, Ordinary
<1> QED BY <1>1 DEF SInv, SlotsMatch, slotVars

(* Every step of every thread keeps the slots' invariant.                    *)
LEMMA SInvNext == SInv /\ [Next]_vars => SInv'
<1> SUFFICES ASSUME SInv, [Next]_vars PROVE SInv'
  OBVIOUS
<1>1. ASSUME NEW t \in Threads, NEW e \in Events, Admit(t, e) PROVE SInv'
  BY <1>1, SInvAdmit
<1>2. ASSUME NEW t \in Threads, PushFails(t) PROVE SInv'
  BY <1>2, SInvRelease DEF PushFails
<1>3. ASSUME NEW t \in Threads, PushTask(t) \/ TakeNumber(t) \/ Publishes(t) PROVE SInv'
  BY <1>3, SInvKept DEF PushTask, TakeNumber, Publishes, PushTimer, SetUnmerged, Notify,
                        SetPending, WakeDispatcher
<1>4. ASSUME NEW c \in Compute, ComputeNext(c) PROVE SInv'
  BY <1>4, SInvKept DEF ComputeNext, PublishCompletion, Notify, SetPending, WakeDispatcher,
                        threadVars
<1>5. ASSUME NEW e \in Timers, StopEvent(e) PROVE SInv'
  BY <1>5, SInvRelease DEF StopEvent, threadVars
<1>6. ASSUME NEW l \in Lanes, RunSerial(l) PROVE SInv'
  BY <1>6, SInvRelease, SInvKept DEF RunSerial, threadVars
<1>7. ASSUME NEW l \in Lanes, RunBarrier(l) PROVE SInv'
  BY <1>7, SInvRelease DEF RunBarrier, threadVars
<1>8. CASE Finish
  BY <1>8, SInvRelease DEF Finish, threadVars
<1>9. CASE LoopTop \/ BeginMerge \/ EndPass \/ RunCompletions
  BY <1>9, SInvKept DEF LoopTop, BeginMerge, EndPass, RunCompletions, threadVars
<1>10. CASE \/ (\E t \in Threads : MergeThread(t))
            \/ (\E due \in SUBSET Timers : Promote(due))
  BY <1>10, SInvKept DEF MergeThread, Promote, threadVars
<1>11. CASE ResetPending \/ InspectOwn \/ (\E t \in Threads : InspectThread(t))
  BY <1>11, SInvKept DEF ResetPending, InspectOwn, InspectThread, threadVars
<1>12. CASE KeepPending \/ TestPredicate \/ Block \/ Timeout
  BY <1>12, SInvKept DEF KeepPending, TestPredicate, Block, Timeout, threadVars
<1>13. CASE BeginShutdown \/ EndShutdown \/ UNCHANGED vars
  BY <1>13, SInvKept DEF BeginShutdown, EndShutdown, vars, threadVars
<1> QED BY <1>1, <1>2, <1>3, <1>4, <1>5, <1>6, <1>7, <1>8, <1>9, <1>10, <1>11, <1>12, <1>13
        DEF Next, LoopNext, ThreadNext

(* The slots' invariant holds in every reachable state.                      *)
LEMMA SInvHolds == Spec => []SInv
<1> QED BY SInvInit, SInvNext, PTL DEF Spec

(***************************************************************************)
(* The admission counter of every lane equals the slots that tasks hold, on *)
(* all the ways a task can end; releaseLaneSlot's assert follows.           *)
(***************************************************************************)
THEOREM SlotsBalance == Spec => []SlotsMatch
<1>1. SInv => SlotsMatch
  BY DEF SInv
<1> QED BY <1>1, SInvHolds, PTL

(***************************************************************************)
(* Ordinary work never takes the slots addCreatureAsyncEvent reserves for   *)
(* creature buckets.                                                        *)
(***************************************************************************)
THEOREM BucketsFindRoom == Spec => []BucketRoom
<1>1. SInv => BucketRoom
  <2> SUFFICES ASSUME SInv, NEW e \in Events, Kind[e] = "async",
                      Cardinality(Buckets(LaneOf[e])) < AsyncReserve
               PROVE  reserved[LaneOf[e]] < CapacityFor(e)
    BY DEF BucketRoom, Buckets
  <2> DEFINE k == LaneOf[e]
  <2>1. k \in Lanes /\ slotted \subseteq Events
    BY EventsAssumption DEF SInv
  <2>2. reserved[k] = Cardinality(Holders(k)) /\ Cardinality(Ordinary(k)) <= LaneCapacity
    BY <2>1 DEF SInv, SlotsMatch
  <2>3. Holders(k) = Buckets(k) \cup Ordinary(k) /\ Buckets(k) \cap Ordinary(k) = {}
    BY DEF Buckets, Ordinary
  <2>4. /\ IsFiniteSet(Buckets(k)) /\ IsFiniteSet(Ordinary(k))
        /\ Cardinality(Buckets(k)) \in Nat /\ Cardinality(Ordinary(k)) \in Nat
    BY <2>1, HoldersFinite
  <2>5. Cardinality(Holders(k)) =
            Cardinality(Buckets(k)) + Cardinality(Ordinary(k)) - Cardinality({})
    BY <2>3, <2>4, FS_Union
  <2>6. Cardinality({}) = 0
    BY FS_EmptySet
  <2> QED BY <2>2, <2>4, <2>5, <2>6, BoundsAssumption DEF CapacityFor
<1> QED BY <1>1, SInvHolds, PTL

-----------------------------------------------------------------------------
(* Types.                                                                   *)

OfLane(l) == {e \in Events : LaneOf[e] = l}

(* Which functions are functions, and where a value comes from.             *)
Calls ==
    \A t \in Threads :
      /\ at[t] = "admitted" => cur[t] \in Events /\ (cur[t] \in Timers => t \in Schedulers)
      /\ at[t] = "numbering" => cur[t] \in Timers /\ t \in Schedulers
      /\ at[t] \notin {"admitted", "numbering"} => cur[t] = NoEvent

(* A lane holds its own tasks, and timers come to it from scheduledTasks    *)
(* alone.                                                                   *)
Sorted ==
    /\ \A l \in Lanes : ready[l] \in Seq(OfLane(l))
    /\ \A t \in Threads, l \in Lanes : buffer[t][l] \in Seq(OfLane(l) \ Timers)

TInv == TypeOK /\ Calls /\ Sorted

(* A slot is held by one task.                                              *)
LEMMA Counts ==
    ASSUME NEW S \in SUBSET Events, NEW l
    PROVE  Cardinality({e \in S : LaneOf[e] = l}) \in Nat
<1>1. {e \in S : LaneOf[e] = l} \subseteq Events
  OBVIOUS
<1> QED BY <1>1, ThreadsAssumption, FS_Subset, FS_CardinalityType

(* The next task of a lane is one of its tasks, and the first of its queue. *)
LEMMA NextIsFirst ==
    ASSUME TypeOK, NEW l \in Lanes, ready[l] # <<>>
    PROVE  /\ NextIndex(l) \in DOMAIN ready[l]
           /\ \A i \in DOMAIN ready[l] :
                 SameQueue(ready[l][i], ready[l][NextIndex(l)])
                    => LaneOf[ready[l][i]] # l \/ NextIndex(l) <= i
<1>1. ready[l] \in Seq(Events) /\ lastToken[l] \in Nat
  BY DEF TypeOK
<1>2. CASE l \in FairLanes
  BY <1>1, <1>2, FairFirst DEF NextIndex, SameQueue
<1>3. CASE l \notin FairLanes
  <2>1. NextIndex(l) = 1
    BY <1>3 DEF NextIndex
  <2> QED BY <1>1, <2>1
<1> QED BY <1>2, <1>3

(* The smaller of two numbers.                                              *)
LEMMA MinOfTwo ==
    ASSUME NEW a \in Nat, NEW b \in Nat
    PROVE  Min({a, b}) \in Nat /\ Min({a, b}) <= a /\ Min({a, b}) <= b
  BY Smallest

(* A slice takes no more tasks than its lane has.                           *)
LEMMA SliceFits ==
    ASSUME TypeOK, NEW l \in Lanes, NEW n \in 1..Min({Len(ready[l]), Budget - served[l]})
    PROVE  n \in 1..Len(ready[l])
<1>1. served[l] \in 0..Budget /\ ready[l] \in Seq(Events)
  BY DEF TypeOK, Sources
<1>2. Len(ready[l]) \in Nat /\ Budget - served[l] \in Nat
  BY <1>1, BoundsAssumption
<1> QED BY <1>2, MinOfTwo

(* Nothing exists at the start.                                             *)
LEMMA TInvInit == Init => TInv
<1> SUFFICES ASSUME Init PROVE TInv
  OBVIOUS
<1>1. unused \subseteq Events
  BY ThreadsAssumption DEF Init
<1>2. /\ at \in [Notifiers -> {"off", "idle"}] /\ cur \in [Threads -> {NoEvent}]
      /\ buffer \in [Threads -> [Lanes -> Seq(Events)]] /\ newTimers \in [Threads -> SUBSET Timers]
      /\ ready \in [Lanes -> Seq(Events)]
  BY DEF Init
<1>3. /\ served \in [Sources -> 0..Budget] /\ lane \in Sources
      /\ lastToken \in [Lanes -> Nat] /\ reserved \in [Lanes -> Nat]
      /\ idOf \in [Events -> Nat] /\ accepted \in [Threads -> SUBSET Events]
      /\ ahead \in [Events -> SUBSET Events]
  BY BoundsAssumption DEF Init, Sources
<1>4. TypeOK
  BY <1>1, <1>2, <1>3 DEF Init, TypeOK, LoopStates
<1>5. Calls
  BY DEF Init, Calls, Notifiers
<1>6. Sorted
  BY DEF Init, Sorted
<1> QED BY <1>4, <1>5, <1>6 DEF TInv

(* The counter of a lane is a number, whatever is reserved and released.    *)
LEMMA SlotTypes ==
    ASSUME SInv' PROVE slotted' \in SUBSET Events /\ reserved' \in [Lanes -> Nat]
<1>1. slotted' \in SUBSET Events /\ reserved' = [l \in Lanes |-> reserved'[l]]
  BY DEF SInv
<1>2. ASSUME NEW l \in Lanes PROVE reserved'[l] \in Nat
  <2>1. reserved'[l] = Cardinality(Holders(l)')
    BY DEF SInv, SlotsMatch
  <2>2. Holders(l)' = {e \in slotted' : LaneOf[e] = l}
    BY DEF Holders
  <2> QED BY <1>1, <2>1, <2>2, Counts
<1> QED BY <1>1, <1>2

(* A dispatcher that is woken is where the loop can be.                     *)
LEMMA WokenGoesOn == TypeOK => Woken \in LoopStates
  BY DEF TypeOK, Woken, LoopStates

(* A thread on its way from the reservation to the notification.            *)
LEMMA TInvPublishing ==
    ASSUME TInv, SInv', NEW t \in Threads, ThreadNext(t)
    PROVE  TInv'
<1> USE DEF TInv, threadVars, flags, loopVars, timerVars, slotVars, passVars, history
<1>1. ASSUME NEW e \in Events, Admit(t, e) PROVE TInv'
  <2>1. TypeOK'
    BY <1>1, SlotTypes DEF TypeOK, Admit, Notifiers
  <2>2. Calls' /\ Sorted'
    BY <1>1 DEF TypeOK, Calls, Sorted, Admit, Notifiers
  <2> QED BY <2>1, <2>2
<1>2. CASE PushTask(t)
  <2> DEFINE e == cur[t]
             l == LaneOf[e]
  <2>1. e \in Events /\ e \notin Timers /\ l \in Lanes /\ e \in OfLane(l) \ Timers
    BY <1>2, EventsAssumption DEF Calls, PushTask, OfLane
  <2>2. /\ \A u \in Threads, k \in Lanes : <<u, k>> # <<t, l>> => buffer'[u][k] = buffer[u][k]
        /\ buffer'[t][l] = Append(buffer[t][l], e)
        /\ buffer' = [u \in Threads |-> [k \in Lanes |-> buffer'[u][k]]]
    BY <1>2, <2>1 DEF TypeOK, PushTask
  <2>3. Sorted'
    <3>1. buffer[t][l] \in Seq(OfLane(l) \ Timers)
      BY <2>1 DEF Sorted
    <3>2. Append(buffer[t][l], e) \in Seq(OfLane(l) \ Timers)
      BY <2>1, <3>1
    <3>3. \A u \in Threads, k \in Lanes : buffer'[u][k] \in Seq(OfLane(k) \ Timers)
      <4> HIDE DEF e, l
      <4> QED BY <2>2, <3>2 DEF Sorted
    <3> QED BY <1>2, <3>3 DEF Sorted, PushTask
  <2>4. buffer' \in [Threads -> [Lanes -> Seq(Events)]]
    <3>1. buffer[t][l] \in Seq(Events)
      BY <2>1 DEF TypeOK
    <3>2. Append(buffer[t][l], e) \in Seq(Events)
      BY <2>1, <3>1
    <3>3. \A u \in Threads, k \in Lanes : buffer'[u][k] \in Seq(Events)
      <4> HIDE DEF e, l
      <4>1. \A u \in Threads, k \in Lanes : buffer[u][k] \in Seq(Events)
        BY DEF TypeOK
      <4> QED BY <2>2, <3>2, <4>1
    <3> QED BY <2>2, <3>3
  <2>5. TypeOK' /\ Calls'
    BY <1>2, <2>1, <2>4 DEF TypeOK, Calls, PushTask, Notifiers
  <2> QED BY <2>3, <2>5
<1>3. CASE PushFails(t)
  <2>1. TypeOK'
    BY <1>3, SlotTypes DEF TypeOK, PushFails, Notifiers
  <2>2. Calls' /\ Sorted'
    BY <1>3 DEF TypeOK, Calls, Sorted, PushFails, Notifiers
  <2> QED BY <2>1, <2>2
<1>4. CASE TakeNumber(t)
  BY <1>4 DEF TypeOK, Calls, Sorted, TakeNumber, Notifiers
<1>5. CASE PushTimer(t)
  <2>1. cur[t] \in Timers /\ cur[t] \in Events
    BY <1>5 DEF Calls, PushTimer, Timers
  <2>2. TypeOK'
    BY <1>5, <2>1 DEF TypeOK, PushTimer, Notifiers
  <2>3. Calls' /\ Sorted'
    BY <1>5 DEF TypeOK, Calls, Sorted, PushTimer, Notifiers
  <2> QED BY <2>2, <2>3
<1>6. CASE SetUnmerged(t) \/ Notify(t) \/ SetPending(t) \/ WakeDispatcher(t)
  <2>1. TypeOK'
    <3>1. CASE SetUnmerged(t) \/ Notify(t) \/ SetPending(t)
      BY <1>6, <3>1 DEF TypeOK, SetUnmerged, Notify, SetPending, Notifiers
    <3>2. CASE WakeDispatcher(t)
      BY <3>2, WokenGoesOn DEF TypeOK, WakeDispatcher, Notifiers
    <3> QED BY <1>6, <3>1, <3>2
  <2>2. Calls' /\ Sorted'
    BY <1>6 DEF TypeOK, Calls, Sorted, SetUnmerged, Notify, SetPending, WakeDispatcher, Notifiers
  <2> QED BY <2>1, <2>2
<1> QED BY <1>1, <1>2, <1>3, <1>4, <1>5, <1>6 DEF ThreadNext, Publishes

(* A monster worker, stopEvent and shutdown.                                *)
LEMMA TInvAside ==
    ASSUME TInv, SInv',
           \/ \E c \in Compute : ComputeNext(c)
           \/ \E e \in Timers : StopEvent(e)
           \/ BeginShutdown \/ EndShutdown \/ UNCHANGED vars
    PROVE  TInv'
<1> USE DEF TInv, threadVars, flags, loopVars, timerVars, slotVars, passVars, history
<1>1. ASSUME NEW c \in Compute, ComputeNext(c) PROVE TInv'
  <2>1. TypeOK'
    <3>1. CASE PublishCompletion(c)
      BY <3>1 DEF TypeOK, PublishCompletion, Notifiers
    <3>2. CASE Notify(c) \/ SetPending(c)
      BY <3>2 DEF TypeOK, Notify, SetPending, Notifiers
    <3>3. CASE WakeDispatcher(c)
      BY <3>3, WokenGoesOn DEF TypeOK, WakeDispatcher, Notifiers
    <3> QED BY <1>1, <3>1, <3>2, <3>3 DEF ComputeNext
  <2>2. \A t \in Threads : t # c
    BY ThreadsAssumption
  <2>3. at' = [at EXCEPT ![c] = at'[c]] /\ UNCHANGED <<cur, ready, buffer>>
    BY <1>1 DEF TypeOK, ComputeNext, PublishCompletion, Notify, SetPending, WakeDispatcher,
                Notifiers
  <2>4. Calls' /\ Sorted'
    BY <2>2, <2>3 DEF TypeOK, Calls, Sorted, Notifiers
  <2> QED BY <2>1, <2>4
<1>2. ASSUME NEW e \in Timers, StopEvent(e) PROVE TInv'
  <2>1. TypeOK'
    BY <1>2, SlotTypes DEF TypeOK, StopEvent, Cancel
  <2>2. Calls' /\ Sorted'
    BY <1>2 DEF Calls, Sorted, StopEvent
  <2> QED BY <2>1, <2>2
<1>3. CASE BeginShutdown \/ EndShutdown \/ UNCHANGED vars
  <2>1. TypeOK'
    BY <1>3, WokenGoesOn DEF TypeOK, BeginShutdown, EndShutdown, vars
  <2>2. Calls' /\ Sorted'
    BY <1>3 DEF Calls, Sorted, BeginShutdown, EndShutdown, vars
  <2> QED BY <2>1, <2>2
<1> QED BY <1>1, <1>2, <1>3

(* The merge and the promotion.                                             *)
LEMMA TInvMerge ==
    ASSUME TInv,
           \/ \E t \in Threads : MergeThread(t)
           \/ \E due \in SUBSET Timers : Promote(due)
    PROVE  TInv'
<1> USE DEF TInv, threadVars, flags, loopVars, timerVars, slotVars, passVars, history
<1>1. ASSUME NEW t \in Threads, MergeThread(t) PROVE TInv'
  <2>1. /\ ready' \in [Lanes -> Seq(Events)]
        /\ \A l \in Lanes : ready'[l] \in Seq(OfLane(l))
    <3>1. ASSUME NEW l \in Lanes
          PROVE  /\ ready[l] \in Seq(OfLane(l)) /\ buffer[t][l] \in Seq(OfLane(l))
                 /\ ready[l] \in Seq(Events) /\ buffer[t][l] \in Seq(Events)
      <4>1. buffer[t][l] \in Seq(OfLane(l) \ Timers) /\ OfLane(l) \ Timers \subseteq OfLane(l)
        BY DEF Sorted
      <4>2. buffer[t][l] \in Seq(OfLane(l))
        BY <4>1, SeqMonotonic
      <4> QED BY <4>2 DEF Sorted, TypeOK
    <3> QED BY <1>1, <3>1 DEF MergeThread
  <2>2. /\ buffer' \in [Threads -> [Lanes -> Seq(Events)]]
        /\ \A u \in Threads, l \in Lanes : buffer'[u][l] \in Seq(OfLane(l) \ Timers)
    BY <1>1 DEF TypeOK, Sorted, MergeThread
  <2>3. TypeOK'
    BY <1>1, <2>1, <2>2 DEF TypeOK, MergeThread, LoopStates
  <2>4. Calls' /\ Sorted'
    BY <1>1, <2>1, <2>2 DEF Calls, Sorted, MergeThread
  <2> QED BY <2>3, <2>4
<1>2. ASSUME NEW due \in SUBSET Timers, Promote(due) PROVE TInv'
  <2>1. /\ ready' \in [Lanes -> Seq(Events)]
        /\ \A l \in Lanes : ready'[l] \in Seq(OfLane(l))
    <3> DEFINE DueOf(l) == {e \in due : LaneOf[e] = l}
    <3>1. PICK order : /\ \A l \in Lanes : order[l] \in Orders(DueOf(l))
                       /\ ready' = [l \in Lanes |-> ready[l] \o order[l]]
      BY <1>2 DEF Promote
    <3>2. \A l \in Lanes : DueOf(l) \subseteq OfLane(l) /\ IsFiniteSet(DueOf(l))
      <4>1. \A l \in Lanes : DueOf(l) \subseteq Events
        BY DEF Timers
      <4> QED BY <4>1, ThreadsAssumption, FS_Subset DEF OfLane
    <3>3. ASSUME NEW l \in Lanes PROVE order[l] \in Seq(OfLane(l)) /\ order[l] \in Seq(Events)
      <4>1. Cardinality(DueOf(l)) \in Nat
        BY <3>2, FS_CardinalityType
      <4>2. order[l] \in [1..Cardinality(DueOf(l)) -> DueOf(l)]
        BY <3>1 DEF Orders
      <4>3. order[l] \in Seq(DueOf(l))
        <5> HIDE DEF DueOf
        <5> QED BY <4>1, <4>2
      <4>4. DueOf(l) \subseteq OfLane(l) /\ DueOf(l) \subseteq Events
        BY <3>2 DEF OfLane
      <4> HIDE DEF DueOf
      <4> QED BY <4>3, <4>4, SeqMonotonic
    <3>4. \A l \in Lanes : ready[l] \in Seq(OfLane(l)) /\ ready[l] \in Seq(Events)
      BY DEF Sorted, TypeOK
    <3> QED BY <3>1, <3>3, <3>4
  <2>2. TypeOK'
    BY <1>2, <2>1, BoundsAssumption DEF TypeOK, Promote, Undue, LoopStates
  <2>3. Calls' /\ Sorted'
    BY <1>2, <2>1 DEF Calls, Sorted, Promote
  <2> QED BY <2>2, <2>3
<1> QED BY <1>1, <1>2

(* The pass.                                                                *)
LEMMA TInvPass ==
    ASSUME TInv, SInv',
           \/ \E l \in Lanes : RunSerial(l) \/ RunBarrier(l)
           \/ RunCompletions \/ Finish
    PROVE  TInv'
<1> USE DEF TInv, threadVars, flags, loopVars, timerVars, slotVars, passVars, history
<1>1. ASSUME NEW l \in Lanes, RunSerial(l) PROVE TInv'
  <2> DEFINE i == NextIndex(l)
             e == ready[l][i]
             q == RemoveAt(ready[l], i)
  <2>1. ready[l] # <<>> /\ served[l] < Budget /\ l \in Sources
    BY <1>1 DEF RunSerial, Eligible, Sources
  <2>2. i \in DOMAIN ready[l]
    BY <2>1, NextIsFirst
  <2>3. e \in Events /\ q \in Seq(Events) /\ q \in Seq(OfLane(l)) /\ TokenOf[e] \in Nat
    <3>1. ready[l] \in Seq(Events) /\ ready[l] \in Seq(OfLane(l))
      BY DEF TypeOK, Sorted
    <3> HIDE DEF i
    <3>2. e \in Events
      BY <2>2, <3>1
    <3> QED BY <2>2, <3>1, <3>2, Removed, EventsAssumption
  <2>4. served[l] + 1 \in 0..Budget
    BY <2>1, BoundsAssumption DEF TypeOK
  <2>5. /\ ready' = [ready EXCEPT ![l] = q] /\ lastToken' = [lastToken EXCEPT ![l] = TokenOf[e]]
        /\ running' \subseteq {e} /\ dpc' = "running"
        /\ accepted' = [t \in Threads |-> accepted[t] \ {e}]
        /\ registered' \subseteq registered
        /\ lane' = l /\ served' = [served EXCEPT ![l] = @ + 1]
        /\ UNCHANGED <<threadVars, flags, afterMerge, left, scheduled, idOf, lastId,
                       canceled, exhausted, completions, ahead, stopped>>
    BY <1>1 DEF RunSerial, Start, Forget
  <2> HIDE DEF q, e, i
  <2>6. TypeOK'
    BY <2>1, <2>3, <2>4, <2>5, SlotTypes DEF TypeOK, LoopStates
  <2>7. Calls' /\ Sorted'
    BY <2>3, <2>5 DEF TypeOK, Calls, Sorted
  <2> QED BY <2>6, <2>7
<1>2. ASSUME NEW l \in Lanes, RunBarrier(l) PROVE TInv'
  <2>1. PICK n \in 1..Min({Len(ready[l]), Budget - served[l]}) :
              /\ ready' = [ready EXCEPT ![l] = SubSeq(@, n + 1, Len(@))]
              /\ Start({ready[l][i] : i \in 1..n}, {})
              /\ served' = [served EXCEPT ![l] = @ + n]
    BY <1>2 DEF RunBarrier
  <2>2. /\ ready[l] \in Seq(Events) /\ ready[l] \in Seq(OfLane(l))
        /\ served[l] \in 0..Budget /\ l \in Sources
    BY DEF TypeOK, Sorted, Sources
  <2>3. n \in Nat /\ 1 <= n /\ n <= Len(ready[l]) /\ n <= Budget - served[l]
    <3>1. Len(ready[l]) \in Nat /\ Budget - served[l] \in Nat
      BY <2>2, BoundsAssumption
    <3> QED BY <3>1, MinOfTwo
  <2>4. /\ SubSeq(ready[l], n + 1, Len(ready[l])) \in Seq(Events)
        /\ SubSeq(ready[l], n + 1, Len(ready[l])) \in Seq(OfLane(l))
        /\ {ready[l][i] : i \in 1..n} \subseteq Events
        /\ served[l] + n \in 0..Budget
    BY <2>2, <2>3, BoundsAssumption
  <2>5. TypeOK'
    BY <1>2, <2>1, <2>2, <2>4, SlotTypes DEF TypeOK, RunBarrier, Start, LoopStates
  <2>6. Calls' /\ Sorted'
    BY <1>2, <2>1, <2>4 DEF TypeOK, Calls, Sorted, RunBarrier
  <2> QED BY <2>5, <2>6
<1>3. CASE RunCompletions
  <2> DEFINE w == "WorkerCompletion"
  <2>1. PICK n \in 1..Min({completions, Budget - served[w]}) :
              completions' = completions - n /\ served' = [served EXCEPT ![w] = @ + n]
    BY <1>3 DEF RunCompletions
  <2>2. served[w] \in 0..Budget /\ completions \in Nat /\ w \in Sources
    BY DEF TypeOK, Sources
  <2>3. n \in Nat /\ n <= completions /\ n <= Budget - served[w]
    <3>1. Budget - served[w] \in Nat
      BY <2>2, BoundsAssumption
    <3> QED BY <2>2, <3>1, MinOfTwo
  <2>4. completions - n \in Nat /\ served[w] + n \in 0..Budget
    BY <2>2, <2>3, BoundsAssumption
  <2>5. TypeOK'
    BY <1>3, <2>1, <2>2, <2>4 DEF TypeOK, RunCompletions, LoopStates
  <2>6. Calls' /\ Sorted'
    BY <1>3 DEF Calls, Sorted, RunCompletions
  <2> QED BY <2>5, <2>6
<1>4. CASE Finish
  <2>1. {e \in running : Kind[e] = "cycle"} \subseteq Timers
    BY DEF TypeOK, Timers
  <2>2. TypeOK'
    BY <1>4, <2>1, SlotTypes DEF TypeOK, Finish, Forget, LoopStates
  <2>3. Calls' /\ Sorted'
    BY <1>4 DEF Calls, Sorted, Finish
  <2> QED BY <2>2, <2>3
<1> QED BY <1>1, <1>2, <1>3, <1>4

(* The rest of the loop.                                                    *)
LEMMA TInvLoop ==
    ASSUME TInv,
           \/ LoopTop \/ BeginMerge \/ EndPass
           \/ ResetPending \/ InspectOwn \/ \E t \in Threads : InspectThread(t)
           \/ KeepPending \/ TestPredicate \/ Block \/ Timeout
    PROVE  TInv'
<1> USE DEF TInv, threadVars, flags, loopVars, timerVars, slotVars, passVars, history
<1>1. CASE LoopTop \/ BeginMerge \/ EndPass
  <2>1. TypeOK'
    BY <1>1 DEF TypeOK, LoopStates, LoopTop, BeginMerge, EndPass
  <2>2. Calls' /\ Sorted'
    BY <1>1 DEF Calls, Sorted, LoopTop, BeginMerge, EndPass
  <2> QED BY <2>1, <2>2
<1>2. CASE ResetPending \/ InspectOwn \/ \E t \in Threads : InspectThread(t)
  <2>1. TypeOK'
    BY <1>2, ZenonT(40) DEF TypeOK, LoopStates, ResetPending, InspectOwn, InspectThread
  <2>2. Calls' /\ Sorted'
    BY <1>2 DEF Calls, Sorted, ResetPending, InspectOwn, InspectThread
  <2> QED BY <2>1, <2>2
<1>3. CASE KeepPending \/ TestPredicate \/ Block \/ Timeout
  <2>1. TypeOK'
    BY <1>3, ZenonT(40) DEF TypeOK, LoopStates, KeepPending, TestPredicate, Block, Timeout
  <2>2. Calls' /\ Sorted'
    BY <1>3 DEF Calls, Sorted, KeepPending, TestPredicate, Block, Timeout
  <2> QED BY <2>1, <2>2
<1> QED BY <1>1, <1>2, <1>3

(* The types hold in every reachable state.                                 *)
LEMMA TInvHolds == Spec => [](TInv /\ SInv)
<1>1. TInv /\ SInv /\ [Next]_vars => (TInv /\ SInv)'
  BY SInvNext, TInvPublishing, TInvAside, TInvMerge, TInvPass, TInvLoop DEF Next, LoopNext
<1> QED BY TInvInit, SInvInit, <1>1, PTL DEF Spec

-----------------------------------------------------------------------------
(* The flags.                                                               *)

(* What the argument needs of the types: which functions are functions.     *)
Shapes ==
    /\ at = [n \in Notifiers |-> at[n]]
    /\ buffer = [t \in Threads |-> buffer[t]]
    /\ \A t \in Threads : buffer[t] = [l \in Lanes |-> buffer[t][l]]
    /\ newTimers = [t \in Threads |-> newTimers[t]]
    /\ afterMerge \in {"promote", "select", "promoteAgain"}

(* The sleep will not be entered, or a notifier will end it.                *)
Alerted ==
    \/ hasPending
    \/ \E n \in Notifiers : at[n] \in {"publishing", "notifying", "signalling"}

(* From the moment checkPendingTasks has looked at a buffer until the sleep *)
(* is over, whatever is found there later was announced.                    *)
NothingMissed ==
    dpc \in {"inspecting", "predicate", "blocking", "blocked"} =>
        /\ \A l \in Lanes : ready[l] = <<>>
        /\ completions > 0 => Alerted
        /\ \A t \in Threads :
              HasWork(t) /\ (dpc = "inspecting" => t \notin left) => Alerted

FInv == MergeFinds /\ NothingMissed

(* The constructor leaves nothing buffered and nobody notifying.             *)
LEMMA FInvInit == Init => FInv
  BY DEF Init, FInv, MergeFinds, NothingMissed, HasWork, Alerted

(* Steps of a publishing thread that raise or keep the alarm.               *)
LEMMA FInvPublishing ==
    ASSUME Shapes, Shapes', FInv, NEW t \in Threads,
           PushTask(t) \/ PushTimer(t) \/ SetUnmerged(t)
    PROVE  FInv'
<1>1. CASE PushTask(t)
  <2>1. /\ at'[t] = "publishing"
        /\ \A u \in Threads : u # t => at'[u] = at[u] /\ (HasWork(u)' <=> HasWork(u))
    BY <1>1 DEF FInv, Shapes, PushTask, HasWork, Notifiers, loopVars
  <2>2. MergeFinds'
    BY <1>1, <2>1 DEF FInv, MergeFinds, PushTask, flags, loopVars
  <2>3. Alerted'
    BY <2>1 DEF Alerted, Notifiers
  <2>4. NothingMissed'
    BY <1>1, <2>3 DEF FInv, NothingMissed, PushTask, loopVars
  <2> QED BY <2>1, <2>2, <2>4 DEF FInv
<1>2. CASE PushTimer(t)
  <2>1. /\ at'[t] = "publishing"
        /\ \A u \in Threads : u # t => at'[u] = at[u] /\ (HasWork(u)' <=> HasWork(u))
    BY <1>2 DEF FInv, Shapes, PushTimer, HasWork, Notifiers, loopVars
  <2>2. MergeFinds'
    BY <1>2, <2>1 DEF FInv, MergeFinds, PushTimer, flags, loopVars
  <2>3. Alerted'
    BY <2>1 DEF Alerted, Notifiers
  <2>4. NothingMissed'
    BY <1>2, <2>3 DEF FInv, NothingMissed, PushTimer, loopVars
  <2> QED BY <2>1, <2>2, <2>4 DEF FInv
<1>3. CASE SetUnmerged(t)
  <2>1. at'[t] = "notifying" /\ hasUnmerged'
    BY <1>3 DEF FInv, Shapes, SetUnmerged, Notifiers, loopVars
  <2>2. MergeFinds'
    BY <2>1 DEF MergeFinds
  <2>3. Alerted'
    BY <2>1 DEF Alerted, Notifiers
  <2>4. NothingMissed'
    BY <1>3, <2>3 DEF FInv, NothingMissed, SetUnmerged, loopVars
  <2> QED BY <2>1, <2>2, <2>4 DEF FInv
<1> QED BY <1>1, <1>2, <1>3

(* Steps of a notifier.                                                     *)
LEMMA FInvNotifying ==
    ASSUME Shapes, Shapes', FInv, NEW n \in Notifiers,
           \/ Notify(n) \/ SetPending(n) \/ WakeDispatcher(n)
           \/ n \in Compute /\ PublishCompletion(n)
    PROVE  FInv'
<1>1. /\ at[n] # "publishing"
      /\ \A m \in Notifiers : m # n => at'[m] = at[m]
      /\ \A t \in Threads : HasWork(t)' <=> HasWork(t)
      /\ hasUnmerged' = hasUnmerged /\ left' = left /\ ready' = ready
      /\ dpc' = dpc \/ (dpc = "blocked" /\ dpc' = "predicate")
  BY DEF FInv, Shapes, Notify, SetPending, WakeDispatcher, PublishCompletion, HasWork,
         threadVars, flags, loopVars, Woken
<1>2. MergeFinds'
  BY <1>1 DEF FInv, MergeFinds, Notifiers
<1>3. Alerted \/ completions' # completions => Alerted'
  <2>1. CASE Notify(n)
    <3>1. at'[n] = "signalling" \/ hasPending'
      BY <2>1 DEF Notify, flags, FInv, Shapes
    <3> QED BY <3>1 DEF Alerted
  <2>2. CASE SetPending(n)
    BY <2>2 DEF Alerted, SetPending
  <2>3. CASE WakeDispatcher(n)
    BY <1>1, <2>3 DEF Alerted, WakeDispatcher, flags
  <2>4. CASE PublishCompletion(n)
    <3>1. at'[n] = "notifying"
      BY <2>4 DEF PublishCompletion, FInv, Shapes
    <3> QED BY <3>1 DEF Alerted
  <2> QED BY <2>1, <2>2, <2>3, <2>4
<1>4. NothingMissed'
  BY <1>1, <1>3 DEF FInv, NothingMissed
<1> QED BY <1>1, <1>2, <1>4 DEF FInv

(* Steps that announce nothing and have nothing to announce.                *)
LEMMA FInvAside ==
    ASSUME Shapes, Shapes', FInv,
           \/ \E t \in Threads, e \in Events : Admit(t, e)
           \/ \E t \in Threads : PushFails(t) \/ TakeNumber(t)
           \/ \E e \in Timers : StopEvent(e)
           \/ BeginShutdown \/ EndShutdown
           \/ UNCHANGED vars
    PROVE  FInv'
<1>1. /\ \A n \in Notifiers : at'[n] = at[n]
            \/ (at[n] \in {"idle", "admitted"} /\ at'[n] \in {"idle", "admitted", "numbering"})
  <2>1. CASE \E t \in Threads, e \in Events : Admit(t, e)
    BY <2>1 DEF FInv, Shapes, Admit, loopVars, Notifiers
  <2>2. CASE \E t \in Threads : PushFails(t) \/ TakeNumber(t)
    BY <2>2 DEF FInv, Shapes, PushFails, TakeNumber, loopVars, Notifiers
  <2>3. CASE \E e \in Timers : StopEvent(e)
    BY <2>3 DEF FInv, Shapes, StopEvent, loopVars, threadVars
  <2>4. CASE BeginShutdown \/ EndShutdown \/ UNCHANGED vars
    BY <2>4 DEF FInv, Shapes, BeginShutdown, EndShutdown, vars, loopVars, threadVars
  <2> QED BY <2>1, <2>2, <2>3, <2>4
<1>2. /\ \A t \in Threads : HasWork(t)' <=> HasWork(t)
      /\ hasUnmerged' = hasUnmerged /\ hasPending' = hasPending /\ left' = left
      /\ ready' = ready /\ completions' = completions
      /\ dpc' = dpc \/ (dpc = "blocked" /\ dpc' = "predicate")
  BY DEF Admit, PushFails, TakeNumber, StopEvent, BeginShutdown, EndShutdown, Woken,
         vars, threadVars, flags, loopVars, HasWork
<1>3. MergeFinds'
  BY <1>1, <1>2 DEF FInv, MergeFinds, Notifiers
<1>4. Alerted => Alerted'
  BY <1>1, <1>2 DEF Alerted
<1>5. NothingMissed'
  BY <1>2, <1>4 DEF FInv, NothingMissed
<1> QED BY <1>1, <1>3, <1>5 DEF FInv

(* The merge.                                                               *)
LEMMA FInvMerge ==
    ASSUME Shapes, Shapes', FInv, BeginMerge \/ \E t \in Threads : MergeThread(t)
    PROVE  FInv'
<1>1. CASE BeginMerge
  <2>1. \A t \in Threads : at'[t] = at[t] /\ (HasWork(t)' <=> HasWork(t))
    BY <1>1 DEF FInv, Shapes, BeginMerge, threadVars, HasWork
  <2>2. MergeFinds'
    BY <1>1, <2>1 DEF FInv, MergeFinds, BeginMerge
  <2>3. NothingMissed'
    BY <1>1 DEF FInv, Shapes, NothingMissed, BeginMerge
  <2> QED BY <2>1, <2>2, <2>3 DEF FInv
<1>2. ASSUME NEW t \in Threads, MergeThread(t)
      PROVE  FInv'
  <2>1. ~HasWork(t)' /\ \A u \in Threads : u # t => (HasWork(u)' <=> HasWork(u))
    BY <1>2 DEF FInv, Shapes, MergeThread, HasWork
  <2>2. MergeFinds'
    BY <1>2, <2>1 DEF FInv, MergeFinds, MergeThread, flags
  <2>3. NothingMissed'
    BY <1>2 DEF FInv, Shapes, NothingMissed, MergeThread
  <2> QED BY <2>2, <2>3 DEF FInv
<1> QED BY <1>1, <1>2

(* Steps of the loop that leave the buffers alone and do not lead to the    *)
(* sleep.                                                                   *)
LEMMA FInvPass ==
    ASSUME Shapes, Shapes', FInv,
           \/ LoopTop \/ EndPass \/ RunCompletions \/ Finish \/ ResetPending \/ KeepPending
           \/ \E due \in SUBSET Timers : Promote(due)
           \/ \E l \in Lanes : RunSerial(l) \/ RunBarrier(l)
           \/ Timeout
    PROVE  FInv'
<1>1. /\ at' = at /\ buffer' = buffer /\ newTimers' = newTimers
      /\ hasUnmerged' = hasUnmerged /\ left' = left
      /\ dpc # "merging"
      /\ afterMerge' \in {afterMerge, "promote", "select", "promoteAgain"}
      /\ dpc' \notin {"inspecting", "predicate", "blocking", "blocked"}
  <2>1. CASE LoopTop \/ EndPass \/ ResetPending \/ KeepPending \/ Timeout
    BY <2>1 DEF LoopTop, EndPass, ResetPending, KeepPending, Timeout, threadVars, flags, loopVars
  <2>2. CASE RunCompletions \/ Finish
    BY <2>2 DEF RunCompletions, Finish, threadVars, flags, loopVars
  <2>3. CASE \E due \in SUBSET Timers : Promote(due)
    BY <2>3 DEF Promote, threadVars, flags, loopVars
  <2>4. CASE \E l \in Lanes : RunSerial(l) \/ RunBarrier(l)
    BY <2>4 DEF RunSerial, RunBarrier, Start, threadVars, flags, loopVars
  <2> QED BY <2>1, <2>2, <2>3, <2>4
<1>2. MergeFinds'
  BY <1>1 DEF FInv, MergeFinds, HasWork
<1>3. NothingMissed'
  BY <1>1 DEF NothingMissed
<1> QED BY <1>2, <1>3 DEF FInv

(* checkPendingTasks after its reset, and the way into the sleep.           *)
LEMMA FInvCheck ==
    ASSUME Shapes, Shapes', FInv,
           \/ InspectOwn \/ TestPredicate \/ Block
           \/ \E t \in Threads : InspectThread(t)
    PROVE  FInv'
<1>1. /\ at' = at /\ buffer' = buffer /\ newTimers' = newTimers /\ afterMerge' = afterMerge
      /\ hasUnmerged' = hasUnmerged /\ hasPending' = hasPending
      /\ ready' = ready /\ completions' = completions
      /\ dpc # "merging"
  BY DEF InspectOwn, TestPredicate, Block, InspectThread, threadVars, flags
<1>2. (Alerted => Alerted') /\ \A t \in Threads : HasWork(t)' <=> HasWork(t)
  BY <1>1 DEF FInv, Shapes, Alerted, HasWork
<1>3. MergeFinds'
  BY <1>1, <1>2 DEF FInv, MergeFinds
<1>4. NothingMissed'
  <2>1. CASE InspectOwn
    BY <1>1, <2>1 DEF NothingMissed, InspectOwn
  <2>2. CASE TestPredicate \/ Block
    BY <1>1, <1>2, <2>2 DEF FInv, NothingMissed, TestPredicate, Block, loopVars
  <2>3. ASSUME NEW t \in Threads, InspectThread(t)
        PROVE  NothingMissed'
    <3>1. CASE HasWork(t)
      BY <2>3, <3>1 DEF InspectThread, NothingMissed
    <3>2. CASE ~HasWork(t)
      <4>1. /\ dpc = "inspecting" /\ left' = left \ {t}
            /\ (left = {t} /\ dpc' = "predicate") \/ dpc' = "inspecting"
        BY <2>3, <3>2 DEF InspectThread
      <4>2. \A u \in Threads : HasWork(u) /\ (dpc' = "inspecting" => u \notin left') => Alerted
        BY <3>2, <4>1 DEF FInv, NothingMissed
      <4> QED BY <1>1, <1>2, <4>1, <4>2 DEF FInv, NothingMissed
    <3> QED BY <3>1, <3>2
  <2> QED BY <2>1, <2>2, <2>3
<1> QED BY <1>3, <1>4 DEF FInv

(* Every step keeps the flags' invariant.                                    *)
LEMMA FInvHolds == Spec => []FInv
<1>1. TypeOK => Shapes
  BY DEF TypeOK, Shapes
<1>2. TypeOK' => Shapes'
  BY DEF TypeOK, Shapes
<1>3. Shapes /\ Shapes' /\ FInv /\ [Next]_vars => FInv'
  BY FInvPublishing, FInvNotifying, FInvAside, FInvMerge, FInvPass, FInvCheck
     DEF Next, LoopNext, ThreadNext, ComputeNext, Publishes, Notifiers
<1>4. TInv => TypeOK
  BY DEF TInv
<1> QED BY FInvInit, TInvHolds, <1>1, <1>2, <1>3, <1>4, PTL DEF Spec

(***************************************************************************)
(* mergeEvents misses no buffer that holds work, whatever the number of     *)
(* threads that publish while it runs.                                      *)
(***************************************************************************)
THEOREM MergeFindsWork == Spec => []MergeFinds
<1>1. FInv => MergeFinds
  BY DEF FInv
<1> QED BY <1>1, FInvHolds, PTL

(***************************************************************************)
(* The dispatcher never sleeps on work that nobody has announced: the reset *)
(* of hasPendingTasks in checkPendingTasks loses no task and no completion. *)
(***************************************************************************)
THEOREM SleepIsAnnounced == Spec => []SleepSeesWork
<1>1. FInv => SleepSeesWork
  BY DEF FInv, NothingMissed, SleepSeesWork, Alerted
<1> QED BY <1>1, FInvHolds, PTL

-----------------------------------------------------------------------------
(* Places.                                                                  *)

Called(e) == \E t \in Threads : cur[t] = e
BufferedBy(t, e) == e \in Range(buffer[t][LaneOf[e]])
Pushed(e) == \E t \in Threads : BufferedBy(t, e)
Lined(e) == e \in Range(ready[LaneOf[e]])
NewTimer(e) == \E t \in Threads : e \in newTimers[t]

(* A task is in one of the seven stages at most, ...                        *)
Staged(e) ==
    /\ e \in unused =>
          ~(Called(e) \/ Pushed(e) \/ Lined(e) \/ NewTimer(e) \/ e \in scheduled \/ e \in running)
    /\ Called(e) =>
          ~(Pushed(e) \/ Lined(e) \/ NewTimer(e) \/ e \in scheduled \/ e \in running)
    /\ Pushed(e) => ~(Lined(e) \/ NewTimer(e) \/ e \in scheduled \/ e \in running)
    /\ Lined(e) => ~(NewTimer(e) \/ e \in scheduled \/ e \in running)
    /\ NewTimer(e) => ~(e \in scheduled \/ e \in running)
    /\ e \in scheduled => e \notin running

(* ... with one thread, ...                                                 *)
Owned(e) ==
    \A t, u \in Threads :
      /\ cur[t] = e /\ cur[u] = e => t = u
      /\ BufferedBy(t, e) /\ BufferedBy(u, e) => t = u
      /\ e \in newTimers[t] /\ e \in newTimers[u] => t = u

(* ... and once in a queue.                                                 *)
Single ==
    /\ \A l \in Lanes : IsInjective(ready[l])
    /\ \A t \in Threads, l \in Lanes : IsInjective(buffer[t][l])

Placed(e) == Called(e) \/ Pushed(e) \/ Lined(e) \/ NewTimer(e) \/ e \in scheduled \/ e \in running

(* What holds a slot, can be stopped or was accepted is somewhere; only a   *)
(* cycle runs with a slot and with an id.                                   *)
Found ==
    /\ \A e \in slotted : Placed(e)
    /\ \A e \in registered : NewTimer(e) \/ e \in scheduled \/ Lined(e) \/ e \in running
    /\ \A e \in running : e \in slotted \cup registered => Kind[e] = "cycle"
    /\ \A t \in Threads : \A e \in accepted[t] : BufferedBy(t, e) \/ Lined(e)

(* Two tasks of one thread are in the order of their publication.           *)
InOrder(t, f, e) ==
    LET l == LaneOf[e] IN
      \/ Before(buffer[t][l], f, e) \/ Before(ready[l], f, e)
      \/ f \in Range(ready[l]) /\ e \in Range(buffer[t][l])

Ordered ==
    /\ \A t \in Threads : \A e \in accepted[t] : \A f \in ahead[e] \cap accepted[t] :
          SameQueue(f, e) /\ InOrder(t, f, e)
    /\ \A e \in Events : \A f \in ahead[e] : f \notin unused /\ ~Called(f)

PInv ==
    /\ \A e \in Events : Staged(e) /\ Owned(e)
    /\ Single /\ Found /\ Ordered
    /\ dpc # "running" => running = {}

(* Nothing exists at the start.                                             *)
LEMMA PInvInit == Init => PInv
<1> SUFFICES ASSUME Init PROVE PInv
  OBVIOUS
<1>1. /\ cur = [t \in Threads |-> NoEvent] /\ newTimers = [t \in Threads |-> {}]
      /\ buffer = [t \in Threads |-> [l \in Lanes |-> <<>>]] /\ ready = [l \in Lanes |-> <<>>]
      /\ scheduled = {} /\ registered = {} /\ slotted = {} /\ running = {}
      /\ accepted = [t \in Threads |-> {}] /\ ahead = [e \in Events |-> {}]
  BY DEF Init
<1>2. IsInjective(<<>>) /\ Range(<<>>) = {}
  BY DEF IsInjective, Range
<1>3. Single
  BY <1>1, <1>2 DEF Single
<1>4. \A e \in Events : ~Placed(e)
  BY <1>1, <1>2, ThreadsAssumption, EventsAssumption
     DEF Placed, Called, Pushed, BufferedBy, Lined, NewTimer
<1>5. \A e \in Events : Staged(e)
  BY <1>4 DEF Staged, Placed
<1>6. \A e \in Events : Owned(e)
  BY <1>4 DEF Owned, Placed, Called, Pushed, NewTimer
<1>7. Found /\ Ordered
  BY <1>1 DEF Found, Ordered
<1> QED BY <1>1, <1>3, <1>5, <1>6, <1>7 DEF PInv

(* A step that moves no task, and at most takes a slot or an id back.       *)
LEMMA PInvStill ==
    ASSUME PInv, UNCHANGED <<cur, unused, buffer, newTimers, ready, scheduled, running,
                             accepted, ahead>>,
           slotted' \subseteq slotted, registered' \subseteq registered,
           dpc' = "running" \/ (dpc = "running" => dpc' = "running")
    PROVE  PInv'
<1>1. \A e : /\ Called(e)' <=> Called(e)
             /\ Pushed(e)' <=> Pushed(e)
             /\ Lined(e)' <=> Lined(e)
             /\ NewTimer(e)' <=> NewTimer(e)
             /\ \A t : BufferedBy(t, e)' <=> BufferedBy(t, e)
  BY DEF Called, Pushed, Lined, NewTimer, BufferedBy
<1>2. \A e \in Events : Staged(e)' /\ Owned(e)'
  BY <1>1 DEF PInv, Staged, Owned
<1>3. Single' /\ Found' /\ Ordered'
  BY <1>1 DEF PInv, Single, Found, Placed, Ordered, InOrder
<1>4. dpc' # "running" => running' = {}
  BY DEF PInv
<1> QED BY <1>2, <1>3, <1>4 DEF PInv

(* A task is created ...                                                    *)
LEMMA PInvAdmit ==
    ASSUME TInv, PInv, NEW t \in Threads, NEW d \in Events, Admit(t, d)
    PROVE  PInv'
<1>1. /\ d \in unused /\ unused' = unused \ {d} /\ slotted' = slotted \cup {d}
      /\ cur[t] = NoEvent /\ cur' = [cur EXCEPT ![t] = d]
      /\ UNCHANGED <<buffer, newTimers, ready, scheduled, registered, running, accepted, ahead,
                     dpc>>
  BY DEF Admit, TInv, Calls, loopVars, timerVars, passVars, history
<1>2. \A u \in Threads : cur'[u] = IF u = t THEN d ELSE cur[u]
  BY <1>1 DEF TInv, TypeOK
<1>3. \A e \in Events : /\ Called(e)' <=> (Called(e) \/ e = d)
                        /\ Pushed(e)' <=> Pushed(e)
                        /\ Lined(e)' <=> Lined(e)
                        /\ NewTimer(e)' <=> NewTimer(e)
                        /\ \A u : BufferedBy(u, e)' <=> BufferedBy(u, e)
  BY <1>1, <1>2, ThreadsAssumption DEF Called, Pushed, Lined, NewTimer, BufferedBy
<1>4. \A e \in Events : Staged(e)'
  BY <1>1, <1>3 DEF PInv, Staged
<1>5. \A e \in Events : Owned(e)'
  <2>1. ~Called(d)
    BY <1>1 DEF PInv, Staged
  <2> QED BY <1>1, <1>2, <1>3, <2>1, ThreadsAssumption DEF PInv, Owned, Called
<1>6. Found'
  <2>1. d \notin running /\ slotted \subseteq Events
    BY <1>1 DEF PInv, Staged, TInv, TypeOK
  <2>2. \A e \in slotted' : Placed(e)'
    BY <1>1, <1>3, <2>1 DEF PInv, Found, Placed
  <2>3. /\ \A e \in registered' : NewTimer(e)' \/ e \in scheduled' \/ Lined(e)' \/ e \in running'
        /\ \A u \in Threads : \A e \in accepted'[u] : BufferedBy(u, e)' \/ Lined(e)'
    <3>1. registered \subseteq Events /\ \A u \in Threads : accepted[u] \subseteq Events
      BY DEF TInv, TypeOK, Timers
    <3> QED BY <1>1, <1>3, <3>1 DEF PInv, Found
  <2>4. \A e \in running' : e \in slotted' \cup registered' => Kind[e] = "cycle"
    BY <1>1, <2>1 DEF PInv, Found
  <2> QED BY <2>2, <2>3, <2>4 DEF Found
<1>7. Ordered'
  <2>1. /\ \A e \in Events : ahead[e] \subseteq Events
        /\ \A u \in Threads : accepted[u] \subseteq Events
    BY DEF TInv, TypeOK
  <2> QED BY <1>1, <1>3, <2>1 DEF PInv, Ordered, InOrder
<1>8. Single' /\ (dpc' # "running" => running' = {})
  BY <1>1 DEF PInv, Single
<1> QED BY <1>4, <1>5, <1>6, <1>7, <1>8 DEF PInv

(* ... and not published when emplace_back throws.                          *)
LEMMA PInvPushFails ==
    ASSUME TInv, PInv, NEW t \in Threads, PushFails(t)
    PROVE  PInv'
<1> DEFINE d == cur[t]
<1>1. /\ d \in Events /\ slotted' = slotted \ {d} /\ cur' = [cur EXCEPT ![t] = NoEvent]
      /\ UNCHANGED <<unused, buffer, newTimers, ready, scheduled, registered, running, accepted,
                     ahead, dpc>>
  BY DEF PushFails, Release, TInv, Calls, loopVars, timerVars, passVars, history
<1> HIDE DEF d
<1>2. cur[t] = d /\ \A u \in Threads : cur'[u] = IF u = t THEN NoEvent ELSE cur[u]
  BY <1>1 DEF TInv, TypeOK, d
<1>3. \A e \in Events : /\ Called(e)' => Called(e)
                        /\ e # d => (Called(e)' <=> Called(e))
                        /\ Pushed(e)' <=> Pushed(e)
                        /\ Lined(e)' <=> Lined(e)
                        /\ NewTimer(e)' <=> NewTimer(e)
                        /\ \A u : BufferedBy(u, e)' <=> BufferedBy(u, e)
  BY <1>1, <1>2, ThreadsAssumption DEF Called, Pushed, Lined, NewTimer, BufferedBy
<1>4. \A e \in Events : Staged(e)'
  BY <1>1, <1>3 DEF PInv, Staged
<1>5. \A e \in Events : Owned(e)'
  BY <1>1, <1>2, <1>3, ThreadsAssumption DEF PInv, Owned
<1>6. Found'
  <2>1. slotted \subseteq Events /\ registered \subseteq Events
        /\ \A u \in Threads : accepted[u] \subseteq Events
    BY DEF TInv, TypeOK, Timers
  <2> QED BY <1>1, <1>3, <2>1 DEF PInv, Found, Placed
<1>7. Ordered'
  <2>1. /\ \A e \in Events : ahead[e] \subseteq Events
        /\ \A u \in Threads : accepted[u] \subseteq Events
    BY DEF TInv, TypeOK
  <2> QED BY <1>1, <1>3, <2>1 DEF PInv, Ordered, InOrder
<1>8. Single' /\ (dpc' # "running" => running' = {})
  BY <1>1 DEF PInv, Single
<1> QED BY <1>4, <1>5, <1>6, <1>7, <1>8 DEF PInv

(* A task joins its thread's buffer.                                        *)
LEMMA PInvPushTask ==
    ASSUME TInv, PInv, NEW t \in Threads, PushTask(t)
    PROVE  PInv'
<1> DEFINE d == cur[t]
           l == LaneOf[d]
<1>1. /\ d \in Events /\ d \notin Timers /\ d \in OfLane(l) /\ l \in Lanes
      /\ cur' = [cur EXCEPT ![t] = NoEvent]
      /\ buffer' = [buffer EXCEPT ![t][l] = Append(buffer[t][l], d)]
      /\ accepted' = [accepted EXCEPT ![t] = @ \cup {d}]
      /\ ahead' = [ahead EXCEPT ![d] = {f \in accepted[t] : SameQueue(f, d)}]
      /\ UNCHANGED <<unused, newTimers, ready, scheduled, registered, slotted, running, dpc>>
  BY EventsAssumption
     DEF PushTask, TInv, Calls, OfLane, loopVars, timerVars, slotVars, passVars
<1>2. cur[t] = d /\ \A u \in Threads : cur'[u] = IF u = t THEN NoEvent ELSE cur[u]
  BY <1>1 DEF TInv, TypeOK
<1> HIDE DEF d
<1>3. Called(d) /\ ~Pushed(d) /\ ~Lined(d)
  BY <1>1, <1>2 DEF Called, PInv, Staged
<1>4. /\ buffer'[t][l] = Append(buffer[t][l], d)
      /\ \A u \in Threads, k \in Lanes :
            u # t \/ k # l => buffer'[u][k] = buffer[u][k]
  BY <1>1 DEF TInv, TypeOK
<1> DEFINE q == Append(buffer[t][l], d)
<1>5. /\ IsInjective(q) /\ Range(q) = Range(buffer[t][l]) \cup {d}
      /\ \A f, e : Before(buffer[t][l], f, e) \/ (f \in Range(buffer[t][l]) /\ e = d)
                      => Before(q, f, e)
  <2>1. buffer[t][l] \in Seq(Events) /\ IsInjective(buffer[t][l])
    BY <1>1 DEF TInv, TypeOK, PInv, Single
  <2>2. d \notin Range(buffer[t][l])
    BY <1>3 DEF Pushed, BufferedBy
  <2> QED BY <1>1, <2>1, <2>2, Appended
<1> HIDE DEF q, l
<1>6. ASSUME NEW e \in Events
      PROVE  /\ \A u \in Threads : BufferedBy(u, e)' <=> BufferedBy(u, e) \/ (u = t /\ e = d)
             /\ Pushed(e)' <=> Pushed(e) \/ e = d
             /\ Called(e)' <=> Called(e) /\ e # d
             /\ Lined(e)' <=> Lined(e)
             /\ NewTimer(e)' <=> NewTimer(e)
  <2>1. \A u \in Threads : BufferedBy(u, e)' <=> BufferedBy(u, e) \/ (u = t /\ e = d)
    <3>1. LaneOf[e] \in Lanes /\ LaneOf[d] = l
      BY <1>1, EventsAssumption DEF OfLane
    <3>2. ASSUME NEW u \in Threads
          PROVE  BufferedBy(u, e)' <=> BufferedBy(u, e) \/ (u = t /\ e = d)
      <4>1. BufferedBy(u, e)' <=> e \in Range(buffer'[u][LaneOf[e]])
        BY DEF BufferedBy
      <4>2. CASE u = t /\ LaneOf[e] = l
        BY <1>4, <1>5, <4>1, <4>2 DEF BufferedBy, q
      <4>3. CASE u # t \/ LaneOf[e] # l
        BY <1>4, <3>1, <4>1, <4>3 DEF BufferedBy
      <4> QED BY <4>2, <4>3
    <3> QED BY <3>2
  <2>2. Called(e)' <=> Called(e) /\ e # d
    <3>1. \A u \in Threads : cur[u] = d => u = t
      BY <1>1, <1>2 DEF PInv, Owned
    <3> QED BY <1>2, <3>1, ThreadsAssumption DEF Called
  <2> QED BY <1>1, <2>1, <2>2 DEF Pushed, Lined, NewTimer
<1>7. \A e \in Events : Staged(e)'
  BY <1>1, <1>3, <1>6 DEF PInv, Staged
<1>8. \A e \in Events : Owned(e)'
  <2>1. \A u \in Threads : ~BufferedBy(u, d)
    BY <1>3 DEF Pushed
  <2> QED BY <1>1, <1>2, <1>6, <2>1, ThreadsAssumption DEF PInv, Owned
<1>9. \A u \in Threads : accepted'[u] = IF u = t THEN accepted[u] \cup {d} ELSE accepted[u]
  BY <1>1 DEF TInv, TypeOK
<1>10. Found'
  <2>1. slotted \subseteq Events /\ registered \subseteq Events
        /\ \A u \in Threads : accepted[u] \subseteq Events
    BY DEF TInv, TypeOK, Timers
  <2>2. \A e \in slotted' : Placed(e)'
    BY <1>1, <1>6, <2>1 DEF PInv, Found, Placed
  <2>3. \A u \in Threads : \A e \in accepted'[u] : BufferedBy(u, e)' \/ Lined(e)'
    BY <1>1, <1>6, <1>9, <2>1 DEF PInv, Found
  <2> QED BY <1>1, <1>6, <2>1, <2>2, <2>3 DEF PInv, Found
<1>11. Single'
  BY <1>1, <1>4, <1>5 DEF PInv, Single, q
<1>12. Ordered'
  <2>1. \A e \in Events : ahead'[e] = IF e = d THEN {f \in accepted[t] : SameQueue(f, d)}
                                      ELSE ahead[e]
    BY <1>1 DEF TInv, TypeOK
  <2>2. /\ \A u \in Threads : accepted[u] \subseteq Events /\ d \notin accepted[u]
        /\ \A e \in Events : ahead[e] \subseteq Events /\ d \notin ahead[e]
    <3>1. \A u \in Threads : accepted[u] \subseteq Events
      BY DEF TInv, TypeOK
    <3>2. \A u \in Threads : d \notin accepted[u]
      BY <1>3 DEF PInv, Found, Pushed
    <3> QED BY <1>3, <3>1, <3>2 DEF TInv, TypeOK, PInv, Ordered
  <2>3. ASSUME NEW u \in Threads, NEW e \in accepted'[u], NEW f \in ahead'[e] \cap accepted'[u]
        PROVE  SameQueue(f, e) /\ InOrder(u, f, e)'
    <3>1. CASE e = d
      <4>1. u = t /\ f \in accepted[t] /\ SameQueue(f, d)
        <5>1. ahead'[d] = {g \in accepted[t] : SameQueue(g, d)}
          BY <1>1, <2>1
        <5>2. u = t
          BY <1>9, <2>2, <3>1
        <5> QED BY <3>1, <5>1, <5>2
      <4>2. f \in Events /\ LaneOf[f] = l /\ LaneOf[d] = l
        BY <1>1, <2>2, <4>1 DEF SameQueue, OfLane
      <4>3. BufferedBy(t, f) \/ Lined(f)
        BY <4>1 DEF PInv, Found
      <4>4. CASE BufferedBy(t, f)
        <5>1. Before(buffer'[t][l], f, d)
          BY <1>4, <1>5, <4>2, <4>4 DEF BufferedBy, q
        <5> QED BY <3>1, <4>1, <4>2, <5>1 DEF InOrder
      <4>5. CASE Lined(f)
        <5>1. f \in Range(ready'[l]) /\ d \in Range(buffer'[t][l])
          BY <1>1, <1>4, <1>5, <4>2, <4>5 DEF Lined, q
        <5> QED BY <3>1, <4>1, <4>2, <5>1 DEF InOrder
      <4> QED BY <4>3, <4>4, <4>5
    <3>2. CASE e # d
      <4>1. /\ e \in accepted[u] /\ e \in Events /\ f \in ahead[e] /\ f # d
            /\ f \in accepted[u] /\ LaneOf[e] \in Lanes
        <5>1. e \in accepted[u] /\ e \in Events
          BY <1>9, <2>2, <3>2
        <5>2. f \in ahead[e]
          BY <2>1, <3>2, <5>1
        <5> QED BY <1>9, <2>2, <5>1, <5>2, EventsAssumption
      <4>2. SameQueue(f, e) /\ InOrder(u, f, e)
        BY <4>1 DEF PInv, Ordered
      <4>3. /\ Before(buffer[u][LaneOf[e]], f, e) => Before(buffer'[u][LaneOf[e]], f, e)
            /\ e \in Range(buffer[u][LaneOf[e]]) => e \in Range(buffer'[u][LaneOf[e]])
        BY <1>4, <1>5, <4>1 DEF q
      <4> QED BY <1>1, <4>2, <4>3 DEF InOrder
    <3> QED BY <3>1, <3>2
  <2>4. \A e \in Events : \A f \in ahead'[e] : f \notin unused' /\ ~Called(f)'
    <3>1. \A f \in accepted[t] : f \notin unused /\ ~Called(f)
      BY <2>2 DEF PInv, Found, Pushed, Staged
    <3> QED BY <1>1, <1>6, <2>1, <2>2, <3>1 DEF PInv, Ordered
  <2> QED BY <2>3, <2>4 DEF Ordered
<1> QED BY <1>1, <1>7, <1>8, <1>10, <1>11, <1>12 DEF PInv

(* A timer joins its thread's new timers.                                   *)
LEMMA PInvPushTimer ==
    ASSUME TInv, PInv, NEW t \in Threads, PushTimer(t)
    PROVE  PInv'
<1> DEFINE d == cur[t]
<1>1. /\ d \in Events /\ d \in Timers
      /\ cur' = [cur EXCEPT ![t] = NoEvent]
      /\ newTimers' = [newTimers EXCEPT ![t] = @ \cup {d}]
      /\ registered' \subseteq registered \cup {d}
      /\ UNCHANGED <<unused, buffer, ready, scheduled, slotted, running, dpc, accepted, ahead>>
  BY DEF PushTimer, TInv, Calls, Timers, loopVars, slotVars, passVars, history
<1>2. cur[t] = d /\ \A u \in Threads : cur'[u] = IF u = t THEN NoEvent ELSE cur[u]
  BY <1>1 DEF TInv, TypeOK
<1> HIDE DEF d
<1>3. Called(d) /\ ~NewTimer(d) /\ d \notin running
  BY <1>1, <1>2 DEF Called, PInv, Staged
<1>4. \A u \in Threads : newTimers'[u] = IF u = t THEN newTimers[u] \cup {d} ELSE newTimers[u]
  BY <1>1 DEF TInv, TypeOK
<1>5. ASSUME NEW e \in Events
      PROVE  /\ \A u \in Threads : BufferedBy(u, e)' <=> BufferedBy(u, e)
             /\ Pushed(e)' <=> Pushed(e)
             /\ Called(e)' <=> Called(e) /\ e # d
             /\ Lined(e)' <=> Lined(e)
             /\ NewTimer(e)' <=> NewTimer(e) \/ e = d
  <2>1. Called(e)' <=> Called(e) /\ e # d
    <3>1. \A u \in Threads : cur[u] = d => u = t
      BY <1>1, <1>2 DEF PInv, Owned
    <3> QED BY <1>2, <3>1, ThreadsAssumption DEF Called
  <2>2. NewTimer(e)' <=> NewTimer(e) \/ e = d
    BY <1>4 DEF NewTimer
  <2> QED BY <1>1, <2>1, <2>2 DEF Pushed, BufferedBy, Lined
<1>6. \A e \in Events : Staged(e)'
  BY <1>1, <1>3, <1>5 DEF PInv, Staged
<1>7. \A e \in Events : Owned(e)'
  BY <1>1, <1>2, <1>3, <1>4, <1>5, ThreadsAssumption DEF PInv, Owned, NewTimer
<1>8. Found'
  <2>1. slotted \subseteq Events /\ registered \subseteq Events
        /\ \A u \in Threads : accepted[u] \subseteq Events
    BY DEF TInv, TypeOK, Timers
  <2>2. \A e \in slotted' : Placed(e)'
    BY <1>1, <1>5, <2>1 DEF PInv, Found, Placed
  <2>3. \A e \in registered' : NewTimer(e)' \/ e \in scheduled' \/ Lined(e)' \/ e \in running'
    BY <1>1, <1>5, <2>1 DEF PInv, Found
  <2>4. \A e \in running' : e \in slotted' \cup registered' => Kind[e] = "cycle"
    BY <1>1, <1>3 DEF PInv, Found
  <2>5. \A u \in Threads : \A e \in accepted'[u] : BufferedBy(u, e)' \/ Lined(e)'
    BY <1>1, <1>5, <2>1 DEF PInv, Found
  <2> QED BY <2>2, <2>3, <2>4, <2>5 DEF Found
<1>9. Ordered'
  <2>1. \A e \in Events : ahead[e] \subseteq Events
    BY DEF TInv, TypeOK
  <2> QED BY <1>1, <1>5, <2>1 DEF PInv, Ordered, InOrder
<1>10. Single' /\ (dpc' # "running" => running' = {})
  BY <1>1 DEF PInv, Single
<1> QED BY <1>6, <1>7, <1>8, <1>9, <1>10 DEF PInv

(* A queue, and only members of its lane are in it.                         *)
LEMMA Queues ==
    ASSUME TInv, PInv, NEW l \in Lanes
    PROVE  /\ ready[l] \in Seq(OfLane(l)) /\ IsInjective(ready[l])
           /\ Range(ready[l]) \subseteq OfLane(l)
           /\ \A t \in Threads : /\ buffer[t][l] \in Seq(OfLane(l)) /\ IsInjective(buffer[t][l])
                                 /\ Range(buffer[t][l]) \subseteq OfLane(l)
<1>1. ready[l] \in Seq(OfLane(l)) /\ IsInjective(ready[l])
  BY DEF TInv, Sorted, PInv, Single
<1>2. Range(ready[l]) \subseteq OfLane(l)
  BY <1>1 DEF Range
<1>3. ASSUME NEW t \in Threads
      PROVE  /\ buffer[t][l] \in Seq(OfLane(l)) /\ IsInjective(buffer[t][l])
             /\ Range(buffer[t][l]) \subseteq OfLane(l)
  <2>1. buffer[t][l] \in Seq(OfLane(l) \ Timers) /\ OfLane(l) \ Timers \subseteq OfLane(l)
    BY DEF TInv, Sorted
  <2>2. buffer[t][l] \in Seq(OfLane(l))
    BY <2>1, SeqMonotonic
  <2> QED BY <2>2 DEF Range, PInv, Single
<1> QED BY <1>1, <1>2, <1>3

(* A buffer joins its lane behind what waits there.                         *)
LEMMA MergedQueue ==
    ASSUME TInv, PInv, NEW t \in Threads, MergeThread(t), NEW l \in Lanes
    PROVE  /\ IsInjective(ready'[l])
           /\ Range(ready'[l]) = Range(ready[l]) \cup Range(buffer[t][l])
           /\ \A f, e : Before(ready[l], f, e) \/ Before(buffer[t][l], f, e)
                           \/ (f \in Range(ready[l]) /\ e \in Range(buffer[t][l]))
                              => Before(ready'[l], f, e)
<1>1. /\ ready[l] \in Seq(OfLane(l)) /\ buffer[t][l] \in Seq(OfLane(l))
      /\ IsInjective(ready[l]) /\ IsInjective(buffer[t][l])
      /\ Range(ready[l]) \subseteq OfLane(l) /\ Range(buffer[t][l]) \subseteq OfLane(l)
  BY Queues
<1>2. Range(ready[l]) \cap Range(buffer[t][l]) = {}
  BY <1>1 DEF PInv, Staged, Lined, Pushed, BufferedBy, OfLane
<1> DEFINE r == ready[l]
           s == buffer[t][l]
<1>3. ready'[l] = r \o s
  BY DEF MergeThread
<1> HIDE DEF r, s
<1>4. /\ IsInjective(r \o s) /\ Range(r \o s) = Range(r) \cup Range(s)
      /\ \A f, e : Before(r, f, e) \/ Before(s, f, e) \/ (f \in Range(r) /\ e \in Range(s))
                      => Before(r \o s, f, e)
  BY <1>1, <1>2, Joined DEF r, s
<1> QED BY <1>3, <1>4 DEF r, s

(* The merge takes over what a thread has published.                        *)
LEMMA PInvMergeThread ==
    ASSUME TInv, PInv, NEW t \in Threads, MergeThread(t)
    PROVE  PInv'
<1>1. /\ \A l \in Lanes : ready'[l] = ready[l] \o buffer[t][l]
      /\ \A u \in Threads, l \in Lanes : buffer'[u][l] = IF u = t THEN <<>> ELSE buffer[u][l]
      /\ \A u \in Threads : newTimers'[u] = IF u = t THEN {} ELSE newTimers[u]
      /\ scheduled' = scheduled \cup newTimers[t]
      /\ UNCHANGED <<cur, unused, registered, slotted, running, accepted, ahead>>
      /\ dpc # "running"
  BY DEF MergeThread, TInv, TypeOK, slotVars, passVars, history
<1>2. ASSUME NEW l \in Lanes
      PROVE  /\ IsInjective(ready'[l])
             /\ Range(ready'[l]) = Range(ready[l]) \cup Range(buffer[t][l])
             /\ \A f, e : Before(ready[l], f, e) \/ Before(buffer[t][l], f, e)
                             \/ (f \in Range(ready[l]) /\ e \in Range(buffer[t][l]))
                                => Before(ready'[l], f, e)
  BY MergedQueue
<1>3. Range(<<>>) = {} /\ IsInjective(<<>>)
  BY DEF Range, IsInjective
<1>4. ASSUME NEW e \in Events
      PROVE  /\ \A u \in Threads : BufferedBy(u, e)' <=> BufferedBy(u, e) /\ u # t
             /\ Lined(e)' <=> Lined(e) \/ BufferedBy(t, e)
             /\ Called(e)' <=> Called(e)
             /\ \A u \in Threads : e \in newTimers'[u] <=> e \in newTimers[u] /\ u # t
             /\ e \in scheduled' <=> e \in scheduled \/ e \in newTimers[t]
  <2>1. LaneOf[e] \in Lanes
    BY EventsAssumption
  <2>2. \A u \in Threads : BufferedBy(u, e)' <=> BufferedBy(u, e) /\ u # t
    BY <1>1, <1>3, <2>1 DEF BufferedBy
  <2>3. Lined(e)' <=> Lined(e) \/ BufferedBy(t, e)
    BY <1>2, <2>1 DEF Lined, BufferedBy
  <2> QED BY <1>1, <2>2, <2>3 DEF Called
<1>5. \A e \in Events : Staged(e)'
  BY <1>1, <1>4 DEF PInv, Staged, Owned, Pushed, NewTimer
<1>6. \A e \in Events : Owned(e)'
  BY <1>1, <1>4 DEF PInv, Owned
<1>7. Found'
  <2>1. slotted \subseteq Events /\ registered \subseteq Events
        /\ \A u \in Threads : accepted[u] \subseteq Events
    BY DEF TInv, TypeOK, Timers
  <2>2. \A e \in Events : /\ Pushed(e)' \/ Lined(e)' <=> Pushed(e) \/ Lined(e)
                          /\ NewTimer(e)' \/ e \in scheduled' <=> NewTimer(e) \/ e \in scheduled
    BY <1>4 DEF Pushed, NewTimer
  <2>3. \A e \in slotted' : Placed(e)'
    BY <1>1, <1>4, <2>1, <2>2 DEF PInv, Found, Placed
  <2>4. \A e \in registered' : NewTimer(e)' \/ e \in scheduled' \/ Lined(e)' \/ e \in running'
    BY <1>1, <1>4, <2>1, <2>2 DEF PInv, Found
  <2>5. \A u \in Threads : \A e \in accepted'[u] : BufferedBy(u, e)' \/ Lined(e)'
    BY <1>1, <1>4, <2>1 DEF PInv, Found
  <2> QED BY <1>1, <2>3, <2>4, <2>5 DEF PInv, Found
<1>8. Single'
  BY <1>1, <1>2, <1>3 DEF PInv, Single
<1>9. Ordered'
  <2>1. ASSUME NEW u \in Threads, NEW e \in accepted[u], NEW f \in ahead[e] \cap accepted[u]
        PROVE  SameQueue(f, e) /\ InOrder(u, f, e)'
    <3>1. LaneOf[e] \in Lanes
      BY EventsAssumption DEF TInv, TypeOK
    <3>2. SameQueue(f, e) /\ InOrder(u, f, e)
      BY DEF PInv, Ordered
    <3> QED BY <1>1, <1>2, <3>1, <3>2 DEF InOrder
  <2>2. \A e \in Events : \A f \in ahead[e] : f \notin unused /\ ~Called(f)'
    BY <1>1 DEF PInv, Ordered, Called
  <2> QED BY <1>1, <2>1, <2>2 DEF Ordered
<1>10. running' = {}
  BY <1>1 DEF PInv
<1> QED BY <1>5, <1>6, <1>7, <1>8, <1>9, <1>10 DEF PInv

(* A set in a row.                                                          *)
LEMMA InARow ==
    ASSUME NEW S, IsFiniteSet(S), NEW q \in Orders(S)
    PROVE  q \in Seq(S) /\ IsInjective(q) /\ Range(q) = S
<1>1. q \in [1..Cardinality(S) -> S] /\ Cardinality(S) \in Nat
  BY FS_CardinalityType DEF Orders
<1>2. q \in Seq(S) /\ Range(q) \subseteq S
  BY <1>1 DEF Range
<1>3. \A e \in S : \E i \in DOMAIN q : \A j \in DOMAIN q : q[j] = e <=> j = i
  BY DEF Orders
<1>4. \A i \in DOMAIN q : q[i] \in S
  BY <1>1
<1> QED BY <1>2, <1>3, <1>4 DEF IsInjective, Range

(* The due timers of a lane join it behind what waits there.                *)
LEMMA PromotedQueue ==
    ASSUME TInv, PInv, NEW due \in SUBSET Timers, Promote(due), NEW l \in Lanes
    PROVE  /\ IsInjective(ready'[l])
           /\ Range(ready'[l]) = Range(ready[l]) \cup {e \in due : LaneOf[e] = l}
           /\ \A f, e : Before(ready[l], f, e) => Before(ready'[l], f, e)
<1> DEFINE Due == {e \in due : LaneOf[e] = l}
<1>1. PICK row \in Orders(Due) : ready'[l] = ready[l] \o row
  BY DEF Promote
<1>2. Due \subseteq OfLane(l) /\ IsFiniteSet(Due) /\ due \subseteq Events
  <2>1. Due \subseteq OfLane(l) /\ Due \subseteq Events /\ due \subseteq Events
    BY DEF Timers, OfLane
  <2> QED BY <2>1, ThreadsAssumption, FS_Subset
<1>3. Range(ready[l]) \cap Due = {}
  <2>1. \A e \in due : ~Lined(e)
    BY <1>2 DEF Promote, PInv, Staged
  <2> QED BY <2>1 DEF Lined
<1> HIDE DEF Due
<1>4. row \in Seq(Due) /\ IsInjective(row) /\ Range(row) = Due
  BY <1>1, <1>2, InARow
<1>5. row \in Seq(OfLane(l))
  BY <1>2, <1>4, SeqMonotonic
<1>6. ready[l] \in Seq(OfLane(l)) /\ IsInjective(ready[l])
  BY Queues
<1> QED BY <1>1, <1>3, <1>4, <1>5, <1>6, Joined DEF Due

(* The due timers join their lanes.                                         *)
LEMMA PInvPromote ==
    ASSUME TInv, PInv, NEW due \in SUBSET Timers, Promote(due)
    PROVE  PInv'
<1> DEFINE DueOf(l) == {e \in due : LaneOf[e] = l}
<1>1. /\ due \subseteq scheduled /\ scheduled' = scheduled \ due
      /\ UNCHANGED <<cur, unused, buffer, newTimers, registered, slotted, running, accepted, ahead>>
      /\ dpc # "running"
  BY DEF Promote, Undue, threadVars, slotVars, history
<1>2. ASSUME NEW l \in Lanes
      PROVE  /\ IsInjective(ready'[l])
             /\ Range(ready'[l]) = Range(ready[l]) \cup DueOf(l)
             /\ \A f, e : Before(ready[l], f, e) => Before(ready'[l], f, e)
  BY PromotedQueue
<1>3. ASSUME NEW e \in Events
      PROVE  /\ \A u \in Threads : BufferedBy(u, e)' <=> BufferedBy(u, e)
             /\ Pushed(e)' <=> Pushed(e)
             /\ Lined(e)' <=> Lined(e) \/ e \in due
             /\ Called(e)' <=> Called(e)
             /\ NewTimer(e)' <=> NewTimer(e)
             /\ e \in scheduled' <=> e \in scheduled /\ e \notin due
  <2>1. LaneOf[e] \in Lanes
    BY EventsAssumption
  <2>2. Lined(e)' <=> Lined(e) \/ e \in due
    BY <1>2, <2>1 DEF Lined
  <2> QED BY <1>1, <2>2 DEF Called, Pushed, BufferedBy, NewTimer
<1>4. \A e \in Events : Staged(e)'
  BY <1>1, <1>3 DEF PInv, Staged
<1>5. \A e \in Events : Owned(e)'
  BY <1>1, <1>3 DEF PInv, Owned
<1>6. Found'
  <2>1. slotted \subseteq Events /\ registered \subseteq Events
        /\ \A u \in Threads : accepted[u] \subseteq Events
    BY DEF TInv, TypeOK, Timers
  <2>2. \A e \in slotted' : Placed(e)'
    BY <1>1, <1>3, <2>1 DEF PInv, Found, Placed
  <2>3. \A e \in registered' : NewTimer(e)' \/ e \in scheduled' \/ Lined(e)' \/ e \in running'
    BY <1>1, <1>3, <2>1 DEF PInv, Found
  <2>4. \A u \in Threads : \A e \in accepted'[u] : BufferedBy(u, e)' \/ Lined(e)'
    BY <1>1, <1>3, <2>1 DEF PInv, Found
  <2> QED BY <1>1, <2>2, <2>3, <2>4 DEF PInv, Found
<1>7. Single'
  BY <1>1, <1>2 DEF PInv, Single
<1>8. Ordered'
  <2>1. ASSUME NEW u \in Threads, NEW e \in accepted[u], NEW f \in ahead[e] \cap accepted[u]
        PROVE  SameQueue(f, e) /\ InOrder(u, f, e)'
    <3>1. LaneOf[e] \in Lanes
      BY EventsAssumption DEF TInv, TypeOK
    <3>2. SameQueue(f, e) /\ InOrder(u, f, e)
      BY DEF PInv, Ordered
    <3> HIDE DEF DueOf
    <3> QED BY <1>1, <1>2, <3>1, <3>2 DEF InOrder
  <2>2. \A e \in Events : \A f \in ahead[e] : f \notin unused /\ ~Called(f)'
    BY <1>1 DEF PInv, Ordered, Called
  <2> QED BY <1>1, <2>1, <2>2 DEF Ordered
<1>9. running' = {}
  BY <1>1 DEF PInv
<1> QED BY <1>4, <1>5, <1>6, <1>7, <1>8, <1>9 DEF PInv

(* A task that is taken from a serial lane is the first of its queue there. *)
LEMMA FirstIsTaken ==
    ASSUME TInv, PInv, NEW l \in Lanes, RunSerial(l),
           NEW f, Before(ready[l], f, ready[l][NextIndex(l)])
    PROVE  ~SameQueue(f, ready[l][NextIndex(l)])
<1> DEFINE i == NextIndex(l)
           d == ready[l][i]
<1>1. /\ i \in DOMAIN ready[l]
      /\ \A j \in DOMAIN ready[l] :
            SameQueue(ready[l][j], d) => LaneOf[ready[l][j]] # l \/ i <= j
  BY NextIsFirst DEF RunSerial, Eligible, TInv
<1>2. /\ ready[l] \in Seq(OfLane(l)) /\ IsInjective(ready[l]) /\ Range(ready[l]) \subseteq OfLane(l)
  BY Queues
<1>3. PICK j \in DOMAIN ready[l], k \in DOMAIN ready[l] :
            j < k /\ ready[l][j] = f /\ ready[l][k] = d
  BY DEF Before
<1> HIDE DEF i
<1>4. k = i
  BY <1>1, <1>2, <1>3 DEF IsInjective
<1>5. LaneOf[f] = l
  BY <1>2, <1>3 DEF Range, OfLane
<1>6. i \in Nat /\ j \in Nat
  BY <1>1, <1>2
<1>7. ~(i <= j)
  BY <1>3, <1>4, <1>6
<1> QED BY <1>1, <1>3, <1>5, <1>7 DEF i

(* A task of a serial lane starts or is dropped.                            *)
LEMMA PInvRunSerial ==
    ASSUME TInv, PInv, NEW l \in Lanes, RunSerial(l)
    PROVE  PInv'
<1> DEFINE i == NextIndex(l)
           d == ready[l][i]
           q == RemoveAt(ready[l], i)
<1>1. /\ ready' = [ready EXCEPT ![l] = q]
      /\ running' \subseteq {d} /\ (KeepsSlot(d) => running' = {d}) /\ dpc' = "running"
      /\ \/ KeepsSlot(d) /\ slotted' = slotted /\ registered' = registered
         \/ /\ ~KeepsSlot(d) /\ slotted' = slotted \ {d} /\ registered' \subseteq registered
            /\ d \in Timers => d \notin registered'
      /\ accepted' = [t \in Threads |-> accepted[t] \ {d}]
      /\ UNCHANGED <<cur, unused, buffer, newTimers, scheduled, ahead>>
  <2>1. KeepsSlot(d) => (d \notin canceled /\ d \in Timers) \/ d \notin Events
    BY DEF KeepsSlot, Timers
  <2>2. d \in Events
    BY NextIsFirst DEF RunSerial, Eligible, TInv, TypeOK
  <2> HIDE DEF d, q, i
  <2>3. KeepsSlot(d) => ~MayExpire(d) /\ {d} \cap canceled = {}
    BY <2>1, <2>2 DEF MayExpire
  <2>4. \/ KeepsSlot(d) /\ slotted' = slotted /\ registered' = registered
        \/ ~KeepsSlot(d) /\ slotted' = slotted \ {d} /\ Forget({d} \cap Timers)
    BY DEF RunSerial, slotVars, Release, d, i
  <2>5. Forget({d} \cap Timers) => registered' \subseteq registered
                                   /\ (d \in Timers => d \notin registered')
    BY DEF Forget
  <2>6. \/ Start({d}, {d} \cap canceled)
        \/ MayExpire(d) /\ Start({d}, {d})
    BY DEF RunSerial, d, i
  <2>7. /\ running' \subseteq {d} /\ (KeepsSlot(d) => running' = {d}) /\ dpc' = "running"
        /\ accepted' = [t \in Threads |-> accepted[t] \ {d}]
    BY <2>3, <2>6 DEF Start
  <2> QED BY <2>4, <2>5, <2>7 DEF RunSerial, threadVars, d, q, i
<1>2. /\ dpc # "running" /\ i \in DOMAIN ready[l] /\ ready[l] # <<>>
      /\ \A j \in DOMAIN ready[l] :
            SameQueue(ready[l][j], d) => LaneOf[ready[l][j]] # l \/ i <= j
  BY NextIsFirst DEF RunSerial, Eligible, TInv
<1>3. /\ ready[l] \in Seq(OfLane(l)) /\ IsInjective(ready[l]) /\ Range(ready[l]) \subseteq OfLane(l)
  BY Queues
<1>4. d \in Range(ready[l]) /\ d \in Events /\ LaneOf[d] = l /\ Lined(d)
  BY <1>2, <1>3 DEF Range, OfLane, Lined
<1>5. /\ IsInjective(q) /\ Range(q) = Range(ready[l]) \ {d}
      /\ \A f, e : Before(ready[l], f, e) /\ f # d /\ e # d => Before(q, f, e)
  BY <1>2, <1>3, TakenOut
<1>6. \A f : Before(ready[l], f, d) => ~SameQueue(f, d)
  BY FirstIsTaken
<1> HIDE DEF i, d, q
<1>7. \A k \in Lanes : ready'[k] = IF k = l THEN q ELSE ready[k]
  BY <1>1 DEF TInv, TypeOK
<1>8. ASSUME NEW e \in Events
      PROVE  /\ \A u \in Threads : BufferedBy(u, e)' <=> BufferedBy(u, e)
             /\ Pushed(e)' <=> Pushed(e)
             /\ Lined(e)' <=> Lined(e) /\ e # d
             /\ Called(e)' <=> Called(e)
             /\ NewTimer(e)' <=> NewTimer(e)
  <2>1. LaneOf[e] \in Lanes
    BY EventsAssumption
  <2>2. Lined(e)' <=> Lined(e) /\ e # d
    BY <1>4, <1>5, <1>7, <2>1 DEF Lined
  <2> QED BY <1>1, <2>2 DEF Called, Pushed, BufferedBy, NewTimer
<1>9. \A e \in Events : Staged(e)'
  BY <1>1, <1>4, <1>8 DEF PInv, Staged
<1>10. \A e \in Events : Owned(e)'
  BY <1>1, <1>8 DEF PInv, Owned
<1>11. Found'
  <2>1. slotted \subseteq Events /\ registered \subseteq Timers /\ registered \subseteq Events
        /\ \A u \in Threads : accepted[u] \subseteq Events
    BY DEF TInv, TypeOK, Timers
  <2>2. running = {}
    BY <1>2 DEF PInv
  <2>3. \A e \in slotted' : Placed(e)'
    BY <1>1, <1>8, <2>1, <2>2 DEF PInv, Found, Placed
  <2>4. \A e \in registered' : NewTimer(e)' \/ e \in scheduled' \/ Lined(e)' \/ e \in running'
    BY <1>1, <1>8, <2>1, <2>2 DEF PInv, Found
  <2>5. \A e \in running' : e \in slotted' \cup registered' => Kind[e] = "cycle"
    BY <1>1, <2>1 DEF KeepsSlot
  <2>6. \A u \in Threads : \A e \in accepted'[u] : BufferedBy(u, e)' \/ Lined(e)'
    BY <1>1, <1>8, <2>1 DEF PInv, Found
  <2> QED BY <2>3, <2>4, <2>5, <2>6 DEF Found
<1>12. Single'
  BY <1>1, <1>5, <1>7 DEF PInv, Single
<1>13. Ordered'
  <2>1. ASSUME NEW u \in Threads, NEW e \in accepted'[u], NEW f \in ahead[e] \cap accepted'[u]
        PROVE  SameQueue(f, e) /\ InOrder(u, f, e)'
    <3>1. /\ e \in accepted[u] /\ f \in accepted[u] /\ e # d /\ f # d
          /\ e \in Events /\ f \in Events
      BY <1>1 DEF TInv, TypeOK
    <3>2. LaneOf[e] \in Lanes
      BY <3>1, EventsAssumption
    <3>3. SameQueue(f, e) /\ InOrder(u, f, e)
      BY <3>1 DEF PInv, Ordered
    <3> QED BY <1>1, <1>5, <1>7, <3>1, <3>2, <3>3 DEF InOrder
  <2>2. \A e \in Events : \A f \in ahead[e] : f \notin unused /\ ~Called(f)'
    BY <1>1 DEF PInv, Ordered, Called
  <2> QED BY <1>1, <2>1, <2>2 DEF Ordered
<1> QED BY <1>1, <1>9, <1>10, <1>11, <1>12, <1>13 DEF PInv

(* A barrier takes the first tasks of its lane.                             *)
LEMMA BarrierTakes ==
    ASSUME TInv, PInv, NEW l \in Lanes, NEW n \in 1..Min({Len(ready[l]), Budget - served[l]})
    PROVE  LET S == FirstOf(ready[l], n)
               q == RestOf(ready[l], n)
           IN  /\ IsInjective(q) /\ Range(q) = Range(ready[l]) \ S
               /\ S \subseteq Range(ready[l]) /\ S \subseteq OfLane(l)
               /\ \A f, e : Before(ready[l], f, e) =>
                     /\ f \notin S /\ e \notin S => Before(q, f, e)
                     /\ e \in S => f \in S
<1>1. ready[l] \in Seq(OfLane(l)) /\ IsInjective(ready[l]) /\ Range(ready[l]) \subseteq OfLane(l)
  BY Queues
<1>2. n \in 1..Len(ready[l])
  BY SliceFits DEF TInv
<1> QED BY <1>1, <1>2, FirstOut

(* The first tasks of a barrier lane start together.                        *)
LEMMA PInvRunBarrier ==
    ASSUME TInv, PInv, NEW l \in Lanes, RunBarrier(l)
    PROVE  PInv'
<1>1. PICK n \in 1..Min({Len(ready[l]), Budget - served[l]}) :
            /\ ready' = [ready EXCEPT ![l] = RestOf(ready[l], n)]
            /\ Release(FirstOf(ready[l], n))
            /\ Start(FirstOf(ready[l], n), {})
  BY DEF RunBarrier, FirstOf, RestOf
<1> DEFINE S == FirstOf(ready[l], n)
           q == RestOf(ready[l], n)
<1>2. /\ running' = S /\ dpc' = "running" /\ slotted' = slotted \ S
      /\ accepted' = [t \in Threads |-> accepted[t] \ S]
      /\ UNCHANGED <<cur, unused, buffer, newTimers, scheduled, registered, ahead>>
      /\ dpc # "running" /\ l \in BarrierLanes
  BY <1>1 DEF RunBarrier, Release, Start, threadVars, timerVars
<1>3. /\ IsInjective(q) /\ Range(q) = Range(ready[l]) \ S
      /\ S \subseteq Range(ready[l]) /\ S \subseteq OfLane(l)
      /\ \A f, e : Before(ready[l], f, e) =>
            /\ f \notin S /\ e \notin S => Before(q, f, e)
            /\ e \in S => f \in S
  BY BarrierTakes
<1>4. S \subseteq Events /\ \A e \in S : LaneOf[e] = l /\ Lined(e) /\ e \notin Timers
  BY <1>2, <1>3, EventsAssumption DEF OfLane, Lined, Timers
<1>5. \A k \in Lanes : ready'[k] = IF k = l THEN q ELSE ready[k]
  BY <1>1 DEF TInv, TypeOK
<1> HIDE DEF S, q
<1>6. ASSUME NEW e \in Events
      PROVE  /\ \A u \in Threads : BufferedBy(u, e)' <=> BufferedBy(u, e)
             /\ Pushed(e)' <=> Pushed(e)
             /\ Lined(e)' <=> Lined(e) /\ e \notin S
             /\ Called(e)' <=> Called(e)
             /\ NewTimer(e)' <=> NewTimer(e)
  <2>1. LaneOf[e] \in Lanes
    BY EventsAssumption
  <2>2. Lined(e)' <=> Lined(e) /\ e \notin S
    BY <1>3, <1>4, <1>5, <2>1 DEF Lined
  <2> QED BY <1>2, <2>2 DEF Called, Pushed, BufferedBy, NewTimer
<1>7. \A e \in Events : Staged(e)'
  BY <1>2, <1>4, <1>6 DEF PInv, Staged
<1>8. \A e \in Events : Owned(e)'
  BY <1>2, <1>6 DEF PInv, Owned
<1>9. Found'
  <2>1. slotted \subseteq Events /\ registered \subseteq Timers /\ registered \subseteq Events
        /\ \A u \in Threads : accepted[u] \subseteq Events
    BY DEF TInv, TypeOK, Timers
  <2>2. running = {}
    BY <1>2 DEF PInv
  <2>3. \A e \in slotted' : Placed(e)'
    BY <1>2, <1>6, <2>1, <2>2 DEF PInv, Found, Placed
  <2>4. \A e \in registered' : NewTimer(e)' \/ e \in scheduled' \/ Lined(e)' \/ e \in running'
    BY <1>2, <1>6, <2>1, <2>2 DEF PInv, Found
  <2>5. \A e \in running' : e \in slotted' \cup registered' => Kind[e] = "cycle"
    BY <1>2, <1>4, <2>1
  <2>6. \A u \in Threads : \A e \in accepted'[u] : BufferedBy(u, e)' \/ Lined(e)'
    BY <1>2, <1>6, <2>1 DEF PInv, Found
  <2> QED BY <2>3, <2>4, <2>5, <2>6 DEF Found
<1>10. Single'
  BY <1>2, <1>3, <1>5 DEF PInv, Single
<1>11. Ordered'
  <2>1. ASSUME NEW u \in Threads, NEW e \in accepted'[u], NEW f \in ahead[e] \cap accepted'[u]
        PROVE  SameQueue(f, e) /\ InOrder(u, f, e)'
    <3>1. /\ e \in accepted[u] /\ f \in accepted[u] /\ e \notin S /\ f \notin S
          /\ e \in Events /\ f \in Events
      BY <1>2 DEF TInv, TypeOK
    <3>2. LaneOf[e] \in Lanes
      BY <3>1, EventsAssumption
    <3>3. SameQueue(f, e) /\ InOrder(u, f, e)
      BY <3>1 DEF PInv, Ordered
    <3> QED BY <1>2, <1>3, <1>5, <3>1, <3>2, <3>3 DEF InOrder
  <2>2. \A e \in Events : \A f \in ahead[e] : f \notin unused /\ ~Called(f)'
    BY <1>2 DEF PInv, Ordered, Called
  <2> QED BY <1>2, <2>1, <2>2 DEF Ordered
<1> QED BY <1>2, <1>7, <1>8, <1>9, <1>10, <1>11 DEF PInv

(* The tasks return, and cycles are armed again.                            *)
LEMMA PInvFinish ==
    ASSUME TInv, PInv, Finish
    PROVE  PInv'
<1> DEFINE cycles == {e \in running : Kind[e] = "cycle"}
<1>1. /\ scheduled' = scheduled \cup (cycles \ canceled)
      /\ registered' \subseteq registered
      /\ \A e \in cycles \cap canceled : e \notin registered'
      /\ slotted' = slotted \ (cycles \cap canceled)
      /\ running' = {}
      /\ UNCHANGED <<cur, unused, buffer, newTimers, ready, accepted, ahead>>
  BY DEF Finish, Forget, Release, threadVars, history
<1>2. ASSUME NEW e \in Events
      PROVE  /\ \A u \in Threads : BufferedBy(u, e)' <=> BufferedBy(u, e)
             /\ Pushed(e)' <=> Pushed(e)
             /\ Lined(e)' <=> Lined(e)
             /\ Called(e)' <=> Called(e)
             /\ NewTimer(e)' <=> NewTimer(e)
  BY <1>1 DEF Called, Pushed, BufferedBy, NewTimer, Lined
<1>3. \A e \in Events : Staged(e)'
  BY <1>1, <1>2 DEF PInv, Staged
<1>4. \A e \in Events : Owned(e)'
  BY <1>1, <1>2 DEF PInv, Owned
<1>5. Found'
  <2>1. slotted \subseteq Events /\ registered \subseteq Events
        /\ \A u \in Threads : accepted[u] \subseteq Events
    BY DEF TInv, TypeOK, Timers
  <2>2. \A e \in slotted' : Placed(e)'
    BY <1>1, <1>2, <2>1 DEF PInv, Found, Placed
  <2>3. \A e \in registered' : NewTimer(e)' \/ e \in scheduled' \/ Lined(e)' \/ e \in running'
    BY <1>1, <1>2, <2>1 DEF PInv, Found
  <2>4. \A u \in Threads : \A e \in accepted'[u] : BufferedBy(u, e)' \/ Lined(e)'
    BY <1>1, <1>2, <2>1 DEF PInv, Found
  <2> QED BY <1>1, <2>2, <2>3, <2>4 DEF Found
<1>6. Ordered'
  <2>1. \A e \in Events : ahead[e] \subseteq Events
    BY DEF TInv, TypeOK
  <2> QED BY <1>1, <1>2, <2>1 DEF PInv, Ordered, InOrder
<1>7. Single'
  BY <1>1 DEF PInv, Single
<1> QED BY <1>1, <1>3, <1>4, <1>5, <1>6, <1>7 DEF PInv

(* The remaining steps move no task.                                        *)
LEMMA PInvRest ==
    ASSUME PInv,
           \/ \E t \in Threads : \/ TakeNumber(t) \/ SetUnmerged(t) \/ Notify(t)
                                 \/ SetPending(t) \/ WakeDispatcher(t)
           \/ \E c \in Compute : ComputeNext(c)
           \/ \E e \in Timers : StopEvent(e)
           \/ BeginShutdown \/ EndShutdown \/ UNCHANGED vars
           \/ LoopTop \/ BeginMerge \/ EndPass \/ RunCompletions
           \/ ResetPending \/ InspectOwn \/ \E t \in Threads : InspectThread(t)
           \/ KeepPending \/ TestPredicate \/ Block \/ Timeout
    PROVE  PInv'
<1> USE DEF threadVars, flags, loopVars, timerVars, slotVars, passVars, history
<1>1. CASE \E t \in Threads : \/ TakeNumber(t) \/ SetUnmerged(t) \/ Notify(t)
                              \/ SetPending(t) \/ WakeDispatcher(t)
  BY <1>1, PInvStill DEF TakeNumber, SetUnmerged, Notify, SetPending, WakeDispatcher, Woken
<1>2. CASE \E c \in Compute : ComputeNext(c)
  BY <1>2, PInvStill
     DEF ComputeNext, PublishCompletion, Notify, SetPending, WakeDispatcher, Woken
<1>3. CASE \E e \in Timers : StopEvent(e)
  BY <1>3, PInvStill DEF StopEvent, Release
<1>4. CASE BeginShutdown \/ EndShutdown \/ UNCHANGED vars
  BY <1>4, PInvStill DEF BeginShutdown, EndShutdown, Woken, vars
<1>5. CASE LoopTop \/ BeginMerge \/ EndPass \/ RunCompletions
  BY <1>5, PInvStill DEF LoopTop, BeginMerge, EndPass, RunCompletions
<1>6. CASE ResetPending \/ InspectOwn \/ \E t \in Threads : InspectThread(t)
  BY <1>6, PInvStill DEF ResetPending, InspectOwn, InspectThread
<1>7. CASE KeepPending \/ TestPredicate \/ Block \/ Timeout
  BY <1>7, PInvStill DEF KeepPending, TestPredicate, Block, Timeout
<1> QED BY <1>1, <1>2, <1>3, <1>4, <1>5, <1>6, <1>7

(* The places' invariant holds in every reachable state.                    *)
LEMMA PInvHolds == Spec => [](TInv /\ PInv)
<1>1. TInv /\ PInv /\ [Next]_vars => PInv'
  BY PInvAdmit, PInvPushTask, PInvPushFails, PInvPushTimer, PInvMergeThread, PInvPromote,
     PInvRunSerial, PInvRunBarrier, PInvFinish, PInvRest
     DEF Next, LoopNext, ThreadNext, Publishes
<1> QED BY PInvInit, TInvHolds, <1>1, PTL DEF Spec

(* A task waits in a queue exactly when the queue holds it at some place.   *)
LEMMA QueuePlaces ==
    ASSUME NEW queues, NEW e
    PROVE  \A x : x \in At(queues, e) <=>
                  \E k \in DOMAIN queues : \E i \in DOMAIN queues[k] :
                      queues[k][i] = e /\ x = <<k, i>>
  BY DEF At

(* What a tag marks.                                                        *)
LEMMA Tagged ==
    ASSUME NEW tag, NEW S, NEW x
    PROVE  x \in {tag} \X S <=> \E y \in S : x = <<tag, y>>
<1>1. ASSUME x \in {tag} \X S PROVE \E y \in S : x = <<tag, y>>
  BY <1>1
<1>2. ASSUME NEW y \in S PROVE <<tag, y>> \in {tag} \X S
  OBVIOUS
<1> QED BY <1>1, <1>2

(* A task of a lane waits in that lane, ...                                 *)
LEMMA QueuedIsLined ==
    ASSUME TInv, PInv, NEW e \in Events
    PROVE  /\ Queued(e) # {} <=> Lined(e)
           /\ \A x, y \in Queued(e) : x = y
<1>1. DOMAIN ready = Lanes /\ LaneOf[e] \in Lanes
  BY EventsAssumption DEF TInv, TypeOK
<1>2. \A x : x \in Queued(e) <=>
             \E k \in Lanes : \E i \in DOMAIN ready[k] : ready[k][i] = e /\ x = <<k, i>>
  BY <1>1, QueuePlaces DEF Queued
<1>3. ASSUME NEW k \in Lanes, NEW i \in DOMAIN ready[k], ready[k][i] = e
      PROVE  k = LaneOf[e]
  <2>1. Range(ready[k]) \subseteq OfLane(k)
    BY Queues
  <2>2. e \in Range(ready[k])
    BY <1>3 DEF Range
  <2> QED BY <2>1, <2>2 DEF OfLane
<1>4. Queued(e) # {} <=> Lined(e)
  BY <1>1, <1>2, <1>3 DEF Lined, Range
<1>5. \A x, y \in Queued(e) : x = y
  BY <1>1, <1>2, <1>3 DEF PInv, Single, IsInjective
<1> QED BY <1>4, <1>5

(* ... and in the buffer for it.                                            *)
LEMMA BufferedIsPushed ==
    ASSUME TInv, PInv, NEW e \in Events
    PROVE  /\ Buffered(e) # {} <=> Pushed(e)
           /\ \A x, y \in Buffered(e) : x = y
<1>1. LaneOf[e] \in Lanes /\ \A t \in Threads : DOMAIN buffer[t] = Lanes
  BY EventsAssumption DEF TInv, TypeOK
<1>2. \A x : x \in Buffered(e) <=>
             \E t \in Threads : \E k \in Lanes : \E i \in DOMAIN buffer[t][k] :
                 buffer[t][k][i] = e /\ x = <<t, <<k, i>>>>
  <2>1. \A x : x \in Buffered(e) <=> \E t \in Threads : \E y \in At(buffer[t], e) : x = <<t, y>>
    BY DEF Buffered
  <2> QED BY <1>1, <2>1, QueuePlaces
<1>3. ASSUME NEW t \in Threads, NEW k \in Lanes, NEW i \in DOMAIN buffer[t][k],
             buffer[t][k][i] = e
      PROVE  k = LaneOf[e]
  <2>1. Range(buffer[t][k]) \subseteq OfLane(k)
    BY Queues
  <2>2. e \in Range(buffer[t][k])
    BY <1>3 DEF Range
  <2> QED BY <2>1, <2>2 DEF OfLane
<1>4. Buffered(e) # {} <=> Pushed(e)
  <2>1. ASSUME Pushed(e) PROVE Buffered(e) # {}
    <3>1. PICK t \in Threads : \E i \in DOMAIN buffer[t][LaneOf[e]] : buffer[t][LaneOf[e]][i] = e
      BY <2>1 DEF Pushed, BufferedBy, Range
    <3>2. PICK i \in DOMAIN buffer[t][LaneOf[e]] : buffer[t][LaneOf[e]][i] = e
      BY <3>1
    <3>3. <<t, <<LaneOf[e], i>>>> \in Buffered(e)
      BY <1>1, <1>2, <3>2
    <3> QED BY <3>3
  <2>2. ASSUME NEW x \in Buffered(e) PROVE Pushed(e)
    BY <1>2, <1>3 DEF Pushed, BufferedBy, Range
  <2> QED BY <2>1, <2>2
<1>5. ASSUME NEW x \in Buffered(e), NEW y \in Buffered(e) PROVE x = y
  <2>1. PICK t \in Threads : \E i \in DOMAIN buffer[t][LaneOf[e]] :
               buffer[t][LaneOf[e]][i] = e /\ x = <<t, <<LaneOf[e], i>>>>
    BY <1>2, <1>3
  <2>2. PICK u \in Threads : \E i \in DOMAIN buffer[u][LaneOf[e]] :
               buffer[u][LaneOf[e]][i] = e /\ y = <<u, <<LaneOf[e], i>>>>
    BY <1>2, <1>3
  <2>3. t = u
    BY <2>1, <2>2 DEF PInv, Owned, BufferedBy, Range
  <2> QED BY <1>1, <2>1, <2>2, <2>3 DEF PInv, Single, IsInjective
<1> QED BY <1>4, <1>5

(***************************************************************************)
(* Whatever threads publish, timers are due and stopEvent is called with,   *)
(* an accepted task waits in one place until it starts, no task is in two,  *)
(* and none that is gone keeps a slot or an id.                             *)
(***************************************************************************)
THEOREM TasksHaveOnePlace == Spec => []OnePlace
<1>1. TInv /\ PInv => OnePlace
  <2> SUFFICES ASSUME TInv, PInv PROVE OnePlace
    OBVIOUS
  <2>1. /\ TypeOK /\ slotted \subseteq Events /\ registered \subseteq Events /\ unused \subseteq Events
        /\ \A t \in Threads : accepted[t] \subseteq Events
    BY DEF TInv, TypeOK, Timers
  <2>2. ASSUME NEW e \in Events
        PROVE  /\ InCall(e) # {} <=> Called(e)
               /\ New(e) # {} <=> NewTimer(e)
               /\ \A x, y \in InCall(e) : x = y
               /\ \A x, y \in New(e) : x = y
    BY DEF InCall, Called, New, NewTimer, PInv, Owned
  <2>3. ASSUME NEW e \in Events
        PROVE  (Places(e) # {} <=> Placed(e)) /\ \A x, y \in Places(e) : x = y
    <3>1. /\ Queued(e) # {} <=> Lined(e)
          /\ \A x, y \in Queued(e) : x = y
      BY QueuedIsLined
    <3>2. /\ Buffered(e) # {} <=> Pushed(e)
          /\ \A x, y \in Buffered(e) : x = y
      BY BufferedIsPushed
    <3> DEFINE B == Buffered(e)
               Q == Queued(e)
               C == InCall(e)
               N == New(e)
    <3>3. \A x : x \in Places(e) <=>
                  \/ \E y \in B : x = <<"buffer", y>>
                  \/ \E y \in Q : x = <<"lane", y>>
                  \/ \E y \in C : x = <<"call", y>>
                  \/ \E y \in N : x = <<"timer", y>>
                  \/ e \in scheduled /\ x = <<"scheduled">>
                  \/ e \in running /\ x = <<"running">>
      <4> HIDE DEF B, Q, C, N
      <4> SUFFICES ASSUME NEW x
                   PROVE  x \in Places(e) <=>
                            \/ \E y \in B : x = <<"buffer", y>>
                            \/ \E y \in Q : x = <<"lane", y>>
                            \/ \E y \in C : x = <<"call", y>>
                            \/ \E y \in N : x = <<"timer", y>>
                            \/ e \in scheduled /\ x = <<"scheduled">>
                            \/ e \in running /\ x = <<"running">>
        OBVIOUS
      <4>1. x \in {"buffer"} \X B <=> \E y \in B : x = <<"buffer", y>>
        BY Tagged
      <4>2. x \in {"lane"} \X Q <=> \E y \in Q : x = <<"lane", y>>
        BY Tagged
      <4>3. x \in {"call"} \X C <=> \E y \in C : x = <<"call", y>>
        BY Tagged
      <4>4. x \in {"timer"} \X N <=> \E y \in N : x = <<"timer", y>>
        BY Tagged
      <4>5. x \in Places(e) <=>
               \/ x \in {"buffer"} \X B \/ x \in {"lane"} \X Q
               \/ x \in {"call"} \X C \/ x \in {"timer"} \X N
               \/ x \in {p \in {<<"scheduled">>} : e \in scheduled}
               \/ x \in {p \in {<<"running">>} : e \in running}
        BY Zenon DEF Places, B, Q, C, N
      <4>6. x \in {p \in {<<"scheduled">>} : e \in scheduled} <=> e \in scheduled /\ x = <<"scheduled">>
        OBVIOUS
      <4>7. x \in {p \in {<<"running">>} : e \in running} <=> e \in running /\ x = <<"running">>
        OBVIOUS
      <4> QED BY <4>1, <4>2, <4>3, <4>4, <4>5, <4>6, <4>7, Zenon
    <3>4. /\ B # {} <=> Pushed(e)
          /\ Q # {} <=> Lined(e)
          /\ C # {} <=> Called(e)
          /\ N # {} <=> NewTimer(e)
      BY <2>2, <3>1, <3>2
    <3>5. /\ \A x, y \in B : x = y
          /\ \A x, y \in Q : x = y
          /\ \A x, y \in C : x = y
          /\ \A x, y \in N : x = y
      BY <2>2, <3>1, <3>2
    <3> HIDE DEF B, Q, C, N
    <3>6. Places(e) # {} <=> Placed(e)
      <4>1. ASSUME NEW x \in Places(e) PROVE Placed(e)
        BY <3>3, <3>4 DEF Placed
      <4>2. ASSUME Placed(e) PROVE \E x : x \in Places(e)
        <5>1. CASE B # {}
          <6>1. PICK y \in B : TRUE
            BY <5>1
          <6> QED BY <3>3, <6>1
        <5>2. CASE Q # {}
          <6>1. PICK y \in Q : TRUE
            BY <5>2
          <6> QED BY <3>3, <6>1
        <5>3. CASE C # {}
          <6>1. PICK y \in C : TRUE
            BY <5>3
          <6> QED BY <3>3, <6>1
        <5>4. CASE N # {}
          <6>1. PICK y \in N : TRUE
            BY <5>4
          <6> QED BY <3>3, <6>1
        <5>5. CASE e \in scheduled \/ e \in running
          BY <3>3, <5>5
        <5> QED BY <3>4, <4>2, <5>1, <5>2, <5>3, <5>4, <5>5 DEF Placed
      <4> QED BY <4>1, <4>2
    <3>7. Staged(e)
      BY DEF PInv
    <3>8. \A x, y \in Places(e) : x = y
      <4> SUFFICES ASSUME NEW x \in Places(e), NEW y \in Places(e) PROVE x = y
        OBVIOUS
      <4>1. CASE Pushed(e)
        <5>1. Q = {} /\ C = {} /\ N = {} /\ e \notin scheduled \cup running
          BY <3>4, <3>7, <4>1 DEF Staged
        <5>2. PICK u \in B : x = <<"buffer", u>>
          BY <3>3, <5>1
        <5>3. PICK v \in B : y = <<"buffer", v>>
          BY <3>3, <5>1
        <5> QED BY <3>5, <5>2, <5>3
      <4>2. CASE Lined(e)
        <5>1. B = {} /\ C = {} /\ N = {} /\ e \notin scheduled \cup running
          BY <3>4, <3>7, <4>2 DEF Staged
        <5>2. PICK u \in Q : x = <<"lane", u>>
          BY <3>3, <5>1
        <5>3. PICK v \in Q : y = <<"lane", v>>
          BY <3>3, <5>1
        <5> QED BY <3>5, <5>2, <5>3
      <4>3. CASE Called(e)
        <5>1. B = {} /\ Q = {} /\ N = {} /\ e \notin scheduled \cup running
          BY <3>4, <3>7, <4>3 DEF Staged
        <5>2. PICK u \in C : x = <<"call", u>>
          BY <3>3, <5>1
        <5>3. PICK v \in C : y = <<"call", v>>
          BY <3>3, <5>1
        <5> QED BY <3>5, <5>2, <5>3
      <4>4. CASE NewTimer(e)
        <5>1. B = {} /\ Q = {} /\ C = {} /\ e \notin scheduled \cup running
          BY <3>4, <3>7, <4>4 DEF Staged
        <5>2. PICK u \in N : x = <<"timer", u>>
          BY <3>3, <5>1
        <5>3. PICK v \in N : y = <<"timer", v>>
          BY <3>3, <5>1
        <5> QED BY <3>5, <5>2, <5>3
      <4>5. CASE e \in scheduled \/ e \in running
        <5>1. B = {} /\ Q = {} /\ C = {} /\ N = {} /\ ~(e \in scheduled /\ e \in running)
          BY <3>4, <3>7, <4>5 DEF Staged
        <5> QED BY <3>3, <5>1
      <4>6. Placed(e)
        BY <3>6
      <4> QED BY <4>1, <4>2, <4>3, <4>4, <4>5, <4>6 DEF Placed
    <3> QED BY <3>6, <3>8
  <2>4. \A e \in Events : Cardinality(Places(e)) <= 1
    <3> SUFFICES ASSUME NEW e \in Events PROVE Cardinality(Places(e)) <= 1
      OBVIOUS
    <3>1. CASE Places(e) = {}
      BY <3>1, FS_EmptySet
    <3>2. CASE Places(e) # {}
      <4>1. PICK x : Places(e) = {x}
        BY <2>3, <3>2
      <4> QED BY <4>1, FS_Singleton
    <3> QED BY <3>1, <3>2
  <2>5. \A e \in slotted : Places(e) # {}
    BY <2>1, <2>3 DEF PInv, Found
  <2>6. \A e \in unused : Places(e) = {}
    BY <2>1, <2>3 DEF PInv, Staged, Placed
  <2>7. \A t \in Threads : \A e \in accepted[t] : Buffered(e) # {} \/ Queued(e) # {}
    BY <2>1, QueuedIsLined, BufferedIsPushed DEF PInv, Found, Pushed
  <2>8. \A e \in registered : Armed(e) \/ Queued(e) # {} \/ e \in running
    BY <2>1, <2>2, QueuedIsLined DEF PInv, Found, Armed
  <2> QED BY <2>1, <2>4, <2>5, <2>6, <2>7, <2>8 DEF OnePlace
<1> QED BY <1>1, PInvHolds, PTL


(* A task leaves the history of its thread behind those ahead of it.        *)
LEMMA LeavesInOrder ==
    ASSUME TInv, PInv, [Next]_vars,
           NEW t \in Threads, NEW e \in accepted[t] \ accepted'[t]
    PROVE  ahead[e] \cap accepted'[t] = {}
<1> SUFFICES ASSUME NEW f \in ahead[e], f \in accepted'[t] PROVE FALSE
  OBVIOUS
<1>1. ASSUME NEW l \in Lanes, NEW S, S \subseteq Range(ready[l]),
             accepted' = [u \in Threads |-> accepted[u] \ S],
             \A g : Before(ready[l], g, e) /\ e \in S /\ SameQueue(g, e) => g \in S
      PROVE  FALSE
  <2>1. e \in S /\ f \in accepted[t] /\ f \notin S /\ e \in accepted[t] /\ e \in Events
    BY <1>1 DEF TInv, TypeOK
  <2>2. SameQueue(f, e) /\ InOrder(t, f, e)
    BY <2>1 DEF PInv, Ordered
  <2>3. LaneOf[e] = l /\ Lined(e)
    BY <1>1, <2>1, Queues DEF OfLane, Lined
  <2>4. ~BufferedBy(t, e)
    BY <2>1, <2>3 DEF PInv, Staged, Pushed
  <2>5. ~Before(buffer[t][l], f, e)
    BY <2>3, <2>4 DEF Before, BufferedBy, Range
  <2>6. Before(ready[l], f, e)
    BY <2>2, <2>3, <2>4, <2>5 DEF InOrder, BufferedBy
  <2> QED BY <1>1, <2>1, <2>2, <2>6
<1>2. ASSUME NEW l \in Lanes, RunSerial(l) PROVE FALSE
  <2> DEFINE d == ready[l][NextIndex(l)]
  <2>1. accepted' = [u \in Threads |-> accepted[u] \ {d}]
    BY <1>2 DEF RunSerial, Start
  <2>2. {d} \subseteq Range(ready[l])
    BY <1>2, NextIsFirst DEF RunSerial, Eligible, TInv, Range
  <2>3. \A g : Before(ready[l], g, d) => ~SameQueue(g, d)
    BY <1>2, FirstIsTaken
  <2> HIDE DEF d
  <2>4. \A g : Before(ready[l], g, e) /\ e \in {d} /\ SameQueue(g, e) => g \in {d}
    <3> SUFFICES ASSUME NEW g, Before(ready[l], g, e), e = d, SameQueue(g, e) PROVE FALSE
      OBVIOUS
    <3> QED BY <2>3
  <2> DEFINE S == {d}
  <2>5. S \subseteq Range(ready[l]) /\ accepted' = [u \in Threads |-> accepted[u] \ S]
    BY <2>1, <2>2
  <2>6. \A g : Before(ready[l], g, e) /\ e \in S /\ SameQueue(g, e) => g \in S
    BY <2>4
  <2> HIDE DEF S
  <2> QED BY <1>1, <2>5, <2>6
<1>3. ASSUME NEW l \in Lanes, RunBarrier(l) PROVE FALSE
  <2>1. PICK n \in 1..Min({Len(ready[l]), Budget - served[l]}) :
              Start(FirstOf(ready[l], n), {})
    BY <1>3 DEF RunBarrier, FirstOf
  <2> DEFINE S == FirstOf(ready[l], n)
  <2>2. accepted' = [u \in Threads |-> accepted[u] \ S]
    BY <2>1 DEF Start
  <2>3. /\ S \subseteq Range(ready[l])
        /\ \A f1, e1 : Before(ready[l], f1, e1) => (e1 \in S => f1 \in S)
    BY BarrierTakes
  <2> HIDE DEF S
  <2>4. \A g : Before(ready[l], g, e) /\ e \in S /\ SameQueue(g, e) => g \in S
    BY <2>3
  <2> QED BY <1>1, <2>2, <2>3, <2>4
<1>4. ASSUME NEW u \in Threads, PushTask(u) PROVE FALSE
  <2>1. accepted[t] \subseteq accepted'[t]
    BY <1>4 DEF PushTask, TInv, TypeOK
  <2> QED BY <2>1
<1>5. ASSUME accepted' = accepted PROVE FALSE
  BY <1>5
<1> QED
  BY <1>2, <1>3, <1>4, <1>5
     DEF Next, LoopNext, ThreadNext, ComputeNext, Publishes, Admit, PushFails, TakeNumber,
         PushTimer, SetUnmerged, Notify, SetPending, WakeDispatcher, PublishCompletion,
         StopEvent, BeginShutdown, EndShutdown, LoopTop, BeginMerge, MergeThread, Promote,
         EndPass, RunCompletions, Finish, ResetPending, InspectOwn, InspectThread,
         KeepPending, TestPredicate, Block, Timeout, history, vars

(***************************************************************************)
(* Tasks of one thread and one queue start in the order of their            *)
(* publication, through every buffer, merge, slice and barrier.             *)
(***************************************************************************)
THEOREM TasksKeepTheirOrder == Spec => OrderKept
<1>1. TInv /\ PInv /\ [Next]_vars =>
         [\A t \in Threads : \A e \in accepted[t] \ accepted'[t] :
             ahead[e] \cap accepted'[t] = {}]_vars
  BY LeavesInOrder
<1> QED BY <1>1, PInvHolds, PTL DEF Spec, OrderKept

-----------------------------------------------------------------------------
(* Numbers of timers.                                                       *)

(* A timer that may still be put into a lane or run.                        *)
Awaits(e) ==
    \/ NewTimer(e) \/ e \in scheduled \/ Lined(e)
    \/ e \in running /\ Kind[e] = "cycle"

(* Ids are given once, above all that were given, to timers that are on     *)
(* their way; a timer that may still run can be found under its id unless   *)
(* it is canceled.                                                          *)
NInv ==
    /\ \A e \in Events : idOf[e] <= lastId
    /\ \A t \in Threads : at[t] = "numbering" => \A e \in Events : idOf[e] < lastId
    /\ \A e, f \in Events : idOf[e] # 0 /\ idOf[e] = idOf[f] => e = f
    /\ \A e \in Events : e \in unused \/ Called(e) => idOf[e] = 0
    /\ \A e \in Timers : Awaits(e) => idOf[e] # 0 /\ e \in canceled \cup registered
    /\ \A e \in stopped : idOf[e] # 0 /\ (Awaits(e) => e \in canceled)

(* A step that gives no id and takes one back only with a cancel.           *)
LEMMA NInvStill ==
    ASSUME NInv, TypeOK', UNCHANGED <<idOf, lastId>>,
           \A t \in Threads : at'[t] = "numbering" => at[t] = "numbering",
           \A e \in Events : e \in unused' \/ Called(e)' => e \in unused \/ Called(e),
           canceled \subseteq canceled', stopped' \subseteq stopped,
           \A e \in Timers :
              Awaits(e)' => Awaits(e) /\ (e \in registered => e \in canceled' \cup registered')
    PROVE  NInv'
<1>1. stopped' \subseteq Timers /\ Timers \subseteq Events
  BY DEF TypeOK, Timers
<1>2. \A e \in stopped' : idOf'[e] # 0 /\ (Awaits(e)' => e \in canceled')
  BY <1>1 DEF NInv
<1>3. \A e \in Timers : Awaits(e)' => idOf'[e] # 0 /\ e \in canceled' \cup registered'
  BY DEF NInv
<1> QED BY <1>2, <1>3 DEF NInv

(* No task, no id.                                                          *)
LEMMA NInvInit == Init => NInv
<1> SUFFICES ASSUME Init PROVE NInv
  OBVIOUS
<1>1. \A e \in Events : ~Called(e) /\ ~NewTimer(e) /\ ~Lined(e) /\ idOf[e] = 0
  BY ThreadsAssumption, EventsAssumption DEF Init, Called, NewTimer, Lined, Range
<1>2. \A e \in Timers : ~Awaits(e)
  BY <1>1 DEF Init, Awaits, Timers
<1> QED BY <1>1, <1>2, ThreadsAssumption DEF Init, NInv, Notifiers

(* The next id is above the others, and nobody else takes one meanwhile.    *)
LEMMA NInvTakeNumber ==
    ASSUME \A t, u \in Schedulers : t = u,
           TInv, TInv', NInv, NEW t \in Threads, TakeNumber(t)
    PROVE  NInv'
<1>1. /\ lastId' = lastId + 1 /\ lastId \in Nat
      /\ UNCHANGED <<cur, unused, newTimers, ready, scheduled, running, idOf, canceled,
                     registered, stopped>>
  BY DEF TakeNumber, TInv, TypeOK, passVars, history
<1>2. \A e \in Events : idOf'[e] < lastId' /\ idOf'[e] <= lastId'
  BY <1>1 DEF NInv, TInv, TypeOK
<1>3. \A e : (Called(e)' <=> Called(e)) /\ (Awaits(e)' <=> Awaits(e))
  BY <1>1 DEF Called, Awaits, NewTimer, Lined
<1> QED BY <1>1, <1>2, <1>3 DEF NInv

(* A timer gets its id.                                                     *)
LEMMA NInvPushTimer ==
    ASSUME \A t, u \in Schedulers : t = u,
           TInv, TInv', PInv, NInv, NEW t \in Threads, PushTimer(t)
    PROVE  NInv'
<1> DEFINE d == cur[t]
<1>1. /\ at[t] = "numbering" /\ d \in Timers /\ d \in Events /\ t \in Schedulers
      /\ idOf' = [idOf EXCEPT ![d] = lastId]
      /\ newTimers' = [newTimers EXCEPT ![t] = @ \cup {d}]
      /\ at' = [at EXCEPT ![t] = "publishing"]
      /\ cur' = [cur EXCEPT ![t] = NoEvent]
      /\ UNCHANGED <<unused, ready, scheduled, lastId, canceled, running, stopped>>
  BY DEF PushTimer, TInv, Calls, Timers, passVars, history
<1>2. /\ lastId \in Nat /\ \A e \in Events : idOf[e] \in Nat /\ idOf[e] < lastId
      /\ lastId # 0
  BY <1>1 DEF NInv, TInv, TypeOK
<1>3. \A e \in Events : idOf'[e] = IF e = d THEN lastId ELSE idOf[e]
  BY <1>1 DEF TInv, TypeOK
<1>4. registered' = registered \cup {d}
  <2>1. \A f \in registered : idOf[f] # lastId
    BY <1>2 DEF TInv, TypeOK, Timers
  <2> QED BY <2>1 DEF PushTimer
<1>5. Called(d) /\ idOf[d] = 0 /\ d \notin unused /\ d \notin stopped
  <2>1. Called(d)
    BY DEF Called
  <2> QED BY <1>1, <2>1 DEF NInv, PInv, Staged
<1>6. /\ \A u \in Threads : cur'[u] = IF u = t THEN NoEvent ELSE cur[u]
      /\ \A u \in Threads : newTimers'[u] = IF u = t THEN newTimers[u] \cup {d} ELSE newTimers[u]
      /\ \A u \in Threads : at'[u] # "numbering"
  <2>1. \A u \in Threads : at[u] = "numbering" => u = t
    BY <1>1 DEF TInv, Calls
  <2>2. \A u \in Threads : at'[u] = IF u = t THEN "publishing" ELSE at[u]
    BY <1>1 DEF TInv, TypeOK, Notifiers
  <2>3. \A u \in Threads : cur'[u] = IF u = t THEN NoEvent ELSE cur[u]
    BY <1>1 DEF TInv, TypeOK
  <2>4. \A u \in Threads : newTimers'[u] = IF u = t THEN newTimers[u] \cup {d} ELSE newTimers[u]
    BY <1>1 DEF TInv, TypeOK
  <2>5. \A u \in Threads : at'[u] # "numbering"
    BY <2>1, <2>2
  <2> QED BY <2>3, <2>4, <2>5
<1> HIDE DEF d
<1>7. \A e \in Events : Called(e)' => Called(e) /\ e # d
  <2>1. \A u \in Threads : cur[u] = d => u = t
    BY <1>1 DEF PInv, Owned, d
  <2> QED BY <1>6, <2>1, ThreadsAssumption DEF Called
<1>8. \A e \in Timers : Awaits(e)' => Awaits(e) \/ e = d
  BY <1>1, <1>6 DEF Awaits, NewTimer, Lined
<1>9. \A e \in Events : idOf'[e] <= lastId'
  BY <1>1, <1>2, <1>3
<1>10. \A e, f \in Events : idOf'[e] # 0 /\ idOf'[e] = idOf'[f] => e = f
  BY <1>2, <1>3 DEF NInv
<1>11. \A e \in Events : e \in unused' \/ Called(e)' => idOf'[e] = 0
  BY <1>1, <1>3, <1>5, <1>7 DEF NInv
<1>12. \A e \in Timers : Awaits(e)' => idOf'[e] # 0 /\ e \in canceled' \cup registered'
  BY <1>1, <1>2, <1>3, <1>4, <1>8 DEF NInv, Timers
<1>13. \A e \in stopped' : idOf'[e] # 0 /\ (Awaits(e)' => e \in canceled')
  <2>1. stopped \subseteq Timers /\ stopped \subseteq Events
    BY DEF TInv, TypeOK, Timers
  <2> QED BY <1>1, <1>3, <1>5, <1>8, <2>1 DEF NInv
<1> QED BY <1>6, <1>9, <1>10, <1>11, <1>12, <1>13 DEF NInv

(* stopEvent finds the timer if it may still run, and no other.             *)
LEMMA NInvStopEvent ==
    ASSUME TInv, TInv', NInv, NEW d \in Timers, StopEvent(d)
    PROVE  NInv'
<1> DEFINE found == {f \in registered : idOf[f] = idOf[d]}
<1>1. /\ idOf[d] # 0 /\ stopped' = stopped \cup {d}
      /\ canceled' = canceled \cup found /\ registered' = registered \ found
      /\ UNCHANGED <<at, cur, unused, newTimers, ready, scheduled, running, idOf, lastId>>
  BY DEF StopEvent, Cancel, threadVars, passVars
<1>2. \A e : (Called(e)' <=> Called(e)) /\ (Awaits(e)' <=> Awaits(e))
  BY <1>1 DEF Called, Awaits, NewTimer, Lined
<1>3. \A e \in Timers : Awaits(e)' => idOf'[e] # 0 /\ e \in canceled' \cup registered'
  BY <1>1, <1>2 DEF NInv
<1>4. \A e \in stopped' : idOf'[e] # 0 /\ (Awaits(e)' => e \in canceled')
  BY <1>1, <1>2 DEF NInv
<1> QED BY <1>1, <1>2, <1>3, <1>4 DEF NInv

(* A task of a serial lane leaves it.                                       *)
LEMMA NInvRunSerial ==
    ASSUME TInv, TInv', PInv, NInv, NEW l \in Lanes, RunSerial(l)
    PROVE  NInv' /\ (running' \ running) \cap stopped = {}
<1> DEFINE i == NextIndex(l)
           d == ready[l][i]
           q == RemoveAt(ready[l], i)
<1>1. /\ i \in DOMAIN ready[l]
      /\ ready[l] \in Seq(OfLane(l)) /\ IsInjective(ready[l]) /\ Range(ready[l]) \subseteq OfLane(l)
  BY NextIsFirst, Queues DEF RunSerial, Eligible, TInv
<1>2. Range(q) = Range(ready[l]) \ {d}
  BY <1>1, TakenOut
<1>3. d \in Events /\ LaneOf[d] = l /\ Lined(d)
  BY <1>1 DEF Range, OfLane, Lined
<1>4. /\ ready' = [ready EXCEPT ![l] = q]
      /\ \/ Start({d}, {d} \cap canceled)
         \/ MayExpire(d) /\ Start({d}, {d})
      /\ \/ KeepsSlot(d) /\ registered' = registered
         \/ ~KeepsSlot(d) /\ Forget({d} \cap Timers)
      /\ UNCHANGED <<at, cur, unused, newTimers, scheduled, idOf, lastId, canceled, stopped>>
  BY DEF RunSerial, threadVars
<1> HIDE DEF i, d, q
<1>5. running' \subseteq {d} \ canceled
  BY <1>4 DEF Start, MayExpire, TInv, TypeOK
<1>6. \A k \in Lanes : ready'[k] = IF k = l THEN q ELSE ready[k]
  BY <1>4 DEF TInv, TypeOK
<1>7. ASSUME NEW e \in Timers, Awaits(e)'
      PROVE  Awaits(e) /\ (e \in registered => e \in canceled' \cup registered')
  <2>1. e \in Events /\ LaneOf[e] \in Lanes
    BY EventsAssumption DEF Timers
  <2>2. Lined(e)' => Lined(e) /\ e # d
    BY <1>2, <1>3, <1>6, <2>1 DEF Lined
  <2>3. Awaits(e)
    BY <1>3, <1>4, <1>5, <1>7, <2>2 DEF Awaits, NewTimer
  <2>4. CASE e = d
    <3>1. ~NewTimer(e) /\ e \notin scheduled
      BY <1>3, <2>4 DEF PInv, Staged
    <3>2. KeepsSlot(d)
      BY <1>4, <1>5, <1>7, <2>2, <2>4, <3>1 DEF Awaits, NewTimer, KeepsSlot
    <3> QED BY <1>4, <2>3, <3>2
  <2>5. CASE e # d
    <3>1. idOf[e] # idOf[d] \/ d \notin Timers
      BY <1>3, <2>1, <2>3, <2>5 DEF NInv
    <3> QED BY <1>4, <2>3, <3>1 DEF Forget
  <2> QED BY <2>4, <2>5
<1>8. NInv'
  <2>1. \A e : Called(e)' <=> Called(e)
    BY <1>4 DEF Called
  <2> QED BY <1>4, <1>7, <2>1, NInvStill DEF TInv
<1>9. (running' \ running) \cap stopped = {}
  <2>1. d \in stopped => d \in canceled
    BY <1>3 DEF NInv, Awaits
  <2> QED BY <1>5, <2>1
<1> QED BY <1>8, <1>9

(* No timer is in a barrier lane.                                           *)
LEMMA NInvRunBarrier ==
    ASSUME TInv, TInv', PInv, NInv, NEW l \in Lanes, RunBarrier(l)
    PROVE  NInv' /\ (running' \ running) \cap stopped = {}
<1>1. PICK n \in 1..Min({Len(ready[l]), Budget - served[l]}) :
            /\ ready' = [ready EXCEPT ![l] = RestOf(ready[l], n)]
            /\ Start(FirstOf(ready[l], n), {})
  BY DEF RunBarrier, FirstOf, RestOf
<1> DEFINE S == FirstOf(ready[l], n)
           q == RestOf(ready[l], n)
<1>2. /\ running' = S /\ l \in BarrierLanes
      /\ UNCHANGED <<at, cur, unused, newTimers, scheduled, registered, idOf, lastId,
                     canceled, stopped>>
  BY <1>1 DEF RunBarrier, Start, threadVars, timerVars
<1>3. Range(q) = Range(ready[l]) \ S /\ S \subseteq OfLane(l)
  BY BarrierTakes
<1>4. \A e \in S : e \notin Timers
  BY <1>2, <1>3, EventsAssumption DEF OfLane, Timers
<1>5. \A k \in Lanes : ready'[k] = IF k = l THEN q ELSE ready[k]
  BY <1>1 DEF TInv, TypeOK
<1> HIDE DEF S, q
<1>6. ASSUME NEW e \in Timers, Awaits(e)'
      PROVE  Awaits(e)
  <2>1. LaneOf[e] \in Lanes
    BY EventsAssumption DEF Timers
  <2>2. Lined(e)' => Lined(e)
    BY <1>3, <1>5, <2>1 DEF Lined
  <2> QED BY <1>2, <1>4, <1>6, <2>2 DEF Awaits, NewTimer
<1>7. NInv'
  <2>1. \A e : Called(e)' <=> Called(e)
    BY <1>2 DEF Called
  <2> QED BY <1>2, <1>6, <2>1, NInvStill DEF TInv
<1>8. (running' \ running) \cap stopped = {}
  BY <1>2, <1>4 DEF TInv, TypeOK
<1> QED BY <1>7, <1>8

(* Timers move on to the lanes, and cycles back.                            *)
LEMMA NInvMoves ==
    ASSUME TInv, TInv', PInv, NInv,
           \/ \E t \in Threads : MergeThread(t)
           \/ \E due \in SUBSET Timers : Promote(due)
           \/ Finish
    PROVE  NInv' /\ (running' \ running) \cap stopped = {}
<1>1. \A e \in Timers : e \in Events /\ LaneOf[e] \in Lanes
  BY EventsAssumption DEF Timers
<1>2. ASSUME NEW t \in Threads, MergeThread(t)
      PROVE  NInv' /\ running' = running
  <2>1. /\ scheduled' = scheduled \cup newTimers[t]
        /\ newTimers' = [newTimers EXCEPT ![t] = {}]
        /\ UNCHANGED <<at, cur, unused, registered, idOf, lastId, canceled, running, stopped>>
    BY <1>2 DEF MergeThread, passVars, history
  <2>2. \A u \in Threads : newTimers'[u] \subseteq newTimers[u]
    BY <2>1 DEF TInv, TypeOK
  <2>3. ASSUME NEW e \in Timers PROVE Lined(e)' => Lined(e)
    <3>1. Range(ready'[LaneOf[e]]) = Range(ready[LaneOf[e]]) \cup Range(buffer[t][LaneOf[e]])
      BY <1>1, <1>2, MergedQueue
    <3>2. buffer[t][LaneOf[e]] \in Seq(OfLane(LaneOf[e]) \ Timers)
      BY <1>1 DEF TInv, Sorted
    <3>3. e \notin Range(buffer[t][LaneOf[e]])
      BY <3>2 DEF Range
    <3> QED BY <3>1, <3>3 DEF Lined
  <2>4. \A e \in Timers : Awaits(e)' => Awaits(e)
    BY <2>1, <2>2, <2>3 DEF Awaits, NewTimer
  <2>5. \A e : Called(e)' <=> Called(e)
    BY <2>1 DEF Called
  <2> QED BY <2>1, <2>4, <2>5, NInvStill DEF TInv
<1>3. ASSUME NEW due \in SUBSET Timers, Promote(due)
      PROVE  NInv' /\ running' = running
  <2>1. /\ scheduled' \subseteq scheduled /\ due \subseteq scheduled
        /\ UNCHANGED <<at, cur, unused, newTimers, registered, idOf, lastId, canceled,
                       running, stopped>>
    BY <1>3 DEF Promote, Undue, threadVars, history
  <2>2. ASSUME NEW e \in Timers PROVE Lined(e)' => Lined(e) \/ e \in scheduled
    <3>1. Range(ready'[LaneOf[e]])
             = Range(ready[LaneOf[e]]) \cup {f \in due : LaneOf[f] = LaneOf[e]}
      BY <1>1, <1>3, PromotedQueue
    <3> QED BY <2>1, <3>1 DEF Lined
  <2>3. \A e \in Timers : Awaits(e)' => Awaits(e)
    BY <2>1, <2>2 DEF Awaits, NewTimer
  <2>4. \A e : Called(e)' <=> Called(e)
    BY <2>1 DEF Called
  <2> QED BY <2>1, <2>3, <2>4, NInvStill DEF TInv
<1>4. ASSUME Finish
      PROVE  NInv' /\ running' = {}
  <2> DEFINE cycles == {e \in running : Kind[e] = "cycle"}
  <2>1. /\ scheduled' = scheduled \cup (cycles \ canceled)
        /\ Forget(cycles \cap canceled) /\ running' = {}
        /\ UNCHANGED <<at, cur, unused, newTimers, ready, idOf, lastId, canceled, stopped>>
    BY <1>4 DEF Finish, threadVars, history
  <2>2. ASSUME NEW e \in Timers, Awaits(e)'
        PROVE  Awaits(e) /\ (e \in registered => e \in canceled' \cup registered')
    <3>1. Awaits(e)
      BY <2>1, <2>2 DEF Awaits, NewTimer, Lined
    <3>2. \A f \in cycles \cap canceled : idOf[e] = idOf[f] => e = f
      BY <1>1, <3>1 DEF NInv, TInv, TypeOK
    <3> HIDE DEF cycles
    <3>3. e \in registered => e \in registered' \/ e \in canceled
      BY <2>1, <3>2 DEF Forget
    <3> QED BY <2>1, <3>1, <3>3
  <2>3. \A e : Called(e)' <=> Called(e)
    BY <2>1 DEF Called
  <2> QED BY <2>1, <2>2, <2>3, NInvStill DEF TInv
<1> QED BY <1>2, <1>3, <1>4

(* The remaining steps change no id and start no task.                      *)
LEMMA NInvRest ==
    ASSUME TInv, TInv', NInv,
           \/ \E t \in Threads : \/ \E e \in Events : Admit(t, e)
                                 \/ PushTask(t) \/ PushFails(t) \/ SetUnmerged(t)
                                 \/ Notify(t) \/ SetPending(t) \/ WakeDispatcher(t)
           \/ \E c \in Compute : ComputeNext(c)
           \/ BeginShutdown \/ EndShutdown \/ UNCHANGED vars
           \/ LoopTop \/ BeginMerge \/ EndPass \/ RunCompletions
           \/ ResetPending \/ InspectOwn \/ \E t \in Threads : InspectThread(t)
           \/ KeepPending \/ TestPredicate \/ Block \/ Timeout
    PROVE  NInv' /\ (running' \ running) \cap stopped = {}
<1> DEFINE Kept == UNCHANGED <<newTimers, ready, scheduled, registered, running, idOf, lastId,
                               canceled, stopped>>
           NoNumber == \A t \in Threads : at'[t] = "numbering" => at[t] = "numbering"
           NoTask == \A e \in Events : e \in unused' \/ Called(e)' => e \in unused \/ Called(e)
<1> USE DEF threadVars, flags, loopVars, timerVars, slotVars, passVars, history
<1>1. ASSUME NEW t \in Threads, NEW d \in Events, Admit(t, d)
      PROVE  Kept /\ NoNumber /\ NoTask
  <2>1. /\ d \in unused /\ unused' = unused \ {d} /\ cur' = [cur EXCEPT ![t] = d]
        /\ at' = [at EXCEPT ![t] = "admitted"]
    BY <1>1 DEF Admit
  <2>2. \A u \in Threads : cur'[u] = IF u = t THEN d ELSE cur[u]
    BY <2>1 DEF TInv, TypeOK
  <2>3. NoNumber
    BY <2>1 DEF TInv, TypeOK, Notifiers
  <2>4. NoTask
    BY <2>1, <2>2, SMTT(30) DEF Called
  <2> QED BY <1>1, <2>3, <2>4 DEF Admit
<1>2. ASSUME NEW t \in Threads, PushTask(t) \/ PushFails(t)
      PROVE  Kept /\ NoNumber /\ NoTask
  <2>1. /\ unused' = unused /\ cur' = [cur EXCEPT ![t] = NoEvent]
        /\ at' = [at EXCEPT ![t] = "publishing"] \/ at' = [at EXCEPT ![t] = "idle"]
    BY <1>2 DEF PushTask, PushFails
  <2>2. \A u \in Threads : cur'[u] = IF u = t THEN NoEvent ELSE cur[u]
    BY <2>1 DEF TInv, TypeOK
  <2>3. NoNumber
    BY <2>1 DEF TInv, TypeOK, Notifiers
  <2>4. NoTask
    BY <2>1, <2>2, ThreadsAssumption DEF Called
  <2> QED BY <1>2, <2>3, <2>4, SMTT(30) DEF PushTask, PushFails
<1>3. ASSUME NEW n \in Notifiers,
             SetUnmerged(n) \/ Notify(n) \/ SetPending(n) \/ WakeDispatcher(n)
                \/ PublishCompletion(n)
      PROVE  Kept /\ NoNumber /\ NoTask
  <2>1. UNCHANGED <<cur, unused>> /\ Kept
    BY <1>3 DEF SetUnmerged, Notify, SetPending, WakeDispatcher, PublishCompletion
  <2>2. \E s \in {"notifying", "idle", "signalling", "waking"} : at' = [at EXCEPT ![n] = s]
    BY <1>3 DEF SetUnmerged, Notify, SetPending, WakeDispatcher, PublishCompletion
  <2>3. NoNumber
    BY <2>2 DEF TInv, TypeOK, Notifiers
  <2> QED BY <2>1, <2>3 DEF Called
<1>4. ASSUME \/ BeginShutdown \/ EndShutdown \/ UNCHANGED vars
             \/ LoopTop \/ BeginMerge \/ EndPass \/ RunCompletions
             \/ ResetPending \/ InspectOwn \/ \E t \in Threads : InspectThread(t)
             \/ KeepPending \/ TestPredicate \/ Block \/ Timeout
      PROVE  Kept /\ NoNumber /\ NoTask
  <2>1. UNCHANGED <<at, cur, unused>> /\ Kept
    BY <1>4 DEF BeginShutdown, EndShutdown, vars, LoopTop, BeginMerge, EndPass,
                RunCompletions, ResetPending, InspectOwn, InspectThread, KeepPending,
                TestPredicate, Block, Timeout
  <2> QED BY <2>1 DEF Called
<1>5. Kept /\ NoNumber /\ NoTask
  <2> HIDE DEF Kept, NoNumber, NoTask
  <2> QED BY <1>1, <1>2, <1>3, <1>4 DEF ComputeNext, Notifiers
<1>6. \A e : Awaits(e)' <=> Awaits(e)
  BY <1>5 DEF Awaits, NewTimer, Lined
<1>7. NInv'
  BY <1>5, <1>6, NInvStill DEF TInv
<1> QED BY <1>5, <1>7

(***************************************************************************)
(* If one thread alone schedules timers, a timer whose owner has called     *)
(* stopEvent never starts again, wherever it waited and however often it    *)
(* had run.  (Two threads that schedule at once can be given one id.)       *)
(***************************************************************************)
THEOREM StoppedTimersStayStopped ==
    ASSUME \A t, u \in Schedulers : t = u
    PROVE  Spec => StoppedNeverRuns
<1>1. TInv /\ TInv' /\ PInv /\ NInv /\ [Next]_vars
         => NInv' /\ (running' \ running) \cap stopped = {}
  <2> SUFFICES ASSUME TInv, TInv', PInv, NInv, [Next]_vars
               PROVE  NInv' /\ (running' \ running) \cap stopped = {}
    OBVIOUS
  <2>1. ASSUME NEW t \in Threads, TakeNumber(t) \/ PushTimer(t)
        PROVE  NInv' /\ running' = running
    BY <2>1, NInvTakeNumber, NInvPushTimer DEF TakeNumber, PushTimer, passVars
  <2>2. ASSUME NEW e \in Timers, StopEvent(e)
        PROVE  NInv' /\ running' = running
    BY <2>2, NInvStopEvent DEF StopEvent, passVars
  <2> QED
    BY <2>1, <2>2, NInvRunSerial, NInvRunBarrier, NInvMoves, NInvRest
       DEF Next, LoopNext, ThreadNext, Publishes
<1> QED BY <1>1, PInvHolds, NInvInit, PTL DEF Spec, StoppedNeverRuns
=============================================================================
