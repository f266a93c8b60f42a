---------------------------- MODULE KvStoreProof ----------------------------
(***************************************************************************)
(* Proofs about KvStore, for any keys, threads and plans: the cache agrees  *)
(* with its queue, no evicted value is forgotten, and whoever the store     *)
(* promises anything finds what was set.                                    *)
(***************************************************************************)
EXTENDS KvStore, FiniteSetTheorems, SequenceTheorems, TLAPS

(* What a thread does its plan has it do, and what it has to save is in its *)
(* batch.                                                                   *)
Working ==
    \A t \in Threads :
      /\ pc[t] = "fill" => loaded[t] # NoRow
      /\ (pc[t] = "save") <=> (batch[t] # <<>>)
      /\ pc[t] # "idle" => plan.calls[t] # {}
      /\ pc[t] \notin {"idle", "saveAll"} => plan.calls[t] \ {"saveAll"} # {}

(* No row has a deleted value.                                              *)
RowsOnly == \A k \in Keys : RowOf(table[k]) = table[k]

KvInv == TypeOK /\ plan \in Plans /\ Working /\ RowsOnly /\ EvictionsTaken

(* What was set last is in the cache, or else waits to be saved or is in    *)
(* the table; ...                                                           *)
CacheRight == \A k \in Cached : RowOf(store[k]) = RowOf(written[k])
WaitingRight == \A e \in Waiting : RowOf(e.value) = RowOf(written[e.key])
TableRight ==
    \A k \in Keys \ Cached :
        RowOf(table[k]) = RowOf(written[k]) \/ \E e \in Waiting : e.key = k

(* ... a value that was loaded is not older than what was set, and a copy   *)
(* of the cache not of keys it has evicted.                                 *)
LoadsRight ==
    \A t \in Threads :
      /\ pc[t] \in {"load", "fill"} => key[t] \notin Cached
      /\ pc[t] = "fill" => RowOf(loaded[t]) = RowOf(written[key[t]])
      /\ pc[t] = "saveAll" => DOMAIN snapshot[t] \subseteq Cached
      /\ Promised /\ pc[t] = "saveAll" => snapshot[t] = store
      /\ Promised /\ pc[t] = "list" => listed[t] = CachedKeys

Kept ==
    Promised \/ Watched =>
      /\ CacheRight /\ WaitingRight /\ TableRight /\ LoadsRight
      /\ Watched => Waiting = {}

-----------------------------------------------------------------------------
(* A value without duplicates joins a queue without duplicates in front ... *)
LEMMA InFront ==
    ASSUME NEW K, NEW s \in Seq(K), IsInjective(s), NEW k \in K, k \notin Range(s)
    PROVE  /\ <<k>> \o s \in Seq(K) /\ IsInjective(<<k>> \o s)
           /\ Range(<<k>> \o s) = Range(s) \cup {k}
<1> DEFINE r == <<k>> \o s
<1>1. /\ r \in Seq(K) /\ Len(r) = Len(s) + 1 /\ Len(s) \in Nat /\ DOMAIN r = 1..Len(r)
      /\ DOMAIN s = 1..Len(s)
      /\ r[1] = k /\ \A i \in 1..Len(s) : r[i + 1] = s[i]
  OBVIOUS
<1>2. \A i \in DOMAIN r : i # 1 => i - 1 \in DOMAIN s /\ r[i] = s[i - 1]
  <2> SUFFICES ASSUME NEW i \in DOMAIN r, i # 1
               PROVE  i - 1 \in DOMAIN s /\ r[i] = s[i - 1]
    OBVIOUS
  <2>1. i - 1 \in 1..Len(s) /\ (i - 1) + 1 = i
    BY <1>1
  <2> HIDE DEF r
  <2> QED BY <2>1, <1>1
<1>3. \A i \in DOMAIN s : i + 1 \in DOMAIN r /\ r[i + 1] = s[i]
  <2> HIDE DEF r
  <2> QED BY <1>1
<1> HIDE DEF r
<1>4. Range(r) = Range(s) \cup {k}
  <2>1. Range(r) \subseteq Range(s) \cup {k}
    BY <1>1, <1>2 DEF Range
  <2>2. 1 \in DOMAIN r /\ r[1] = k
    BY <1>1
  <2>3. Range(s) \cup {k} \subseteq Range(r)
    BY <1>3, <2>2 DEF Range
  <2> QED BY <2>1, <2>3
<1>5. IsInjective(r)
  <2> SUFFICES ASSUME NEW i \in DOMAIN r, NEW j \in DOMAIN r, r[i] = r[j] PROVE i = j
    BY DEF IsInjective
  <2>1. i \in Int /\ j \in Int
    BY <1>1
  <2>2. CASE i = 1 \/ j = 1
    BY <1>1, <1>2, <2>2 DEF Range
  <2>3. CASE i # 1 /\ j # 1
    <3>1. i - 1 = j - 1
      BY <1>2, <2>3 DEF IsInjective
    <3> QED BY <3>1, <2>1
  <2> QED BY <2>2, <2>3
<1> QED BY <1>1, <1>4, <1>5 DEF r

(* ... or at the end; ...                                                   *)
LEMMA AtTheEnd ==
    ASSUME NEW K, NEW s \in Seq(K), IsInjective(s), NEW k \in K, k \notin Range(s)
    PROVE  /\ s \o <<k>> \in Seq(K) /\ IsInjective(s \o <<k>>)
           /\ Range(s \o <<k>>) = Range(s) \cup {k}
<1> DEFINE r == s \o <<k>>
           n == Len(s) + 1
<1>1. /\ r \in Seq(K) /\ Len(r) = n /\ Len(s) \in Nat /\ DOMAIN r = 1..n
      /\ DOMAIN s = 1..Len(s)
      /\ r[n] = k /\ \A i \in 1..Len(s) : r[i] = s[i]
  OBVIOUS
<1>2. \A i \in DOMAIN r : i # n => i \in DOMAIN s /\ r[i] = s[i]
  <2> HIDE DEF r
  <2> QED BY <1>1
<1>3. \A i \in DOMAIN s : i \in DOMAIN r /\ r[i] = s[i]
  <2> HIDE DEF r
  <2> QED BY <1>1
<1>4. n \in DOMAIN r
  <2> HIDE DEF r
  <2> QED BY <1>1
<1> HIDE DEF r, n
<1>5. Range(r) = Range(s) \cup {k}
  BY <1>1, <1>2, <1>3, <1>4 DEF Range
<1>6. IsInjective(r)
  <2> SUFFICES ASSUME NEW i \in DOMAIN r, NEW j \in DOMAIN r, r[i] = r[j] PROVE i = j
    BY DEF IsInjective
  <2>1. CASE i = n \/ j = n
    BY <1>1, <1>2, <2>1 DEF Range
  <2>2. CASE i # n /\ j # n
    BY <1>2, <2>2 DEF IsInjective
  <2> QED BY <2>1, <2>2
<1> QED BY <1>1, <1>5, <1>6 DEF r

(* ... and what is taken out at place i leaves the others as they are.      *)
LEMMA TakenOut ==
    ASSUME NEW K, NEW s \in Seq(K), IsInjective(s), NEW i \in DOMAIN s
    PROVE  /\ RemoveAt(s, i) \in Seq(K) /\ IsInjective(RemoveAt(s, i))
           /\ Range(RemoveAt(s, i)) = Range(s) \ {s[i]}
<1> DEFINE r == RemoveAt(s, i)
           n == Len(s)
<1>1. n \in Nat /\ DOMAIN s = 1..n /\ i \in 1..n
  OBVIOUS
<1> DEFINE a == SubSeq(s, 1, i - 1)
           b == SubSeq(s, i + 1, n)
<1>2. /\ a \in Seq(K) /\ Len(a) = i - 1 /\ \A j \in 1..(i - 1) : a[j] = s[j]
  BY <1>1
<1>3. /\ b \in Seq(K) /\ Len(b) = n - i /\ \A j \in 1..(n - i) : b[j] = s[i + j]
  BY <1>1
<1> HIDE DEF a, b
<1>4. /\ r \in Seq(K) /\ Len(r) = n - 1 /\ DOMAIN r = 1..(n - 1)
      /\ \A j \in 1..(n - 1) : r[j] = IF j < i THEN s[j] ELSE s[j + 1]
  <2>1. r = a \o b
    BY DEF RemoveAt, a, b
  <2>2. a \o b \in Seq(K) /\ Len(a \o b) = Len(a) + Len(b)
    BY <1>2, <1>3, ConcatProperties
  <2>3. \A j \in 1..(n - 1) : (a \o b)[j] = IF j < i THEN a[j] ELSE b[j - (i - 1)]
    BY <1>1, <1>2, <1>3
  <2>4. ASSUME NEW j \in 1..(n - 1)
        PROVE  (a \o b)[j] = IF j < i THEN s[j] ELSE s[j + 1]
    <3>1. CASE j < i
      BY <2>3, <2>4, <3>1, <1>1, <1>2
    <3>2. CASE ~(j < i)
      <4>1. j - (i - 1) \in 1..(n - i) /\ i + (j - (i - 1)) = j + 1
        BY <2>4, <3>2, <1>1
      <4> QED BY <2>3, <2>4, <3>2, <4>1, <1>3
    <3> QED BY <3>1, <3>2
  <2>5. Len(r) = n - 1 /\ r \in Seq(K)
    BY <2>1, <2>2, <1>1, <1>2, <1>3
  <2>6. DOMAIN r = 1..(n - 1)
    BY <2>5
  <2> QED BY <2>1, <2>4, <2>5, <2>6
<1> HIDE DEF r, n
<1> DEFINE from(j) == IF j < i THEN j ELSE j + 1
<1>5. \A j \in DOMAIN r : from(j) \in DOMAIN s /\ r[j] = s[from(j)] /\ from(j) # i
  BY <1>1, <1>4
<1>6. \A j, k \in DOMAIN r : from(j) = from(k) => j = k
  BY <1>1, <1>4
<1>7. \A m \in DOMAIN s : m # i => \E j \in DOMAIN r : from(j) = m
  <2> SUFFICES ASSUME NEW m \in DOMAIN s, m # i PROVE \E j \in DOMAIN r : from(j) = m
    OBVIOUS
  <2>1. CASE m < i
    <3>1. m \in DOMAIN r /\ from(m) = m
      BY <1>1, <1>4, <2>1
    <3> QED BY <3>1
  <2>2. CASE ~(m < i)
    <3>1. m - 1 \in DOMAIN r /\ from(m - 1) = m
      BY <1>1, <1>4, <2>2
    <3> QED BY <3>1
  <2> QED BY <2>1, <2>2
<1> HIDE DEF from
<1>8. Range(r) = Range(s) \ {s[i]}
  <2>1. ASSUME NEW x \in Range(r) PROVE x \in Range(s) \ {s[i]}
    <3>1. PICK j \in DOMAIN r : x = r[j]
      BY DEF Range
    <3> QED BY <3>1, <1>1, <1>5 DEF Range, IsInjective
  <2>2. ASSUME NEW x \in Range(s) \ {s[i]} PROVE x \in Range(r)
    <3>1. PICK m \in DOMAIN s : x = s[m] /\ m # i
      BY DEF Range
    <3>2. PICK j \in DOMAIN r : from(j) = m
      BY <3>1, <1>7
    <3> QED BY <3>1, <3>2, <1>5 DEF Range
  <2> QED BY <2>1, <2>2
<1>9. IsInjective(r)
  BY <1>5, <1>6 DEF IsInjective
<1> QED BY <1>4, <1>8, <1>9 DEF r

(* Without the last one, likewise.                                          *)
LEMMA LastOut ==
    ASSUME NEW K, NEW s \in Seq(K), IsInjective(s), s # <<>>
    PROVE  /\ Front(s) \in Seq(K) /\ IsInjective(Front(s)) /\ Last(s) \in Range(s)
           /\ Range(Front(s)) = Range(s) \ {Last(s)}
<1> DEFINE n == Len(s)
           r == Front(s)
<1>1. n \in Nat \ {0} /\ DOMAIN s = 1..n /\ n \in DOMAIN s /\ Last(s) = s[n]
  BY DEF Last
<1>2. /\ r \in Seq(K) /\ DOMAIN r = 1..(n - 1)
      /\ \A j \in 1..(n - 1) : r[j] = s[j]
  <2>1. SubSeq(s, 1, n - 1) \in Seq(K) /\ Len(SubSeq(s, 1, n - 1)) = n - 1
    BY <1>1
  <2>2. \A j \in 1..(n - 1) : SubSeq(s, 1, n - 1)[j] = s[j]
    BY <1>1
  <2> QED BY <2>1, <2>2 DEF Front
<1> HIDE DEF r, n
<1>3. \A j \in DOMAIN s : j # n => j \in DOMAIN r
  BY <1>1, <1>2
<1>4. \A j \in DOMAIN r : j \in DOMAIN s /\ j # n /\ r[j] = s[j]
  BY <1>1, <1>2
<1>5. IsInjective(r)
  BY <1>4 DEF IsInjective
<1>6. Range(r) = Range(s) \ {s[n]}
  BY <1>1, <1>3, <1>4 DEF Range, IsInjective
<1> QED BY <1>1, <1>2, <1>5, <1>6 DEF Range, r

-----------------------------------------------------------------------------
(* A row is a value that is not deleted, or none.                           *)
LEMMA RowFacts ==
    /\ NoRow \notin Values
    /\ \A v \in Values \cup {NoRow} :
         v.deleted \in BOOLEAN /\ RowOf(v) \in Values \cup {NoRow} /\ RowOf(RowOf(v)) = RowOf(v)
<1>1. \A v \in Values : v.number # 0 /\ v.deleted \in BOOLEAN
  BY DEF Values
<1>2. NoRow.number = 0 /\ NoRow.deleted = TRUE /\ RowOf(NoRow) = NoRow
  BY DEF NoRow, RowOf
<1>3. \A v \in Values : RowOf(v) = NoRow \/ RowOf(v) = v
  BY DEF RowOf
<1>4. NoRow \notin Values
  BY <1>1, <1>2
<1>5. \A v \in Values \cup {NoRow} : v.deleted \in BOOLEAN
  BY <1>1, <1>2
<1> QED BY <1>2, <1>3, <1>4, <1>5

(* Partial functions, from ...                                              *)
LEMMA InMaps ==
    ASSUME NEW D \in SUBSET Keys, NEW m \in [D -> Values]
    PROVE  m \in Maps
  BY DEF Maps

(* ... and to the keys and values of the store.                             *)
LEMMA OfMaps ==
    ASSUME NEW m \in Maps
    PROVE  /\ DOMAIN m \in SUBSET Keys /\ m \in [DOMAIN m -> Values]
           /\ \A k \in DOMAIN m : m[k] \in Values
<1>1. PICK D \in SUBSET Keys : m \in [D -> Values]
  BY DEF Maps
<1> QED BY <1>1

CacheTypes ==
    /\ store \in Maps /\ lruQueue \in Seq(Keys) /\ pending \in Seq(Entries)
    /\ IsInjective(lruQueue) /\ Range(lruQueue) = Cached
    /\ Cardinality(Cached) <= plan.size
RowTypes ==
    /\ table \in [Keys -> Values \cup {NoRow}]
    /\ written \in [Keys -> Values \cup {NoRow}]
    /\ writes \in 0..plan.writes /\ failures \in 0..plan.failures
LocalTypes ==
    /\ pc \in [Threads -> {"idle", "load", "fill", "evict", "save", "list", "saveAll"}]
    /\ key \in [Threads -> Keys]
    /\ loaded \in [Threads -> Values \cup {NoRow}]
    /\ batch \in [Threads -> Seq(Entries)]
    /\ snapshot \in [Threads -> Maps]
    /\ listed \in [Threads -> SUBSET Keys]

LEMMA Types == TypeOK <=> CacheTypes /\ RowTypes /\ LocalTypes
  BY DEF TypeOK, CacheTypes, RowTypes, LocalTypes

LEMMA TypesNext == TypeOK' <=> CacheTypes' /\ RowTypes' /\ LocalTypes'
  BY DEF TypeOK, CacheTypes, RowTypes, LocalTypes

(* What the plan says.                                                      *)
LEMMA PlanFacts ==
    ASSUME plan \in Plans
    PROVE  /\ plan.calls \in [Threads -> SUBSET Operations]
           /\ plan.size \in Nat \ {0} /\ plan.writes \in Nat /\ plan.failures \in Nat
  BY KvAssumption

(* The victim of an eviction that makes place for k.                        *)
Evicts(k, victim) ==
    /\ k \notin Cached /\ IsFull /\ victim \in Cached
    /\ Cached' = (Cached \ {victim}) \cup {k}
    /\ pending' = Append(pending, [key |-> victim, value |-> store[victim]])

Grows(k) == Cached' = Cached \cup {k} /\ pending' = pending

(* setLocked puts the value in the map and its key in the queue; the map    *)
(* keeps the others but for one that goes to pendingEvictions_, and does    *)
(* not outgrow its size.                                                    *)
LEMMA SetLockedSets ==
    ASSUME CacheTypes, plan \in Plans, plan' = plan,
           NEW k \in Keys, NEW value \in Values, SetLocked(k, value)
    PROVE  /\ CacheTypes'
           /\ k \in Cached' /\ store'[k] = value
           /\ \A j \in Cached' \ {k} : j \in Cached /\ store'[j] = store[j]
           /\ Grows(k) \/ \E victim : Evicts(k, victim)
<1>1. /\ Cached \in SUBSET Keys /\ store \in [Cached -> Values]
      /\ \A j \in Cached : store[j] \in Values
  BY OfMaps DEF CacheTypes, Cached
<1>2. /\ lruQueue \in Seq(Keys) /\ IsInjective(lruQueue) /\ Range(lruQueue) = Cached
      /\ pending \in Seq(Entries) /\ Cardinality(Cached) <= plan.size
  BY DEF CacheTypes
<1>3. IsFiniteSet(Cached) /\ Cardinality(Cached) \in Nat /\ plan.size \in Nat \ {0}
  BY <1>1, KvAssumption, FS_Subset, FS_CardinalityType, PlanFacts
<1>4. CASE /\ k \in Cached
           /\ store' = Replaced(k, value)
           /\ lruQueue' = <<k>> \o Without(k)
           /\ UNCHANGED pending
  <2>1. /\ store' \in [Cached -> Values] /\ Cached' = Cached
        /\ store'[k] = value /\ \A j \in Cached \ {k} : store'[j] = store[j]
    BY <1>1, <1>4 DEF Replaced, Cached
  <2>2. PICK i \in DOMAIN lruQueue : lruQueue[i] = k
    BY <1>2, <1>4 DEF Range
  <2>3. Place(k) \in DOMAIN lruQueue /\ lruQueue[Place(k)] = k
    BY <2>2 DEF Place
  <2>4. /\ Without(k) \in Seq(Keys) /\ IsInjective(Without(k))
        /\ Range(Without(k)) = Cached \ {k}
    BY <1>2, <2>3, TakenOut DEF Without
  <2>5. /\ lruQueue' \in Seq(Keys) /\ IsInjective(lruQueue')
        /\ Range(lruQueue') = Cached
    <3>1. k \notin Range(Without(k)) /\ (Cached \ {k}) \cup {k} = Cached
      BY <1>4, <2>4
    <3>2. /\ <<k>> \o Without(k) \in Seq(Keys) /\ IsInjective(<<k>> \o Without(k))
          /\ Range(<<k>> \o Without(k)) = Range(Without(k)) \cup {k}
      BY <2>4, <3>1, InFront
    <3> QED BY <1>4, <2>4, <3>1, <3>2
  <2>6. store' \in Maps
    BY <1>1, <2>1, InMaps
  <2>7. CacheTypes'
    BY <1>2, <1>4, <2>1, <2>5, <2>6 DEF CacheTypes
  <2> QED BY <1>4, <2>1, <2>7 DEF Grows
<1>5. CASE /\ k \notin Cached /\ ~IsFull
           /\ store' = [j \in Cached \cup {k} |-> IF j = k THEN value ELSE store[j]]
           /\ lruQueue' = <<k>> \o lruQueue
           /\ UNCHANGED pending
  <2>1. /\ store' \in [Cached \cup {k} -> Values] /\ Cached' = Cached \cup {k}
        /\ store'[k] = value /\ \A j \in Cached : store'[j] = store[j]
    BY <1>1, <1>5 DEF Cached
  <2>2. /\ lruQueue' \in Seq(Keys) /\ IsInjective(lruQueue')
        /\ Range(lruQueue') = Cached \cup {k}
    BY <1>2, <1>5, InFront
  <2>3. store' \in Maps
    BY <1>1, <2>1, InMaps
  <2>4. Cardinality(Cached') = Cardinality(Cached) + 1
    BY <1>3, <1>5, <2>1, FS_AddElement
  <2>5. Cardinality(Cached) < plan.size
    <3>1. CASE lruQueue = <<>>
      <4>1. Range(lruQueue) = {}
        BY <3>1 DEF Range
      <4>2. Cardinality(Cached) = 0
        BY <1>2, <4>1, FS_EmptySet
      <4> QED BY <1>3, <4>2
    <3>2. CASE lruQueue # <<>>
      BY <1>3, <1>5, <3>2 DEF IsFull
    <3> QED BY <3>1, <3>2
  <2>6. Cardinality(Cached') <= plan.size
    BY <1>3, <2>4, <2>5
  <2>7. CacheTypes'
    BY <1>2, <1>5, <2>1, <2>2, <2>3, <2>6 DEF CacheTypes
  <2> QED BY <1>5, <2>1, <2>7 DEF Grows
<1>6. CASE /\ k \notin Cached /\ IsFull
           /\ LET victim == Last(lruQueue)
              IN  /\ store' = [j \in (Cached \ {victim}) \cup {k} |->
                                 IF j = k THEN value ELSE store[j]]
                  /\ pending' = PutAside(victim)
           /\ lruQueue' = <<k>> \o Front(lruQueue)
  <2> DEFINE victim == Last(lruQueue)
             rest == Cached \ {victim}
  <2>1. /\ Front(lruQueue) \in Seq(Keys) /\ IsInjective(Front(lruQueue))
        /\ victim \in Cached /\ Range(Front(lruQueue)) = rest
    BY <1>2, <1>6, LastOut DEF IsFull
  <2>2. /\ store' = [j \in rest \cup {k} |-> IF j = k THEN value ELSE store[j]]
        /\ pending' = PutAside(victim)
        /\ lruQueue' = <<k>> \o Front(lruQueue)
    BY <1>6
  <2> HIDE DEF victim
  <2>3. /\ store' \in [rest \cup {k} -> Values] /\ Cached' = rest \cup {k}
        /\ store'[k] = value /\ \A j \in rest : store'[j] = store[j]
    BY <1>1, <1>6, <2>2 DEF Cached
  <2>4. /\ lruQueue' \in Seq(Keys) /\ IsInjective(lruQueue')
        /\ Range(lruQueue') = rest \cup {k}
    BY <1>6, <2>1, <2>2, InFront
  <2>5. store' \in Maps
    BY <1>1, <2>3, InMaps
  <2>6. Cardinality(Cached') <= plan.size
    <3>1. IsFiniteSet(rest) /\ Cardinality(rest) = Cardinality(Cached) - 1
      BY <1>3, <2>1, FS_RemoveElement
    <3>2. Cardinality(rest \cup {k}) = Cardinality(rest) + 1
      BY <1>6, <3>1, FS_AddElement
    <3> QED BY <1>2, <1>3, <2>3, <3>1, <3>2
  <2>7. pending' = Append(pending, [key |-> victim, value |-> store[victim]])
    BY <2>2 DEF PutAside
  <2>8. pending' \in Seq(Entries)
    <3>1. [key |-> victim, value |-> store[victim]] \in Entries
      BY <1>1, <2>1 DEF Entries
    <3> QED BY <1>2, <2>7, <3>1
  <2>9. CacheTypes'
    BY <2>3, <2>4, <2>5, <2>6, <2>8 DEF CacheTypes
  <2> QED BY <1>6, <2>1, <2>3, <2>7, <2>9 DEF Evicts
<1> QED BY <1>4, <1>5, <1>6 DEF SetLocked

-----------------------------------------------------------------------------
(* Somebody will take what is evicted.                                      *)
Pends == pending # <<>> => \E t \in Threads : pc[t] = "evict"

LEMMA Parts ==
    /\ KvInv <=> /\ CacheTypes /\ RowTypes /\ LocalTypes /\ plan \in Plans
                 /\ Working /\ RowsOnly /\ Pends
    /\ KvInv' <=> /\ CacheTypes' /\ RowTypes' /\ LocalTypes' /\ plan' \in Plans
                  /\ Working' /\ RowsOnly' /\ Pends'
  BY Types, TypesNext DEF KvInv, EvictionsTaken, Pends

(* What a thread does, in the terms of Working.                             *)
WorksAs(t) ==
    /\ pc[t] = "fill" => loaded[t] # NoRow
    /\ (pc[t] = "save") <=> (batch[t] # <<>>)
    /\ pc[t] # "idle" => plan.calls[t] # {}
    /\ pc[t] \notin {"idle", "saveAll"} => plan.calls[t] \ {"saveAll"} # {}

(* A step of one thread leaves the others at work.                          *)
LEMMA OthersWork ==
    ASSUME Working, LocalTypes, plan' = plan, NEW t \in Threads,
           NEW l, Goto(t, l),
           \A u \in Threads \ {t} : loaded'[u] = loaded[u] /\ batch'[u] = batch[u],
           WorksAs(t)'
    PROVE  Working'
<1>1. \A u \in Threads \ {t} : pc'[u] = pc[u]
  BY DEF LocalTypes, Goto
<1>2. \A u \in Threads \ {t} : WorksAs(u)'
  BY <1>1 DEF Working, WorksAs
<1>3. \A u \in Threads : WorksAs(u)'
  BY <1>2
<1> QED BY <1>3 DEF Working, WorksAs

(* ... and their evictions, when it evicts nothing and was not to take any. *)
LEMMA OthersTake ==
    ASSUME Pends, LocalTypes, NEW t \in Threads, NEW l, Goto(t, l),
           pc[t] # "evict", pending' = pending
    PROVE  Pends'
  BY DEF Pends, LocalTypes, Goto

LEMMA SetTypes ==
    ASSUME KvInv, NEW t \in Threads, NEW k \in Keys, NEW deleted \in BOOLEAN, Set(t, k, deleted)
    PROVE  KvInv'
<1> DEFINE value == [number |-> Cardinality(Keys) + writes + 1, deleted |-> deleted]
<1>1. /\ CacheTypes /\ RowTypes /\ LocalTypes /\ plan \in Plans /\ Working /\ RowsOnly /\ Pends
  BY Parts
<1>2. /\ SetLocked(k, value) /\ written' = [written EXCEPT ![k] = value]
      /\ writes < plan.writes /\ writes' = writes + 1 /\ Goto(t, "evict")
      /\ Begins(t, IF deleted THEN "remove" ELSE "set")
      /\ UNCHANGED <<plan, table, key, loaded, batch, snapshot, listed, failures>>
  BY DEF Set, AfterSetLocked, locals
<1>3. value \in Values
  <2>1. Cardinality(Keys) \in Nat /\ writes \in Nat /\ plan.writes \in Nat
    BY <1>1, KvAssumption, FS_CardinalityType, PlanFacts DEF RowTypes
  <2>2. value \in [number : 1..(Cardinality(Keys) + plan.writes), deleted : BOOLEAN]
    BY <1>2, <2>1
  <2> QED BY <1>1, <2>2 DEF Values
<1> HIDE DEF value
<1>4. CacheTypes'
  BY <1>1, <1>2, <1>3, SetLockedSets
<1>5. RowTypes'
  BY <1>1, <1>2, <1>3, PlanFacts DEF RowTypes
<1>6. LocalTypes' /\ pc'[t] = "evict"
  BY <1>1, <1>2 DEF LocalTypes, Goto
<1>7. Working'
  <2>1. plan.calls[t] \ {"saveAll"} # {} /\ pc[t] = "idle"
    BY <1>2 DEF Begins
  <2>2. WorksAs(t)'
    BY <1>1, <1>2, <1>6, <2>1 DEF Working, WorksAs
  <2> QED BY <1>1, <1>2, <2>2, OthersWork
<1>8. RowsOnly' /\ Pends'
  BY <1>1, <1>2, <1>6 DEF RowsOnly, Pends
<1> QED BY <1>1, <1>2, <1>4, <1>5, <1>6, <1>7, <1>8, Parts

LEMMA FillTypes ==
    ASSUME KvInv, NEW t \in Threads, Fill(t)
    PROVE  KvInv'
<1>1. /\ CacheTypes /\ RowTypes /\ LocalTypes /\ plan \in Plans /\ Working /\ RowsOnly /\ Pends
  BY Parts
<1>2. /\ SetLocked(key[t], loaded[t]) /\ loaded' = [loaded EXCEPT ![t] = NoRow]
      /\ Goto(t, "evict") /\ pc[t] = "fill"
      /\ UNCHANGED <<plan, table, key, batch, snapshot, listed, written, writes, failures>>
  BY DEF Fill, AfterSetLocked
<1>3. loaded[t] \in Values /\ key[t] \in Keys
  BY <1>1, <1>2 DEF LocalTypes, Working
<1>4. CacheTypes'
  BY <1>1, <1>2, <1>3, SetLockedSets
<1>5. RowTypes'
  BY <1>1, <1>2 DEF RowTypes
<1>6. LocalTypes' /\ pc'[t] = "evict"
  BY <1>1, <1>2 DEF LocalTypes, Goto
<1>7. Working'
  <2>1. WorksAs(t)'
    BY <1>1, <1>2, <1>6 DEF Working, WorksAs
  <2>2. \A u \in Threads \ {t} : loaded'[u] = loaded[u] /\ batch'[u] = batch[u]
    BY <1>1, <1>2 DEF LocalTypes
  <2> QED BY <1>1, <1>2, <2>1, <2>2, OthersWork
<1>8. RowsOnly' /\ Pends'
  BY <1>1, <1>2, <1>6 DEF RowsOnly, Pends
<1> QED BY <1>1, <1>2, <1>4, <1>5, <1>6, <1>7, <1>8, Parts

LEMMA HitTypes ==
    ASSUME KvInv, NEW t \in Threads, NEW k \in Keys, Hit(t, k)
    PROVE  KvInv'
<1>1. /\ CacheTypes /\ RowTypes /\ LocalTypes /\ plan \in Plans /\ Working /\ RowsOnly /\ Pends
  BY Parts
<1>2. /\ k \in Cached
      /\ lruQueue' = IF store[k].deleted THEN Without(k) \o <<k>> ELSE <<k>> \o Without(k)
      /\ UNCHANGED <<plan, store, pending, table, pc, key, loaded, batch, snapshot, listed,
                     written, writes, failures>>
  BY DEF Hit, locals
<1>3. PICK i \in DOMAIN lruQueue : lruQueue[i] = k
  BY <1>1, <1>2 DEF CacheTypes, Range
<1>4. Place(k) \in DOMAIN lruQueue /\ lruQueue[Place(k)] = k
  BY <1>3 DEF Place
<1>5. /\ Without(k) \in Seq(Keys) /\ IsInjective(Without(k))
      /\ Range(Without(k)) = Cached \ {k}
  BY <1>1, <1>4, TakenOut DEF Without, CacheTypes
<1>6. /\ <<k>> \o Without(k) \in Seq(Keys) /\ IsInjective(<<k>> \o Without(k))
      /\ Range(<<k>> \o Without(k)) = (Cached \ {k}) \cup {k}
  BY <1>5, InFront
<1>7. /\ Without(k) \o <<k>> \in Seq(Keys) /\ IsInjective(Without(k) \o <<k>>)
      /\ Range(Without(k) \o <<k>>) = (Cached \ {k}) \cup {k}
  BY <1>5, AtTheEnd
<1>8. (Cached \ {k}) \cup {k} = Cached
  BY <1>2
<1>9. /\ lruQueue' \in Seq(Keys) /\ IsInjective(lruQueue') /\ Range(lruQueue') = Cached
  BY <1>2, <1>6, <1>7, <1>8
<1>10. CacheTypes'
  BY <1>1, <1>2, <1>9 DEF CacheTypes, Cached
<1>11. RowTypes' /\ LocalTypes' /\ Working' /\ RowsOnly' /\ Pends'
  BY <1>1, <1>2 DEF RowTypes, LocalTypes, Working, RowsOnly, Pends
<1> QED BY <1>1, <1>2, <1>10, <1>11, Parts

LEMMA MissTypes ==
    ASSUME KvInv, NEW t \in Threads, NEW k \in Keys, Miss(t, k)
    PROVE  KvInv'
<1>1. /\ CacheTypes /\ RowTypes /\ LocalTypes /\ plan \in Plans /\ Working /\ RowsOnly /\ Pends
  BY Parts
<1>2. /\ key' = [key EXCEPT ![t] = k] /\ Goto(t, "load")
      /\ pc[t] = "idle" /\ plan.calls[t] \ {"saveAll"} # {}
      /\ UNCHANGED <<plan, store, lruQueue, pending, table, loaded, batch, snapshot, listed,
                     written, writes, failures>>
  BY DEF Miss, Begins, cache
<1>3. CacheTypes' /\ RowTypes'
  BY <1>1, <1>2 DEF CacheTypes, RowTypes, Cached
<1>4. LocalTypes' /\ pc'[t] = "load"
  BY <1>1, <1>2 DEF LocalTypes, Goto
<1>5. WorksAs(t)'
  BY <1>1, <1>2, <1>4 DEF Working, WorksAs
<1>6. Working' /\ RowsOnly' /\ Pends'
  BY <1>1, <1>2, <1>5, OthersWork, OthersTake DEF RowsOnly
<1> QED BY <1>1, <1>2, <1>3, <1>4, <1>6, Parts

LEMMA LoadTypes ==
    ASSUME KvInv, NEW t \in Threads, Load(t)
    PROVE  KvInv'
<1> DEFINE l == IF Found(table[key[t]]) THEN "fill" ELSE "idle"
<1>1. /\ CacheTypes /\ RowTypes /\ LocalTypes /\ plan \in Plans /\ Working /\ RowsOnly /\ Pends
  BY Parts
<1>2. /\ loaded' = [loaded EXCEPT ![t] = table[key[t]]] /\ Goto(t, l)
      /\ pc[t] = "load"
      /\ UNCHANGED <<plan, store, lruQueue, pending, table, key, batch, snapshot, listed,
                     written, writes, failures>>
  BY DEF Load, cache
<1>3. CacheTypes' /\ RowTypes'
  BY <1>1, <1>2 DEF CacheTypes, RowTypes, Cached
<1>4. LocalTypes' /\ pc'[t] = l /\ loaded'[t] = table[key[t]]
  BY <1>1, <1>2 DEF LocalTypes, RowTypes, Goto
<1>5. l = "fill" => table[key[t]] # NoRow
  BY DEF Found
<1>6. l \in {"fill", "idle"}
  OBVIOUS
<1> HIDE DEF l
<1>7. WorksAs(t)'
  BY <1>1, <1>2, <1>4, <1>5, <1>6 DEF Working, WorksAs
<1>8. \A u \in Threads \ {t} : loaded'[u] = loaded[u] /\ batch'[u] = batch[u]
  BY <1>1, <1>2 DEF LocalTypes
<1>9. Working' /\ RowsOnly' /\ Pends'
  BY <1>1, <1>2, <1>7, <1>8, OthersWork, OthersTake DEF RowsOnly
<1> QED BY <1>1, <1>2, <1>3, <1>4, <1>9, Parts

LEMMA TakeTypes ==
    ASSUME KvInv, NEW t \in Threads, TakeEvictions(t)
    PROVE  KvInv'
<1> DEFINE l == IF pending = <<>> THEN "idle" ELSE "save"
<1>1. /\ CacheTypes /\ RowTypes /\ LocalTypes /\ plan \in Plans /\ Working /\ RowsOnly /\ Pends
  BY Parts
<1>2. /\ batch' = [batch EXCEPT ![t] = pending] /\ pending' = <<>> /\ Goto(t, l)
      /\ pc[t] = "evict"
      /\ UNCHANGED <<plan, store, lruQueue, table, key, loaded, snapshot, listed,
                     written, writes, failures>>
  BY DEF TakeEvictions, LeftBehind
<1>3. CacheTypes' /\ RowTypes'
  BY <1>1, <1>2 DEF CacheTypes, RowTypes, Cached
<1>4. LocalTypes' /\ pc'[t] = l /\ batch'[t] = pending
  BY <1>1, <1>2 DEF LocalTypes, CacheTypes, Goto
<1>5. WorksAs(t)'
  BY <1>1, <1>2, <1>4 DEF Working, WorksAs
<1>6. \A u \in Threads \ {t} : loaded'[u] = loaded[u] /\ batch'[u] = batch[u]
  BY <1>1, <1>2 DEF LocalTypes
<1>7. Working' /\ RowsOnly' /\ Pends'
  <2> HIDE DEF l
  <2> QED BY <1>1, <1>2, <1>5, <1>6, OthersWork DEF RowsOnly, Pends
<1> QED BY <1>1, <1>2, <1>3, <1>4, <1>7, Parts

LEMMA SaveTypes ==
    ASSUME KvInv, NEW t \in Threads, SaveEvicted(t)
    PROVE  KvInv'
<1> DEFINE l == IF Len(batch[t]) = 1 THEN "idle" ELSE "save"
           entry == Head(batch[t])
<1>1. /\ CacheTypes /\ RowTypes /\ LocalTypes /\ plan \in Plans /\ Working /\ RowsOnly /\ Pends
  BY Parts
<1>2. /\ \/ table' = [table EXCEPT ![entry.key] = RowOf(entry.value)] /\ UNCHANGED failures
         \/ failures < plan.failures /\ failures' = failures + 1 /\ UNCHANGED table
      /\ batch' = [batch EXCEPT ![t] = Tail(@)] /\ Goto(t, l) /\ pc[t] = "save"
      /\ UNCHANGED <<plan, store, lruQueue, pending, key, loaded, snapshot, listed,
                     written, writes>>
  BY DEF SaveEvicted, cache
<1>3. /\ batch[t] \in Seq(Entries) /\ batch[t] # <<>> /\ entry \in Entries
      /\ Len(batch[t]) \in Nat \ {0} /\ Tail(batch[t]) \in Seq(Entries)
      /\ Len(Tail(batch[t])) = Len(batch[t]) - 1
  <2>1. batch[t] \in Seq(Entries) /\ batch[t] # <<>>
    BY <1>1, <1>2 DEF LocalTypes, Working
  <2> QED BY <2>1
<1>4. entry.key \in Keys /\ entry.value \in Values
  BY <1>3 DEF Entries
<1> HIDE DEF entry
<1>5. CacheTypes'
  BY <1>1, <1>2 DEF CacheTypes, Cached
<1>6. RowTypes' /\ RowsOnly'
  <2>1. RowOf(entry.value) \in Values \cup {NoRow} /\ RowOf(RowOf(entry.value)) = RowOf(entry.value)
    BY <1>4, RowFacts
  <2>2. CASE table' = [table EXCEPT ![entry.key] = RowOf(entry.value)] /\ UNCHANGED failures
    BY <1>1, <1>2, <1>4, <2>1, <2>2 DEF RowTypes, RowsOnly
  <2>3. CASE failures < plan.failures /\ failures' = failures + 1 /\ UNCHANGED table
    BY <1>1, <1>2, <2>3, PlanFacts DEF RowTypes, RowsOnly
  <2> QED BY <1>2, <2>2, <2>3
<1>7. LocalTypes' /\ pc'[t] = l /\ batch'[t] = Tail(batch[t])
  BY <1>1, <1>2, <1>3 DEF LocalTypes, Goto
<1>8. (l = "save") <=> (Tail(batch[t]) # <<>>)
  <2>1. (Tail(batch[t]) = <<>>) <=> (Len(Tail(batch[t])) = 0)
    BY <1>3, EmptySeq
  <2>2. (Len(Tail(batch[t])) = 0) <=> (Len(batch[t]) = 1)
    BY <1>3
  <2> QED BY <2>1, <2>2
<1>9. l \in {"idle", "save"}
  OBVIOUS
<1> HIDE DEF l
<1>10. WorksAs(t)'
  BY <1>1, <1>2, <1>7, <1>8, <1>9 DEF Working, WorksAs
<1>11. \A u \in Threads \ {t} : loaded'[u] = loaded[u] /\ batch'[u] = batch[u]
  BY <1>1, <1>2 DEF LocalTypes
<1>12. Working' /\ Pends'
  BY <1>1, <1>2, <1>10, <1>11, OthersWork, OthersTake
<1> QED BY <1>1, <1>2, <1>5, <1>6, <1>7, <1>12, Parts

LEMMA ListTypes ==
    ASSUME KvInv, NEW t \in Threads, ListCached(t) \/ ListStored(t) \/ GetStore(t)
    PROVE  KvInv'
<1>1. /\ CacheTypes /\ RowTypes /\ LocalTypes /\ plan \in Plans /\ Working /\ RowsOnly /\ Pends
  BY Parts
<1>2. /\ UNCHANGED <<plan, store, lruQueue, pending, table, key, loaded, batch,
                     written, writes, failures>>
      /\ pc[t] \in {"idle", "list"}
      /\ \E l \in {"list", "idle", "saveAll"} :
           /\ Goto(t, l)
           /\ l # "idle" => plan.calls[t] # {}
           /\ l = "list" => plan.calls[t] \ {"saveAll"} # {}
  BY DEF ListCached, ListStored, GetStore, Begins, cache
<1>3. CacheTypes' /\ RowTypes'
  BY <1>1, <1>2 DEF CacheTypes, RowTypes, Cached
<1>4. CachedKeys \in SUBSET Keys /\ store \in Maps
  BY <1>1, OfMaps DEF CachedKeys, CacheTypes, Cached
<1>5. listed' \in [Threads -> SUBSET Keys] /\ snapshot' \in [Threads -> Maps]
  BY <1>1, <1>4 DEF ListCached, ListStored, GetStore, LocalTypes
<1>6. LocalTypes' /\ WorksAs(t)'
  BY <1>1, <1>2, <1>5 DEF LocalTypes, Goto, Working, WorksAs
<1>7. Working' /\ RowsOnly' /\ Pends'
  BY <1>1, <1>2, <1>6, OthersWork, OthersTake DEF RowsOnly
<1> QED BY <1>1, <1>2, <1>3, <1>6, <1>7, Parts

LEMMA SaveAllTypes ==
    ASSUME KvInv, NEW t \in Threads, SaveAllWrites(t)
    PROVE  KvInv'
<1>1. /\ CacheTypes /\ RowTypes /\ LocalTypes /\ plan \in Plans /\ Working /\ RowsOnly /\ Pends
  BY Parts
<1>2. /\ \/ SaveRows(t, Saved(t)) /\ UNCHANGED failures
         \/ /\ failures < plan.failures /\ failures' = failures + 1
            /\ \E saved \in SUBSET Saved(t) : SaveRows(t, saved)
      /\ snapshot' = [snapshot EXCEPT ![t] = [k \in {} |-> NoRow]]
      /\ pc[t] = "saveAll" /\ Goto(t, "idle")
      /\ UNCHANGED <<plan, store, lruQueue, pending, key, loaded, batch, listed,
                     written, writes>>
  BY DEF SaveAllWrites, cache
<1>3. PICK saved \in SUBSET Saved(t) : SaveRows(t, saved)
  BY <1>2
<1>4. CacheTypes'
  BY <1>1, <1>2 DEF CacheTypes, Cached
<1>5. snapshot[t] \in Maps /\ \A k \in saved : snapshot[t][k] \in Values
  BY <1>1, <1>3, OfMaps DEF LocalTypes, Saved
<1>6. \A k \in saved : RowOf(snapshot[t][k]) \in Values \cup {NoRow}
                       /\ RowOf(RowOf(snapshot[t][k])) = RowOf(snapshot[t][k])
  BY <1>5, RowFacts
<1>7. table' = [k \in Keys |-> IF k \in saved THEN RowOf(snapshot[t][k]) ELSE table[k]]
  BY <1>3 DEF SaveRows
<1>8. failures' \in 0..plan.failures
  BY <1>1, <1>2, PlanFacts DEF RowTypes
<1>9. RowTypes' /\ RowsOnly'
  <2>1. table' \in [Keys -> Values \cup {NoRow}] /\ RowsOnly'
    BY <1>1, <1>6, <1>7 DEF RowTypes, RowsOnly
  <2> QED BY <1>1, <1>2, <1>8, <2>1 DEF RowTypes
<1>10. [k \in {} |-> NoRow] \in Maps
  <2>1. [k \in {} |-> NoRow] \in [{} -> Values]
    OBVIOUS
  <2> QED BY <2>1, InMaps
<1>11. LocalTypes' /\ WorksAs(t)'
  BY <1>1, <1>2, <1>10 DEF LocalTypes, Goto, Working, WorksAs
<1>12. Working' /\ Pends'
  BY <1>1, <1>2, <1>11, OthersWork, OthersTake
<1> QED BY <1>1, <1>2, <1>4, <1>9, <1>11, <1>12, Parts

LEMMA InitTypes == Init => KvInv
<1> SUFFICES ASSUME Init PROVE KvInv
  OBVIOUS
<1>1. plan \in Plans /\ plan.writes \in Nat /\ plan.failures \in Nat /\ plan.size \in Nat
      /\ Cardinality(Keys) \in Nat
  BY PlanFacts, KvAssumption, FS_CardinalityType DEF Init
<1>2. [k \in {} |-> NoRow] \in Maps
  <2>1. [k \in {} |-> NoRow] \in [{} -> Values]
    OBVIOUS
  <2> QED BY <2>1, InMaps
<1>3. CacheTypes
  <2>1. Cached = {} /\ lruQueue = <<>> /\ pending = <<>> /\ Cardinality({}) = 0
    BY FS_EmptySet DEF Init, Cached
  <2>2. IsInjective(lruQueue) /\ Range(lruQueue) = {}
    BY <2>1 DEF IsInjective, Range
  <2> QED BY <1>1, <1>2, <2>1, <2>2 DEF CacheTypes, Init
<1>4. PICK number \in [Keys -> 0..Cardinality(Keys)] :
        table = [k \in Keys |-> [number |-> number[k], deleted |-> number[k] = 0]]
  BY DEF Init
<1>5. \A k \in Keys : table[k] \in Values \cup {NoRow} /\ RowOf(table[k]) = table[k]
  <2> SUFFICES ASSUME NEW k \in Keys
               PROVE  table[k] \in Values \cup {NoRow} /\ RowOf(table[k]) = table[k]
    OBVIOUS
  <2>1. table[k] = [number |-> number[k], deleted |-> number[k] = 0]
    BY <1>4
  <2>2. CASE number[k] = 0
    <3>1. table[k] = NoRow
      BY <2>1, <2>2 DEF NoRow
    <3> QED BY <3>1 DEF RowOf
  <2>3. CASE number[k] # 0
    <3>1. table[k] = [number |-> number[k], deleted |-> FALSE]
      BY <2>1, <2>3
    <3>2. number[k] \in 1..(Cardinality(Keys) + plan.writes)
      BY <1>1, <2>3
    <3>3. table[k] \in Values
      BY <1>1, <3>1, <3>2 DEF Values
    <3> QED BY <3>1, <3>3 DEF RowOf
  <2> QED BY <2>2, <2>3
<1>6. RowTypes /\ RowsOnly
  BY <1>1, <1>4, <1>5 DEF RowTypes, RowsOnly, Init
<1>7. LocalTypes
  <2>1. (CHOOSE k \in Keys : TRUE) \in Keys
    BY KvAssumption
  <2> QED BY <1>2, <2>1 DEF LocalTypes, Init
<1>8. Working /\ Pends
  BY DEF Working, Pends, Init
<1> QED BY <1>1, <1>3, <1>6, <1>7, <1>8, Parts

LEMMA NextTypes == KvInv /\ [Next]_vars => KvInv'
<1> SUFFICES ASSUME KvInv, [Next]_vars PROVE KvInv'
  OBVIOUS
<1>1. CASE UNCHANGED vars
  BY <1>1, Parts DEF vars, cache, locals, CacheTypes, RowTypes, LocalTypes, Working, RowsOnly,
     Pends, Cached
<1>2. CASE Next
  BY <1>2, SetTypes, FillTypes, HitTypes, MissTypes, LoadTypes, TakeTypes, SaveTypes,
     ListTypes, SaveAllTypes DEF Next, Goes, Calls
<1> QED BY <1>1, <1>2

LEMMA KvInvHolds == Spec => []KvInv
  BY InitTypes, NextTypes, PTL DEF Spec

(* The cache and its queue agree and do not outgrow their size, whatever    *)
(* the threads move, insert, evict and load at the same time; and nothing   *)
(* that was evicted is left behind (KVStore::setLocked, get,                *)
(* processEvictions).                                                       *)
THEOREM EvictionsAreTaken == Spec => []EvictionsTaken
<1>1. KvInv => EvictionsTaken
  BY DEF KvInv
<1> QED BY <1>1, KvInvHolds, PTL

-----------------------------------------------------------------------------
(* One thread at a time uses the store, but for another that only saves.    *)
Uses(t) == plan.calls[t] \ {"saveAll"} # {} \/ (Promised /\ plan.calls[t] # {})

LEMMA OthersRest ==
    ASSUME KvInv, Promised \/ Watched, NEW t \in Threads, Uses(t)
    PROVE  \A u \in Threads \ {t} :
             pc[u] \in {"idle", "saveAll"} /\ (Promised => pc[u] = "idle")
<1>1. Working /\ IsFiniteSet(Threads)
      /\ \A u \in Threads : pc[u] \in {"idle", "load", "fill", "evict", "save", "list", "saveAll"}
  BY Parts, KvAssumption DEF LocalTypes
<1>2. ASSUME NEW S \in SUBSET Threads, Cardinality(S) = 1, t \in S, NEW u \in S PROVE u = t
  <2>1. PICK x : S = {x}
    BY <1>1, <1>2, FS_Subset, FS_Singleton
  <2> QED BY <1>2, <2>1
<1>3. SUFFICES ASSUME NEW u \in Threads \ {t}
               PROVE  pc[u] \in {"idle", "saveAll"} /\ (Promised => pc[u] = "idle")
  OBVIOUS
<1>4. CASE Promised
  <2>1. Callers \in SUBSET Threads /\ Cardinality(Callers) = 1 /\ t \in Callers
    BY <1>4 DEF Promised, Alone, Callers, Uses
  <2>2. u \notin Callers
    BY <1>2, <1>3, <2>1
  <2> QED BY <1>1, <2>2 DEF Working, Callers
<1>5. CASE ~Promised /\ Watched
  <2> DEFINE clients == {v \in Threads : plan.calls[v] \ {"saveAll"} # {}}
  <2>1. clients \in SUBSET Threads /\ Cardinality(clients) = 1 /\ t \in clients
    BY <1>5 DEF Watched, OneClient, Uses
  <2>2. u \notin clients
    BY <1>2, <1>3, <2>1
  <2> QED BY <1>1, <1>5, <2>2 DEF Working
<1> QED BY <1>4, <1>5

(* What is evicted waits for a thread that has to take or to save it.       *)
LEMMA NothingWaits ==
    ASSUME KvInv, \A u \in Threads : pc[u] \notin {"evict", "save"}
    PROVE  Waiting = {} /\ pending = <<>> /\ \A u \in Threads : batch[u] = <<>>
<1>1. pending = <<>> /\ \A u \in Threads : batch[u] = <<>>
  BY Parts DEF Pends, Working
<1>2. Range(<<>>) = {}
  BY DEF Range
<1> QED BY <1>1, <1>2 DEF Waiting

(* setLocked with the value set last, or one as good.                       *)
LEMMA SetLockedKeeps ==
    ASSUME KvInv, Kept, Promised \/ Watched,
           NEW t \in Threads, Uses(t), pc[t] \notin {"evict", "save"}, Goto(t, "evict"),
           NEW k \in Keys, NEW value \in Values, SetLocked(k, value),
           UNCHANGED <<plan, table, key, batch, snapshot, listed>>,
           \A u \in Threads \ {t} : loaded'[u] = loaded[u],
           RowOf(value) = RowOf(written'[k]),
           \A j \in Keys \ {k} : written'[j] = written[j]
    PROVE  Kept'
<1>1. CacheRight /\ WaitingRight /\ TableRight /\ LoadsRight
  BY DEF Kept
<1>2. /\ CacheTypes /\ LocalTypes /\ plan \in Plans
      /\ Cached \in SUBSET Keys /\ IsFiniteSet(Keys) /\ plan.size \in Nat
  BY Parts, OfMaps, KvAssumption, PlanFacts DEF CacheTypes, Cached
<1>3. \A u \in Threads \ {t} :
        pc[u] \in {"idle", "saveAll"} /\ (Promised => pc[u] = "idle")
  BY OthersRest
<1>4. Waiting = {} /\ pending = <<>> /\ \A u \in Threads : batch[u] = <<>>
  BY <1>3, NothingWaits
<1>5. /\ k \in Cached' /\ store'[k] = value
      /\ \A j \in Cached' \ {k} : j \in Cached /\ store'[j] = store[j]
      /\ Grows(k) \/ \E victim : Evicts(k, victim)
  BY <1>2, SetLockedSets
<1>6. pc'[t] = "evict" /\ \A u \in Threads \ {t} : pc'[u] = pc[u]
  BY <1>2 DEF LocalTypes, Goto
<1>7. (Promised' <=> Promised) /\ (Watched' <=> Watched)
  BY DEF Promised, Watched, Alone, Callers, OneClient, NeverForces, NeverEvicts
<1>8. CacheRight'
  <2>1. \A j \in Cached' \ {k} : RowOf(store'[j]) = RowOf(written'[j])
    BY <1>1, <1>2, <1>5 DEF CacheRight
  <2> QED BY <1>5, <2>1 DEF CacheRight
<1>9. \A j \in Keys \ Cached : RowOf(table[j]) = RowOf(written[j])
  BY <1>1, <1>4 DEF TableRight
<1>10. \A u \in Threads : batch'[u] = <<>>
  BY <1>4
<1>11. Range(<<>>) = {} /\ Waiting' = Range(pending')
  BY <1>10 DEF Waiting, Range
<1>12. CASE Grows(k)
  <2>1. Waiting' = {}
    BY <1>4, <1>11, <1>12 DEF Grows
  <2>2. WaitingRight'
    BY <2>1 DEF WaitingRight
  <2>3. TableRight'
    BY <1>9, <1>5, <1>12 DEF TableRight, Grows
  <2>4. LoadsRight'
    BY <1>1, <1>3, <1>6, <1>7, <1>12 DEF LoadsRight, Grows
  <2> QED BY <1>8, <2>1, <2>2, <2>3, <2>4 DEF Kept
<1>13. CASE \E victim : Evicts(k, victim)
  <2>1. PICK victim : Evicts(k, victim)
    BY <1>13
  <2>2. /\ k \notin Cached /\ Cardinality(Cached) >= plan.size
        /\ victim \in Cached /\ victim # k
        /\ Cached' = (Cached \ {victim}) \cup {k}
        /\ pending' = Append(pending, [key |-> victim, value |-> store[victim]])
    BY <2>1 DEF Evicts, IsFull
  <2>3. ~Watched
    <3>1. Cardinality(Cached) < Cardinality(Keys)
      <4>1. Cached \subseteq Keys /\ Cached # Keys
        BY <1>2, <2>2
      <4>2. Cardinality(Cached) <= Cardinality(Keys) /\ Cardinality(Cached) # Cardinality(Keys)
            /\ Cardinality(Cached) \in Nat /\ Cardinality(Keys) \in Nat
        BY <1>2, <4>1, FS_Subset, FS_CardinalityType
      <4> QED BY <4>2
    <3>2. Cardinality(Cached) \in Nat /\ Cardinality(Keys) \in Nat
      BY <1>2, FS_Subset, FS_CardinalityType
    <3> QED BY <1>2, <2>2, <3>1, <3>2 DEF Watched, NeverEvicts
  <2> DEFINE e == [key |-> victim, value |-> store[victim]]
  <2>4. Waiting' = {e}
    <3>1. Append(<<>>, e) = <<e>> /\ Range(<<e>>) = {e}
      BY DEF Range
    <3> QED BY <1>4, <1>11, <2>2, <3>1
  <2>5. e.key = victim /\ e.value = store[victim]
    OBVIOUS
  <2> HIDE DEF e
  <2>6. RowOf(store[victim]) = RowOf(written'[victim])
    BY <1>1, <1>2, <2>2 DEF CacheRight
  <2>7. WaitingRight'
    BY <2>4, <2>5, <2>6 DEF WaitingRight
  <2>8. TableRight'
    BY <1>9, <2>2, <2>4, <2>5 DEF TableRight
  <2>9. LoadsRight'
    BY <1>3, <1>6, <1>7, <2>3 DEF LoadsRight
  <2> QED BY <1>7, <1>8, <2>3, <2>7, <2>8, <2>9 DEF Kept
<1> QED BY <1>5, <1>12, <1>13

LEMMA SetKeeps ==
    ASSUME KvInv, Kept, Promised \/ Watched, NEW t \in Threads, NEW k \in Keys,
           NEW deleted \in BOOLEAN, Set(t, k, deleted)
    PROVE  Kept'
<1> DEFINE value == [number |-> Cardinality(Keys) + writes + 1, deleted |-> deleted]
<1>1. RowTypes /\ plan \in Plans
  BY Parts
<1>2. /\ SetLocked(k, value) /\ written' = [written EXCEPT ![k] = value]
      /\ writes < plan.writes /\ Goto(t, "evict")
      /\ pc[t] = "idle" /\ plan.calls[t] \ {"saveAll"} # {}
      /\ UNCHANGED <<plan, table, key, loaded, batch, snapshot, listed>>
  BY DEF Set, AfterSetLocked, locals, Begins
<1>3. value \in Values
  <2>1. Cardinality(Keys) \in Nat /\ writes \in Nat /\ plan.writes \in Nat
    BY <1>1, KvAssumption, FS_CardinalityType, PlanFacts DEF RowTypes
  <2>2. value \in [number : 1..(Cardinality(Keys) + plan.writes), deleted : BOOLEAN]
    BY <1>2, <2>1
  <2> QED BY <1>1, <2>2 DEF Values
<1> HIDE DEF value
<1>4. written'[k] = value /\ \A j \in Keys \ {k} : written'[j] = written[j]
  BY <1>1, <1>2 DEF RowTypes
<1> QED BY <1>2, <1>3, <1>4, SetLockedKeeps DEF Uses

LEMMA FillKeeps ==
    ASSUME KvInv, Kept, Promised \/ Watched, NEW t \in Threads, Fill(t)
    PROVE  Kept'
<1>1. LocalTypes /\ Working
  BY Parts
<1>2. /\ SetLocked(key[t], loaded[t]) /\ loaded' = [loaded EXCEPT ![t] = NoRow]
      /\ Goto(t, "evict") /\ pc[t] = "fill"
      /\ UNCHANGED <<plan, table, key, batch, snapshot, listed, written>>
  BY DEF Fill, AfterSetLocked
<1>3. loaded[t] \in Values /\ key[t] \in Keys /\ plan.calls[t] \ {"saveAll"} # {}
      /\ \A u \in Threads \ {t} : loaded'[u] = loaded[u]
  BY <1>1, <1>2 DEF LocalTypes, Working
<1>4. RowOf(loaded[t]) = RowOf(written'[key[t]])
  BY <1>2 DEF Kept, LoadsRight
<1> QED BY <1>2, <1>3, <1>4, SetLockedKeeps DEF Uses

(* No step moves the plan, and so none moves what is promised.              *)
LEMMA PlanStays ==
    /\ [Next]_vars => plan' = plan
    /\ plan' = plan => (Promised' <=> Promised) /\ (Watched' <=> Watched)
<1>1. [Next]_vars => plan' = plan
  BY DEF Next, Goes, Calls, Load, Fill, TakeEvictions, SaveEvicted, ListStored, SaveAllWrites,
     ListCached, GetStore, Set, Hit, Miss, vars
<1> QED BY <1>1 DEF Promised, Watched, Alone, Callers, OneClient, NeverForces, NeverEvicts

(* A hit moves a key in the queue; a step outside moves nothing.            *)
LEMMA HitKeeps ==
    ASSUME Kept, Promised \/ Watched,
           UNCHANGED <<plan, store, pending, table, pc, key, loaded, batch, snapshot, listed, written>>
    PROVE  Kept'
<1>1. Waiting' = Waiting /\ Cached' = Cached
  BY DEF Waiting, Cached
<1>2. CacheRight' /\ WaitingRight' /\ TableRight' /\ (Watched => Waiting' = {})
  BY <1>1 DEF Kept, CacheRight, WaitingRight, TableRight
<1>3. LoadsRight'
  BY <1>1, PlanStays DEF Kept, LoadsRight, CachedKeys
<1> QED BY <1>2, <1>3, PlanStays DEF Kept

(* A step that leaves the cache, the rows and what waits as they are, and   *)
(* is right about what its thread loads, copies and lists.                  *)
LEMMA LocalsKeep ==
    ASSUME Kept, Promised \/ Watched, LocalTypes, NEW t \in Threads, NEW l, Goto(t, l),
           UNCHANGED <<plan, store, pending, table, batch, written>>,
           \A u \in Threads \ {t} :
             UNCHANGED <<key[u], loaded[u], snapshot[u], listed[u]>>,
           l \in {"load", "fill"} => key'[t] \notin Cached,
           l = "fill" => RowOf(loaded'[t]) = RowOf(written[key'[t]]),
           l = "saveAll" => snapshot'[t] = store,
           l = "list" => listed'[t] = CachedKeys
    PROVE  Kept'
<1>1. Waiting' = Waiting /\ Cached' = Cached /\ CachedKeys' = CachedKeys
  BY DEF Waiting, Cached, CachedKeys
<1>2. CacheRight' /\ WaitingRight' /\ TableRight' /\ (Watched => Waiting' = {})
  BY <1>1 DEF Kept, CacheRight, WaitingRight, TableRight
<1>3. pc'[t] = l /\ \A u \in Threads \ {t} : pc'[u] = pc[u]
  BY DEF LocalTypes, Goto
<1>4. LoadsRight'
  BY <1>1, <1>3, PlanStays DEF Kept, LoadsRight, Cached
<1> QED BY <1>2, <1>4, PlanStays DEF Kept

LEMMA MissKeeps ==
    ASSUME KvInv, Kept, Promised \/ Watched, NEW t \in Threads, NEW k \in Keys, Miss(t, k)
    PROVE  Kept'
<1>1. LocalTypes /\ plan \in Plans
  BY Parts
<1>2. /\ key' = [key EXCEPT ![t] = k] /\ Goto(t, "load")
      /\ UNCHANGED <<plan, store, pending, table, loaded, batch, snapshot, listed, written>>
  BY DEF Miss, cache
<1>3. k \notin Cached
  BY DEF Miss, Begins, Promised, Watched, NeverForces
<1>4. key'[t] = k /\ \A u \in Threads \ {t} : key'[u] = key[u]
  BY <1>1, <1>2 DEF LocalTypes
<1> QED BY <1>1, <1>2, <1>3, <1>4, LocalsKeep

LEMMA LoadKeeps ==
    ASSUME KvInv, Kept, Promised \/ Watched, NEW t \in Threads, Load(t)
    PROVE  Kept'
<1> DEFINE l == IF Found(table[key[t]]) THEN "fill" ELSE "idle"
<1>1. LocalTypes /\ Working
  BY Parts
<1>2. /\ loaded' = [loaded EXCEPT ![t] = table[key[t]]] /\ Goto(t, l) /\ pc[t] = "load"
      /\ UNCHANGED <<plan, store, pending, table, key, batch, snapshot, listed, written>>
  BY DEF Load, cache
<1>3. l \in {"fill", "idle"}
  OBVIOUS
<1> HIDE DEF l
<1>4. Uses(t)
  BY <1>1, <1>2 DEF Working, Uses
<1>5. Waiting = {}
  BY <1>2, <1>4, OthersRest, NothingWaits
<1>6. key[t] \in Keys \ Cached
  BY <1>1, <1>2 DEF Kept, LoadsRight, LocalTypes
<1>7. RowOf(table[key[t]]) = RowOf(written[key[t]])
  BY <1>5, <1>6 DEF Kept, TableRight
<1>8. /\ loaded'[t] = table[key[t]]
      /\ \A u \in Threads \ {t} : loaded'[u] = loaded[u]
  BY <1>1, <1>2 DEF LocalTypes
<1> QED BY <1>1, <1>2, <1>3, <1>6, <1>7, <1>8, LocalsKeep

LEMMA ListKeeps ==
    ASSUME KvInv, Kept, Promised \/ Watched, NEW t \in Threads,
           ListCached(t) \/ ListStored(t) \/ GetStore(t)
    PROVE  Kept'
<1>1. LocalTypes
  BY Parts
<1>2. UNCHANGED <<plan, store, pending, table, key, loaded, batch, written>>
  BY DEF ListCached, ListStored, GetStore, cache
<1>3. CASE ListCached(t)
  <2>1. /\ listed' = [listed EXCEPT ![t] = CachedKeys] /\ Goto(t, "list") /\ UNCHANGED snapshot
    BY <1>3 DEF ListCached
  <2>2. listed'[t] = CachedKeys /\ \A u \in Threads \ {t} : listed'[u] = listed[u]
    BY <1>1, <2>1 DEF LocalTypes
  <2> QED BY <1>1, <1>2, <2>1, <2>2, LocalsKeep
<1>4. CASE ListStored(t)
  <2>1. /\ listed' = [listed EXCEPT ![t] = {}] /\ Goto(t, "idle") /\ UNCHANGED snapshot
    BY <1>4 DEF ListStored
  <2>2. \A u \in Threads \ {t} : listed'[u] = listed[u]
    BY <1>1, <2>1 DEF LocalTypes
  <2> QED BY <1>1, <1>2, <2>1, <2>2, LocalsKeep
<1>5. CASE GetStore(t)
  <2>1. /\ snapshot' = [snapshot EXCEPT ![t] = store] /\ Goto(t, "saveAll") /\ UNCHANGED listed
    BY <1>5 DEF GetStore
  <2>2. snapshot'[t] = store /\ \A u \in Threads \ {t} : snapshot'[u] = snapshot[u]
    BY <1>1, <2>1 DEF LocalTypes
  <2> QED BY <1>1, <1>2, <2>1, <2>2, LocalsKeep
<1> QED BY <1>3, <1>4, <1>5

LEMMA TakeKeeps ==
    ASSUME KvInv, Kept, Promised \/ Watched, NEW t \in Threads, TakeEvictions(t)
    PROVE  Kept'
<1> DEFINE l == IF pending = <<>> THEN "idle" ELSE "save"
<1>1. LocalTypes /\ Working
  BY Parts
<1>2. /\ batch' = [batch EXCEPT ![t] = pending] /\ pending' = <<>> /\ Goto(t, l)
      /\ pc[t] = "evict"
      /\ UNCHANGED <<plan, store, table, key, loaded, snapshot, listed, written>>
  BY DEF TakeEvictions, LeftBehind
<1>3. l \in {"idle", "save"}
  OBVIOUS
<1> HIDE DEF l
<1>4. \A u \in Threads \ {t} : pc[u] \in {"idle", "saveAll"}
  BY <1>1, <1>2, OthersRest DEF Working, Uses
<1>5. \A u \in Threads : batch[u] = <<>>
  BY <1>1, <1>2, <1>4 DEF Working
<1>6. batch'[t] = pending /\ \A u \in Threads \ {t} : batch'[u] = <<>>
  BY <1>1, <1>2, <1>5 DEF LocalTypes
<1>7. Waiting = Range(pending) /\ Waiting' = Range(pending)
  <2>1. Range(<<>>) = {}
    BY DEF Range
  <2>2. Waiting = Range(pending)
    BY <1>5, <2>1 DEF Waiting
  <2>3. UNION {Range(batch'[u]) : u \in Threads} = Range(pending)
    BY <1>6, <2>1
  <2>4. Waiting' = Range(<<>>) \cup UNION {Range(batch'[u]) : u \in Threads}
    BY <1>2 DEF Waiting
  <2> QED BY <2>1, <2>2, <2>3, <2>4
<1>8. Cached' = Cached /\ CachedKeys' = CachedKeys
  BY <1>2 DEF Cached, CachedKeys
<1>9. CacheRight' /\ WaitingRight' /\ TableRight' /\ (Watched => Waiting' = {})
  BY <1>2, <1>7, <1>8 DEF Kept, CacheRight, WaitingRight, TableRight
<1>10. pc'[t] = l /\ \A u \in Threads \ {t} : pc'[u] = pc[u]
  BY <1>1, <1>2 DEF LocalTypes, Goto
<1>11. LoadsRight'
  BY <1>2, <1>3, <1>8, <1>10, PlanStays DEF Kept, LoadsRight
<1> QED BY <1>2, <1>9, <1>11, PlanStays DEF Kept

LEMMA SaveKeeps ==
    ASSUME KvInv, Kept, Promised \/ Watched, NEW t \in Threads, SaveEvicted(t)
    PROVE  Kept'
<1> DEFINE l == IF Len(batch[t]) = 1 THEN "idle" ELSE "save"
           entry == Head(batch[t])
<1>1. LocalTypes /\ RowTypes /\ Working /\ Pends /\ plan \in Plans
  BY Parts
<1>2. /\ \/ table' = [table EXCEPT ![entry.key] = RowOf(entry.value)] /\ UNCHANGED failures
         \/ failures < plan.failures
      /\ batch' = [batch EXCEPT ![t] = Tail(@)] /\ Goto(t, l) /\ pc[t] = "save"
      /\ UNCHANGED <<plan, store, pending, key, loaded, snapshot, listed, written>>
  BY DEF SaveEvicted, cache
<1>3. l \in {"idle", "save"}
  OBVIOUS
<1> HIDE DEF l
<1>4. /\ batch[t] \in Seq(Entries) /\ batch[t] # <<>> /\ entry \in Entries
      /\ Tail(batch[t]) \in Seq(Entries)
  <2>1. batch[t] \in Seq(Entries) /\ batch[t] # <<>>
    BY <1>1, <1>2 DEF LocalTypes, Working
  <2> QED BY <2>1
<1>5. entry.key \in Keys /\ entry.value \in Values
  BY <1>4 DEF Entries
<1>6. Range(batch[t]) = {entry} \cup Range(Tail(batch[t]))
  <2> DEFINE s == batch[t]
             r == Tail(s)
  <2>1. /\ Len(s) \in Nat \ {0} /\ DOMAIN s = 1..Len(s) /\ s[1] = entry
        /\ DOMAIN r = 1..(Len(s) - 1) /\ \A i \in DOMAIN r : r[i] = s[i + 1]
    BY <1>4
  <2> HIDE DEF s, r, entry
  <2>2. \A i \in DOMAIN r : i + 1 \in DOMAIN s
    BY <2>1
  <2>3. \A i \in DOMAIN s : i = 1 \/ (i - 1 \in DOMAIN r /\ r[i - 1] = s[i])
    BY <2>1
  <2>4. 1 \in DOMAIN s
    BY <2>1
  <2>5. Range(s) = {entry} \cup Range(r)
    BY <2>1, <2>2, <2>3, <2>4 DEF Range
  <2> QED BY <2>5 DEF s, r
<1> HIDE DEF entry
<1>7. \A u \in Threads \ {t} :
        pc[u] \in {"idle", "saveAll"} /\ (Promised => pc[u] = "idle")
  BY <1>1, <1>2, OthersRest DEF Working, Uses
<1>8. pending = <<>> /\ \A u \in Threads \ {t} : batch[u] = <<>>
  BY <1>1, <1>2, <1>7 DEF Pends, Working
<1>9. batch'[t] = Tail(batch[t]) /\ \A u \in Threads \ {t} : batch'[u] = <<>>
  BY <1>1, <1>2, <1>8 DEF LocalTypes
<1>10. Waiting = Range(batch[t]) /\ Waiting' = Range(Tail(batch[t]))
  <2>1. Range(<<>>) = {}
    BY DEF Range
  <2>2. Waiting = Range(batch[t])
    BY <1>8, <2>1 DEF Waiting
  <2>3. UNION {Range(batch'[u]) : u \in Threads} = Range(Tail(batch[t]))
    BY <1>9, <2>1
  <2>4. Waiting' = Range(<<>>) \cup UNION {Range(batch'[u]) : u \in Threads}
    BY <1>2, <1>8 DEF Waiting
  <2> QED BY <2>1, <2>2, <2>3, <2>4
<1>11. entry \in Waiting /\ Promised /\ ~Watched
  BY <1>6, <1>10 DEF Kept
<1>12. table' = [table EXCEPT ![entry.key] = RowOf(entry.value)]
  BY <1>1, <1>2, <1>11 DEF Promised, RowTypes
<1>13. RowOf(entry.value) = RowOf(written[entry.key])
  BY <1>11 DEF Kept, WaitingRight
<1>14. Cached' = Cached
  BY <1>2 DEF Cached
<1>15. CacheRight' /\ WaitingRight'
  BY <1>2, <1>6, <1>10, <1>14 DEF Kept, CacheRight, WaitingRight
<1>16. TableRight'
  <2> SUFFICES ASSUME NEW j \in Keys \ Cached
               PROVE  RowOf(table'[j]) = RowOf(written[j]) \/ \E e \in Waiting' : e.key = j
    BY <1>2, <1>14 DEF TableRight
  <2>1. RowOf(table[j]) = RowOf(written[j]) \/ \E e \in Waiting : e.key = j
    BY DEF Kept, TableRight
  <2>2. CASE j = entry.key
    BY <1>1, <1>5, <1>12, <1>13, <2>2, RowFacts DEF RowTypes
  <2>3. CASE j # entry.key
    BY <1>1, <1>6, <1>10, <1>12, <2>1, <2>3 DEF RowTypes
  <2> QED BY <2>2, <2>3
<1>17. pc'[t] = l /\ \A u \in Threads \ {t} : pc'[u] = pc[u]
  BY <1>1, <1>2 DEF LocalTypes, Goto
<1>18. LoadsRight'
  BY <1>3, <1>7, <1>11, <1>17 DEF LoadsRight
<1> QED BY <1>2, <1>11, <1>15, <1>16, <1>18, PlanStays DEF Kept

LEMMA SaveAllKeeps ==
    ASSUME KvInv, Kept, Promised \/ Watched, NEW t \in Threads, SaveAllWrites(t)
    PROVE  Kept'
<1>1. LocalTypes /\ RowTypes
  BY Parts
<1>2. /\ \E saved \in SUBSET Saved(t) : SaveRows(t, saved)
      /\ snapshot' = [snapshot EXCEPT ![t] = [k \in {} |-> NoRow]]
      /\ pc[t] = "saveAll" /\ Goto(t, "idle")
      /\ UNCHANGED <<plan, store, pending, key, loaded, batch, listed, written>>
  BY DEF SaveAllWrites, cache
<1>3. Saved(t) \subseteq Cached
  BY <1>2 DEF Kept, LoadsRight, Saved
<1>4. \A j \in Keys \ Cached : table'[j] = table[j]
  BY <1>2, <1>3 DEF SaveRows
<1>5. Cached' = Cached /\ CachedKeys' = CachedKeys /\ Waiting' = Waiting
  BY <1>2 DEF Cached, CachedKeys, Waiting
<1>6. CacheRight' /\ WaitingRight' /\ TableRight' /\ (Watched => Waiting' = {})
  BY <1>2, <1>4, <1>5 DEF Kept, CacheRight, WaitingRight, TableRight
<1>7. /\ pc'[t] = "idle" /\ \A u \in Threads \ {t} : pc'[u] = pc[u]
      /\ \A u \in Threads \ {t} : snapshot'[u] = snapshot[u]
  BY <1>1, <1>2 DEF LocalTypes, Goto
<1>8. LoadsRight'
  BY <1>2, <1>5, <1>7, PlanStays DEF Kept, LoadsRight
<1> QED BY <1>2, <1>6, <1>8, PlanStays DEF Kept

LEMMA InitKept == Init => Kept
<1> SUFFICES ASSUME Init PROVE Kept
  OBVIOUS
<1>1. Cached = {} /\ pending = <<>> /\ written = table
      /\ \A t \in Threads : pc[t] = "idle" /\ batch[t] = <<>>
  BY DEF Init, Cached
<1>2. Range(<<>>) = {}
  BY DEF Range
<1>3. Waiting = {}
  BY <1>1, <1>2 DEF Waiting
<1> QED BY <1>1, <1>3 DEF Kept, CacheRight, WaitingRight, TableRight, LoadsRight

LEMMA NextKept == KvInv /\ Kept /\ [Next]_vars => Kept'
<1> SUFFICES ASSUME KvInv, Kept, [Next]_vars PROVE Kept'
  OBVIOUS
<1>1. CASE ~(Promised \/ Watched)
  BY <1>1, PlanStays DEF Kept
<1>2. CASE (Promised \/ Watched) /\ UNCHANGED vars
  BY <1>2, HitKeeps DEF vars, cache, locals
<1>3. CASE (Promised \/ Watched) /\ Next
  <2>1. PICK t \in Threads : Goes(t) \/ Calls(t)
    BY <1>3 DEF Next
  <2>2. ASSUME NEW k \in Keys, Hit(t, k) PROVE Kept'
    BY <1>3, <2>2, HitKeeps DEF Hit, locals
  <2> QED BY <1>3, <2>1, <2>2, SetKeeps, FillKeeps, MissKeeps, LoadKeeps, TakeKeeps, SaveKeeps,
             ListKeeps, SaveAllKeeps DEF Goes, Calls
<1> QED BY <1>1, <1>2, <1>3

LEMMA KeptHolds == Spec => [](KvInv /\ Kept)
  BY InitTypes, NextTypes, InitKept, NextKept, PTL DEF Spec

(* With nobody at work a get of any key answers what was set last, when one *)
(* thread alone uses the store, or another one only saves and nothing is    *)
(* evicted; and keys misses none (KVStore::set, get, keys, saveAll).        *)
THEOREM NothingIsLost == Spec => []NothingLost
<1>1. ASSUME KvInv, Kept PROVE NothingLost
  <2>1. RowTypes /\ LocalTypes /\ Working /\ CacheTypes
    BY <1>1, Parts
  <2>2. ASSUME Promised \/ Watched, Quiet, NEW k \in Keys
        PROVE  RowOf(Visible(k)) = RowOf(written[k])
    <3>1. Waiting = {}
      BY <1>1, <2>2, NothingWaits DEF Quiet
    <3> QED BY <1>1, <2>2, <3>1 DEF Kept, CacheRight, TableRight, Visible
  <2>3. ASSUME NEW t \in Threads, Promised, pc[t] = "list", NEW k \in Keys, ~written[k].deleted
        PROVE  k \in Answer(t)
    <3>1. Uses(t)
      BY <2>1, <2>3 DEF Working, Uses
    <3>2. Waiting = {}
      BY <1>1, <2>3, <3>1, OthersRest, NothingWaits
    <3>3. listed[t] = CachedKeys
      BY <1>1, <2>3 DEF Kept, LoadsRight
    <3>4. RowOf(written[k]) # NoRow
      BY <2>3 DEF RowOf, NoRow
    <3>5. CASE k \in Cached
      <4>1. RowOf(store[k]) # NoRow
        BY <1>1, <2>3, <3>4, <3>5 DEF Kept, CacheRight
      <4>2. ~store[k].deleted
        BY <4>1 DEF RowOf
      <4> QED BY <3>3, <3>5, <4>2 DEF Answer, CachedKeys
    <3>6. CASE k \notin Cached
      <4>1. RowOf(table[k]) # NoRow
        BY <1>1, <2>3, <3>2, <3>4, <3>6 DEF Kept, TableRight
      <4>2. table[k] # NoRow
        BY <4>1 DEF RowOf, NoRow
      <4> QED BY <4>2 DEF Answer, Stored
    <3> QED BY <3>5, <3>6
  <2> QED BY <2>2, <2>3 DEF NothingLost
<1>2. KvInv /\ Kept => NothingLost
  BY <1>1
<1> QED BY <1>2, KeptHolds, PTL

-----------------------------------------------------------------------------
(* For a thread alone the store has what was set last.                      *)
WasSet == [k \in Keys |-> RowOf(written[k])]

LEMMA ContentIs == KvInv /\ Kept /\ Promised => Content = WasSet
<1> SUFFICES ASSUME KvInv, Kept, Promised PROVE Content = WasSet
  OBVIOUS
<1>1. ASSUME NEW k \in Keys
      PROVE  RowOf(IF k \in Cached THEN store[k] ELSE Evicted(k)) = RowOf(written[k])
  <2>1. CASE k \in Cached
    BY <2>1 DEF Kept, CacheRight
  <2>2. CASE k \notin Cached /\ \E e \in Waiting : e.key = k
    <3> DEFINE e == CHOOSE entry \in Waiting : entry.key = k
    <3>1. e \in Waiting /\ e.key = k
      BY <2>2
    <3>2. Evicted(k) = e.value
      BY <2>2 DEF Evicted
    <3> HIDE DEF e
    <3> QED BY <2>2, <3>1, <3>2 DEF Kept, WaitingRight
  <2>3. CASE k \notin Cached /\ ~\E e \in Waiting : e.key = k
    BY <1>1, <2>3 DEF Kept, TableRight, Evicted
  <2> QED BY <2>1, <2>2, <2>3
<1> QED BY <1>1 DEF Content, WasSet

(* saveAll brings the rows up to date with it.                              *)
LEMMA SavesAllOf ==
    ASSUME KvInv, Kept, Promised, NEW t \in Threads, SaveAllWrites(t)
    PROVE  table' = WasSet
<1>1. RowTypes /\ LocalTypes /\ Working /\ RowsOnly /\ plan \in Plans
  BY Parts
<1>2. pc[t] = "saveAll" /\ ~(failures < plan.failures)
  BY <1>1 DEF SaveAllWrites, Promised, RowTypes
<1>3. SaveRows(t, Saved(t))
  BY <1>2 DEF SaveAllWrites
<1>4. snapshot[t] = store
  BY <1>2 DEF Kept, LoadsRight
<1>5. table' = [k \in Keys |-> IF k \in Cached THEN RowOf(store[k]) ELSE table[k]]
  BY <1>3, <1>4 DEF SaveRows, Saved, Cached
<1>6. Uses(t)
  BY <1>1, <1>2 DEF Working, Uses
<1>7. Waiting = {}
  BY <1>2, <1>6, OthersRest, NothingWaits
<1>8. ASSUME NEW k \in Keys
      PROVE  (IF k \in Cached THEN RowOf(store[k]) ELSE table[k]) = RowOf(written[k])
  <2>1. CASE k \in Cached
    BY <2>1 DEF Kept, CacheRight
  <2>2. CASE k \notin Cached
    <3>1. RowOf(table[k]) = RowOf(written[k])
      BY <1>7, <2>2 DEF Kept, TableRight
    <3> QED BY <1>1, <2>2, <3>1 DEF RowsOnly
  <2> QED BY <2>1, <2>2
<1> QED BY <1>5, <1>8 DEF WasSet

(* The step of the promise that a step of the store is.                     *)
LEMMA StepKeepsPromise ==
    ASSUME KvInv, Kept, [Next]_vars, Promised, Content = WasSet, Content' = WasSet'
    PROVE  [Promise!Next]_(Promise!vars)
<1> DEFINE same == UNCHANGED <<written, table>>
<1>1. RowTypes /\ LocalTypes /\ Working /\ plan \in Plans
  BY Parts
<1>2. Promised' /\ Promised
  BY PlanStays
<1>3. ASSUME same PROVE UNCHANGED Promise!vars
  BY <1>2, <1>3 DEF Promise!vars, WasSet
<1>4. ASSUME NEW t \in Threads, NEW k \in Keys, NEW deleted \in BOOLEAN, Set(t, k, deleted)
      PROVE  Promise!Next
  <2> DEFINE value == [number |-> Cardinality(Keys) + writes + 1, deleted |-> deleted]
  <2>1. /\ written' = [written EXCEPT ![k] = value] /\ UNCHANGED table /\ writes < plan.writes
    BY <1>4 DEF Set
  <2>2. value \in Values
    <3>1. Cardinality(Keys) \in Nat /\ writes \in Nat /\ plan.writes \in Nat
      BY <1>1, KvAssumption, FS_CardinalityType, PlanFacts DEF RowTypes
    <3>2. value \in [number : 1..(Cardinality(Keys) + plan.writes), deleted : BOOLEAN]
      BY <2>1, <3>1
    <3> QED BY <1>1, <3>2 DEF Values
  <2> HIDE DEF value
  <2>3. RowOf(value) \in Values \cup {NoRow}
    BY <2>2, RowFacts
  <2>4. WasSet' = [WasSet EXCEPT ![k] = RowOf(value)]
    BY <1>1, <2>1 DEF WasSet, RowTypes
  <2>5. Promise!Put(k, RowOf(value))
    BY <1>2, <2>1, <2>4 DEF Promise!Put
  <2> QED BY <2>3, <2>5 DEF Promise!Next
<1>5. ASSUME NEW t \in Threads, SaveEvicted(t) PROVE Promise!Next
  <2> DEFINE entry == Head(batch[t])
  <2>1. pc[t] = "save" /\ ~(failures < plan.failures) /\ UNCHANGED written
    BY <1>1, <1>5 DEF SaveEvicted, Promised, RowTypes
  <2>2. table' = [table EXCEPT ![entry.key] = RowOf(entry.value)]
    BY <1>5, <2>1 DEF SaveEvicted
  <2>3. batch[t] \in Seq(Entries) /\ batch[t] # <<>>
    BY <1>1, <2>1 DEF LocalTypes, Working
  <2>4. entry \in Entries /\ 1 \in DOMAIN batch[t] /\ batch[t][1] = entry
    BY <2>3
  <2>5. entry \in Waiting
    BY <2>4 DEF Waiting, Range
  <2>6. entry.key \in Keys
    BY <2>4 DEF Entries
  <2> HIDE DEF entry
  <2>7. RowOf(entry.value) = WasSet[entry.key]
    BY <2>5, <2>6 DEF Kept, WaitingRight, WasSet
  <2>8. WasSet' = WasSet
    BY <2>1 DEF WasSet
  <2>9. Promise!Persist(entry.key)
    BY <1>2, <2>2, <2>7, <2>8 DEF Promise!Persist
  <2> QED BY <2>6, <2>9 DEF Promise!Next
<1>6. ASSUME NEW t \in Threads, SaveAllWrites(t) PROVE Promise!Next
  <2>1. table' = WasSet /\ written' = written
    BY <1>6, SavesAllOf DEF SaveAllWrites
  <2>2. WasSet' = WasSet
    BY <2>1 DEF WasSet
  <2>3. Promise!SaveAll
    BY <1>2, <2>1, <2>2 DEF Promise!SaveAll
  <2> QED BY <2>3 DEF Promise!Next
<1>7. ASSUME NEW t \in Threads, NEW k \in Keys,
             \/ Load(t) \/ Fill(t) \/ TakeEvictions(t) \/ ListStored(t) \/ ListCached(t)
             \/ GetStore(t) \/ Hit(t, k) \/ Miss(t, k)
      PROVE  same
  BY <1>7 DEF Load, Fill, TakeEvictions, ListStored, ListCached, GetStore, Hit, Miss
<1>8. CASE UNCHANGED vars
  BY <1>3, <1>8 DEF vars
<1>9. CASE Next
  <2>1. PICK t \in Threads : Goes(t) \/ Calls(t)
    BY <1>9 DEF Next
  <2>2. PICK k \in Keys : TRUE
    BY KvAssumption
  <2> HIDE DEF same
  <2> QED BY <1>3, <1>4, <1>5, <1>6, <1>7, <2>1, <2>2 DEF Goes, Calls
<1> QED BY <1>8, <1>9

(* The store is the map of KvPromise: for a thread alone, whose queries do  *)
(* not fail, what it evicts, loads and saves is not to be seen, and a       *)
(* saveAll leaves all of it in the table (KVStore::set, get, saveAll).      *)
THEOREM StoreKeepsPromise == Spec => KeepsPromise
<1>1. Init => Promise!Init
  <2> SUFFICES ASSUME Init PROVE Promise!Init
    OBVIOUS
  <2>1. KvInv /\ Kept
    BY InitTypes, InitKept
  <2>2. RowTypes /\ RowsOnly /\ written = table
    BY <2>1, Parts DEF Init
  <2>3. CASE Promised
    <3>1. Content = table
      BY <2>1, <2>2, <2>3, ContentIs DEF WasSet, RowsOnly, RowTypes
    <3> QED BY <2>2, <2>3, <3>1 DEF Promise!Init, RowTypes
  <2>4. CASE ~Promised
    BY <2>4 DEF Promise!Init, Nothing
  <2> QED BY <2>3, <2>4
<1>2. KvInv /\ Kept /\ Promised => Content = WasSet
  BY ContentIs
<1>3. (KvInv /\ Kept /\ Promised => Content = WasSet)'
  BY <1>2, PTL
<1>4. KvInv /\ Kept /\ (KvInv /\ Kept)' /\ [Next]_vars => [Promise!Next]_(Promise!vars)
  <2> SUFFICES ASSUME KvInv, Kept, KvInv', Kept', [Next]_vars
               PROVE  [Promise!Next]_(Promise!vars)
    OBVIOUS
  <2>1. CASE Promised
    <3>1. Promised'
      BY <2>1, PlanStays
    <3>2. Content = WasSet /\ Content' = WasSet'
      BY <1>2, <1>3, <2>1, <3>1
    <3> QED BY <2>1, <3>2, StepKeepsPromise
  <2>2. CASE ~Promised
    BY <2>2, PlanStays DEF Promise!vars, Nothing
  <2> QED BY <2>1, <2>2
<1> DEFINE Step == \A t \in Threads :
             Promised /\ pc[t] = "saveAll" /\ pc'[t] = "idle" => table' = Content'
<1>5. KvInv /\ Kept /\ (KvInv /\ Kept)' /\ [Next]_vars => [Step]_vars
  <2> SUFFICES ASSUME KvInv, Kept, KvInv', Kept', Next, NEW t \in Threads,
                      Promised, pc[t] = "saveAll", pc'[t] = "idle"
               PROVE  table' = Content'
    BY DEF vars
  <2>1. LocalTypes
    BY Parts
  <2>2. PICK u \in Threads : Goes(u) \/ Calls(u)
    BY DEF Next
  <2>3. (\E l : Goto(u, l)) \/ UNCHANGED pc
    BY <2>2 DEF Goes, Calls, Load, Fill, TakeEvictions, SaveEvicted, ListStored, SaveAllWrites,
       ListCached, GetStore, Set, Hit, Miss
  <2>4. u = t
    BY <2>1, <2>3 DEF LocalTypes, Goto
  <2>5. SaveAllWrites(t)
    BY <2>2, <2>4 DEF Goes, Calls, Load, Fill, TakeEvictions, SaveEvicted, ListStored,
       ListCached, GetStore, Set, Hit, Miss, Begins
  <2>6. table' = WasSet /\ written' = written
    BY <2>5, SavesAllOf DEF SaveAllWrites
  <2>7. Promised'
    BY PlanStays
  <2>8. Content' = WasSet' /\ WasSet' = WasSet
    BY <1>3, <2>6, <2>7 DEF WasSet
  <2> QED BY <2>6, <2>8
<1>6. Spec => Promise!Spec
  BY <1>1, <1>4, KeptHolds, PTL DEF Spec, Promise!Spec
<1>7. Spec => SavesAll
  <2>1. Spec => [][Step]_vars
    <3> HIDE DEF Step
    <3> QED BY <1>5, KeptHolds, PTL DEF Spec
  <2> QED BY <2>1 DEF SavesAll
<1> QED BY <1>6, <1>7 DEF KeepsPromise

=============================================================================
