---------------------------- MODULE SocietyProof -----------------------------
(****************************************************************************)
(* Proofs about trades and parties, for any players, items and bounds, and  *)
(* for bags in bags to any depth.                                           *)
(*                                                                          *)
(* Trade: the invariants the run checks are inductive together.  The lemmas on*)
(* Holds, a least closed set, say what it is to be in a bag; MoveKeeps says *)
(* whose contents and whose owner a move leaves alone, which is who is not told*)
(* of it; and CloseKeeps says that whatever happens to the items, trades stay*)
(* what they are when all those are closed that were told.                  *)
(*                                                                          *)
(* Parties: the steps of party.cpp are taken apart into changes of one party,*)
(* each of which leaves the other parties Untouched, and the two loops are  *)
(* functions on sets, whose values are reached by taking one element at a time.*)
(****************************************************************************)
EXTENDS MCGame, Sequences, FoldLemmas

Placing == [Goods -> Anywhere]

(* What Carries says of where items are now, of any placing of them.        *)
Rooted(place, r, i) == place[i] = r \/ \E b \in Bags : place[b] = r /\ Holds(place, b, i)

Owners == Players \cup {Ground}

-----------------------------------------------------------------------------
(* What is in a bag, and what is in something in it, is held by the bag.    *)
LEMMA HoldsDirect ==
    ASSUME NEW place, NEW b \in Bags, NEW i \in Goods, place[i] = b
    PROVE  Holds(place, b, i)
  BY DEF Holds

(* Something held by what is held.                                         *)
LEMMA HoldsDeep ==
    ASSUME NEW place, NEW b, NEW k, NEW i \in Goods,
           Holds(place, b, k), place[i] = k
    PROVE  Holds(place, b, i)
  BY DEF Holds

(* What a held bag holds is held.                                           *)
LEMMA HoldsTransitive ==
    ASSUME NEW place, NEW a, NEW b, NEW c, Holds(place, a, b), Holds(place, b, c)
    PROVE  Holds(place, a, c)
<1> SUFFICES ASSUME NEW S \in SUBSET Goods,
                    \A j \in Goods : place[j] \in S \cup {a} => j \in S
             PROVE  c \in S
  BY DEF Holds
<1>1. b \in S
  BY DEF Holds
<1>2. \A j \in Goods : place[j] \in S \cup {b} => j \in S
  BY <1>1
<1> QED BY <1>2 DEF Holds

(* A set that has what is in a bag and in something of it has all of it.    *)
LEMMA HoldsLeast ==
    ASSUME NEW place, NEW b, NEW i, Holds(place, b, i), NEW S \in SUBSET Goods,
           \A j \in Goods : place[j] \in S \cup {b} => j \in S
    PROVE  i \in S
  BY DEF Holds

(* What a bag holds is in the bag or in something that the bag holds.       *)
LEMMA HoldsParent ==
    ASSUME NEW place, NEW b, NEW i, Holds(place, b, i)
    PROVE  place[i] = b \/ Holds(place, b, place[i])
<1> DEFINE S == {j \in Goods : place[j] = b \/ Holds(place, b, place[j])}
<1>1. ASSUME NEW j \in Goods, place[j] \in S \cup {b} PROVE j \in S
  <2>1. CASE place[j] = b
    BY <2>1
  <2>2. CASE place[j] \in S
    <3>1. b \in Bags
      BY DEF Holds
    <3>2. Holds(place, b, place[j])
      BY <2>2, <3>1, HoldsDirect, HoldsDeep
    <3> QED BY <3>2
  <2> QED BY <1>1, <2>1, <2>2
<1>2. i \in S
  <2> HIDE DEF S
  <2>1. S \subseteq Goods
    BY DEF S
  <2> QED BY <1>1, <2>1, HoldsLeast
<1> QED BY <1>2

(* What lies with a player or on the ground is nowhere else.                *)
LEMMA OneRoot ==
    ASSUME NEW place \in Placing, NEW i \in Goods, NEW r, NEW s,
           place[i] = s, s \notin Goods, Rooted(place, r, i)
    PROVE  r = s
<1>1. ASSUME NEW b \in Bags, Holds(place, b, i) PROVE FALSE
  <2>1. place[i] = b \/ Holds(place, b, place[i])
    BY <1>1, HoldsParent
  <2> QED BY <2>1, TradeAssumption DEF Holds
<1> QED BY <1>1 DEF Rooted

(* No bag that lies with a player or on the ground is within itself.        *)
LEMMA NotInItself ==
    ASSUME NEW place \in Placing, NEW i \in Goods, NEW r, r \notin Goods,
           Rooted(place, r, i)
    PROVE  ~Holds(place, i, i)
<1> SUFFICES ASSUME Holds(place, i, i) PROVE FALSE
  OBVIOUS
<1> DEFINE C == {z \in Goods : Holds(place, i, z) /\ Holds(place, z, i)}
<1>1. i \in C
  OBVIOUS
<1>2. ASSUME NEW z \in C PROVE place[z] \in C
  <2>1. Holds(place, i, z) /\ Holds(place, z, i) /\ z \in Goods
    BY <1>2
  <2>2. i \in Bags
    BY DEF Holds
  <2>3. place[z] = i \/ Holds(place, i, place[z])
    BY <2>1, HoldsParent
  <2>4. CASE place[z] = i
    BY <2>4, <1>1
  <2>5. CASE Holds(place, i, place[z])
    <3>1. place[z] \in Goods
      BY <2>5 DEF Holds
    <3>2. place[z] \in Bags
      <4>1. place[z] \in Anywhere
        BY <2>1 DEF Placing
      <4> QED BY <3>1, <4>1, TradeAssumption DEF Anywhere
    <3>3. Holds(place, place[z], z)
      BY <2>1, <3>2, HoldsDirect
    <3>4. Holds(place, place[z], i)
      BY <2>1, <3>3, HoldsTransitive
    <3> QED BY <2>5, <3>1, <3>4
  <2> QED BY <2>3, <2>4, <2>5
<1>3. C \subseteq Goods
  OBVIOUS
<1> HIDE DEF C
<1>4. PICK b \in Bags : place[b] = r /\ Holds(place, b, i)
  BY <1>1, <1>2, <1>3 DEF Rooted
<1>5. b \notin C
  BY <1>2, <1>3, <1>4
<1>6. ASSUME NEW j \in Goods, place[j] \in (Goods \ C) \cup {b}
      PROVE  j \in Goods \ C
  BY <1>2, <1>5, <1>6
<1>7. i \in Goods \ C
  BY <1>4, <1>6, HoldsLeast
<1> QED BY <1>1, <1>7

-----------------------------------------------------------------------------
(* What a move leaves alone: an item that neither is what is moved, nor     *)
(* holds it or is held by it, nor gets it, keeps its contents and its root. *)
LEMMA MoveKeeps ==
    ASSUME NEW place \in Placing, NEW i \in Goods, NEW to \in Anywhere,
           NEW o \in Goods, ~Touches(place, i, to, o),
           NEW after, after = [place EXCEPT ![i] = to]
    PROVE  /\ after \in Placing
           /\ \A k \in Goods : Holds(after, o, k) <=> Holds(place, o, k)
           /\ \A r \in Owners : Rooted(place, r, o) => Rooted(after, r, o)
<1>1. /\ o # i /\ o # to
      /\ ~Holds(place, o, i) /\ ~Holds(place, i, o) /\ ~Holds(place, o, to)
  BY DEF Touches
<1>2. after[i] = to /\ \A j \in Goods \ {i} : after[j] = place[j]
  BY DEF Placing
<1>3. after \in Placing
  BY DEF Placing
<1>4. ASSUME NEW k \in Goods, Holds(after, o, k) PROVE Holds(place, o, k)
  <2> DEFINE S == {j \in Goods : Holds(place, o, j)}
  <2>1. o \in Bags
    BY <1>4 DEF Holds
  <2>2. ASSUME NEW j \in Goods, after[j] \in S \cup {o} PROVE j \in S
    <3>1. j # i
      BY <1>1, <1>2, <2>2
    <3>2. place[j] = after[j]
      BY <1>2, <3>1
    <3> QED BY <2>1, <2>2, <3>2, HoldsDirect, HoldsDeep
  <2>3. S \subseteq Goods
    OBVIOUS
  <2>4. k \in S
    <3> HIDE DEF S
    <3> QED BY <1>4, <2>2, <2>3, HoldsLeast, ZenonT(40)
  <2> QED BY <2>4
<1>5. ASSUME NEW k \in Goods, Holds(place, o, k) PROVE Holds(after, o, k)
  <2> DEFINE S == {j \in Goods : Holds(after, o, j)}
  <2>1. o \in Bags
    BY <1>5 DEF Holds
  <2>2. ASSUME NEW j \in Goods, place[j] \in S \cup {o} PROVE j \in S
    <3>1. j # i
      <4>1. CASE place[j] = o
        BY <1>1, <2>1, <4>1, HoldsDirect
      <4>2. CASE place[j] \in S
        <5>1. Holds(place, o, place[j])
          BY <4>2, <1>4
        <5> QED BY <1>1, <5>1, HoldsDeep
      <4> QED BY <2>2, <4>1, <4>2
    <3>2. place[j] = after[j]
      BY <1>2, <3>1
    <3> QED BY <2>1, <2>2, <3>2, HoldsDirect, HoldsDeep
  <2>3. S \subseteq Goods
    OBVIOUS
  <2>4. k \in S
    <3> HIDE DEF S
    <3> QED BY <1>5, <2>2, <2>3, HoldsLeast
  <2> QED BY <2>4
<1>6. ASSUME NEW r \in Owners, Rooted(place, r, o) PROVE Rooted(after, r, o)
  <2>1. CASE place[o] = r
    BY <1>1, <1>2, <2>1 DEF Rooted
  <2>2. ASSUME NEW b \in Bags, place[b] = r, Holds(place, b, o)
        PROVE  Rooted(after, r, o)
    <3>1. b # i /\ b \in Goods
      BY <1>1, <2>2, TradeAssumption
    <3>2. after[b] = r
      BY <1>2, <2>2, <3>1
    <3>3. ASSUME NEW S \in SUBSET Goods,
                 \A j \in Goods : after[j] \in S \cup {b} => j \in S
          PROVE  o \in S
      <4> DEFINE T == S \cup {i} \cup {j \in Goods : Holds(place, i, j)}
      <4>1. ASSUME NEW j \in Goods, place[j] \in T \cup {b} PROVE j \in T
        <5>1. CASE place[j] \in S \cup {b}
          BY <1>2, <3>3, <5>1
        <5>2. CASE place[j] = i
          <6>1. i \in Bags
            BY <5>2, TradeAssumption DEF Placing, Anywhere
          <6> QED BY <5>2, <6>1, HoldsDirect
        <5>3. CASE Holds(place, i, place[j])
          BY <5>3, HoldsDeep
        <5> QED BY <4>1, <5>1, <5>2, <5>3
      <4>2. T \subseteq Goods
        OBVIOUS
      <4>3. o \in T
        <5> HIDE DEF T
        <5> QED BY <2>2, <4>1, <4>2, HoldsLeast
      <4> QED BY <1>1, <4>3
    <3>4. Holds(after, b, o)
      BY <3>3 DEF Holds
    <3> QED BY <3>2, <3>4 DEF Rooted
  <2> QED BY <1>6, <2>1, <2>2 DEF Rooted
<1> QED BY <1>3, <1>4, <1>5, <1>6

-----------------------------------------------------------------------------
(* An item that is left alone by a step: contents and owner stay.           *)
Kept(o) ==
    /\ \A k \in Goods : Holds(where', o, k) <=> Holds(where, o, k)
    /\ \A r \in Owners : Rooted(where, r, o) => Rooted(where', r, o)

(* The types of what a trade consists of.                                   *)
TradeTypes ==
    /\ where \in [Goods -> Anywhere]
    /\ tradeState \in [Players -> TradeStates]
    /\ tradePartner \in [Players -> Players \cup {Nobody}]
    /\ tradeItem \in [Players -> Goods \cup {Nothing}]
    /\ Offered \subseteq Goods /\ tradeItems \in [Offered -> Players]
    /\ accepted \in [Players -> SUBSET (Goods \cup {Nothing})]

TradeInv == TradeTypes /\ Paired /\ OffersApart /\ AcceptedStands

(* Who reaches an item carries it, or it lies on the ground.                *)
LEMMA ReachIsRoot ==
    ASSUME NEW p, NEW i
    PROVE  Reaches(p, i) <=> Rooted(where, p, i) \/ Rooted(where, Ground, i)
  BY DEF Reaches, Carries, Rooted

(* internalCloseTrade: whatever a step does to the items, the trades that   *)
(* are left are trades still when every other was closed.                   *)
LEMMA CloseKeeps ==
    ASSUME TradeInv, NEW closing \in SUBSET Players, Close(closing),
           where' \in Placing,
           \A r \in Players \ closing : tradeItem[r] # Nothing => Kept(tradeItem[r])
    PROVE  TradeInv'
<1> DEFINE closed == closing \cup UNION {AlsoClosed(q) : q \in closing}
           lost == {tradeItem[p] : p \in closed}
<1>1. closed \subseteq Players
  BY DEF AlsoClosed, TradeInv, TradeTypes
<1>2. ASSUME NEW r \in Players \ closed, tradePartner[r] # Nobody
      PROVE  tradePartner[r] \in Players \ closed
  <2>1. tradePartner[r] \in Players /\ tradePartner[tradePartner[r]] = r
    BY <1>2 DEF TradeInv, TradeTypes, Paired
  <2>2. r # Nobody
    BY TradeAssumption
  <2>3. tradePartner[r] \notin closing
    BY <2>1, <2>2 DEF AlsoClosed
  <2>4. ASSUME NEW q \in closing, tradePartner[r] \in AlsoClosed(q) PROVE FALSE
    <3>1. tradePartner[q] = tradePartner[r] /\ tradePartner[q] # Nobody
      BY <2>4 DEF AlsoClosed
    <3>2. tradePartner[tradePartner[q]] = q
      BY <3>1 DEF TradeInv, Paired
    <3> QED BY <2>1, <3>1, <3>2
  <2> QED BY <2>1, <2>3, <2>4
<1>3. /\ tradeState' = [p \in Players |-> IF p \in closed THEN "none" ELSE tradeState[p]]
      /\ tradePartner' = [p \in Players |-> IF p \in closed THEN Nobody ELSE tradePartner[p]]
      /\ tradeItem' = [p \in Players |-> IF p \in closed THEN Nothing ELSE tradeItem[p]]
      /\ tradeItems' = [i \in Offered \ lost |-> tradeItems[i]]
      /\ accepted' = [p \in Players |-> IF p \in closed THEN {} ELSE accepted[p]]
  BY DEF Close, Restrict
<1>4. closing \subseteq closed
  OBVIOUS
<1>5. ASSUME NEW p, NEW r \in closed, tradeItem[p] = tradeItem[r],
             p \in Players \ closed, tradeItem[p] # Nothing
      PROVE  FALSE
  BY <1>1, <1>5 DEF TradeInv, Paired
<1>6. \A p \in Players \ closed : tradeItem[p] # Nothing => tradeItem[p] \notin lost
  BY <1>5
<1>7. \A i \in lost : \E p \in closed : i = tradeItem[p]
  OBVIOUS
<1>8. \A p \in closed : tradeItem[p] \in lost
  OBVIOUS
<1> HIDE DEF closed, lost
<1>9. TradeTypes'
  <2>1. tradeState' \in [Players -> TradeStates]
    BY <1>3 DEF TradeInv, TradeTypes, TradeStates
  <2>2. tradePartner' \in [Players -> Players \cup {Nobody}]
    BY <1>3 DEF TradeInv, TradeTypes
  <2>3. tradeItem' \in [Players -> Goods \cup {Nothing}]
    BY <1>3 DEF TradeInv, TradeTypes
  <2>4. Offered' = Offered \ lost
    BY <1>3 DEF Offered
  <2>5. tradeItems' \in [Offered' -> Players]
    BY <1>3, <2>4 DEF TradeInv, TradeTypes
  <2>6. accepted' \in [Players -> SUBSET (Goods \cup {Nothing})]
    BY <1>3 DEF TradeInv, TradeTypes
  <2> QED BY <2>1, <2>2, <2>3, <2>4, <2>5, <2>6 DEF TradeInv, TradeTypes, Placing
<1>10. Paired'
  <2> SUFFICES ASSUME NEW p \in Players
               PROVE  /\ tradeState'[p] = "none" <=> tradePartner'[p] = Nobody
                      /\ tradePartner'[p] # Nobody =>
                           /\ tradePartner'[p] # p
                           /\ tradePartner'[tradePartner'[p]] = p
                      /\ tradeState'[p] = "initiated" => tradeItem'[p] # Nothing
                      /\ tradeState'[p] \in {"none", "acknowledge"} =>
                           tradeItem'[p] = Nothing
                      /\ tradeItem'[p] # Nothing =>
                           /\ tradeItem'[p] \in Offered'
                           /\ tradeItems'[tradeItem'[p]] = p
    BY DEF Paired
  <2>1. CASE p \in closed
    BY <1>3, <2>1
  <2>2. CASE p \notin closed
    <3>1. /\ tradeState'[p] = tradeState[p] /\ tradePartner'[p] = tradePartner[p]
          /\ tradeItem'[p] = tradeItem[p]
      BY <1>3, <2>2
    <3>2. tradePartner[p] # Nobody =>
            tradePartner'[tradePartner[p]] = tradePartner[tradePartner[p]]
      BY <1>2, <1>3, <2>2
    <3>3. tradeItem[p] # Nothing =>
            /\ tradeItem[p] \in Offered'
            /\ tradeItems'[tradeItem[p]] = tradeItems[tradeItem[p]]
      BY <1>3, <1>6, <2>2 DEF TradeInv, Paired, Offered
    <3> QED BY <3>1, <3>2, <3>3 DEF TradeInv, Paired
  <2> QED BY <2>1, <2>2
<1>11. ASSUME NEW i \in Offered'
       PROVE  /\ i \in Offered /\ tradeItems'[i] = tradeItems[i]
              /\ tradeItems[i] \in Players \ closed
              /\ tradeItem[tradeItems[i]] = i /\ i # Nothing
              /\ Kept(i)
  <2>1. i \in Offered /\ i \notin lost /\ tradeItems'[i] = tradeItems[i]
    BY <1>3 DEF Offered
  <2>2. tradeItem[tradeItems[i]] = i /\ tradeItems[i] \in Players
    BY <2>1 DEF TradeInv, OffersApart, TradeTypes
  <2>3. tradeItems[i] \notin closed
    BY <1>8, <2>1, <2>2
  <2>4. i # Nothing
    BY <2>1, TradeAssumption DEF TradeInv, TradeTypes
  <2>5. Kept(i)
    BY <1>4, <2>2, <2>3, <2>4
  <2> QED BY <2>1, <2>2, <2>3, <2>4, <2>5
<1>12. OffersApart'
  <2> SUFFICES ASSUME NEW i \in Offered'
               PROVE  /\ tradeItem'[tradeItems'[i]] = i
                      /\ Reaches(tradeItems[i], i)'
                      /\ \A j \in Offered' : ~Holds(where', i, j)
    BY <1>11 DEF OffersApart
  <2>1. tradeItem'[tradeItems'[i]] = i
    BY <1>3, <1>11
  <2>2. Reaches(tradeItems[i], i)
    BY <1>11 DEF TradeInv, OffersApart
  <2>3. Rooted(where', tradeItems[i], i) \/ Rooted(where', Ground, i)
    BY <1>11, <2>2, ReachIsRoot DEF Kept, Owners
  <2>4. ASSUME NEW j \in Offered' PROVE ~Holds(where', i, j)
    <3>1. ~Holds(where, i, j) /\ j \in Goods
      BY <1>11 DEF TradeInv, OffersApart, TradeTypes
    <3> QED BY <1>11, <3>1 DEF Kept
  <2>5. tradeItems'[i] = tradeItems[i]
    BY <1>11
  <2> QED BY <2>1, <2>3, <2>4, <2>5 DEF Reaches, Carries, Rooted
<1>13. AcceptedStands'
  <2> SUFFICES ASSUME NEW p \in Players, tradeState'[p] = "accept"
               PROVE  accepted'[p] \in {{Nothing}, Offer(tradePartner[p])'}
    BY DEF AcceptedStands
  <2>1. /\ p \notin closed /\ tradeState[p] = "accept" /\ accepted'[p] = accepted[p]
        /\ tradePartner'[p] = tradePartner[p]
    BY <1>3
  <2>2. PICK q \in Players \ closed : tradePartner[p] = q
    BY <1>2, <2>1 DEF TradeInv, Paired
  <2>3. tradeItem'[q] = tradeItem[q]
    BY <1>3
  <2>4. \A i \in Goods : Holds(where', tradeItem[q], i) <=> Holds(where, tradeItem[q], i)
    <3>1. CASE tradeItem[q] = Nothing
      BY <3>1, TradeAssumption DEF Holds
    <3>2. CASE tradeItem[q] # Nothing
      BY <1>4, <3>2 DEF Kept
    <3> QED BY <3>1, <3>2
  <2>5. {tradeItem'[q]} \cup {i \in Goods : Holds(where', tradeItem'[q], i)} = Offer(q)
    BY <2>3, <2>4 DEF Offer
  <2>6. accepted[p] \in {{Nothing}, Offer(q)}
    BY <2>1, <2>2 DEF TradeInv, AcceptedStands
  <2>7. Offer(tradePartner[p])' =
          {tradeItem'[q]} \cup {i \in Goods : Holds(where', tradeItem'[q], i)}
    BY <2>1, <2>2 DEF Offer
  <2> QED BY <2>1, <2>5, <2>6, <2>7
<1> QED BY <1>9, <1>10, <1>12, <1>13 DEF TradeInv

-----------------------------------------------------------------------------
(* Nobody trades at first.                                                  *)
LEMMA InitHolds ==
    Init => TypeOK /\ TradeInv /\ BothOrNone
<1> SUFFICES ASSUME Init PROVE TypeOK /\ TradeInv /\ BothOrNone
  OBVIOUS
<1>1. TradeTypes
  BY TradeAssumption DEF Init, TradeTypes, TradeStates, Offered
<1>2. Offered = {}
  BY DEF Init, Offered
<1>3. Paired
  BY DEF Init, Paired
<1>4. OffersApart /\ AcceptedStands
  BY <1>2 DEF Init, OffersApart, AcceptedStands
<1>5. leftBehind \in Goods \cup {Nothing} /\ moves \in 0..MaxMoves /\ BothOrNone
  BY TradeAssumption DEF Init, BothOrNone
<1> QED BY <1>1, <1>3, <1>4, <1>5 DEF TypeOK, TradeInv, TradeTypes

(* playerRequestTrade.                                                      *)
LEMMA RequestKeeps ==
    ASSUME TradeInv, NEW p \in Players, NEW q \in Players, NEW i \in Goods,
           RequestTrade(p, q, i)
    PROVE  TradeInv'
<1> DEFINE asked == tradeState[q] = "none"
<1>1. /\ p # q /\ Reaches(p, i) /\ ~AlreadyTraded(i) /\ MayStart(p, q)
      /\ tradeItem' = [tradeItem EXCEPT ![p] = i]
      /\ tradeItems' = [j \in Offered \cup {i} |-> IF j = i THEN p ELSE tradeItems[j]]
      /\ tradeState' = [tradeState EXCEPT ![p] = "initiated",
                          ![q] = IF asked THEN "acknowledge" ELSE @]
      /\ tradePartner' = [tradePartner EXCEPT ![p] = q, ![q] = IF asked THEN p ELSE @]
      /\ where' = where /\ accepted' = accepted
  BY DEF RequestTrade
<1>2. Offered' = Offered \cup {i} /\ i \notin Offered /\ i # Nothing
  BY <1>1, TradeAssumption DEF Offered, AlreadyTraded
<1>3. tradeItem[p] = Nothing
  BY <1>1 DEF MayStart, TradeInv, Paired
<1>4. p # Nobody /\ q # Nobody
  BY TradeAssumption
<1>5. tradePartner[p] \in {Nobody, q} /\ tradePartner[q] \in {Nobody, p}
  BY <1>1, <1>4 DEF MayStart, TradeInv, Paired
<1>6. /\ tradePartner'[p] = q /\ tradePartner'[q] = p
      /\ \A r \in Players \ {p, q} : tradePartner'[r] = tradePartner[r]
  <2>1. ~asked => tradePartner[q] = p
    BY <1>1 DEF MayStart
  <2> QED BY <1>1, <2>1 DEF TradeInv, TradeTypes
<1>7. /\ tradeState'[p] = "initiated"
      /\ \/ tradeState[q] = "none" /\ tradeState'[q] = "acknowledge"
         \/ tradeState[q] # "none" /\ tradeState'[q] = tradeState[q]
      /\ \A r \in Players \ {p, q} : tradeState'[r] = tradeState[r]
  BY <1>1 DEF TradeInv, TradeTypes
<1>8. tradeItem'[p] = i /\ \A r \in Players \ {p} : tradeItem'[r] = tradeItem[r]
  BY <1>1 DEF TradeInv, TradeTypes
<1>9. TradeTypes'
  <2>1. tradeState' \in [Players -> TradeStates]
    BY <1>1 DEF TradeInv, TradeTypes, TradeStates
  <2>2. tradePartner' \in [Players -> Players \cup {Nobody}]
    BY <1>1 DEF TradeInv, TradeTypes
  <2>3. tradeItem' \in [Players -> Goods \cup {Nothing}]
    BY <1>1 DEF TradeInv, TradeTypes
  <2>4. Offered' \subseteq Goods
    BY <1>2 DEF TradeInv, TradeTypes
  <2>5. tradeItems' \in [Offered' -> Players]
    BY <1>1, <1>2 DEF TradeInv, TradeTypes
  <2> QED BY <1>1, <2>1, <2>2, <2>3, <2>4, <2>5 DEF TradeInv, TradeTypes
<1>10. Paired'
  <2> SUFFICES ASSUME NEW r \in Players
               PROVE  /\ tradeState'[r] = "none" <=> tradePartner'[r] = Nobody
                      /\ tradePartner'[r] # Nobody =>
                           /\ tradePartner'[r] # r
                           /\ tradePartner'[tradePartner'[r]] = r
                      /\ tradeState'[r] = "initiated" => tradeItem'[r] # Nothing
                      /\ tradeState'[r] \in {"none", "acknowledge"} =>
                           tradeItem'[r] = Nothing
                      /\ tradeItem'[r] # Nothing =>
                           /\ tradeItem'[r] \in Offered'
                           /\ tradeItems'[tradeItem'[r]] = r
    BY DEF Paired
  <2>1. CASE r = p
    <3>1. i \in Offered' /\ tradeItems'[i] = p
      BY <1>1, <1>2
    <3>2. p # q /\ i # Nothing
      BY <1>1, <1>2
    <3> QED BY <1>4, <1>6, <1>7, <1>8, <2>1, <3>1, <3>2
  <2>2. ASSUME r # p, tradeItem[r] # Nothing
        PROVE  tradeItem[r] \in Offered' /\ tradeItems'[tradeItem[r]] = r
    BY <1>1, <1>2, <2>2 DEF TradeInv, Paired
  <2>3. CASE r = q
    <3>1. tradeState'[q] # "none" /\ p # q
      BY <1>1, <1>7
    <3>2. tradeItem'[q] = tradeItem[q] /\ tradePartner'[q] = p /\ tradePartner'[p] = q
      BY <1>6, <1>8, <3>1
    <3>3. /\ tradeState'[q] = "initiated" => tradeItem[q] # Nothing
          /\ tradeState'[q] \in {"none", "acknowledge"} => tradeItem[q] = Nothing
      BY <1>7 DEF TradeInv, Paired
    <3> QED BY <1>4, <2>2, <2>3, <3>1, <3>2, <3>3
  <2>4. CASE r \notin {p, q}
    <3>1. tradePartner[r] \notin {p, q}
      BY <1>4, <1>5, <2>4, TradeAssumption DEF TradeInv, Paired
    <3>2. tradePartner[r] # Nobody =>
            /\ tradePartner[r] \in Players \ {p, q}
            /\ tradePartner'[tradePartner[r]] = tradePartner[tradePartner[r]]
      BY <1>6, <3>1 DEF TradeInv, TradeTypes
    <3> QED BY <1>6, <1>7, <1>8, <2>2, <2>4, <3>2 DEF TradeInv, Paired
  <2> QED BY <2>1, <2>3, <2>4
<1>11. ~Holds(where, i, i)
  <2>1. PICK r \in Owners : Rooted(where, r, i)
    BY <1>1, ReachIsRoot DEF Owners
  <2>2. r \notin Goods
    BY TradeAssumption DEF Owners
  <2> QED BY <2>1, <2>2, NotInItself DEF TradeInv, TradeTypes, Placing
<1>12. OffersApart'
  <2> SUFFICES ASSUME NEW j \in Offered'
               PROVE  /\ tradeItem'[tradeItems'[j]] = j
                      /\ Reaches(tradeItems[j], j)'
                      /\ \A k \in Offered' : ~Holds(where', j, k)
    BY DEF OffersApart
  <2>1. \A k \in Offered' : ~Holds(where', j, k)
    BY <1>1, <1>2, <1>11 DEF AlreadyTraded, TradeInv, OffersApart
  <2>2. CASE j = i
    <3>1. tradeItems'[j] = p
      BY <1>1, <2>2
    <3> QED BY <1>1, <1>8, <2>1, <2>2, <3>1 DEF Reaches, Carries
  <2>3. CASE j # i
    <3>1. j \in Offered /\ tradeItems'[j] = tradeItems[j]
      BY <1>1, <1>2, <2>3
    <3>2. /\ tradeItem[tradeItems[j]] = j /\ Reaches(tradeItems[j], j)
          /\ j # Nothing /\ tradeItems[j] \in Players
      BY <3>1, TradeAssumption DEF TradeInv, OffersApart, TradeTypes
    <3>3. tradeItems[j] # p
      BY <1>3, <3>2
    <3> QED BY <1>1, <1>8, <2>1, <3>1, <3>2, <3>3 DEF Reaches, Carries
  <2> QED BY <2>2, <2>3
<1>13. AcceptedStands'
  <2> SUFFICES ASSUME NEW r \in Players, tradeState'[r] = "accept"
               PROVE  accepted'[r] \in {{Nothing}, Offer(tradePartner[r])'}
    BY DEF AcceptedStands
  <2>1. r # p /\ tradeState[r] = "accept"
    BY <1>7
  <2>2. accepted'[r] = accepted[r]
    BY <1>1
  <2>3. accepted[r] \in {{Nothing}, Offer(tradePartner[r])}
    BY <2>1 DEF TradeInv, AcceptedStands
  <2>4. tradePartner[r] \in Players /\ tradePartner'[r] = tradePartner[r]
    <3>1. tradePartner[r] \in Players
      BY <2>1 DEF TradeInv, TradeTypes, Paired
    <3>2. CASE r = q
      BY <1>4, <1>5, <1>6, <3>1, <3>2, TradeAssumption
    <3> QED BY <1>6, <2>1, <3>1, <3>2
  <2>5. CASE tradePartner[r] = p
    <3>1. Offer(p) = {Nothing}
      BY <1>3, TradeAssumption DEF Offer, Holds
    <3> QED BY <2>3, <2>5, <2>2, <3>1
  <2>6. CASE tradePartner[r] # p
    <3>1. Offer(tradePartner[r])' = Offer(tradePartner[r])
      BY <1>1, <1>8, <2>4, <2>6 DEF Offer
    <3> QED BY <2>3, <2>2, <3>1
  <2> QED BY <2>5, <2>6
<1> QED BY <1>9, <1>10, <1>12, <1>13 DEF TradeInv

-----------------------------------------------------------------------------
(* What is done with the items of those who are not told of a move.         *)
LEMMA UndisturbedKept ==
    ASSUME TradeTypes, NEW i \in Goods, NEW to \in Anywhere,
           where' = [where EXCEPT ![i] = to],
           NEW r \in Players, tradeItem[r] # Nothing, r \notin Disturbed(where, i, to)
    PROVE  Kept(tradeItem[r])
<1>1. tradeItem[r] \in Goods
  BY DEF TradeTypes
<1>2. ~Touches(where, i, to, tradeItem[r])
  BY DEF Disturbed
<1>3. where \in Placing
  BY DEF TradeTypes, Placing
<1>4. /\ \A k \in Goods : Holds(where', tradeItem[r], k) <=> Holds(where, tradeItem[r], k)
      /\ \A s \in Owners : Rooted(where, s, tradeItem[r]) => Rooted(where', s, tradeItem[r])
  BY <1>1, <1>2, <1>3, MoveKeeps
<1> QED BY <1>4 DEF Kept

(* playerMoveItem and what else moves one item.                             *)
LEMMA MoveItemKeeps ==
    ASSUME TradeInv, NEW p \in Players, NEW i \in Goods,
           NEW to \in {p, Ground} \cup Bags, MoveItem(p, i, to)
    PROVE  TradeInv'
<1>1. to \in Anywhere
  BY DEF Anywhere
<1>2. where' = [where EXCEPT ![i] = to] /\ Close(Disturbed(where, i, to))
  BY DEF MoveItem
<1>3. where' \in Placing
  BY <1>1, <1>2 DEF TradeInv, TradeTypes, Placing
<1>4. \A r \in Players \ Disturbed(where, i, to) :
         tradeItem[r] # Nothing => Kept(tradeItem[r])
  BY <1>1, <1>2, UndisturbedKept DEF TradeInv
<1>5. Disturbed(where, i, to) \subseteq Players
  BY DEF Disturbed
<1> QED BY <1>2, <1>3, <1>4, <1>5, CloseKeeps

(* A trade that is closed where no item is moved.                           *)
LEMMA CloseAloneKeeps ==
    ASSUME TradeInv, NEW closing \in SUBSET Players, Close(closing), where' = where
    PROVE  TradeInv'
<1>1. \A o : Kept(o)
  BY DEF Kept
<1>2. where' \in Placing
  BY DEF TradeInv, TradeTypes, Placing
<1> QED BY <1>1, <1>2, CloseKeeps

(* playerAcceptTrade, the first of the two.                                 *)
LEMMA FirstAcceptKeeps ==
    ASSUME TradeInv, NEW p \in Players, NEW q, q = tradePartner[p],
           tradeState[p] \in {"acknowledge", "initiated"},
           tradeState' = [tradeState EXCEPT ![p] = "accept"],
           accepted' = [accepted EXCEPT ![p] = Offer(q)],
           UNCHANGED <<where, tradePartner, tradeItem, tradeItems>>
    PROVE  TradeInv'
<1>1. /\ tradeState'[p] = "accept"
      /\ \A r \in Players \ {p} : tradeState'[r] = tradeState[r]
  BY DEF TradeInv, TradeTypes
<1>2. q \in Players
  BY DEF TradeInv, TradeTypes, Paired
<1>3. /\ accepted'[p] = Offer(q)
      /\ \A r \in Players \ {p} : accepted'[r] = accepted[r]
  BY DEF TradeInv, TradeTypes
<1>4. TradeTypes'
  <2>1. tradeState' \in [Players -> TradeStates]
    BY DEF TradeInv, TradeTypes, TradeStates
  <2>2. Offer(q) \subseteq Goods \cup {Nothing}
    BY <1>2 DEF TradeInv, TradeTypes, Offer
  <2>3. accepted' \in [Players -> SUBSET (Goods \cup {Nothing})]
    BY <2>2 DEF TradeInv, TradeTypes
  <2> QED BY <2>1, <2>3 DEF TradeInv, TradeTypes, Offered
<1>5. Paired'
  BY <1>1 DEF TradeInv, Paired, Offered
<1>6. OffersApart'
  BY DEF TradeInv, OffersApart, Offered, Reaches, Carries
<1>7. \A r : Offer(r)' = Offer(r)
  BY DEF Offer
<1>8. AcceptedStands'
  <2> SUFFICES ASSUME NEW r \in Players, tradeState'[r] = "accept"
               PROVE  accepted'[r] \in {{Nothing}, Offer(tradePartner[r])'}
    BY DEF AcceptedStands
  <2>1. Offer(tradePartner[r])' = Offer(tradePartner[r])
    BY DEF Offer
  <2> QED BY <1>1, <1>3, <2>1 DEF TradeInv, AcceptedStands
<1> QED BY <1>4, <1>5, <1>6, <1>8 DEF TradeInv

-----------------------------------------------------------------------------
(* A place for the item of a trade is with the player or in a bag of it.    *)
LEMMA VacantIsWith ==
    ASSUME NEW p \in Players, NEW place, NEW z \in Vacant(p, place)
    PROVE  /\ z \in Anywhere
           /\ z = p \/ (z \in Bags /\ place[z] = p)
  BY DEF Vacant, Open, Anywhere

(* There is room where fewer items are.                                     *)
LEMMA VacancyGrows ==
    ASSUME NEW place, NEW other, NEW z,
           \A j \in Goods : other[j] = z => place[j] = z, Vacancy(place, z)
    PROVE  Vacancy(other, z)
<1> DEFINE A == {j \in Goods : place[j] = z}
           B == {j \in Goods : other[j] = z}
<1>1. B \in SUBSET A /\ A \in SUBSET Goods
  OBVIOUS
<1>2. IsFiniteSet(A)
  BY <1>1, FS_Subset, TradeAssumption
<1>3. Cardinality(B) <= Cardinality(A) /\ IsFiniteSet(B)
  BY <1>1, <1>2, FS_Subset
<1>4. Cardinality(A) \in Nat /\ Cardinality(B) \in Nat
  BY <1>2, <1>3, FS_CardinalityType
<1>5. Cardinality(A) < Capacity
  BY DEF Vacancy
<1>6. Cardinality(B) < Capacity
  BY <1>3, <1>4, <1>5, TradeAssumption
<1> QED BY <1>6 DEF Vacancy

(* Who gives an item away has room for one, if there was before.            *)
LEMMA RoomStays ==
    ASSUME TradeInv, NEW p \in Players, NEW q \in Players, p # q,
           tradeItem[p] # Nothing, NEW to \in Vacant(q, where), Vacant(p, where) # {},
           NEW after, after = [where EXCEPT ![tradeItem[p]] = to]
    PROVE  Vacant(p, after) # {}
<1>1. where \in Placing /\ tradeItem[p] \in Goods
  BY DEF TradeInv, TradeTypes, Placing
<1>2. /\ after[tradeItem[p]] = to
      /\ \A j \in Goods \ {tradeItem[p]} : after[j] = where[j]
  BY <1>1 DEF Placing
<1>3. to = q \/ (to \in Bags /\ where[to] = q)
  BY VacantIsWith
<1>4. p \notin Goods /\ q \notin Goods /\ Bags \subseteq Goods
  BY TradeAssumption
<1>5. to # p
  BY <1>3, <1>4
<1>6. CASE Vacancy(where, p)
  <2>1. Vacancy(after, p)
    BY <1>2, <1>5, <1>6, VacancyGrows
  <2> QED BY <2>1 DEF Vacant
<1>7. CASE ~Vacancy(where, p)
  <2>1. PICK b \in Open(p, where) : Vacancy(where, b)
    BY <1>7 DEF Vacant
  <2>2. b \in Bags /\ where[b] = p /\ b # tradeItem[p]
    BY <2>1 DEF Open
  <2>3. b \in Open(p, after)
    BY <1>2, <1>4, <2>2 DEF Open
  <2>4. to # b
    BY <1>3, <1>4, <2>2
  <2>5. Vacancy(after, b)
    BY <1>2, <2>1, <2>4, VacancyGrows
  <2> QED BY <2>3, <2>5 DEF Vacant
<1> QED BY <1>6, <1>7

(* playerAcceptTrade, the second of the two: the items change hands.        *)
LEMMA TransfersKeep ==
    ASSUME TradeInv, BothOrNone, leftBehind \in Goods \cup {Nothing},
           NEW p \in Players, NEW q \in Players, p # q, Transfers(p, q)
    PROVE  TradeInv' /\ BothOrNone' /\ leftBehind' \in Goods \cup {Nothing}
<1> DEFINE given == tradeItem[p]
           got == tradeItem[q]
           after(to) == [where EXCEPT ![given] = to]
           told(to) == {p, q} \cup Disturbed(where, given, to)
<1>1. CASE Close({p, q}) /\ UNCHANGED <<where, leftBehind>>
  <2>1. TradeInv'
    BY <1>1, CloseAloneKeeps
  <2> QED BY <1>1, <2>1 DEF BothOrNone
<1>2. ASSUME Fits(q, given) /\ Fits(p, got), NEW to \in Vacant(q, where),
             \/ /\ Vacant(p, after(to)) = {}
                /\ where' = after(to) /\ leftBehind' = got
                /\ Close(told(to))
             \/ \E back \in Vacant(p, after(to)) :
                  /\ where' = [after(to) EXCEPT ![got] = back]
                  /\ Close(told(to) \cup Disturbed(after(to), got, back))
                  /\ UNCHANGED leftBehind
      PROVE  TradeInv' /\ BothOrNone' /\ leftBehind' \in Goods \cup {Nothing}
  <2>1. given \in Goods /\ got \in Goods /\ given # Nothing /\ got # Nothing
    BY <1>2 DEF Fits, TradeInv, TradeTypes
  <2>2. to \in Anywhere
    BY VacantIsWith
  <2>3. where \in Placing
    BY DEF TradeInv, TradeTypes, Placing
  <2>4. after(to) \in Placing
    BY <2>1, <2>2, <2>3 DEF Placing
  <2>5. told(to) \in SUBSET Players
    BY DEF Disturbed
  <2>6. CASE /\ Vacant(p, after(to)) = {}
             /\ where' = after(to) /\ leftBehind' = got
             /\ Close(told(to))
    <3>1. \A r \in Players \ told(to) : tradeItem[r] # Nothing => Kept(tradeItem[r])
      BY <2>1, <2>2, <2>6, UndisturbedKept DEF TradeInv
    <3>2. TradeInv'
      <4>1. where' \in Placing /\ Close(told(to))
        BY <2>4, <2>6
      <4> HIDE DEF told
      <4> QED BY <2>5, <3>1, <4>1, CloseKeeps
    <3>3. Vacant(p, where) = {}
      BY <2>1, <2>6, RoomStays
    <3>4. got \in Stackables
      BY <1>2, <3>3 DEF Fits, Merges
    <3> QED BY <2>1, <2>6, <3>2, <3>4 DEF BothOrNone
  <2>7. ASSUME NEW back \in Vacant(p, after(to)),
               where' = [after(to) EXCEPT ![got] = back],
               Close(told(to) \cup Disturbed(after(to), got, back)),
               UNCHANGED leftBehind
        PROVE  TradeInv' /\ BothOrNone' /\ leftBehind' \in Goods \cup {Nothing}
    <3> DEFINE mid == after(to)
               closing == told(to) \cup Disturbed(mid, got, back)
    <3>1. back \in Anywhere
      BY VacantIsWith
    <3>2. closing \in SUBSET Players
      BY <2>5 DEF Disturbed
    <3>3. ASSUME NEW r \in Players \ closing, tradeItem[r] # Nothing
          PROVE  Kept(tradeItem[r])
      <4> DEFINE o == tradeItem[r]
      <4>1. o \in Goods
        BY <3>3 DEF TradeInv, TradeTypes
      <4>2. ~Touches(where, given, to, o) /\ ~Touches(mid, got, back, o)
        BY <3>3 DEF Disturbed
      <4>3. mid = [where EXCEPT ![given] = to] /\ where' = [mid EXCEPT ![got] = back]
        BY <2>7
      <4>4. mid \in Placing
        BY <2>4
      <4> HIDE DEF o, mid, given, got, closing
      <4>5. /\ \A k \in Goods : Holds(mid, o, k) <=> Holds(where, o, k)
            /\ \A s \in Owners : Rooted(where, s, o) => Rooted(mid, s, o)
        BY <2>1, <2>2, <2>3, <4>1, <4>2, <4>3, MoveKeeps
      <4>6. /\ \A k \in Goods : Holds(where', o, k) <=> Holds(mid, o, k)
            /\ \A s \in Owners : Rooted(mid, s, o) => Rooted(where', s, o)
        BY <2>1, <3>1, <4>1, <4>2, <4>3, <4>4, MoveKeeps
      <4>7. Kept(o)
        BY <4>5, <4>6 DEF Kept
      <4> QED BY <4>7 DEF o
    <3>4. where' \in Placing
      BY <2>1, <2>4, <2>7, <3>1 DEF Placing
    <3>5. TradeInv'
      <4>1. Close(closing)
        BY <2>7
      <4> HIDE DEF closing
      <4> QED BY <3>2, <3>3, <3>4, <4>1, CloseKeeps
    <3> QED BY <2>7, <3>5 DEF BothOrNone
  <2> QED BY <1>2, <2>6, <2>7
<1> QED BY <1>1, <1>2 DEF Transfers

(* playerAcceptTrade.                                                       *)
LEMMA AcceptKeeps ==
    ASSUME TradeInv, BothOrNone, leftBehind \in Goods \cup {Nothing},
           NEW p \in Players, AcceptTrade(p)
    PROVE  TradeInv' /\ BothOrNone' /\ leftBehind' \in Goods \cup {Nothing}
<1> DEFINE q == tradePartner[p]
<1>1. tradeState[p] \in {"acknowledge", "initiated"}
  BY DEF AcceptTrade
<1>2. q \in Players /\ p # q
  BY <1>1 DEF TradeInv, TradeTypes, Paired
<1>3. CASE /\ tradeState' = [tradeState EXCEPT ![p] = "accept"]
           /\ accepted' = [accepted EXCEPT ![p] = Offer(q)]
           /\ UNCHANGED <<where, tradePartner, tradeItem, tradeItems, leftBehind>>
  <2>1. TradeInv'
    BY <1>1, <1>3, FirstAcceptKeeps
  <2> QED BY <1>3, <2>1 DEF BothOrNone
<1>4. CASE Transfers(p, q)
  BY <1>2, <1>4, TransfersKeep
<1>5. CASE Close({p, q}) /\ UNCHANGED <<where, leftBehind>>
  <2>1. TradeInv'
    BY <1>2, <1>5, CloseAloneKeeps
  <2> QED BY <1>5, <2>1 DEF BothOrNone
<1> QED BY <1>3, <1>4, <1>5 DEF AcceptTrade

-----------------------------------------------------------------------------
(* TradeInv and what it leaves out of the types.                            *)
Inv == TypeOK /\ TradeInv /\ BothOrNone

(* The invariants are inductive together.                                   *)
LEMMA NextKeeps == Inv /\ [Next]_vars => Inv'
<1> SUFFICES ASSUME Inv, [Next]_vars PROVE Inv'
  OBVIOUS
<1>1. leftBehind \in Goods \cup {Nothing} /\ moves \in 0..MaxMoves /\ BothOrNone
  BY DEF Inv, TypeOK
<1>2. TradeInv
  BY DEF Inv
<1> SUFFICES TradeInv' /\ BothOrNone' /\ leftBehind' \in Goods \cup {Nothing}
             /\ moves' \in 0..MaxMoves
  BY DEF Inv, TypeOK, TradeInv, TradeTypes, Offered
<1>3. ASSUME NEW p \in Players, NEW q \in Players, NEW i \in Goods,
             RequestTrade(p, q, i)
      PROVE  TradeInv' /\ BothOrNone' /\ leftBehind' \in Goods \cup {Nothing}
             /\ moves' \in 0..MaxMoves
  <2>1. TradeInv'
    BY <1>2, <1>3, RequestKeeps
  <2> QED BY <1>1, <1>3, <2>1 DEF RequestTrade, BothOrNone
<1>4. ASSUME NEW p \in Players, AcceptTrade(p)
      PROVE  TradeInv' /\ BothOrNone' /\ leftBehind' \in Goods \cup {Nothing}
             /\ moves' \in 0..MaxMoves
  <2>1. moves' = moves
    BY <1>4 DEF AcceptTrade
  <2> QED BY <1>1, <1>2, <1>4, <2>1, AcceptKeeps
<1>5. ASSUME NEW p \in Players, CloseTrade(p)
      PROVE  TradeInv' /\ BothOrNone' /\ leftBehind' \in Goods \cup {Nothing}
             /\ moves' \in 0..MaxMoves
  <2>1. Close({p}) /\ UNCHANGED <<where, leftBehind, moves>>
    BY <1>5 DEF CloseTrade
  <2>2. TradeInv'
    BY <1>2, <2>1, CloseAloneKeeps
  <2> QED BY <1>1, <2>1, <2>2 DEF BothOrNone
<1>6. ASSUME NEW p \in Players, WalkAway(p)
      PROVE  TradeInv' /\ BothOrNone' /\ leftBehind' \in Goods \cup {Nothing}
             /\ moves' \in 0..MaxMoves
  <2>1. /\ Close({p}) /\ UNCHANGED <<where, leftBehind>>
        /\ moves < MaxMoves /\ moves' = moves + 1
    BY <1>6 DEF WalkAway
  <2>2. TradeInv'
    BY <1>2, <2>1, CloseAloneKeeps
  <2>3. moves' \in 0..MaxMoves
    BY <1>1, <2>1, TradeAssumption
  <2> QED BY <1>1, <2>1, <2>2, <2>3 DEF BothOrNone
<1>7. ASSUME NEW p \in Players, NEW i \in Goods, NEW to \in {p, Ground} \cup Bags,
             MoveItem(p, i, to)
      PROVE  TradeInv' /\ BothOrNone' /\ leftBehind' \in Goods \cup {Nothing}
             /\ moves' \in 0..MaxMoves
  <2>1. TradeInv'
    BY <1>2, <1>7, MoveItemKeeps
  <2>2. moves < MaxMoves /\ moves' = moves + 1 /\ leftBehind' = leftBehind
    BY <1>7 DEF MoveItem
  <2>3. moves' \in 0..MaxMoves
    BY <1>1, <2>2, TradeAssumption
  <2> QED BY <1>1, <2>1, <2>2, <2>3 DEF BothOrNone
<1>8. CASE UNCHANGED vars
  BY <1>1, <1>2, <1>8 DEF vars, trade, TradeInv, TradeTypes, Paired, OffersApart,
     AcceptedStands, BothOrNone, Offered, Offer, Reaches, Carries
<1> QED BY <1>3, <1>4, <1>5, <1>6, <1>7, <1>8 DEF Next

(* In every trade both sides know each other, and what they offer is theirs *)
(* to give and in no other offer (Game::internalStartTrade,                 *)
(* internalCloseTrade, Player::checkTradeState).                            *)
THEOREM TradesAreKept == Spec => []TradeKept
<1>1. Init => Inv
  BY InitHolds DEF Inv
<1>2. Inv => TradeKept
  BY DEF Inv, TradeInv, TradeKept
<1> QED BY <1>1, <1>2, NextKeeps, PTL DEF Spec

(* What a player accepted is what changes hands, and both items do, but for *)
(* a stack that was to be merged (Game::playerAcceptTrade).                 *)
THEOREM TradesAreFair == Spec => []TradeFair
<1>1. Init => Inv
  BY InitHolds DEF Inv
<1>2. Inv => TradeFair
  BY DEF Inv, TradeInv, TradeFair
<1> QED BY <1>1, <1>2, NextKeeps, PTL DEF Spec

-----------------------------------------------------------------------------
(* A list of members, and what erasing one leaves of it.                    *)
Elems(s) == {s[i] : i \in 1..Len(s)}
Distinct(s) == \A i, j \in 1..Len(s) : s[i] = s[j] => i = j

Erases(h, s, p) ==
    h = [t \in SUBSET (1..Len(s)) |->
           IF t = {} THEN <<>>
           ELSE IF s[Group!Max(t)] = p THEN h[t \ {Group!Max(t)}]
           ELSE Append(h[t \ {Group!Max(t)}], s[Group!Max(t)])]

Erased(s, p) == CHOOSE h : Erases(h, s, p)

-----------------------------------------------------------------------------
(* The instance of Party has the library's operators under its own name.    *)
LEMMA GroupRange ==
    ASSUME NEW P, NEW s \in Seq(P)
    PROVE  Group!Range(s) = Elems(s)
  BY DEF Group!Range, Elems

(* So it does for this one.                                                 *)
LEMMA GroupCardinality ==
    ASSUME NEW S
    PROVE  Group!Cardinality(S) = Cardinality(S)
  BY DEF Group!Cardinality, Cardinality

(* A set of positions has a greatest one.                                   *)
LEMMA Greatest ==
    ASSUME NEW n \in Nat, NEW S \in SUBSET (1..n), S # {}
    PROVE  Group!Max(S) \in S
<1> DEFINE D == 1..n
           Has(t) == \E m \in t : \A y \in t : m >= y
           Bad == {t \in SUBSET D : t # {} /\ ~Has(t)}
<1>1. Bad = {}
  <2> SUFFICES ASSUME Bad # {} PROVE FALSE
    OBVIOUS
  <2>1. PICK t \in Bad : \A u \in Bad : ~(u \subseteq t /\ u # t)
    <3>1. Bad \in SUBSET SUBSET D /\ IsFiniteSet(D)
      BY FS_Interval
    <3> HIDE DEF Bad, D
    <3> QED BY <3>1, LeastSubset
  <2>2. PICK m \in t : TRUE
    OBVIOUS
  <2>3. CASE t = {m}
    BY <2>3
  <2>4. CASE t # {m}
    <3>1. t \ {m} # {} /\ t \ {m} \subseteq t /\ t \ {m} # t /\ t \ {m} \in SUBSET (1..n)
      BY <2>2, <2>4
    <3>2. Has(t \ {m})
      BY <2>1, <3>1
    <3>3. PICK k \in t \ {m} : \A y \in t \ {m} : k >= y
      BY <3>2
    <3>4. t \subseteq 1..n /\ k \in Nat /\ m \in Nat
      BY <3>3
    <3>5. CASE m >= k
      BY <3>3, <3>4, <3>5
    <3>6. CASE k >= m
      BY <3>3, <3>4, <3>6
    <3> QED BY <3>4, <3>5, <3>6
  <2> QED BY <2>3, <2>4
<1>2. Has(S)
  BY <1>1
<1> HIDE DEF Bad
<1> QED BY <1>2 DEF Group!Max

(* Erase is a fold, which a function on the sets of positions computes.     *)
LEMMA EraseExists ==
    ASSUME NEW P, NEW s \in Seq(P), NEW p
    PROVE  Erases(Erased(s, p), s, p) /\ Group!Erase(s, p) = Erased(s, p)[1..Len(s)]
<1> DEFINE D == 1..Len(s)
           c == [t \in SUBSET D |-> Group!Max(t)]
           op == [z \in D \X Seq(P) |-> IF s[z[1]] = p THEN z[2] ELSE Append(z[2], s[z[1]])]
<1>0. IsFiniteSet(D)
  BY FS_Interval
<1>1. Picks(c, D)
  <2>1. \A t \in SUBSET D : t # {} => Group!Max(t) \in t
    BY Greatest
  <2> QED BY <2>1 DEF Picks
<1>2. \A i \in D, v \in Seq(P) :
        /\ op[<<i, v>>] = IF s[i] = p THEN v ELSE Append(v, s[i])
        /\ op[<<i, v>>] \in Seq(P)
  OBVIOUS
<1>3. PICK h : TypedFold(h, D, c, Seq(P), op, <<>>)
  <2> HIDE DEF c, op, D
  <2>1. <<>> \in Seq(P) /\ \A i \in D, v \in Seq(P) : op[<<i, v>>] \in Seq(P)
    BY <1>2
  <2> QED BY <1>0, <1>1, <2>1, FoldExists
<1>4. h \in [SUBSET D -> Seq(P)]
  BY <1>3 DEF TypedFold
<1>5. ASSUME NEW t \in SUBSET D, t # {}
      PROVE  op[<<c[t], h[t \ {c[t]}]>>]
               = IF s[Group!Max(t)] = p THEN h[t \ {Group!Max(t)}]
                 ELSE Append(h[t \ {Group!Max(t)}], s[Group!Max(t)])
  <2>1. c[t] = Group!Max(t) /\ c[t] \in D /\ t \ {c[t]} \in SUBSET D
    BY <1>1, <1>5 DEF Picks
  <2>2. h[t \ {c[t]}] \in Seq(P)
    BY <1>4, <2>1
  <2> HIDE DEF c, op, D
  <2> QED BY <1>2, <2>1, <2>2
<1>6. h = [t \in SUBSET D |-> IF t = {} THEN <<>> ELSE op[<<c[t], h[t \ {c[t]}]>>]]
  BY <1>3 DEF TypedFold, Folds
<1>7. Erases(h, s, p)
  <2> HIDE DEF c, op
  <2> QED BY <1>5, <1>6 DEF Erases
<1>8. Group!Erase(s, p) = Erased(s, p)[1..Len(s)]
  <2>1. DOMAIN s = 1..Len(s)
    OBVIOUS
  <2> QED BY <2>1 DEF Group!Erase, Group!FoldLeft, Group!MapThenFoldSet, Erased, Erases
<1> QED BY <1>7, <1>8 DEF Erased

(* Adding somebody at the end, ...                                          *)
LEMMA AppendIs ==
    ASSUME NEW P, NEW s \in Seq(P), NEW p \in P
    PROVE  /\ Append(s, p) \in Seq(P) /\ Elems(Append(s, p)) = Elems(s) \cup {p}
           /\ Distinct(s) /\ p \notin Elems(s) => Distinct(Append(s, p))
  BY DEF Elems, Distinct

(* Erasing leaves the others, and each of them once.                        *)
LEMMA EraseIs ==
    ASSUME NEW P, NEW s \in Seq(P), NEW p
    PROVE  /\ Group!Erase(s, p) \in Seq(P)
           /\ Elems(Group!Erase(s, p)) = Elems(s) \ {p}
           /\ Distinct(s) => Distinct(Group!Erase(s, p))
<1> DEFINE D == 1..Len(s)
           g == Erased(s, p)
           Good(t) == /\ g[t] \in Seq(P) /\ Elems(g[t]) = {s[i] : i \in t} \ {p}
                      /\ Distinct(s) => Distinct(g[t])
           Bad == {t \in SUBSET D : ~Good(t)}
<1>1. Erases(g, s, p)
  BY EraseExists
<1> HIDE DEF g
<1>2. Bad = {}
  <2> SUFFICES ASSUME Bad # {} PROVE FALSE
    OBVIOUS
  <2>1. PICK t \in Bad : \A u \in Bad : ~(u \subseteq t /\ u # t)
    <3>1. Bad \in SUBSET SUBSET D /\ IsFiniteSet(D)
      BY FS_Interval
    <3> HIDE DEF Bad, D
    <3> QED BY <3>1, LeastSubset
  <2>2. g[t] = IF t = {} THEN <<>>
               ELSE IF s[Group!Max(t)] = p THEN g[t \ {Group!Max(t)}]
               ELSE Append(g[t \ {Group!Max(t)}], s[Group!Max(t)])
    BY <1>1 DEF Erases
  <2>3. CASE t = {}
    <3>1. g[t] = <<>>
      BY <2>2, <2>3
    <3>2. <<>> \in Seq(P) /\ Elems(<<>>) = {} /\ Distinct(<<>>)
      BY DEF Elems, Distinct
    <3>3. {s[i] : i \in t} = {}
      BY <2>3
    <3> QED BY <3>1, <3>2, <3>3
  <2>4. CASE t # {}
    <3> DEFINE m == Group!Max(t)
               u == t \ {m}
    <3>1. m \in t
      <4>1. Len(s) \in Nat /\ t \in SUBSET (1..Len(s))
        OBVIOUS
      <4> QED BY <2>4, <4>1, Greatest
    <3>2. Good(u)
      <4>1. u \in SUBSET D /\ u \subseteq t /\ u # t
        BY <3>1
      <4> HIDE DEF Good, u
      <4> QED BY <2>1, <4>1
    <3> HIDE DEF m
    <3>3. CASE s[m] = p
      <4>1. g[t] = g[u]
        BY <2>2, <2>4, <3>3 DEF m
      <4>2. {s[i] : i \in t} \ {p} = {s[i] : i \in u} \ {p}
        BY <3>3
      <4> QED BY <3>2, <4>1, <4>2
    <3>4. CASE s[m] # p
      <4>1. g[t] = Append(g[u], s[m])
        BY <2>2, <2>4, <3>4 DEF m
      <4>2. {s[i] : i \in t} \ {p} = ({s[i] : i \in u} \ {p}) \cup {s[m]}
        BY <3>1, <3>4
      <4>3. s[m] \in P /\ g[u] \in Seq(P)
        BY <3>1, <3>2
      <4>4. g[t] \in Seq(P) /\ Elems(g[t]) = Elems(g[u]) \cup {s[m]}
        <5> DEFINE r == g[u]
                   e == s[m]
        <5>1. r \in Seq(P) /\ e \in P
          BY <4>3
        <5> HIDE DEF r, e
        <5>2. Append(r, e) \in Seq(P) /\ Elems(Append(r, e)) = Elems(r) \cup {e}
          BY ONLY <5>1, AppendIs
        <5> QED BY <4>1, <5>2 DEF r, e
      <4>5. Distinct(s) => Distinct(g[t])
        <5> SUFFICES ASSUME Distinct(s) PROVE Distinct(g[t])
          OBVIOUS
        <5>1. s[m] \notin Elems(g[u]) /\ Distinct(g[u])
          <6>1. Distinct(g[u]) /\ Elems(g[u]) = {s[i] : i \in u} \ {p}
            BY <3>2
          <6>2. \A i \in u : s[i] # s[m]
            BY <3>1 DEF Distinct
          <6> QED BY <6>1, <6>2
        <5> QED BY <4>1, <4>3, <5>1, AppendIs
      <4> QED BY <3>2, <4>2, <4>4, <4>5
    <3> QED BY <3>3, <3>4
  <2> QED BY <2>3, <2>4
<1>3. Good(D)
  BY <1>2
<1> QED BY <1>3, EraseExists DEF g, Elems

(* ... and in front.                                                        *)
LEMMA ConsIs ==
    ASSUME NEW P, NEW s \in Seq(P), NEW p \in P
    PROVE  /\ <<p>> \o s \in Seq(P) /\ Elems(<<p>> \o s) = Elems(s) \cup {p}
           /\ Distinct(s) /\ p \notin Elems(s) => Distinct(<<p>> \o s)
<1> DEFINE r == <<p>> \o s
<1>1. r \in Seq(P) /\ Len(r) = Len(s) + 1
  OBVIOUS
<1>2. \A i \in 1..Len(r) : r[i] = IF i = 1 THEN p ELSE s[i - 1]
  OBVIOUS
<1> HIDE DEF r
<1>3. Elems(r) = Elems(s) \cup {p}
  <2>1. ASSUME NEW i \in 1..Len(s) PROVE s[i] \in Elems(r)
    <3>1. i + 1 \in 1..Len(r) /\ r[i + 1] = s[i]
      BY <1>1, <1>2
    <3> QED BY <3>1 DEF Elems
  <2>2. p \in Elems(r)
    <3>1. 1 \in 1..Len(r) /\ r[1] = p
      BY <1>1, <1>2
    <3> QED BY <3>1 DEF Elems
  <2>3. ASSUME NEW i \in 1..Len(r) PROVE r[i] \in Elems(s) \cup {p}
    BY <1>1, <1>2, SMTT(30) DEF Elems
  <2> QED BY <2>1, <2>2, <2>3 DEF Elems
<1>4. Distinct(s) /\ p \notin Elems(s) => Distinct(r)
  <2> SUFFICES ASSUME Distinct(s), p \notin Elems(s),
                      NEW i \in 1..Len(r), NEW j \in 1..Len(r), r[i] = r[j]
               PROVE  i = j
    BY DEF Distinct
  <2>1. \A k \in 1..Len(r) : k # 1 => k - 1 \in 1..Len(s) /\ s[k - 1] # p
    BY <1>1 DEF Elems
  <2>2. CASE i = 1 \/ j = 1
    BY <1>2, <2>1, <2>2
  <2>3. CASE i # 1 /\ j # 1
    <3>1. s[i - 1] = s[j - 1]
      BY <1>2, <2>3
    <3>2. i - 1 = j - 1
      BY <2>1, <2>3, <3>1 DEF Distinct
    <3> QED BY <1>1, <3>2
  <2> QED BY <2>2, <2>3
<1> QED BY <1>1, <1>3, <1>4 DEF r

(* No list but the empty one has nobody on it.                              *)
LEMMA EmptyIs ==
    ASSUME NEW P, NEW s \in Seq(P)
    PROVE  /\ s = <<>> <=> Elems(s) = {}
           /\ s # <<>> => Len(s) # 0 /\ Head(s) \in P /\ Head(s) \in Elems(s)
           /\ Elems(s) \subseteq P
<1>1. s # <<>> => Len(s) # 0 /\ 1 \in 1..Len(s) /\ Head(s) = s[1] /\ s[1] \in P
  OBVIOUS
<1> QED BY <1>1 DEF Elems

(* A list that has each of its elements once is as long as it has elements. *)
LEMMA LengthIs ==
    ASSUME NEW P, NEW s \in Seq(P), Distinct(s)
    PROVE  Len(s) = Cardinality(Elems(s))
<1> DEFINE D == 1..Len(s)
           n == Len(s)
<1>1. ExistsBijection(D, Elems(s))
  BY DEF ExistsBijection, Bijection, Injection, Surjection, IsInjective, Elems, Distinct
<1>2. IsFiniteSet(D) /\ Cardinality(D) = n
  <2>1. n \in Nat /\ 1 \in Int /\ n \in Int
    OBVIOUS
  <2> HIDE DEF n
  <2>2. IsFiniteSet(1..n) /\ Cardinality(1..n) = IF 1 > n THEN 0 ELSE n - 1 + 1
    BY <2>1, FS_Interval
  <2> QED BY <2>1, <2>2 DEF n
<1> HIDE DEF D
<1> QED BY <1>1, <1>2, FS_Bijection

-----------------------------------------------------------------------------
(* What the parties and the players are, whatever scripts refuse.           *)
Societies ==
    [m_party : [Players -> Group!Parties \cup {Group!None}],
     invitePartyList : [Players -> SUBSET Group!Parties],
     m_leader : [Group!Parties -> Players \cup {Nobody}],
     memberList : [Group!Parties -> Seq(Players)],
     inviteList : [Group!Parties -> SUBSET Players],
     sharedExpActive : [Group!Parties -> BOOLEAN],
     sharedExpEnabled : [Group!Parties -> BOOLEAN]]

(* The fields of a society, and what is one.                                *)
LEMMA Fields ==
    ASSUME NEW s \in Societies
    PROVE  /\ s.m_party \in [Players -> Group!Parties \cup {Group!None}]
           /\ s.invitePartyList \in [Players -> SUBSET Group!Parties]
           /\ s.m_leader \in [Group!Parties -> Players \cup {Nobody}]
           /\ s.memberList \in [Group!Parties -> Seq(Players)]
           /\ s.inviteList \in [Group!Parties -> SUBSET Players]
           /\ s.sharedExpActive \in [Group!Parties -> BOOLEAN]
           /\ s.sharedExpEnabled \in [Group!Parties -> BOOLEAN]
  BY DEF Societies

(* A record with those fields is one.                                       *)
LEMMA IsSociety ==
    ASSUME NEW s,
           s = [m_party |-> s.m_party, invitePartyList |-> s.invitePartyList,
                m_leader |-> s.m_leader, memberList |-> s.memberList,
                inviteList |-> s.inviteList, sharedExpActive |-> s.sharedExpActive,
                sharedExpEnabled |-> s.sharedExpEnabled],
           s.m_party \in [Players -> Group!Parties \cup {Group!None}],
           s.invitePartyList \in [Players -> SUBSET Group!Parties],
           s.m_leader \in [Group!Parties -> Players \cup {Nobody}],
           s.memberList \in [Group!Parties -> Seq(Players)],
           s.inviteList \in [Group!Parties -> SUBSET Players],
           s.sharedExpActive \in [Group!Parties -> BOOLEAN],
           s.sharedExpEnabled \in [Group!Parties -> BOOLEAN]
    PROVE  s \in Societies
  BY DEF Societies

(* Sharing is brought up to date in one field, for one party.               *)
LEMMA UpdateIs ==
    ASSUME NEW s \in Societies, NEW k \in Group!Parties, NEW away, NEW resting,
           NEW r, r = Group!UpdateIn(s, k, away, resting)
    PROVE  /\ r \in Societies
           /\ r.m_party = s.m_party /\ r.invitePartyList = s.invitePartyList
           /\ r.m_leader = s.m_leader /\ r.memberList = s.memberList
           /\ r.inviteList = s.inviteList /\ r.sharedExpActive = s.sharedExpActive
           /\ \A j \in Group!Parties \ {k} : r.sharedExpEnabled[j] = s.sharedExpEnabled[j]
           /\ r.sharedExpActive[k] =>
                r.sharedExpEnabled[k] = Group!SharedExperienceStatus(s, k, away, resting)
<1>1. Group!SharedExperienceStatus(s, k, away, resting) \in BOOLEAN
  BY DEF Group!SharedExperienceStatus
<1>2. CASE s.sharedExpActive[k]
  <2> DEFINE v == Group!SharedExperienceStatus(s, k, away, resting)
  <2>1. r = [s EXCEPT !.sharedExpEnabled[k] = v]
    BY <1>2 DEF Group!UpdateIn
  <2> HIDE DEF v
  <2>2. v \in BOOLEAN
    BY <1>1 DEF v
  <2>3. r.sharedExpEnabled = [s.sharedExpEnabled EXCEPT ![k] = v]
    BY <2>1 DEF Societies
  <2>4. /\ r.m_party = s.m_party /\ r.invitePartyList = s.invitePartyList
        /\ r.m_leader = s.m_leader /\ r.memberList = s.memberList
        /\ r.inviteList = s.inviteList /\ r.sharedExpActive = s.sharedExpActive
    BY <2>1 DEF Societies
  <2>5. r = [m_party |-> r.m_party, invitePartyList |-> r.invitePartyList,
             m_leader |-> r.m_leader, memberList |-> r.memberList,
             inviteList |-> r.inviteList, sharedExpActive |-> r.sharedExpActive,
             sharedExpEnabled |-> r.sharedExpEnabled]
    BY <2>1 DEF Societies
  <2>6. [s.sharedExpEnabled EXCEPT ![k] = v] \in [Group!Parties -> BOOLEAN]
    BY <2>2, Fields
  <2>7. r \in Societies
    BY <2>3, <2>4, <2>5, <2>6, Fields, IsSociety
  <2> QED BY <2>3, <2>4, <2>7, Fields DEF v
<1>3. CASE ~s.sharedExpActive[k]
  BY <1>3 DEF Group!UpdateIn
<1> QED BY <1>2, <1>3

(* What disbanding leaves.                                                  *)
Disbanded(s, k, r) ==
    /\ r.m_leader[k] = Nobody /\ r.inviteList[k] = {} /\ r.memberList[k] = <<>>
    /\ \A j \in Group!Parties \ {k} :
         /\ r.m_leader[j] = s.m_leader[j] /\ r.inviteList[j] = s.inviteList[j]
         /\ r.memberList[j] = s.memberList[j]
    /\ \A p \in Players :
         /\ r.m_party[p] = IF p = Group!Leader(s, k) \/ p \in Elems(s.memberList[k])
                           THEN Group!None ELSE s.m_party[p]
         /\ r.invitePartyList[p] = s.invitePartyList[p] \ {k}
    /\ r.sharedExpActive = s.sharedExpActive /\ r.sharedExpEnabled = s.sharedExpEnabled

(* Disband leaves just that.                                                *)
LEMMA DisbandIs ==
    ASSUME NEW s \in Societies, NEW k \in Group!Parties,
           NEW r, r = Group!Disband(s, k, FALSE)
    PROVE  r \in Societies /\ Disbanded(s, k, r)
<1> DEFINE out == {Group!Leader(s, k)} \cup Group!Members(s, k)
<1>1. r = [s EXCEPT
             !.m_leader[k] = Nobody,
             !.m_party = [p \in Players |-> IF p \in out THEN Group!None ELSE @[p]],
             !.invitePartyList = [p \in Players |-> @[p] \ {k}],
             !.inviteList[k] = {}, !.memberList[k] = <<>>]
  BY DEF Group!Disband
<1>2. \A p : p \in out <=> p = Group!Leader(s, k) \/ p \in Elems(s.memberList[k])
  BY GroupRange, Fields DEF Group!Members
<1> HIDE DEF out
<1>3. r.m_leader = [s.m_leader EXCEPT ![k] = Nobody]
  BY <1>1 DEF Societies
<1>4. r.m_party = [p \in Players |-> IF p \in out THEN Group!None ELSE s.m_party[p]]
  BY <1>1 DEF Societies
<1>5. r.invitePartyList = [p \in Players |-> s.invitePartyList[p] \ {k}]
  BY <1>1 DEF Societies
<1>6. /\ r.inviteList = [s.inviteList EXCEPT ![k] = {}]
      /\ r.memberList = [s.memberList EXCEPT ![k] = <<>>]
      /\ r.sharedExpActive = s.sharedExpActive
      /\ r.sharedExpEnabled = s.sharedExpEnabled
  BY <1>1 DEF Societies
<1>7. r \in Societies
  <2>1. [p \in Players |-> IF p \in out THEN Group!None ELSE s.m_party[p]]
           \in [Players -> Group!Parties \cup {Group!None}]
    BY Fields
  <2>2. [p \in Players |-> s.invitePartyList[p] \ {k}] \in [Players -> SUBSET Group!Parties]
    BY Fields
  <2>3. /\ [s.m_leader EXCEPT ![k] = Nobody] \in [Group!Parties -> Players \cup {Nobody}]
        /\ [s.inviteList EXCEPT ![k] = {}] \in [Group!Parties -> SUBSET Players]
    BY Fields
  <2>4. [s.memberList EXCEPT ![k] = <<>>] \in [Group!Parties -> Seq(Players)]
    <3>1. <<>> \in Seq(Players)
      OBVIOUS
    <3> QED BY <3>1, Fields
  <2>5. r = [m_party |-> r.m_party, invitePartyList |-> r.invitePartyList,
             m_leader |-> r.m_leader, memberList |-> r.memberList,
             inviteList |-> r.inviteList, sharedExpActive |-> r.sharedExpActive,
             sharedExpEnabled |-> r.sharedExpEnabled]
    BY <1>1 DEF Societies
  <2>6. /\ r.m_party \in [Players -> Group!Parties \cup {Group!None}]
        /\ r.invitePartyList \in [Players -> SUBSET Group!Parties]
    BY <1>4, <1>5, <2>1, <2>2
  <2>7. /\ r.m_leader \in [Group!Parties -> Players \cup {Nobody}]
        /\ r.inviteList \in [Group!Parties -> SUBSET Players]
        /\ r.memberList \in [Group!Parties -> Seq(Players)]
    BY <1>3, <1>6, <2>3, <2>4
  <2>8. /\ r.sharedExpActive \in [Group!Parties -> BOOLEAN]
        /\ r.sharedExpEnabled \in [Group!Parties -> BOOLEAN]
    BY <1>6, Fields
  <2> QED BY ONLY <2>5, <2>6, <2>7, <2>8, IsSociety
<1>8. /\ r.m_leader[k] = Nobody /\ r.inviteList[k] = {} /\ r.memberList[k] = <<>>
      /\ \A j \in Group!Parties \ {k} :
           /\ r.m_leader[j] = s.m_leader[j] /\ r.inviteList[j] = s.inviteList[j]
           /\ r.memberList[j] = s.memberList[j]
  <2>1. /\ s.m_leader \in [Group!Parties -> Players \cup {Nobody}]
        /\ s.memberList \in [Group!Parties -> Seq(Players)]
        /\ s.inviteList \in [Group!Parties -> SUBSET Players]
    BY Fields
  <2>2. r.m_leader[k] = Nobody /\ \A j \in Group!Parties \ {k} : r.m_leader[j] = s.m_leader[j]
    BY <1>3, <2>1
  <2>3. r.inviteList[k] = {} /\ \A j \in Group!Parties \ {k} : r.inviteList[j] = s.inviteList[j]
    BY <1>6, <2>1
  <2>4. r.memberList[k] = <<>> /\ \A j \in Group!Parties \ {k} : r.memberList[j] = s.memberList[j]
    BY <1>6, <2>1
  <2> QED BY <2>2, <2>3, <2>4
<1>9. \A p \in Players :
        /\ r.m_party[p] = IF p = Group!Leader(s, k) \/ p \in Elems(s.memberList[k])
                          THEN Group!None ELSE s.m_party[p]
        /\ r.invitePartyList[p] = s.invitePartyList[p] \ {k}
  BY <1>2, <1>4, <1>5
<1> QED BY <1>6, <1>7, <1>8, <1>9 DEF Disbanded

-----------------------------------------------------------------------------
(* Another leader, with another list of members; ...                        *)
SetLeader(s, k, q, list) == [s EXCEPT !.m_leader[k] = q, !.memberList[k] = list]

(* It is a society with those fields.                                       *)
LEMMA LeaderIs ==
    ASSUME NEW s \in Societies, NEW k \in Group!Parties, NEW q \in Players, NEW list \in Seq(Players),
           NEW t, t = SetLeader(s, k, q, list)
    PROVE  /\ t \in Societies
           /\ t.m_leader = [s.m_leader EXCEPT ![k] = q]
           /\ t.memberList = [s.memberList EXCEPT ![k] = list]
           /\ t.m_party = s.m_party
           /\ t.invitePartyList = s.invitePartyList
           /\ t.inviteList = s.inviteList
           /\ t.sharedExpActive = s.sharedExpActive
           /\ t.sharedExpEnabled = s.sharedExpEnabled
<1>1. /\ t.m_leader = [s.m_leader EXCEPT ![k] = q]
      /\ t.memberList = [s.memberList EXCEPT ![k] = list]
      /\ t.m_party = s.m_party
      /\ t.invitePartyList = s.invitePartyList
      /\ t.inviteList = s.inviteList
      /\ t.sharedExpActive = s.sharedExpActive
      /\ t.sharedExpEnabled = s.sharedExpEnabled
  BY DEF Societies, SetLeader
<1>2. t = [m_party |-> t.m_party, invitePartyList |-> t.invitePartyList,
           m_leader |-> t.m_leader, memberList |-> t.memberList,
           inviteList |-> t.inviteList, sharedExpActive |-> t.sharedExpActive,
           sharedExpEnabled |-> t.sharedExpEnabled]
  BY DEF Societies, SetLeader
<1>3. t.m_leader \in [Group!Parties -> Players \cup {Nobody}]
  BY <1>1, Fields
<1>4. t.memberList \in [Group!Parties -> Seq(Players)]
  BY <1>1, Fields
<1>5. /\ t.m_party \in [Players -> Group!Parties \cup {Group!None}]
      /\ t.invitePartyList \in [Players -> SUBSET Group!Parties]
      /\ t.inviteList \in [Group!Parties -> SUBSET Players]
      /\ t.sharedExpActive \in [Group!Parties -> BOOLEAN]
      /\ t.sharedExpEnabled \in [Group!Parties -> BOOLEAN]
  BY <1>1, Fields
<1> QED BY <1>1, <1>2, <1>3, <1>4, <1>5, IsSociety

(* ... one member less; ...                                                 *)
SetMember(s, k, p, list) == [s EXCEPT !.memberList[k] = list, !.m_party[p] = Group!None]

(* It is a society with those fields.                                       *)
LEMMA MemberIs ==
    ASSUME NEW s \in Societies, NEW k \in Group!Parties, NEW p \in Players, NEW list \in Seq(Players),
           NEW t, t = SetMember(s, k, p, list)
    PROVE  /\ t \in Societies
           /\ t.m_party = [s.m_party EXCEPT ![p] = Group!None]
           /\ t.memberList = [s.memberList EXCEPT ![k] = list]
           /\ t.invitePartyList = s.invitePartyList
           /\ t.m_leader = s.m_leader
           /\ t.inviteList = s.inviteList
           /\ t.sharedExpActive = s.sharedExpActive
           /\ t.sharedExpEnabled = s.sharedExpEnabled
<1>1. /\ t.m_party = [s.m_party EXCEPT ![p] = Group!None]
      /\ t.memberList = [s.memberList EXCEPT ![k] = list]
      /\ t.invitePartyList = s.invitePartyList
      /\ t.m_leader = s.m_leader
      /\ t.inviteList = s.inviteList
      /\ t.sharedExpActive = s.sharedExpActive
      /\ t.sharedExpEnabled = s.sharedExpEnabled
  BY DEF Societies, SetMember
<1>2. t = [m_party |-> t.m_party, invitePartyList |-> t.invitePartyList,
           m_leader |-> t.m_leader, memberList |-> t.memberList,
           inviteList |-> t.inviteList, sharedExpActive |-> t.sharedExpActive,
           sharedExpEnabled |-> t.sharedExpEnabled]
  BY DEF Societies, SetMember
<1>3. t.m_party \in [Players -> Group!Parties \cup {Group!None}]
  BY <1>1, Fields
<1>4. t.memberList \in [Group!Parties -> Seq(Players)]
  BY <1>1, Fields
<1>5. /\ t.invitePartyList \in [Players -> SUBSET Group!Parties]
      /\ t.m_leader \in [Group!Parties -> Players \cup {Nobody}]
      /\ t.inviteList \in [Group!Parties -> SUBSET Players]
      /\ t.sharedExpActive \in [Group!Parties -> BOOLEAN]
      /\ t.sharedExpEnabled \in [Group!Parties -> BOOLEAN]
  BY <1>1, Fields
<1> QED BY <1>1, <1>2, <1>3, <1>4, <1>5, IsSociety

(* ... one invitation less; ...                                             *)
Uninvite(s, k, p) == [s EXCEPT !.inviteList[k] = @ \ {p}, !.invitePartyList[p] = @ \ {k}]

(* It is a society with those fields.                                       *)
LEMMA InviteeIs ==
    ASSUME NEW s \in Societies, NEW k \in Group!Parties, NEW p \in Players,
           NEW t, t = Uninvite(s, k, p)
    PROVE  /\ t \in Societies
           /\ t.invitePartyList = [s.invitePartyList EXCEPT ![p] = @ \ {k}]
           /\ t.inviteList = [s.inviteList EXCEPT ![k] = @ \ {p}]
           /\ t.m_party = s.m_party
           /\ t.m_leader = s.m_leader
           /\ t.memberList = s.memberList
           /\ t.sharedExpActive = s.sharedExpActive
           /\ t.sharedExpEnabled = s.sharedExpEnabled
<1>1. /\ t.invitePartyList = [s.invitePartyList EXCEPT ![p] = @ \ {k}]
      /\ t.inviteList = [s.inviteList EXCEPT ![k] = @ \ {p}]
      /\ t.m_party = s.m_party
      /\ t.m_leader = s.m_leader
      /\ t.memberList = s.memberList
      /\ t.sharedExpActive = s.sharedExpActive
      /\ t.sharedExpEnabled = s.sharedExpEnabled
  BY DEF Societies, Uninvite
<1>2. t = [m_party |-> t.m_party, invitePartyList |-> t.invitePartyList,
           m_leader |-> t.m_leader, memberList |-> t.memberList,
           inviteList |-> t.inviteList, sharedExpActive |-> t.sharedExpActive,
           sharedExpEnabled |-> t.sharedExpEnabled]
  BY DEF Societies, Uninvite
<1>3. t.invitePartyList \in [Players -> SUBSET Group!Parties]
  BY <1>1, Fields
<1>4. t.inviteList \in [Group!Parties -> SUBSET Players]
  BY <1>1, Fields
<1>5. /\ t.m_party \in [Players -> Group!Parties \cup {Group!None}]
      /\ t.m_leader \in [Group!Parties -> Players \cup {Nobody}]
      /\ t.memberList \in [Group!Parties -> Seq(Players)]
      /\ t.sharedExpActive \in [Group!Parties -> BOOLEAN]
      /\ t.sharedExpEnabled \in [Group!Parties -> BOOLEAN]
  BY <1>1, Fields
<1> QED BY <1>1, <1>2, <1>3, <1>4, <1>5, IsSociety

(* ... one more, of a party that may be new; ...                            *)
SetInvited(s, k, p, q) ==
    [s EXCEPT !.m_party[p] = k, !.m_leader[k] = p,
              !.inviteList[k] = @ \cup {q}, !.invitePartyList[q] = @ \cup {k}]

(* It is a society with those fields.                                       *)
LEMMA InvitedIs ==
    ASSUME NEW s \in Societies, NEW k \in Group!Parties, NEW p \in Players, NEW q \in Players,
           NEW t, t = SetInvited(s, k, p, q)
    PROVE  /\ t \in Societies
           /\ t.m_party = [s.m_party EXCEPT ![p] = k]
           /\ t.invitePartyList = [s.invitePartyList EXCEPT ![q] = @ \cup {k}]
           /\ t.m_leader = [s.m_leader EXCEPT ![k] = p]
           /\ t.inviteList = [s.inviteList EXCEPT ![k] = @ \cup {q}]
           /\ t.memberList = s.memberList
           /\ t.sharedExpActive = s.sharedExpActive
           /\ t.sharedExpEnabled = s.sharedExpEnabled
<1>1. /\ t.m_party = [s.m_party EXCEPT ![p] = k]
      /\ t.invitePartyList = [s.invitePartyList EXCEPT ![q] = @ \cup {k}]
      /\ t.m_leader = [s.m_leader EXCEPT ![k] = p]
      /\ t.inviteList = [s.inviteList EXCEPT ![k] = @ \cup {q}]
      /\ t.memberList = s.memberList
      /\ t.sharedExpActive = s.sharedExpActive
      /\ t.sharedExpEnabled = s.sharedExpEnabled
  BY DEF Societies, SetInvited
<1>2. t = [m_party |-> t.m_party, invitePartyList |-> t.invitePartyList,
           m_leader |-> t.m_leader, memberList |-> t.memberList,
           inviteList |-> t.inviteList, sharedExpActive |-> t.sharedExpActive,
           sharedExpEnabled |-> t.sharedExpEnabled]
  BY DEF Societies, SetInvited
<1>3. t.m_party \in [Players -> Group!Parties \cup {Group!None}]
  BY <1>1, Fields
<1>4. t.invitePartyList \in [Players -> SUBSET Group!Parties]
  BY <1>1, Fields
<1>5. t.m_leader \in [Group!Parties -> Players \cup {Nobody}]
  BY <1>1, Fields
<1>6. t.inviteList \in [Group!Parties -> SUBSET Players]
  BY <1>1, Fields
<1>7. /\ t.memberList \in [Group!Parties -> Seq(Players)]
      /\ t.sharedExpActive \in [Group!Parties -> BOOLEAN]
      /\ t.sharedExpEnabled \in [Group!Parties -> BOOLEAN]
  BY <1>1, Fields
<1> QED BY <1>1, <1>2, <1>3, <1>4, <1>5, <1>6, <1>7, IsSociety

(* ... an invitation that is followed; ...                                  *)
SetJoined(s, k, p) ==
    [s EXCEPT !.inviteList[k] = @ \ {p}, !.invitePartyList[p] = @ \ {k},
              !.memberList[k] = Append(@, p), !.m_party[p] = k]

(* It is a society with those fields.                                       *)
LEMMA JoinedIs ==
    ASSUME NEW s \in Societies, NEW k \in Group!Parties, NEW p \in Players,
           NEW t, t = SetJoined(s, k, p)
    PROVE  /\ t \in Societies
           /\ t.m_party = [s.m_party EXCEPT ![p] = k]
           /\ t.invitePartyList = [s.invitePartyList EXCEPT ![p] = @ \ {k}]
           /\ t.memberList = [s.memberList EXCEPT ![k] = Append(@, p)]
           /\ t.inviteList = [s.inviteList EXCEPT ![k] = @ \ {p}]
           /\ t.m_leader = s.m_leader
           /\ t.sharedExpActive = s.sharedExpActive
           /\ t.sharedExpEnabled = s.sharedExpEnabled
<1>1. /\ t.m_party = [s.m_party EXCEPT ![p] = k]
      /\ t.invitePartyList = [s.invitePartyList EXCEPT ![p] = @ \ {k}]
      /\ t.memberList = [s.memberList EXCEPT ![k] = Append(@, p)]
      /\ t.inviteList = [s.inviteList EXCEPT ![k] = @ \ {p}]
      /\ t.m_leader = s.m_leader
      /\ t.sharedExpActive = s.sharedExpActive
      /\ t.sharedExpEnabled = s.sharedExpEnabled
  BY DEF Societies, SetJoined
<1>2. t = [m_party |-> t.m_party, invitePartyList |-> t.invitePartyList,
           m_leader |-> t.m_leader, memberList |-> t.memberList,
           inviteList |-> t.inviteList, sharedExpActive |-> t.sharedExpActive,
           sharedExpEnabled |-> t.sharedExpEnabled]
  BY DEF Societies, SetJoined
<1>3. t.m_party \in [Players -> Group!Parties \cup {Group!None}]
  BY <1>1, Fields
<1>4. t.invitePartyList \in [Players -> SUBSET Group!Parties]
  BY <1>1, Fields
<1>5. t.memberList \in [Group!Parties -> Seq(Players)]
  BY <1>1, Fields
<1>6. t.inviteList \in [Group!Parties -> SUBSET Players]
  BY <1>1, Fields
<1>7. /\ t.m_leader \in [Group!Parties -> Players \cup {Nobody}]
      /\ t.sharedExpActive \in [Group!Parties -> BOOLEAN]
      /\ t.sharedExpEnabled \in [Group!Parties -> BOOLEAN]
  BY <1>1, Fields
<1> QED BY <1>1, <1>2, <1>3, <1>4, <1>5, <1>6, <1>7, IsSociety

(* Joining leaves a party of the same type.                                 *)
LEMMA JoinedIn ==
    ASSUME NEW s \in Societies, NEW k \in Group!Parties, NEW p \in Players
    PROVE  SetJoined(s, k, p) \in Societies
<1> DEFINE t == SetJoined(s, k, p)
<1>1. t = SetJoined(s, k, p)
  OBVIOUS
<1> HIDE DEF t
<1>2. t \in Societies
  BY <1>1, JoinedIs
<1> QED BY <1>1, <1>2

(* ... sharing switched on or off; ...                                      *)
SetSharing(s, k) == [s EXCEPT !.sharedExpActive[k] = ~@]

(* It is a society with those fields.                                       *)
LEMMA SharingIs ==
    ASSUME NEW s \in Societies, NEW k \in Group!Parties,
           NEW t, t = SetSharing(s, k)
    PROVE  /\ t \in Societies
           /\ t.sharedExpActive = [s.sharedExpActive EXCEPT ![k] = ~@]
           /\ t.m_party = s.m_party
           /\ t.invitePartyList = s.invitePartyList
           /\ t.m_leader = s.m_leader
           /\ t.memberList = s.memberList
           /\ t.inviteList = s.inviteList
           /\ t.sharedExpEnabled = s.sharedExpEnabled
<1>1. /\ t.sharedExpActive = [s.sharedExpActive EXCEPT ![k] = ~@]
      /\ t.m_party = s.m_party
      /\ t.invitePartyList = s.invitePartyList
      /\ t.m_leader = s.m_leader
      /\ t.memberList = s.memberList
      /\ t.inviteList = s.inviteList
      /\ t.sharedExpEnabled = s.sharedExpEnabled
  BY DEF Societies, SetSharing
<1>2. t = [m_party |-> t.m_party, invitePartyList |-> t.invitePartyList,
           m_leader |-> t.m_leader, memberList |-> t.memberList,
           inviteList |-> t.inviteList, sharedExpActive |-> t.sharedExpActive,
           sharedExpEnabled |-> t.sharedExpEnabled]
  BY DEF Societies, SetSharing
<1>3. t.sharedExpActive \in [Group!Parties -> BOOLEAN]
  BY <1>1, Fields
<1>4. /\ t.m_party \in [Players -> Group!Parties \cup {Group!None}]
      /\ t.invitePartyList \in [Players -> SUBSET Group!Parties]
      /\ t.m_leader \in [Group!Parties -> Players \cup {Nobody}]
      /\ t.memberList \in [Group!Parties -> Seq(Players)]
      /\ t.inviteList \in [Group!Parties -> SUBSET Players]
      /\ t.sharedExpEnabled \in [Group!Parties -> BOOLEAN]
  BY <1>1, Fields
<1> QED BY <1>1, <1>2, <1>3, <1>4, IsSociety

(* ... no invitations of a player.                                          *)
Forget(s, p) == [s EXCEPT !.invitePartyList[p] = {}]

(* It is a society with those fields.                                       *)
LEMMA UninvitedIs ==
    ASSUME NEW s \in Societies, NEW p \in Players,
           NEW t, t = Forget(s, p)
    PROVE  /\ t \in Societies
           /\ t.invitePartyList = [s.invitePartyList EXCEPT ![p] = {}]
           /\ t.m_party = s.m_party
           /\ t.m_leader = s.m_leader
           /\ t.memberList = s.memberList
           /\ t.inviteList = s.inviteList
           /\ t.sharedExpActive = s.sharedExpActive
           /\ t.sharedExpEnabled = s.sharedExpEnabled
<1>1. /\ t.invitePartyList = [s.invitePartyList EXCEPT ![p] = {}]
      /\ t.m_party = s.m_party
      /\ t.m_leader = s.m_leader
      /\ t.memberList = s.memberList
      /\ t.inviteList = s.inviteList
      /\ t.sharedExpActive = s.sharedExpActive
      /\ t.sharedExpEnabled = s.sharedExpEnabled
  BY DEF Societies, Forget
<1>2. t = [m_party |-> t.m_party, invitePartyList |-> t.invitePartyList,
           m_leader |-> t.m_leader, memberList |-> t.memberList,
           inviteList |-> t.inviteList, sharedExpActive |-> t.sharedExpActive,
           sharedExpEnabled |-> t.sharedExpEnabled]
  BY DEF Societies, Forget
<1>3. t.invitePartyList \in [Players -> SUBSET Group!Parties]
  BY <1>1, Fields
<1>4. /\ t.m_party \in [Players -> Group!Parties \cup {Group!None}]
      /\ t.m_leader \in [Group!Parties -> Players \cup {Nobody}]
      /\ t.memberList \in [Group!Parties -> Seq(Players)]
      /\ t.inviteList \in [Group!Parties -> SUBSET Players]
      /\ t.sharedExpActive \in [Group!Parties -> BOOLEAN]
      /\ t.sharedExpEnabled \in [Group!Parties -> BOOLEAN]
  BY <1>1, Fields
<1> QED BY <1>1, <1>2, <1>3, <1>4, IsSociety

-----------------------------------------------------------------------------
(* The calls keep the types, whatever a script refuses.                     *)
LEMMA LeaderType ==
    ASSUME NEW s \in Societies, NEW k \in Group!Parties
    PROVE  /\ Group!Leader(s, k) = IF s.m_leader[k] \in gone THEN Nobody ELSE s.m_leader[k]
           /\ Group!Leader(s, k) \in Players \cup {Nobody}
           /\ Group!Members(s, k) = Elems(s.memberList[k])
           /\ s.memberList[k] \in Seq(Players)
<1>1. s.m_leader[k] \in Players \cup {Nobody} /\ s.memberList[k] \in Seq(Players)
  BY Fields
<1>2. k # Group!None
  BY DEF Group!Parties, Group!None
<1> QED BY <1>1, <1>2, GroupRange DEF Group!Leader, Group!Members

(* What is left when somebody on the list of a party becomes its leader.    *)
PassedOn(s, k, q, t) ==
    /\ t.m_leader = [s.m_leader EXCEPT ![k] = q]
    /\ t.memberList[k] \in Seq(Players)
    /\ Elems(t.memberList[k]) = (Elems(s.memberList[k]) \ {q}) \cup {Group!Leader(s, k)}
    /\ Distinct(s.memberList[k]) /\ Group!Leader(s, k) \notin Elems(s.memberList[k])
         => Distinct(t.memberList[k])
    /\ \A j \in Group!Parties \ {k} : t.memberList[j] = s.memberList[j]
    /\ t.m_party = s.m_party /\ t.invitePartyList = s.invitePartyList
    /\ t.inviteList = s.inviteList /\ t.sharedExpActive = s.sharedExpActive
    /\ t.sharedExpEnabled = s.sharedExpEnabled

(* passPartyLeadership leaves that, with sharing brought up to date.        *)
LEMMA PassIs ==
    ASSUME NEW s \in Societies, NEW k \in Group!Parties, NEW q \in Players,
           s.m_party[q] = k, q \in Elems(s.memberList[k]),
           Group!Leader(s, k) \notin {q, Nobody}
    PROVE  \E t \in Societies :
             /\ PassedOn(s, k, q, t)
             /\ Group!PassPartyLeadership(s, k, q) = Group!UpdateIn(t, k, far, idle)
<1> DEFINE l == Group!Leader(s, k)
           rest == Group!Erase(s.memberList[k], q)
           list == <<l>> \o rest
           t == SetLeader(s, k, q, list)
<1>1. s.memberList[k] \in Seq(Players) /\ l \in Players
  BY LeaderType
<1>2. /\ rest \in Seq(Players) /\ Elems(rest) = Elems(s.memberList[k]) \ {q}
      /\ Distinct(s.memberList[k]) => Distinct(rest)
  BY <1>1, EraseIs
<1>3. Group!PassPartyLeadership(s, k, q) = Group!UpdateIn(t, k, far, idle)
  <2>1. q \in Group!Members(s, k)
    BY LeaderType
  <2>2. [s EXCEPT !.m_leader[k] = q, !.memberList[k] = <<Group!Leader(s, k)>> \o Group!Erase(@, q)] = t
    BY DEF SetLeader
  <2> HIDE DEF t
  <2> QED BY <2>1, <2>2 DEF Group!PassPartyLeadership, Group!UpdateSharedExperience
<1> HIDE DEF l, rest
<1>4. /\ list \in Seq(Players) /\ Elems(list) = Elems(rest) \cup {l}
      /\ Distinct(rest) /\ l \notin Elems(rest) => Distinct(list)
  BY <1>1, <1>2, ConsIs
<1> HIDE DEF list
<1>5. /\ t \in Societies
      /\ t.m_leader = [s.m_leader EXCEPT ![k] = q]
      /\ t.memberList = [s.memberList EXCEPT ![k] = list]
      /\ t.m_party = s.m_party /\ t.invitePartyList = s.invitePartyList
      /\ t.inviteList = s.inviteList /\ t.sharedExpActive = s.sharedExpActive
      /\ t.sharedExpEnabled = s.sharedExpEnabled
  BY <1>4, LeaderIs
<1> HIDE DEF t
<1>6. t.memberList[k] = list /\ \A j \in Group!Parties \ {k} : t.memberList[j] = s.memberList[j]
  BY <1>5, Fields
<1> QED BY <1>2, <1>3, <1>4, <1>5, <1>6 DEF l, PassedOn

(* Whatever happens to a party, it is a party that is left.                 *)
LEMMA PassType ==
    ASSUME NEW s \in Societies, NEW k \in Group!Parties, NEW q \in Players
    PROVE  Group!PassPartyLeadership(s, k, q) \in Societies
<1>1. CASE /\ s.m_party[q] = k /\ q \in Elems(s.memberList[k])
           /\ Group!Leader(s, k) \notin {q, Nobody}
  <2>1. PICK t \in Societies : Group!PassPartyLeadership(s, k, q) = Group!UpdateIn(t, k, far, idle)
    BY <1>1, PassIs
  <2> QED BY <2>1, UpdateIs
<1>2. CASE ~(/\ s.m_party[q] = k /\ q \in Elems(s.memberList[k])
             /\ Group!Leader(s, k) \notin {q, Nobody})
  BY <1>2, LeaderType DEF Group!PassPartyLeadership
<1> QED BY <1>1, <1>2

(* ... when it is disbanded, ...                                            *)
LEMMA DisbandType ==
    ASSUME NEW s \in Societies, NEW k \in Group!Parties, NEW refused \in BOOLEAN
    PROVE  Group!Disband(s, k, refused) \in Societies
<1>1. CASE refused = FALSE
  BY <1>1, DisbandIs
<1>2. CASE refused = TRUE
  BY <1>2 DEF Group!Disband
<1> QED BY <1>1, <1>2

(* What is left when somebody leaves, before the party may be disbanded.    *)
Passed(s, k, p) ==
    IF Group!Leader(s, k) = p /\ ~Group!MissingLeader(s, k, p)
    THEN Group!PassPartyLeadership(s, k, Head(s.memberList[k])) ELSE s
Without(s, k, p) ==
    [s EXCEPT !.memberList[k] = Group!Erase(@, p), !.m_party[p] = Group!None]
Left(s, k, p) == Group!UpdateIn(Without(Passed(s, k, p), k, p), k, far, idle)

(* LeaveParty, in terms of the steps it takes.                              *)
LEMMA LeaveIs ==
    ASSUME NEW s, NEW k, NEW p, NEW refused
    PROVE  Group!LeaveParty(s, k, p, refused) =
             IF \/ Group!Leader(s, k) = Nobody
                \/ Group!Leader(s, k) # p /\ p \notin Group!Members(s, k)
             THEN s
             ELSE IF Group!MissingLeader(s, k, p) \/ Group!Empty(Left(s, k, p), k)
             THEN Group!Disband(Left(s, k, p), k, refused)
             ELSE Left(s, k, p)
  BY DEF Group!LeaveParty, Left, Without, Passed, Group!UpdateSharedExperience

(* ... when its leader lets another lead before leaving, ...                *)
LEMMA PassedType ==
    ASSUME NEW s \in Societies, NEW k \in Group!Parties, NEW p \in Players
    PROVE  Passed(s, k, p) \in Societies
<1>1. CASE Group!Leader(s, k) = p /\ ~Group!MissingLeader(s, k, p)
  <2>1. s.memberList[k] \in Seq(Players)
    BY LeaderType
  <2>2. s.memberList[k] # <<>>
    <3>1. Len(s.memberList[k]) # 0
      BY <1>1 DEF Group!MissingLeader
    <3> QED BY <2>1, <3>1
  <2>3. Head(s.memberList[k]) \in Players
    BY <2>1, <2>2, EmptyIs
  <2> QED BY <1>1, <2>3, PassType DEF Passed
<1>2. CASE ~(Group!Leader(s, k) = p /\ ~Group!MissingLeader(s, k, p))
  BY <1>2 DEF Passed
<1> QED BY <1>1, <1>2

Withdrawn(s, k, p, t) ==
    /\ t.m_party = [s.m_party EXCEPT ![p] = Group!None]
    /\ t.memberList[k] \in Seq(Players)
    /\ Elems(t.memberList[k]) = Elems(s.memberList[k]) \ {p}
    /\ Distinct(s.memberList[k]) => Distinct(t.memberList[k])
    /\ \A j \in Group!Parties \ {k} : t.memberList[j] = s.memberList[j]
    /\ t.invitePartyList = s.invitePartyList /\ t.m_leader = s.m_leader
    /\ t.inviteList = s.inviteList /\ t.sharedExpActive = s.sharedExpActive
    /\ t.sharedExpEnabled = s.sharedExpEnabled

(* ... when a member is taken off its list, ...                             *)
LEMMA WithoutIs ==
    ASSUME NEW s \in Societies, NEW k \in Group!Parties, NEW p \in Players,
           NEW t, t = Without(s, k, p)
    PROVE  t \in Societies /\ Withdrawn(s, k, p, t)
<1> DEFINE list == Group!Erase(s.memberList[k], p)
<1>1. /\ list \in Seq(Players) /\ Elems(list) = Elems(s.memberList[k]) \ {p}
      /\ Distinct(s.memberList[k]) => Distinct(list)
  BY LeaderType, EraseIs
<1>2. t = SetMember(s, k, p, list)
  BY DEF Without, SetMember
<1> HIDE DEF list
<1>3. /\ t \in Societies
      /\ t.m_party = [s.m_party EXCEPT ![p] = Group!None]
      /\ t.memberList = [s.memberList EXCEPT ![k] = list]
      /\ t.invitePartyList = s.invitePartyList /\ t.m_leader = s.m_leader
      /\ t.inviteList = s.inviteList /\ t.sharedExpActive = s.sharedExpActive
      /\ t.sharedExpEnabled = s.sharedExpEnabled
  BY <1>1, <1>2, MemberIs
<1>4. t.memberList[k] = list /\ \A j \in Group!Parties \ {k} : t.memberList[j] = s.memberList[j]
  BY <1>3, Fields
<1> QED BY <1>1, <1>3, <1>4 DEF Withdrawn

(* ... when somebody leaves it, ...                                         *)
LEMMA LeaveType ==
    ASSUME NEW s \in Societies, NEW k \in Group!Parties, NEW p \in Players,
           NEW refused \in BOOLEAN
    PROVE  Group!LeaveParty(s, k, p, refused) \in Societies
<1>1. Passed(s, k, p) \in Societies
  BY PassedType
<1>2. Without(Passed(s, k, p), k, p) \in Societies
  BY <1>1, WithoutIs
<1>3. Left(s, k, p) \in Societies
  BY <1>2, UpdateIs DEF Left
<1> QED BY <1>3, LeaveIs, DisbandType

(* ... and when an invitation is taken back.                                *)
LEMMA RemoveInviteType ==
    ASSUME NEW s \in Societies, NEW k \in Group!Parties, NEW p \in Players,
           NEW refused \in BOOLEAN
    PROVE  Group!RemoveInvite(s, k, p, refused) \in Societies
<1>1. Uninvite(s, k, p) \in Societies
  BY InviteeIs
<1> QED BY <1>1, DisbandType DEF Group!RemoveInvite, Uninvite

-----------------------------------------------------------------------------
(* What is true of one party, as long as no script has refused anything:    *)
(* who is in it, and who is invited; ...                                    *)
Fine(s, k) ==
    /\ \A p \in Players :
         s.m_party[p] = k <=> p = s.m_leader[k] \/ p \in Elems(s.memberList[k])
    /\ Distinct(s.memberList[k]) /\ s.m_leader[k] \notin Elems(s.memberList[k])
    /\ s.m_leader[k] = Nobody <=> Elems(s.memberList[k]) = {} /\ s.inviteList[k] = {}
    /\ \A p \in Players : p \in s.inviteList[k] <=> k \in s.invitePartyList[p]
    /\ s.inviteList[k] \cap Elems(s.memberList[k]) = {}
    /\ s.m_leader[k] \notin s.inviteList[k]

(* ... that experience is shared with nobody far away; ...                  *)
Shared(s, k, pairs) ==
    s.sharedExpActive[k] /\ s.sharedExpEnabled[k] /\ s.m_leader[k] # Nobody =>
        /\ Elems(s.memberList[k]) # {}
        /\ \A p \in Elems(s.memberList[k]) \cup {s.m_leader[k]} :
             {s.m_leader[k], p} \notin pairs

(* ... and of those that are not created yet, and who is gone.              *)
Calm(s, g, n) ==
    /\ \A k \in Group!Parties : k > n => s.m_leader[k] = Nobody /\ ~s.sharedExpActive[k]
    /\ \A p \in g : s.m_party[p] = Group!None /\ s.invitePartyList[p] = {}

(* All parties but one, and all of them.                                    *)
Others(s, g, n, pairs, k) ==
    /\ Calm(s, g, n)
    /\ \A j \in Group!Parties \ {k} : Fine(s, j) /\ Shared(s, j, pairs)

Orderly(s, g, n, pairs) ==
    /\ Calm(s, g, n)
    /\ \A k \in Group!Parties : Fine(s, k) /\ Shared(s, k, pairs)

(* What a call for another party leaves alone.                              *)
Untouched(s, t, j) ==
    /\ t.m_leader[j] = s.m_leader[j] /\ t.memberList[j] = s.memberList[j]
    /\ t.inviteList[j] = s.inviteList[j]
    /\ t.sharedExpActive[j] = s.sharedExpActive[j]
    /\ t.sharedExpEnabled[j] = s.sharedExpEnabled[j]
    /\ \A p \in Players : /\ t.m_party[p] = j <=> s.m_party[p] = j
                          /\ j \in t.invitePartyList[p] <=> j \in s.invitePartyList[p]

(* A party nothing happened to is as fine as it was.                        *)
LEMMA UntouchedKeeps ==
    ASSUME NEW s, NEW t, NEW j, NEW pairs, Untouched(s, t, j)
    PROVE  (Fine(s, j) => Fine(t, j)) /\ (Shared(s, j, pairs) => Shared(t, j, pairs))
  BY DEF Untouched, Fine, Shared

(* Nor are the others less so when something happened to one only.          *)
LEMMA OthersKeep ==
    ASSUME NEW s, NEW t, NEW g, NEW n, NEW h, NEW m, NEW pairs, NEW k,
           Others(s, g, n, pairs, k), Calm(t, h, m),
           \A j \in Group!Parties \ {k} : Untouched(s, t, j)
    PROVE  Others(t, h, m, pairs, k)
  BY UntouchedKeeps DEF Others

(* All parties are in order when one is and the others are.                 *)
LEMMA OrderlyIs ==
    ASSUME NEW s, NEW g, NEW n, NEW pairs, NEW k \in Group!Parties
    PROVE  Orderly(s, g, n, pairs) <=>
             Others(s, g, n, pairs, k) /\ Fine(s, k) /\ Shared(s, k, pairs)
  BY DEF Orderly, Others

(* The leader of a party is not gone.                                       *)
LEMMA LeaderStays ==
    ASSUME NEW s \in Societies, NEW k \in Group!Parties, gone \subseteq Players, NEW n,
           Calm(s, gone, n), Fine(s, k)
    PROVE  Group!Leader(s, k) = s.m_leader[k] /\ s.m_leader[k] \in Players \cup {Nobody}
<1>1. s.m_leader[k] \in Players \cup {Nobody} /\ Nobody \notin Players
  BY Fields, TradeAssumption
<1>2. s.m_leader[k] \notin gone
  <2> SUFFICES ASSUME s.m_leader[k] \in gone PROVE FALSE
    OBVIOUS
  <2>1. s.m_party[s.m_leader[k]] = k
    BY DEF Fine
  <2>2. k # Group!None
    BY DEF Group!Parties, Group!None
  <2> QED BY <2>1, <2>2 DEF Calm
<1> QED BY <1>1, <1>2, LeaderType

(* A party whose sharing is brought up to date shares with nobody far away. *)
LEMMA UpdateOrders ==
    ASSUME NEW s \in Societies, NEW k \in Group!Parties, NEW n, NEW pairs, NEW resting,
           Others(s, gone, n, pairs, k), Fine(s, k),
           NEW r, r = Group!UpdateIn(s, k, pairs, resting)
    PROVE  /\ r \in Societies /\ Orderly(r, gone, n, pairs)
           /\ r.m_party = s.m_party /\ r.invitePartyList = s.invitePartyList
           /\ r.m_leader = s.m_leader /\ r.memberList = s.memberList
           /\ r.inviteList = s.inviteList
<1>1. /\ r \in Societies
      /\ r.m_party = s.m_party /\ r.invitePartyList = s.invitePartyList
      /\ r.m_leader = s.m_leader /\ r.memberList = s.memberList
      /\ r.inviteList = s.inviteList /\ r.sharedExpActive = s.sharedExpActive
      /\ \A j \in Group!Parties \ {k} : r.sharedExpEnabled[j] = s.sharedExpEnabled[j]
      /\ r.sharedExpActive[k] =>
           r.sharedExpEnabled[k] = Group!SharedExperienceStatus(s, k, pairs, resting)
  BY UpdateIs
<1>2. \A j \in Group!Parties \ {k} : Untouched(s, r, j)
  BY <1>1 DEF Untouched
<1>3. Calm(r, gone, n)
  BY <1>1 DEF Others, Calm
<1>4. Fine(r, k)
  BY <1>1 DEF Fine
<1>5. Shared(r, k, pairs)
  <2> SUFFICES ASSUME r.sharedExpActive[k], r.sharedExpEnabled[k], r.m_leader[k] # Nobody
               PROVE  /\ Elems(r.memberList[k]) # {}
                      /\ \A p \in Elems(r.memberList[k]) \cup {r.m_leader[k]} :
                           {r.m_leader[k], p} \notin pairs
    BY DEF Shared
  <2>1. Group!SharedExperienceStatus(s, k, pairs, resting)
    BY <1>1
  <2>2. Group!Leader(s, k) = s.m_leader[k]
    BY <2>1, LeaderType DEF Group!SharedExperienceStatus
  <2>3. s.memberList[k] # <<>> <=> Elems(s.memberList[k]) # {}
    BY LeaderType, EmptyIs
  <2>4. /\ s.memberList[k] # <<>>
        /\ \A p \in Group!Members(s, k) \cup {Group!Leader(s, k)} :
             {Group!Leader(s, k), p} \notin pairs
    BY <2>1 DEF Group!SharedExperienceStatus
  <2>5. Group!Members(s, k) = Elems(s.memberList[k])
    BY LeaderType
  <2> QED BY <1>1, <2>2, <2>3, <2>4, <2>5
<1> QED BY <1>1, <1>2, <1>3, <1>4, <1>5, OthersKeep, OrderlyIs

(* The lists of a party know all who are in it.                             *)
Known(s, k) ==
    \A p \in Players :
        /\ s.m_party[p] = k => p = s.m_leader[k] \/ p \in Elems(s.memberList[k])
        /\ p = s.m_leader[k] \/ p \in Elems(s.memberList[k])
             => s.m_party[p] \in {k, Group!None}

(* Disbanding puts a party in order whose lists know all who are in it.     *)
LEMMA DisbandOrders ==
    ASSUME NEW s \in Societies, NEW k \in Group!Parties, NEW n, NEW pairs,
           gone \subseteq Players, Others(s, gone, n, pairs, k),
           Known(s, k),
           NEW r, r = Group!Disband(s, k, FALSE)
    PROVE  r \in Societies /\ Orderly(r, gone, n, pairs)
<1>0. r \in Societies /\ Disbanded(s, k, r)
  BY DisbandIs
<1>1. r.sharedExpActive = s.sharedExpActive /\ r.sharedExpEnabled = s.sharedExpEnabled
  BY <1>0 DEF Disbanded
<1>2. /\ r.m_leader[k] = Nobody /\ r.inviteList[k] = {} /\ r.memberList[k] = <<>>
      /\ \A j \in Group!Parties \ {k} :
           /\ r.m_leader[j] = s.m_leader[j] /\ r.inviteList[j] = s.inviteList[j]
           /\ r.memberList[j] = s.memberList[j]
  BY <1>0 DEF Disbanded
<1>3. k # Group!None /\ \A j \in Group!Parties : j # Group!None
  BY DEF Group!Parties, Group!None
<1>4. \A p \in Players :
        /\ r.m_party[p] = IF p = Group!Leader(s, k) \/ p \in Elems(s.memberList[k])
                          THEN Group!None ELSE s.m_party[p]
        /\ r.invitePartyList[p] = s.invitePartyList[p] \ {k}
  BY <1>0 DEF Disbanded
<1>5. ASSUME NEW p \in Players PROVE r.m_party[p] # k
  <2>1. CASE s.m_party[p] = k
    <3>1. p \notin gone
      BY <1>3, <2>1 DEF Others, Calm
    <3>2. p = s.m_leader[k] => Group!Leader(s, k) = p
      BY <3>1, LeaderType
    <3> QED BY <1>3, <1>4, <2>1, <3>2 DEF Known
  <2>2. CASE s.m_party[p] # k
    BY <1>3, <1>4, <2>2
  <2> QED BY <2>1, <2>2
<1>6. ASSUME NEW p \in Players, NEW j \in Group!Parties \ {k}
      PROVE  r.m_party[p] = j <=> s.m_party[p] = j
  <2>1. Group!Leader(s, k) = p => p = s.m_leader[k]
    BY LeaderType, TradeAssumption
  <2> QED BY <1>3, <1>4, <2>1 DEF Known
<1>7. \A j \in Group!Parties \ {k} : Untouched(s, r, j)
  BY <1>1, <1>2, <1>4, <1>6 DEF Untouched
<1>8. Calm(r, gone, n)
  <2>1. \A j \in Group!Parties : j > n => r.m_leader[j] = Nobody /\ ~r.sharedExpActive[j]
    BY <1>1, <1>2 DEF Others, Calm
  <2>2. \A p \in gone : r.m_party[p] = Group!None /\ r.invitePartyList[p] = {}
    BY <1>4 DEF Others, Calm
  <2> QED BY <2>1, <2>2 DEF Calm
<1>9. Fine(r, k)
  <2>1. Elems(r.memberList[k]) = {} /\ Distinct(r.memberList[k])
    <3>1. Elems(<<>>) = {} /\ Distinct(<<>>)
      BY DEF Elems, Distinct
    <3> QED BY <1>2, <3>1
  <2>2. \A p \in Players : p # Nobody
    BY TradeAssumption
  <2> QED BY <1>2, <1>4, <1>5, <2>1, <2>2 DEF Fine
<1>10. Shared(r, k, pairs)
  BY <1>2 DEF Shared
<1>11. Orderly(r, gone, n, pairs)
  BY <1>7, <1>8, <1>9, <1>10, OthersKeep, OrderlyIs
<1> QED BY <1>0, <1>11

(* The leadership goes to somebody on the list; the list gets the leader.   *)
LEMMA PassOrders ==
    ASSUME NEW s \in Societies, NEW k \in Group!Parties, NEW q \in Players, NEW n,
           gone \subseteq Players, Orderly(s, gone, n, far),
           q \in Elems(s.memberList[k]), s.m_leader[k] # Nobody,
           NEW r, r = Group!PassPartyLeadership(s, k, q)
    PROVE  /\ r \in Societies /\ Orderly(r, gone, n, far)
           /\ r.m_leader[k] = q
           /\ Elems(r.memberList[k]) = (Elems(s.memberList[k]) \ {q}) \cup {s.m_leader[k]}
           /\ r.m_party = s.m_party /\ r.inviteList = s.inviteList
<1>1. Others(s, gone, n, far, k) /\ Fine(s, k) /\ Calm(s, gone, n)
  BY OrderlyIs DEF Orderly
<1>2. Group!Leader(s, k) = s.m_leader[k] /\ s.m_leader[k] \in Players
  BY <1>1, LeaderStays
<1>3. s.m_party[q] = k /\ s.m_leader[k] # q
  BY <1>1 DEF Fine
<1>4. PICK t \in Societies :
        PassedOn(s, k, q, t) /\ r = Group!UpdateIn(t, k, far, idle)
  BY <1>2, <1>3, PassIs
<1>5. /\ t.m_leader[k] = q
      /\ Elems(t.memberList[k]) = (Elems(s.memberList[k]) \ {q}) \cup {s.m_leader[k]}
      /\ Distinct(t.memberList[k])
  <2>1. t.m_leader[k] = q
    BY <1>4, Fields DEF PassedOn
  <2> QED BY <1>1, <1>2, <1>4, <2>1 DEF PassedOn, Fine
<1>6. ASSUME NEW j \in Group!Parties \ {k} PROVE Untouched(s, t, j)
  <2>1. t.m_leader[j] = s.m_leader[j]
    BY <1>4, Fields DEF PassedOn
  <2> QED BY <1>4, <2>1 DEF PassedOn, Untouched
<1>7. Calm(t, gone, n)
  <2>1. \A j \in Group!Parties : j > n => j # k
    BY <1>1 DEF Calm
  <2> QED BY <1>1, <1>4, <1>6, <2>1 DEF PassedOn, Calm, Untouched
<1>8. Fine(t, k)
  <2>1. /\ t.m_party = s.m_party /\ t.invitePartyList = s.invitePartyList
        /\ t.inviteList = s.inviteList
    BY <1>4 DEF PassedOn
  <2>2. q # Nobody
    BY TradeAssumption
  <2> QED BY <1>1, <1>2, <1>3, <1>5, <2>1, <2>2 DEF Fine
<1>9. Others(t, gone, n, far, k)
  BY <1>1, <1>6, <1>7, OthersKeep
<1>10. /\ r \in Societies /\ Orderly(r, gone, n, far)
       /\ r.m_party = t.m_party /\ r.m_leader = t.m_leader
       /\ r.memberList = t.memberList /\ r.inviteList = t.inviteList
  BY <1>4, <1>8, <1>9, UpdateOrders
<1> QED BY <1>4, <1>5, <1>10 DEF PassedOn

(* Bringing a party up to date changes no other, whatever is left of it.    *)
LEMMA UpdateOthers ==
    ASSUME NEW s \in Societies, NEW k \in Group!Parties, NEW n, NEW pairs, NEW away,
           NEW resting, Others(s, gone, n, pairs, k),
           NEW r, r = Group!UpdateIn(s, k, away, resting)
    PROVE  /\ r \in Societies /\ Others(r, gone, n, pairs, k)
           /\ r.m_party = s.m_party /\ r.invitePartyList = s.invitePartyList
           /\ r.m_leader = s.m_leader /\ r.memberList = s.memberList
           /\ r.inviteList = s.inviteList
<1>1. /\ r \in Societies
      /\ r.m_party = s.m_party /\ r.invitePartyList = s.invitePartyList
      /\ r.m_leader = s.m_leader /\ r.memberList = s.memberList
      /\ r.inviteList = s.inviteList /\ r.sharedExpActive = s.sharedExpActive
      /\ \A j \in Group!Parties \ {k} : r.sharedExpEnabled[j] = s.sharedExpEnabled[j]
  BY UpdateIs
<1>2. \A j \in Group!Parties \ {k} : Untouched(s, r, j)
  BY <1>1 DEF Untouched
<1>3. Calm(r, gone, n)
  BY <1>1 DEF Others, Calm
<1> QED BY <1>1, <1>2, <1>3, OthersKeep

(* Who leaves has no party, and the party it leaves is in order or gone.    *)
LEMMA LeaveOrders ==
    ASSUME NEW s \in Societies, NEW k \in Group!Parties, NEW p \in Players, NEW n,
           gone \subseteq Players, Orderly(s, gone, n, far), s.m_party[p] = k,
           NEW r, r = Group!LeaveParty(s, k, p, FALSE)
    PROVE  r \in Societies /\ Orderly(r, gone, n, far) /\ r.m_party[p] = Group!None
<1> DEFINE M == Elems(s.memberList[k])
           a == Passed(s, k, p)
           b == Without(a, k, p)
           c == Left(s, k, p)
<1>1. Others(s, gone, n, far, k) /\ Fine(s, k) /\ Calm(s, gone, n)
  BY OrderlyIs DEF Orderly
<1>2. /\ Group!Leader(s, k) = s.m_leader[k] /\ s.m_leader[k] \in Players
      /\ s.m_leader[k] \notin M
      /\ p = s.m_leader[k] \/ p \in M
      /\ Group!Members(s, k) = M /\ s.memberList[k] \in Seq(Players)
  <2>1. p = s.m_leader[k] \/ p \in M
    BY <1>1 DEF Fine
  <2>2. s.m_leader[k] # Nobody
    BY <1>1, <2>1, TradeAssumption DEF Fine
  <2> QED BY <1>1, <2>1, <2>2, LeaderStays, LeaderType DEF Fine
<1>3. k # Group!None /\ \A j \in Group!Parties : j # Group!None
  BY DEF Group!Parties, Group!None
<1>4. r = IF Group!MissingLeader(s, k, p) \/ Group!Empty(c, k)
          THEN Group!Disband(c, k, FALSE) ELSE c
  <2>1. Group!Leader(s, k) # Nobody
    BY <1>2, TradeAssumption
  <2> HIDE DEF c
  <2> QED BY <1>2, <2>1, LeaveIs DEF c
<1>5. c = Group!UpdateIn(b, k, far, idle)
  BY DEF Left
<1> HIDE DEF b, c
<1>6. ASSUME a \in Societies, Others(a, gone, n, far, k), a.m_party = s.m_party
      PROVE  /\ b \in Societies /\ Others(b, gone, n, far, k)
             /\ \A i \in Players \ {p} : b.m_party[i] = s.m_party[i]
             /\ b.m_party[p] = Group!None
  <2> HIDE DEF a
  <2>1. /\ b \in Societies
        /\ b.m_party = [a.m_party EXCEPT ![p] = Group!None]
        /\ \A j \in Group!Parties \ {k} : b.memberList[j] = a.memberList[j]
        /\ b.invitePartyList = a.invitePartyList /\ b.m_leader = a.m_leader
        /\ b.inviteList = a.inviteList /\ b.sharedExpActive = a.sharedExpActive
        /\ b.sharedExpEnabled = a.sharedExpEnabled
    BY <1>6, WithoutIs DEF b, Withdrawn
  <2>2. /\ \A i \in Players \ {p} : b.m_party[i] = s.m_party[i]
        /\ b.m_party[p] = Group!None
    BY <1>6, <2>1, Fields
  <2>3. \A j \in Group!Parties \ {k} : Untouched(a, b, j)
    BY <1>3, <1>6, <2>1, <2>2 DEF Untouched
  <2>4. Calm(b, gone, n)
    BY <1>6, <2>1, <2>2 DEF Others, Calm
  <2> QED BY <1>6, <2>1, <2>2, <2>3, <2>4, OthersKeep
<1>7. CASE s.m_leader[k] = p /\ ~Group!MissingLeader(s, k, p)
  <2> DEFINE h == Head(s.memberList[k])
  <2>1. Len(s.memberList[k]) # 0 /\ ~(Len(s.memberList[k]) = 1 /\ s.inviteList[k] = {})
    BY <1>2, <1>7 DEF Group!MissingLeader
  <2>2. s.memberList[k] # <<>>
    BY <1>2, <2>1
  <2>3. h \in Players /\ h \in M
    BY <1>2, <2>2, EmptyIs
  <2>4. a = Group!PassPartyLeadership(s, k, h)
    BY <1>2, <1>7 DEF Passed
  <2> HIDE DEF h, a
  <2>5. s.m_leader[k] # Nobody
    BY <1>2, TradeAssumption
  <2>6. /\ a \in Societies /\ Orderly(a, gone, n, far) /\ a.m_leader[k] = h
        /\ Elems(a.memberList[k]) = (M \ {h}) \cup {p}
        /\ a.m_party = s.m_party /\ a.inviteList = s.inviteList
    BY <1>7, <2>3, <2>4, <2>5, PassOrders
  <2>7. Others(a, gone, n, far, k) /\ Fine(a, k)
    BY <2>6, OrderlyIs
  <2>8. /\ b \in Societies /\ Others(b, gone, n, far, k)
        /\ \A i \in Players \ {p} : b.m_party[i] = s.m_party[i]
        /\ b.m_party[p] = Group!None
    BY <1>6, <2>6, <2>7
  <2>9. /\ Elems(b.memberList[k]) = M \ {h} /\ Distinct(b.memberList[k])
        /\ b.m_leader = a.m_leader /\ b.inviteList = a.inviteList
        /\ b.invitePartyList = a.invitePartyList
    <3>1. /\ Elems(b.memberList[k]) = Elems(a.memberList[k]) \ {p}
          /\ Distinct(a.memberList[k]) => Distinct(b.memberList[k])
          /\ b.m_leader = a.m_leader /\ b.inviteList = a.inviteList
          /\ b.invitePartyList = a.invitePartyList
      <4>1. Withdrawn(a, k, p, b)
        BY <2>6, WithoutIs DEF b
      <4> QED BY <4>1 DEF Withdrawn
    <3>2. p \notin M
      BY <1>2, <1>7
    <3> QED BY <2>6, <2>7, <3>1, <3>2 DEF Fine
  <2>10. M \ {h} # {} \/ s.inviteList[k] # {}
    <3> SUFFICES ASSUME M \ {h} = {} PROVE s.inviteList[k] # {}
      OBVIOUS
    <3>1. M = {h}
      BY <2>3
    <3>2. Len(s.memberList[k]) = Cardinality({h})
      <4>1. Distinct(s.memberList[k])
        BY <1>1 DEF Fine
      <4> QED BY <1>2, <3>1, <4>1, LengthIs
    <3>3. Cardinality({h}) = 1
      BY FS_Singleton
    <3> QED BY <2>1, <3>2, <3>3
  <2>11. Fine(b, k)
    <3>1. h # Nobody /\ h # p
      BY <1>2, <1>7, <2>3, TradeAssumption
    <3>2. \A i \in Players : b.m_party[i] = k <=> i # p /\ a.m_party[i] = k
      BY <1>3, <2>6, <2>8
    <3>3. \A i \in Players : b.m_party[i] = k <=> i = h \/ i \in M \ {h}
      <4>1. \A i \in Players : a.m_party[i] = k <=> i = h \/ i \in (M \ {h}) \cup {p}
        BY <2>6, <2>7 DEF Fine
      <4>2. p \notin M
        BY <1>2, <1>7
      <4> QED BY <3>1, <3>2, <4>1, <4>2
    <3>4. b.inviteList[k] = s.inviteList[k] /\ b.m_leader[k] = h
      BY <2>6, <2>9
    <3>5. /\ \A i \in Players : i \in b.inviteList[k] <=> k \in b.invitePartyList[i]
          /\ b.inviteList[k] \cap (M \ {h}) = {} /\ h \notin b.inviteList[k]
      BY <2>6, <2>7, <2>9 DEF Fine
    <3> QED BY <2>9, <2>10, <3>1, <3>3, <3>4, <3>5 DEF Fine
  <2>12. /\ c \in Societies /\ Orderly(c, gone, n, far)
         /\ c.m_party = b.m_party /\ c.memberList = b.memberList
         /\ c.inviteList = b.inviteList
    BY <1>5, <2>8, <2>11, UpdateOrders
  <2>13. ~Group!Empty(c, k)
    <3>1. c.memberList[k] \in Seq(Players)
      BY <2>12, Fields
    <3> QED BY <2>6, <2>9, <2>10, <2>12, <3>1, EmptyIs DEF Group!Empty
  <2> QED BY <1>4, <1>7, <2>8, <2>12, <2>13
<1>8. CASE ~(s.m_leader[k] = p /\ ~Group!MissingLeader(s, k, p))
  <2>1. a = s
    BY <1>2, <1>8 DEF Passed
  <2>2. /\ b \in Societies /\ Others(b, gone, n, far, k)
        /\ \A i \in Players \ {p} : b.m_party[i] = s.m_party[i]
        /\ b.m_party[p] = Group!None
    BY <1>1, <1>6, <2>1
  <2>3. /\ Elems(b.memberList[k]) = M \ {p} /\ Distinct(b.memberList[k])
        /\ b.m_leader = s.m_leader /\ b.inviteList = s.inviteList
        /\ b.invitePartyList = s.invitePartyList
    <3>1. Distinct(s.memberList[k])
      BY <1>1 DEF Fine
    <3> HIDE DEF a
    <3>2. Withdrawn(s, k, p, b)
      BY <2>1, WithoutIs DEF b
    <3> QED BY <3>1, <3>2 DEF Withdrawn
  <2>4. /\ c \in Societies /\ Others(c, gone, n, far, k)
        /\ c.m_party = b.m_party /\ c.m_leader = b.m_leader /\ c.memberList = b.memberList
        /\ c.inviteList = b.inviteList
    BY <1>5, <2>2, UpdateOthers
  <2>5. CASE Group!MissingLeader(s, k, p) \/ Group!Empty(c, k)
    <3> DEFINE Knows(i) ==
                 /\ c.m_party[i] = k => i = c.m_leader[k] \/ i \in Elems(c.memberList[k])
                 /\ i = c.m_leader[k] \/ i \in Elems(c.memberList[k])
                      => c.m_party[i] \in {k, Group!None}
    <3>1. ASSUME NEW i \in Players PROVE Knows(i)
      <4>1. s.m_party[i] = k <=> i = s.m_leader[k] \/ i \in M
        BY <1>1 DEF Fine
      <4>2. c.m_leader[k] = s.m_leader[k] /\ Elems(c.memberList[k]) = M \ {p}
        BY <2>3, <2>4
      <4>3. c.m_party[i] = IF i = p THEN Group!None ELSE s.m_party[i]
        BY <2>2, <2>4
      <4> QED BY <1>3, <4>1, <4>2, <4>3
    <3>2. r = Group!Disband(c, k, FALSE)
      BY <1>4, <2>5
    <3>3. /\ r \in Societies /\ Orderly(r, gone, n, far)
          /\ \A i \in Players : c.m_party[i] = Group!None => r.m_party[i] = Group!None
      <4>1. Known(c, k)
        BY <3>1 DEF Known
      <4>2. /\ c \in Societies /\ k \in Group!Parties /\ gone \subseteq Players
            /\ Others(c, gone, n, far, k) /\ r = Group!Disband(c, k, FALSE)
        BY <2>4, <3>2
      <4> HIDE DEF M, a
      <4>3. r \in Societies /\ Orderly(r, gone, n, far)
        BY ONLY <4>1, <4>2, DisbandOrders
      <4>4. Disbanded(c, k, r)
        BY ONLY <4>2, DisbandIs
      <4> QED BY <1>3, <4>3, <4>4 DEF Disbanded
    <3> QED BY <2>2, <2>4, <3>3
  <2>6. CASE ~(Group!MissingLeader(s, k, p) \/ Group!Empty(c, k))
    <3>1. s.m_leader[k] # p /\ p \in M
      BY <1>2, <1>8, <2>6
    <3>2. M \ {p} # {} \/ s.inviteList[k] # {}
      <4>1. c.memberList[k] \in Seq(Players)
        BY <2>4, Fields
      <4> QED BY <2>3, <2>4, <2>6, <4>1, EmptyIs DEF Group!Empty
    <3>3. Fine(b, k)
      <4>1. \A i \in Players : b.m_party[i] = k <=> i = s.m_leader[k] \/ i \in M \ {p}
        BY <1>1, <1>3, <2>2, <3>1 DEF Fine
      <4>2. s.m_leader[k] # Nobody
        BY <1>2, TradeAssumption
      <4>3. /\ \A i \in Players : i \in b.inviteList[k] <=> k \in b.invitePartyList[i]
            /\ b.inviteList[k] \cap (M \ {p}) = {} /\ s.m_leader[k] \notin b.inviteList[k]
        BY <1>1, <2>3 DEF Fine
      <4> QED BY <1>2, <2>3, <3>2, <4>1, <4>2, <4>3 DEF Fine
    <3>4. Orderly(c, gone, n, far)
      BY <1>5, <2>2, <3>3, UpdateOrders
    <3> QED BY <1>4, <2>2, <2>4, <2>6, <3>4
  <2> QED BY <2>5, <2>6
<1> QED BY <1>7, <1>8

(* An invitation that is taken back is on neither list.                     *)
Uninvited(s, k, p, r) ==
    /\ s.m_party[p] = Group!None => r.m_party[p] = Group!None
    /\ r.invitePartyList[p] = s.invitePartyList[p] \ {k}

(* An invitation that is taken back leaves parties in order.                *)
LEMMA RemoveInviteOrders ==
    ASSUME NEW s \in Societies, NEW k \in Group!Parties, NEW p \in Players, NEW n, NEW pairs,
           gone \subseteq Players, Orderly(s, gone, n, pairs),
           NEW r, r = Group!RemoveInvite(s, k, p, FALSE)
    PROVE  r \in Societies /\ Orderly(r, gone, n, pairs) /\ Uninvited(s, k, p, r)
<1> DEFINE t == Uninvite(s, k, p)
<1>1. Others(s, gone, n, pairs, k) /\ Fine(s, k) /\ Shared(s, k, pairs)
  BY OrderlyIs
<1>2. Group!Leader(s, k) = s.m_leader[k] /\ s.memberList[k] \in Seq(Players)
  BY <1>1, LeaderStays, LeaderType DEF Others
<1>3. CASE s.m_leader[k] = Nobody \/ p \notin s.inviteList[k]
  <2>1. p \notin s.inviteList[k]
    BY <1>1, <1>3 DEF Fine
  <2>2. k \notin s.invitePartyList[p]
    BY <1>1, <2>1 DEF Fine
  <2>3. r = s
    BY <2>1 DEF Group!RemoveInvite
  <2> QED BY <2>2, <2>3 DEF Uninvited
<1>4. CASE s.m_leader[k] # Nobody /\ p \in s.inviteList[k]
  <2>1. r = IF Group!Empty(t, k) THEN Group!Disband(t, k, FALSE) ELSE t
    BY <1>2, <1>4 DEF Group!RemoveInvite, Uninvite
  <2> HIDE DEF t
  <2>2. /\ t \in Societies
        /\ t.invitePartyList = [s.invitePartyList EXCEPT ![p] = @ \ {k}]
        /\ t.inviteList = [s.inviteList EXCEPT ![k] = @ \ {p}]
        /\ t.m_party = s.m_party /\ t.m_leader = s.m_leader /\ t.memberList = s.memberList
        /\ t.sharedExpActive = s.sharedExpActive /\ t.sharedExpEnabled = s.sharedExpEnabled
    BY InviteeIs DEF t
  <2>3. /\ t.invitePartyList[p] = s.invitePartyList[p] \ {k}
        /\ \A i \in Players \ {p} : t.invitePartyList[i] = s.invitePartyList[i]
    BY <2>2, Fields
  <2>4. /\ t.inviteList[k] = s.inviteList[k] \ {p}
        /\ \A j \in Group!Parties \ {k} : t.inviteList[j] = s.inviteList[j]
    BY <2>2, Fields
  <2>5. \A j \in Group!Parties \ {k} : Untouched(s, t, j)
    BY <2>2, <2>3, <2>4 DEF Untouched
  <2>6. Calm(t, gone, n)
    <3>1. \A i \in gone : t.invitePartyList[i] = {}
      BY <1>1, <2>3 DEF Others, Calm
    <3> QED BY <1>1, <2>2, <3>1 DEF Others, Calm
  <2>7. Others(t, gone, n, pairs, k)
    BY <1>1, <2>5, <2>6, OthersKeep
  <2>8. CASE Group!Empty(t, k)
    <3>1. Known(t, k)
      BY <1>1, <2>2 DEF Fine, Known
    <3>2. r = Group!Disband(t, k, FALSE)
      BY <2>1, <2>8
    <3>3. r \in Societies /\ Orderly(r, gone, n, pairs)
      BY <2>2, <2>7, <3>1, <3>2, DisbandOrders
    <3>4. Disbanded(t, k, r)
      BY <2>2, <3>2, DisbandIs
    <3> QED BY <2>2, <2>3, <3>3, <3>4 DEF Disbanded, Uninvited
  <2>9. CASE ~Group!Empty(t, k)
    <3>1. r = t
      BY <2>1, <2>9
    <3>2. Elems(t.memberList[k]) # {} \/ t.inviteList[k] # {}
      BY <1>2, <2>2, <2>9, EmptyIs DEF Group!Empty
    <3>3. Fine(t, k)
      <4>1. \A i \in Players : i \in t.inviteList[k] <=> k \in t.invitePartyList[i]
        BY <1>1, <2>3, <2>4 DEF Fine
      <4> QED BY <1>1, <1>4, <2>2, <2>4, <3>2, <4>1 DEF Fine
    <3>4. Shared(t, k, pairs)
      BY <1>1, <2>2 DEF Shared
    <3>5. Orderly(t, gone, n, pairs)
      BY <2>7, <3>3, <3>4, OrderlyIs
    <3> QED BY <2>2, <2>3, <3>1, <3>5 DEF Uninvited
  <2> QED BY <2>8, <2>9
<1> QED BY <1>2, <1>3, <1>4

-----------------------------------------------------------------------------
(* Every invitation of a player is taken back, one after another.           *)
Clears(h, s, p, refused) ==
    h = [t \in SUBSET s.invitePartyList[p] |->
           IF t = {} THEN s
           ELSE Group!RemoveInvite(h[t \ {First(t)}], First(t), p, refused)]

Cleared(s, p, refused) == CHOOSE h : Clears(h, s, p, refused)

(* ClearInvitations is a fold, which a function on sets computes.           *)
LEMMA ClearExists ==
    ASSUME NEW s \in Societies, NEW p \in Players, NEW refused \in BOOLEAN
    PROVE  /\ Clears(Cleared(s, p, refused), s, p, refused)
           /\ Group!ClearInvitations(s, p, refused)
                = Cleared(s, p, refused)[s.invitePartyList[p]]
<1> DEFINE D == s.invitePartyList[p]
           c == [t \in SUBSET D |-> First(t)]
           op == [z \in D \X Societies |-> Group!RemoveInvite(z[2], z[1], p, refused)]
<1>0. D \subseteq Group!Parties /\ IsFiniteSet(D)
  <2>1. D \subseteq 1..MaxParties
    BY Fields DEF Group!Parties
  <2>2. IsFiniteSet(1..MaxParties)
    BY FS_Interval, PartyAssumption
  <2> HIDE DEF D
  <2> QED BY <2>1, <2>2, FS_Subset DEF Group!Parties
<1>1. Picks(c, D)
  BY DEF Picks, First
<1>2. \A k \in D, v \in Societies :
        /\ op[<<k, v>>] = Group!RemoveInvite(v, k, p, refused)
        /\ op[<<k, v>>] \in Societies
  BY <1>0, RemoveInviteType
<1>3. PICK h : TypedFold(h, D, c, Societies, op, s)
  <2> HIDE DEF c, op, D
  <2>1. \A k \in D, v \in Societies : op[<<k, v>>] \in Societies
    BY <1>2
  <2> QED BY <1>0, <1>1, <2>1, FoldExists
<1>4. h \in [SUBSET D -> Societies]
  BY <1>3 DEF TypedFold
<1>5. ASSUME NEW t \in SUBSET D, t # {}
      PROVE  op[<<c[t], h[t \ {c[t]}]>>]
               = Group!RemoveInvite(h[t \ {First(t)}], First(t), p, refused)
  <2>1. c[t] = First(t) /\ c[t] \in D /\ t \ {c[t]} \in SUBSET D
    BY <1>1, <1>5 DEF Picks
  <2>2. h[t \ {c[t]}] \in Societies
    BY <1>4, <2>1
  <2> HIDE DEF c, op, D
  <2> QED BY <1>2, <2>1, <2>2
<1>6. h = [t \in SUBSET D |-> IF t = {} THEN s ELSE op[<<c[t], h[t \ {c[t]}]>>]]
  BY <1>3 DEF TypedFold, Folds
<1>7. Clears(h, s, p, refused)
  <2> HIDE DEF c, op
  <2> QED BY <1>5, <1>6 DEF Clears
<1>8. Group!ClearInvitations(s, p, refused) = Cleared(s, p, refused)[s.invitePartyList[p]]
  BY DEF Group!ClearInvitations, Group!FoldSet, Group!MapThenFoldSet, Cleared, Clears, First
<1> QED BY <1>7, <1>8 DEF Cleared

Closed(Good, p, refused) ==
    \A r \in Good, k \in Group!Parties : Group!RemoveInvite(r, k, p, refused) \in Good
Empties(Good, p, refused) ==
    \A r \in Good, k \in Group!Parties :
        Group!RemoveInvite(r, k, p, refused).invitePartyList[p] = r.invitePartyList[p] \ {k}

(* What is true of everything the recursion goes through is true at its end.*)
LEMMA ClearKeeps ==
    ASSUME NEW s \in Societies, NEW p \in Players, NEW refused \in BOOLEAN,
           NEW Good, Good \subseteq Societies, s \in Good,
           Closed(Good, p, refused),
           NEW r, r = Group!ClearInvitations(s, p, refused)
    PROVE  r \in Good /\ (Empties(Good, p, refused) => r.invitePartyList[p] = {})
<1> DEFINE D == s.invitePartyList[p]
           g == Cleared(s, p, refused)
           Ok(t) == g[t] \in Good /\ (Empties(Good, p, refused) => g[t].invitePartyList[p] = D \ t)
           Bad == {t \in SUBSET D : ~Ok(t)}
<1>0. D \subseteq Group!Parties /\ IsFiniteSet(D)
  <2>1. D \subseteq 1..MaxParties
    BY Fields DEF Group!Parties
  <2>2. IsFiniteSet(1..MaxParties)
    BY FS_Interval, PartyAssumption
  <2> HIDE DEF D
  <2> QED BY <2>1, <2>2, FS_Subset DEF Group!Parties
<1>1. Clears(g, s, p, refused) /\ r = g[D]
  BY ClearExists
<1> HIDE DEF g
<1>2. Bad = {}
  <2> SUFFICES ASSUME Bad # {} PROVE FALSE
    OBVIOUS
  <2>1. PICK t \in Bad : \A u \in Bad : ~(u \subseteq t /\ u # t)
    <3>1. Bad \in SUBSET SUBSET D
      OBVIOUS
    <3> HIDE DEF Bad, D
    <3> QED BY <1>0, <3>1, LeastSubset
  <2>2. g[t] = IF t = {} THEN s
               ELSE Group!RemoveInvite(g[t \ {First(t)}], First(t), p, refused)
    BY <1>1 DEF Clears
  <2>3. CASE t = {}
    BY <2>2, <2>3
  <2>4. CASE t # {}
    <3> DEFINE k == First(t)
               u == t \ {k}
    <3>1. k \in t
      BY <2>4 DEF First
    <3> HIDE DEF k
    <3>2. Ok(u)
      <4>1. u \in SUBSET D /\ u \subseteq t /\ u # t
        BY <3>1
      <4> HIDE DEF Ok, u
      <4> QED BY <2>1, <4>1
    <3>3. g[t] = Group!RemoveInvite(g[u], k, p, refused)
      BY <2>2, <2>4 DEF k
    <3>4. k \in Group!Parties /\ D \ t = (D \ u) \ {k}
      BY <1>0, <3>1
    <3>5. g[t] \in Good
      BY <3>2, <3>3, <3>4 DEF Closed
    <3>6. ASSUME Empties(Good, p, refused) PROVE g[t].invitePartyList[p] = D \ t
      <4>1. g[u] \in Good /\ g[u].invitePartyList[p] = D \ u
        BY <3>2, <3>6
      <4>2. g[t].invitePartyList[p] = g[u].invitePartyList[p] \ {k}
        BY <3>3, <3>4, <3>6, <4>1 DEF Empties
      <4> QED BY <3>4, <4>1, <4>2
    <3> QED BY <3>5, <3>6
  <2> QED BY <2>3, <2>4
<1>3. Ok(D)
  BY <1>2
<1> QED BY <1>1, <1>3

(* A player whose invitations are cleared has none, and parties are kept.   *)
LEMMA ClearType ==
    ASSUME NEW s \in Societies, NEW p \in Players, NEW refused \in BOOLEAN
    PROVE  Group!ClearInvitations(s, p, refused) \in Societies
<1>1. Closed(Societies, p, refused)
  BY RemoveInviteType DEF Closed
<1> QED BY <1>1, ClearKeeps

(* Without refusals no invitation of the player is left.                    *)
LEMMA ClearOrders ==
    ASSUME NEW s \in Societies, NEW p \in Players, NEW n,
           gone \subseteq Players, Orderly(s, gone, n, far), s.m_party[p] = Group!None,
           NEW r, r = Group!ClearInvitations(s, p, FALSE)
    PROVE  /\ r \in Societies /\ Orderly(r, gone, n, far)
           /\ r.m_party[p] = Group!None /\ r.invitePartyList[p] = {}
<1> DEFINE Good == {v \in Societies : Orderly(v, gone, n, far) /\ v.m_party[p] = Group!None}
<1>1. ASSUME NEW v \in Good, NEW k \in Group!Parties
      PROVE  /\ Group!RemoveInvite(v, k, p, FALSE) \in Good
             /\ Group!RemoveInvite(v, k, p, FALSE).invitePartyList[p] = v.invitePartyList[p] \ {k}
  <2> DEFINE w == Group!RemoveInvite(v, k, p, FALSE)
  <2>1. /\ v \in Societies /\ k \in Group!Parties /\ p \in Players /\ gone \subseteq Players
        /\ Orderly(v, gone, n, far) /\ v.m_party[p] = Group!None
        /\ w = Group!RemoveInvite(v, k, p, FALSE)
    OBVIOUS
  <2> HIDE DEF Good, w
  <2>2. w \in Societies /\ Orderly(w, gone, n, far) /\ Uninvited(v, k, p, w)
    BY ONLY <2>1, RemoveInviteOrders
  <2> QED BY <2>1, <2>2 DEF Good, w, Uninvited
<1>2. Good \subseteq Societies /\ s \in Good
  OBVIOUS
<1> HIDE DEF Good
<1>3. Closed(Good, p, FALSE) /\ Empties(Good, p, FALSE)
  BY <1>1 DEF Closed, Empties
<1>4. FALSE \in BOOLEAN /\ s \in Societies /\ p \in Players
  OBVIOUS
<1>5. r \in Good /\ r.invitePartyList[p] = {}
  BY <1>2, <1>3, <1>4, ClearKeeps
<1> QED BY <1>5 DEF Good

-----------------------------------------------------------------------------
(* The state of the parties, as it is inductive: types, and the order of    *)
(* the parties as long as no script has refused.                            *)
PartyTyped ==
    /\ society \in Societies /\ gone \subseteq Players /\ idle \subseteq Players
    /\ created \in 0..MaxParties /\ refusals \in 0..MaxRefusals

PartyInv == PartyTyped /\ (refusals = 0 => Orderly(society, gone, created, far))

(* Parties are numbers, and none is No party.                               *)
LEMMA PartiesAre ==
    ASSUME NEW k \in Group!Parties
    PROVE  k \in Nat /\ k # Group!None /\ k >= 1 /\ k <= MaxParties
  BY PartyAssumption DEF Group!Parties, Group!None

(* It is what the run checks.                                               *)
LEMMA PartyInvImplies == PartyInv => PartyKept
<1> SUFFICES ASSUME PartyInv PROVE PartyKept
  OBVIOUS
<1>1. Group!TypeOK
  BY Fields DEF PartyInv, PartyTyped, Group!TypeOK
<1>2. ASSUME refusals = 0, NEW k \in Group!Parties
      PROVE  /\ Fine(society, k) /\ Shared(society, k, far) /\ Calm(society, gone, created)
             /\ Group!Members(society, k) = Elems(society.memberList[k])
             /\ Group!Range(society.memberList[k]) = Elems(society.memberList[k])
             /\ society.memberList[k] \in Seq(Players)
             /\ society.memberList[k] = <<>> <=> Elems(society.memberList[k]) = {}
             /\ Elems(society.memberList[k]) \subseteq Players
             /\ Group!Leader(society, k) = society.m_leader[k]
  <2>1. Fine(society, k) /\ Shared(society, k, far) /\ Calm(society, gone, created)
    BY <1>2 DEF PartyInv, Orderly
  <2>2. /\ Group!Members(society, k) = Elems(society.memberList[k])
        /\ society.memberList[k] \in Seq(Players)
    BY LeaderType DEF PartyInv, PartyTyped
  <2>3. Group!Leader(society, k) = society.m_leader[k]
    BY <2>1, LeaderStays DEF PartyInv, PartyTyped
  <2> QED BY <2>1, <2>2, <2>3, EmptyIs, GroupRange
<1>3. Group!MembersAgree
  <2> SUFFICES ASSUME refusals = 0, NEW k \in Group!Parties
               PROVE  LET members == society.memberList[k]
                          leader == society.m_leader[k]
                      IN  /\ \A p \in Players :
                               society.m_party[p] = k
                                 <=> p = leader \/ p \in Group!Range(members)
                          /\ Len(members) = Group!Cardinality(Group!Range(members) \ {leader})
                          /\ leader = Nobody <=> Group!Empty(society, k)
    BY DEF Group!MembersAgree
  <2> DEFINE l == society.m_leader[k]
             list == society.memberList[k]
  <2>1. \A p \in Players : society.m_party[p] = k <=> p = l \/ p \in Group!Range(list)
    BY <1>2 DEF Fine
  <2>2. Len(list) = Group!Cardinality(Group!Range(list) \ {l})
    <3>1. Group!Range(list) \ {l} = Elems(list) /\ Distinct(list) /\ list \in Seq(Players)
      BY <1>2 DEF Fine
    <3> HIDE DEF list, l
    <3>2. Len(list) = Cardinality(Elems(list))
      BY <3>1, LengthIs
    <3> QED BY <3>1, <3>2, GroupCardinality
  <2>3. l = Nobody <=> Group!Empty(society, k)
    BY <1>2 DEF Fine, Group!Empty
  <2> QED BY <2>1, <2>2, <2>3
<1>4. Group!InvitesAgree
  <2> SUFFICES ASSUME refusals = 0, NEW k \in Group!Parties
               PROVE  /\ society.inviteList[k]
                           = {p \in Players : k \in society.invitePartyList[p]}
                      /\ society.inviteList[k] \cap Group!Members(society, k) = {}
    BY DEF Group!InvitesAgree
  <2>1. society.inviteList[k] \subseteq Players
    BY Fields DEF PartyInv, PartyTyped
  <2> QED BY <1>2, <2>1 DEF Fine
<1>5. Group!SharedFairly
  <2> SUFFICES ASSUME refusals = 0, NEW k \in Group!Parties,
                      society.sharedExpActive[k], society.sharedExpEnabled[k],
                      society.m_leader[k] # Nobody
               PROVE  Group!SharedExperienceStatus(society, k, far, {})
    BY <1>2 DEF Group!SharedFairly
  <2>1. /\ Elems(society.memberList[k]) # {}
        /\ \A p \in Elems(society.memberList[k]) \cup {society.m_leader[k]} :
             {society.m_leader[k], p} \notin far
    BY <1>2 DEF Shared
  <2> QED BY <1>2, <2>1 DEF Group!SharedExperienceStatus
<1> QED BY <1>1, <1>3, <1>4, <1>5 DEF PartyKept

(* Nobody is in a party at first, and none is created.                      *)
LEMMA PartyStarts == Group!Init => PartyInv
<1> SUFFICES ASSUME Group!Init PROVE PartyInv
  OBVIOUS
<1>1. /\ society.m_party = [p \in Players |-> Group!None]
      /\ society.invitePartyList = [p \in Players |-> {}]
      /\ society.m_leader = [k \in Group!Parties |-> Nobody]
      /\ society.memberList = [k \in Group!Parties |-> <<>>]
      /\ society.inviteList = [k \in Group!Parties |-> {}]
      /\ society.sharedExpActive = [k \in Group!Parties |-> FALSE]
      /\ society.sharedExpEnabled = [k \in Group!Parties |-> FALSE]
      /\ far = {} /\ idle = Players /\ gone = {} /\ created = 0 /\ refusals = 0
  BY DEF Group!Init
<1>2. society \in Societies
  <2>1. society = [m_party |-> society.m_party, invitePartyList |-> society.invitePartyList,
                   m_leader |-> society.m_leader, memberList |-> society.memberList,
                   inviteList |-> society.inviteList,
                   sharedExpActive |-> society.sharedExpActive,
                   sharedExpEnabled |-> society.sharedExpEnabled]
    BY DEF Group!Init
  <2>2. <<>> \in Seq(Players)
    OBVIOUS
  <2>3. /\ society.m_party \in [Players -> Group!Parties \cup {Group!None}]
        /\ society.invitePartyList \in [Players -> SUBSET Group!Parties]
    BY <1>1
  <2>4. /\ society.m_leader \in [Group!Parties -> Players \cup {Nobody}]
        /\ society.memberList \in [Group!Parties -> Seq(Players)]
        /\ society.inviteList \in [Group!Parties -> SUBSET Players]
    BY <1>1, <2>2
  <2>5. /\ society.sharedExpActive \in [Group!Parties -> BOOLEAN]
        /\ society.sharedExpEnabled \in [Group!Parties -> BOOLEAN]
    BY <1>1
  <2> QED BY <2>1, <2>3, <2>4, <2>5, IsSociety
<1>3. PartyTyped
  BY <1>1, <1>2, PartyAssumption DEF PartyTyped
<1>4. Elems(<<>>) = {} /\ Distinct(<<>>)
  BY DEF Elems, Distinct
<1>5. ASSUME NEW k \in Group!Parties PROVE Fine(society, k) /\ Shared(society, k, far)
  <2>1. \A p \in Players : p # Nobody
    BY TradeAssumption
  <2> QED BY <1>1, <1>4, <2>1, PartiesAre DEF Fine, Shared
<1>6. Calm(society, gone, created)
  BY <1>1 DEF Calm
<1> QED BY <1>3, <1>5, <1>6 DEF PartyInv, Orderly

-----------------------------------------------------------------------------
(* One lemma for every call of a player.                                    *)
LEMMA InviteKeeps ==
    ASSUME PartyInv, NEW p \in Players, NEW q \in Players, Group!Invite(p, q)
    PROVE  PartyInv'
<1> DEFINE k == IF society.m_party[p] = Group!None THEN created + 1 ELSE society.m_party[p]
<1>1. /\ {p, q} \cap gone = {} /\ p # q /\ society.m_party[q] = Group!None
      /\ UNCHANGED <<far, idle, gone, steps, refusals>>
      /\ \/ society.m_party[p] = Group!None /\ created < MaxParties /\ created' = k
         \/ /\ Group!Leader(society, society.m_party[p]) = p
            /\ q \notin society.inviteList[k] /\ UNCHANGED created
      /\ society' = SetInvited(society, k, p, q)
  BY DEF Group!Invite, SetInvited
<1>2. /\ society \in Societies /\ gone \subseteq Players
      /\ created \in 0..MaxParties /\ refusals \in 0..MaxRefusals
      /\ society.m_party[p] \in Group!Parties \cup {Group!None}
  BY Fields DEF PartyInv, PartyTyped
<1>3. society.m_party[p] # Group!None => k \in Group!Parties /\ k = society.m_party[p]
  BY <1>2
<1>4. society.m_party[p] = Group!None => k = created + 1 /\ created < MaxParties /\ created' = k
  <2>1. Group!Leader(society, Group!None) # p
    BY TradeAssumption DEF Group!Leader
  <2> QED BY <1>1, <2>1
<1>5. k \in Group!Parties
  BY <1>2, <1>3, <1>4, PartyAssumption DEF Group!Parties
<1> HIDE DEF k
<1>6. /\ society' \in Societies
      /\ society'.m_party = [society.m_party EXCEPT ![p] = k]
      /\ society'.invitePartyList = [society.invitePartyList EXCEPT ![q] = @ \cup {k}]
      /\ society'.m_leader = [society.m_leader EXCEPT ![k] = p]
      /\ society'.inviteList = [society.inviteList EXCEPT ![k] = @ \cup {q}]
      /\ society'.memberList = society.memberList
      /\ society'.sharedExpActive = society.sharedExpActive
      /\ society'.sharedExpEnabled = society.sharedExpEnabled
  <2>1. /\ society \in Societies /\ k \in Group!Parties /\ p \in Players /\ q \in Players
        /\ society' = SetInvited(society, k, p, q)
    BY <1>1, <1>2, <1>5
  <2> QED BY ONLY <2>1, InvitedIs
<1>7. PartyTyped'
  <2>1. created' \in 0..MaxParties
    BY <1>1, <1>2, <1>5, PartiesAre
  <2> QED BY <1>1, <1>6, <2>1 DEF PartyInv, PartyTyped
<1>8. ASSUME refusals' = 0 PROVE Orderly(society', gone', created', far')
  <2>1. Orderly(society, gone, created, far)
    BY <1>1, <1>8 DEF PartyInv
  <2>2. /\ Others(society, gone, created, far, k) /\ Fine(society, k)
        /\ Shared(society, k, far)
        /\ Calm(society, gone, created)
    BY <1>5, <2>1, OrderlyIs DEF Others
  <2>3. /\ society'.m_leader[k] = p /\ society'.inviteList[k] = society.inviteList[k] \cup {q}
        /\ \A j \in Group!Parties \ {k} : /\ society'.m_leader[j] = society.m_leader[j]
                                          /\ society'.inviteList[j] = society.inviteList[j]
        /\ society'.m_party[p] = k
        /\ \A i \in Players \ {p} : society'.m_party[i] = society.m_party[i]
        /\ society'.invitePartyList[q] = society.invitePartyList[q] \cup {k}
        /\ \A i \in Players \ {q} : society'.invitePartyList[i] = society.invitePartyList[i]
    BY <1>2, <1>5, <1>6, Fields
  <2>4. \A j \in Group!Parties : j # Group!None
    BY PartiesAre
  <2>5. \A j \in Group!Parties \ {k} : Untouched(society, society', j)
    BY <1>3, <1>6, <2>3, <2>4 DEF Untouched
  <2>6. created' >= created /\ created' \in Nat /\ created \in Nat /\ k <= created'
    <3>1. CASE society.m_party[p] = Group!None
      BY <1>2, <1>4, <3>1, PartyAssumption
    <3>2. CASE society.m_party[p] # Group!None
      <4>1. society.m_leader[k] # Nobody
        <5>1. p = society.m_leader[k] \/ p \in Elems(society.memberList[k])
          BY <1>3, <2>2, <3>2 DEF Fine
        <5> QED BY <2>2, <5>1, TradeAssumption DEF Fine
      <4>2. ~(k > created)
        BY <1>5, <2>2, <4>1 DEF Calm
      <4>3. created' = created
        BY <1>1, <3>2
      <4> QED BY <1>2, <1>5, <4>2, <4>3, PartiesAre, PartyAssumption
    <3> QED BY <3>1, <3>2
  <2>7. Calm(society', gone', created')
    <3>1. \A i \in gone : i # p /\ i # q /\ i \in Players
      BY <1>1, <1>2
    <3>2. \A i \in gone : society'.m_party[i] = Group!None /\ society'.invitePartyList[i] = {}
      BY <2>2, <2>3, <3>1 DEF Calm
    <3>3. \A j \in Group!Parties : j > created' => j # k /\ j > created
      BY <2>6, PartiesAre
    <3>4. \A j \in Group!Parties :
            j > created' => society'.m_leader[j] = Nobody /\ ~society'.sharedExpActive[j]
      BY <1>6, <2>2, <2>3, <3>3 DEF Calm
    <3> QED BY <1>1, <3>2, <3>4 DEF Calm
  <2>8. p \notin society.inviteList[k] \cup {q}
    <3>1. CASE society.m_party[p] = Group!None
      <4>1. society.m_leader[k] = Nobody
        BY <1>2, <1>4, <1>5, <2>2, <3>1, PartiesAre DEF Calm
      <4> QED BY <1>1, <2>2, <4>1 DEF Fine
    <3>2. CASE society.m_party[p] # Group!None
      <4>1. Group!Leader(society, k) = p
        BY <1>1, <1>3, <3>2
      <4>2. society.m_leader[k] = p
        BY <1>2, <1>5, <2>2, <4>1, LeaderStays
      <4> QED BY <1>1, <2>2, <4>2 DEF Fine
    <3> QED BY <3>1, <3>2
  <2>9. \A i \in Players : society'.m_party[i] = k <=> i = p \/ i \in Elems(society.memberList[k])
    <3>1. CASE society.m_party[p] = Group!None
      <4>1. society.m_leader[k] = Nobody
        BY <1>2, <1>4, <1>5, <2>2, <3>1, PartiesAre DEF Calm
      <4> QED BY <2>2, <2>3, <4>1, TradeAssumption DEF Fine
    <3>2. CASE society.m_party[p] # Group!None
      <4>1. Group!Leader(society, k) = p
        BY <1>1, <1>3, <3>2
      <4>2. society.m_leader[k] = p
        BY <1>2, <1>5, <2>2, <4>1, LeaderStays
      <4> QED BY <2>2, <2>3, <4>2 DEF Fine
    <3> QED BY <3>1, <3>2
  <2>10. p \notin Elems(society.memberList[k]) /\ q \notin Elems(society.memberList[k])
    <3>1. q \notin Elems(society.memberList[k])
      BY <1>1, <1>5, <2>2, <2>4 DEF Fine
    <3>2. CASE society.m_party[p] = Group!None
      BY <1>5, <2>2, <2>4, <3>1, <3>2 DEF Fine
    <3>3. CASE society.m_party[p] # Group!None
      <4>1. Group!Leader(society, k) = p
        BY <1>1, <1>3, <3>3
      <4>2. society.m_leader[k] = p
        BY <1>2, <1>5, <2>2, <4>1, LeaderStays
      <4> QED BY <2>2, <3>1, <4>2 DEF Fine
    <3> QED BY <3>2, <3>3
  <2>11. Fine(society', k)
    <3>1. p # Nobody
      BY TradeAssumption
    <3>2. \A i \in Players :
            i \in society'.inviteList[k] <=> k \in society'.invitePartyList[i]
      BY <2>2, <2>3 DEF Fine
    <3> QED BY <1>6, <2>2, <2>3, <2>8, <2>9, <2>10, <3>1, <3>2 DEF Fine
  <2>12. Shared(society', k, far)
    <3>1. CASE society.m_party[p] = Group!None
      <4>1. ~society.sharedExpActive[k]
        BY <1>2, <1>4, <1>5, <2>2, <3>1, PartiesAre DEF Calm
      <4> QED BY <1>6, <4>1 DEF Shared
    <3>2. CASE society.m_party[p] # Group!None
      <4>1. Group!Leader(society, k) = p
        BY <1>1, <1>3, <3>2
      <4>2. society.m_leader[k] = p
        BY <1>2, <1>5, <2>2, <4>1, LeaderStays
      <4> QED BY <1>6, <2>2, <2>3, <4>2 DEF Shared
    <3> QED BY <3>1, <3>2
  <2>13. Others(society', gone', created', far, k)
    BY <2>2, <2>5, <2>7, OthersKeep
  <2> QED BY <1>1, <1>5, <2>11, <2>12, <2>13, OrderlyIs
<1> QED BY <1>7, <1>8 DEF PartyInv

(* Calls that nobody comes or goes by.                                      *)
LEMMA CallKept ==
    ASSUME PartyInv, society' \in Societies, UNCHANGED <<far, gone, created>>,
           idle' \subseteq Players, refusals' \in 0..MaxRefusals,
           refusals' = 0 => refusals = 0,
           refusals' = 0 /\ Orderly(society, gone, created, far)
             => Orderly(society', gone, created, far)
    PROVE  PartyInv'
  BY DEF PartyInv, PartyTyped

(* Refusals are counted.                                                    *)
LEMMA Counted ==
    ASSUME PartyInv, NEW refused \in BOOLEAN, Group!Refuses(refused)
    PROVE  /\ refusals' \in 0..MaxRefusals
           /\ refusals' = 0 => refusals = 0 /\ refused = FALSE
  BY PartyAssumption DEF PartyInv, PartyTyped, Group!Refuses

(* Whoever leads leads a party.                                             *)
LEMMA LeadsIs ==
    ASSUME PartyInv, NEW p \in Players
    PROVE  /\ society.m_party[p] # Group!None => society.m_party[p] \in Group!Parties
           /\ Group!Leader(society, society.m_party[p]) = p
                => society.m_party[p] \in Group!Parties
<1>1. society.m_party[p] \in Group!Parties \cup {Group!None}
  BY Fields DEF PartyInv, PartyTyped
<1>2. Group!Leader(society, Group!None) # p
  BY TradeAssumption DEF Group!Leader
<1> QED BY <1>1, <1>2

(* Joining keeps parties in order.                                          *)
LEMMA JoinKeeps ==
    ASSUME PartyInv, NEW p \in Players, NEW leader \in Players, Group!Join(p, leader)
    PROVE  PartyInv'
<1> DEFINE k == society.m_party[leader]
           t == SetJoined(society, k, p)
<1>1. /\ Group!Leader(society, k) = leader /\ p \in society.inviteList[k]
      /\ society.m_party[p] = Group!None
      /\ society' = Group!UpdateIn(t, k, far, idle)
      /\ UNCHANGED <<far, idle, gone, created, refusals>>
  BY DEF Group!Join, Group!IsInviting, Group!UpdateSharedExperience, SetJoined
<1>2. k \in Group!Parties /\ society \in Societies /\ gone \subseteq Players
  BY <1>1, LeadsIs DEF PartyInv, PartyTyped
<1> HIDE DEF k, t
<1>3. /\ t \in Societies
      /\ t.m_party = [society.m_party EXCEPT ![p] = k]
      /\ t.invitePartyList = [society.invitePartyList EXCEPT ![p] = @ \ {k}]
      /\ t.memberList = [society.memberList EXCEPT ![k] = Append(@, p)]
      /\ t.inviteList = [society.inviteList EXCEPT ![k] = @ \ {p}]
      /\ t.m_leader = society.m_leader
      /\ t.sharedExpActive = society.sharedExpActive
      /\ t.sharedExpEnabled = society.sharedExpEnabled
  <2>1. t = SetJoined(society, k, p)
    BY DEF t
  <2>2. /\ t.m_party = [society.m_party EXCEPT ![p] = k]
        /\ t.invitePartyList = [society.invitePartyList EXCEPT ![p] = @ \ {k}]
        /\ t.memberList = [society.memberList EXCEPT ![k] = Append(@, p)]
        /\ t.inviteList = [society.inviteList EXCEPT ![k] = @ \ {p}]
        /\ t.m_leader = society.m_leader
        /\ t.sharedExpActive = society.sharedExpActive
        /\ t.sharedExpEnabled = society.sharedExpEnabled
    BY ONLY <1>2, <2>1 DEF Societies, SetJoined
  <2>3. SetJoined(society, k, p) \in Societies
    BY <1>2, JoinedIn
  <2> QED BY ONLY <2>1, <2>2, <2>3
<1>4. society' \in Societies
  BY <1>1, <1>2, <1>3, UpdateIs
<1>5. ASSUME Orderly(society, gone, created, far)
      PROVE  Orderly(society', gone, created, far)
  <2>1. /\ Others(society, gone, created, far, k) /\ Fine(society, k)
        /\ Calm(society, gone, created)
    BY <1>2, <1>5, OrderlyIs DEF Others
  <2>2. /\ t.m_party[p] = k
        /\ \A i \in Players \ {p} : t.m_party[i] = society.m_party[i]
        /\ t.invitePartyList[p] = society.invitePartyList[p] \ {k}
        /\ \A i \in Players \ {p} : t.invitePartyList[i] = society.invitePartyList[i]
    BY <1>2, <1>3, Fields
  <2>3. /\ t.memberList[k] = Append(society.memberList[k], p)
        /\ t.inviteList[k] = society.inviteList[k] \ {p}
        /\ \A j \in Group!Parties \ {k} : /\ t.memberList[j] = society.memberList[j]
                                          /\ t.inviteList[j] = society.inviteList[j]
    BY <1>2, <1>3, Fields
  <2>4. \A j \in Group!Parties \ {k} : Untouched(society, t, j)
    BY <1>1, <1>3, <2>2, <2>3, PartiesAre DEF Untouched
  <2>5. p \notin gone
    BY DEF Group!Join
  <2>6. Calm(t, gone, created)
    BY <1>2, <1>3, <2>1, <2>2, <2>5 DEF Calm
  <2>7. Others(t, gone, created, far, k)
    BY <2>1, <2>4, <2>6, OthersKeep
  <2>8. society.m_leader[k] = leader /\ leader \in Players
    BY <1>1, <1>2, <2>1, LeaderStays
  <2>9. p # leader /\ p \notin Elems(society.memberList[k])
    BY <1>1, <1>2, <2>1, <2>8, PartiesAre DEF Fine
  <2>10. /\ Elems(t.memberList[k]) = Elems(society.memberList[k]) \cup {p}
         /\ Distinct(t.memberList[k])
    <3>1. society.memberList[k] \in Seq(Players) /\ Distinct(society.memberList[k])
      BY <1>2, <2>1, Fields DEF Fine
    <3> QED BY <2>3, <2>9, <3>1, AppendIs
  <2>11. Fine(t, k)
    <3>1. \A i \in Players : t.m_party[i] = k <=> i = leader \/ i \in Elems(t.memberList[k])
      BY <2>1, <2>2, <2>8, <2>10 DEF Fine
    <3>2. \A i \in Players : i \in t.inviteList[k] <=> k \in t.invitePartyList[i]
      BY <2>1, <2>2, <2>3 DEF Fine
    <3>3. leader # Nobody
      BY TradeAssumption
    <3> QED BY <1>3, <2>1, <2>3, <2>8, <2>9, <2>10, <3>1, <3>2, <3>3 DEF Fine
  <2> QED BY <1>1, <1>2, <1>3, <2>7, <2>11, UpdateOrders
<1>6. idle' \subseteq Players /\ refusals' \in 0..MaxRefusals
  BY <1>1 DEF PartyInv, PartyTyped
<1> QED BY <1>1, <1>4, <1>5, <1>6, CallKept

(* So does taking an invitation back, ...                                   *)
LEMMA RevokeKeeps ==
    ASSUME PartyInv, NEW leader \in Players, NEW q \in Players, NEW refused \in BOOLEAN,
           Group!Revoke(leader, q, refused)
    PROVE  PartyInv'
<1> DEFINE k == society.m_party[leader]
<1>1. /\ Group!Leader(society, k) = leader /\ Group!Refuses(refused)
      /\ society' = Group!RemoveInvite(society, k, q, refused)
      /\ UNCHANGED <<far, idle, gone, created>>
  BY DEF Group!Revoke, Group!IsInviting
<1>2. /\ k \in Group!Parties /\ society \in Societies /\ gone \subseteq Players
      /\ idle' \subseteq Players
  BY <1>1, LeadsIs DEF PartyInv, PartyTyped
<1> HIDE DEF k
<1>3. society' \in Societies
  BY <1>1, <1>2, RemoveInviteType
<1>4. /\ refusals' \in 0..MaxRefusals
      /\ refusals' = 0 => refusals = 0 /\ refused = FALSE
  BY <1>1, Counted
<1>5. ASSUME refusals' = 0, Orderly(society, gone, created, far)
      PROVE  Orderly(society', gone, created, far)
  <2>1. society' = Group!RemoveInvite(society, k, q, FALSE)
    BY <1>1, <1>4, <1>5
  <2> QED BY <1>2, <1>5, <2>1, RemoveInviteOrders
<1> QED BY <1>1, <1>2, <1>3, <1>4, <1>5, CallKept

(* ... letting another lead, ...                                            *)
LEMMA PassLeadershipKeeps ==
    ASSUME PartyInv, NEW p \in Players, NEW q \in Players, Group!PassLeadership(p, q)
    PROVE  PartyInv'
<1> DEFINE k == society.m_party[p]
<1>1. /\ Group!Leader(society, k) = p /\ q # p /\ society.m_party[q] = k
      /\ society' = Group!PassPartyLeadership(society, k, q)
      /\ UNCHANGED <<far, idle, gone, created, refusals>>
  BY DEF Group!PassLeadership
<1>2. /\ k \in Group!Parties /\ society \in Societies /\ gone \subseteq Players
      /\ idle' \subseteq Players /\ refusals' \in 0..MaxRefusals
  BY <1>1, LeadsIs DEF PartyInv, PartyTyped
<1> HIDE DEF k
<1>3. society' \in Societies
  BY <1>1, <1>2, PassType
<1>4. ASSUME Orderly(society, gone, created, far)
      PROVE  Orderly(society', gone, created, far)
  <2>1. Fine(society, k) /\ Calm(society, gone, created)
    BY <1>2, <1>4, OrderlyIs DEF Others
  <2>2. society.m_leader[k] = p
    BY <1>1, <1>2, <2>1, LeaderStays
  <2>3. q \in Elems(society.memberList[k]) /\ society.m_leader[k] # Nobody
    BY <1>1, <2>1, <2>2, TradeAssumption DEF Fine
  <2> QED BY <1>1, <1>2, <1>4, <2>3, PassOrders
<1> QED BY <1>1, <1>2, <1>3, <1>4, CallKept

(* ... leaving, ...                                                         *)
LEMMA LeaveKeeps ==
    ASSUME PartyInv, NEW p \in Players, NEW refused \in BOOLEAN, Group!Leave(p, refused)
    PROVE  PartyInv'
<1> DEFINE k == society.m_party[p]
<1>1. /\ k # Group!None /\ Group!Refuses(refused)
      /\ society' = Group!LeaveParty(society, k, p, refused)
      /\ UNCHANGED <<far, idle, gone, created>>
  BY DEF Group!Leave
<1>2. /\ k \in Group!Parties /\ society \in Societies /\ gone \subseteq Players
      /\ idle' \subseteq Players
  BY <1>1, LeadsIs DEF PartyInv, PartyTyped
<1>3. society' \in Societies
  BY <1>1, <1>2, LeaveType
<1>4. /\ refusals' \in 0..MaxRefusals
      /\ refusals' = 0 => refusals = 0 /\ refused = FALSE
  BY <1>1, Counted
<1>5. ASSUME refusals' = 0, Orderly(society, gone, created, far)
      PROVE  Orderly(society', gone, created, far)
  <2>1. society' = Group!LeaveParty(society, k, p, FALSE)
    BY <1>1, <1>4, <1>5
  <2> QED BY <1>2, <1>5, <2>1, LeaveOrders
<1> QED BY <1>1, <1>2, <1>3, <1>4, <1>5, CallKept

(* ... sharing experience or no longer, ...                                 *)
LEMMA SetSharedExperienceKeeps ==
    ASSUME PartyInv, NEW p \in Players, Group!SetSharedExperience(p)
    PROVE  PartyInv'
<1> DEFINE k == society.m_party[p]
           t == SetSharing(society, k)
<1>1. /\ Group!Leader(society, k) = p
      /\ society' = Group!UpdateIn(t, k, far, idle)
      /\ UNCHANGED <<far, idle, gone, created, refusals>>
  BY DEF Group!SetSharedExperience, Group!UpdateSharedExperience, SetSharing
<1>2. /\ k \in Group!Parties /\ society \in Societies /\ gone \subseteq Players
      /\ idle' \subseteq Players /\ refusals' \in 0..MaxRefusals
  BY <1>1, LeadsIs DEF PartyInv, PartyTyped
<1> HIDE DEF k, t
<1>3. /\ t \in Societies
      /\ t.sharedExpActive = [society.sharedExpActive EXCEPT ![k] = ~@]
      /\ t.m_party = society.m_party /\ t.invitePartyList = society.invitePartyList
      /\ t.m_leader = society.m_leader /\ t.memberList = society.memberList
      /\ t.inviteList = society.inviteList
      /\ t.sharedExpEnabled = society.sharedExpEnabled
  <2>1. society \in Societies /\ k \in Group!Parties /\ t = SetSharing(society, k)
    BY <1>2 DEF t
  <2> QED BY ONLY <2>1, SharingIs
<1>4. society' \in Societies
  BY <1>1, <1>2, <1>3, UpdateIs
<1>5. ASSUME Orderly(society, gone, created, far)
      PROVE  Orderly(society', gone, created, far)
  <2>1. /\ Others(society, gone, created, far, k) /\ Fine(society, k)
        /\ Calm(society, gone, created)
    BY <1>2, <1>5, OrderlyIs DEF Others
  <2>2. \A j \in Group!Parties \ {k} : t.sharedExpActive[j] = society.sharedExpActive[j]
    BY <1>2, <1>3, Fields
  <2>3. \A j \in Group!Parties \ {k} : Untouched(society, t, j)
    BY <1>3, <2>2 DEF Untouched
  <2>4. society.m_leader[k] # Nobody
    BY <1>1, <1>2, <2>1, LeaderStays, TradeAssumption
  <2>5. Calm(t, gone, created)
    BY <1>2, <1>3, <2>1, <2>2, <2>4 DEF Calm
  <2>6. Others(t, gone, created, far, k)
    BY <2>1, <2>3, <2>5, OthersKeep
  <2>7. Fine(t, k)
    BY <1>3, <2>1 DEF Fine
  <2> QED BY <1>1, <1>2, <1>3, <2>6, <2>7, UpdateOrders
<1> QED BY <1>1, <1>2, <1>4, <1>5, CallKept

(* ... a fight, ...                                                         *)
LEMMA FightKeeps ==
    ASSUME PartyInv, NEW p \in Players, Group!Fight(p)
    PROVE  PartyInv'
<1> DEFINE k == society.m_party[p]
<1>1. /\ k # Group!None /\ idle' = idle \ {p}
      /\ society' = Group!UpdateIn(society, k, far, idle')
      /\ UNCHANGED <<far, gone, created, refusals>>
  BY DEF Group!Fight
<1>2. /\ k \in Group!Parties /\ society \in Societies /\ gone \subseteq Players
      /\ idle' \subseteq Players /\ refusals' \in 0..MaxRefusals
  BY <1>1, LeadsIs DEF PartyInv, PartyTyped
<1> HIDE DEF k
<1>3. society' \in Societies
  BY <1>1, <1>2, UpdateIs
<1>4. ASSUME Orderly(society, gone, created, far)
      PROVE  Orderly(society', gone, created, far)
  <2>1. Others(society, gone, created, far, k) /\ Fine(society, k)
    BY <1>2, <1>4, OrderlyIs
  <2> QED BY <1>1, <1>2, <2>1, UpdateOrders
<1> QED BY <1>1, <1>2, <1>3, <1>4, CallKept

(* ... and the time without one.                                            *)
LEMMA TicksEndKeeps ==
    ASSUME PartyInv, NEW p \in Players, Group!TicksEnd(p)
    PROVE  PartyInv'
<1>1. idle' = idle \cup {p} /\ UNCHANGED <<society, far, gone, created, refusals>>
  BY DEF Group!TicksEnd
<1> QED BY <1>1 DEF PartyInv, PartyTyped

(* A step of a player changes how far it is from another, ...               *)
LEMMA WalkKeeps ==
    ASSUME PartyInv, NEW p \in Players, NEW q \in Players, Group!Walk(p, q)
    PROVE  PartyInv'
<1> DEFINE k == society.m_party[p]
<1>1. /\ far' = Group!SymDiff(far, {{p, q}})
      /\ society' = Group!Within(p, far')
      /\ UNCHANGED <<idle, gone, created, refusals>>
  BY DEF Group!Walk
<1>2. society \in Societies /\ gone \subseteq Players
  BY DEF PartyInv, PartyTyped
<1>3. \A pair : pair # {p, q} => (pair \in far' <=> pair \in far)
  BY <1>1 DEF Group!SymDiff
<1>4. CASE k = Group!None
  <2>1. society' = society
    BY <1>1, <1>4 DEF Group!Within
  <2>2. ASSUME Orderly(society, gone, created, far), NEW j \in Group!Parties
        PROVE  Shared(society, j, far')
    <3>1. Fine(society, j) /\ Shared(society, j, far)
      BY <2>2 DEF Orderly
    <3>2. p # society.m_leader[j] /\ p \notin Elems(society.memberList[j])
      BY <1>4, <3>1, PartiesAre DEF Fine
    <3>3. \A i \in Elems(society.memberList[j]) \cup {society.m_leader[j]} :
            {society.m_leader[j], i} # {p, q}
      BY <3>2
    <3> QED BY <1>3, <3>1, <3>3 DEF Shared
  <2>3. Orderly(society, gone, created, far) => Orderly(society, gone, created, far')
    BY <2>2 DEF Orderly
  <2> QED BY <1>1, <2>1, <2>3 DEF PartyInv, PartyTyped
<1>5. CASE k # Group!None
  <2>1. society' = Group!UpdateIn(society, k, far', idle)
    BY <1>1, <1>5 DEF Group!Within
  <2>2. k \in Group!Parties
    BY <1>5, LeadsIs
  <2> HIDE DEF k
  <2>3. society' \in Societies
    BY <1>2, <2>1, <2>2, UpdateIs
  <2>4. ASSUME Orderly(society, gone, created, far)
        PROVE  Orderly(society', gone, created, far')
    <3>1. ASSUME NEW j \in Group!Parties \ {k}
          PROVE  Fine(society, j) /\ Shared(society, j, far')
      <4>1. Fine(society, j) /\ Shared(society, j, far)
        BY <2>4 DEF Orderly
      <4>2. p # society.m_leader[j] /\ p \notin Elems(society.memberList[j])
        BY <3>1, <4>1 DEF Fine, k
      <4>3. \A i \in Elems(society.memberList[j]) \cup {society.m_leader[j]} :
              {society.m_leader[j], i} # {p, q}
        BY <4>2
      <4> QED BY <1>3, <4>1, <4>3 DEF Shared
    <3>2. Others(society, gone, created, far', k) /\ Fine(society, k)
      BY <2>2, <2>4, <3>1 DEF Orderly, Others
    <3> QED BY <1>2, <2>1, <2>2, <3>2, UpdateOrders
  <2> QED BY <1>1, <2>3, <2>4 DEF PartyInv, PartyTyped
<1> QED BY <1>4, <1>5

(* ... and who logs out has left its party and lost its invitations.        *)
LEMMA LogoutKeeps ==
    ASSUME PartyInv, NEW p \in Players, NEW stays \in BOOLEAN, NEW refused \in BOOLEAN,
           Group!Logout(p, stays, refused)
    PROVE  PartyInv'
<1> DEFINE k == society.m_party[p]
           l == IF k = Group!None \/ stays THEN society
                ELSE Group!LeaveParty(society, k, p, refused)
           c == Group!ClearInvitations(l, p, refused)
<1>1. /\ gone' = gone \cup {p} /\ Group!Refuses(stays \/ refused)
      /\ society' = Forget(c, p)
      /\ UNCHANGED <<far, idle, created>>
  BY DEF Group!Logout, Forget
<1>2. society \in Societies /\ gone \subseteq Players
  BY DEF PartyInv, PartyTyped
<1>3. k # Group!None => k \in Group!Parties
  BY LeadsIs
<1>4. l \in Societies
  BY <1>2, <1>3, LeaveType
<1>5. c \in Societies
  <2> HIDE DEF l
  <2> QED BY <1>4, ClearType
<1>6. /\ refusals' \in 0..MaxRefusals
      /\ refusals' = 0 => refusals = 0 /\ stays = FALSE /\ refused = FALSE
  <2>1. (stays \/ refused) \in BOOLEAN
    OBVIOUS
  <2>2. /\ refusals' \in 0..MaxRefusals
        /\ refusals' = 0 => refusals = 0 /\ (stays \/ refused) = FALSE
    BY <1>1, <2>1, Counted
  <2> QED BY <2>2
<1>7. ASSUME refusals' = 0, Orderly(society, gone, created, far)
      PROVE  /\ Orderly(c, gone, created, far)
             /\ c.m_party[p] = Group!None /\ c.invitePartyList[p] = {}
  <2>1. Orderly(l, gone, created, far) /\ l.m_party[p] = Group!None
    <3>1. CASE k = Group!None
      BY <1>7, <3>1
    <3>2. CASE k # Group!None
      <4>1. l = Group!LeaveParty(society, k, p, FALSE)
        BY <1>6, <1>7, <3>2
      <4> HIDE DEF l
      <4> QED BY <1>2, <1>3, <1>7, <3>2, <4>1, LeaveOrders
    <3> QED BY <3>1, <3>2
  <2>2. c = Group!ClearInvitations(l, p, FALSE)
    BY <1>6, <1>7
  <2> HIDE DEF l, c, k
  <2> QED BY <1>2, <1>4, <2>1, <2>2, ClearOrders
<1> HIDE DEF k, l, c
<1>8. /\ society' \in Societies
      /\ society'.invitePartyList = [c.invitePartyList EXCEPT ![p] = {}]
      /\ society'.m_party = c.m_party /\ society'.m_leader = c.m_leader
      /\ society'.memberList = c.memberList /\ society'.inviteList = c.inviteList
      /\ society'.sharedExpActive = c.sharedExpActive
      /\ society'.sharedExpEnabled = c.sharedExpEnabled
  BY <1>1, <1>5, UninvitedIs
<1>9. ASSUME refusals' = 0, Orderly(society, gone, created, far)
      PROVE  Orderly(society', gone', created, far)
  <2>1. /\ Orderly(c, gone, created, far)
        /\ c.m_party[p] = Group!None /\ c.invitePartyList[p] = {}
    BY <1>7, <1>9
  <2>2. \A i \in Players : society'.invitePartyList[i] = c.invitePartyList[i]
    BY <1>5, <1>8, <2>1, Fields
  <2>3. \A j \in Group!Parties : Untouched(c, society', j)
    BY <1>8, <2>2 DEF Untouched
  <2>4. \A j \in Group!Parties : Fine(society', j) /\ Shared(society', j, far)
    BY <2>1, <2>3, UntouchedKeeps DEF Orderly
  <2>5. Calm(society', gone', created)
    BY <1>1, <1>2, <1>8, <2>1, <2>2 DEF Orderly, Calm
  <2> QED BY <2>4, <2>5 DEF Orderly
<1>10. PartyTyped'
  BY <1>1, <1>6, <1>8 DEF PartyInv, PartyTyped
<1>11. refusals' = 0 => Orderly(society', gone', created', far')
  BY <1>1, <1>6, <1>9 DEF PartyInv
<1> QED BY <1>10, <1>11 DEF PartyInv

-----------------------------------------------------------------------------
(* Every step of the game with parties keeps the invariant.                 *)
LEMMA PartyStep == PartyInv /\ PartyNext => PartyInv'
<1> SUFFICES ASSUME PartyInv, PartyNext PROVE PartyInv'
  OBVIOUS
<1>1. PICK p \in Players :
        \/ \E q \in Players :
             \/ Group!Invite(p, q) \/ Group!Join(p, q) \/ Group!PassLeadership(p, q)
             \/ Group!Walk(p, q) \/ \E refused \in BOOLEAN : Group!Revoke(p, q, refused)
        \/ \E refused \in BOOLEAN :
             \/ Group!Leave(p, refused)
             \/ \E stays \in BOOLEAN : Group!Logout(p, stays, refused)
        \/ Group!SetSharedExperience(p) \/ Group!Fight(p) \/ Group!TicksEnd(p)
  BY DEF PartyNext
<1>2. ASSUME NEW q \in Players,
             \/ Group!Invite(p, q) \/ Group!Join(p, q) \/ Group!PassLeadership(p, q)
             \/ Group!Walk(p, q) \/ \E refused \in BOOLEAN : Group!Revoke(p, q, refused)
      PROVE  PartyInv'
  BY <1>2, InviteKeeps, JoinKeeps, PassLeadershipKeeps, WalkKeeps, RevokeKeeps
<1>3. ASSUME NEW refused \in BOOLEAN,
             \/ Group!Leave(p, refused)
             \/ \E stays \in BOOLEAN : Group!Logout(p, stays, refused)
      PROVE  PartyInv'
  BY <1>3, LeaveKeeps, LogoutKeeps
<1>4. CASE Group!SetSharedExperience(p) \/ Group!Fight(p) \/ Group!TicksEnd(p)
  BY <1>4, SetSharedExperienceKeeps, FightKeeps, TicksEndKeeps
<1> QED BY <1>1, <1>2, <1>3, <1>4

(* So does a step of another game.                                          *)
LEMMA PartyUnchanged == PartyInv /\ UNCHANGED partyVars => PartyInv'
<1> SUFFICES ASSUME PartyInv, UNCHANGED partyVars PROVE PartyInv'
  OBVIOUS
<1>1. UNCHANGED <<society, far, idle, gone, created, steps, refusals>>
  BY DEF partyVars
<1> QED BY <1>1 DEF PartyInv, PartyTyped

(* Parties and players agree on who is in a party and who is invited to     *)
(* one, and experience is shared with nobody who is far from the leader, as *)
(* long as no script refuses what is half done.                             *)
THEOREM PartiesAreKept == MCSpec => []PartyKept
<1>1. MCInit => PartyInv
  BY PartyStarts DEF MCInit
<1>2. PartyInv /\ [MCNext]_<<game, moneyVars, vars, marketVars, partyVars, houseVars>>
        => PartyInv'
  <2> SUFFICES ASSUME PartyInv,
                      [MCNext]_<<game, moneyVars, vars, marketVars, partyVars, houseVars>>
               PROVE  PartyInv'
    OBVIOUS
  <2>1. CASE PartyNext
    BY <2>1, PartyStep
  <2>2. CASE MoneyNext \/ TradeNext \/ MarketNext \/ HouseNext
    <3>1. UNCHANGED partyVars
      BY <2>2 DEF MoneyNext, TradeNext, MarketNext, HouseNext, Pays, Trades, Offers, Lives
    <3> QED BY <3>1, PartyUnchanged
  <2>3. CASE UNCHANGED <<game, moneyVars, vars, marketVars, partyVars, houseVars>>
    BY <2>3, PartyUnchanged
  <2> QED BY <2>1, <2>2, <2>3 DEF MCNext
<1> QED BY <1>1, <1>2, PartyInvImplies, PTL DEF MCSpec
==============================================================================
