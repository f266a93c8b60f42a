---------------------------- MODULE EconomyProof -----------------------------
(****************************************************************************)
(* Proofs about houses, the offers of the market and money, for any players,*)
(* houses, inventories and bounds.  Each is an inductive invariant of the   *)
(* steps of one game, which a step of another leaves alone.                 *)
(*                                                                          *)
(* Houses: the money a bid reserves is what was taken for it (BidHeld);     *)
(* once the server is up no house waits to be loaded (Settled), between two *)
(* writes for a house the rest is due (Halfway), and a house that is loaded *)
(* can be loaded again after a crash (Reloads).                             *)
(*                                                                          *)
(* Market: what is escrowed is a sum over the offers, so each step is shown to*)
(* take from the books what it takes off an offer (FoldLemmas), and what a  *)
(* query has found agrees with the offers still listed (FoundAgrees).       *)
(*                                                                          *)
(* Money: MoneyKept is inductive.  Each call is followed through its folds: *)
(* coins that are put where there is room (Filled), sums that are added     *)
(* (Added) and stacks that are paid with (Paying).                          *)
(****************************************************************************)
EXTENDS MCGame, Sequences, FoldLemmas

(* While the server is up every house is loaded, and what the items of a    *)
(* house went through at the start is over.                                 *)
Settled == phase # "loading" => loaded = Houses /\ moved = {} /\ half = {}

(* processBankAuction pays back what a bid took from its bidder.            *)
BidIsHeld(r) == r.state # "Transfer" /\ r.bidder # Nobody => r.limit = r.internal
BidHeld == \A h \in loaded : BidIsHeld(house[h])

(* Between two writes for a house, what the other one will bring is due.    *)
Halfway ==
    /\ half = {} => due = Homes!Nothing
    /\ \A h \in half :
         /\ half = {h}
         /\ h \notin loaded =>
              due = Homes!Gain(rows[h].bidder, Homes!Price(rows[h]) - rows[h].internal)
         /\ h \in loaded => due \in [Traders -> Nat]

(* What StatesAgree says of one house, in memory and in a row.              *)
Told(r, h) ==
    /\ r.state = "Available" => r.owner = Nobody
    /\ r.state # "Available" => r.owner # Nobody \/ h \in reset
    /\ r.state = "Transfer" => r.bidder # Nobody

Agree(r, h) ==
    /\ Told(r, h)
    /\ r.accepted => r.state = "Transfer" \/ h \in stale

(* A house that is loaded can be loaded again, and holds as much then.      *)
SameAgain(r, row) == row.bidder = r.bidder => r.bidder = Nobody \/ Homes!Holds(row) = Homes!Holds(r)
Reloads ==
    phase = "loading" /\ ~torn =>
        \A h \in loaded : Told(rows[h], h) /\ SameAgain(house[h], rows[h])

HouseInv == HousesKept /\ Settled /\ BidHeld /\ Halfway /\ Reloads

(* The money of a player, in the Player object or in its row, and what it   *)
(* has come to have a right to.                                             *)
Owns(p) == IF p \in present THEN bank[p] ELSE saved[p]
Right(p) == earned[p] + strayed[p] - due[p]

Books(p) == Owns(p) + Homes!Stake(p) + due[p] = Wallet + earned[p] + strayed[p]

-----------------------------------------------------------------------------
(* The sums of an instance are sums.                                        *)
LEMMA HomesSum ==
    ASSUME NEW f
    PROVE  Homes!SumFunction(f) = SumFunctionOnSet(f, DOMAIN f)
  BY DEF Homes!SumFunction, Homes!SumFunctionOnSet, Homes!FoldFunctionOnSet,
     Homes!MapThenFoldSet, SumFunctionOnSet, FoldFunctionOnSet, MapThenFoldSet

(* What somebody has at stake is a number, and changes with one house.      *)
LEMMA StakeInType ==
    ASSUME Homes!TypeOK, NEW p, NEW h \in Houses
    PROVE  Homes!Now(h) \in Homes!Records /\ Homes!StakeIn(p, h) \in Nat
  BY HousesAssumption DEF Homes!TypeOK, Homes!Now, Homes!StakeIn, Homes!Holds, Homes!Paid, Homes!Records

(* The stake of a player is a sum, of naturals ...                          *)
LEMMA StakeType ==
    ASSUME Homes!TypeOK, NEW p
    PROVE  Homes!Stake(p) \in Nat
<1> DEFINE f == [h \in Houses |-> Homes!StakeIn(p, h)]
<1>1. \A h \in Houses : f[h] \in Nat
  BY StakeInType
<1>2. DOMAIN f = Houses
  OBVIOUS
<1> HIDE DEF f
<1>3. SumFunctionOnSet(f, Houses) \in Nat
  BY <1>1, SumNatural, HousesAssumption
<1>4. Homes!Stake(p) = SumFunctionOnSet(f, Houses)
  BY <1>2, HomesSum DEF Homes!Stake, f
<1> QED BY <1>3, <1>4

(* ... and changes by what it changes in one house.                         *)
LEMMA StakeChanges ==
    ASSUME Homes!TypeOK, Homes!TypeOK', NEW p, NEW h \in Houses,
           \A k \in Houses \ {h} : Homes!Now(k)' = Homes!Now(k)
    PROVE  Homes!Stake(p)' = Homes!Stake(p) + (Homes!StakeIn(p, h)' - Homes!StakeIn(p, h))
<1> DEFINE f == [k \in Houses |-> Homes!StakeIn(p, k)]
           g == [k \in Houses |-> Homes!StakeIn(p, k)']
<1>1. \A k \in Houses : f[k] \in Int /\ g[k] \in Int
  <2> TAKE k \in Houses
  <2>1. Homes!StakeIn(p, k) \in Int
    BY StakeInType
  <2>2. Homes!StakeIn(p, k)' \in Int
    BY HousesAssumption DEF Homes!TypeOK, Homes!Now, Homes!StakeIn, Homes!Holds, Homes!Paid, Homes!Records
  <2> QED BY <2>1, <2>2
<1>2. \A k \in Houses \ {h} : g[k] = f[k]
  BY DEF Homes!StakeIn, Homes!Holds, Homes!Paid
<1>3. f[h] = Homes!StakeIn(p, h) /\ g[h] = Homes!StakeIn(p, h)'
  OBVIOUS
<1>4. Homes!Stake(p) = SumFunctionOnSet(f, Houses)
  BY HomesSum DEF Homes!Stake
<1>5. Homes!Stake(p)' = SumFunctionOnSet(g, Houses)
  BY HomesSum DEF Homes!Stake
<1> HIDE DEF f, g
<1>6. SumFunctionOnSet(g, Houses) = SumFunctionOnSet(f, Houses) + (g[h] - f[h])
  BY <1>1, <1>2, SumChanged, HousesAssumption DEF Integral
<1> QED BY <1>3, <1>4, <1>5, <1>6

(* Nothing at stake changes when no house does.                             *)
LEMMA StakeStays ==
    ASSUME NEW p, \A k \in Houses : Homes!Now(k)' = Homes!Now(k)
    PROVE  Homes!Stake(p)' = Homes!Stake(p)
<1>1. [k \in Houses |-> Homes!StakeIn(p, k)'] = [k \in Houses |-> Homes!StakeIn(p, k)]
  BY DEF Homes!StakeIn, Homes!Holds, Homes!Paid
<1> QED BY <1>1 DEF Homes!Stake

(* Money that moves reaches who it is meant for.                            *)
LEMMA MoneyMoved ==
    ASSUME Homes!TypeOK, NEW gain \in [Traders -> Int], Homes!Moves(gain),
           present' = present, NEW p \in Traders
    PROVE  Owns(p)' = Owns(p) + gain[p]
  BY DEF Homes!TypeOK, Homes!Moves, Owns
(* What one player has at stake in a house, whose record is r.              *)
StakeOf(p, r) == IF r.bidder = p THEN Homes!Holds(r) ELSE 0

LEMMA StakeOfType ==
    ASSUME NEW r \in Homes!Records, NEW p
    PROVE  Homes!Holds(r) \in Nat /\ StakeOf(p, r) \in Nat
  BY HousesAssumption DEF StakeOf, Homes!Holds, Homes!Paid, Homes!Records

(* What a player has and has a right to are numbers.                        *)
LEMMA RightType ==
    ASSUME Homes!TypeOK, NEW p \in Traders
    PROVE  /\ Right(p) \in Int /\ Owns(p) \in Int
           /\ due[p] \in Int /\ earned[p] \in Int /\ strayed[p] \in Int
  BY DEF Homes!TypeOK, Homes!Ledgers, Right, Owns

(* HousesKept, house by house, ...                                          *)
LEMMA KeptIs ==
    HousesKept <=> /\ Homes!TypeOK
                   /\ torn \/ \A p \in Traders : Books(p)
                   /\ torn \/ \A h \in Houses : Agree(Homes!Now(h), h)
  BY DEF HousesKept, Homes!MoneyHeld, Homes!StatesAgree, Books, Owns, Agree, Told

(* ... and in the next state.                                               *)
LEMMA KeptNext ==
    ASSUME Homes!TypeOK', torn' \/ \A p \in Traders : Books(p)',
           torn' \/ \A h \in Houses : Agree(Homes!Now(h), h)'
    PROVE  HousesKept'
  BY DEF HousesKept, Homes!MoneyHeld, Homes!StatesAgree, Books, Owns, Agree, Told

(* What is put in on one side comes out on the other.                       *)
LEMMA SumsMatch ==
    ASSUME NEW a \in Int, NEW b \in Int, NEW c \in Int, NEW d \in Int, NEW e \in Int,
           NEW f \in Int, NEW w \in Int, NEW a1, NEW b1, NEW c1 \in Int, NEW d1 \in Int,
           NEW e1 \in Int, NEW i \in Int, NEW j \in Int, NEW k \in Int,
           a1 = a + i, d1 + e1 - c1 = (d + e - c) + j, k + i = f + j,
           a + b + c = w + d + e, b1 = b + (k - f)
    PROVE  a1 + b1 + c1 = w + d1 + e1
  OBVIOUS

(* One house becomes something else, and money moves: the books stay right  *)
(* when the two match.                                                      *)
LEMMA BooksStay ==
    ASSUME Homes!TypeOK, Homes!TypeOK', NEW h \in Houses, NEW r \in Homes!Records,
           \A k \in Houses \ {h} : Homes!Now(k)' = Homes!Now(k), Homes!Now(h)' = r,
           NEW gain \in [Traders -> Int], NEW right \in [Traders -> Int],
           \A q \in Traders : Owns(q)' = Owns(q) + gain[q],
           \A q \in Traders : Right(q)' = Right(q) + right[q],
           \A q \in Traders : StakeOf(q, r) + gain[q] = StakeOf(q, Homes!Now(h)) + right[q]
    PROVE  \A q \in Traders : Books(q) => Books(q)'
<1> TAKE q \in Traders
<1>1. Homes!Stake(q)' = Homes!Stake(q) + (Homes!StakeIn(q, h)' - Homes!StakeIn(q, h))
  BY StakeChanges
<1>2. Homes!StakeIn(q, h) = StakeOf(q, Homes!Now(h)) /\ Homes!StakeIn(q, h)' = StakeOf(q, r)
  BY DEF Homes!StakeIn, StakeOf, Homes!Holds, Homes!Paid
<1>3. /\ Homes!Stake(q) \in Int /\ StakeOf(q, r) \in Int /\ StakeOf(q, Homes!Now(h)) \in Int
      /\ gain[q] \in Int /\ right[q] \in Int /\ Wallet \in Int
  <2>1. StakeOf(q, Homes!Now(h)) \in Int
    BY <1>2, StakeInType
  <2>2. Homes!Stake(q) \in Int
    BY StakeType
  <2> QED BY <2>1, <2>2, StakeOfType, HousesAssumption
<1>4. /\ Owns(q) \in Int /\ due[q] \in Int /\ earned[q] \in Int /\ strayed[q] \in Int
      /\ due'[q] \in Int /\ earned'[q] \in Int /\ strayed'[q] \in Int
  BY RightType DEF Homes!TypeOK, Homes!Ledgers
<1>5. /\ Owns(q)' = Owns(q) + gain[q]
      /\ earned'[q] + strayed'[q] - due'[q] = (earned[q] + strayed[q] - due[q]) + right[q]
      /\ StakeOf(q, r) + gain[q] = StakeOf(q, Homes!Now(h)) + right[q]
  <2>1. Right(q)' = Right(q) + right[q]
    OBVIOUS
  <2>2. earned'[q] + strayed'[q] - due'[q] = (earned[q] + strayed[q] - due[q]) + right[q]
    BY <2>1 DEF Right
  <2> QED BY <2>2
<1>6. ASSUME Books(q) PROVE Books(q)'
  <2>1. Owns(q) + Homes!Stake(q) + due[q] = Wallet + earned[q] + strayed[q]
    BY <1>6 DEF Books
  <2>2. Homes!Stake(q)' = Homes!Stake(q) + (StakeOf(q, r) - StakeOf(q, Homes!Now(h)))
    BY <1>1, <1>2
  <2>3. Owns(q)' + Homes!Stake(q)' + due'[q] = Wallet + earned'[q] + strayed'[q]
    BY ONLY <1>3, <1>4, <1>5, <2>1, <2>2, SumsMatch
  <2> QED BY <2>3 DEF Books
<1> QED BY <1>6

(* A player's call: what it strays is in the ledger.                        *)
LEMMA CallKeeps ==
    ASSUME HouseInv, NEW p \in Traders, Homes!Calls(p), NEW h \in Houses,
           NEW r \in Homes!Records, Homes!Becomes(h, r),
           NEW gain \in [Traders -> Int], bank' \in [Traders -> Nat], saved' \in [Traders -> Nat],
           \A q \in Traders : Owns(q)' = Owns(q) + gain[q],
           NEW astray \in [Traders -> Int],
           strayed' = [q \in Traders |-> strayed[q] + astray[q]],
           torn \/ \A q \in Traders : StakeOf(q, r) + gain[q] = StakeOf(q, house[h]) + astray[q],
           torn \/ Agree(r, h), BidIsHeld(r)
    PROVE  HouseInv'
<1>1. /\ phase = "up" /\ loaded = Houses /\ moved = {} /\ half = {} /\ Homes!TypeOK
      /\ torn \/ \A q \in Traders : Books(q)
      /\ torn \/ \A k \in Houses : Agree(Homes!Now(k), k)
  BY KeptIs DEF HouseInv, Settled, Homes!Calls
<1>2. /\ house' = [house EXCEPT ![h] = r] /\ demands' \in 0..MaxDemands
      /\ UNCHANGED <<phase, rows, loaded, moved, half, due, present, earned, reset, stale, torn, stops>>
  <2>1. demands \in 0..MaxDemands /\ MaxDemands \in Nat
    BY <1>1, HousesAssumption DEF Homes!TypeOK
  <2>2. demands < MaxDemands /\ demands' = demands + 1
    BY DEF Homes!Calls
  <2>3. demands' \in 0..MaxDemands
    BY <2>1, <2>2
  <2> QED BY <2>3 DEF Homes!Calls, Homes!Becomes, Homes!loading, Homes!marks
<1>3. Homes!TypeOK'
  <2>1. strayed' \in Homes!Ledgers
    BY <1>1 DEF Homes!TypeOK, Homes!Ledgers
  <2> QED BY <1>1, <1>2, <2>1 DEF Homes!TypeOK
<1>4. Homes!Now(h) = house[h] /\ Homes!Now(h)' = r
  BY <1>1, <1>2 DEF Homes!Now, Homes!TypeOK
<1>5. \A k \in Houses \ {h} : Homes!Now(k)' = Homes!Now(k)
  BY <1>1, <1>2 DEF Homes!Now, Homes!TypeOK
<1>6. \A q \in Traders : Right(q)' = Right(q) + astray[q]
  <2> TAKE q \in Traders
  <2>1. strayed'[q] = strayed[q] + astray[q] /\ astray[q] \in Int
    OBVIOUS
  <2>2. due[q] \in Int /\ earned[q] \in Int /\ strayed[q] \in Int
    BY <1>1, RightType
  <2> QED BY <1>2, <2>1, <2>2 DEF Right
<1>7. torn \/ \A q \in Traders : StakeOf(q, r) + gain[q] = StakeOf(q, Homes!Now(h)) + astray[q]
  BY <1>4
<1>8. torn' \/ \A q \in Traders : Books(q)'
  BY <1>1, <1>2, <1>3, <1>4, <1>5, <1>6, <1>7, BooksStay
<1>9. torn' \/ \A k \in Houses : Agree(Homes!Now(k), k)'
  BY <1>1, <1>2, <1>4, <1>5 DEF Agree, Told
<1>10. HousesKept'
  BY <1>3, <1>8, <1>9, KeptNext
<1>11. Settled' /\ BidHeld' /\ Halfway' /\ Reloads'
  BY <1>1, <1>2 DEF HouseInv, Settled, BidHeld, BidIsHeld, Halfway, Reloads, Homes!TypeOK, Homes!Nothing
<1> QED BY <1>10, <1>11 DEF HouseInv

-----------------------------------------------------------------------------
(* What a player's call starts from.                                        *)
LEMMA CallStarts ==
    ASSUME HouseInv, NEW p \in Traders, Homes!Calls(p), NEW h \in Houses
    PROVE  /\ house[h] \in Homes!Records /\ p \in present /\ present' = present
           /\ bank \in [Traders -> Nat] /\ saved \in [Traders -> Nat]
           /\ strayed \in [Traders -> Int]
           /\ Homes!TypeOK /\ Nobody \notin Traders /\ p # Nobody
           /\ torn \/ Agree(house[h], h)
           /\ BidIsHeld(house[h])
           /\ Rent \in Nat /\ house[h].internal \in Nat /\ house[h].highest \in Nat
           /\ house[h].limit \in Nat /\ Homes!Held(house[h]) = Rent + house[h].limit
<1>1. phase = "up" /\ loaded = Houses /\ Homes!TypeOK
  BY KeptIs DEF HouseInv, Settled, Homes!Calls
<1>2. Homes!Now(h) = house[h]
  BY <1>1 DEF Homes!Now
<1>3. torn \/ Agree(house[h], h)
  BY <1>2, KeptIs DEF HouseInv
<1>4. house[h] \in Homes!Records /\ BidIsHeld(house[h])
  BY <1>1 DEF HouseInv, BidHeld, Homes!TypeOK
<1>5. /\ Rent \in Nat /\ house[h].internal \in Nat /\ house[h].highest \in Nat
      /\ house[h].limit \in Nat /\ Homes!Held(house[h]) = Rent + house[h].limit
  BY <1>4, HousesAssumption DEF Homes!Records, Homes!Held
<1>6. p \in present /\ present' = present
  BY DEF Homes!Calls
<1>7. strayed \in [Traders -> Int] /\ bank \in [Traders -> Nat] /\ saved \in [Traders -> Nat]
  BY <1>1 DEF Homes!TypeOK, Homes!Ledgers
<1> QED BY <1>1, <1>3, <1>4, <1>5, <1>6, <1>7, HousesAssumption

(* A call in which nothing strays.                                          *)
LEMMA NothingAstray ==
    ASSUME strayed \in [Traders -> Int], strayed' = strayed, NEW it \in [Traders -> Int]
    PROVE  /\ Homes!Nothing \in [Traders -> Int]
           /\ strayed' = [q \in Traders |-> strayed[q] + Homes!Nothing[q]]
           /\ \A q \in Traders : it[q] = it[q] + Homes!Nothing[q]
  BY DEF Homes!Nothing

(* A call that moves no money and leaves the stakes alone.                  *)
LEMMA FreeCallKeeps ==
    ASSUME HouseInv, NEW p \in Traders, Homes!Calls(p), NEW h \in Houses,
           NEW r \in Homes!Records, Homes!Becomes(h, r), UNCHANGED <<bank, saved>>,
           NEW astray \in [Traders -> Int],
           strayed' = [q \in Traders |-> strayed[q] + astray[q]],
           torn \/ \A q \in Traders : StakeOf(q, r) = StakeOf(q, house[h]) + astray[q],
           torn \/ Agree(r, h), BidIsHeld(r)
    PROVE  HouseInv'
<1> DEFINE gain == [q \in Traders |-> 0]
<1>1. /\ house[h] \in Homes!Records /\ present' = present
      /\ bank \in [Traders -> Nat] /\ saved \in [Traders -> Nat]
  BY CallStarts
<1>2. \A q \in Traders : Owns(q)' = Owns(q) + gain[q]
  BY <1>1 DEF Owns
<1>3. torn \/ \A q \in Traders : StakeOf(q, r) + gain[q] = StakeOf(q, house[h]) + astray[q]
  <2>1. \A q \in Traders : StakeOf(q, r) + gain[q] = StakeOf(q, r)
    BY StakeOfType
  <2> QED BY <2>1
<1>4. gain \in [Traders -> Int] /\ bank' \in [Traders -> Nat] /\ saved' \in [Traders -> Nat]
  BY <1>1
<1> HIDE DEF gain
<1> QED BY <1>2, <1>3, <1>4, CallKeeps

LEMMA QuietCallKeeps ==
    ASSUME HouseInv, NEW p \in Traders, Homes!Calls(p), NEW h \in Houses,
           NEW r \in Homes!Records, Homes!Becomes(h, r), UNCHANGED <<bank, saved, strayed>>,
           \A q \in Traders : StakeOf(q, r) = StakeOf(q, house[h]),
           torn \/ Agree(r, h), BidIsHeld(r)
    PROVE  HouseInv'
<1>1. house[h] \in Homes!Records /\ strayed \in [Traders -> Int]
  BY CallStarts
<1>2. \A q \in Traders : StakeOf(q, r) = StakeOf(q, house[h]) + Homes!Nothing[q]
  BY StakeOfType DEF Homes!Nothing
<1>3. /\ Homes!Nothing \in [Traders -> Int]
      /\ strayed' = [q \in Traders |-> strayed[q] + Homes!Nothing[q]]
  BY <1>1, NothingAstray
<1> QED BY <1>2, <1>3, FreeCallKeeps

(* A call that moves money.                                                 *)
LEMMA PaidCallKeeps ==
    ASSUME HouseInv, NEW p \in Traders, Homes!Calls(p), NEW h \in Houses,
           NEW r \in Homes!Records, Homes!Becomes(h, r),
           NEW gain \in [Traders -> Int], Homes!Moves(gain),
           \A q \in Traders : Owns(q) + gain[q] >= 0,
           NEW astray \in [Traders -> Int],
           strayed' = [q \in Traders |-> strayed[q] + astray[q]],
           torn \/ \A q \in Traders : StakeOf(q, r) + gain[q] = StakeOf(q, house[h]) + astray[q],
           torn \/ Agree(r, h), BidIsHeld(r)
    PROVE  HouseInv'
<1>1. Homes!TypeOK /\ present' = present
  BY CallStarts
<1>2. \A q \in Traders : Owns(q)' = Owns(q) + gain[q]
  BY <1>1, MoneyMoved
<1>3. bank' \in [Traders -> Nat] /\ saved' \in [Traders -> Nat]
  BY <1>1 DEF Homes!Moves, Homes!TypeOK, Owns
<1> QED BY <1>2, <1>3, CallKeeps

LEMMA HonestCallKeeps ==
    ASSUME HouseInv, NEW p \in Traders, Homes!Calls(p), NEW h \in Houses,
           NEW r \in Homes!Records, Homes!Becomes(h, r), UNCHANGED strayed,
           NEW gain \in [Traders -> Int], Homes!Moves(gain),
           \A q \in Traders : Owns(q) + gain[q] >= 0,
           torn \/ \A q \in Traders : StakeOf(q, r) + gain[q] = StakeOf(q, house[h]),
           torn \/ Agree(r, h), BidIsHeld(r)
    PROVE  HouseInv'
<1>1. house[h] \in Homes!Records /\ strayed \in [Traders -> Int]
  BY CallStarts
<1>2. \A q \in Traders : StakeOf(q, house[h]) + Homes!Nothing[q] = StakeOf(q, house[h])
  BY <1>1, StakeOfType DEF Homes!Nothing
<1>3. /\ Homes!Nothing \in [Traders -> Int]
      /\ strayed' = [q \in Traders |-> strayed[q] + Homes!Nothing[q]]
  BY <1>1, NothingAstray
<1>4. torn \/ \A q \in Traders :
          StakeOf(q, r) + gain[q] = StakeOf(q, house[h]) + Homes!Nothing[q]
  BY <1>2
<1> QED BY <1>3, <1>4, PaidCallKeeps

(* What agrees of a house does so after a bid.                              *)
LEMMA HighestBidderAgrees ==
    ASSUME NEW it, NEW r, NEW h, NEW p \in Traders, Nobody \notin Traders,
           r.bidder = p, r.limit = r.internal,
           r.state = it.state, r.accepted = it.accepted, r.owner = it.owner
    PROVE  BidIsHeld(r) /\ (Agree(it, h) => Agree(r, h)) /\ (Homes!Paid(r) <=> Homes!Paid(it))
  BY DEF Agree, Told, BidIsHeld, Homes!Paid

(* What one player gains, and what two do together, are sums of money.      *)
LEMMA GainType ==
    ASSUME NEW p, NEW a \in Int
    PROVE  /\ Homes!Gain(p, a) \in [Traders -> Int]
           /\ \A q \in Traders : Homes!Gain(p, a)[q] = IF q = p THEN a ELSE 0
           /\ a \in Nat => Homes!Gain(p, a) \in [Traders -> Nat]
  BY DEF Homes!Gain

LEMMA BothType ==
    ASSUME NEW f \in [Traders -> Int], NEW g \in [Traders -> Int]
    PROVE  /\ Homes!Both(f, g) \in [Traders -> Int]
           /\ \A q \in Traders : Homes!Both(f, g)[q] = f[q] + g[q]
           /\ Homes!Both(f, g) = [q \in Traders |-> f[q] + g[q]]
  BY DEF Homes!Both

(* One step for each call.                                                  *)
LEMMA FirstBidKeeps ==
    ASSUME HouseInv, NEW p \in Traders, NEW h \in Houses, NEW bid \in Bids,
           Homes!FirstBid(p, h, bid)
    PROVE  HouseInv'
<1> DEFINE r == Homes!HighestBidder(house[h], p, bid, 0)
           gain == Homes!Gain(p, -(Rent + bid))
<1>1. /\ Homes!Calls(p) /\ Homes!Becomes(h, r) /\ Homes!Moves(gain) /\ UNCHANGED strayed
      /\ house[h].bidder = Nobody /\ bank[p] >= Rent + bid
  BY DEF Homes!FirstBid
<1>2. /\ house[h] \in Homes!Records /\ p \in present /\ Nobody \notin Traders
      /\ bank \in [Traders -> Nat] /\ saved \in [Traders -> Nat]
      /\ torn \/ Agree(house[h], h)
      /\ Rent \in Nat /\ bid \in Nat
  BY <1>1, CallStarts, HousesAssumption
<1>3. /\ r \in Homes!Records /\ BidIsHeld(r) /\ (torn \/ Agree(r, h))
      /\ r.bidder = p /\ r.internal = bid /\ r.state = house[h].state
  <2>1. /\ r \in Homes!Records /\ r.limit = r.internal
        /\ r.bidder = p /\ r.internal = bid
        /\ r.state = house[h].state /\ r.accepted = house[h].accepted /\ r.owner = house[h].owner
    BY <1>2 DEF Homes!HighestBidder, Homes!Records
  <2> HIDE DEF r
  <2> QED BY <1>2, <2>1, HighestBidderAgrees
<1>4. gain \in [Traders -> Int] /\ \A q \in Traders : gain[q] = IF q = p THEN -(Rent + bid) ELSE 0
  BY <1>2, GainType
<1> HIDE DEF r, gain
<1>5. \A q \in Traders : Owns(q) + gain[q] >= 0
  BY <1>1, <1>2, <1>4 DEF Owns
<1>6. torn \/ \A q \in Traders : StakeOf(q, r) + gain[q] = StakeOf(q, house[h])
  BY <1>1, <1>2, <1>3, <1>4 DEF StakeOf, Homes!Holds, Homes!Paid, Agree, Told
<1> QED BY <1>1, <1>3, <1>4, <1>5, <1>6, HonestCallKeeps

(* A bidder changes a bid, ...                                              *)
LEMMA ChangeBidKeeps ==
    ASSUME HouseInv, NEW p \in Traders, NEW h \in Houses, NEW bid \in Bids,
           Homes!ChangeBid(p, h, bid)
    PROVE  HouseInv'
<1> DEFINE it == house[h]
           top == it.highest
           r == Homes!HighestBidder(it, p, bid, top)
           gain == Homes!Gain(p, it.internal - bid)
<1>1. /\ Homes!Calls(p) /\ Homes!Becomes(h, r) /\ Homes!Moves(gain)
      /\ it.bidder = p /\ bank[p] >= bid
      /\ IF Homes!Paid(it) THEN UNCHANGED strayed ELSE strayed' = Homes!Both(strayed, gain)
  BY DEF Homes!ChangeBid, Homes!IsBidder, Homes!Strays
<1>2. /\ it \in Homes!Records /\ p \in present /\ Nobody \notin Traders
      /\ bank \in [Traders -> Nat] /\ saved \in [Traders -> Nat] /\ strayed \in [Traders -> Int]
      /\ torn \/ Agree(it, h)
      /\ Rent \in Nat /\ bid \in Nat /\ it.internal \in Nat /\ it.highest \in Nat
  BY <1>1, CallStarts, HousesAssumption
<1>3. /\ r \in Homes!Records /\ BidIsHeld(r) /\ (torn \/ Agree(r, h))
      /\ r.bidder = p /\ r.internal = bid /\ (Homes!Paid(r) <=> Homes!Paid(it))
  <2>a. top \in Nat
    BY <1>2
  <2> HIDE DEF top, it
  <2>1. /\ r \in Homes!Records /\ r.limit = r.internal
        /\ r.bidder = p /\ r.internal = bid
        /\ r.state = it.state /\ r.accepted = it.accepted /\ r.owner = it.owner
    BY <1>2, <2>a DEF Homes!HighestBidder, Homes!Records
  <2> HIDE DEF r
  <2> QED BY <1>2, <2>1, HighestBidderAgrees
<1>4. gain \in [Traders -> Int] /\ \A q \in Traders : gain[q] = IF q = p THEN it.internal - bid ELSE 0
  BY <1>2, GainType
<1> HIDE DEF r, gain
<1>5. \A q \in Traders : Owns(q) + gain[q] >= 0
  BY <1>1, <1>2, <1>4 DEF Owns
<1>6. CASE Homes!Paid(it)
  <2>1. \A q \in Traders : StakeOf(q, r) + gain[q] = StakeOf(q, it)
    <3>1. Homes!Paid(r)
      BY <1>3, <1>6
    <3>2. Homes!Holds(r) = Rent + bid /\ Homes!Holds(it) = Rent + it.internal
      BY <1>3, <1>6, <3>1 DEF Homes!Holds
    <3> QED BY <1>1, <1>2, <1>3, <1>4, <3>2 DEF StakeOf
  <2> HIDE DEF it
  <2> QED BY <1>1, <1>3, <1>4, <1>5, <1>6, <2>1, HonestCallKeeps DEF it
<1>7. CASE ~Homes!Paid(it)
  <2>1. strayed' = [q \in Traders |-> strayed[q] + gain[q]]
    BY <1>1, <1>2, <1>4, <1>7, BothType
  <2>2. \A q \in Traders : StakeOf(q, r) + gain[q] = StakeOf(q, it) + gain[q]
    <3>1. ~Homes!Paid(r)
      BY <1>3, <1>7
    <3>2. Homes!Holds(r) = 0 /\ Homes!Holds(it) = 0
      BY <1>7, <3>1 DEF Homes!Holds
    <3> QED BY <3>2 DEF StakeOf
  <2> HIDE DEF it
  <2> QED BY <1>1, <1>3, <1>4, <1>5, <2>1, <2>2, PaidCallKeeps DEF it
<1> QED BY <1>6, <1>7

(* ... somebody else bids too little, ...                                   *)
LEMMA LowerBidKeeps ==
    ASSUME HouseInv, NEW p \in Traders, NEW h \in Houses, NEW bid \in Bids,
           Homes!LowerBid(p, h, bid)
    PROVE  HouseInv'
<1> DEFINE r == [house[h] EXCEPT !.highest = bid]
<1>1. Homes!Calls(p) /\ Homes!Becomes(h, r) /\ UNCHANGED <<bank, saved, strayed>>
  BY DEF Homes!LowerBid, Homes!money
<1>2. house[h] \in Homes!Records /\ (torn \/ Agree(house[h], h)) /\ BidIsHeld(house[h])
  BY <1>1, CallStarts
<1>3. bid \in Nat
  BY HousesAssumption
<1>4. r \in Homes!Records /\ BidIsHeld(r) /\ (torn \/ Agree(r, h))
  BY <1>2, <1>3 DEF Homes!Records, BidIsHeld, Agree, Told
<1>5. \A q \in Traders : StakeOf(q, r) = StakeOf(q, house[h])
  BY <1>2 DEF StakeOf, Homes!Holds, Homes!Paid, Homes!Records
<1> HIDE DEF r
<1> QED BY <1>1, <1>4, <1>5, QuietCallKeeps

(* ... or enough, and the one before is paid back: what it paid, unless the *)
(* house was being transferred.                                             *)
LEMMA OutbidKeeps ==
    ASSUME HouseInv, NEW p \in Traders, NEW h \in Houses, NEW bid \in Bids,
           Homes!Outbid(p, h, bid)
    PROVE  HouseInv'
<1> DEFINE it == house[h]
           top == it.internal + 1
           r == Homes!HighestBidder(it, p, bid, top)
           pays == Homes!Gain(p, -(Rent + bid))
           gets == Homes!Gain(it.bidder, Homes!Held(it))
           gain == Homes!Both(pays, gets)
           lost == Homes!Gain(p, Homes!Holds(r) - (Rent + bid))
           more == Homes!Gain(it.bidder, Homes!Held(it) - Homes!Holds(it))
           astray == Homes!Both(lost, more)
<1>1. /\ Homes!Calls(p) /\ Homes!Becomes(h, r) /\ Homes!Moves(gain)
      /\ it.bidder # Nobody /\ bank[p] >= Rent + bid
      /\ IF it.state = "Transfer" THEN strayed' = Homes!Both(strayed, astray)
                                 ELSE UNCHANGED strayed
  BY DEF Homes!Outbid, Homes!Strays
<1>2. /\ it \in Homes!Records /\ p \in present /\ Nobody \notin Traders
      /\ bank \in [Traders -> Nat] /\ saved \in [Traders -> Nat] /\ strayed \in [Traders -> Int]
      /\ torn \/ Agree(it, h)
      /\ BidIsHeld(it) /\ Homes!Held(it) = Rent + it.limit
      /\ Rent \in Nat /\ bid \in Nat /\ it.internal \in Nat /\ it.limit \in Nat
      /\ it.internal + 1 \in Nat
  BY <1>1, CallStarts, HousesAssumption
<1>3. /\ r \in Homes!Records /\ BidIsHeld(r) /\ (torn \/ Agree(r, h))
      /\ r.bidder = p /\ r.internal = bid /\ r.state = it.state
  <2>a. top \in Nat
    BY <1>2
  <2> HIDE DEF top, it
  <2>1. /\ r \in Homes!Records /\ r.limit = r.internal
        /\ r.bidder = p /\ r.internal = bid
        /\ r.state = it.state /\ r.accepted = it.accepted /\ r.owner = it.owner
    BY <1>2, <2>a DEF Homes!HighestBidder, Homes!Records
  <2> HIDE DEF r
  <2> QED BY <1>2, <2>1, HighestBidderAgrees
<1>4. Homes!Holds(r) \in Nat /\ Homes!Holds(it) \in Nat
  BY <1>2, <1>3, StakeOfType
<1> HIDE DEF r
<1>5. /\ pays \in [Traders -> Int] /\ \A q \in Traders : pays[q] = IF q = p THEN -(Rent + bid) ELSE 0
      /\ gets \in [Traders -> Int]
      /\ \A q \in Traders : gets[q] = IF q = it.bidder THEN Rent + it.limit ELSE 0
  BY <1>2, GainType
<1>6. /\ lost \in [Traders -> Int]
      /\ \A q \in Traders : lost[q] = IF q = p THEN Homes!Holds(r) - (Rent + bid) ELSE 0
      /\ more \in [Traders -> Int]
      /\ \A q \in Traders :
           more[q] = IF q = it.bidder THEN (Rent + it.limit) - Homes!Holds(it) ELSE 0
  BY <1>2, <1>4, GainType
<1> HIDE DEF pays, gets, lost, more
<1>7. gain \in [Traders -> Int] /\ \A q \in Traders : gain[q] = pays[q] + gets[q]
  BY <1>5, BothType
<1>8. astray \in [Traders -> Int] /\ \A q \in Traders : astray[q] = lost[q] + more[q]
  BY <1>6, BothType
<1> HIDE DEF gain, astray
<1>9. \A q \in Traders : Owns(q) + gain[q] >= 0
  <2> TAKE q \in Traders
  <2>1. gets[q] >= 0 /\ gets[q] \in Int /\ Owns(q) \in Nat
    BY <1>2, <1>5 DEF Owns
  <2>2. Owns(q) + pays[q] >= 0 /\ pays[q] \in Int
    BY <1>1, <1>2, <1>5 DEF Owns
  <2> QED BY <1>7, <2>1, <2>2
<1>10. CASE it.state = "Transfer"
  <2>1. strayed' = [q \in Traders |-> strayed[q] + astray[q]]
    BY <1>1, <1>2, <1>8, <1>10, BothType
  <2>2. \A q \in Traders : StakeOf(q, r) + gain[q] = StakeOf(q, it) + astray[q]
    <3> TAKE q \in Traders
    <3>1. /\ StakeOf(q, r) = IF q = p THEN Homes!Holds(r) ELSE 0
          /\ StakeOf(q, it) = IF q = it.bidder THEN Homes!Holds(it) ELSE 0
      BY <1>3 DEF StakeOf
    <3>2. StakeOf(q, r) + pays[q] = lost[q]
      BY <1>2, <1>4, <1>5, <1>6, <3>1
    <3>3. gets[q] = StakeOf(q, it) + more[q]
      BY <1>2, <1>4, <1>5, <1>6, <3>1
    <3>4. /\ pays[q] \in Int /\ gets[q] \in Int /\ lost[q] \in Int /\ more[q] \in Int
          /\ StakeOf(q, r) \in Int /\ StakeOf(q, it) \in Int
      BY <1>2, <1>3, <1>5, <1>6, StakeOfType
    <3> QED BY <1>7, <1>8, <3>2, <3>3, <3>4
  <2> HIDE DEF it
  <2> QED BY <1>1, <1>3, <1>7, <1>8, <1>9, <2>1, <2>2, PaidCallKeeps DEF it
<1>11. CASE it.state # "Transfer"
  <2>1. it.limit = it.internal
    BY <1>1, <1>2, <1>11 DEF BidIsHeld
  <2>2. Homes!Holds(r) = Rent + bid /\ Homes!Holds(it) = Rent + it.internal
    BY <1>3, <1>11 DEF Homes!Holds, Homes!Paid
  <2>3. \A q \in Traders : StakeOf(q, r) + gain[q] = StakeOf(q, it)
    <3> TAKE q \in Traders
    <3>1. /\ StakeOf(q, r) = IF q = p THEN Rent + bid ELSE 0
          /\ StakeOf(q, it) = IF q = it.bidder THEN Rent + it.internal ELSE 0
      BY <1>3, <2>2 DEF StakeOf
    <3> QED BY <1>2, <1>5, <1>7, <2>1, <3>1
  <2> HIDE DEF it
  <2> QED BY <1>1, <1>3, <1>7, <1>9, <1>11, <2>3, HonestCallKeeps DEF it
<1> QED BY <1>10, <1>11

(* No money moves when moving out is asked for, ...                         *)
LEMMA MoveOutKeeps ==
    ASSUME HouseInv, NEW p \in Traders, NEW h \in Houses,
           Homes!MoveOut(p, h) \/ Homes!CancelMoveOut(p, h)
    PROVE  HouseInv'
<1>1. PICK to \in {"MoveOut", "Rented"} :
          /\ Homes!Calls(p) /\ Homes!Becomes(h, [house[h] EXCEPT !.state = to])
          /\ house[h].state \in {"Rented", "MoveOut"} /\ UNCHANGED <<bank, saved, strayed>>
  BY DEF Homes!MoveOut, Homes!CancelMoveOut, Homes!money
<1> DEFINE r == [house[h] EXCEPT !.state = to]
<1>2. house[h] \in Homes!Records /\ (torn \/ Agree(house[h], h)) /\ BidIsHeld(house[h])
  BY <1>1, CallStarts
<1>3. r \in Homes!Records /\ BidIsHeld(r)
  BY <1>1, <1>2 DEF Homes!Records, BidIsHeld
<1>4. torn \/ Agree(r, h)
  BY <1>1, <1>2 DEF Homes!Records, Agree, Told
<1>5. \A q \in Traders : StakeOf(q, r) = StakeOf(q, house[h])
  BY <1>1, <1>2 DEF StakeOf, Homes!Holds, Homes!Paid, Homes!Records
<1>6. Homes!Becomes(h, r)
  BY <1>1
<1> HIDE DEF r
<1> QED BY <1>1, <1>3, <1>4, <1>5, <1>6, QuietCallKeeps

(* ... nor when a transfer is, ...                                          *)
LEMMA TransferKeeps ==
    ASSUME HouseInv, NEW p \in Traders, NEW h \in Houses, NEW q \in Traders,
           NEW named \in BOOLEAN, NEW price \in Bids, Homes!Transfer(p, h, q, named, price)
    PROVE  HouseInv'
<1> DEFINE it == house[h]
           r == Homes!Offered(it, q, named, price)
           lost == Homes!Gain(it.bidder, -Homes!Holds(it))
           more == Homes!Gain(q, Homes!Holds(r))
           astray == Homes!Both(lost, more)
<1>1. /\ Homes!Calls(p) /\ Homes!Becomes(h, r) /\ UNCHANGED <<bank, saved>>
      /\ it.state = "Rented" /\ it.owner = p
      /\ strayed' = Homes!Both(strayed, astray)
  BY DEF Homes!Transfer, Homes!money, Homes!Strays
<1>2. /\ it \in Homes!Records /\ (torn \/ Agree(it, h)) /\ strayed \in [Traders -> Int]
      /\ Nobody \notin Traders /\ price \in Nat
  BY <1>1, CallStarts, HousesAssumption
<1>3. r \in Homes!Records
  BY <1>2 DEF Homes!Offered, Homes!Records
<1>4. r.state = "Transfer" /\ r.bidder = q /\ r.owner = p
  BY <1>1, <1>2 DEF Homes!Offered, Homes!Records
<1> HIDE DEF r
<1>5. BidIsHeld(r) /\ Agree(r, h)
  <2>1. p # Nobody /\ q # Nobody
    BY <1>2
  <2> QED BY <1>4, <2>1 DEF BidIsHeld, Agree, Told
<1>6. Homes!Holds(r) \in Nat /\ Homes!Holds(it) \in Nat
  BY <1>2, <1>3, StakeOfType
<1>7. /\ lost \in [Traders -> Int]
      /\ \A b \in Traders : lost[b] = IF b = it.bidder THEN -Homes!Holds(it) ELSE 0
      /\ more \in [Traders -> Int]
      /\ \A b \in Traders : more[b] = IF b = q THEN Homes!Holds(r) ELSE 0
  BY <1>6, GainType
<1> HIDE DEF lost, more
<1>8. astray \in [Traders -> Int] /\ \A b \in Traders : astray[b] = lost[b] + more[b]
  BY <1>7, BothType
<1> HIDE DEF astray
<1>9. strayed' = [b \in Traders |-> strayed[b] + astray[b]]
  BY <1>1, <1>2, <1>8, BothType
<1>10. \A b \in Traders : StakeOf(b, r) = StakeOf(b, it) + astray[b]
  <2> TAKE b \in Traders
  <2>1. /\ StakeOf(b, r) = IF b = q THEN Homes!Holds(r) ELSE 0
        /\ StakeOf(b, it) = IF b = it.bidder THEN Homes!Holds(it) ELSE 0
    BY <1>4 DEF StakeOf
  <2> QED BY <1>6, <1>7, <1>8, <2>1
<1> HIDE DEF it
<1> QED BY <1>1, <1>3, <1>5, <1>8, <1>9, <1>10, FreeCallKeeps DEF it

(* ... but it does when the transfer is accepted ...                        *)
LEMMA AcceptTransferKeeps ==
    ASSUME HouseInv, NEW p \in Traders, NEW h \in Houses, Homes!AcceptTransfer(p, h)
    PROVE  HouseInv'
<1> DEFINE it == house[h]
           r == [it EXCEPT !.accepted = TRUE]
           back == IF it.named THEN Homes!Nothing ELSE Homes!Gain(p, Homes!Held(it))
           pays == Homes!Gain(p, -(Rent + it.internal))
           gain == Homes!Both(pays, back)
<1>1. /\ Homes!Calls(p) /\ Homes!Becomes(h, r) /\ Homes!Moves(gain)
      /\ it.state = "Transfer" /\ it.bidder = p /\ ~it.accepted
      /\ bank[p] >= Rent + it.internal
      /\ strayed' = Homes!Both(strayed, back)
  BY DEF Homes!AcceptTransfer, Homes!Strays
<1>2. /\ it \in Homes!Records /\ p \in present /\ Nobody \notin Traders
      /\ bank \in [Traders -> Nat] /\ saved \in [Traders -> Nat] /\ strayed \in [Traders -> Int]
      /\ torn \/ Agree(it, h)
      /\ Homes!Held(it) = Rent + it.limit /\ it.limit \in Nat
      /\ Rent \in Nat /\ it.internal \in Nat
  BY <1>1, CallStarts
<1>3. r \in Homes!Records
  BY <1>2 DEF Homes!Records
<1>4. /\ r.state = "Transfer" /\ r.bidder = p /\ r.accepted = TRUE /\ r.internal = it.internal
      /\ r.owner = it.owner
  BY <1>1, <1>2 DEF Homes!Records
<1>5. back \in [Traders -> Nat]
  <2>1. Homes!Nothing \in [Traders -> Nat]
    BY DEF Homes!Nothing
  <2>2. Homes!Held(it) \in Nat
    BY <1>2
  <2>3. Homes!Gain(p, Homes!Held(it)) \in [Traders -> Nat]
    BY <2>2, GainType
  <2> QED BY <2>1, <2>3
<1>6. pays \in [Traders -> Int] /\ \A q \in Traders : pays[q] = IF q = p THEN -(Rent + it.internal) ELSE 0
  BY <1>2, GainType
<1> HIDE DEF r, back, pays
<1>7. gain \in [Traders -> Int] /\ \A q \in Traders : gain[q] = pays[q] + back[q]
  BY <1>5, <1>6, BothType
<1> HIDE DEF gain
<1>8. strayed' = [q \in Traders |-> strayed[q] + back[q]] /\ back \in [Traders -> Int]
  BY <1>1, <1>2, <1>5, BothType
<1>9. \A q \in Traders : Owns(q) + gain[q] >= 0
  <2> TAKE q \in Traders
  <2>1. back[q] \in Nat
    BY <1>5
  <2>2. Owns(q) + pays[q] >= 0 /\ pays[q] \in Int /\ Owns(q) \in Int
    BY <1>1, <1>2, <1>6 DEF Owns
  <2> QED BY <1>7, <2>1, <2>2
<1>10. \A q \in Traders : StakeOf(q, r) + gain[q] = StakeOf(q, it) + back[q]
  <2> TAKE q \in Traders
  <2>1. Homes!Holds(r) = Rent + it.internal /\ Homes!Holds(it) = 0
    BY <1>1, <1>4 DEF Homes!Holds, Homes!Paid
  <2>2. back[q] \in Nat
    BY <1>5
  <2> QED BY <1>1, <1>2, <1>4, <1>6, <1>7, <2>1, <2>2 DEF StakeOf
<1>11. BidIsHeld(r) /\ (torn \/ Agree(r, h))
  BY <1>1, <1>2, <1>4 DEF BidIsHeld, Agree, Told
<1> HIDE DEF it
<1> QED BY <1>1, <1>3, <1>7, <1>8, <1>9, <1>10, <1>11, PaidCallKeeps DEF it

(* ... and when it then is not to be.                                       *)
LEMMA EndTransferKeeps ==
    ASSUME HouseInv, NEW p \in Traders, NEW h \in Houses,
           Homes!CancelTransfer(p, h) \/ Homes!RejectTransfer(p, h)
    PROVE  HouseInv'
<1> DEFINE r == Homes!NoTransfer(house[h])
           gain == Homes!Gain(house[h].bidder, house[h].internal + Rent)
<1>1. Homes!Calls(p) /\ Homes!EndTransfer(h)
  BY DEF Homes!CancelTransfer, Homes!RejectTransfer
<1>2. house[h].state = "Transfer" /\ Homes!Becomes(h, r) /\ UNCHANGED strayed
  BY <1>1 DEF Homes!EndTransfer
<1>3. /\ house[h] \in Homes!Records /\ p \in present /\ Nobody \notin Traders
      /\ bank \in [Traders -> Nat] /\ saved \in [Traders -> Nat]
      /\ torn \/ Agree(house[h], h)
      /\ Rent \in Nat /\ house[h].internal \in Nat
  BY <1>1, CallStarts
<1>4. r \in Homes!Records
  BY <1>3 DEF Homes!Records, Homes!NoTransfer
<1>5. /\ r.bidder = Nobody /\ r.state = "Rented" /\ r.accepted = FALSE /\ r.owner = house[h].owner
  BY <1>3 DEF Homes!Records, Homes!NoTransfer
<1> HIDE DEF r
<1>6. gain \in [Traders -> Int] /\ \A q \in Traders :
        gain[q] = IF q = house[h].bidder THEN house[h].internal + Rent ELSE 0
  BY <1>3, GainType
<1>7. (torn \/ Agree(r, h)) /\ BidIsHeld(r)
  BY <1>2, <1>3, <1>5 DEF Agree, Told, BidIsHeld
<1>8. \A q \in Traders : StakeOf(q, r) = 0
  BY <1>3, <1>5 DEF StakeOf
<1>9. CASE house[h].accepted
  <2>1. Homes!Moves(gain)
    BY <1>1, <1>9 DEF Homes!EndTransfer
  <2> HIDE DEF gain
  <2>2. \A q \in Traders : Owns(q) + gain[q] >= 0
    BY <1>3, <1>6 DEF Owns
  <2>3. \A q \in Traders : StakeOf(q, r) + gain[q] = StakeOf(q, house[h])
    BY <1>3, <1>6, <1>8, <1>9 DEF StakeOf, Homes!Holds, Homes!Paid
  <2> QED BY <1>1, <1>2, <1>4, <1>6, <1>7, <2>1, <2>2, <2>3, HonestCallKeeps
<1>10. CASE ~house[h].accepted
  <2>1. UNCHANGED <<bank, saved>>
    BY <1>1, <1>10 DEF Homes!EndTransfer, Homes!money
  <2>2. \A q \in Traders : StakeOf(q, r) = StakeOf(q, house[h])
    BY <1>2, <1>8, <1>10 DEF StakeOf, Homes!Holds, Homes!Paid
  <2> QED BY <1>1, <1>2, <1>4, <1>7, <2>1, <2>2, QuietCallKeeps
<1> QED BY <1>9, <1>10

-----------------------------------------------------------------------------
(* A house that stays as it is, as far as a load would tell, and money that *)
(* stays with its player: saves, logins and logouts.                        *)
LEMMA NothingHappens ==
    ASSUME HousesKept, Homes!TypeOK', UNCHANGED <<due, earned, strayed, reset, stale, torn>>,
           \A h \in Houses : Homes!Now(h)' = Homes!Now(h),
           \A p \in Traders : Owns(p)' = Owns(p)
    PROVE  HousesKept'
<1>1. /\ torn \/ \A q \in Traders : Books(q)
      /\ torn \/ \A k \in Houses : Agree(Homes!Now(k), k)
  BY KeptIs
<1>2. \A q \in Traders : Books(q) => Books(q)'
  BY StakeStays DEF Books
<1>3. \A k \in Houses : Agree(Homes!Now(k), k) => Agree(Homes!Now(k), k)'
  BY DEF Agree, Told
<1> QED BY <1>1, <1>2, <1>3, KeptNext

(* What the invariant says of types.                                        *)
LEMMA HouseTyped == HouseInv => Homes!TypeOK
  BY DEF HouseInv, HousesKept

(* Players come and go; the row and the object agree when they do.          *)
LEMMA LoginKeeps ==
    ASSUME HouseInv, NEW p \in Traders, Homes!Login(p) \/ Homes!Logout(p)
    PROVE  HouseInv'
<1>1. Homes!TypeOK
  BY HouseTyped
<1>2. UNCHANGED <<phase, house, rows, loaded, moved, half, due, earned, strayed, reset,
                  stale, torn, demands, stops>>
  BY DEF Homes!Login, Homes!Logout, Homes!bounds, Homes!loading, Homes!history, Homes!marks
<1>3. Homes!TypeOK'
  BY <1>1, <1>2 DEF Homes!TypeOK, Homes!Login, Homes!Logout
<1>4. \A q \in Traders : Owns(q)' = Owns(q)
  BY <1>1 DEF Homes!TypeOK, Homes!Login, Homes!Logout, Owns
<1>5. \A h \in Houses : Homes!Now(h)' = Homes!Now(h)
  BY <1>2 DEF Homes!Now
<1>6. HousesKept'
  BY <1>2, <1>3, <1>4, <1>5, NothingHappens DEF HouseInv
<1> QED BY <1>2, <1>6 DEF HouseInv, Settled, BidHeld, Halfway, Reloads, Told

(* What is saved of the players is what they own, ...                       *)
LEMMA SavePlayersKeeps ==
    ASSUME HouseInv, NEW last \in BOOLEAN, Homes!SavePlayers(last)
    PROVE  HouseInv'
<1>1. Homes!TypeOK
  BY HouseTyped
<1>2. /\ UNCHANGED <<house, rows, loaded, moved, half, due, earned, strayed, reset, stale,
                     torn, demands>>
      /\ phase = "up" /\ phase' \in {"saving", "closing"}
      /\ saved' = Homes!Written
      /\ \/ UNCHANGED <<present, bank, stops>>
         \/ present' = {} /\ bank' = [p \in Traders |-> 0] /\ stops < MaxStops /\ stops' = stops + 1
  BY DEF Homes!SavePlayers, Homes!Offline, Homes!loading, Homes!history, Homes!marks,
         Homes!Nothing
<1>3. stops' \in 0..MaxStops
  BY <1>1, <1>2, HousesAssumption DEF Homes!TypeOK
<1>4. Homes!TypeOK'
  BY <1>1, <1>2, <1>3 DEF Homes!TypeOK, Homes!Written
<1>5. \A q \in Traders : Owns(q)' = Owns(q)
  BY <1>1, <1>2 DEF Homes!TypeOK, Owns, Homes!Written
<1>6. \A h \in Houses : Homes!Now(h)' = Homes!Now(h)
  BY <1>2 DEF Homes!Now
<1>7. HousesKept'
  BY <1>2, <1>4, <1>5, <1>6, NothingHappens DEF HouseInv
<1> QED BY <1>2, <1>7 DEF HouseInv, Settled, BidHeld, Halfway, Reloads

(* What differs between a house and its row is the limit, which tells       *)
(* nothing of what is at stake.                                             *)
LEMMA RowType ==
    ASSUME NEW r \in Homes!Records
    PROVE  Homes!Row(r) \in Homes!Records
  BY DEF Homes!Row, Homes!Records

(* ... and the row of a house tells all that its record does, ...           *)
LEMMA RowTells ==
    ASSUME NEW r \in Homes!Records
    PROVE  /\ \A p : StakeOf(p, Homes!Row(r)) = StakeOf(p, r)
           /\ \A h : Agree(r, h) => Agree(Homes!Row(r), h)
<1> DEFINE row == Homes!Row(r)
<1>1. /\ row.state = r.state /\ row.owner = r.owner /\ row.bidder = r.bidder
      /\ row.accepted = r.accepted /\ row.internal = r.internal
  BY DEF Homes!Row, Homes!Records
<1> HIDE DEF row
<1>2. \A p : StakeOf(p, row) = StakeOf(p, r)
  BY <1>1 DEF StakeOf, Homes!Holds, Homes!Paid
<1>3. \A h : Agree(r, h) => Agree(row, h)
  BY <1>1 DEF Agree, Told
<1> QED BY <1>2, <1>3 DEF row

(* A step after which a load would tell as much of every house.             *)
LEMMA NothingTold ==
    ASSUME HousesKept, Homes!TypeOK', torn => torn',
           torn' \/ \A h \in Houses, p \in Traders :
               StakeOf(p, Homes!Now(h)') = StakeOf(p, Homes!Now(h)),
           torn' \/ \A h \in Houses : Agree(Homes!Now(h), h)',
           torn' \/ \A p \in Traders : Owns(p)' = Owns(p) /\ Right(p)' = Right(p)
    PROVE  HousesKept'
<1>1. CASE torn'
  BY <1>1, KeptNext
<1>2. CASE ~torn'
  <2>1. Homes!TypeOK /\ torn = FALSE /\ \A q \in Traders : Books(q)
    BY <1>2, KeptIs DEF Homes!TypeOK
  <2>2. ASSUME NEW q \in Traders PROVE Books(q)'
    <3>1. [k \in Houses |-> Homes!StakeIn(q, k)'] = [k \in Houses |-> Homes!StakeIn(q, k)]
      BY <1>2 DEF Homes!StakeIn, StakeOf, Homes!Holds, Homes!Paid
    <3>2. Homes!Stake(q)' = Homes!Stake(q)
      BY <3>1 DEF Homes!Stake
    <3>3. Owns(q)' = Owns(q) /\ Right(q)' = Right(q)
      BY <1>2
    <3>4. Owns(q) + Homes!Stake(q) + due[q] = Wallet + earned[q] + strayed[q]
      BY <2>1 DEF Books
    <3>5. /\ Owns(q) \in Int /\ due[q] \in Int /\ earned[q] \in Int /\ strayed[q] \in Int
          /\ due'[q] \in Int /\ earned'[q] \in Int /\ strayed'[q] \in Int
      BY <2>1, RightType DEF Homes!TypeOK, Homes!Ledgers
    <3>6. Homes!Stake(q) \in Int /\ Wallet \in Int
      BY <2>1, StakeType, HousesAssumption
    <3>7. earned'[q] + strayed'[q] - due'[q] = earned[q] + strayed[q] - due[q]
      BY <3>3 DEF Right
    <3>8. Owns(q)' + Homes!Stake(q)' + due'[q] = Wallet + earned'[q] + strayed'[q]
      BY ONLY <3>2, <3>3, <3>4, <3>5, <3>6, <3>7
    <3> QED BY <3>8 DEF Books
  <2> QED BY <1>2, <2>2, KeptNext
<1> QED BY <1>1, <1>2

(* ... so that after a save ...                                             *)
LEMMA FinishSaveKeeps ==
    ASSUME HouseInv, Homes!FinishSave
    PROVE  HouseInv'
<1>1. /\ Homes!TypeOK /\ loaded = Houses /\ moved = {} /\ half = {}
      /\ torn \/ \A h \in Houses : Agree(Homes!Now(h), h)
  BY HouseTyped, KeptIs DEF HouseInv, Settled, Homes!FinishSave
<1>2. /\ UNCHANGED <<moved, half, due, present, bank, saved, earned, strayed, reset, stale,
                     torn, demands, stops>>
      /\ rows' = [h \in Houses |-> Homes!Row(house[h])]
      /\ \/ phase' = "up" /\ UNCHANGED <<house, loaded>>
         \/ phase' = "loading" /\ loaded' = {} /\ house' = [h \in Houses |-> Homes!Empty]
  BY DEF Homes!FinishSave, Homes!SaveMap, Homes!Restart, Homes!money, Homes!bounds,
         Homes!history, Homes!marks
<1>3. Homes!Empty \in Homes!Records
  BY DEF Homes!Empty, Homes!Records
<1>4. rows' \in [Houses -> Homes!Records]
  BY <1>1, <1>2, RowType DEF Homes!TypeOK
<1>5. Homes!TypeOK'
  BY <1>1, <1>2, <1>3, <1>4 DEF Homes!TypeOK
<1>6. \A h \in Houses : /\ Homes!Now(h) \in Homes!Records
                        /\ Homes!Now(h)' \in {Homes!Now(h), Homes!Row(Homes!Now(h))}
  BY <1>1, <1>2 DEF Homes!Now, Homes!TypeOK
<1>7. \A h \in Houses, p \in Traders : StakeOf(p, Homes!Now(h)') = StakeOf(p, Homes!Now(h))
  BY <1>6, RowTells
<1>8. torn' \/ \A h \in Houses : Agree(Homes!Now(h), h)'
  <2>1. \A h \in Houses : Agree(Homes!Now(h), h) => Agree(Homes!Now(h)', h)
    BY <1>6, RowTells
  <2> QED BY <1>1, <1>2, <2>1 DEF Agree, Told
<1>9. \A p \in Traders : Owns(p)' = Owns(p) /\ Right(p)' = Right(p)
  BY <1>2 DEF Owns, Right
<1>10. HousesKept'
  BY <1>2, <1>5, <1>7, <1>8, <1>9, NothingTold DEF HouseInv
<1>11. Settled' /\ BidHeld' /\ Halfway' /\ Reloads'
  BY <1>1, <1>2 DEF HouseInv, Settled, BidHeld, Halfway, Reloads
<1> QED BY <1>10, <1>11 DEF HouseInv

(* ... and, unless it was torn, after a crash the books agree: a house that *)
(* was loaded will be loaded again, and what was due has gone astray.       *)
LEMMA CrashKeeps ==
    ASSUME HouseInv, Homes!Crash
    PROVE  HouseInv'
<1>1. Homes!TypeOK /\ (torn \/ \A h \in Houses : Agree(Homes!Now(h), h))
  BY KeptIs DEF HouseInv
<1>2. /\ UNCHANGED <<rows, saved, earned, reset, demands>>
      /\ stops < MaxStops /\ stops' = stops + 1
      /\ torn' = (torn \/ Homes!Unsaved)
      /\ stale' = stale \cup {h \in Houses : rows[h].accepted /\ rows[h].state # "Transfer"}
      /\ strayed' = [p \in Traders |-> strayed[p] - due[p]]
      /\ phase' = "loading" /\ loaded' = {} /\ house' = [h \in Houses |-> Homes!Empty]
      /\ moved' = {} /\ half' = {} /\ due' = Homes!Nothing
      /\ present' = {} /\ bank' = Homes!Nothing
  BY DEF Homes!Crash, Homes!Restart, Homes!Offline
<1>3. Homes!Empty \in Homes!Records
  BY DEF Homes!Empty, Homes!Records
<1>4. stops' \in 0..MaxStops
  BY <1>1, <1>2, HousesAssumption DEF Homes!TypeOK
<1>5. torn' \in BOOLEAN /\ (torn => torn')
  BY <1>1, <1>2 DEF Homes!TypeOK
<1>6. Homes!TypeOK'
  <2>1. strayed' \in Homes!Ledgers /\ due' \in Homes!Ledgers /\ bank' \in [Traders -> Nat]
    BY <1>1, <1>2 DEF Homes!TypeOK, Homes!Ledgers, Homes!Nothing
  <2> QED BY <1>1, <1>2, <1>3, <1>4, <1>5, <2>1 DEF Homes!TypeOK
<1>7. \/ torn'
      \/ /\ ~torn /\ \A p \in present : bank[p] = saved[p]
         /\ \A h \in loaded : \/ rows[h] = Homes!Row(house[h])
                              \/ phase = "loading" /\ rows[h].bidder = house[h].bidder
  BY <1>2 DEF Homes!Unsaved
<1>8. \A h \in Houses : /\ Homes!Now(h) \in Homes!Records /\ Homes!Now(h)' = rows[h]
                        /\ Homes!Now(h) = IF h \in loaded THEN house[h] ELSE rows[h]
  BY <1>1, <1>2 DEF Homes!Now, Homes!TypeOK
<1>9. ASSUME ~torn', NEW h \in Houses
      PROVE  /\ \A p \in Traders : StakeOf(p, rows[h]) = StakeOf(p, Homes!Now(h))
             /\ Told(rows[h], h)
  <2>1. CASE h \notin loaded
    BY <1>1, <1>7, <1>8, <1>9, <2>1 DEF Agree
  <2>2. CASE h \in loaded /\ rows[h] = Homes!Row(house[h])
    BY <1>1, <1>7, <1>8, <1>9, <2>2, RowTells DEF Agree
  <2>3. CASE h \in loaded /\ phase = "loading" /\ rows[h].bidder = house[h].bidder
    <3>1. Told(rows[h], h) /\ SameAgain(house[h], rows[h])
      BY <1>7, <1>9, <2>3 DEF HouseInv, Reloads
    <3>2. \A p \in Traders : p # Nobody
      BY HousesAssumption
    <3> QED BY <1>8, <2>3, <3>1, <3>2 DEF SameAgain, StakeOf
  <2> QED BY <1>7, <1>9, <2>1, <2>2, <2>3
<1>10. torn' \/ \A h \in Houses, p \in Traders : StakeOf(p, Homes!Now(h)') = StakeOf(p, Homes!Now(h))
  BY <1>8, <1>9
<1>11. torn' \/ \A h \in Houses : Agree(Homes!Now(h), h)'
  <2> SUFFICES ASSUME ~torn', NEW h \in Houses PROVE Agree(Homes!Now(h), h)'
    OBVIOUS
  <2>1. Told(rows[h], h) /\ Homes!Now(h)' = rows[h]
    BY <1>8, <1>9
  <2>2. rows[h].accepted => rows[h].state = "Transfer" \/ h \in stale'
    BY <1>2
  <2> QED BY <1>2, <2>1, <2>2 DEF Agree, Told
<1>12. torn' \/ \A p \in Traders : Owns(p)' = Owns(p) /\ Right(p)' = Right(p)
  <2>1. torn' \/ \A p \in Traders : Owns(p)' = Owns(p)
    BY <1>2, <1>7 DEF Owns
  <2>2. ASSUME NEW p \in Traders PROVE Right(p)' = Right(p)
    <3>1. strayed'[p] = strayed[p] - due[p] /\ due'[p] = 0 /\ earned'[p] = earned[p]
      BY <1>2 DEF Homes!Nothing
    <3>2. due[p] \in Int /\ earned[p] \in Int /\ strayed[p] \in Int
      BY <1>1, RightType
    <3> QED BY <3>1, <3>2 DEF Right
  <2> QED BY <2>1, <2>2
<1>13. HousesKept'
  BY <1>5, <1>6, <1>10, <1>11, <1>12, NothingTold DEF HouseInv
<1>14. Settled' /\ BidHeld' /\ Halfway' /\ Reloads'
  BY <1>2 DEF Settled, BidHeld, Halfway, Reloads, Homes!Nothing
<1> QED BY <1>13, <1>14 DEF HouseInv

-----------------------------------------------------------------------------
(* A house that is loaded becomes something else.                           *)
LEMMA LoadKeeps ==
    ASSUME HouseInv, NEW h \in Houses, NEW r \in Homes!Records, NEW row \in Homes!Records,
           Homes!Loads(h, r, row), UNCHANGED <<bank, saved>>,
           NEW right \in [Traders -> Int], \A q \in Traders : Right(q)' = Right(q) + right[q],
           earned' \in [Traders -> Int], due' \in [Traders -> Int], half' \subseteq Houses,
           moved' \subseteq moved \cup {h}, Halfway',
           torn \/ \A q \in Traders : StakeOf(q, r) = StakeOf(q, rows[h]) + right[q],
           torn \/ Agree(r, h), torn \/ (Told(row, h) /\ SameAgain(r, row))
    PROVE  HouseInv'
<1> DEFINE now == [r EXCEPT !.limit = r.internal]
           gain == [q \in Traders |-> 0]
<1>1. /\ Homes!TypeOK
      /\ torn \/ \A q \in Traders : Books(q)
      /\ torn \/ \A k \in Houses : Agree(Homes!Now(k), k)
  BY KeptIs DEF HouseInv
<1>2. /\ phase = "loading" /\ h \notin loaded /\ loaded' = loaded \cup {h}
      /\ house' = [house EXCEPT ![h] = now] /\ rows' = [rows EXCEPT ![h] = row]
      /\ UNCHANGED <<phase, present, strayed, reset, stale, torn, demands, stops>>
  BY DEF Homes!Loads, Homes!bounds, Homes!marks
<1>3. now \in Homes!Records /\ gain \in [Traders -> Int]
  BY DEF Homes!Records
<1>4. /\ now.bidder = r.bidder /\ now.internal = r.internal /\ now.state = r.state
      /\ now.accepted = r.accepted /\ now.owner = r.owner /\ now.limit = now.internal
  BY DEF Homes!Records
<1> HIDE DEF now
<1>5. /\ \A q \in Traders : StakeOf(q, now) = StakeOf(q, r)
      /\ Homes!Holds(now) = Homes!Holds(r)
      /\ Agree(r, h) => Agree(now, h)
      /\ SameAgain(r, row) => SameAgain(now, row)
  <2>1. Homes!Holds(now) = Homes!Holds(r)
    BY <1>4 DEF Homes!Holds, Homes!Paid
  <2>2. Agree(r, h) => Agree(now, h)
    BY <1>4 DEF Agree, Told
  <2> QED BY <1>4, <2>1, <2>2 DEF StakeOf, SameAgain
<1>6. Homes!TypeOK'
  <2>1. due' \in Homes!Ledgers /\ earned' \in Homes!Ledgers
    BY DEF Homes!Ledgers
  <2> QED BY <1>1, <1>2, <1>3, <2>1 DEF Homes!TypeOK
<1>7. Homes!Now(h) = rows[h] /\ Homes!Now(h)' = now
  BY <1>1, <1>2 DEF Homes!Now, Homes!TypeOK
<1>8. \A k \in Houses \ {h} : Homes!Now(k)' = Homes!Now(k)
  BY <1>1, <1>2 DEF Homes!Now, Homes!TypeOK
<1>9. torn \/ \A q \in Traders : StakeOf(q, now) + gain[q] = StakeOf(q, Homes!Now(h)) + right[q]
  <2>1. \A q \in Traders : StakeOf(q, now) + gain[q] = StakeOf(q, now)
    BY <1>3, StakeOfType
  <2> QED BY <1>5, <1>7, <2>1
<1>10. \A q \in Traders : Owns(q)' = Owns(q) + gain[q]
  <2>1. \A q \in Traders : Owns(q)' = Owns(q) /\ Owns(q) \in Int
    BY <1>1, <1>2, RightType DEF Owns
  <2> QED BY <2>1
<1> HIDE DEF gain
<1>11. torn' \/ \A q \in Traders : Books(q)'
  BY <1>1, <1>2, <1>3, <1>6, <1>7, <1>8, <1>9, <1>10, BooksStay
<1>12. torn' \/ \A k \in Houses : Agree(Homes!Now(k), k)'
  BY <1>1, <1>2, <1>5, <1>7, <1>8 DEF Agree, Told
<1>13. HousesKept'
  BY <1>6, <1>11, <1>12, KeptNext
<1>14. Settled'
  BY <1>2 DEF Settled
<1>15. BidHeld'
  BY <1>1, <1>2, <1>4 DEF HouseInv, BidHeld, BidIsHeld, Homes!TypeOK
<1>16. Reloads'
  <2> SUFFICES ASSUME ~torn, NEW k \in loaded'
               PROVE  Told(rows[k], k)' /\ SameAgain(house[k], rows[k])'
    BY <1>2 DEF Reloads
  <2>1. CASE k = h
    <3>1. rows'[k] = row /\ house'[k] = now
      BY <1>1, <1>2, <2>1 DEF Homes!TypeOK
    <3> QED BY <1>2, <1>5, <2>1, <3>1 DEF Told, SameAgain
  <2>2. CASE k # h
    <3>1. rows'[k] = rows[k] /\ house'[k] = house[k] /\ k \in loaded
      BY <1>1, <1>2, <2>2 DEF Homes!TypeOK
    <3>2. Told(rows[k], k) /\ SameAgain(house[k], rows[k])
      BY <1>2, <3>1 DEF HouseInv, Reloads
    <3> QED BY <1>2, <3>1, <3>2 DEF Told, SameAgain
  <2> QED BY <2>1, <2>2
<1> QED BY <1>13, <1>14, <1>15, <1>16 DEF HouseInv

(* What a load starts from.                                                 *)
LEMMA LoadStarts ==
    ASSUME HouseInv, NEW h \in Houses, h \notin loaded
    PROVE  /\ Homes!TypeOK /\ rows[h] \in Homes!Records /\ Nobody \notin Traders
           /\ torn \/ Agree(rows[h], h)
           /\ Rent \in Nat /\ rows[h].internal \in Nat /\ rows[h].highest \in Nat
           /\ half = {} => due = Homes!Nothing
<1>1. Homes!TypeOK /\ Homes!Now(h) = rows[h] /\ (torn \/ Agree(Homes!Now(h), h))
  BY KeptIs DEF HouseInv, Homes!Now
<1>2. rows[h] \in Homes!Records
  BY <1>1 DEF Homes!TypeOK
<1>3. rows[h].internal \in Nat /\ rows[h].highest \in Nat
  BY <1>2 DEF Homes!Records
<1> QED BY <1>1, <1>2, <1>3, HousesAssumption DEF HouseInv, Halfway

(* Loads of a house that pay nobody: those that keep the stakes.            *)
LEMMA FreeLoadKeeps ==
    ASSUME HouseInv, NEW h \in Houses, NEW r \in Homes!Records, NEW row \in Homes!Records,
           Homes!Loads(h, r, row), UNCHANGED <<half, due, bank, saved, earned>>, half = {},
           moved' \subseteq moved \cup {h},
           torn \/ \A q \in Traders : StakeOf(q, r) = StakeOf(q, rows[h]),
           torn \/ Agree(r, h), torn \/ (Told(row, h) /\ SameAgain(r, row))
    PROVE  HouseInv'
<1> DEFINE right == [q \in Traders |-> 0]
<1>1. h \notin loaded /\ UNCHANGED strayed
  BY DEF Homes!Loads
<1>2. Homes!TypeOK /\ rows[h] \in Homes!Records /\ due = Homes!Nothing
  BY <1>1, LoadStarts
<1>3. /\ due \in [Traders -> Int] /\ earned \in [Traders -> Int]
      /\ right \in [Traders -> Int]
  BY <1>2 DEF Homes!TypeOK, Homes!Ledgers
<1>4. \A q \in Traders : Right(q)' = Right(q) + right[q]
  <2>1. \A q \in Traders : Right(q)' = Right(q) /\ Right(q) \in Int
    BY <1>1, <1>2, RightType DEF Right
  <2> QED BY <2>1
<1>5. torn \/ \A q \in Traders : StakeOf(q, r) = StakeOf(q, rows[h]) + right[q]
  BY <1>2, StakeOfType
<1>6. Halfway'
  BY <1>2 DEF Halfway, Homes!Nothing
<1> HIDE DEF right
<1> QED BY <1>3, <1>4, <1>5, <1>6, LoadKeeps

(* Money that was due comes, to who is meant to have it.                    *)
LEMMA DueKeeps ==
    ASSUME HouseInv, NEW h \in Houses, NEW gain \in [Traders -> Nat], Homes!Moves(gain),
           due' \in [Traders -> Int], \A q \in Traders : due'[q] = due[q] - gain[q],
           half' \subseteq Houses, phase = "loading", Halfway',
           UNCHANGED <<phase, house, rows, loaded, moved, present, earned, strayed,
                       reset, stale, torn, demands, stops>>
    PROVE  HouseInv'
<1>1. /\ Homes!TypeOK
      /\ torn \/ \A q \in Traders : Books(q)
      /\ torn \/ \A k \in Houses : Agree(Homes!Now(k), k)
  BY KeptIs DEF HouseInv
<1>2. gain \in [Traders -> Int]
  OBVIOUS
<1>3. bank' \in [Traders -> Nat] /\ saved' \in [Traders -> Nat]
  BY <1>1 DEF Homes!Moves, Homes!TypeOK
<1>4. Homes!TypeOK'
  <2>1. due' \in Homes!Ledgers
    BY DEF Homes!Ledgers
  <2> QED BY <1>1, <1>3, <2>1 DEF Homes!TypeOK
<1>5. \A q \in Traders : Owns(q)' = Owns(q) + gain[q]
  BY <1>1, <1>2, MoneyMoved
<1>6. \A q \in Traders : Right(q)' = Right(q) + gain[q]
  <2> TAKE q \in Traders
  <2>1. due'[q] = due[q] - gain[q] /\ gain[q] \in Int
    BY <1>2
  <2>2. due[q] \in Int /\ earned[q] \in Int /\ strayed[q] \in Int
    BY <1>1, RightType
  <2> QED BY <2>1, <2>2 DEF Right
<1>7. \A k \in Houses : Homes!Now(k)' = Homes!Now(k)
  BY DEF Homes!Now
<1>8. Homes!Now(h) \in Homes!Records
  BY <1>1, StakeInType
<1>9. \A q \in Traders : Books(q) => Books(q)'
  BY <1>1, <1>2, <1>4, <1>5, <1>6, <1>7, <1>8, BooksStay
<1>10. torn' \/ \A k \in Houses : Agree(Homes!Now(k), k)'
  BY <1>1, <1>7 DEF Agree, Told
<1>11. HousesKept'
  BY <1>1, <1>4, <1>9, <1>10, KeptNext
<1> QED BY <1>11 DEF HouseInv, Settled, BidHeld, Reloads, Told

(* No more is paid than what is in the account of the house.                *)
LEMMA PriceType ==
    ASSUME NEW r \in Homes!Records
    PROVE  /\ Homes!Price(r) \in Nat /\ r.internal - Homes!Price(r) \in Nat
           /\ ~Homes!PaysLess(r) => Homes!Price(r) = r.internal
  BY DEF Homes!Price, Homes!PaysLess, Homes!Records

(* What can happen to a house when it is loaded: the winner of its auction  *)
(* is paid what it bid too much, ...                                        *)
LEMMA PayWinnerKeeps ==
    ASSUME HouseInv, NEW h \in Houses, Homes!PayWinner(h)
    PROVE  HouseInv'
<1> DEFINE r == rows[h]
           rest == r.internal - Homes!Price(r)
           gain == Homes!Gain(r.bidder, rest)
<1>1. /\ phase = "loading" /\ h \notin loaded /\ half = {} /\ half' = {h}
      /\ due' = Homes!Gain(r.bidder, Homes!Price(r) - r.internal) /\ Homes!Moves(gain)
      /\ UNCHANGED <<phase, house, rows, loaded, moved, present, earned, strayed,
                     reset, stale, torn, demands, stops>>
  BY DEF Homes!PayWinner, Homes!history, Homes!marks, Homes!bounds
<1>2. /\ r \in Homes!Records /\ r.internal \in Nat /\ due = Homes!Nothing
  BY <1>1, LoadStarts
<1>3. rest \in Nat /\ Homes!Price(r) \in Nat /\ Homes!Price(r) - r.internal \in Int
  <2>1. rest \in Nat /\ Homes!Price(r) \in Nat
    BY <1>2, PriceType
  <2> QED BY <1>2, <2>1
<1>4. gain \in [Traders -> Nat] /\ \A q \in Traders : gain[q] = IF q = r.bidder THEN rest ELSE 0
  BY <1>3, GainType
<1>5. /\ due' \in [Traders -> Int]
      /\ \A q \in Traders : due'[q] = IF q = r.bidder THEN Homes!Price(r) - r.internal ELSE 0
  BY <1>1, <1>3, GainType
<1>6. \A q \in Traders : due'[q] = due[q] - gain[q]
  <2> TAKE q \in Traders
  <2>1. due[q] = 0
    BY <1>2 DEF Homes!Nothing
  <2> QED BY <1>2, <1>3, <1>4, <1>5, <2>1
<1>7. Halfway'
  BY <1>1 DEF Halfway
<1>8. half' \subseteq Houses
  BY <1>1
<1> HIDE DEF gain
<1> QED BY <1>1, <1>4, <1>5, <1>6, <1>7, <1>8, DueKeeps

(* ... then, or at once, the auction is over; ...                           *)
LEMMA EndAuctionKeeps ==
    ASSUME HouseInv, NEW h \in Houses, Homes!EndAuction(h)
    PROVE  HouseInv'
<1> DEFINE r == rows[h]
           pays == Homes!Price(r)
           now == [Homes!Owned(r, r.bidder) EXCEPT !.bidder = Nobody, !.named = TRUE,
                                                   !.highest = 0, !.internal = 0]
           row == Homes!SetOwner(r, r.bidder)
           cost == Homes!Gain(r.bidder, -(Rent + pays))
           right == [q \in Traders |-> IF q = r.bidder THEN -(Rent + r.internal) ELSE 0]
<1>1. /\ r.state = "Available" /\ r.bidder # Nobody /\ Homes!Loads(h, now, row)
      /\ half = (IF Homes!PaysLess(r) THEN {h} ELSE {})
      /\ half' = {} /\ due' = Homes!Nothing
      /\ UNCHANGED <<moved, bank, saved>>
      /\ earned' = Homes!Both(earned, cost)
  BY DEF Homes!EndAuction, Homes!Over, Homes!money
<1>2. h \notin loaded /\ UNCHANGED strayed
  BY <1>1 DEF Homes!Loads
<1>3. /\ Homes!TypeOK /\ r \in Homes!Records /\ Nobody \notin Traders
      /\ (torn \/ Agree(r, h)) /\ Rent \in Nat /\ r.internal \in Nat
  BY <1>2, LoadStarts
<1>4. pays \in Nat /\ r.internal - pays \in Nat /\ (~Homes!PaysLess(r) => pays = r.internal)
  BY <1>3, PriceType
<1>5. \A q \in Traders : due[q] = IF q = r.bidder THEN pays - r.internal ELSE 0
  <2>1. CASE Homes!PaysLess(r)
    <3>1. due = Homes!Gain(r.bidder, pays - r.internal)
      BY <1>1, <1>2, <2>1 DEF HouseInv, Halfway
    <3>2. pays - r.internal \in Int
      BY <1>3, <1>4
    <3> HIDE DEF pays
    <3> QED BY <3>1, <3>2, GainType
  <2>2. CASE ~Homes!PaysLess(r)
    <3>1. half = {}
      BY <1>1, <2>2
    <3>2. \A q \in Traders : due[q] = 0
      BY <1>2, <3>1, LoadStarts DEF Homes!Nothing
    <3> QED BY <1>3, <1>4, <2>2, <3>2
  <2> QED BY <2>1, <2>2
<1> HIDE DEF pays
<1>6. now \in Homes!Records /\ row \in Homes!Records
  BY <1>1, <1>3 DEF Homes!Owned, Homes!SetOwner, Homes!RentedBy, Homes!Empty, Homes!Records
<1>7. now.state = "Rented" /\ now.owner = r.bidder /\ now.bidder = Nobody /\ now.accepted = r.accepted
  BY <1>1, <1>3 DEF Homes!Owned, Homes!Records
<1>8. row.state = "Rented" /\ row.owner = r.bidder /\ row.bidder = Nobody
  BY <1>1, <1>3 DEF Homes!SetOwner, Homes!RentedBy, Homes!Empty
<1> HIDE DEF now, row, r
<1>9. -(Rent + pays) \in Int /\ -(Rent + r.internal) \in Int
  BY <1>3, <1>4
<1>10. cost \in [Traders -> Int] /\ \A q \in Traders : cost[q] = IF q = r.bidder THEN -(Rent + pays) ELSE 0
  BY <1>9, GainType
<1> HIDE DEF cost
<1>11. earned \in [Traders -> Int]
  BY <1>3 DEF Homes!TypeOK, Homes!Ledgers
<1>12. earned' \in [Traders -> Int] /\ \A q \in Traders : earned'[q] = earned[q] + cost[q]
  BY <1>1, <1>10, <1>11, BothType
<1>13. due' \in [Traders -> Int] /\ half' \subseteq Houses /\ moved' \subseteq moved \cup {h}
       /\ \A q \in Traders : due'[q] = 0
  BY <1>1 DEF Homes!Nothing
<1>14. right \in [Traders -> Int]
  BY <1>9
<1>15. \A q \in Traders : Right(q)' = Right(q) + right[q]
  <2> TAKE q \in Traders
  <2>1. due[q] \in Int /\ earned[q] \in Int /\ strayed[q] \in Int
    BY <1>3, RightType
  <2>2. /\ earned'[q] = earned[q] + cost[q] /\ due'[q] = 0 /\ strayed'[q] = strayed[q]
        /\ due[q] = (IF q = r.bidder THEN pays - r.internal ELSE 0)
        /\ cost[q] = (IF q = r.bidder THEN -(Rent + pays) ELSE 0)
        /\ right[q] = (IF q = r.bidder THEN -(Rent + r.internal) ELSE 0)
    BY <1>2, <1>5, <1>10, <1>12, <1>13
  <2>3. Rent \in Int /\ pays \in Int /\ r.internal \in Int
    BY <1>3, <1>4
  <2> HIDE DEF right
  <2>4. earned'[q] + strayed'[q] - due'[q] = earned[q] + strayed[q] - due[q] + right[q]
    BY ONLY <2>1, <2>2, <2>3
  <2> QED BY <2>4 DEF Right
<1>16. \A q \in Traders : StakeOf(q, now) = StakeOf(q, r) + right[q]
  <2>1. Homes!Holds(r) = Rent + r.internal
    BY <1>1 DEF Homes!Holds, Homes!Paid
  <2> QED BY <1>3, <1>7, <2>1 DEF StakeOf
<1>17. torn \/ Agree(now, h)
  BY <1>1, <1>3, <1>7 DEF Agree, Told
<1>18. Told(row, h) /\ SameAgain(now, row)
  BY <1>1, <1>7, <1>8 DEF Told, SameAgain
<1>19. Halfway'
  BY <1>1 DEF Halfway, Homes!Nothing
<1> HIDE DEF right
<1> QED BY <1>1, <1>6, <1>12, <1>13, <1>14, <1>15, <1>16, <1>17, <1>18, <1>19, LoadKeeps DEF r

(* ... a transfer is due, and the former owner waits for the price, ...     *)
LEMMA CompleteTransferKeeps ==
    ASSUME HouseInv, NEW h \in Houses, Homes!CompleteTransfer(h)
    PROVE  HouseInv'
<1> DEFINE r == rows[h]
           owner == IF r.accepted THEN r.bidder ELSE r.owner
           now == [Homes!Owned(r, owner) EXCEPT !.bidder = Nobody, !.named = TRUE,
                                               !.internal = 0, !.accepted = FALSE]
           row == Homes!SetOwner(r, owner)
           price == Homes!Gain(r.owner, r.internal)
           right == Homes!Gain(r.bidder, -(Rent + r.internal))
<1>1. /\ half = {} /\ r.state = "Transfer" /\ r.bidder # Nobody /\ Homes!Loads(h, now, row)
      /\ UNCHANGED <<bank, saved>>
  BY DEF Homes!CompleteTransfer, Homes!money
<1>2. h \notin loaded /\ UNCHANGED strayed
  BY <1>1 DEF Homes!Loads
<1>3. /\ Homes!TypeOK /\ r \in Homes!Records /\ Nobody \notin Traders
      /\ (torn \/ Agree(r, h)) /\ Rent \in Nat /\ r.internal \in Nat
      /\ due = Homes!Nothing
  BY <1>1, <1>2, LoadStarts
<1>4. owner \in Traders \cup {Nobody} /\ r.accepted \in BOOLEAN
  BY <1>3 DEF Homes!Records
<1>5. r.accepted => owner = r.bidder
  OBVIOUS
<1>6. ~r.accepted => owner = r.owner
  OBVIOUS
<1> HIDE DEF owner
<1>7. now \in Homes!Records /\ row \in Homes!Records
  <2>1. row \in Homes!Records
    BY <1>3, <1>4 DEF Homes!SetOwner, Homes!RentedBy, Homes!Empty, Homes!Records
  <2>2. Homes!Owned(r, owner) \in Homes!Records
    BY <1>3, <1>4 DEF Homes!Owned, Homes!Records
  <2> HIDE DEF r
  <2>3. now \in Homes!Records
    BY <2>2 DEF Homes!Records
  <2> QED BY <2>1, <2>3
<1>8. /\ now.bidder = Nobody /\ now.accepted = FALSE /\ now.owner = owner
      /\ now.state = IF owner = Nobody THEN "Available" ELSE "Rented"
  BY <1>3 DEF Homes!Owned, Homes!Records
<1>9. \/ row = r /\ owner = Nobody
      \/ row.state = "Rented" /\ row.owner = owner /\ owner # Nobody /\ row.bidder = Nobody
  BY DEF Homes!SetOwner, Homes!RentedBy, Homes!Empty
<1> HIDE DEF now, row, r
<1>10. torn \/ Agree(now, h)
  BY <1>8 DEF Agree, Told
<1>11. torn \/ (Told(row, h) /\ SameAgain(now, row))
  BY <1>1, <1>3, <1>8, <1>9 DEF Agree, Told, SameAgain
<1>12. \A q \in Traders : StakeOf(q, now) = 0
  BY <1>3, <1>8 DEF StakeOf
<1>13. CASE r.accepted
  <2>1. /\ half' = {h} /\ due' = price /\ moved' = moved \cup {h}
        /\ earned' = Homes!Both(earned, Homes!Both(price, right))
    BY <1>13 DEF Homes!CompleteTransfer, r
  <2>2. -(Rent + r.internal) \in Int
    BY <1>3
  <2>3. /\ price \in [Traders -> Nat] /\ right \in [Traders -> Int]
        /\ \A q \in Traders : right[q] = IF q = r.bidder THEN -(Rent + r.internal) ELSE 0
    BY <1>3, <2>2, GainType
  <2> HIDE DEF price, right
  <2>4. price \in [Traders -> Int] /\ earned \in [Traders -> Int]
    BY <1>3, <2>3 DEF Homes!TypeOK, Homes!Ledgers
  <2> DEFINE both == Homes!Both(price, right)
  <2>5. both \in [Traders -> Int] /\ \A q \in Traders : both[q] = price[q] + right[q]
    BY <2>3, <2>4, BothType
  <2> HIDE DEF both
  <2>6. earned' \in [Traders -> Int] /\ \A q \in Traders : earned'[q] = earned[q] + both[q]
    <3>1. earned' = Homes!Both(earned, both)
      BY <2>1 DEF both
    <3> QED BY <2>4, <2>5, <3>1, BothType
  <2>7. \A q \in Traders : Right(q)' = Right(q) + right[q]
    <3> TAKE q \in Traders
    <3>1. /\ earned[q] \in Int /\ strayed[q] \in Int /\ due[q] = 0
          /\ price[q] \in Int /\ right[q] \in Int
      BY <1>3, <2>3, <2>4, RightType DEF Homes!Nothing
    <3>2. /\ earned'[q] = earned[q] + (price[q] + right[q])
          /\ due'[q] = price[q] /\ strayed'[q] = strayed[q]
      BY <1>2, <2>1, <2>5, <2>6
    <3>3. earned'[q] + strayed'[q] - due'[q] = earned[q] + strayed[q] - due[q] + right[q]
      BY ONLY <3>1, <3>2
    <3> QED BY <3>3 DEF Right
  <2>8. \A q \in Traders : StakeOf(q, now) = StakeOf(q, r) + right[q]
    <3>1. Homes!Holds(r) = Rent + r.internal
      BY <1>13 DEF Homes!Holds, Homes!Paid
    <3> QED BY <1>3, <1>12, <2>3, <3>1 DEF StakeOf
  <2>9. due' \in [Traders -> Int] /\ half' \subseteq Houses /\ moved' \subseteq moved \cup {h}
    BY <2>1, <2>4
  <2>10. Halfway'
    <3>1. due' \in [Traders -> Nat] /\ h \in loaded'
      BY <1>1, <2>1, <2>3 DEF Homes!Loads
    <3> QED BY <2>1, <3>1 DEF Halfway
  <2> QED BY <1>1, <1>7, <1>10, <1>11, <2>3, <2>6, <2>7, <2>8, <2>9, <2>10, LoadKeeps DEF r
<1>14. CASE ~r.accepted
  <2>1. UNCHANGED <<half, due, earned, moved>>
    BY <1>14 DEF Homes!CompleteTransfer, r
  <2>2. \A q \in Traders : StakeOf(q, now) = StakeOf(q, r)
    BY <1>1, <1>12, <1>14 DEF StakeOf, Homes!Holds, Homes!Paid
  <2>3. moved' \subseteq moved \cup {h}
    BY <2>1
  <2> QED BY <1>1, <1>7, <1>10, <1>11, <2>1, <2>2, <2>3, FreeLoadKeeps DEF r
<1> QED BY <1>13, <1>14

(* ... and is paid it, ...                                                  *)
LEMMA PayFormerOwnerKeeps ==
    ASSUME HouseInv, NEW h \in Houses, Homes!PayFormerOwner(h)
    PROVE  HouseInv'
<1>1. /\ phase = "loading" /\ half = {h} /\ h \in loaded /\ Homes!Moves(due)
      /\ half' = {} /\ due' = Homes!Nothing
      /\ UNCHANGED <<phase, house, rows, loaded, moved, present, earned, strayed,
                     reset, stale, torn, demands, stops>>
  BY DEF Homes!PayFormerOwner, Homes!history, Homes!marks, Homes!bounds
<1>2. due \in [Traders -> Nat]
  BY <1>1 DEF HouseInv, Halfway
<1>3. /\ due' \in [Traders -> Int] /\ half' \subseteq Houses
      /\ \A q \in Traders : due'[q] = due[q] - due[q]
  BY <1>1, <1>2 DEF Homes!Nothing
<1>4. Halfway'
  BY <1>1 DEF Halfway, Homes!Nothing
<1> QED BY <1>1, <1>2, <1>3, <1>4, DueKeeps

(* ... a move, ...                                                          *)
LEMMA CompleteMoveOutKeeps ==
    ASSUME HouseInv, NEW h \in Houses, Homes!CompleteMoveOut(h)
    PROVE  HouseInv'
<1> DEFINE r == rows[h]
           now == Homes!Owned(r, Nobody)
<1>1. /\ half = {} /\ r.state = "MoveOut" /\ Homes!Loads(h, now, r)
      /\ moved' = moved \cup {h} /\ UNCHANGED <<half, due, bank, saved, earned>>
  BY DEF Homes!CompleteMoveOut, Homes!money
<1>2. h \notin loaded
  BY <1>1 DEF Homes!Loads
<1>3. r \in Homes!Records /\ (torn \/ Agree(r, h)) /\ Nobody \notin Traders
  BY <1>2, LoadStarts
<1>4. now \in Homes!Records
  BY <1>3 DEF Homes!Owned, Homes!Records
<1>5. /\ now.state = "Available" /\ now.owner = Nobody /\ now.accepted = r.accepted
      /\ now.bidder = r.bidder /\ now.internal = r.internal
  BY <1>3 DEF Homes!Owned, Homes!Records
<1> HIDE DEF now
<1>6. Homes!Holds(now) = Homes!Holds(r)
  BY <1>1, <1>5 DEF Homes!Holds, Homes!Paid
<1>7. torn \/ (Agree(now, h) /\ Told(r, h) /\ SameAgain(now, r))
  BY <1>1, <1>3, <1>5, <1>6 DEF Agree, Told, SameAgain
<1>8. torn \/ \A q \in Traders : StakeOf(q, now) = StakeOf(q, r)
  BY <1>5, <1>6 DEF StakeOf
<1>9. moved' \subseteq moved \cup {h}
  BY <1>1
<1> QED BY <1>1, <1>3, <1>4, <1>7, <1>8, <1>9, FreeLoadKeeps

(* ... nothing, ...                                                         *)
LEMMA LoadAsIsKeeps ==
    ASSUME HouseInv, NEW h \in Houses, Homes!LoadAsIs(h)
    PROVE  HouseInv'
<1>1. /\ half = {} /\ Homes!Loads(h, rows[h], rows[h])
      /\ UNCHANGED <<half, due, bank, saved, earned, moved>>
  BY DEF Homes!LoadAsIs, Homes!money
<1>2. h \notin loaded
  BY <1>1 DEF Homes!Loads
<1>3. rows[h] \in Homes!Records /\ (torn \/ Agree(rows[h], h))
  BY <1>2, LoadStarts
<1>4. torn \/ (Told(rows[h], h) /\ SameAgain(rows[h], rows[h]))
  BY <1>3 DEF Agree, SameAgain
<1>5. moved' \subseteq moved \cup {h}
  BY <1>1
<1> QED BY <1>1, <1>3, <1>4, <1>5, FreeLoadKeeps

(* ... or the owner has been away for too long.                             *)
LEMMA ResetInactiveKeeps ==
    ASSUME HouseInv, NEW h \in Houses, Homes!ResetInactive(h)
    PROVE  HouseInv'
<1> DEFINE r == [house[h] EXCEPT !.owner = Nobody]
           row == [Homes!Empty EXCEPT !.accepted = rows[h].accepted]
<1>1. /\ phase = "loading" /\ loaded = Houses /\ half = {} /\ house[h].owner # Nobody
      /\ house' = [house EXCEPT ![h] = r] /\ rows' = [rows EXCEPT ![h] = row]
      /\ reset' = reset \cup {h}
      /\ UNCHANGED <<phase, loaded, moved, half, due, present, bank, saved, earned, strayed,
                     stale, torn, demands, stops>>
  BY DEF Homes!ResetInactive, Homes!AllLoaded, Homes!Becomes, Homes!money, Homes!bounds,
         Homes!loading
<1>2. /\ Homes!TypeOK
      /\ torn \/ \A q \in Traders : Books(q)
      /\ torn \/ \A k \in Houses : Agree(house[k], k)
  BY <1>1, KeptIs DEF HouseInv, Homes!Now
<1>3. house[h] \in Homes!Records /\ rows[h] \in Homes!Records
  BY <1>2 DEF Homes!TypeOK
<1>4. r \in Homes!Records /\ row \in Homes!Records
  BY <1>3 DEF Homes!Empty, Homes!Records
<1>5. /\ r.state = house[h].state /\ r.bidder = house[h].bidder
      /\ r.limit = house[h].limit /\ r.internal = house[h].internal
      /\ r.owner = Nobody /\ r.accepted = house[h].accepted
  BY <1>3 DEF Homes!Records
<1>6. row.state = "Available" /\ row.owner = Nobody /\ row.bidder = Nobody
  BY DEF Homes!Empty
<1> HIDE DEF r, row
<1>7. Homes!Holds(r) = Homes!Holds(house[h])
  BY <1>5 DEF Homes!Holds, Homes!Paid
<1>8. Homes!TypeOK'
  BY <1>1, <1>2, <1>4 DEF Homes!TypeOK
<1>9. /\ Homes!Now(h) = house[h] /\ Homes!Now(h)' = r
      /\ \A k \in Houses \ {h} : Homes!Now(k) = house[k] /\ Homes!Now(k)' = house[k]
  BY <1>1, <1>2 DEF Homes!Now, Homes!TypeOK
<1>10. \A q \in Traders : Books(q) => Books(q)'
  <2>1. ASSUME NEW q \in Traders PROVE Homes!Stake(q)' = Homes!Stake(q)
    <3>1. ASSUME NEW k \in Houses PROVE Homes!StakeIn(q, k)' = Homes!StakeIn(q, k)
      <4>1. CASE k = h
        BY <1>5, <1>9, <4>1 DEF Homes!StakeIn, Homes!Holds, Homes!Paid
      <4>2. CASE k # h
        BY <1>9, <4>2 DEF Homes!StakeIn, Homes!Holds, Homes!Paid
      <4> QED BY <4>1, <4>2
    <3>2. [k \in Houses |-> Homes!StakeIn(q, k)'] = [k \in Houses |-> Homes!StakeIn(q, k)]
      BY <3>1
    <3> QED BY <3>2 DEF Homes!Stake
  <2> QED BY <1>1, <2>1 DEF Books, Owns
<1>11. torn' \/ \A k \in Houses : Agree(Homes!Now(k), k)'
  <2> SUFFICES ASSUME ~torn, NEW k \in Houses PROVE Agree(Homes!Now(k), k)'
    BY <1>1
  <2>1. Agree(house[h], h) /\ Agree(house[k], k)
    BY <1>2
  <2>2. CASE k # h
    BY <1>1, <1>9, <2>1, <2>2 DEF Agree, Told
  <2>3. CASE k = h
    BY <1>1, <1>5, <1>9, <2>1, <2>3 DEF Agree, Told
  <2> QED BY <2>2, <2>3
<1>12. HousesKept'
  BY <1>1, <1>2, <1>8, <1>10, <1>11, KeptNext
<1>13. Reloads'
  <2> SUFFICES ASSUME ~torn, NEW k \in loaded'
               PROVE  Told(rows[k], k)' /\ SameAgain(house[k], rows[k])'
    BY <1>1 DEF Reloads
  <2>1. CASE k = h
    <3>1. rows'[k] = row /\ house'[k] = r
      BY <1>1, <1>2, <2>1 DEF Homes!TypeOK
    <3> QED BY <1>6, <3>1 DEF Told, SameAgain
  <2>2. CASE k # h
    <3>1. rows'[k] = rows[k] /\ house'[k] = house[k] /\ k \in loaded
      BY <1>1, <1>2, <2>2 DEF Homes!TypeOK
    <3>2. Told(rows[k], k) /\ SameAgain(house[k], rows[k])
      BY <1>1, <3>1 DEF HouseInv, Reloads
    <3> QED BY <1>1, <3>1, <3>2 DEF Told, SameAgain
  <2> QED BY <2>1, <2>2
<1>14. Settled' /\ BidHeld' /\ Halfway'
  BY <1>1, <1>2, <1>5 DEF HouseInv, Settled, BidHeld, BidIsHeld, Halfway, Homes!TypeOK,
                          Homes!Nothing
<1> QED BY <1>12, <1>13, <1>14 DEF HouseInv

(* When all are loaded the server goes up.                                  *)
LEMMA GoUpKeeps ==
    ASSUME HouseInv, Homes!GoUp
    PROVE  HouseInv'
<1>1. Homes!TypeOK
  BY HouseTyped
<1>2. /\ loaded = Houses /\ half = {} /\ phase' = "up" /\ moved' = {}
      /\ rows' \in {[h \in Houses |-> Homes!Row(house[h])], rows}
      /\ UNCHANGED <<house, loaded, half, due, present, bank, saved, earned, strayed, reset,
                     stale, torn, demands, stops>>
  BY DEF Homes!GoUp, Homes!AllLoaded, Homes!SaveMap, Homes!money, Homes!bounds,
         Homes!history, Homes!marks
<1>3. rows' \in [Houses -> Homes!Records]
  BY <1>1, <1>2, RowType DEF Homes!TypeOK
<1>4. Homes!TypeOK'
  BY <1>1, <1>2, <1>3 DEF Homes!TypeOK
<1>5. \A h \in Houses : Homes!Now(h)' = Homes!Now(h)
  BY <1>2 DEF Homes!Now
<1>6. HousesKept'
  BY <1>2, <1>4, <1>5, NothingHappens DEF HouseInv, Owns
<1> QED BY <1>2, <1>6 DEF HouseInv, Settled, BidHeld, Halfway, Reloads, Homes!Nothing

-----------------------------------------------------------------------------
(* The invariant holds at first, ...                                        *)
LEMMA HouseStarts ==
    ASSUME MCInit
    PROVE  HouseInv
<1>1. Homes!Init
  BY DEF MCInit
<1>2. ASSUME NEW h \in Houses
      PROVE  house[h] \in Homes!Records /\ house[h].bidder = Nobody /\ Agree(house[h], h)
  <2>1. CASE house[h] = Homes!Empty
    BY <2>1 DEF Homes!Empty, Homes!Records, Agree, Told
  <2>2. ASSUME NEW p \in Tenants, house[h] = Homes!RentedBy(p)
        PROVE  house[h] \in Homes!Records /\ house[h].bidder = Nobody /\ Agree(house[h], h)
    <3>1. p \in Traders /\ p # Nobody
      BY HousesAssumption
    <3>2. house[h] \in Homes!Records
      <4>1. Homes!Empty \in Homes!Records
        BY DEF Homes!Empty, Homes!Records
      <4> QED BY <2>2, <3>1, <4>1 DEF Homes!RentedBy, Homes!Records
    <3>3. /\ house[h].owner = p /\ house[h].state = "Rented" /\ house[h].bidder = Nobody
          /\ house[h].accepted = FALSE
      BY <2>2 DEF Homes!RentedBy, Homes!Empty
    <3> QED BY <3>1, <3>2, <3>3 DEF Agree, Told
  <2> QED BY <1>1, <2>1, <2>2 DEF Homes!Init
<1>3. Homes!TypeOK
  <2>1. house \in [Houses -> Homes!Records] /\ rows \in [Houses -> Homes!Records]
    <3>1. house \in [Houses -> {Homes!Empty} \cup {Homes!RentedBy(p) : p \in Tenants}] /\ rows = house
      BY <1>1 DEF Homes!Init
    <3> QED BY <1>2, <3>1
  <2>2. demands \in 0..MaxDemands /\ stops \in 0..MaxStops
    BY <1>1, HousesAssumption DEF Homes!Init
  <2>3. /\ bank \in [Traders -> Nat] /\ saved \in [Traders -> Nat]
        /\ earned \in Homes!Ledgers /\ strayed \in Homes!Ledgers /\ due \in Homes!Ledgers
    BY <1>1, HousesAssumption DEF Homes!Init, Homes!Nothing, Homes!Ledgers
  <2> QED BY <1>1, <2>1, <2>2, <2>3 DEF Homes!Init, Homes!TypeOK
<1>4. \A h \in Houses : Homes!Now(h) = house[h]
  BY <1>1 DEF Homes!Init, Homes!Now
<1>5. \A h \in Houses : Agree(Homes!Now(h), h)
  BY <1>2, <1>4
<1>6. ASSUME NEW p \in Traders PROVE Books(p)
  <2> DEFINE f == [h \in Houses |-> Homes!StakeIn(p, h)]
  <2>1. \A h \in Houses : f[h] = 0
    BY <1>2, <1>4, HousesAssumption DEF Homes!StakeIn
  <2>2. Homes!Stake(p) = SumFunctionOnSet(f, Houses)
    BY HomesSum DEF Homes!Stake
  <2> HIDE DEF f
  <2>3. Homes!Stake(p) = 0
    BY <2>1, <2>2, SumZero, HousesAssumption
  <2>4. Owns(p) = Wallet /\ due[p] = 0 /\ earned[p] = 0 /\ strayed[p] = 0
    BY <1>1 DEF Owns, Homes!Init, Homes!Nothing
  <2> QED BY <2>3, <2>4, HousesAssumption DEF Books
<1>7. HousesKept
  BY <1>3, <1>5, <1>6, KeptIs
<1>8. Settled /\ BidHeld /\ Halfway /\ Reloads
  BY <1>1, <1>2 DEF Homes!Init, Settled, BidHeld, BidIsHeld, Halfway, Reloads
<1> QED BY <1>7, <1>8 DEF HouseInv

(* ... after every step of the houses, ...                                  *)
LEMMA HouseStep ==
    ASSUME HouseInv, HouseNext
    PROVE  HouseInv'
<1>1. CASE \E p \in Traders : Homes!Login(p) \/ Homes!Logout(p)
  BY <1>1, LoginKeeps
<1>2. CASE \E p \in Traders, h \in Houses, bid \in Bids : Homes!FirstBid(p, h, bid)
  BY <1>2, FirstBidKeeps
<1>3. CASE \E p \in Traders, h \in Houses, bid \in Bids : Homes!ChangeBid(p, h, bid)
  BY <1>3, ChangeBidKeeps
<1>4. CASE \E p \in Traders, h \in Houses, bid \in Bids : Homes!LowerBid(p, h, bid)
  BY <1>4, LowerBidKeeps
<1>5. CASE \E p \in Traders, h \in Houses, bid \in Bids : Homes!Outbid(p, h, bid)
  BY <1>5, OutbidKeeps
<1>6. CASE \E p \in Traders, h \in Houses, bid \in Bids, q \in Traders, named \in BOOLEAN :
               Homes!Transfer(p, h, q, named, bid)
  BY <1>6, TransferKeeps
<1>7. CASE \E p \in Traders, h \in Houses : Homes!MoveOut(p, h) \/ Homes!CancelMoveOut(p, h)
  BY <1>7, MoveOutKeeps
<1>8. CASE \E p \in Traders, h \in Houses : Homes!AcceptTransfer(p, h)
  BY <1>8, AcceptTransferKeeps
<1>9. CASE \E p \in Traders, h \in Houses : Homes!CancelTransfer(p, h) \/ Homes!RejectTransfer(p, h)
  BY <1>9, EndTransferKeeps
<1>10. CASE \E last \in BOOLEAN : Homes!SavePlayers(last)
  BY <1>10, SavePlayersKeeps
<1>11. CASE Homes!FinishSave
  BY <1>11, FinishSaveKeeps
<1>12. CASE Homes!Crash
  BY <1>12, CrashKeeps
<1>13. CASE \E h \in Houses : Homes!PayWinner(h)
  BY <1>13, PayWinnerKeeps
<1>14. CASE \E h \in Houses : Homes!EndAuction(h)
  BY <1>14, EndAuctionKeeps
<1>15. CASE \E h \in Houses : Homes!CompleteTransfer(h)
  BY <1>15, CompleteTransferKeeps
<1>16. CASE \E h \in Houses : Homes!PayFormerOwner(h)
  BY <1>16, PayFormerOwnerKeeps
<1>17. CASE \E h \in Houses : Homes!CompleteMoveOut(h)
  BY <1>17, CompleteMoveOutKeeps
<1>18. CASE \E h \in Houses : Homes!LoadAsIs(h)
  BY <1>18, LoadAsIsKeeps
<1>19. CASE \E h \in Houses : Homes!ResetInactive(h)
  BY <1>19, ResetInactiveKeeps
<1>20. CASE Homes!GoUp
  BY <1>20, GoUpKeeps
<1> QED BY <1>1, <1>2, <1>3, <1>4, <1>5, <1>6, <1>7, <1>8, <1>9, <1>10, <1>11, <1>12,
           <1>13, <1>14, <1>15, <1>16, <1>17, <1>18, <1>19, <1>20 DEF HouseNext

(* ... and after every other.                                               *)
LEMMA HouseUnchanged ==
    ASSUME HouseInv, UNCHANGED houseVars
    PROVE  HouseInv'
<1>1. UNCHANGED <<phase, house, rows, loaded, moved, half, due, present, bank, saved, earned,
                  strayed, reset, stale, torn, demands, stops>>
  BY DEF houseVars
<1>2. Homes!TypeOK'
  BY <1>1, HouseTyped DEF Homes!TypeOK
<1>3. HousesKept'
  BY <1>1, <1>2, NothingHappens DEF HouseInv, Homes!Now, Owns
<1> QED BY <1>1, <1>3 DEF HouseInv, Settled, BidHeld, Halfway, Reloads, Told

(* A bid, and an accepted transfer, holds the money of who made it, and it  *)
(* comes back in full unless it buys the house, over saves, restarts and    *)
(* crashes between the two writes of a load: nothing strays but what the    *)
(* ledger says.  The state of a house agrees with its owner and with who    *)
(* waits for it.                                                            *)
THEOREM HousesAreKept == MCSpec => []HousesKept
<1>1. MCInit => HouseInv
  BY HouseStarts
<1>2. HouseInv /\ [MCNext]_<<game, moneyVars, vars, marketVars, partyVars, houseVars>> => HouseInv'
  <2>1. CASE HouseInv /\ HouseNext
    BY <2>1, HouseStep
  <2>2. CASE HouseInv /\ (MoneyNext \/ TradeNext \/ MarketNext \/ PartyNext)
    <3>1. UNCHANGED houseVars
      BY <2>2 DEF MoneyNext, TradeNext, MarketNext, PartyNext, Pays, Trades, Offers, Meets
    <3> QED BY <2>2, <3>1, HouseUnchanged
  <2> QED BY <2>1, <2>2, HouseUnchanged DEF MCNext
<1>3. HouseInv => HousesKept
  BY DEF HouseInv
<1> QED BY <1>1, <1>2, <1>3, PTL DEF MCSpec

-----------------------------------------------------------------------------
(* What a query for old offers has found agrees with the offers, where they *)
(* are still listed, in all but what is left of them.                       *)
Snapshots == UNION {[D -> Stall!Rows] : D \in SUBSET Stall!Ids}

Recalls(found, offers, n) ==
    /\ DOMAIN found \subseteq 1..n
    /\ \A i \in DOMAIN found \cap DOMAIN offers :
          /\ found[i].owner = offers[i].owner
          /\ found[i].price = offers[i].price
          /\ found[i].sale = offers[i].sale

FoundAgrees ==
    /\ results \in Seq(Snapshots)
    /\ \A k \in 1..Len(results) : Recalls(results[k], market_offers, made)

MarketInv == MarketKept /\ FoundAgrees

Sum(f) == SumFunctionOnSet(f, DOMAIN f)
MoneyOf(table) == [i \in DOMAIN table |-> Stall!MoneyIn(table[i])]
GoodsOf(table) == [i \in DOMAIN table |-> Stall!GoodsIn(table[i])]

-----------------------------------------------------------------------------
(* The instance of Market has the library's operators under its own name.   *)
LEMMA StallSum ==
    ASSUME NEW f
    PROVE  Stall!SumFunction(f) = Sum(f)
  BY DEF Stall!SumFunction, Stall!SumFunctionOnSet, Stall!FoldFunctionOnSet,
     Stall!MapThenFoldSet, Sum, SumFunctionOnSet, FoldFunctionOnSet, MapThenFoldSet

(* So it does for this one.                                                 *)
LEMMA StallCardinality ==
    ASSUME NEW S
    PROVE  Stall!Cardinality(S) = Cardinality(S)
  BY DEF Stall!Cardinality, Cardinality

(* Money and goods in the books are sums over traders and offers.           *)
LEMMA StallIs ==
    /\ Stall!MoneyThere = Sum(funds) + fees + Sum(MoneyOf(market_offers))
    /\ Stall!GoodsThere = Sum(stash) + Sum(locker) + forfeited + Sum(GoodsOf(market_offers))
    /\ Stall!MoneyThere' = Sum(funds') + fees' + Sum(MoneyOf(market_offers'))
    /\ Stall!GoodsThere' = Sum(stash') + Sum(locker') + forfeited' + Sum(GoodsOf(market_offers'))
<1>1. Stall!MoneyThere = Sum(funds) + fees + Sum(MoneyOf(market_offers))
  BY StallSum DEF Stall!MoneyThere, Stall!Listed, MoneyOf
<1>2. Stall!GoodsThere = Sum(stash) + Sum(locker) + forfeited + Sum(GoodsOf(market_offers))
  BY StallSum DEF Stall!GoodsThere, Stall!Listed, GoodsOf
<1>3. Stall!MoneyThere' = Sum(funds') + fees' + Sum(MoneyOf(market_offers'))
  BY StallSum DEF Stall!MoneyThere, Stall!Listed, MoneyOf
<1>4. Stall!GoodsThere' = Sum(stash') + Sum(locker') + forfeited' + Sum(GoodsOf(market_offers'))
  BY StallSum DEF Stall!GoodsThere, Stall!Listed, GoodsOf
<1> QED BY <1>1, <1>2, <1>3, <1>4

(* Prices times amounts.                                                    *)
LEMMA Times ==
    /\ \A n, m \in Nat : n * m \in Nat
    /\ \A n, m, k \in Nat : n * (m - k) = n * m - n * k
  OBVIOUS

(* An offer holds naturals.                                                 *)
LEMMA Worth ==
    ASSUME NEW o \in Stall!Rows
    PROVE  /\ Stall!MoneyIn(o) \in Nat /\ Stall!GoodsIn(o) \in Nat
           /\ o.price \in Nat /\ o.amount \in Nat /\ o.owner \in Traders /\ o.sale \in BOOLEAN
<1>1. o.price \in Nat /\ o.amount \in Nat /\ o.owner \in Traders /\ o.sale \in BOOLEAN
  BY MarketAssumption DEF Stall!Rows
<1>2. o.price * o.amount \in Nat
  BY <1>1, Times
<1> QED BY <1>1, <1>2 DEF Stall!MoneyIn, Stall!GoodsIn

(* The sums of what traders have.                                           *)
LEMMA SumTyped ==
    ASSUME NEW S, IsFiniteSet(S), NEW f \in [S -> Int]
    PROVE  Sum(f) \in Int
  BY SumType DEF Sum, Integral

(* A sum changes by what one of its terms does.                             *)
LEMMA SumEdited ==
    ASSUME NEW S, IsFiniteSet(S), NEW f \in [S -> Int], NEW a \in S, NEW v \in Int
    PROVE  Sum([f EXCEPT ![a] = v]) = Sum(f) + (v - f[a])
<1> DEFINE g == [f EXCEPT ![a] = v]
<1>1. Integral(f, S) /\ g[a] = v /\ DOMAIN g = S /\ DOMAIN f = S
      /\ \A y \in S \ {a} : g[y] = f[y]
  BY DEF Integral
<1> HIDE DEF g
<1>2. SumFunctionOnSet(g, S) = SumFunctionOnSet(f, S) + (g[a] - f[a])
  BY <1>1, SumChanged
<1> QED BY <1>1, <1>2 DEF Sum, g

(* What a trader gets is what the sum grows by, ...                         *)
LEMMA Plus ==
    ASSUME NEW f \in [Traders -> Nat], NEW a \in Traders, NEW n \in Nat
    PROVE  /\ Stall!Plus(f, a, n) \in [Traders -> Nat]
           /\ Sum(Stall!Plus(f, a, n)) = Sum(f) + n
<1>1. Stall!Plus(f, a, n) = [f EXCEPT ![a] = f[a] + n]
  BY DEF Stall!Plus
<1>2. f[a] + n \in Nat /\ f[a] \in Int /\ f \in [Traders -> Int]
  OBVIOUS
<1>3. Sum([f EXCEPT ![a] = f[a] + n]) = Sum(f) + ((f[a] + n) - f[a])
  <2> DEFINE v == f[a] + n
  <2>1. v \in Int
    BY <1>2
  <2> HIDE DEF v
  <2>2. Sum([f EXCEPT ![a] = v]) = Sum(f) + (v - f[a])
    BY <1>2, <2>1, SumEdited, MarketAssumption
  <2> QED BY <2>2 DEF v
<1>4. Sum(f) \in Int
  BY <1>2, SumTyped, MarketAssumption
<1> QED BY <1>1, <1>2, <1>3, <1>4

(* ... what he pays is what it shrinks by, ...                              *)
LEMMA Minus ==
    ASSUME NEW f \in [Traders -> Nat], NEW a \in Traders, NEW n \in Nat, n <= f[a]
    PROVE  /\ Stall!Minus(f, a, n) \in [Traders -> Nat]
           /\ Sum(Stall!Minus(f, a, n)) = Sum(f) - n
<1>1. Stall!Minus(f, a, n) = [f EXCEPT ![a] = f[a] - n]
  BY DEF Stall!Minus
<1>2. f[a] - n \in Nat /\ f[a] \in Int /\ f \in [Traders -> Int]
  OBVIOUS
<1>3. Sum([f EXCEPT ![a] = f[a] - n]) = Sum(f) + ((f[a] - n) - f[a])
  <2> DEFINE v == f[a] - n
  <2>1. v \in Int
    BY <1>2
  <2> HIDE DEF v
  <2>2. Sum([f EXCEPT ![a] = v]) = Sum(f) + (v - f[a])
    BY <1>2, <2>1, SumEdited, MarketAssumption
  <2> QED BY <2>2 DEF v
<1>4. Sum(f) \in Int
  BY <1>2, SumTyped, MarketAssumption
<1> QED BY <1>1, <1>2, <1>3, <1>4

(* removeOfferItems takes all it is asked for, or all there is.             *)
LEMMA LeastIs ==
    ASSUME NEW n \in Nat, NEW m \in Nat
    PROVE  Stall!Least(n, m) = IF n <= m THEN n ELSE m
<1>1. \A k \in {n, m} : (\A j \in {n, m} : k <= j) => k = IF n <= m THEN n ELSE m
  OBVIOUS
<1>2. \E k \in {n, m} : \A j \in {n, m} : k <= j
  OBVIOUS
<1> QED BY <1>1, <1>2 DEF Stall!Least, Stall!Min

(* ... and goods are taken from the stash and the locker, together enough.  *)
LEMMA Taken ==
    ASSUME Stall!TypeOK, NEW a \in Traders, NEW amount \in Nat
    PROVE  /\ Stall!FromStash(a, amount) \in Nat /\ Stall!FromStash(a, amount) <= stash[a]
           /\ Stall!FromLocker(a, amount) \in Nat /\ Stall!FromLocker(a, amount) <= locker[a]
           /\ Stall!Has(a, amount) =>
                 Stall!FromStash(a, amount) + Stall!FromLocker(a, amount) = amount
<1>1. stash[a] \in Nat /\ locker[a] \in Nat
  BY DEF Stall!TypeOK
<1>2. Stall!FromStash(a, amount) = IF stash[a] <= amount THEN stash[a] ELSE amount
  BY <1>1, LeastIs DEF Stall!FromStash
<1>3. amount - Stall!FromStash(a, amount) \in Nat
  BY <1>1, <1>2
<1>4. Stall!FromLocker(a, amount) = IF locker[a] <= amount - Stall!FromStash(a, amount)
                                    THEN locker[a] ELSE amount - Stall!FromStash(a, amount)
  BY <1>1, <1>3, LeastIs DEF Stall!FromLocker
<1> QED BY <1>1, <1>2, <1>3, <1>4 DEF Stall!Has

-----------------------------------------------------------------------------
(* The sums of what offers hold.                                            *)
LEMMA ListedFinite ==
    ASSUME Stall!TypeOK
    PROVE  /\ IsFiniteSet(DOMAIN market_offers) /\ DOMAIN market_offers \subseteq 1..made
           /\ market_offers \in [DOMAIN market_offers -> Stall!Rows]
           /\ \A i \in DOMAIN market_offers : market_offers[i].amount > 0
           /\ made \in Nat /\ 1..made \subseteq Stall!Ids
<1>1. made \in Nat /\ made <= MaxOffers /\ DOMAIN market_offers \subseteq 1..made
  BY MarketAssumption DEF Stall!TypeOK, Stall!Listed
<1>2. IsFiniteSet(DOMAIN market_offers)
  BY <1>1, FS_Interval, FS_Subset
<1>3. 1..made \subseteq Stall!Ids
  BY <1>1, MarketAssumption DEF Stall!Ids
<1> QED BY <1>1, <1>2, <1>3 DEF Stall!TypeOK, Stall!Listed

(* What a table of offers holds, ...                                        *)
LEMMA HeldTyped ==
    ASSUME NEW D, IsFiniteSet(D), NEW table \in [D -> Stall!Rows]
    PROVE  /\ DOMAIN table = D
           /\ MoneyOf(table) \in [D -> Nat] /\ GoodsOf(table) \in [D -> Nat]
           /\ Integral(MoneyOf(table), D) /\ Integral(GoodsOf(table), D)
           /\ Sum(MoneyOf(table)) \in Int /\ Sum(GoodsOf(table)) \in Int
           /\ Sum(MoneyOf(table)) = SumFunctionOnSet(MoneyOf(table), D)
           /\ Sum(GoodsOf(table)) = SumFunctionOnSet(GoodsOf(table), D)
<1>1. MoneyOf(table) \in [D -> Nat] /\ GoodsOf(table) \in [D -> Nat]
  BY Worth DEF MoneyOf, GoodsOf
<1>2. Integral(MoneyOf(table), D) /\ Integral(GoodsOf(table), D)
  BY <1>1 DEF Integral
<1> QED BY <1>1, <1>2, SumType DEF Sum

(* ... with one more, ...                                                   *)
LEMMA HeldAdded ==
    ASSUME NEW D, IsFiniteSet(D), NEW table \in [D -> Stall!Rows], NEW i, i \notin D,
           NEW more \in [D \cup {i} -> Stall!Rows], \A k \in D : more[k] = table[k]
    PROVE  /\ Sum(MoneyOf(more)) = Sum(MoneyOf(table)) + Stall!MoneyIn(more[i])
           /\ Sum(GoodsOf(more)) = Sum(GoodsOf(table)) + Stall!GoodsIn(more[i])
<1>1. IsFiniteSet(D \cup {i})
  BY FS_AddElement
<1>2. \A k \in D : MoneyOf(more)[k] = MoneyOf(table)[k] /\ GoodsOf(more)[k] = GoodsOf(table)[k]
  BY DEF MoneyOf, GoodsOf
<1>3. MoneyOf(more)[i] = Stall!MoneyIn(more[i]) /\ GoodsOf(more)[i] = Stall!GoodsIn(more[i])
  BY DEF MoneyOf, GoodsOf
<1>4. /\ SumFunctionOnSet(MoneyOf(more), D \cup {i})
           = MoneyOf(more)[i] + SumFunctionOnSet(MoneyOf(more), D)
      /\ SumFunctionOnSet(GoodsOf(more), D \cup {i})
           = GoodsOf(more)[i] + SumFunctionOnSet(GoodsOf(more), D)
  BY <1>1, HeldTyped, SumAdd
<1>5. /\ SumFunctionOnSet(MoneyOf(more), D) = SumFunctionOnSet(MoneyOf(table), D)
      /\ SumFunctionOnSet(GoodsOf(more), D) = SumFunctionOnSet(GoodsOf(table), D)
  BY <1>2, HeldTyped, SumEqual
<1>6. Stall!MoneyIn(more[i]) \in Int /\ Stall!GoodsIn(more[i]) \in Int
  BY Worth
<1> QED BY <1>1, <1>3, <1>4, <1>5, <1>6, HeldTyped

(* ... without some of them, ...                                            *)
LEMMA HeldTaken ==
    ASSUME NEW D, IsFiniteSet(D), NEW table \in [D -> Stall!Rows], NEW T \in SUBSET D,
           NEW less \in [D \ T -> Stall!Rows], \A k \in D \ T : less[k] = table[k]
    PROVE  /\ Sum(MoneyOf(less)) = Sum(MoneyOf(table)) - SumFunctionOnSet(MoneyOf(table), T)
           /\ Sum(GoodsOf(less)) = Sum(GoodsOf(table)) - SumFunctionOnSet(GoodsOf(table), T)
           /\ SumFunctionOnSet(MoneyOf(table), T) \in Int
           /\ SumFunctionOnSet(GoodsOf(table), T) \in Int
<1>1. IsFiniteSet(D \ T) /\ IsFiniteSet(T)
  BY FS_Subset
<1>2. \A k \in D \ T : MoneyOf(less)[k] = MoneyOf(table)[k] /\ GoodsOf(less)[k] = GoodsOf(table)[k]
  BY DEF MoneyOf, GoodsOf
<1>3. \A U \in SUBSET D : Integral(MoneyOf(table), U) /\ Integral(GoodsOf(table), U)
  BY HeldTyped DEF Integral
<1>4. /\ SumFunctionOnSet(MoneyOf(less), D \ T) = SumFunctionOnSet(MoneyOf(table), D \ T)
      /\ SumFunctionOnSet(GoodsOf(less), D \ T) = SumFunctionOnSet(GoodsOf(table), D \ T)
  BY <1>1, <1>2, <1>3, SumEqual
<1>5. /\ Sum(MoneyOf(table)) = SumFunctionOnSet(MoneyOf(table), T)
                               + SumFunctionOnSet(MoneyOf(table), D \ T)
      /\ Sum(GoodsOf(table)) = SumFunctionOnSet(GoodsOf(table), T)
                               + SumFunctionOnSet(GoodsOf(table), D \ T)
  BY HeldTyped, SumSplit
<1>6. /\ SumFunctionOnSet(MoneyOf(table), T) \in Int
      /\ SumFunctionOnSet(GoodsOf(table), T) \in Int
      /\ SumFunctionOnSet(MoneyOf(table), D \ T) \in Int
      /\ SumFunctionOnSet(GoodsOf(table), D \ T) \in Int
  BY <1>1, <1>3, SumType
<1>7. /\ Sum(MoneyOf(less)) = SumFunctionOnSet(MoneyOf(less), D \ T)
      /\ Sum(GoodsOf(less)) = SumFunctionOnSet(GoodsOf(less), D \ T)
  BY <1>1, HeldTyped
<1> QED BY <1>4, <1>5, <1>6, <1>7

(* ... and with one of them edited.                                         *)
LEMMA HeldEdited ==
    ASSUME NEW D, IsFiniteSet(D), NEW table \in [D -> Stall!Rows], NEW i \in D,
           NEW o \in Stall!Rows
    PROVE  /\ Sum(MoneyOf([table EXCEPT ![i] = o]))
                = Sum(MoneyOf(table)) + (Stall!MoneyIn(o) - Stall!MoneyIn(table[i]))
           /\ Sum(GoodsOf([table EXCEPT ![i] = o]))
                = Sum(GoodsOf(table)) + (Stall!GoodsIn(o) - Stall!GoodsIn(table[i]))
<1>1. /\ MoneyOf([table EXCEPT ![i] = o]) = [MoneyOf(table) EXCEPT ![i] = Stall!MoneyIn(o)]
      /\ GoodsOf([table EXCEPT ![i] = o]) = [GoodsOf(table) EXCEPT ![i] = Stall!GoodsIn(o)]
  BY DEF MoneyOf, GoodsOf
<1>2. /\ MoneyOf(table)[i] = Stall!MoneyIn(table[i])
      /\ GoodsOf(table)[i] = Stall!GoodsIn(table[i])
      /\ Stall!MoneyIn(o) \in Int /\ Stall!GoodsIn(o) \in Int
  BY Worth DEF MoneyOf, GoodsOf
<1>3. MoneyOf(table) \in [D -> Int] /\ GoodsOf(table) \in [D -> Int]
  BY Worth DEF MoneyOf, GoodsOf
<1>4. Sum([MoneyOf(table) EXCEPT ![i] = Stall!MoneyIn(o)])
        = Sum(MoneyOf(table)) + (Stall!MoneyIn(o) - MoneyOf(table)[i])
  BY <1>2, <1>3, SumEdited
<1>5. Sum([GoodsOf(table) EXCEPT ![i] = Stall!GoodsIn(o)])
        = Sum(GoodsOf(table)) + (Stall!GoodsIn(o) - GoodsOf(table)[i])
  BY <1>2, <1>3, SumEdited
<1> QED BY <1>1, <1>2, <1>4, <1>5

(* What is returned to all owners is what the offers held.                  *)
LEMMA ReturnedSum ==
    ASSUME NEW f \in [Traders -> Nat], NEW ids, IsFiniteSet(ids),
           NEW table, \A i \in ids : table[i].owner \in Traders, NEW w \in [ids -> Nat],
           NEW g, g = [a \in Traders |-> f[a] + Stall!Returned(a, table, w)]
    PROVE  g \in [Traders -> Nat] /\ Sum(g) = Sum(f) + SumFunctionOnSet(w, ids)
<1> DEFINE owner == [i \in ids |-> table[i].owner]
           share == Shares(Traders, ids, owner, w)
<1>1. ASSUME NEW a \in Traders
      PROVE  Stall!Returned(a, table, w) = share[a] /\ share[a] \in Nat
  <2> DEFINE of == [i \in ids |-> IF owner[i] = a THEN w[i] ELSE 0]
  <2>1. Stall!Returned(a, table, w) = SumFunctionOnSet(of, ids)
    <3>1. DOMAIN w = ids /\ DOMAIN of = ids
      OBVIOUS
    <3>2. [i \in DOMAIN w |-> IF table[i].owner = a THEN w[i] ELSE 0] = of
      OBVIOUS
    <3> HIDE DEF of
    <3> QED BY <3>1, <3>2, StallSum DEF Stall!Returned, Sum
  <2>2. share[a] = SumFunctionOnSet(of, ids)
    BY DEF Shares
  <2>3. \A i \in ids : of[i] \in Nat
    OBVIOUS
  <2> HIDE DEF of, share
  <2>4. SumFunctionOnSet(of, ids) \in Nat
    BY <2>3, SumNatural
  <2> QED BY <2>1, <2>2, <2>4
<1>2. SumFunctionOnSet(share, Traders) = SumFunctionOnSet(w, ids)
  <2>1. Integral(w, ids) /\ \A i \in ids : owner[i] \in Traders
    BY DEF Integral
  <2> HIDE DEF owner
  <2> QED BY <2>1, SumGroups, MarketAssumption
<1> HIDE DEF share
<1>3. \A a \in Traders : g[a] = f[a] + share[a]
  BY <1>1
<1>4. Integral(f, Traders) /\ Integral(share, Traders) /\ DOMAIN f = Traders /\ DOMAIN g = Traders
  BY <1>1 DEF Integral
<1>5. SumFunctionOnSet(g, Traders) = SumFunctionOnSet(f, Traders) + SumFunctionOnSet(share, Traders)
  BY <1>3, <1>4, SumOfSums, MarketAssumption
<1>6. g \in [Traders -> Nat]
  BY <1>1
<1> QED BY <1>2, <1>4, <1>5, <1>6 DEF Sum

(* ... in money and in goods.                                               *)
LEMMA GivenBack ==
    ASSUME Stall!TypeOK, NEW D, IsFiniteSet(D), NEW table \in [D -> Stall!Rows], NEW ids \in SUBSET D,
           Stall!GiveBack(table, ids)
    PROVE  /\ funds' \in [Traders -> Nat] /\ locker' \in [Traders -> Nat]
           /\ Sum(funds') = Sum(funds) + SumFunctionOnSet(MoneyOf(table), ids)
           /\ Sum(locker') = Sum(locker) + SumFunctionOnSet(GoodsOf(table), ids)
<1> DEFINE money == [i \in ids |-> Stall!MoneyIn(table[i])]
           goods == [i \in ids |-> Stall!GoodsIn(table[i])]
<1>1. /\ funds' = [a \in Traders |-> funds[a] + Stall!Returned(a, table, money)]
      /\ locker' = [a \in Traders |-> locker[a] + Stall!Returned(a, table, goods)]
  BY DEF Stall!GiveBack
<1>2. money \in [ids -> Nat] /\ goods \in [ids -> Nat]
  BY Worth
<1>3. \A i \in ids : money[i] = MoneyOf(table)[i] /\ goods[i] = GoodsOf(table)[i]
  BY DEF MoneyOf, GoodsOf
<1>4. IsFiniteSet(ids) /\ Integral(MoneyOf(table), ids) /\ Integral(GoodsOf(table), ids)
  BY HeldTyped, FS_Subset DEF Integral
<1> HIDE DEF money, goods
<1>5. /\ SumFunctionOnSet(money, ids) = SumFunctionOnSet(MoneyOf(table), ids)
      /\ SumFunctionOnSet(goods, ids) = SumFunctionOnSet(GoodsOf(table), ids)
  BY <1>3, <1>4, SumEqual
<1>6. \A i \in ids : table[i].owner \in Traders
  BY Worth
<1>7. funds \in [Traders -> Nat] /\ locker \in [Traders -> Nat]
  BY DEF Stall!TypeOK
<1>8. funds' \in [Traders -> Nat] /\ Sum(funds') = Sum(funds) + SumFunctionOnSet(money, ids)
  BY <1>1, <1>2, <1>4, <1>6, <1>7, ReturnedSum
<1>9. locker' \in [Traders -> Nat] /\ Sum(locker') = Sum(locker) + SumFunctionOnSet(goods, ids)
  BY <1>1, <1>2, <1>4, <1>6, <1>7, ReturnedSum
<1> QED BY <1>5, <1>8, <1>9

-----------------------------------------------------------------------------
(* What the actions do to the table: offers only lose some of what they     *)
(* hold, or go.                                                             *)
Shrinks(table) ==
    /\ DOMAIN table \subseteq DOMAIN market_offers
    /\ table \in [DOMAIN table -> Stall!Rows]
    /\ \A i \in DOMAIN table :
          /\ table[i].amount > 0
          /\ table[i].owner = market_offers[i].owner
          /\ table[i].price = market_offers[i].price
          /\ table[i].sale = market_offers[i].sale

(* What a query has found still agrees when offers only shrink.             *)
LEMMA FoundStays ==
    ASSUME MarketInv, Shrinks(market_offers'), made' = made,
           results' = results \/ (results # <<>> /\ results' = Tail(results))
    PROVE  FoundAgrees' /\ Len(results') <= MaxResults
<1>1. results \in Seq(Snapshots) /\ Len(results) <= MaxResults
  BY DEF MarketInv, MarketKept, Stall!TypeOK, FoundAgrees
<1>2. results' \in Seq(Snapshots) /\ Len(results') <= Len(results)
      /\ \A k \in 1..Len(results') : \E j \in 1..Len(results) : results'[k] = results[j]
  <2>1. CASE results' = results
    BY <1>1, <2>1
  <2>2. CASE results # <<>> /\ results' = Tail(results)
    <3>1. /\ Tail(results) \in Seq(Snapshots) /\ Len(Tail(results)) = Len(results) - 1
          /\ \A k \in 1..Len(Tail(results)) : Tail(results)[k] = results[k + 1]
      BY <1>1, <2>2
    <3>2. Len(results) \in Nat
      BY <1>1
    <3> DEFINE t == Tail(results)
    <3>3. \A k \in 1..Len(t) : k + 1 \in 1..Len(results)
      BY <3>1, <3>2
    <3>4. Len(t) <= Len(results)
      BY <3>1, <3>2
    <3>5. t \in Seq(Snapshots) /\ \A k \in 1..Len(t) : \E j \in 1..Len(results) : t[k] = results[j]
      BY <3>1, <3>3
    <3>6. results' = t
      BY <2>2
    <3> HIDE DEF t
    <3> QED BY <3>4, <3>5, <3>6
  <2> QED BY <2>1, <2>2
<1>3. ASSUME NEW found, Recalls(found, market_offers, made)
      PROVE  Recalls(found, market_offers', made')
  BY <1>3 DEF Recalls, Shrinks
<1>4. \A k \in 1..Len(results') : Recalls(results'[k], market_offers', made')
  BY <1>2, <1>3 DEF MarketInv, FoundAgrees
<1>5. Len(results') <= MaxResults
  BY <1>1, <1>2, MarketAssumption
<1> QED BY <1>2, <1>4, <1>5 DEF FoundAgrees

(* They do when nothing happens to them ...                                 *)
LEMMA SameShrinks ==
    ASSUME Stall!TypeOK
    PROVE  Shrinks(market_offers)
  BY ListedFinite DEF Shrinks

(* ... and when some are taken off the list, ...                            *)
LEMMA WithoutShrinks ==
    ASSUME Stall!TypeOK, NEW ids
    PROVE  /\ Shrinks(Stall!Without(ids))
           /\ DOMAIN Stall!Without(ids) = DOMAIN market_offers \ ids
           /\ Stall!Without(ids) \in [DOMAIN market_offers \ ids -> Stall!Rows]
           /\ \A i \in DOMAIN market_offers \ ids : Stall!Without(ids)[i] = market_offers[i]
  BY ListedFinite DEF Shrinks, Stall!Without, Stall!Restrict, Stall!Listed

(* ... which takes off the books just what these held.                      *)
LEMMA HeldWithout ==
    ASSUME Stall!TypeOK, NEW ids \in SUBSET DOMAIN market_offers
    PROVE  /\ Sum(MoneyOf(Stall!Without(ids)))
                = Sum(MoneyOf(market_offers)) - SumFunctionOnSet(MoneyOf(market_offers), ids)
           /\ Sum(GoodsOf(Stall!Without(ids)))
                = Sum(GoodsOf(market_offers)) - SumFunctionOnSet(GoodsOf(market_offers), ids)
           /\ SumFunctionOnSet(MoneyOf(market_offers), ids) \in Int
           /\ SumFunctionOnSet(GoodsOf(market_offers), ids) \in Int
<1> DEFINE D == DOMAIN market_offers
           table == Stall!Without(ids)
<1>1. IsFiniteSet(D) /\ market_offers \in [D -> Stall!Rows] /\ ids \in SUBSET D
  BY ListedFinite
<1>2. table \in [D \ ids -> Stall!Rows] /\ \A k \in D \ ids : table[k] = market_offers[k]
  BY WithoutShrinks
<1> HIDE DEF D, table
<1>3. /\ Sum(MoneyOf(table)) = Sum(MoneyOf(market_offers)) - SumFunctionOnSet(MoneyOf(market_offers), ids)
      /\ Sum(GoodsOf(table)) = Sum(GoodsOf(market_offers)) - SumFunctionOnSet(GoodsOf(market_offers), ids)
      /\ SumFunctionOnSet(MoneyOf(market_offers), ids) \in Int
      /\ SumFunctionOnSet(GoodsOf(market_offers), ids) \in Int
  BY <1>1, <1>2, HeldTaken
<1> QED BY <1>3 DEF table

(* acceptOffer: what is accepted is taken off.                              *)
LEMMA RemainingIs ==
    ASSUME Stall!TypeOK, NEW i \in DOMAIN market_offers, NEW amount \in Nat \ {0},
           amount <= market_offers[i].amount
    PROVE  /\ Shrinks(Stall!Remaining(i, amount))
           /\ Sum(MoneyOf(Stall!Remaining(i, amount))) = Sum(MoneyOf(market_offers))
                - IF market_offers[i].sale THEN 0 ELSE market_offers[i].price * amount
           /\ Sum(GoodsOf(Stall!Remaining(i, amount))) = Sum(GoodsOf(market_offers))
                - IF market_offers[i].sale THEN amount ELSE 0
<1> DEFINE D == DOMAIN market_offers
           o == market_offers[i]
<1>1. IsFiniteSet(D) /\ market_offers \in [D -> Stall!Rows] /\ \A k \in D : market_offers[k].amount > 0
  BY ListedFinite
<1>2. /\ o \in Stall!Rows /\ o.price \in Nat /\ o.amount \in Nat /\ o.sale \in BOOLEAN
      /\ Stall!MoneyIn(o) \in Int /\ Stall!GoodsIn(o) \in Int
  BY <1>1, Worth
<1>3. Sum(MoneyOf(market_offers)) \in Int /\ Sum(GoodsOf(market_offers)) \in Int
  BY <1>1, HeldTyped
<1>4. CASE o.amount = amount
  <2> DEFINE table == Stall!Without({i})
  <2>1. Stall!Remaining(i, amount) = table
    BY <1>4 DEF Stall!Remaining
  <2>2. Shrinks(table)
    BY WithoutShrinks
  <2>3. /\ Sum(MoneyOf(table)) = Sum(MoneyOf(market_offers)) - SumFunctionOnSet(MoneyOf(market_offers), {i})
        /\ Sum(GoodsOf(table)) = Sum(GoodsOf(market_offers)) - SumFunctionOnSet(GoodsOf(market_offers), {i})
    <3>1. {i} \in SUBSET DOMAIN market_offers
      OBVIOUS
    <3> QED BY <3>1, HeldWithout
  <2> HIDE DEF table
  <2>4. /\ SumFunctionOnSet(MoneyOf(market_offers), {i}) = Stall!MoneyIn(o)
        /\ SumFunctionOnSet(GoodsOf(market_offers), {i}) = Stall!GoodsIn(o)
    <3>1. IsFiniteSet({i}) /\ {i} \ {i} = {} /\ i \in {i}
      BY FS_Singleton
    <3>2. MoneyOf(market_offers)[i] = Stall!MoneyIn(o) /\ GoodsOf(market_offers)[i] = Stall!GoodsIn(o)
      BY DEF MoneyOf, GoodsOf
    <3>3. Integral(MoneyOf(market_offers), {i}) /\ Integral(GoodsOf(market_offers), {i})
      BY <1>2, <3>2 DEF Integral
    <3>4. /\ SumFunctionOnSet(MoneyOf(market_offers), {i}) = Stall!MoneyIn(o) + SumFunctionOnSet(MoneyOf(market_offers), {})
          /\ SumFunctionOnSet(GoodsOf(market_offers), {i}) = Stall!GoodsIn(o) + SumFunctionOnSet(GoodsOf(market_offers), {})
      BY <3>1, <3>2, <3>3, SumRemove
    <3> QED BY <1>2, <3>4, SumEmpty
  <2> QED BY <1>4, <2>1, <2>2, <2>3, <2>4 DEF Stall!MoneyIn, Stall!GoodsIn
<1>5. CASE o.amount # amount
  <2> DEFINE left == [o EXCEPT !.amount = o.amount - amount]
             table == [market_offers EXCEPT ![i] = left]
  <2>1. Stall!Remaining(i, amount) = table
    BY <1>5 DEF Stall!Remaining
  <2>2. o.amount - amount \in Nat /\ o.amount - amount > 0
    BY <1>2, <1>5
  <2>3. /\ left \in Stall!Rows /\ left.amount = o.amount - amount /\ left.price = o.price
        /\ left.sale = o.sale /\ left.owner = o.owner
    BY <1>2, <2>2 DEF Stall!Rows
  <2> HIDE DEF left
  <2>4. Shrinks(table)
    BY <1>1, <2>2, <2>3 DEF Shrinks
  <2>5. /\ Sum(MoneyOf(table)) = Sum(MoneyOf(market_offers)) + (Stall!MoneyIn(left) - Stall!MoneyIn(o))
        /\ Sum(GoodsOf(table)) = Sum(GoodsOf(market_offers)) + (Stall!GoodsIn(left) - Stall!GoodsIn(o))
    BY <1>1, <2>3, HeldEdited
  <2>6. o.price * (o.amount - amount) = o.price * o.amount - o.price * amount
        /\ o.price * o.amount \in Nat /\ o.price * amount \in Nat
    BY <1>2, Times
  <2>7. Stall!MoneyIn(left) = Stall!MoneyIn(o) - IF o.sale THEN 0 ELSE o.price * amount
    BY <2>3, <2>6 DEF Stall!MoneyIn
  <2>8. Stall!GoodsIn(left) = Stall!GoodsIn(o) - IF o.sale THEN amount ELSE 0
    BY <1>2, <2>3 DEF Stall!GoodsIn
  <2> HIDE DEF o, table
  <2>9. Sum(MoneyOf(table)) = Sum(MoneyOf(market_offers)) - IF o.sale THEN 0 ELSE o.price * amount
    BY <1>2, <1>3, <2>5, <2>6, <2>7
  <2>10. Sum(GoodsOf(table)) = Sum(GoodsOf(market_offers)) - IF o.sale THEN amount ELSE 0
    BY <1>2, <1>3, <2>5, <2>8
  <2> QED BY <2>1, <2>4, <2>9, <2>10 DEF o
<1> QED BY <1>4, <1>5

-----------------------------------------------------------------------------
(* What a step has to keep.                                                 *)
Balanced ==
    /\ Stall!MoneyThere' = Stall!MoneyThere
    /\ Stall!GoodsThere' = Stall!GoodsThere

(* A step keeps the invariant when it leaves the books balanced.            *)
LEMMA MarketStepKeeps ==
    ASSUME MarketInv, Stall!TypeOK', FoundAgrees', errors' = 0 => errors = 0,
           outdated => outdated', errors' # 0 \/ outdated' \/ Balanced
    PROVE  MarketInv'
  BY DEF MarketInv, MarketKept, Stall!MarketKept, Stall!MarketConserves, Balanced

(* What the invariant says of types, before the step ...                    *)
LEMMA MarketTyped ==
    ASSUME MarketInv
    PROVE  /\ Stall!TypeOK /\ IsFiniteSet(Traders)
           /\ funds \in [Traders -> Nat] /\ stash \in [Traders -> Nat]
           /\ locker \in [Traders -> Nat]
           /\ fees \in Nat /\ forfeited \in Nat /\ outdated \in BOOLEAN
           /\ errors \in Nat /\ errors <= MaxErrors /\ made \in Nat /\ made <= MaxOffers
           /\ Sum(funds) \in Int /\ Sum(stash) \in Int /\ Sum(locker) \in Int
           /\ Sum(MoneyOf(market_offers)) \in Int /\ Sum(GoodsOf(market_offers)) \in Int
<1>1. Stall!TypeOK
  BY DEF MarketInv, MarketKept
<1>2. funds \in [Traders -> Int] /\ stash \in [Traders -> Int] /\ locker \in [Traders -> Int]
  BY <1>1 DEF Stall!TypeOK
<1>3. Sum(funds) \in Int /\ Sum(stash) \in Int /\ Sum(locker) \in Int
  BY <1>2, SumTyped, MarketAssumption
<1>4. Sum(MoneyOf(market_offers)) \in Int /\ Sum(GoodsOf(market_offers)) \in Int
  BY <1>1, ListedFinite, HeldTyped
<1> QED BY <1>1, <1>3, <1>4, MarketAssumption DEF Stall!TypeOK

(* Whether the row is written or not.                                       *)
LEMMA Written ==
    ASSUME MarketInv, NEW table, Stall!Writes(table), Shrinks(table), UNCHANGED <<results, made>>
    PROVE  /\ Shrinks(market_offers') /\ FoundAgrees' /\ Len(results') <= MaxResults
           /\ errors' \in 0..MaxErrors /\ (errors' = 0 => errors = 0 /\ market_offers' = table)
<1>1. Stall!TypeOK /\ errors \in Nat /\ errors <= MaxErrors
  BY MarketTyped
<1>2. Shrinks(market_offers')
  <2>1. market_offers' \in {table, market_offers}
    BY DEF Stall!Writes
  <2> QED BY <1>1, <2>1, SameShrinks
<1>3. errors' \in 0..MaxErrors /\ (errors' = 0 => errors = 0 /\ market_offers' = table)
  BY <1>1, MarketAssumption DEF Stall!Writes
<1> QED BY <1>2, <1>3, FoundStays

(* ... and after it.                                                        *)
LEMMA TypedAgain ==
    ASSUME MarketInv, Shrinks(market_offers'), made' = made,
           funds' \in [Traders -> Nat], stash' \in [Traders -> Nat], locker' \in [Traders -> Nat],
           Len(results') <= MaxResults, errors' \in 0..MaxErrors,
           fees' \in Nat, forfeited' \in Nat, outdated' \in BOOLEAN
    PROVE  Stall!TypeOK'
<1>1. Stall!TypeOK
  BY MarketTyped
<1> QED BY <1>1 DEF Stall!TypeOK, Stall!Listed, Shrinks

-----------------------------------------------------------------------------
(* Somebody buys what is on sale, ...                                       *)
LEMMA AcceptSellKeeps ==
    ASSUME MarketInv, NEW a \in Traders, NEW i, NEW amount \in Quantities,
           Stall!AcceptOffer(a, i, amount), Stall!AcceptSell(a, i, amount)
    PROVE  MarketInv'
<1> DEFINE o == market_offers[i]
           total == o.price * amount
<1>1. /\ i \in DOMAIN market_offers /\ o.owner # a /\ amount <= o.amount /\ o.sale
      /\ total <= funds[a] /\ amount \in Nat \ {0}
      /\ funds' = Stall!Plus(Stall!Minus(funds, a, total), o.owner, total)
      /\ locker' = Stall!Plus(locker, a, amount)
      /\ Stall!Writes(Stall!Remaining(i, amount))
      /\ UNCHANGED <<stash, forfeited, results, made, fees, outdated>>
  BY MarketAssumption DEF Stall!AcceptOffer, Stall!AcceptSell, Stall!Listed
<1>2. o \in Stall!Rows /\ o.price \in Nat /\ o.owner \in Traders
  BY <1>1, MarketTyped, ListedFinite, Worth
<1>3. total \in Nat
  BY <1>1, <1>2, Times
<1> HIDE DEF total
<1>4. funds' \in [Traders -> Nat] /\ Sum(funds') = Sum(funds)
  <2> DEFINE rest == Stall!Minus(funds, a, total)
  <2>1. rest \in [Traders -> Nat] /\ Sum(rest) = Sum(funds) - total
    BY <1>1, <1>3, MarketTyped, Minus
  <2> HIDE DEF rest
  <2>2. Stall!Plus(rest, o.owner, total) \in [Traders -> Nat]
        /\ Sum(Stall!Plus(rest, o.owner, total)) = Sum(rest) + total
    BY <1>2, <1>3, <2>1, Plus
  <2>3. Sum(funds) \in Int
    BY MarketTyped
  <2> QED BY <1>1, <1>3, <2>1, <2>2, <2>3 DEF rest
<1>5. locker' \in [Traders -> Nat] /\ Sum(locker') = Sum(locker) + amount
  BY <1>1, MarketTyped, Plus
<1>6. /\ Shrinks(Stall!Remaining(i, amount))
      /\ Sum(MoneyOf(Stall!Remaining(i, amount))) = Sum(MoneyOf(market_offers)) - 0
      /\ Sum(GoodsOf(Stall!Remaining(i, amount))) = Sum(GoodsOf(market_offers)) - amount
  BY <1>1, MarketTyped, RemainingIs
<1>7. /\ Shrinks(market_offers') /\ FoundAgrees' /\ Len(results') <= MaxResults
      /\ errors' \in 0..MaxErrors
      /\ errors' = 0 => errors = 0 /\ market_offers' = Stall!Remaining(i, amount)
  BY <1>1, <1>6, Written
<1>8. Stall!TypeOK'
  BY <1>1, <1>4, <1>5, <1>7, MarketTyped, TypedAgain
<1>9. errors' # 0 \/ Balanced
  <2> SUFFICES ASSUME errors' = 0 PROVE Balanced
    OBVIOUS
  <2>1. /\ Sum(MoneyOf(market_offers')) = Sum(MoneyOf(market_offers)) - 0
        /\ Sum(GoodsOf(market_offers')) = Sum(GoodsOf(market_offers)) - amount
    BY <1>6, <1>7
  <2>2. Stall!MoneyThere' = Stall!MoneyThere
    BY <1>1, <1>4, <2>1, StallIs, MarketTyped
  <2>3. Sum(stash') = Sum(stash) /\ amount \in Nat
    BY <1>1
  <2>4. Stall!GoodsThere' = Stall!GoodsThere
    BY <1>1, <1>5, <2>1, <2>3, StallIs, MarketTyped
  <2> QED BY <2>2, <2>4 DEF Balanced
<1> QED BY <1>1, <1>7, <1>8, <1>9, MarketStepKeeps

(* ... sells what is sought, ...                                            *)
LEMMA AcceptBuyKeeps ==
    ASSUME MarketInv, NEW a \in Traders, NEW i, NEW amount \in Quantities,
           Stall!AcceptOffer(a, i, amount), Stall!AcceptBuy(a, i, amount)
    PROVE  MarketInv'
<1> DEFINE o == market_offers[i]
           total == o.price * amount
           s == Stall!FromStash(a, amount)
           l == Stall!FromLocker(a, amount)
<1>1. /\ i \in DOMAIN market_offers /\ o.owner # a /\ amount <= o.amount /\ o.sale = FALSE
      /\ amount \in Nat \ {0} /\ UNCHANGED <<results, made, fees, outdated>>
  <2>1. i \in DOMAIN market_offers /\ ~o.sale
    BY DEF Stall!AcceptOffer, Stall!AcceptBuy, Stall!Listed
  <2>2. o.sale \in BOOLEAN
    BY <2>1, MarketTyped, ListedFinite, Worth
  <2> QED BY <2>1, <2>2, MarketAssumption DEF Stall!AcceptOffer
<1>2. o.price \in Nat /\ o.owner \in Traders
  BY <1>1, MarketTyped, ListedFinite, Worth
<1>3. total \in Nat
  BY <1>1, <1>2, Times
<1>4. /\ s \in Nat /\ s <= stash[a] /\ l \in Nat /\ l <= locker[a]
      /\ Stall!Has(a, amount) => s + l = amount
  BY <1>1, MarketTyped, Taken
<1>5. /\ Stall!Minus(stash, a, s) \in [Traders -> Nat]
      /\ Sum(Stall!Minus(stash, a, s)) = Sum(stash) - s
      /\ Stall!Minus(locker, a, l) \in [Traders -> Nat]
      /\ Sum(Stall!Minus(locker, a, l)) = Sum(locker) - l
  <2> HIDE DEF s, l
  <2> QED BY <1>4, MarketTyped, Minus
<1>6. CASE Stall!Has(a, amount) /\ stash' = Stall!Minus(stash, a, s)
           /\ locker' = Stall!Plus(Stall!Minus(locker, a, l), o.owner, amount)
           /\ funds' = Stall!Plus(funds, a, total)
           /\ Stall!Writes(Stall!Remaining(i, amount)) /\ UNCHANGED forfeited
  <2> HIDE DEF total, s, l
  <2>1. funds' \in [Traders -> Nat] /\ Sum(funds') = Sum(funds) + total
    BY <1>3, <1>6, MarketTyped, Plus
  <2>2. locker' \in [Traders -> Nat] /\ Sum(locker') = Sum(locker) - l + amount
    <3> DEFINE rest == Stall!Minus(locker, a, l)
    <3>1. rest \in [Traders -> Nat] /\ Sum(rest) = Sum(locker) - l
      BY <1>5
    <3> HIDE DEF rest
    <3>2. Stall!Plus(rest, o.owner, amount) \in [Traders -> Nat]
          /\ Sum(Stall!Plus(rest, o.owner, amount)) = Sum(rest) + amount
      BY <1>1, <1>2, <3>1, Plus
    <3> QED BY <1>6, <3>1, <3>2 DEF rest
  <2>3. /\ Shrinks(Stall!Remaining(i, amount))
        /\ Sum(MoneyOf(Stall!Remaining(i, amount))) = Sum(MoneyOf(market_offers)) - total
        /\ Sum(GoodsOf(Stall!Remaining(i, amount))) = Sum(GoodsOf(market_offers)) - 0
    BY <1>1, MarketTyped, RemainingIs DEF total
  <2>4. /\ Shrinks(market_offers') /\ FoundAgrees' /\ Len(results') <= MaxResults
        /\ errors' \in 0..MaxErrors
        /\ errors' = 0 => errors = 0 /\ market_offers' = Stall!Remaining(i, amount)
    BY <1>1, <1>6, <2>3, Written
  <2>5. Stall!TypeOK'
    BY <1>1, <1>5, <1>6, <2>1, <2>2, <2>4, MarketTyped, TypedAgain
  <2>6. errors' # 0 \/ Balanced
    <3> SUFFICES ASSUME errors' = 0 PROVE Balanced
      OBVIOUS
    <3>1. /\ Sum(MoneyOf(market_offers')) = Sum(MoneyOf(market_offers)) - total
          /\ Sum(GoodsOf(market_offers')) = Sum(GoodsOf(market_offers)) - 0
      BY <2>3, <2>4
    <3>2. Stall!MoneyThere' = Stall!MoneyThere
      BY <1>1, <1>3, <2>1, <3>1, StallIs, MarketTyped
    <3>3. Sum(stash') = Sum(stash) - s /\ s + l = amount
      BY <1>4, <1>5, <1>6
    <3>4. Stall!GoodsThere' = Stall!GoodsThere
      BY <1>1, <1>4, <1>6, <2>2, <3>1, <3>3, StallIs, MarketTyped
    <3> QED BY <3>2, <3>4 DEF Balanced
  <2> QED BY <1>1, <2>4, <2>5, <2>6, MarketStepKeeps
<1>7. CASE ~Stall!Has(a, amount) /\ Stall!RemoveOfferItems(a, amount)
           /\ UNCHANGED <<funds, market_offers, errors>>
  <2>1. /\ stash' = Stall!Minus(stash, a, s) /\ locker' = Stall!Minus(locker, a, l)
        /\ forfeited' = forfeited + (s + l)
    BY <1>7 DEF Stall!RemoveOfferItems
  <2> HIDE DEF s, l, total
  <2>2. Shrinks(market_offers') /\ FoundAgrees' /\ Len(results') <= MaxResults
    BY <1>1, <1>7, MarketTyped, SameShrinks, FoundStays
  <2>3. Stall!TypeOK'
    <3>1. forfeited' \in Nat /\ errors' \in 0..MaxErrors
      BY <1>4, <1>7, <2>1, MarketTyped, MarketAssumption
    <3>2. /\ funds' \in [Traders -> Nat] /\ stash' \in [Traders -> Nat]
          /\ locker' \in [Traders -> Nat] /\ fees' \in Nat /\ outdated' \in BOOLEAN
      BY <1>1, <1>5, <1>7, <2>1, MarketTyped
    <3> QED BY <1>1, <2>2, <3>1, <3>2, TypedAgain
  <2>4. Balanced
    BY <1>1, <1>4, <1>5, <1>7, <2>1, StallIs, MarketTyped DEF Balanced
  <2> QED BY <1>1, <1>7, <2>2, <2>3, <2>4, MarketStepKeeps
<1> QED BY <1>6, <1>7 DEF Stall!AcceptBuy

(* ... takes an offer back, ...                                             *)
LEMMA CancelOfferKeeps ==
    ASSUME MarketInv, NEW a \in Traders, NEW i, Stall!CancelOffer(a, i)
    PROVE  MarketInv'
<1> DEFINE D == DOMAIN market_offers
           T == {i}
           table == Stall!Without(T)
<1>1. /\ i \in D /\ Stall!GiveBack(market_offers, T) /\ Stall!Writes(table)
      /\ UNCHANGED <<stash, results, made, fees, forfeited, outdated>>
  BY DEF Stall!CancelOffer, Stall!Listed, Stall!history
<1>2. IsFiniteSet(D) /\ market_offers \in [D -> Stall!Rows]
  BY MarketTyped, ListedFinite
<1>3. T \in SUBSET D
  BY <1>1
<1>4. Shrinks(table)
  BY MarketTyped, WithoutShrinks
<1>5. /\ Sum(MoneyOf(table)) = Sum(MoneyOf(market_offers)) - SumFunctionOnSet(MoneyOf(market_offers), T)
      /\ Sum(GoodsOf(table)) = Sum(GoodsOf(market_offers)) - SumFunctionOnSet(GoodsOf(market_offers), T)
      /\ SumFunctionOnSet(MoneyOf(market_offers), T) \in Int
      /\ SumFunctionOnSet(GoodsOf(market_offers), T) \in Int
  BY <1>3, MarketTyped, HeldWithout
<1> HIDE DEF D, T, table
<1>6. /\ funds' \in [Traders -> Nat] /\ locker' \in [Traders -> Nat]
      /\ Sum(funds') = Sum(funds) + SumFunctionOnSet(MoneyOf(market_offers), T)
      /\ Sum(locker') = Sum(locker) + SumFunctionOnSet(GoodsOf(market_offers), T)
  BY <1>1, <1>2, <1>3, MarketTyped, GivenBack
<1>7. /\ Shrinks(market_offers') /\ FoundAgrees' /\ Len(results') <= MaxResults
      /\ errors' \in 0..MaxErrors
      /\ errors' = 0 => errors = 0 /\ market_offers' = table
  BY <1>1, <1>4, Written
<1>8. Stall!TypeOK'
  BY <1>1, <1>6, <1>7, MarketTyped, TypedAgain
<1>9. errors' # 0 \/ Balanced
  <2> SUFFICES ASSUME errors' = 0 PROVE Balanced
    OBVIOUS
  <2>1. /\ Sum(MoneyOf(market_offers'))
             = Sum(MoneyOf(market_offers)) - SumFunctionOnSet(MoneyOf(market_offers), T)
        /\ Sum(GoodsOf(market_offers'))
             = Sum(GoodsOf(market_offers)) - SumFunctionOnSet(GoodsOf(market_offers), T)
    BY <1>5, <1>7
  <2>2. Stall!MoneyThere' = Stall!MoneyThere
    BY <1>1, <1>6, <1>5, <2>1, StallIs, MarketTyped
  <2>3. Stall!GoodsThere' = Stall!GoodsThere
    BY <1>1, <1>6, <1>5, <2>1, StallIs, MarketTyped
  <2> QED BY <2>2, <2>3 DEF Balanced
<1> QED BY <1>1, <1>7, <1>8, <1>9, MarketStepKeeps

(* A row of market_offers that is written when an offer is made.            *)
LEMMA Created ==
    ASSUME MarketInv, NEW a \in Traders, NEW sale \in BOOLEAN, NEW amount \in Quantities,
           NEW price \in Prices, Stall!CreateOffer(a, sale, amount, price), results' = results
    PROVE  /\ FoundAgrees' /\ errors' \in 0..MaxErrors
           /\ made' \in 0..MaxOffers /\ fees' = fees + Fee /\ fees' \in Nat
           /\ DOMAIN market_offers' \subseteq 1..made'
           /\ market_offers' \in [DOMAIN market_offers' -> Stall!Rows]
           /\ \A i \in DOMAIN market_offers' : market_offers'[i].amount > 0
           /\ errors' = 0 =>
                 /\ errors = 0
                 /\ Sum(MoneyOf(market_offers'))
                      = Sum(MoneyOf(market_offers)) + IF sale THEN 0 ELSE price * amount
                 /\ Sum(GoodsOf(market_offers'))
                      = Sum(GoodsOf(market_offers)) + IF sale THEN amount ELSE 0
<1> DEFINE D == DOMAIN market_offers
           i == made + 1
           o == Stall!NewOffer(a, sale, amount, price)
           more == [k \in D \cup {i} |-> IF k \in D THEN market_offers[k] ELSE o]
<1>1. /\ made < MaxOffers /\ made' = made + 1 /\ Stall!Writes(more) /\ fees' = fees + Fee
  BY DEF Stall!CreateOffer, Stall!Listed
<1>2. /\ IsFiniteSet(D) /\ market_offers \in [D -> Stall!Rows] /\ D \subseteq 1..made
      /\ \A k \in D : market_offers[k].amount > 0
  BY MarketTyped, ListedFinite
<1>3. amount \in Nat /\ amount > 0 /\ price \in Nat
  BY MarketAssumption
<1>4. /\ o \in Stall!Rows /\ o.amount = amount /\ o.sale = sale /\ o.price = price
  BY <1>3 DEF Stall!NewOffer, Stall!Rows
<1>5. Stall!MoneyIn(o) = (IF sale THEN 0 ELSE price * amount)
      /\ Stall!GoodsIn(o) = (IF sale THEN amount ELSE 0)
  BY <1>4 DEF Stall!MoneyIn, Stall!GoodsIn
<1>6. made' \in 0..MaxOffers /\ fees' \in Nat /\ i \notin D
  BY <1>1, <1>2, MarketTyped, MarketAssumption
<1> HIDE DEF o
<1>7. /\ more \in [D \cup {i} -> Stall!Rows] /\ more[i] = o
      /\ \A k \in D : more[k] = market_offers[k]
  BY <1>2, <1>4, <1>6
<1>8. D \cup {i} \subseteq 1..made' /\ D \subseteq 1..made'
  BY <1>1, <1>2, MarketTyped
<1>9. errors' \in 0..MaxErrors /\ (errors' = 0 => errors = 0 /\ market_offers' = more)
      /\ market_offers' \in {more, market_offers}
  BY <1>1, MarketTyped, MarketAssumption DEF Stall!Writes
<1>10. /\ DOMAIN market_offers' \subseteq 1..made'
       /\ market_offers' \in [DOMAIN market_offers' -> Stall!Rows]
       /\ \A k \in DOMAIN market_offers' : market_offers'[k].amount > 0
  <2>1. CASE market_offers' = more
    BY <1>2, <1>3, <1>4, <1>7, <1>8, <2>1
  <2>2. CASE market_offers' = market_offers
    BY <1>2, <1>8, <2>2
  <2> QED BY <1>9, <2>1, <2>2
<1>11. FoundAgrees'
  <2>1. ASSUME NEW found, Recalls(found, market_offers, made)
        PROVE  Recalls(found, market_offers', made')
    <3>1. DOMAIN found \subseteq 1..made' /\ i \notin DOMAIN found
      BY <1>1, <2>1, MarketTyped DEF Recalls
    <3>2. \A k \in DOMAIN found \cap DOMAIN market_offers' :
              k \in D /\ market_offers'[k] = market_offers[k]
      BY <1>7, <1>9, <3>1
    <3> QED BY <2>1, <3>1, <3>2 DEF Recalls
  <2> QED BY <2>1 DEF MarketInv, FoundAgrees
<1> HIDE DEF D, i, more
<1>12. /\ Sum(MoneyOf(more)) = Sum(MoneyOf(market_offers)) + Stall!MoneyIn(o)
       /\ Sum(GoodsOf(more)) = Sum(GoodsOf(market_offers)) + Stall!GoodsIn(o)
  <2>1. /\ Sum(MoneyOf(more)) = Sum(MoneyOf(market_offers)) + Stall!MoneyIn(more[i])
        /\ Sum(GoodsOf(more)) = Sum(GoodsOf(market_offers)) + Stall!GoodsIn(more[i])
    <3>1. /\ IsFiniteSet(D) /\ market_offers \in [D -> Stall!Rows] /\ i \notin D
          /\ more \in [D \cup {i} -> Stall!Rows] /\ \A k \in D : more[k] = market_offers[k]
      BY <1>2, <1>6, <1>7
    <3> QED BY ONLY <3>1, HeldAdded
  <2> QED BY <1>7, <2>1
<1> QED BY <1>1, <1>5, <1>6, <1>9, <1>10, <1>11, <1>12

(* ... seeks ...                                                            *)
LEMMA CreateBuyKeeps ==
    ASSUME MarketInv, NEW a \in Traders, NEW amount \in Quantities, NEW price \in Prices,
           Stall!CreateBuy(a, amount, price)
    PROVE  MarketInv'
<1> DEFINE total == price * amount
<1>1. /\ funds[a] >= total + Fee /\ Stall!CreateOffer(a, FALSE, amount, price)
      /\ funds' = Stall!Minus(funds, a, total + Fee)
      /\ UNCHANGED <<stash, locker, results, forfeited, outdated>>
  BY DEF Stall!CreateBuy
<1>2. total \in Nat /\ Fee \in Nat
  <2>1. price \in Nat /\ amount \in Nat
    BY MarketAssumption
  <2> QED BY <2>1, Times, MarketAssumption
<1>3. /\ FoundAgrees' /\ errors' \in 0..MaxErrors
      /\ made' \in 0..MaxOffers /\ fees' = fees + Fee /\ fees' \in Nat
      /\ DOMAIN market_offers' \subseteq 1..made'
      /\ market_offers' \in [DOMAIN market_offers' -> Stall!Rows]
      /\ \A i \in DOMAIN market_offers' : market_offers'[i].amount > 0
      /\ errors' = 0 =>
            /\ errors = 0
            /\ Sum(MoneyOf(market_offers')) = Sum(MoneyOf(market_offers)) + total
            /\ Sum(GoodsOf(market_offers')) = Sum(GoodsOf(market_offers)) + 0
  BY <1>1, Created
<1> HIDE DEF total
<1>4. funds' \in [Traders -> Nat] /\ Sum(funds') = Sum(funds) - (total + Fee)
  <2> DEFINE n == total + Fee
  <2>1. n \in Nat /\ n <= funds[a] /\ funds \in [Traders -> Nat]
    BY <1>1, <1>2, MarketTyped
  <2> HIDE DEF n
  <2>2. Stall!Minus(funds, a, n) \in [Traders -> Nat] /\ Sum(Stall!Minus(funds, a, n)) = Sum(funds) - n
    BY <2>1, Minus
  <2> QED BY <1>1, <2>2 DEF n
<1>5. Stall!TypeOK'
  <2>1. Len(results') <= MaxResults
    BY <1>1, MarketTyped DEF Stall!TypeOK
  <2> QED BY <1>1, <1>3, <1>4, <2>1, MarketTyped DEF Stall!TypeOK, Stall!Listed
<1>6. errors' # 0 \/ Balanced
  <2> SUFFICES ASSUME errors' = 0 PROVE Balanced
    OBVIOUS
  <2>1. Stall!MoneyThere' = Stall!MoneyThere
    BY <1>2, <1>3, <1>4, StallIs, MarketTyped
  <2>2. Stall!GoodsThere' = Stall!GoodsThere
    BY <1>1, <1>3, StallIs, MarketTyped
  <2> QED BY <2>1, <2>2 DEF Balanced
<1> QED BY <1>1, <1>3, <1>5, <1>6, MarketStepKeeps

(* ... or offers.                                                           *)
LEMMA CreateSellKeeps ==
    ASSUME MarketInv, NEW a \in Traders, NEW amount \in Quantities, NEW price \in Prices,
           Stall!CreateSell(a, amount, price)
    PROVE  MarketInv'
<1> DEFINE s == Stall!FromStash(a, amount)
           l == Stall!FromLocker(a, amount)
<1>1. /\ funds[a] >= Fee /\ stash' = Stall!Minus(stash, a, s)
      /\ locker' = Stall!Minus(locker, a, l)
      /\ forfeited' = forfeited + (IF Stall!Has(a, amount) THEN 0 ELSE s + l)
      /\ UNCHANGED <<results, outdated>>
  BY DEF Stall!CreateSell, Stall!RemoveOfferItems
<1>2. amount \in Nat /\ Fee \in Nat
  BY MarketAssumption
<1>3. /\ s \in Nat /\ s <= stash[a] /\ l \in Nat /\ l <= locker[a]
      /\ Stall!Has(a, amount) => s + l = amount
  BY <1>2, MarketTyped, Taken
<1> HIDE DEF s, l
<1>4. /\ stash' \in [Traders -> Nat] /\ Sum(stash') = Sum(stash) - s
      /\ locker' \in [Traders -> Nat] /\ Sum(locker') = Sum(locker) - l
  BY <1>1, <1>3, MarketTyped, Minus
<1>5. CASE Stall!Has(a, amount) /\ Stall!CreateOffer(a, TRUE, amount, price)
           /\ funds' = Stall!Minus(funds, a, Fee)
  <2>1. /\ FoundAgrees' /\ errors' \in 0..MaxErrors
        /\ made' \in 0..MaxOffers /\ fees' = fees + Fee /\ fees' \in Nat
        /\ DOMAIN market_offers' \subseteq 1..made'
        /\ market_offers' \in [DOMAIN market_offers' -> Stall!Rows]
        /\ \A i \in DOMAIN market_offers' : market_offers'[i].amount > 0
        /\ errors' = 0 =>
              /\ errors = 0
              /\ Sum(MoneyOf(market_offers')) = Sum(MoneyOf(market_offers)) + 0
              /\ Sum(GoodsOf(market_offers')) = Sum(GoodsOf(market_offers)) + amount
    BY <1>1, <1>5, Created
  <2>2. funds' \in [Traders -> Nat] /\ Sum(funds') = Sum(funds) - Fee
    BY <1>1, <1>2, <1>5, MarketTyped, Minus
  <2>3. Stall!TypeOK'
    <3>1. Len(results') <= MaxResults
      BY <1>1, MarketTyped DEF Stall!TypeOK
    <3>2. forfeited' \in Nat /\ outdated' \in BOOLEAN
      BY <1>1, <1>5, MarketTyped
    <3> QED BY <1>4, <2>1, <2>2, <3>1, <3>2 DEF Stall!TypeOK, Stall!Listed
  <2>4. errors' # 0 \/ Balanced
    <3> SUFFICES ASSUME errors' = 0 PROVE Balanced
      OBVIOUS
    <3>1. Stall!MoneyThere' = Stall!MoneyThere
      BY <1>2, <2>1, <2>2, StallIs, MarketTyped
    <3>2. forfeited' = forfeited
      BY <1>1, <1>5, MarketTyped
    <3>3. Stall!GoodsThere' = Stall!GoodsThere
      BY <1>2, <1>3, <1>4, <1>5, <2>1, <3>2, StallIs, MarketTyped
    <3> QED BY <3>1, <3>3 DEF Balanced
  <2> QED BY <1>1, <2>1, <2>3, <2>4, MarketStepKeeps
<1>6. CASE ~Stall!Has(a, amount) /\ UNCHANGED <<funds, market_offers, made, fees, errors>>
  <2>1. Shrinks(market_offers') /\ FoundAgrees' /\ Len(results') <= MaxResults
    BY <1>1, <1>6, MarketTyped, SameShrinks, FoundStays
  <2>2. Stall!TypeOK'
    <3>1. forfeited' \in Nat /\ errors' \in 0..MaxErrors
      BY <1>1, <1>3, <1>6, MarketTyped, MarketAssumption
    <3> QED BY <1>1, <1>4, <1>6, <2>1, <3>1, MarketTyped, TypedAgain
  <2>3. Balanced
    BY <1>1, <1>3, <1>4, <1>6, StallIs, MarketTyped DEF Balanced
  <2> QED BY <1>1, <1>6, <2>1, <2>2, <2>3, MarketStepKeeps
<1> QED BY <1>5, <1>6 DEF Stall!CreateSell

(* Offers grow old, ...                                                     *)
LEMMA GrowOldKeeps ==
    ASSUME MarketInv, NEW i, Stall!GrowOld(i)
    PROVE  MarketInv'
<1> DEFINE D == DOMAIN market_offers
           old == [market_offers[i] EXCEPT !.old = TRUE]
           table == [market_offers EXCEPT ![i] = old]
<1>1. /\ i \in D /\ market_offers' = table
      /\ UNCHANGED <<funds, stash, locker, results, made, fees, forfeited, outdated, errors>>
  BY DEF Stall!GrowOld, Stall!Listed, Stall!owned, Stall!history
<1>2. /\ IsFiniteSet(D) /\ market_offers \in [D -> Stall!Rows]
      /\ \A k \in D : market_offers[k].amount > 0
  BY MarketTyped, ListedFinite
<1>3. /\ old \in Stall!Rows /\ old.amount = market_offers[i].amount
      /\ old.price = market_offers[i].price
      /\ old.sale = market_offers[i].sale /\ old.owner = market_offers[i].owner
  BY <1>1, <1>2 DEF Stall!Rows
<1> HIDE DEF old
<1>4. Shrinks(market_offers')
  BY <1>1, <1>2, <1>3 DEF Shrinks
<1>5. FoundAgrees' /\ Len(results') <= MaxResults
  BY <1>1, <1>4, FoundStays
<1>6. Stall!TypeOK'
  <2>1. errors' \in 0..MaxErrors
    BY <1>1, MarketTyped, MarketAssumption
  <2> QED BY <1>1, <1>4, <1>5, <2>1, MarketTyped, TypedAgain
<1>7. /\ Stall!MoneyIn(old) = Stall!MoneyIn(market_offers[i]) /\ Stall!MoneyIn(old) \in Int
      /\ Stall!GoodsIn(old) = Stall!GoodsIn(market_offers[i]) /\ Stall!GoodsIn(old) \in Int
  BY <1>3, Worth DEF Stall!MoneyIn, Stall!GoodsIn
<1> HIDE DEF D
<1>8. /\ Sum(MoneyOf(table)) = Sum(MoneyOf(market_offers)) + (Stall!MoneyIn(old) - Stall!MoneyIn(market_offers[i]))
      /\ Sum(GoodsOf(table)) = Sum(GoodsOf(market_offers)) + (Stall!GoodsIn(old) - Stall!GoodsIn(market_offers[i]))
  BY <1>1, <1>2, <1>3, HeldEdited
<1>9. /\ Sum(MoneyOf(market_offers')) = Sum(MoneyOf(market_offers))
      /\ Sum(GoodsOf(market_offers')) = Sum(GoodsOf(market_offers))
  <2> HIDE DEF table
  <2> QED BY <1>1, <1>7, <1>8, MarketTyped
<1>10. Balanced
  BY <1>1, <1>9, StallIs DEF Balanced
<1> QED BY <1>1, <1>5, <1>6, <1>10, MarketStepKeeps

(* ... a query finds them ...                                               *)
LEMMA CheckExpiredKeeps ==
    ASSUME MarketInv, Stall!CheckExpired
    PROVE  MarketInv'
<1> DEFINE found == Stall!Restrict(market_offers, Stall!Found)
<1>1. /\ Len(results) < MaxResults /\ results' = Append(results, found)
      /\ UNCHANGED <<funds, stash, locker, market_offers, made, fees, forfeited, outdated, errors>>
  BY DEF Stall!CheckExpired, Stall!owned, Stall!history
<1>2. /\ DOMAIN market_offers \subseteq 1..made /\ 1..made \subseteq Stall!Ids
      /\ market_offers \in [DOMAIN market_offers -> Stall!Rows]
  BY MarketTyped, ListedFinite
<1>3. Stall!Found \subseteq DOMAIN market_offers
  BY DEF Stall!Found, Stall!Old, Stall!Listed
<1>4. found \in [Stall!Found -> Stall!Rows] /\ Recalls(found, market_offers, made)
  BY <1>2, <1>3 DEF Stall!Restrict, Recalls
<1>5. found \in Snapshots
  <2>1. Stall!Found \in SUBSET Stall!Ids
    BY <1>2, <1>3
  <2> HIDE DEF found
  <2> QED BY <1>4, <2>1 DEF Snapshots
<1> HIDE DEF found
<1>6. /\ results \in Seq(Snapshots) /\ Len(results) \in Nat
      /\ \A k \in 1..Len(results) : Recalls(results[k], market_offers, made)
  BY DEF MarketInv, FoundAgrees
<1>7. results' \in Seq(Snapshots) /\ Len(results') = Len(results) + 1
      /\ \A k \in 1..Len(results') : results'[k] = IF k <= Len(results) THEN results[k] ELSE found
  BY <1>1, <1>5, <1>6
<1>8. \A k \in 1..Len(results') : Recalls(results'[k], market_offers, made)
  BY <1>4, <1>6, <1>7
<1>9. FoundAgrees'
  BY <1>1, <1>7, <1>8 DEF FoundAgrees
<1>10. Len(results') <= MaxResults
  BY <1>1, <1>6, <1>7, MarketAssumption
<1>11. Stall!TypeOK'
  BY <1>1, <1>10, MarketTyped DEF Stall!TypeOK, Stall!Listed
<1>12. Balanced
  BY <1>1, StallIs DEF Balanced
<1> QED BY <1>1, <1>9, <1>11, <1>12, MarketStepKeeps

(* ... and its result is processed, some time later.                        *)
LEMMA ProcessExpiredKeeps ==
    ASSUME MarketInv, Stall!ProcessExpired
    PROVE  MarketInv'
<1> DEFINE found == Head(results)
           there == Stall!StillThere(found)
<1>1. /\ results # <<>> /\ results' = Tail(results)
      /\ UNCHANGED <<stash, made, fees, forfeited>>
  BY DEF Stall!ProcessExpired
<1>2. PICK failed \in SUBSET there :
          /\ errors' = errors + Cardinality(failed) /\ errors' <= MaxErrors
          /\ market_offers' = Stall!Without(there \ failed)
          /\ Stall!GiveBack(found, there \ failed)
          /\ outdated' = (outdated \/ \E i \in (there \ failed) \cap DOMAIN market_offers :
                                found[i].amount # market_offers[i].amount)
  BY StallCardinality DEF Stall!ProcessExpired, Stall!Listed
<1> DEFINE ended == there \ failed
           table == Stall!Without(ended)
<1>3. found \in Snapshots /\ Recalls(found, market_offers, made)
  <2>1. results \in Seq(Snapshots) /\ 1 \in 1..Len(results) /\ found = results[1]
    BY <1>1 DEF MarketInv, FoundAgrees
  <2> QED BY <2>1 DEF MarketInv, FoundAgrees
<1>4. there = DOMAIN found \cap DOMAIN market_offers
  BY DEF Stall!StillThere, Stall!Listed
<1>5. found \in [DOMAIN found -> Stall!Rows] /\ IsFiniteSet(DOMAIN found)
  <2>1. PICK D \in SUBSET Stall!Ids : found \in [D -> Stall!Rows]
    BY <1>3 DEF Snapshots
  <2>2. IsFiniteSet(Stall!Ids)
    BY FS_Interval, MarketAssumption DEF Stall!Ids
  <2>3. IsFiniteSet(D)
    BY <2>1, <2>2, FS_Subset
  <2> QED BY <2>1, <2>3
<1>6. ended \in SUBSET DOMAIN found /\ ended \in SUBSET DOMAIN market_offers /\ IsFiniteSet(ended)
  BY <1>4, <1>5, FS_Subset
<1> HIDE DEF found, there
<1>7. Shrinks(table)
  BY MarketTyped, WithoutShrinks
<1>8. /\ Sum(MoneyOf(table)) = Sum(MoneyOf(market_offers)) - SumFunctionOnSet(MoneyOf(market_offers), ended)
      /\ Sum(GoodsOf(table)) = Sum(GoodsOf(market_offers)) - SumFunctionOnSet(GoodsOf(market_offers), ended)
      /\ SumFunctionOnSet(MoneyOf(market_offers), ended) \in Int
      /\ SumFunctionOnSet(GoodsOf(market_offers), ended) \in Int
  BY <1>6, MarketTyped, HeldWithout
<1>9. /\ funds' \in [Traders -> Nat] /\ locker' \in [Traders -> Nat]
      /\ Sum(funds') = Sum(funds) + SumFunctionOnSet(MoneyOf(found), ended)
      /\ Sum(locker') = Sum(locker) + SumFunctionOnSet(GoodsOf(found), ended)
  BY <1>2, <1>5, <1>6, MarketTyped, GivenBack
<1>10. FoundAgrees' /\ Len(results') <= MaxResults
  BY <1>1, <1>2, <1>7, FoundStays
<1>11. Cardinality(failed) \in Nat
  BY <1>4, <1>5, FS_Subset, FS_CardinalityType
<1>12. errors' \in 0..MaxErrors /\ (errors' = 0 => errors = 0)
  BY <1>2, <1>11, MarketTyped, MarketAssumption
<1>13. outdated' \in BOOLEAN /\ (outdated => outdated')
  BY <1>2, MarketTyped
<1>14. Stall!TypeOK'
  BY <1>1, <1>2, <1>7, <1>9, <1>10, <1>12, <1>13, MarketTyped, TypedAgain
<1>15. outdated' \/ Balanced
  <2> SUFFICES ASSUME ~outdated' PROVE Balanced
    OBVIOUS
  <2>1. \A i \in ended : found[i].amount = market_offers[i].amount
    BY <1>2, <1>6
  <2>2. \A i \in ended : found[i].price = market_offers[i].price /\ found[i].sale = market_offers[i].sale
    BY <1>3, <1>6 DEF Recalls
  <2>3. \A i \in ended : /\ MoneyOf(found)[i] = MoneyOf(market_offers)[i]
                         /\ GoodsOf(found)[i] = GoodsOf(market_offers)[i]
    BY <1>6, <2>1, <2>2 DEF MoneyOf, GoodsOf, Stall!MoneyIn, Stall!GoodsIn
  <2>4. Integral(MoneyOf(market_offers), ended) /\ Integral(GoodsOf(market_offers), ended)
    BY <1>6, MarketTyped, ListedFinite, HeldTyped DEF Integral
  <2> HIDE DEF ended
  <2>5. /\ SumFunctionOnSet(MoneyOf(found), ended) = SumFunctionOnSet(MoneyOf(market_offers), ended)
        /\ SumFunctionOnSet(GoodsOf(found), ended) = SumFunctionOnSet(GoodsOf(market_offers), ended)
    BY <1>6, <2>3, <2>4, SumEqual
  <2>6. market_offers' = table
    BY <1>2 DEF ended
  <2> HIDE DEF table
  <2>7. /\ Sum(MoneyOf(market_offers'))
             = Sum(MoneyOf(market_offers)) - SumFunctionOnSet(MoneyOf(market_offers), ended)
        /\ Sum(GoodsOf(market_offers'))
             = Sum(GoodsOf(market_offers)) - SumFunctionOnSet(GoodsOf(market_offers), ended)
    BY <1>8, <2>6
  <2>8. /\ Sum(funds') = Sum(funds) + SumFunctionOnSet(MoneyOf(market_offers), ended)
        /\ Sum(locker') = Sum(locker) + SumFunctionOnSet(GoodsOf(market_offers), ended)
        /\ Sum(stash') = Sum(stash) /\ fees' = fees /\ forfeited' = forfeited
    BY <1>1, <1>9, <2>5
  <2>9. /\ SumFunctionOnSet(MoneyOf(market_offers), ended) \in Int
        /\ SumFunctionOnSet(GoodsOf(market_offers), ended) \in Int
    BY <1>8
  <2>10. Stall!MoneyThere' = Stall!MoneyThere
    BY <2>7, <2>8, <2>9, StallIs, MarketTyped
  <2>11. Stall!GoodsThere' = Stall!GoodsThere
    BY <2>7, <2>8, <2>9, StallIs, MarketTyped
  <2> QED BY <2>10, <2>11 DEF Balanced
<1> QED BY <1>10, <1>12, <1>13, <1>14, <1>15, MarketStepKeeps

-----------------------------------------------------------------------------
(* The invariant holds at first, ...                                        *)
LEMMA MarketStarts ==
    ASSUME MCInit
    PROVE  MarketInv
<1>1. Stall!Init
  BY DEF MCInit
<1>2. DOMAIN market_offers = {} /\ Stall!Listed = {}
  BY <1>1 DEF Stall!Init, Stall!Listed
<1>3. Stock \div 2 \in Nat /\ Stock - (Stock \div 2) \in Nat
  BY MarketAssumption
<1>4. Stall!TypeOK
  <2>1. /\ funds \in [Traders -> Nat] /\ stash \in [Traders -> Nat]
        /\ locker \in [Traders -> Nat]
    BY <1>1, <1>3, MarketAssumption DEF Stall!Init
  <2>2. made = 0 /\ errors = 0 /\ results = <<>> /\ fees = 0 /\ forfeited = 0 /\ outdated = FALSE
    BY <1>1 DEF Stall!Init
  <2>3. Len(<<>>) = 0
    OBVIOUS
  <2>4. /\ made \in 0..MaxOffers /\ errors \in 0..MaxErrors /\ Len(results) <= MaxResults
        /\ fees \in Nat /\ forfeited \in Nat /\ outdated \in BOOLEAN
    <3>1. made \in 0..MaxOffers /\ errors \in 0..MaxErrors
      BY <2>2, MarketAssumption
    <3>2. Len(results) <= MaxResults
      BY <2>2, <2>3, MarketAssumption
    <3>3. fees \in Nat /\ forfeited \in Nat /\ outdated \in BOOLEAN
      BY <2>2
    <3> QED BY <3>1, <3>2, <3>3
  <2>5. market_offers \in [Stall!Listed -> Stall!Rows]
    BY <1>1 DEF Stall!Init, Stall!Listed
  <2> QED BY <1>2, <2>1, <2>4, <2>5 DEF Stall!TypeOK
<1>5. FoundAgrees
  BY <1>1 DEF Stall!Init, FoundAgrees
<1>6. Sum(MoneyOf(market_offers)) = 0 /\ Sum(GoodsOf(market_offers)) = 0
  BY <1>2, SumEmpty DEF Sum, MoneyOf, GoodsOf
<1>7. Sum(funds) = Funds * Cardinality(Traders)
  BY <1>1, SumConstant, MarketAssumption DEF Stall!Init, Sum
<1>8. Sum(stash) + Sum(locker) = Stock * Cardinality(Traders)
  <2> DEFINE all == [a \in Traders |-> Stock]
  <2>1. \A a \in Traders : all[a] = stash[a] + locker[a]
    BY <1>1, <1>3, MarketAssumption DEF Stall!Init
  <2>2. Integral(stash, Traders) /\ Integral(locker, Traders)
    BY <1>4 DEF Stall!TypeOK, Integral
  <2>3. \A a \in Traders : all[a] = Stock
    OBVIOUS
  <2>4. DOMAIN stash = Traders /\ DOMAIN locker = Traders
    BY <1>1 DEF Stall!Init
  <2> HIDE DEF all
  <2>5. SumFunctionOnSet(all, Traders) = SumFunctionOnSet(stash, Traders) + SumFunctionOnSet(locker, Traders)
    BY <2>1, <2>2, SumOfSums, MarketAssumption
  <2>6. SumFunctionOnSet(all, Traders) = Stock * Cardinality(Traders)
    BY <2>3, SumConstant, MarketAssumption
  <2> QED BY <2>4, <2>5, <2>6 DEF Sum
<1>9. Funds * Cardinality(Traders) \in Int /\ Stock * Cardinality(Traders) \in Int
  BY MarketAssumption, FS_CardinalityType
<1>10. Stall!MoneyThere = Funds * Cardinality(Traders)
  BY <1>1, <1>6, <1>7, <1>9, StallIs DEF Stall!Init
<1>11. Stall!GoodsThere = Stock * Cardinality(Traders)
  <2>1. Sum(stash) \in Int /\ Sum(locker) \in Int
    BY <1>4, SumTyped, MarketAssumption DEF Stall!TypeOK
  <2>2. forfeited = 0
    BY <1>1 DEF Stall!Init
  <2>3. Sum(stash) + Sum(locker) + 0 + 0 = Stock * Cardinality(Traders)
    BY <1>8, <1>9, <2>1
  <2> QED BY <1>6, <2>2, <2>3, StallIs
<1> QED BY <1>4, <1>5, <1>10, <1>11, StallCardinality
        DEF MarketInv, MarketKept, Stall!MarketKept, Stall!MarketConserves

(* ... after every step of the market, ...                                  *)
LEMMA MarketStep ==
    ASSUME MarketInv, MarketNext
    PROVE  MarketInv'
<1>1. CASE Stall!CheckExpired
  BY <1>1, CheckExpiredKeeps
<1>2. CASE Stall!ProcessExpired
  BY <1>2, ProcessExpiredKeeps
<1>3. CASE \E i \in 1..MaxOffers : Stall!GrowOld(i)
  BY <1>3, GrowOldKeeps
<1>4. CASE \E a \in Traders, i \in 1..MaxOffers : Stall!CancelOffer(a, i)
  BY <1>4, CancelOfferKeeps
<1>5. CASE \E a \in Traders, i \in 1..MaxOffers, amount \in Quantities : Stall!AcceptOffer(a, i, amount)
  BY <1>5, AcceptSellKeeps, AcceptBuyKeeps DEF Stall!AcceptOffer
<1>6. CASE \E a \in Traders, amount \in Quantities, price \in Prices : Stall!CreateSell(a, amount, price)
  BY <1>6, CreateSellKeeps
<1>7. CASE \E a \in Traders, amount \in Quantities, price \in Prices : Stall!CreateBuy(a, amount, price)
  BY <1>7, CreateBuyKeeps
<1> QED BY <1>1, <1>2, <1>3, <1>4, <1>5, <1>6, <1>7 DEF MarketNext

(* ... and after every other.                                               *)
LEMMA MarketUnchanged ==
    ASSUME MarketInv, UNCHANGED marketVars
    PROVE  MarketInv'
<1>1. UNCHANGED <<funds, stash, locker, market_offers, results, made, fees, forfeited, outdated, errors>>
  BY DEF marketVars
<1>2. Stall!TypeOK'
  BY <1>1, MarketTyped DEF Stall!TypeOK, Stall!Listed
<1>3. FoundAgrees'
  BY <1>1 DEF MarketInv, FoundAgrees
<1>4. Balanced
  BY <1>1, StallIs DEF Balanced
<1> QED BY <1>1, <1>2, <1>3, <1>4, MarketStepKeeps

(* Whatever traders offer, accept and cancel and whatever expires, what an  *)
(* offer holds is paid out once, unless it expires while it is accepted in  *)
(* part or a query fails.                                                   *)
THEOREM MarketIsKept == MCSpec => []MarketKept
<1>1. MCInit => MarketInv
  BY MarketStarts
<1>2. MarketInv /\ [MCNext]_<<game, moneyVars, vars, marketVars, partyVars, houseVars>> => MarketInv'
  <2>1. CASE MarketInv /\ MarketNext
    BY <2>1, MarketStep
  <2>2. CASE MarketInv /\ (MoneyNext \/ TradeNext \/ HouseNext \/ PartyNext)
    <3>1. UNCHANGED marketVars
      BY <2>2 DEF MoneyNext, TradeNext, HouseNext, PartyNext, Pays, Trades, Lives, Meets
    <3> QED BY <2>2, <3>1, MarketUnchanged
  <2> QED BY <2>1, <2>2, MarketUnchanged DEF MCNext
<1>3. MarketInv => MarketKept
  BY DEF MarketInv
<1> QED BY <1>1, <1>2, <1>3, PTL DEF MCSpec

-----------------------------------------------------------------------------
(* Money.  The kinds of coins, what is carried, and what a call works on.   *)
Kinds == Purse!Range(Purse!Units)
Inventories == [Purse!Slots -> Purse!Stacks]
Purses == [bag : Inventories, ground : Nat, added : Nat, ok : BOOLEAN, left : Nat,
           vanished : BOOLEAN, doubled : BOOLEAN]

(* What every place is worth, and how many coins of a kind fit there.       *)
Worths(b) == [i \in Purse!Slots |-> Purse!WorthOf(b[i])]
Space(b, u) ==
    [i \in Purse!Slots |->
        IF b[i] = Purse!Free THEN StackSize
        ELSE IF b[i].unit = u THEN StackSize - b[i].count ELSE 0]

(* A stack of coins makes one of the next kind.                             *)
LEMMA SizeIs == StackSize \in Nat /\ StackSize >= 1 /\ StackSize * StackSize \in Nat
                /\ StackSize * StackSize >= 1
<1>1. StackSize \in Nat /\ StackSize >= 1
  BY MoneyAssumption
<1> QED BY <1>1

(* The kinds of coins are worth one at least.                               *)
LEMMA KindsAre ==
    /\ Kinds = {StackSize * StackSize, StackSize, 1}
    /\ \A u \in Kinds : u \in Nat /\ u >= 1
<1>1. Kinds = {StackSize * StackSize, StackSize, 1}
  <2>1. DOMAIN Purse!Units = 1..3
    BY DEF Purse!Units
  <2>2. /\ Purse!Units[1] = StackSize * StackSize /\ Purse!Units[2] = StackSize
        /\ Purse!Units[3] = 1
    BY DEF Purse!Units
  <2>3. Kinds = {Purse!Units[i] : i \in 1..3}
    BY <2>1 DEF Kinds, Purse!Range
  <2>4. 1..3 = {1, 2, 3}
    OBVIOUS
  <2> HIDE DEF Kinds
  <2> QED BY <2>2, <2>3, <2>4
<1> QED BY <1>1, SizeIs

(* The places are finitely many.                                            *)
LEMMA SlotsFinite == IsFiniteSet(Purse!Slots) /\ Purse!Slots \subseteq 0..Places
                     /\ Places \in Nat
<1>1. Places \in Nat
  BY MoneyAssumption
<1> QED BY <1>1, FS_Interval DEF Purse!Slots

(* A stack is of coins or the place is free.                                *)
LEMMA StackIs ==
    ASSUME NEW s \in Purse!Stacks
    PROVE  /\ Purse!WorthOf(s) \in Nat /\ Purse!WorthOf(s) = s.unit * s.count
           /\ s = Purse!Free => s.unit = 0 /\ s.count = 0 /\ Purse!WorthOf(s) = 0
           /\ s # Purse!Free => /\ s.unit \in Kinds /\ s.unit \in Nat /\ s.unit >= 1
                                /\ s.count \in 1..StackSize /\ s.count \in Nat
                                /\ s.unit <= Purse!WorthOf(s)
                                /\ s = [unit |-> s.unit, count |-> s.count]
<1>1. Purse!Stacks = [unit : Kinds, count : 1..StackSize] \cup {Purse!Free}
  BY DEF Purse!Stacks, Kinds
<1>2. CASE s = Purse!Free
  BY <1>2, KindsAre DEF Purse!Free, Purse!WorthOf
<1>3. CASE s # Purse!Free
  <2>1. s \in [unit : Kinds, count : 1..StackSize]
    BY <1>1, <1>3
  <2>2. /\ s.unit \in Kinds /\ s.count \in 1..StackSize
        /\ s = [unit |-> s.unit, count |-> s.count]
    BY <2>1
  <2>3. s.unit \in Nat /\ s.unit >= 1 /\ s.count \in Nat /\ s.count >= 1
    BY <2>2, KindsAre, SizeIs
  <2>4. \A u, c \in Nat : u >= 1 /\ c >= 1 => u * c \in Nat /\ u <= u * c
    OBVIOUS
  <2> QED BY <1>3, <2>2, <2>3, <2>4 DEF Purse!WorthOf
<1> QED BY <1>2, <1>3

(* Some coins of a kind are a stack.                                        *)
LEMMA StackMade ==
    ASSUME NEW u \in Kinds, NEW n \in 1..StackSize
    PROVE  /\ [unit |-> u, count |-> n] \in Purse!Stacks
           /\ [unit |-> u, count |-> n] # Purse!Free
           /\ Purse!WorthOf([unit |-> u, count |-> n]) = u * n
<1>1. [unit |-> u, count |-> n] # Purse!Free
  BY SizeIs DEF Purse!Free
<1> QED BY <1>1 DEF Purse!Stacks, Kinds, Purse!WorthOf

(* A free place is what a place may hold.                                   *)
LEMMA FreeIsStack == Purse!Free \in Purse!Stacks
  BY DEF Purse!Stacks

(* Worth is a sum over the places, ...                                      *)
LEMMA WorthIs ==
    ASSUME NEW b \in Inventories
    PROVE  /\ Purse!Worth(b) = SumFunctionOnSet(Worths(b), Purse!Slots)
           /\ Purse!Worth(b) \in Nat
           /\ \A i \in Purse!Slots : Worths(b)[i] = Purse!WorthOf(b[i]) /\ Worths(b)[i] \in Nat
<1> DEFINE D == Purse!Slots
           P(g) == g = [s \in SUBSET D |-> IF s = {} THEN 0
                          ELSE Purse!WorthOf(b[First(s)]) + g[s \ {First(s)}]]
           iter == CHOOSE g : P(g)
<1>1. \A i \in D : Worths(b)[i] = Purse!WorthOf(b[i]) /\ Worths(b)[i] \in Nat
  <2> TAKE i \in D
  <2>1. b[i] \in Purse!Stacks
    BY DEF Inventories
  <2> QED BY <2>1, StackIs DEF Worths
<1>2. Purse!Worth(b) = iter[D]
  BY DEF Purse!Worth, Purse!MapThenSumSet, Purse!MapThenFoldSet, First
<1>3. \A g : P(g) <=> Sums(g, Worths(b), D)
  <2> TAKE g
  <2>1. \A s \in SUBSET D : s # {} => Worths(b)[First(s)] = Purse!WorthOf(b[First(s)])
    BY <1>1 DEF First
  <2> QED BY <2>1 DEF Sums
<1>4. Integral(Worths(b), D)
  BY <1>1 DEF Integral
<1>5. Sums(iter, Worths(b), D)
  <2>1. \E g : P(g)
    <3> HIDE DEF P
    <3> QED BY <1>3, <1>4, SumExists, SlotsFinite
  <2>2. P(iter)
    <3> HIDE DEF P
    <3> QED BY <2>1
  <2> HIDE DEF P, iter
  <2> QED BY <2>2, <1>3
<1> HIDE DEF iter, P
<1>6. iter[D] = SumFunctionOnSet(Worths(b), D)
  BY <1>4, <1>5, SumIs, SlotsFinite
<1>7. SumFunctionOnSet(Worths(b), D) \in Nat
  BY <1>1, SumNatural, SlotsFinite
<1> QED BY <1>1, <1>2, <1>6, <1>7

(* ... and changes with one place.                                          *)
LEMMA WorthChanged ==
    ASSUME NEW b \in Inventories, NEW d \in Inventories, NEW i \in Purse!Slots,
           \A j \in Purse!Slots \ {i} : d[j] = b[j]
    PROVE  Purse!Worth(d) = Purse!Worth(b) + (Purse!WorthOf(d[i]) - Purse!WorthOf(b[i]))
<1>1. \A j \in Purse!Slots \ {i} : Worths(d)[j] = Worths(b)[j]
  BY DEF Worths
<1>2. /\ Integral(Worths(b), Purse!Slots) /\ Worths(d)[i] \in Int
      /\ Worths(d)[i] = Purse!WorthOf(d[i]) /\ Worths(b)[i] = Purse!WorthOf(b[i])
  BY WorthIs DEF Integral
<1> DEFINE f == Worths(b)
           g == Worths(d)
<1>3. SumFunctionOnSet(g, Purse!Slots) = SumFunctionOnSet(f, Purse!Slots) + (g[i] - f[i])
  <2>1. /\ Integral(f, Purse!Slots) /\ g[i] \in Int
        /\ \A j \in Purse!Slots \ {i} : g[j] = f[j]
    BY <1>1, <1>2
  <2> HIDE DEF f, g
  <2>2. IsFiniteSet(Purse!Slots) /\ i \in Purse!Slots
    BY SlotsFinite
  <2> QED BY ONLY <2>1, <2>2, SumChanged
<1> QED BY <1>2, <1>3, WorthIs

(* The room for a kind of coins is a sum over the places too: a free place  *)
(* takes a stack, a stack of that kind what it lacks.                       *)
LEMMA SpaceIs ==
    ASSUME NEW b \in Inventories, NEW u
    PROVE  /\ Integral(Space(b, u), Purse!Slots)
           /\ \A i \in Purse!Slots : Space(b, u)[i] \in Nat
<1> SUFFICES ASSUME NEW i \in Purse!Slots PROVE Space(b, u)[i] \in Nat
  BY DEF Integral
<1>1. b[i] \in Purse!Stacks
  BY DEF Inventories
<1>2. b[i] # Purse!Free => b[i].count \in 1..StackSize
  BY <1>1, StackIs
<1> QED BY <1>2, SizeIs DEF Space

(* The room on top of the stacks that are not full.                         *)
LEMMA UnfilledSum ==
    ASSUME NEW b \in Inventories, NEW u \in Kinds
    PROVE  Purse!MapThenSumSet(LAMBDA i : StackSize - b[i].count, Purse!Unfilled(b, u))
             = SumFunctionOnSet(Space(b, u), Purse!Unfilled(b, u))
<1> DEFINE D == Purse!Unfilled(b, u)
           P(g) == g = [s \in SUBSET D |-> IF s = {} THEN 0
                          ELSE (StackSize - b[First(s)].count) + g[s \ {First(s)}]]
           iter == CHOOSE g : P(g)
<1>1. \A i \in D : Space(b, u)[i] = StackSize - b[i].count
  <2> TAKE i \in D
  <2>1. i \in Purse!Slots /\ b[i].unit = u /\ u >= 1 /\ u \in Nat
    BY KindsAre DEF Purse!Unfilled
  <2>2. b[i] # Purse!Free
    BY <2>1 DEF Purse!Free
  <2> QED BY <2>1, <2>2 DEF Space
<1>2. Purse!MapThenSumSet(LAMBDA i : StackSize - b[i].count, D) = iter[D]
  BY DEF Purse!MapThenSumSet, Purse!MapThenFoldSet, First
<1>3. \A g : P(g) <=> Sums(g, Space(b, u), D)
  <2> TAKE g
  <2>1. \A s \in SUBSET D : s # {} => Space(b, u)[First(s)] = StackSize - b[First(s)].count
    BY <1>1 DEF First
  <2> HIDE DEF D
  <2> QED BY <2>1 DEF Sums
<1>4. D \subseteq Purse!Slots /\ IsFiniteSet(D)
  BY SlotsFinite, FS_Subset DEF Purse!Unfilled
<1>5. Integral(Space(b, u), D)
  BY <1>4, SpaceIs DEF Integral
<1> HIDE DEF D
<1>6. Sums(iter, Space(b, u), D)
  <2>1. \E g : P(g)
    <3> HIDE DEF P
    <3> QED BY <1>3, <1>4, <1>5, SumExists
  <2>2. P(iter)
    <3> HIDE DEF P
    <3> QED BY <2>1
  <2> HIDE DEF P, iter
  <2> QED BY <2>2, <1>3
<1> HIDE DEF iter, P
<1>7. iter[D] = SumFunctionOnSet(Space(b, u), D)
  BY <1>4, <1>5, <1>6, SumIs
<1> QED BY <1>2, <1>7 DEF D

(* internalAddItem finds room for as many coins as the places have ...      *)
LEMMA RoomIs ==
    ASSUME NEW b \in Inventories, NEW u \in Kinds
    PROVE  /\ Purse!Room(b, u) = SumFunctionOnSet(Space(b, u), Purse!Slots)
           /\ Purse!Room(b, u) \in Nat
<1> DEFINE f == Space(b, u)
           S == Purse!Slots
           F == Purse!FreeSlots(b)
           U == Purse!Unfilled(b, u)
<1>1. F \subseteq S /\ U \subseteq S \ F /\ IsFiniteSet(F) /\ IsFiniteSet(U) /\ IsFiniteSet(S)
  <2>1. F \subseteq S /\ U \subseteq S
    BY DEF Purse!FreeSlots, Purse!Unfilled
  <2>2. \A i \in U : i \notin F
    BY KindsAre DEF Purse!FreeSlots, Purse!Unfilled, Purse!Free
  <2> QED BY <2>1, <2>2, SlotsFinite, FS_Subset
<1>2. \A i \in F : f[i] = StackSize
  BY <1>1 DEF Purse!FreeSlots, Space
<1>3. \A i \in (S \ F) \ U : f[i] = 0
  <2> TAKE i \in (S \ F) \ U
  <2>1. b[i] \in Purse!Stacks /\ b[i] # Purse!Free
    BY DEF Inventories, Purse!FreeSlots
  <2>2. b[i].count \in 1..StackSize
    BY <2>1, StackIs
  <2>3. b[i].unit = u => b[i].count = StackSize
    BY <2>2, SizeIs DEF Purse!Unfilled
  <2> QED BY <2>1, <2>3, SizeIs DEF Space
<1>4. Integral(f, S) /\ \A i \in S : f[i] \in Nat
  BY SpaceIs
<1>5. Cardinality(F) = Purse!Cardinality(F)
  BY Zenon DEF Cardinality, Purse!Cardinality
<1>6. Purse!Room(b, u) = Cardinality(F) * StackSize + SumFunctionOnSet(f, U)
  BY <1>5, UnfilledSum DEF Purse!Room
<1> HIDE DEF f, S, F, U
<1>7. /\ IsFiniteSet(S \ F) /\ IsFiniteSet((S \ F) \ U) /\ Integral(f, S \ F)
      /\ F \in SUBSET S /\ U \in SUBSET (S \ F)
  BY <1>1, <1>4, FS_Subset DEF Integral
<1>8. SumFunctionOnSet(f, S) = SumFunctionOnSet(f, F) + SumFunctionOnSet(f, S \ F)
  BY <1>1, <1>4, <1>7, SumSplit
<1>9. SumFunctionOnSet(f, S \ F) = SumFunctionOnSet(f, U) + SumFunctionOnSet(f, (S \ F) \ U)
  BY <1>7, SumSplit
<1>10. SumFunctionOnSet(f, F) = StackSize * Cardinality(F)
  <2>1. StackSize \in Int
    BY SizeIs
  <2> QED BY <1>1, <1>2, <2>1, SumConstant
<1>11. SumFunctionOnSet(f, (S \ F) \ U) = 0
  BY <1>3, <1>7, SumZero
<1>12. SumFunctionOnSet(f, S) \in Nat
  BY <1>1, <1>4, SumNatural
<1>13. SumFunctionOnSet(f, U) \in Int /\ Cardinality(F) \in Nat
  <2>1. Integral(f, U)
    BY <1>1, <1>4 DEF Integral
  <2> QED BY <2>1, <1>1, SumType, FS_CardinalityType
<1>14. SumFunctionOnSet(f, S) = StackSize * Cardinality(F) + SumFunctionOnSet(f, U)
  BY <1>8, <1>9, <1>10, <1>11, <1>13, SizeIs
<1>15. StackSize * Cardinality(F) = Cardinality(F) * StackSize
  BY <1>13, SizeIs
<1>16. Purse!Room(b, u) = SumFunctionOnSet(f, S)
  BY <1>6, <1>14, <1>15
<1> QED BY <1>12, <1>16 DEF f, S

(* ... and as one place changes, so does the room.                          *)
LEMMA RoomChanged ==
    ASSUME NEW b \in Inventories, NEW d \in Inventories, NEW i \in Purse!Slots, NEW u \in Kinds,
           \A j \in Purse!Slots \ {i} : d[j] = b[j]
    PROVE  Purse!Room(d, u) = Purse!Room(b, u) + (Space(d, u)[i] - Space(b, u)[i])
<1> DEFINE f == Space(b, u)
           g == Space(d, u)
<1>1. \A j \in Purse!Slots \ {i} : g[j] = f[j]
  BY DEF Space
<1>2. Integral(f, Purse!Slots) /\ g[i] \in Int
  BY SpaceIs
<1> HIDE DEF f, g
<1>3. IsFiniteSet(Purse!Slots) /\ i \in Purse!Slots
  BY SlotsFinite
<1>4. SumFunctionOnSet(g, Purse!Slots) = SumFunctionOnSet(f, Purse!Slots) + (g[i] - f[i])
  BY ONLY <1>1, <1>2, <1>3, SumChanged
<1> QED BY <1>4, RoomIs DEF f, g

(* The place that a coin is put to has room for it.                         *)
LEMMA PlaceFound ==
    ASSUME NEW b \in Inventories, NEW u \in Kinds, Purse!Room(b, u) > 0,
           NEW to, to = IF Purse!Unfilled(b, u) # {} THEN Purse!Min(Purse!Unfilled(b, u))
                        ELSE Purse!Min(Purse!FreeSlots(b))
    PROVE  /\ to \in Purse!Slots
           /\ \/ b[to] = Purse!Free
              \/ b[to] # Purse!Free /\ b[to].unit = u /\ b[to].count < StackSize
<1>1. \A T \in SUBSET Purse!Slots : T # {} => Purse!Min(T) \in T
  <2> TAKE T \in SUBSET Purse!Slots
  <2> HAVE T # {}
  <2>1. T \in SUBSET Nat
    BY SlotsFinite
  <2>2. PICK e \in T : \A y \in T : e <= y
    BY <2>1, LeastNumber
  <2> QED BY <2>2 DEF Purse!Min
<1>2. Purse!Unfilled(b, u) \subseteq Purse!Slots /\ Purse!FreeSlots(b) \subseteq Purse!Slots
  BY DEF Purse!Unfilled, Purse!FreeSlots
<1>3. CASE Purse!Unfilled(b, u) # {}
  <2>1. to \in Purse!Unfilled(b, u)
    BY <1>1, <1>2, <1>3
  <2> QED BY <2>1, KindsAre DEF Purse!Unfilled, Purse!Free
<1>4. CASE Purse!Unfilled(b, u) = {} /\ Purse!FreeSlots(b) # {}
  <2>1. to \in Purse!FreeSlots(b)
    BY <1>1, <1>2, <1>4
  <2> QED BY <2>1 DEF Purse!FreeSlots
<1>5. CASE Purse!Unfilled(b, u) = {} /\ Purse!FreeSlots(b) = {}
  <2>1. \A i \in Purse!Slots : Space(b, u)[i] = 0
    <3> TAKE i \in Purse!Slots
    <3>1. b[i] \in Purse!Stacks /\ b[i] # Purse!Free
      BY <1>5 DEF Inventories, Purse!FreeSlots
    <3>2. b[i].count \in 1..StackSize
      BY <3>1, StackIs
    <3>3. b[i].unit = u => b[i].count = StackSize
      BY <1>5, <3>2, SizeIs DEF Purse!Unfilled
    <3> QED BY <3>1, <3>3, SizeIs DEF Space
  <2>2. SumFunctionOnSet(Space(b, u), Purse!Slots) = 0
    BY <2>1, SumZero, SlotsFinite
  <2> QED BY <2>2, RoomIs
<1> QED BY <1>3, <1>4, <1>5

(* Coins of one kind leave the stacks of the others.                        *)
OthersStay(b, d, u) ==
    \A j \in Purse!Slots : b[j].unit \notin {0, u} => d[j] = b[j]

(* One more coin takes one of the room, and is worth what it is.            *)
LEMMA PutCoinIs ==
    ASSUME NEW b \in Inventories, NEW u \in Kinds, Purse!Room(b, u) > 0
    PROVE  /\ Purse!PutCoin(b, u) \in Inventories
           /\ Purse!Worth(Purse!PutCoin(b, u)) = Purse!Worth(b) + u
           /\ Purse!Room(Purse!PutCoin(b, u), u) = Purse!Room(b, u) - 1
           /\ OthersStay(b, Purse!PutCoin(b, u), u)
<1> DEFINE to == IF Purse!Unfilled(b, u) # {} THEN Purse!Min(Purse!Unfilled(b, u))
                 ELSE Purse!Min(Purse!FreeSlots(b))
           more == [unit |-> u, count |-> b[to].count + 1]
           d == [b EXCEPT ![to] = more]
<1>1. Purse!PutCoin(b, u) = d
  BY DEF Purse!PutCoin
<1>2. /\ to \in Purse!Slots
      /\ \/ b[to] = Purse!Free
         \/ b[to] # Purse!Free /\ b[to].unit = u /\ b[to].count < StackSize
  BY PlaceFound
<1> HIDE DEF to
<1>3. b[to] \in Purse!Stacks /\ b = [j \in Purse!Slots |-> b[j]]
  BY <1>2 DEF Inventories
<1>4. /\ b[to].count \in 0..(StackSize - 1) /\ Purse!WorthOf(b[to]) = u * b[to].count
      /\ Space(b, u)[to] = StackSize - b[to].count
  <2>1. CASE b[to] = Purse!Free
    <3>1. b[to].count = 0 /\ Purse!WorthOf(b[to]) = 0
      BY <1>3, <2>1, StackIs
    <3>2. u * 0 = 0
      BY KindsAre
    <3> QED BY <1>2, <2>1, <3>1, <3>2, SizeIs DEF Space
  <2>2. CASE b[to] # Purse!Free /\ b[to].unit = u /\ b[to].count < StackSize
    <3>1. b[to].count \in 1..StackSize /\ Purse!WorthOf(b[to]) = u * b[to].count
      BY <1>3, <2>2, StackIs
    <3> QED BY <1>2, <2>2, <3>1, SizeIs DEF Space
  <2> QED BY <1>2, <2>1, <2>2
<1>5. b[to].count + 1 \in 1..StackSize
  BY <1>4, SizeIs
<1>6. more \in Purse!Stacks /\ more # Purse!Free /\ Purse!WorthOf(more) = u * (b[to].count + 1)
  BY <1>5, StackMade
<1>7. d \in Inventories /\ d[to] = more /\ \A j \in Purse!Slots \ {to} : d[j] = b[j]
  BY <1>2, <1>3, <1>6 DEF Inventories
<1>8. Space(d, u)[to] = StackSize - (b[to].count + 1)
  <2>1. more.unit = u /\ more.count = b[to].count + 1
    OBVIOUS
  <2> HIDE DEF more, d
  <2> QED BY <1>2, <1>6, <1>7, <2>1 DEF Space
<1> HIDE DEF d, more
<1>9. Purse!Worth(d) = Purse!Worth(b) + (Purse!WorthOf(d[to]) - Purse!WorthOf(b[to]))
  BY <1>2, <1>7, WorthChanged
<1>10. Purse!Room(d, u) = Purse!Room(b, u) + (Space(d, u)[to] - Space(b, u)[to])
  BY <1>2, <1>7, RoomChanged
<1>11. u * (b[to].count + 1) = u * b[to].count + u
  BY <1>4, KindsAre
<1>12. Purse!Worth(d) = Purse!Worth(b) + u
  <2>1. Purse!Worth(b) \in Nat /\ u * b[to].count \in Int /\ u \in Int
    BY <1>4, KindsAre, WorthIs
  <2> QED BY <2>1, <1>4, <1>6, <1>7, <1>9, <1>11
<1>13. Purse!Room(d, u) = Purse!Room(b, u) - 1
  <2>1. Purse!Room(b, u) \in Nat
    BY RoomIs
  <2> QED BY <2>1, <1>4, <1>8, <1>10, SizeIs
<1>14. OthersStay(b, d, u)
  <2> SUFFICES ASSUME NEW j \in Purse!Slots, b[j].unit \notin {0, u} PROVE d[j] = b[j]
    BY DEF OthersStay
  <2>1. j # to
    BY <1>2 DEF Purse!Free
  <2> QED BY <2>1, <1>7
<1> QED BY <1>1, <1>7, <1>12, <1>13, <1>14

(* The greatest of some numbers is one of them.                             *)
LEMMA PurseMax ==
    ASSUME NEW m \in Nat, NEW S \in SUBSET (1..m), S # {}
    PROVE  Purse!Max(S) \in S
<1>1. S \in SUBSET (0..m)
  OBVIOUS
<1>2. PICK e \in S : \A y \in S : e >= y
  BY <1>1, GreatestNumber
<1> QED BY <1>2 DEF Purse!Max

(* A fold from the left over n elements takes the last one last.            *)
Lasts(n) == [s \in SUBSET (1..n) |-> Purse!Max(s)]

(* So it takes one of them every time.                                      *)
LEMMA LastsPick ==
    ASSUME NEW n \in Nat
    PROVE  Picks(Lasts(n), 1..n) /\ IsFiniteSet(1..n)
<1>1. \A s \in SUBSET (1..n) : s # {} => Purse!Max(s) \in s
  BY PurseMax
<1>2. Picks(Lasts(n), 1..n)
  BY <1>1, Zenon DEF Lasts, Picks
<1> QED BY <1>2, FS_Interval

(* Coins that there is room for.                                            *)
Filled(b, u, n) ==
    {d \in Inventories :
        /\ Purse!Worth(d) = Purse!Worth(b) + u * n
        /\ Purse!Room(d, u) = Purse!Room(b, u) - n
        /\ OthersStay(b, d, u)}

(* One more coin where there is room for it.                                *)
LEMMA FillOne ==
    ASSUME NEW b \in Inventories, NEW u \in Kinds, NEW k \in Nat, k < Purse!Room(b, u),
           NEW d \in Filled(b, u, k)
    PROVE  Purse!PutCoin(d, u) \in Filled(b, u, k + 1)
<1> DEFINE e == Purse!PutCoin(d, u)
<1>1. /\ d \in Inventories /\ Purse!Worth(d) = Purse!Worth(b) + u * k
      /\ Purse!Room(d, u) = Purse!Room(b, u) - k /\ OthersStay(b, d, u)
  BY DEF Filled
<1>2. Purse!Room(b, u) \in Nat /\ Purse!Worth(b) \in Nat /\ u \in Nat /\ u * k \in Int
  BY RoomIs, WorthIs, KindsAre
<1>3. Purse!Room(d, u) > 0
  BY <1>1, <1>2
<1>4. /\ e \in Inventories /\ Purse!Worth(e) = Purse!Worth(d) + u
      /\ Purse!Room(e, u) = Purse!Room(d, u) - 1 /\ OthersStay(d, e, u)
  BY <1>1, <1>3, PutCoinIs
<1> HIDE DEF e
<1>5. u * (k + 1) = u * k + u
  BY <1>2
<1>6. Purse!Worth(e) = Purse!Worth(b) + u * (k + 1)
  BY <1>1, <1>2, <1>4, <1>5
<1>7. Purse!Room(e, u) = Purse!Room(b, u) - (k + 1)
  BY <1>1, <1>2, <1>4
<1>8. OthersStay(b, e, u)
  BY <1>1, <1>4 DEF OthersStay
<1> QED BY <1>4, <1>6, <1>7, <1>8 DEF Filled, e

(* As many coins as there is room for, one after the other.                 *)
LEMMA PutIs ==
    ASSUME NEW b \in Inventories, NEW u \in Kinds, NEW n \in Nat, n <= Purse!Room(b, u)
    PROVE  Purse!Put(b, u, n) \in Filled(b, u, n)
<1> DEFINE D == 1..n
           c == Lasts(n)
           op == [p \in D \X Inventories |-> Purse!PutCoin(p[2], u)]
           Inv == [s \in SUBSET D |-> Filled(b, u, Cardinality(s))]
           P(g) == g = [s \in SUBSET D |->
                          IF s = {} THEN b ELSE Purse!PutCoin(g[s \ {Purse!Max(s)}], u)]
           iter == CHOOSE g : P(g)
<1>1. Picks(c, D) /\ IsFiniteSet(D)
  BY LastsPick
<1>2. Purse!Room(b, u) \in Nat /\ Purse!Worth(b) \in Nat /\ u \in Nat
  BY RoomIs, WorthIs, KindsAre
<1>3. ASSUME NEW s \in SUBSET D, s # {}, NEW v \in Inv[s \ {c[s]}]
      PROVE  /\ c[s] = Purse!Max(s) /\ c[s] \in D /\ s \ {c[s]} \in SUBSET D
             /\ v \in Inventories /\ Purse!PutCoin(v, u) \in Inv[s]
  <2>1. c[s] = Purse!Max(s) /\ c[s] \in s /\ c[s] \in D /\ s \ {c[s]} \in SUBSET D
    BY <1>1, <1>3 DEF Picks, Lasts
  <2>2. Cardinality(D) = n
    BY FS_Interval
  <2>3. IsFiniteSet(s) /\ Cardinality(s) <= n /\ Cardinality(s) \in Nat
    BY <1>1, <2>2, FS_Subset, FS_CardinalityType
  <2>4. /\ Cardinality(s \ {c[s]}) = Cardinality(s) - 1
        /\ Cardinality(s \ {c[s]}) \in Nat
    BY <2>1, <2>3, FS_RemoveElement, FS_CardinalityType
  <2> DEFINE k == Cardinality(s \ {c[s]})
  <2>5. v \in Filled(b, u, k)
    BY <2>1
  <2>6. k \in Nat /\ k < Purse!Room(b, u) /\ k + 1 = Cardinality(s)
    BY <1>2, <2>3, <2>4
  <2> HIDE DEF k
  <2>7. Purse!PutCoin(v, u) \in Filled(b, u, k + 1)
    BY <2>5, <2>6, FillOne
  <2> QED BY <2>1, <2>5, <2>6, <2>7 DEF Filled
<1>4. b \in Inv[{}]
  <2>1. {} \in SUBSET D /\ Cardinality({}) = 0
    BY FS_EmptySet
  <2>2. u * 0 = 0
    BY <1>2
  <2>3. b \in Filled(b, u, 0)
    BY <1>2, <2>2 DEF Filled, OthersStay
  <2> QED BY <2>1, <2>3
<1>5. \E g : P(g)
  <2>1. \A s \in SUBSET D : Inv[s] \subseteq Inventories
    BY DEF Filled
  <2>2. \A i \in D, v \in Inventories : op[<<i, v>>] = Purse!PutCoin(v, u)
    OBVIOUS
  <2>3. ASSUME NEW s \in SUBSET D, s # {}, NEW v \in Inv[s \ {c[s]}]
        PROVE  op[<<c[s], v>>] \in Inv[s]
    <3>1. c[s] \in D /\ v \in Inventories /\ Purse!PutCoin(v, u) \in Inv[s]
      BY <1>3, <2>3
    <3> HIDE DEF Inv, op, c
    <3> QED BY <3>1, <2>2
  <2> HIDE DEF Inv, op, c, D
  <2>4. PICK h : Folds(h, D, c, op, b) /\ \A s \in SUBSET D : h[s] \in Inv[s]
    BY <1>1, <1>4, <2>1, <2>3, FoldWithin
  <2>5. ASSUME NEW s \in SUBSET D, s # {}
        PROVE  op[<<c[s], h[s \ {c[s]}]>>] = Purse!PutCoin(h[s \ {Purse!Max(s)}], u)
    <3>1. s \ {c[s]} \in SUBSET D
      OBVIOUS
    <3>2. h[s \ {c[s]}] \in Inv[s \ {c[s]}]
      BY <2>4, <3>1
    <3>3. c[s] = Purse!Max(s) /\ c[s] \in D /\ h[s \ {c[s]}] \in Inventories
      BY <1>3, <2>5, <3>2
    <3>4. op[<<c[s], h[s \ {c[s]}]>>] = Purse!PutCoin(h[s \ {c[s]}], u)
      BY <2>2, <3>3
    <3> QED BY <3>3, <3>4
  <2>6. h = [s \in SUBSET D |-> IF s = {} THEN b ELSE op[<<c[s], h[s \ {c[s]}]>>]]
    BY <2>4 DEF Folds
  <2>7. P(h)
    BY <2>5, <2>6
  <2> HIDE DEF P
  <2> QED BY <2>7
<1>6. P(iter)
  <2> HIDE DEF P
  <2> QED BY <1>5
<1> HIDE DEF iter
<1>7. iter[D] \in Inv[D]
  <2> DEFINE Good == {s \in SUBSET D : iter[s] \in Inv[s]}
  <2>1. {} \in Good
    BY <1>4, <1>6
  <2>2. ASSUME NEW s \in SUBSET D, s # {}, s \ {c[s]} \in Good PROVE s \in Good
    <3>1. iter[s \ {c[s]}] \in Inv[s \ {c[s]}]
      BY <2>2
    <3>2. c[s] = Purse!Max(s) /\ Purse!PutCoin(iter[s \ {c[s]}], u) \in Inv[s]
      BY <1>3, <2>2, <3>1
    <3>3. iter[s] = Purse!PutCoin(iter[s \ {c[s]}], u)
      BY <1>6, <2>2, <3>2
    <3> QED BY <3>2, <3>3
  <2>3. SUBSET D \subseteq Good
    <3> HIDE DEF Good, c, D
    <3> QED BY <1>1, <2>1, <2>2, FoldInduction
  <2>4. D \in SUBSET D
    OBVIOUS
  <2> QED BY <2>3, <2>4
<1>8. Inv[D] = Filled(b, u, n)
  <2>1. D \in SUBSET D /\ Cardinality(D) = n
    BY FS_Interval
  <2> QED BY <2>1
<1>9. Purse!Put(b, u, n) = iter[D]
  <2>1. DOMAIN [k \in 1..n |-> k] = D
    OBVIOUS
  <2> QED BY <2>1 DEF Purse!Put, Purse!FoldLeft, Purse!MapThenFoldSet, iter
<1> QED BY <1>7, <1>8, <1>9

CoinStack == [unit : Kinds, count : 1..StackSize]

(* A call leaves the stacks of coins above m alone.                         *)
StaysAbove(b, d, m) == \A j \in Purse!Slots : b[j].unit > m => d[j] = b[j]

(* A stack of coins is worth something.                                     *)
LEMMA CoinStackIs ==
    ASSUME NEW st \in CoinStack
    PROVE  /\ st.unit \in Kinds /\ st.count \in 1..StackSize /\ st.count \in Nat
           /\ st \in Purse!Stacks /\ Purse!WorthOf(st) = st.unit * st.count
           /\ Purse!WorthOf(st) \in Nat /\ Purse!WorthOf(st) >= 1
<1>1. st \in Purse!Stacks
  BY DEF CoinStack, Purse!Stacks, Kinds
<1>2. st.unit \in Kinds /\ st.count \in 1..StackSize
  BY DEF CoinStack
<1>3. st.count \in Nat /\ st.unit \in Nat /\ st.unit >= 1 /\ st.count >= 1
  BY <1>2, SizeIs, KindsAre
<1>4. st.unit <= Purse!WorthOf(st)
  BY <1>1, <1>3, StackIs DEF Purse!Free
<1> QED BY <1>1, <1>2, <1>3, <1>4, StackIs

(* What a call works on, part by part.                                      *)
LEMMA PurseFields ==
    ASSUME NEW w \in Purses
    PROVE  /\ w.bag \in Inventories /\ w.ground \in Nat /\ w.added \in Nat /\ w.left \in Nat
           /\ w.ok \in BOOLEAN /\ w.vanished \in BOOLEAN /\ w.doubled \in BOOLEAN
           /\ Purse!Worth(w.bag) \in Nat
<1>1. /\ w.bag \in Inventories /\ w.ground \in Nat /\ w.added \in Nat /\ w.left \in Nat
      /\ w.ok \in BOOLEAN /\ w.vanished \in BOOLEAN /\ w.doubled \in BOOLEAN
  BY DEF Purses
<1> QED BY <1>1, WorthIs

(* What a stack of coins brings, wherever it goes.                          *)
Brings(w, e, st) ==
    /\ e \in Purses /\ e.left = w.left /\ e.doubled = w.doubled
    /\ w.vanished => e.vanished
    /\ e.vanished \/ Purse!Worth(e.bag) + e.ground + w.added
                       = Purse!Worth(w.bag) + w.ground + e.added
    /\ e.added = IF e.ok THEN w.added + Purse!WorthOf(st) ELSE w.added
    /\ OthersStay(w.bag, e.bag, st.unit)

(* The lesser of two numbers.                                               *)
LEMMA LeastOfTwo ==
    ASSUME NEW a \in Nat, NEW c \in Nat
    PROVE  Purse!Min({a, c}) = IF a <= c THEN a ELSE c
<1>1. \E e \in {a, c} : \A y \in {a, c} : e <= y
  OBVIOUS
<1>2. Purse!Min({a, c}) \in {a, c} /\ \A y \in {a, c} : Purse!Min({a, c}) <= y
  BY <1>1 DEF Purse!Min
<1> QED BY <1>2

(* internalAddItem: some may vanish, and then it is known.                  *)
LEMMA ItemAdded ==
    ASSUME NEW w \in Purses, w.ok, NEW st \in CoinStack
    PROVE  /\ Brings(w, Purse!InternalAddItem(w, st), st)
           /\ Purse!InternalAddItem(w, st).ok
<1> DEFINE u == st.unit
           room == Purse!Room(w.bag, u)
           placed == Purse!Min({st.count, room})
           d == Purse!Put(w.bag, u, placed)
           e == [w EXCEPT !.bag = d, !.added = w.added + Purse!WorthOf(st),
                          !.vanished = w.vanished \/ placed < st.count]
<1>1. Purse!InternalAddItem(w, st) = e
  BY DEF Purse!InternalAddItem
<1>2. /\ w.bag \in Inventories /\ u \in Kinds /\ u \in Nat /\ room \in Nat /\ st.count \in Nat
      /\ Purse!WorthOf(st) = u * st.count /\ Purse!WorthOf(st) \in Nat
      /\ Purse!Worth(w.bag) \in Nat /\ w.ground \in Nat /\ w.added \in Nat
  BY CoinStackIs, PurseFields, RoomIs, KindsAre
<1>3. placed = IF st.count <= room THEN st.count ELSE room
  BY <1>2, LeastOfTwo
<1> HIDE DEF u, room, placed
<1>4. placed \in Nat /\ placed <= room /\ placed <= st.count
  BY <1>2, <1>3
<1>5. d \in Filled(w.bag, u, placed)
  BY <1>2, <1>4, PutIs DEF room
<1>6. /\ d \in Inventories /\ Purse!Worth(d) = Purse!Worth(w.bag) + u * placed
      /\ OthersStay(w.bag, d, u)
  BY <1>5 DEF Filled
<1> HIDE DEF d
<1> DEFINE lost == w.vanished \/ placed < st.count
           more == w.added + Purse!WorthOf(st)
<1>7. lost \in BOOLEAN
  BY Zenon
<1>8. more \in Nat
  BY <1>2
<1> HIDE DEF lost
<1>9. /\ e \in Purses /\ e.bag = d /\ e.added = more /\ e.vanished = lost
      /\ e.left = w.left /\ e.doubled = w.doubled /\ e.ground = w.ground /\ e.ok = w.ok
  <2>1. e = [w EXCEPT !.bag = d, !.added = more, !.vanished = lost]
    BY DEF lost
  <2> HIDE DEF e, more
  <2> QED BY <1>6, <1>7, <1>8, <2>1 DEF Purses
<1>10. e.vanished \/ Purse!Worth(e.bag) + e.ground + w.added
                       = Purse!Worth(w.bag) + w.ground + e.added
  <2>1. CASE placed < st.count
    <3>1. lost
      BY <2>1 DEF lost
    <3> QED BY <3>1, <1>9
  <2>2. CASE ~(placed < st.count)
    <3>1. placed = st.count
      BY <2>2, <1>2, <1>4
    <3>2. Purse!Worth(d) = Purse!Worth(w.bag) + Purse!WorthOf(st)
      BY <1>2, <1>6, <3>1
    <3> HIDE DEF e
    <3> QED BY <1>2, <1>9, <3>2
  <2> QED BY <2>1, <2>2
<1>11. w.vanished => e.vanished
  BY <1>9 DEF lost
<1> HIDE DEF e
<1>12. e.ok /\ e.added = w.added + Purse!WorthOf(st)
  BY <1>9
<1>13. Brings(w, e, st)
  BY <1>6, <1>9, <1>10, <1>11, <1>12 DEF Brings, u
<1> QED BY <1>1, <1>12, <1>13

(* addCoinStack: in the inventory, on the ground or nowhere.                *)
LEMMA StackAdded ==
    ASSUME NEW w \in Purses, NEW st \in CoinStack, NEW drop \in BOOLEAN
    PROVE  LET e == Purse!AddCoinStack(w, st, drop)
           IN  Brings(w, e, st) /\ (~w.ok => ~e.ok) /\ (drop /\ w.ok => e.ok)
<1> DEFINE e == Purse!AddCoinStack(w, st, drop)
           room == Purse!Room(w.bag, st.unit)
<1> SUFFICES Brings(w, e, st) /\ (~w.ok => ~e.ok) /\ (drop /\ w.ok => e.ok)
  OBVIOUS
<1>1. /\ w.bag \in Inventories /\ w.ground \in Nat /\ w.added \in Nat /\ w.ok \in BOOLEAN
      /\ Purse!Worth(w.bag) \in Nat /\ room \in Nat /\ Purse!WorthOf(st) \in Nat
  BY PurseFields, CoinStackIs, RoomIs
<1>2. \A b : OthersStay(b, b, st.unit)
  BY DEF OthersStay
<1>3. CASE ~w.ok
  <2>1. e = w
    BY <1>3 DEF Purse!AddCoinStack
  <2> HIDE DEF e
  <2> QED BY <1>1, <1>2, <1>3, <2>1 DEF Brings
<1>4. CASE w.ok /\ room > 0
  <2>1. e = Purse!InternalAddItem(w, st)
    BY <1>4 DEF Purse!AddCoinStack
  <2> QED BY <2>1, <1>4, ItemAdded
<1>5. CASE w.ok /\ room = 0 /\ drop
  <2> DEFINE g == w.ground + Purse!WorthOf(st)
             a == w.added + Purse!WorthOf(st)
  <2>1. e = [w EXCEPT !.ground = g, !.added = a]
    BY <1>5 DEF Purse!AddCoinStack
  <2>2. g \in Nat /\ a \in Nat
    BY <1>1
  <2> HIDE DEF e, g, a
  <2>3. /\ e \in Purses /\ e.bag = w.bag /\ e.ground = g /\ e.added = a /\ e.left = w.left
        /\ e.doubled = w.doubled /\ e.vanished = w.vanished /\ e.ok = w.ok
    BY <2>1, <2>2 DEF Purses
  <2>4. Purse!Worth(e.bag) + e.ground + w.added = Purse!Worth(w.bag) + w.ground + e.added
    BY <1>1, <2>3 DEF g, a
  <2> QED BY <1>2, <1>5, <2>3, <2>4 DEF Brings, a
<1>6. CASE w.ok /\ room = 0 /\ ~drop
  <2>1. e = [w EXCEPT !.ok = FALSE]
    BY <1>6 DEF Purse!AddCoinStack
  <2> HIDE DEF e
  <2>2. /\ e \in Purses /\ e.bag = w.bag /\ e.ground = w.ground /\ e.added = w.added
        /\ e.left = w.left /\ e.doubled = w.doubled /\ e.vanished = w.vanished /\ e.ok = FALSE
    BY <2>1 DEF Purses
  <2> QED BY <1>1, <1>2, <1>6, <2>2 DEF Brings
<1> QED BY <1>1, <1>3, <1>4, <1>5, <1>6

(* The worth of the stacks of a sequence, and of all of them.               *)
SeqWorths(q) == [i \in 1..Len(q) |-> Purse!WorthOf(q[i])]
Total(q) == SumFunctionOnSet(SeqWorths(q), 1..Len(q))

(* They are numbers, for a sum.                                             *)
LEMMA SeqWorthsAre ==
    ASSUME NEW q \in Seq(CoinStack)
    PROVE  /\ Integral(SeqWorths(q), 1..Len(q)) /\ Len(q) \in Nat
           /\ \A i \in 1..Len(q) : /\ q[i] \in CoinStack
                                   /\ SeqWorths(q)[i] = Purse!WorthOf(q[i])
                                   /\ SeqWorths(q)[i] \in Nat
<1>1. Len(q) \in Nat /\ \A i \in 1..Len(q) : q[i] \in CoinStack
  OBVIOUS
<1>2. \A i \in 1..Len(q) : SeqWorths(q)[i] = Purse!WorthOf(q[i])
                           /\ SeqWorths(q)[i] \in Nat
  BY <1>1, CoinStackIs DEF SeqWorths
<1> QED BY <1>1, <1>2 DEF Integral

(* What addMoney has made of w when it has come to coins worth t, none of   *)
(* which is above m.                                                        *)
Added(w, m, drop, t) ==
    {e \in Purses :
        /\ e.left = w.left /\ e.doubled = w.doubled /\ (w.vanished => e.vanished)
        /\ e.vanished \/ Purse!Worth(e.bag) + e.ground
                           = Purse!Worth(w.bag) + w.ground + e.added
        /\ e.added <= t /\ (e.ok => e.added = t) /\ (drop => e.ok)
        /\ StaysAbove(w.bag, e.bag, m)}

(* addMoney starts with nothing added, ...                                  *)
LEMMA AddedStarts ==
    ASSUME NEW w \in Purses, NEW m \in Nat, NEW drop \in BOOLEAN
    PROVE  [w EXCEPT !.added = 0, !.ok = TRUE] \in Added(w, m, drop, 0)
<1> DEFINE e == [w EXCEPT !.added = 0, !.ok = TRUE]
<1>1. /\ e \in Purses /\ e.bag = w.bag /\ e.ground = w.ground /\ e.added = 0
      /\ e.left = w.left /\ e.doubled = w.doubled /\ e.vanished = w.vanished /\ e.ok
  BY DEF Purses
<1> HIDE DEF e
<1>2. Purse!Worth(w.bag) \in Nat /\ w.ground \in Nat
  BY PurseFields
<1>3. Purse!Worth(e.bag) + e.ground = Purse!Worth(w.bag) + w.ground + e.added
  BY <1>1, <1>2
<1>4. e.added <= 0 /\ (e.ok => e.added = 0) /\ (drop => e.ok) /\ (w.vanished => e.vanished)
  BY <1>1
<1>5. StaysAbove(w.bag, e.bag, m)
  BY <1>1 DEF StaysAbove
<1>6. e \in Added(w, m, drop, 0)
  BY <1>1, <1>3, <1>4, <1>5, Zenon DEF Added
<1> QED BY <1>6 DEF e

(* ... adds one stack, ...                                                  *)
LEMMA AddedOne ==
    ASSUME NEW w \in Purses, NEW m \in Nat, NEW drop \in BOOLEAN, NEW t \in Nat,
           NEW v \in Added(w, m, drop, t), NEW st \in CoinStack, st.unit <= m
    PROVE  Purse!AddCoinStack(v, st, drop) \in Added(w, m, drop, t + Purse!WorthOf(st))
<1> DEFINE e == Purse!AddCoinStack(v, st, drop)
<1>1. /\ v \in Purses /\ v.left = w.left /\ v.doubled = w.doubled
      /\ w.vanished => v.vanished
      /\ v.vanished \/ Purse!Worth(v.bag) + v.ground
                         = Purse!Worth(w.bag) + w.ground + v.added
      /\ v.added <= t /\ (v.ok => v.added = t) /\ (drop => v.ok)
      /\ StaysAbove(w.bag, v.bag, m)
  BY DEF Added
<1>2. Brings(v, e, st) /\ (~v.ok => ~e.ok) /\ (drop /\ v.ok => e.ok)
  BY <1>1, StackAdded
<1> HIDE DEF e
<1>3. /\ e \in Purses /\ e.left = v.left /\ e.doubled = v.doubled
      /\ v.vanished => e.vanished
      /\ e.vanished \/ Purse!Worth(e.bag) + e.ground + v.added
                         = Purse!Worth(v.bag) + v.ground + e.added
      /\ e.added = (IF e.ok THEN v.added + Purse!WorthOf(st) ELSE v.added)
      /\ OthersStay(v.bag, e.bag, st.unit)
  BY <1>2, Zenon DEF Brings
<1>4. /\ Purse!WorthOf(st) \in Nat /\ st.unit \in Nat /\ Purse!Worth(w.bag) \in Nat
      /\ Purse!Worth(v.bag) \in Nat /\ Purse!Worth(e.bag) \in Nat
      /\ w.ground \in Nat /\ v.ground \in Nat /\ e.ground \in Nat
      /\ v.added \in Nat /\ e.added \in Nat
  BY <1>1, <1>3, PurseFields, CoinStackIs, KindsAre
<1>5. e.vanished \/ Purse!Worth(e.bag) + e.ground = Purse!Worth(w.bag) + w.ground + e.added
  BY <1>1, <1>3, <1>4
<1>6. /\ e.added <= t + Purse!WorthOf(st)
      /\ e.ok => e.added = t + Purse!WorthOf(st)
  BY <1>1, <1>2, <1>3, <1>4
<1>7. StaysAbove(w.bag, e.bag, m)
  <2> SUFFICES ASSUME NEW j \in Purse!Slots, w.bag[j].unit > m PROVE e.bag[j] = w.bag[j]
    BY DEF StaysAbove
  <2>1. v.bag[j] = w.bag[j]
    BY <1>1 DEF StaysAbove
  <2>2. w.bag[j] \in Purse!Stacks
    BY PurseFields DEF Inventories
  <2>3. w.bag[j].unit \in Nat
    BY <2>2, StackIs
  <2>4. v.bag[j].unit \notin {0, st.unit}
    BY <1>4, <2>1, <2>3
  <2> QED BY <1>3, <2>1, <2>4 DEF OthersStay
<1>8. (w.vanished => e.vanished) /\ (drop => e.ok) /\ e.left = w.left /\ e.doubled = w.doubled
  BY <1>1, <1>2, <1>3
<1> QED BY <1>3, <1>5, <1>6, <1>7, <1>8 DEF Added, e

(* All the stacks of a sequence, one after the other.                       *)
AddAll(w, q, drop) ==
    Purse!FoldLeft(LAMBDA e, st : Purse!AddCoinStack(e, st, drop),
                   [w EXCEPT !.added = 0, !.ok = TRUE], q)

(* ... and in the end all of them.                                          *)
LEMMA AllAdded ==
    ASSUME NEW w \in Purses, NEW m \in Nat, NEW drop \in BOOLEAN, NEW q \in Seq(CoinStack),
           \A i \in 1..Len(q) : q[i].unit <= m
    PROVE  AddAll(w, q, drop) \in Added(w, m, drop, Total(q))
<1> DEFINE n == Len(q)
           D == 1..n
           c == Lasts(n)
           f == SeqWorths(q)
           base == [w EXCEPT !.added = 0, !.ok = TRUE]
           op == [p \in D \X Purses |-> Purse!AddCoinStack(p[2], q[p[1]], drop)]
           Inv == [s \in SUBSET D |-> Added(w, m, drop, SumFunctionOnSet(f, s))]
           P(g) == g = [s \in SUBSET D |-> IF s = {} THEN base ELSE
                          Purse!AddCoinStack(g[s \ {Purse!Max(s)}], q[Purse!Max(s)], drop)]
           iter == CHOOSE g : P(g)
<1>1. Picks(c, D) /\ IsFiniteSet(D)
  BY LastsPick
<1>2. /\ Integral(f, D) /\ n \in Nat
      /\ \A i \in D : q[i] \in CoinStack /\ f[i] = Purse!WorthOf(q[i]) /\ f[i] \in Nat
                      /\ q[i].unit <= m
  BY SeqWorthsAre
<1> HIDE DEF f, n
<1>3. ASSUME NEW s \in SUBSET D, s # {}, NEW v \in Inv[s \ {c[s]}]
      PROVE  /\ c[s] = Purse!Max(s) /\ c[s] \in D /\ s \ {c[s]} \in SUBSET D
             /\ v \in Purses /\ Purse!AddCoinStack(v, q[Purse!Max(s)], drop) \in Inv[s]
  <2>1. c[s] = Purse!Max(s) /\ c[s] \in s /\ c[s] \in D /\ s \ {c[s]} \in SUBSET D
    BY <1>1, <1>3 DEF Picks, Lasts
  <2> DEFINE i == Purse!Max(s)
             t == SumFunctionOnSet(f, s \ {i})
  <2>2. i \in s /\ i \in D /\ s \ {i} \in SUBSET D /\ c[s] = i
    BY <2>1
  <2> HIDE DEF i
  <2>3. IsFiniteSet(s) /\ IsFiniteSet(s \ {i}) /\ Integral(f, s)
    BY <1>1, <1>2, FS_Subset DEF Integral
  <2>4. SumFunctionOnSet(f, s) = f[i] + t
    <3> HIDE DEF t, c, D
    <3> QED BY <2>2, <2>3, SumRemove DEF t
  <2>5. t \in Nat
    <3>1. \A k \in s \ {i} : f[k] \in Nat
      BY <1>2
    <3> QED BY <2>3, <3>1, SumNatural
  <2>6. v \in Added(w, m, drop, t)
    BY <2>2
  <2> HIDE DEF t
  <2>7. q[i] \in CoinStack /\ q[i].unit <= m /\ f[i] = Purse!WorthOf(q[i]) /\ f[i] \in Nat
    BY <1>2, <2>2
  <2>8. Purse!AddCoinStack(v, q[i], drop) \in Added(w, m, drop, t + Purse!WorthOf(q[i]))
    BY <2>5, <2>6, <2>7, AddedOne
  <2>9. SumFunctionOnSet(f, s) = t + Purse!WorthOf(q[i])
    BY <2>4, <2>5, <2>7
  <2>10. Inv[s] = Added(w, m, drop, SumFunctionOnSet(f, s))
    OBVIOUS
  <2>11. v \in Purses
    BY <2>6 DEF Added
  <2> HIDE DEF Inv
  <2>12. Purse!AddCoinStack(v, q[i], drop) \in Inv[s]
    BY <2>8, <2>9, <2>10
  <2> QED BY <2>1, <2>11, <2>12 DEF i
<1>4. base \in Inv[{}]
  <2>1. {} \in SUBSET D /\ SumFunctionOnSet(f, {}) = 0
    BY SumEmpty
  <2>2. base \in Added(w, m, drop, 0)
    BY AddedStarts
  <2>3. Inv[{}] = Added(w, m, drop, 0)
    BY <2>1
  <2> QED BY <2>2, <2>3
<1> HIDE DEF base
<1>5. \E g : P(g)
  <2>1. \A s \in SUBSET D : Inv[s] \subseteq Purses
    BY DEF Added
  <2>2. \A i \in D, v \in Purses : op[<<i, v>>] = Purse!AddCoinStack(v, q[i], drop)
    OBVIOUS
  <2>3. ASSUME NEW s \in SUBSET D, s # {}, NEW v \in Inv[s \ {c[s]}]
        PROVE  op[<<c[s], v>>] \in Inv[s]
    <3>1. /\ c[s] \in D /\ v \in Purses /\ c[s] = Purse!Max(s)
          /\ Purse!AddCoinStack(v, q[Purse!Max(s)], drop) \in Inv[s]
      BY <1>3, <2>3
    <3> HIDE DEF Inv, op, c
    <3> QED BY <3>1, <2>2
  <2> HIDE DEF Inv, op, c, D
  <2>4. PICK h : Folds(h, D, c, op, base) /\ \A s \in SUBSET D : h[s] \in Inv[s]
    BY <1>1, <1>4, <2>1, <2>3, FoldWithin
  <2>5. ASSUME NEW s \in SUBSET D, s # {}
        PROVE  op[<<c[s], h[s \ {c[s]}]>>]
                 = Purse!AddCoinStack(h[s \ {Purse!Max(s)}], q[Purse!Max(s)], drop)
    <3>1. s \ {c[s]} \in SUBSET D
      OBVIOUS
    <3>2. h[s \ {c[s]}] \in Inv[s \ {c[s]}]
      BY <2>4, <3>1
    <3>3. c[s] = Purse!Max(s) /\ c[s] \in D /\ h[s \ {c[s]}] \in Purses
      BY <1>3, <2>5, <3>2
    <3>4. op[<<c[s], h[s \ {c[s]}]>>] = Purse!AddCoinStack(h[s \ {c[s]}], q[c[s]], drop)
      BY <2>2, <3>3
    <3> QED BY <3>3, <3>4
  <2>6. h = [s \in SUBSET D |-> IF s = {} THEN base ELSE op[<<c[s], h[s \ {c[s]}]>>]]
    BY <2>4 DEF Folds
  <2>7. P(h)
    BY <2>5, <2>6
  <2> HIDE DEF P
  <2> QED BY <2>7
<1>6. P(iter)
  <2> HIDE DEF P
  <2> QED BY <1>5
<1> HIDE DEF iter
<1>7. iter[D] \in Inv[D]
  <2> DEFINE Good == {s \in SUBSET D : iter[s] \in Inv[s]}
  <2>1. {} \in Good
    BY <1>4, <1>6
  <2>2. ASSUME NEW s \in SUBSET D, s # {}, s \ {c[s]} \in Good PROVE s \in Good
    <3>1. iter[s \ {c[s]}] \in Inv[s \ {c[s]}]
      BY <2>2
    <3>2. /\ c[s] = Purse!Max(s)
          /\ Purse!AddCoinStack(iter[s \ {c[s]}], q[Purse!Max(s)], drop) \in Inv[s]
      BY <1>3, <2>2, <3>1
    <3>3. iter[s] = Purse!AddCoinStack(iter[s \ {c[s]}], q[Purse!Max(s)], drop)
      BY <1>6, <2>2, <3>2
    <3> QED BY <3>2, <3>3
  <2>3. SUBSET D \subseteq Good
    <3>1. \A s \in SUBSET D : s # {} /\ s \ {c[s]} \in Good => s \in Good
      BY <2>2
    <3> HIDE DEF Good, c, D
    <3> QED BY ONLY <1>1, <2>1, <3>1, FoldInduction, SMTT(30)
  <2>4. D \in SUBSET D
    OBVIOUS
  <2> QED BY <2>3, <2>4
<1>8. Inv[D] = Added(w, m, drop, Total(q))
  BY DEF Total, f, n
<1>9. AddAll(w, q, drop) = iter[D]
  <2>1. DOMAIN q = D
    BY DEF n
  <2> QED BY <2>1 DEF AddAll, Purse!FoldLeft, Purse!MapThenFoldSet, iter, base
<1> QED BY <1>7, <1>8, <1>9

(* Two sequences, one after the other.                                      *)
LEMMA TotalOfBoth ==
    ASSUME NEW p \in Seq(CoinStack), NEW q \in Seq(CoinStack)
    PROVE  Total(p \o q) = Total(p) + Total(q)
<1> DEFINE a == Len(p)
           n == Len(q)
           f == SeqWorths(p \o q)
           h == SeqWorths(q)
           g == [k \in 0..n |-> SumFunctionOnSet(f, 1..(a + k)) - SumFunctionOnSet(f, 1..a)]
<1>1. p \o q \in Seq(CoinStack) /\ Len(p \o q) = a + n /\ a \in Nat /\ n \in Nat
  OBVIOUS
<1>2. /\ \A i \in 1..a : (p \o q)[i] = p[i]
      /\ \A i \in 1..n : (p \o q)[a + i] = q[i]
  OBVIOUS
<1>3. /\ \A i \in 1..(a + n) : f[i] = Purse!WorthOf((p \o q)[i]) /\ f[i] \in Int
      /\ \A i \in 1..n : h[i] = Purse!WorthOf(q[i]) /\ h[i] \in Int
      /\ \A i \in 1..a : SeqWorths(p)[i] = Purse!WorthOf(p[i]) /\ SeqWorths(p)[i] \in Int
  <2>1. \A r \in Seq(CoinStack) : \A i \in 1..Len(r) :
          SeqWorths(r)[i] = Purse!WorthOf(r[i]) /\ SeqWorths(r)[i] \in Int
    BY SeqWorthsAre
  <2>2. \A i \in 1..(a + n) : f[i] = Purse!WorthOf((p \o q)[i]) /\ f[i] \in Int
    <3>1. \A r : r = p \o q => r \in Seq(CoinStack) /\ Len(r) = a + n
      BY <1>1
    <3> QED BY <2>1, <3>1
  <2>3. \A i \in 1..n : h[i] = Purse!WorthOf(q[i]) /\ h[i] \in Int
    BY <2>1
  <2>4. \A i \in 1..a : SeqWorths(p)[i] = Purse!WorthOf(p[i]) /\ SeqWorths(p)[i] \in Int
    BY <2>1
  <2> QED BY <2>2, <2>3, <2>4
<1>4. \A i \in 1..n : f[a + i] = h[i]
  BY <1>1, <1>2, <1>3
<1>5. \A i \in 1..a : f[i] = SeqWorths(p)[i]
  BY <1>1, <1>2, <1>3
<1> HIDE DEF f, h, a, n
<1>6. \A k \in 0..n : /\ IsFiniteSet(1..(a + k)) /\ Integral(f, 1..(a + k))
                      /\ SumFunctionOnSet(f, 1..(a + k)) \in Int
  <2> TAKE k \in 0..n
  <2>1. a + k \in Int /\ \A i \in 1..(a + k) : i \in 1..(a + n)
    BY <1>1
  <2>2. IsFiniteSet(1..(a + k)) /\ Integral(f, 1..(a + k))
    BY <1>3, <2>1, FS_Interval DEF Integral
  <2> QED BY <2>2, SumType
<1>7. SumFunctionOnSet(f, 1..a) \in Int /\ 0 \in 0..n /\ a + 0 = a
  <2>1. a + 0 = a /\ 0 \in 0..n
    BY <1>1
  <2> QED BY <1>6, <2>1
<1>8. g[0] = 0
  BY <1>7
<1>9. ASSUME NEW k \in 1..n PROVE g[k] = g[k - 1] + h[k]
  <2>1. /\ k \in 0..n /\ k - 1 \in 0..n /\ a + k \in 1..(a + n)
        /\ 1..(a + k) = (1..(a + (k - 1))) \cup {a + k} /\ a + k \notin 1..(a + (k - 1))
    BY <1>1
  <2>2. SumFunctionOnSet(f, 1..(a + k)) = f[a + k] + SumFunctionOnSet(f, 1..(a + (k - 1)))
    <3>1. IsFiniteSet(1..(a + (k - 1))) /\ Integral(f, (1..(a + (k - 1))) \cup {a + k})
      BY <1>6, <2>1
    <3> QED BY ONLY <2>1, <3>1, SumAdd
  <2>3. f[a + k] = h[k] /\ h[k] \in Int
    BY <1>3, <1>4
  <2>4. /\ SumFunctionOnSet(f, 1..(a + (k - 1))) \in Int
        /\ SumFunctionOnSet(f, 1..a) \in Int
    BY <1>6, <1>7, <2>1
  <2> QED BY <2>1, <2>2, <2>3, <2>4
<1>10. Integral(h, 1..n)
  BY <1>3 DEF Integral
<1> HIDE DEF g
<1>11. SumFunctionOnSet(h, 1..n) = g[n]
  BY <1>1, <1>8, <1>9, <1>10, SumPrefix
<1>12. SumFunctionOnSet(f, 1..a) = SumFunctionOnSet(SeqWorths(p), 1..a)
  <2>1. IsFiniteSet(1..a) /\ Integral(SeqWorths(p), 1..a)
    <3>1. Integral(SeqWorths(p), 1..a)
      BY <1>3 DEF Integral
    <3> QED BY <1>6, <1>7, <3>1
  <2> QED BY <1>5, <2>1, SumEqual
<1>13. g[n] = SumFunctionOnSet(f, 1..(a + n)) - SumFunctionOnSet(f, 1..a)
       /\ SumFunctionOnSet(f, 1..(a + n)) \in Int
  BY <1>1, <1>6 DEF g
<1>14. /\ Total(p \o q) = SumFunctionOnSet(f, 1..(a + n))
       /\ Total(q) = SumFunctionOnSet(h, 1..n)
       /\ Total(p) = SumFunctionOnSet(SeqWorths(p), 1..a)
  BY <1>1 DEF Total, f, h, a, n
<1> QED BY <1>7, <1>11, <1>12, <1>13, <1>14

(* A quotient and a remainder.                                              *)
LEMMA Divides ==
    ASSUME NEW n \in Nat \ {0}, NEW a \in Nat
    PROVE  /\ a = n * (a \div n) + (a % n)
           /\ a % n \in 0..(n - 1) /\ a % n \in Nat /\ a \div n \in Nat
  OBVIOUS

(* The remainder of what was put together.                                  *)
LEMMA Remainder ==
    ASSUME NEW n \in Nat \ {0}, NEW q \in Nat, NEW r \in 0..(n - 1)
    PROVE  (q * n + r) % n = r
  OBVIOUS

(* The stacks of one kind that addCoins makes: full ones and the rest.      *)
LEMMA StacksOfOne ==
    ASSUME NEW u \in Kinds, NEW n \in Nat
    PROVE  /\ Purse!CoinStacks(u, n) \in Seq(CoinStack)
           /\ \A i \in 1..Len(Purse!CoinStacks(u, n)) :
                Purse!CoinStacks(u, n)[i].unit = u /\ n >= 1
           /\ Total(Purse!CoinStacks(u, n)) = u * n
<1> DEFINE k == (n + StackSize - 1) \div StackSize
           last(i) == n - (i - 1) * StackSize
           q == Purse!CoinStacks(u, n)
           before(i) == u * (IF n <= i * StackSize THEN n ELSE i * StackSize)
           g == [i \in 0..k |-> before(i)]
<1>1. /\ k \in Nat /\ k * StackSize <= n + StackSize - 1 /\ n <= k * StackSize
      /\ u \in Nat /\ StackSize \in Nat /\ StackSize >= 1
  <2>1. StackSize \in Nat \ {0} /\ StackSize \in Nat /\ StackSize >= 1
        /\ n + StackSize - 1 \in Nat
    BY SizeIs
  <2> DEFINE a == n + StackSize - 1
  <2>2. /\ a = StackSize * (a \div StackSize) + (a % StackSize)
        /\ a % StackSize \in 0..(StackSize - 1) /\ a \div StackSize \in Nat
    <3>1. a \in Nat
      BY <2>1
    <3> HIDE DEF a
    <3> QED BY <2>1, <3>1, Divides
  <2>3. a \div StackSize = k
    OBVIOUS
  <2>4. a = n + StackSize - 1
    OBVIOUS
  <2> HIDE DEF a, k
  <2>5. k * StackSize = StackSize * k /\ k * StackSize \in Nat /\ a % StackSize \in Nat
    BY <2>1, <2>2, <2>3
  <2> DEFINE r == a % StackSize
             z == k * StackSize
  <2>6. a = z + r /\ r \in 0..(StackSize - 1) /\ z \in Nat
    BY <2>2, <2>3, <2>5
  <2> HIDE DEF r, z
  <2>7. z <= n + StackSize - 1 /\ n <= z
    BY <2>1, <2>4, <2>6
  <2> QED BY <2>1, <2>2, <2>3, <2>7, KindsAre DEF z
<1> HIDE DEF k
<1>2. ASSUME NEW i \in 1..k
      PROVE  /\ last(i) \in Nat /\ last(i) >= 1
             /\ (i - 1) * StackSize \in Nat /\ i * StackSize = (i - 1) * StackSize + StackSize
  <2>1. i \in Nat /\ i - 1 \in Nat /\ k - i \in Nat
    BY <1>1
  <2>2. i * StackSize = (i - 1) * StackSize + StackSize /\ (i - 1) * StackSize \in Nat
    BY <1>1, <2>1
  <2>3. k * StackSize = i * StackSize + (k - i) * StackSize /\ (k - i) * StackSize \in Nat
    BY <1>1, <2>1
  <2> DEFINE z == (i - 1) * StackSize
             y == k * StackSize
             d == (k - i) * StackSize
  <2>4. z \in Nat /\ d \in Nat /\ y = z + StackSize + d /\ y <= n + StackSize - 1
    BY <1>1, <2>2, <2>3
  <2> HIDE DEF z, y, d
  <2>5. n - z \in Nat /\ n - z >= 1
    BY <1>1, <2>4
  <2> QED BY <2>2, <2>5 DEF z
<1>3. ASSUME NEW i \in 1..k
      PROVE  LET m == Purse!Min({StackSize, last(i)})
             IN  /\ m = IF StackSize <= last(i) THEN StackSize ELSE last(i)
                 /\ m \in 1..StackSize
  <2>1. last(i) \in Nat /\ last(i) >= 1
    BY <1>2
  <2> HIDE DEF last
  <2>2. Purse!Min({StackSize, last(i)}) = IF StackSize <= last(i) THEN StackSize ELSE last(i)
    BY <1>1, <2>1, LeastOfTwo
  <2> QED BY <1>1, <2>1, <2>2
<1>4. q = [i \in 1..k |-> [unit |-> u, count |-> Purse!Min({StackSize, last(i)})]]
  BY DEF Purse!CoinStacks, k
<1> DEFINE m(i) == Purse!Min({StackSize, last(i)})
           s(i) == [unit |-> u, count |-> m(i)]
<1>5. ASSUME NEW i \in 1..k
      PROVE  s(i) \in CoinStack /\ s(i).unit = u /\ Purse!WorthOf(s(i)) = u * m(i)
  <2>1. m(i) \in 1..StackSize
    BY <1>3
  <2> HIDE DEF m
  <2> QED BY <2>1, StackMade DEF CoinStack
<1>6. q = [i \in 1..k |-> s(i)]
  BY <1>4
<1> HIDE DEF s, q
<1>7. q \in Seq(CoinStack) /\ Len(q) = k /\ \A i \in 1..k : q[i] = s(i)
  <2>1. q \in [1..k -> CoinStack]
    BY <1>5, <1>6
  <2> QED BY <1>1, <1>6, <2>1
<1>8. \A i \in 1..k : n >= 1
  <2> TAKE i \in 1..k
  <2>1. last(i) >= 1 /\ (i - 1) * StackSize \in Nat
    BY <1>2
  <2> DEFINE z == (i - 1) * StackSize
  <2>2. n - z >= 1 /\ z \in Nat
    BY <2>1
  <2> HIDE DEF z
  <2> QED BY <2>2
<1>9. g[0] = 0
  <2>1. before(0) = 0
    <3>1. 0 * StackSize = 0 /\ u * 0 = 0
      BY <1>1
    <3>2. n <= 0 => n = 0
      OBVIOUS
    <3> QED BY <3>1, <3>2
  <2>2. 0 \in 0..k
    BY <1>1
  <2> QED BY <2>1, <2>2
<1>10. ASSUME NEW i \in 1..k PROVE g[i] = g[i - 1] + SeqWorths(q)[i]
  <2>1. SeqWorths(q)[i] = u * m(i)
    BY <1>5, <1>7 DEF SeqWorths
  <2> DEFINE z == (i - 1) * StackSize
             y == i * StackSize
             p(v) == IF n <= v THEN n ELSE v
  <2>2. z \in Nat /\ y = z + StackSize /\ n - z \in Nat /\ n - z >= 1
    BY <1>2
  <2>3. m(i) = IF StackSize <= n - z THEN StackSize ELSE n - z
    BY <1>3
  <2>4. g[i] = u * p(y) /\ g[i - 1] = u * p(z)
    <3>1. i \in 0..k /\ i - 1 \in 0..k
      BY <1>1
    <3> QED BY <3>1
  <2> HIDE DEF m, z, y, g
  <2>5. p(y) = p(z) + m(i) /\ p(z) \in Nat /\ m(i) \in Nat
    BY <1>1, <2>2, <2>3
  <2> HIDE DEF p
  <2>6. u * p(y) = u * p(z) + u * m(i)
    <3>1. \A e \in Nat, f \in Nat : u * (e + f) = u * e + u * f
      BY <1>1
    <3> QED BY <2>5, <3>1
  <2> QED BY <2>1, <2>4, <2>6
<1>11. g[k] = u * n
  <2>1. k \in 0..k
    BY <1>1
  <2>2. n <= k * StackSize
    BY <1>1
  <2> QED BY <2>1, <2>2
<1> HIDE DEF g
<1>12. Total(q) = g[k]
  <2>1. Integral(SeqWorths(q), 1..k) /\ k \in Nat
    BY <1>7, SeqWorthsAre
  <2>2. SumFunctionOnSet(SeqWorths(q), 1..k) = g[k]
    BY <1>9, <1>10, <2>1, SumPrefix
  <2> QED BY <1>7, <2>2 DEF Total
<1>13. \A i \in 1..k : q[i].unit = u /\ n >= 1
  BY <1>5, <1>7, <1>8
<1> QED BY <1>7, <1>11, <1>12, <1>13 DEF q

(* What addMoney makes of a sum: stacks of three kinds, worth that sum.     *)
LEMMA CoinsAre ==
    ASSUME NEW m \in Nat
    PROVE  /\ Purse!Coins(m) \in Seq(CoinStack)
           /\ \A i \in 1..Len(Purse!Coins(m)) : Purse!Coins(m)[i].unit <= m
           /\ Total(Purse!Coins(m)) = m
<1> DEFINE S == StackSize
           U == StackSize * StackSize
           a == m \div U
           r == m % U
           b == r \div S
           c == m % S
           A == Purse!CoinStacks(U, a)
           B == Purse!CoinStacks(S, b)
           C == Purse!CoinStacks(1, c)
<1>1. S \in Nat \ {0} /\ U \in Nat \ {0} /\ {U, S, 1} = Kinds
  BY SizeIs, KindsAre
<1>2. m = U * a + r /\ r \in Nat /\ a \in Nat
  <2> HIDE DEF U
  <2> QED BY <1>1, Divides
<1>3. r = S * b + (r % S) /\ r % S \in 0..(S - 1) /\ b \in Nat /\ r % S \in Nat
  <2> HIDE DEF S, r
  <2> QED BY <1>1, <1>2, Divides
<1>4. c = r % S
  <2>1. U * a = (S * a) * S /\ S * a \in Nat
    <3>1. \A e, y \in Nat : (e * e) * y = (e * y) * e /\ e * y \in Nat
      OBVIOUS
    <3>2. S \in Nat /\ U = S * S
      BY <1>1
    <3> HIDE DEF S, U, a
    <3> QED BY <1>2, <3>1, <3>2
  <2> HIDE DEF U, r, b, a, S
  <2>2. m = (S * a + b) * S + (r % S) /\ S * a + b \in Nat
    <3>1. (S * a + b) * S = (S * a) * S + b * S /\ b * S = S * b
      BY <1>1, <1>3, <2>1
    <3>2. b * S \in Nat /\ (S * a) * S \in Nat
      BY <1>1, <1>3, <2>1
    <3> DEFINE e == (S * a) * S
               f == S * b
               g == r % S
    <3>3. m = e + r /\ r = f + g /\ e \in Nat /\ f \in Nat /\ g \in Nat
      BY <1>2, <1>3, <2>1, <3>1, <3>2
    <3>4. (S * a + b) * S = e + f
      BY <3>1
    <3> HIDE DEF e, f, g
    <3>5. m = (e + f) + g
      BY <3>3
    <3> QED BY <1>1, <1>3, <2>1, <3>4, <3>5 DEF g
  <2> DEFINE q == S * a + b
             g == r % S
  <2>3. m = q * S + g /\ q \in Nat /\ g \in 0..(S - 1)
    BY <1>3, <2>2
  <2> HIDE DEF q, g
  <2>4. (q * S + g) % S = g
    BY <1>1, <2>3, Remainder
  <2> QED BY <2>3, <2>4 DEF g
<1> HIDE DEF a, b, r, c, U, S
<1>5. c \in Nat /\ m = U * a + (S * b + c) /\ U * a \in Nat /\ S * b \in Nat
  <2>1. U * a \in Nat /\ S * b \in Nat
    BY <1>1, <1>2, <1>3
  <2> QED BY <1>2, <1>3, <1>4, <2>1
<1>6. U \in Kinds /\ S \in Kinds /\ 1 \in Kinds
  BY <1>1
<1>7. /\ A \in Seq(CoinStack) /\ (\A i \in 1..Len(A) : A[i].unit = U /\ a >= 1)
      /\ Total(A) = U * a
  BY <1>2, <1>6, StacksOfOne
<1>8. /\ B \in Seq(CoinStack) /\ (\A i \in 1..Len(B) : B[i].unit = S /\ b >= 1)
      /\ Total(B) = S * b
  BY <1>3, <1>6, StacksOfOne
<1>9. /\ C \in Seq(CoinStack) /\ (\A i \in 1..Len(C) : C[i].unit = 1 /\ c >= 1)
      /\ Total(C) = 1 * c
  BY <1>5, <1>6, StacksOfOne
<1>10. Purse!Coins(m) = (A \o B) \o C
  <2>1. /\ Purse!Units[1] = StackSize * StackSize /\ Purse!Units[2] = StackSize
        /\ Purse!Units[3] = 1
    BY DEF Purse!Units
  <2> QED BY <2>1 DEF Purse!Coins, a, b, c, r, U, S
<1> HIDE DEF A, B, C
<1>11. A \o B \in Seq(CoinStack) /\ (A \o B) \o C \in Seq(CoinStack)
  BY <1>7, <1>8, <1>9
<1>12. Total((A \o B) \o C) = m
  <2>1. Total((A \o B) \o C) = Total(A \o B) + Total(C)
    BY <1>9, <1>11, TotalOfBoth
  <2>2. Total(A \o B) = Total(A) + Total(B)
    BY <1>7, <1>8, TotalOfBoth
  <2>3. 1 * c = c
    BY <1>5
  <2> QED BY <1>5, <1>7, <1>8, <1>9, <2>1, <2>2, <2>3
<1>13. /\ a >= 1 => U <= m
       /\ b >= 1 => S <= m
       /\ c >= 1 => 1 <= m
  <2>1. \A e \in Nat, y \in Nat : y >= 1 => e <= e * y
    OBVIOUS
  <2>2. /\ a >= 1 => U <= U * a
        /\ b >= 1 => S <= S * b
    BY <1>1, <1>2, <1>3, <2>1
  <2> QED BY <1>1, <1>5, <2>2
<1>14. ASSUME NEW i \in 1..Len((A \o B) \o C) PROVE ((A \o B) \o C)[i].unit <= m
  <2> DEFINE k == Len(A)
             l == Len(B)
             n == Len(C)
  <2>1. k \in Nat /\ l \in Nat /\ n \in Nat /\ Len(A \o B) = k + l
        /\ i \in 1..(k + l + n)
    BY <1>7, <1>8, <1>9, <1>11
  <2>2. CASE i \in 1..k
    <3>1. ((A \o B) \o C)[i] = A[i]
      BY <1>7, <1>8, <1>9, <2>2
    <3> QED BY <3>1, <2>2, <1>7, <1>13
  <2>3. CASE i - k \in 1..l
    <3>1. ((A \o B) \o C)[i] = B[i - k]
      BY <1>7, <1>8, <1>9, <2>3
    <3> QED BY <3>1, <2>3, <1>8, <1>13
  <2>4. CASE i - (k + l) \in 1..n
    <3>1. ((A \o B) \o C)[i] = C[i - (k + l)]
      BY <1>7, <1>8, <1>9, <1>11, <2>1, <2>4
    <3> QED BY <3>1, <2>4, <1>9, <1>13
  <2>5. i \in 1..k \/ i - k \in 1..l \/ i - (k + l) \in 1..n
    <3> HIDE DEF k, l, n
    <3> QED BY <2>1
  <2> QED BY <2>2, <2>3, <2>4, <2>5
<1> QED BY <1>10, <1>11, <1>12, <1>14

(* addMoney adds the sum, or tells what it could not add.                   *)
LEMMA MoneyAdded ==
    ASSUME NEW w \in Purses, NEW m \in Nat, NEW drop \in BOOLEAN
    PROVE  Purse!AddMoney(w, m, drop) \in Added(w, m, drop, m)
<1> DEFINE q == Purse!Coins(m)
<1>1. q \in Seq(CoinStack) /\ (\A i \in 1..Len(q) : q[i].unit <= m) /\ Total(q) = m
  BY CoinsAre
<1>2. Purse!AddMoney(w, m, drop) = AddAll(w, q, drop)
  BY DEF Purse!AddMoney, AddAll
<1> HIDE DEF q
<1>3. AddAll(w, q, drop) \in Added(w, m, drop, Total(q))
  BY <1>1, AllAdded
<1> QED BY <1>1, <1>2, <1>3

(* Change: all of it, unless some vanished or was given twice.              *)
LEMMA ChangeDelivered ==
    ASSUME NEW w \in Purses, NEW m \in Nat
    PROVE  LET e == Purse!DeliverChange(w, m)
           IN  /\ e \in Purses /\ e.left = w.left
               /\ e.vanished \/ e.doubled \/ Purse!Worth(e.bag) + e.ground
                                               = Purse!Worth(w.bag) + w.ground + m
               /\ StaysAbove(w.bag, e.bag, m)
<1> DEFINE e == Purse!DeliverChange(w, m)
           once == Purse!AddMoney(w, m, FALSE)
           again == Purse!AddMoney(once, m, TRUE)
<1>1. /\ once \in Purses /\ once.left = w.left
      /\ once.vanished \/ Purse!Worth(once.bag) + once.ground
                             = Purse!Worth(w.bag) + w.ground + once.added
      /\ once.added <= m /\ StaysAbove(w.bag, once.bag, m)
  <2>1. once \in Added(w, m, FALSE, m)
    BY MoneyAdded
  <2> HIDE DEF once
  <2> QED BY <2>1 DEF Added
<1>2. once.added \in Nat
  BY <1>1, PurseFields
<1>3. e = IF once.added >= m THEN once
          ELSE [again EXCEPT !.doubled = again.doubled \/ once.added > 0]
  BY DEF Purse!DeliverChange
<1> HIDE DEF e, once
<1>4. CASE once.added >= m
  <2>1. once.added = m
    BY <1>1, <1>2, <1>4
  <2> QED BY <1>1, <1>3, <1>4, <2>1 DEF e
<1>5. CASE ~(once.added >= m)
  <2>1. /\ again \in Purses /\ again.left = once.left /\ (once.vanished => again.vanished)
        /\ again.vanished \/ Purse!Worth(again.bag) + again.ground
                               = Purse!Worth(once.bag) + once.ground + again.added
        /\ again.added = m /\ StaysAbove(once.bag, again.bag, m)
    <3>1. again \in Added(once, m, TRUE, m)
      BY <1>1, MoneyAdded
    <3> HIDE DEF again
    <3> QED BY <3>1 DEF Added
  <2> HIDE DEF again
  <2> DEFINE twice == again.doubled \/ once.added > 0
  <2>2. twice \in BOOLEAN
    BY Zenon
  <2>3. e = [again EXCEPT !.doubled = twice]
    BY <1>3, <1>5
  <2> HIDE DEF twice
  <2>4. /\ e \in Purses /\ e.left = w.left /\ e.bag = again.bag /\ e.ground = again.ground
        /\ e.vanished = again.vanished /\ e.doubled = twice
    BY <1>1, <2>1, <2>2, <2>3 DEF Purses
  <2>5. e.vanished \/ e.doubled \/ Purse!Worth(e.bag) + e.ground
                                     = Purse!Worth(w.bag) + w.ground + m
    <3>1. CASE once.added > 0
      BY <2>4, <3>1 DEF twice
    <3>2. CASE once.added = 0
      <4>1. /\ Purse!Worth(w.bag) \in Nat /\ w.ground \in Nat
        BY PurseFields
      <4> QED BY <1>1, <2>1, <2>4, <3>2, <4>1
    <3> QED BY <1>2, <3>1, <3>2
  <2>6. StaysAbove(w.bag, e.bag, m)
    BY <1>1, <2>1, <2>4 DEF StaysAbove
  <2> QED BY <2>4, <2>5, <2>6 DEF e
<1> QED BY <1>4, <1>5

(* Coins taken from a stack.                                                *)
LEMMA TakeIs ==
    ASSUME NEW b \in Inventories, NEW i \in Purse!Slots, b[i] # Purse!Free,
           NEW n \in 1..b[i].count
    PROVE  /\ Purse!Take(b, i, n) \in Inventories
           /\ Purse!Worth(Purse!Take(b, i, n)) = Purse!Worth(b) - b[i].unit * n
           /\ \A j \in Purse!Slots \ {i} : Purse!Take(b, i, n)[j] = b[j]
           /\ n = b[i].count => Purse!Take(b, i, n)[i] = Purse!Free
<1> DEFINE u == b[i].unit
           k == b[i].count
           rest == [unit |-> u, count |-> k - n]
           after == IF k = n THEN Purse!Free ELSE rest
           d == [b EXCEPT ![i] = after]
<1>1. Purse!Take(b, i, n) = d
  BY DEF Purse!Take
<1>2. /\ b[i] \in Purse!Stacks /\ u \in Kinds /\ k \in 1..StackSize /\ k \in Nat /\ u \in Nat
      /\ b[i] = [unit |-> u, count |-> k] /\ Purse!WorthOf(b[i]) = u * k
  <2>1. b[i] \in Purse!Stacks
    BY DEF Inventories
  <2> QED BY <2>1, StackIs
<1>3. n \in Nat /\ n >= 1 /\ n <= k
  BY <1>2
<1>4. after \in Purse!Stacks /\ Purse!WorthOf(after) = u * (k - n)
      /\ (n = k => after = Purse!Free)
  <2>1. CASE k = n
    <3>1. u * 0 = 0 /\ k - n = 0
      BY <1>2, <2>1
    <3>2. Purse!WorthOf(Purse!Free) = 0
      BY FreeIsStack, StackIs
    <3> QED BY <2>1, <3>1, <3>2, FreeIsStack
  <2>2. CASE k # n
    <3>1. k - n \in 1..StackSize
      BY <1>2, <1>3, <2>2, SizeIs
    <3>3. [unit |-> u, count |-> k - n] \in Purse!Stacks
          /\ Purse!WorthOf([unit |-> u, count |-> k - n]) = u * (k - n)
      BY <1>2, <3>1, StackMade
    <3> QED BY <2>2, <3>3
  <2> QED BY <2>1, <2>2
<1> HIDE DEF after
<1>5. d \in Inventories /\ d[i] = after /\ \A j \in Purse!Slots \ {i} : d[j] = b[j]
  BY <1>4 DEF Inventories
<1> HIDE DEF d, u, k
<1>6. Purse!Worth(d) = Purse!Worth(b) + (Purse!WorthOf(d[i]) - Purse!WorthOf(b[i]))
  BY <1>5, WorthChanged
<1>7. u * k = u * (k - n) + u * n /\ u * n \in Nat /\ u * (k - n) \in Nat
  <2>1. \A e, y, z \in Nat : z <= y => /\ e * y = e * (y - z) + e * z /\ e * z \in Nat
                                       /\ e * (y - z) \in Nat
    OBVIOUS
  <2> QED BY <1>2, <1>3, <2>1
<1>8. Purse!Worth(d) = Purse!Worth(b) - u * n
  BY <1>2, <1>4, <1>5, <1>6, <1>7, WorthIs
<1> QED BY <1>1, <1>4, <1>5, <1>8 DEF u, k

(* As few coins as cover what is left: the change is less than a coin.      *)
LEMMA CoinsTaken ==
    ASSUME NEW u \in Nat, u >= 1, NEW left \in Nat, left > 0, NEW k \in Nat, u * k > left
    PROVE  LET n == Purse!RemoveCount(left, u)
           IN  n \in 1..k /\ u * n - left \in Nat /\ u * n - left < u
<1> DEFINE a == left + u - 1
           n == a \div u
           r == a % u
<1>1. Purse!RemoveCount(left, u) = n
  BY DEF Purse!RemoveCount
<1>2. a \in Nat
  OBVIOUS
<1>3. a = u * n + r /\ r \in 0..(u - 1) /\ n \in Nat /\ r \in Nat
  <2>1. u \in Nat \ {0}
    OBVIOUS
  <2> HIDE DEF a
  <2> QED BY <1>2, <2>1, Divides
<1>4. a = left + u - 1
  OBVIOUS
<1> HIDE DEF a, n, r
<1> DEFINE z == u * n
<1>5. z \in Nat
  BY <1>3
<1>6. a = z + r
  BY <1>3
<1> HIDE DEF z
<1>7. z >= left /\ z - left < u /\ z - left \in Nat
  BY <1>3, <1>4, <1>5, <1>6
<1>8. n >= 1
  <2>1. n = 0 => z = 0
    BY DEF z
  <2> QED BY <1>3, <1>5, <1>7, <2>1
<1>9. n <= k
  <2>1. \A e \in Nat, y \in Nat : e >= y + 1 => u * e >= u * y + u
    <3> SUFFICES ASSUME NEW e \in Nat, NEW y \in Nat, e >= y + 1 PROVE u * e >= u * y + u
      OBVIOUS
    <3>1. u * e = u * y + u * (e - y) /\ u * (e - y) >= u /\ u * y \in Nat
          /\ u * (e - y) \in Nat
      OBVIOUS
    <3> QED BY <3>1
  <2>2. SUFFICES ASSUME ~(n <= k) PROVE FALSE
    OBVIOUS
  <2>3. z >= u * k + u
    BY <1>3, <2>1, <2>2 DEF z
  <2>4. u * k \in Nat
    OBVIOUS
  <2> DEFINE y == u * k
  <2>5. y > left /\ y \in Nat /\ z >= y + u
    BY <2>3, <2>4
  <2> HIDE DEF y
  <2> QED BY <1>7, <1>5, <2>5
<1> QED BY <1>1, <1>3, <1>7, <1>8, <1>9 DEF z

(* What removeMoney has made of b when the stacks in s are done with: until *)
(* the sum is covered nothing is given back and these are gone.             *)
Paying(b, money, s) ==
    {w \in Purses :
        /\ w.vanished \/ w.doubled \/ Purse!Worth(w.bag) + w.ground + money
                                        = Purse!Worth(b) + w.left
        /\ w.left > 0 =>
              /\ ~w.vanished /\ ~w.doubled /\ w.ground = 0
              /\ \A j \in Purse!Slots : w.bag[j] = IF j \in s THEN Purse!Free ELSE b[j]}

(* removeMoney starts with the whole sum left, ...                          *)
LEMMA TakenStarts ==
    ASSUME NEW b \in Inventories, NEW money \in Nat
    PROVE  [Purse!Purse(b) EXCEPT !.left = money] \in Paying(b, money, {})
<1> DEFINE w == [Purse!Purse(b) EXCEPT !.left = money]
<1>1. /\ w \in Purses /\ w.bag = b /\ w.ground = 0 /\ w.left = money
      /\ w.vanished = FALSE /\ w.doubled = FALSE
  BY DEF Purse!Purse, Purses
<1> HIDE DEF w
<1>2. Purse!Worth(b) \in Nat
  BY WorthIs
<1>3. Purse!Worth(w.bag) + w.ground + money = Purse!Worth(b) + w.left
  BY <1>1, <1>2
<1>4. \A j \in Purse!Slots : w.bag[j] = IF j \in {} THEN Purse!Free ELSE b[j]
  BY <1>1
<1>5. w \in Paying(b, money, {})
  BY <1>1, <1>3, <1>4, Zenon DEF Paying
<1> QED BY <1>5 DEF w

(* ... is done with one more stack (processMoneyEntry), ...                 *)
LEMMA TakenOne ==
    ASSUME NEW b \in Inventories, NEW money \in Nat, NEW s \in SUBSET Purse!Slots,
           NEW i \in s, b[i] # Purse!Free, NEW w \in Paying(b, money, s \ {i})
    PROVE  Purse!ProcessMoneyEntry(w, i, b[i]) \in Paying(b, money, s)
<1> DEFINE e == Purse!ProcessMoneyEntry(w, i, b[i])
           u == b[i].unit
           k == b[i].count
<1>1. /\ w \in Purses
      /\ w.vanished \/ w.doubled \/ Purse!Worth(w.bag) + w.ground + money
                                      = Purse!Worth(b) + w.left
      /\ w.left > 0 =>
            /\ ~w.vanished /\ ~w.doubled /\ w.ground = 0
            /\ \A j \in Purse!Slots : w.bag[j] = IF j \in s \ {i} THEN Purse!Free ELSE b[j]
  BY DEF Paying
<1>2. /\ b[i] \in Purse!Stacks /\ u \in Nat /\ u >= 1 /\ k \in Nat /\ k >= 1
      /\ Purse!WorthOf(b[i]) = u * k /\ u * k \in Nat /\ i \in Purse!Slots
  <2>1. i \in Purse!Slots /\ b[i] \in Purse!Stacks
    BY DEF Inventories
  <2>2. /\ u \in Nat /\ u >= 1 /\ k \in 1..StackSize /\ k \in Nat
        /\ Purse!WorthOf(b[i]) = u * k /\ Purse!WorthOf(b[i]) \in Nat
    BY <2>1, StackIs
  <2> QED BY <2>1, <2>2, SizeIs
<1>3. /\ w.bag \in Inventories /\ w.left \in Nat /\ w.ground \in Nat
      /\ Purse!Worth(w.bag) \in Nat /\ Purse!Worth(b) \in Nat
  BY <1>1, PurseFields, WorthIs
<1>4. CASE w.left = 0
  <2>1. e = w
    BY <1>4 DEF Purse!ProcessMoneyEntry
  <2> HIDE DEF e
  <2> QED BY <1>1, <1>3, <1>4, <2>1 DEF Paying, e
<1>5. CASE w.left > 0 /\ u * k <= w.left
  <2> DEFINE d == Purse!Take(w.bag, i, k)
             l == w.left - u * k
  <2>1. e = [w EXCEPT !.bag = d, !.left = l]
    <3>1. /\ w.left > 0 /\ Purse!WorthOf(b[i]) <= w.left /\ ~(w.left = 0)
          /\ ~(Purse!WorthOf(b[i]) > w.left)
      BY <1>2, <1>3, <1>5
    <3>2. e = [w EXCEPT !.bag = d, !.left = w.left - Purse!WorthOf(b[i])]
      BY <3>1 DEF Purse!ProcessMoneyEntry
    <3> HIDE DEF e, d
    <3> QED BY <1>2, <3>2
  <2>2. w.bag[i] = b[i] /\ w.bag[i].count = k /\ w.bag[i].unit = u
    BY <1>1, <1>2, <1>5
  <2>3. /\ d \in Inventories /\ Purse!Worth(d) = Purse!Worth(w.bag) - u * k
        /\ d[i] = Purse!Free /\ \A j \in Purse!Slots \ {i} : d[j] = w.bag[j]
    <3>1. k \in 1..w.bag[i].count
      BY <1>2, <2>2
    <3> HIDE DEF u, k
    <3> QED BY <1>2, <1>3, <2>2, <3>1, TakeIs
  <2>4. l \in Nat
    BY <1>2, <1>3, <1>5
  <2> HIDE DEF e, d
  <2>5. /\ e \in Purses /\ e.bag = d /\ e.left = l /\ e.ground = w.ground
        /\ e.vanished = w.vanished /\ e.doubled = w.doubled
    <3> HIDE DEF l
    <3> QED BY <1>1, <2>1, <2>3, <2>4 DEF Purses
  <2>6. Purse!Worth(e.bag) + e.ground + money = Purse!Worth(b) + e.left
    <3> DEFINE y == u * k
    <3>1. y \in Nat /\ l = w.left - y /\ Purse!Worth(d) = Purse!Worth(w.bag) - y
      BY <1>2, <2>3
    <3> HIDE DEF y, l, u, k
    <3>2. Purse!Worth(w.bag) + w.ground + money = Purse!Worth(b) + w.left
      BY <1>1, <1>5
    <3> QED BY <1>3, <2>5, <3>1, <3>2
  <2>7. \A j \in Purse!Slots : e.bag[j] = IF j \in s THEN Purse!Free ELSE b[j]
    BY <1>1, <1>5, <2>3, <2>5
  <2> HIDE DEF l
  <2> QED BY <1>1, <1>5, <2>5, <2>6, <2>7 DEF Paying, e
<1>6. CASE w.left > 0 /\ u * k > w.left
  <2> DEFINE n == Purse!RemoveCount(w.left, u)
             m == u * n - w.left
             given == Purse!DeliverChange(w, m)
             d == Purse!Take(given.bag, i, n)
  <2>1. e = [given EXCEPT !.bag = d, !.left = 0]
    <3>1. ~(Purse!WorthOf(b[i]) <= w.left) /\ Purse!WorthOf(b[i]) > w.left
      BY <1>2, <1>3, <1>6
    <3> QED BY <1>6, <3>1 DEF Purse!ProcessMoneyEntry
  <2>2. n \in 1..k /\ m \in Nat /\ m < u
    <3> HIDE DEF u, k
    <3> QED BY <1>2, <1>3, <1>6, CoinsTaken
  <2> HIDE DEF n
  <2>3. /\ given \in Purses /\ given.left = w.left
        /\ given.vanished \/ given.doubled \/ Purse!Worth(given.bag) + given.ground
                                                = Purse!Worth(w.bag) + w.ground + m
        /\ StaysAbove(w.bag, given.bag, m)
    <3> HIDE DEF m
    <3> QED BY <1>1, <2>2, ChangeDelivered
  <2> HIDE DEF given
  <2>4. given.bag[i] = b[i] /\ given.bag \in Inventories /\ given.ground \in Nat
        /\ Purse!Worth(given.bag) \in Nat
    <3>1. w.bag[i] = b[i]
      BY <1>1, <1>2, <1>6
    <3>2. given.bag[i] = w.bag[i]
      BY <1>2, <2>2, <2>3, <3>1 DEF StaysAbove
    <3> QED BY <2>3, <3>1, <3>2, PurseFields
  <2>5. d \in Inventories /\ Purse!Worth(d) = Purse!Worth(given.bag) - u * n
    <3>1. given.bag[i] # Purse!Free /\ n \in 1..given.bag[i].count
      BY <2>2, <2>4
    <3>2. d \in Inventories /\ Purse!Worth(d) = Purse!Worth(given.bag) - given.bag[i].unit * n
      BY <1>2, <2>4, <3>1, TakeIs
    <3> QED BY <2>4, <3>2
  <2> HIDE DEF e, d
  <2>6. /\ e \in Purses /\ e.bag = d /\ e.left = 0 /\ e.ground = given.ground
        /\ e.vanished = given.vanished /\ e.doubled = given.doubled
    BY <2>1, <2>3, <2>5 DEF Purses
  <2>7. e.vanished \/ e.doubled \/ Purse!Worth(e.bag) + e.ground + money
                                     = Purse!Worth(b) + e.left
    <3> DEFINE y == u * n
    <3>1. y \in Nat /\ m = y - w.left /\ Purse!Worth(d) = Purse!Worth(given.bag) - y
      BY <1>2, <2>2, <2>5
    <3> HIDE DEF y, m, u, k
    <3>2. Purse!Worth(w.bag) + w.ground + money = Purse!Worth(b) + w.left
      BY <1>1, <1>6
    <3>3. SUFFICES ASSUME ~e.vanished, ~e.doubled
                   PROVE  Purse!Worth(e.bag) + e.ground + money = Purse!Worth(b) + e.left
      OBVIOUS
    <3>4. Purse!Worth(given.bag) + given.ground = Purse!Worth(w.bag) + w.ground + m
      BY <2>3, <2>6, <3>3
    <3> QED BY <1>3, <2>2, <2>4, <2>6, <3>1, <3>2, <3>4
  <2> QED BY <2>6, <2>7 DEF Paying, e
<1> QED BY <1>2, <1>3, <1>4, <1>5, <1>6

(* Among some stacks there is one that is taken last.                       *)
LEMMA GreatestIs ==
    ASSUME bag \in Inventories, NEW s \in SUBSET Purse!Slots, s # {}
    PROVE  Purse!Greatest(s) \in s
<1>1. \A i \in s : Purse!WorthOf(bag[i]) \in Nat /\ i \in 0..Places
  <2> TAKE i \in s
  <2>1. bag[i] \in Purse!Stacks
    BY DEF Inventories
  <2> QED BY <2>1, StackIs, SlotsFinite
<1>2. IsFiniteSet(s) /\ Places \in Nat
  BY SlotsFinite, FS_Subset
<1> DEFINE f == [i \in s |-> Purse!WorthOf(bag[i])]
           m == SumFunctionOnSet(f, s)
           W == {f[i] : i \in s}
<1>3. \A i \in s : f[i] = Purse!WorthOf(bag[i]) /\ f[i] \in Nat
  BY <1>1
<1> HIDE DEF f
<1>4. m \in Nat /\ \A i \in s : f[i] <= m
  BY <1>2, <1>3, SumNatural
<1> HIDE DEF m
<1>5. W \in SUBSET (0..m) /\ W # {}
  BY <1>3, <1>4
<1>6. PICK v \in W : \A y \in W : v >= y
  <2> HIDE DEF W
  <2> QED BY <1>4, <1>5, GreatestNumber
<1> DEFINE G == {i \in s : f[i] = v}
<1>7. G \in SUBSET (0..Places) /\ G # {}
  BY <1>1
<1>8. PICK i \in G : \A j \in G : i >= j
  <2> HIDE DEF G
  <2> QED BY <1>2, <1>7, GreatestNumber
<1>9. i \in s /\ f[i] = v
  OBVIOUS
<1>10. ASSUME NEW j \in s PROVE Purse!NoLater(j, i)
  <2>1. f[j] \in W
    OBVIOUS
  <2>2. v >= f[j] /\ f[j] \in Nat /\ v \in Nat
    BY <1>3, <1>6, <1>9, <2>1
  <2>3. CASE f[j] = v
    <3>1. j <= i
      <4>1. j \in G /\ j \in Nat /\ i \in Nat
        BY <1>1, <1>9, <2>3
      <4> QED BY <1>8, <4>1
    <3> QED BY <1>3, <1>9, <2>3, <3>1 DEF Purse!NoLater
  <2>4. CASE f[j] # v
    <3>1. f[j] < f[i]
      BY <1>9, <2>2, <2>4
    <3> QED BY <1>3, <1>9, <3>1 DEF Purse!NoLater
  <2> QED BY <2>3, <2>4
<1> QED BY <1>9, <1>10 DEF Purse!Greatest

(* The stacks that removeMoney goes through.                                *)
Held(b) == {i \in Purse!Slots : b[i] # Purse!Free}

(* ... and in the end with all of them.                                     *)
LEMMA MoneyRemoved ==
    ASSUME bag \in Inventories, NEW money \in Nat
    PROVE  Purse!RemoveMoney(money) \in Paying(bag, money, Held(bag))
<1> DEFINE D == Held(bag)
           c == [s \in SUBSET D |-> Purse!Greatest(s)]
           base == [Purse!Purse(bag) EXCEPT !.left = money]
           op == [p \in D \X Purses |-> Purse!ProcessMoneyEntry(p[2], p[1], bag[p[1]])]
           Inv == [s \in SUBSET D |-> Paying(bag, money, s)]
           P(g) == g = [s \in SUBSET D |-> IF s = {} THEN base ELSE
                          Purse!ProcessMoneyEntry(g[s \ {Purse!Greatest(s)}],
                             Purse!Greatest(s), bag[Purse!Greatest(s)])]
           iter == CHOOSE g : P(g)
<1>1. D \subseteq Purse!Slots /\ IsFiniteSet(D) /\ \A i \in D : bag[i] # Purse!Free
  BY SlotsFinite, FS_Subset DEF Held
<1> HIDE DEF D
<1>2. ASSUME NEW s \in SUBSET D, s # {} PROVE c[s] = Purse!Greatest(s) /\ c[s] \in s
  BY <1>1, <1>2, GreatestIs
<1>3. Picks(c, D)
  BY <1>2 DEF Picks
<1>4. ASSUME NEW s \in SUBSET D, s # {}, NEW v \in Inv[s \ {c[s]}]
      PROVE  /\ c[s] = Purse!Greatest(s) /\ c[s] \in D /\ v \in Purses
             /\ Purse!ProcessMoneyEntry(v, Purse!Greatest(s), bag[Purse!Greatest(s)]) \in Inv[s]
  <2> DEFINE i == c[s]
  <2>1. i = Purse!Greatest(s) /\ i \in s /\ i \in D /\ s \ {i} \in SUBSET D
        /\ s \in SUBSET Purse!Slots /\ bag[i] # Purse!Free
    BY <1>1, <1>2, <1>4
  <2> HIDE DEF i
  <2>2. v \in Paying(bag, money, s \ {i})
    BY <2>1 DEF i
  <2>3. Purse!ProcessMoneyEntry(v, i, bag[i]) \in Paying(bag, money, s)
    BY <2>1, <2>2, TakenOne
  <2>4. Inv[s] = Paying(bag, money, s)
    OBVIOUS
  <2>5. v \in Purses
    BY <2>2 DEF Paying
  <2> HIDE DEF Inv
  <2> QED BY <2>1, <2>3, <2>4, <2>5 DEF i
<1>5. base \in Inv[{}]
  <2>1. base \in Paying(bag, money, {})
    BY TakenStarts
  <2> HIDE DEF base
  <2> QED BY <2>1
<1> HIDE DEF base
<1>6. \E g : P(g)
  <2>1. \A s \in SUBSET D : Inv[s] \subseteq Purses
    BY DEF Paying
  <2>2. \A i \in D, v \in Purses : op[<<i, v>>] = Purse!ProcessMoneyEntry(v, i, bag[i])
    OBVIOUS
  <2>3. ASSUME NEW s \in SUBSET D, s # {}, NEW v \in Inv[s \ {c[s]}]
        PROVE  op[<<c[s], v>>] \in Inv[s]
    <3>1. /\ c[s] \in D /\ v \in Purses /\ c[s] = Purse!Greatest(s)
          /\ Purse!ProcessMoneyEntry(v, Purse!Greatest(s), bag[Purse!Greatest(s)]) \in Inv[s]
      BY <1>4, <2>3
    <3> HIDE DEF Inv, op, c
    <3> QED BY <3>1, <2>2
  <2> HIDE DEF Inv, op, c
  <2>4. PICK h : Folds(h, D, c, op, base) /\ \A s \in SUBSET D : h[s] \in Inv[s]
    BY ONLY <1>1, <1>3, <1>5, <2>1, <2>3, FoldWithin
  <2>5. ASSUME NEW s \in SUBSET D, s # {}
        PROVE  op[<<c[s], h[s \ {c[s]}]>>]
                 = Purse!ProcessMoneyEntry(h[s \ {Purse!Greatest(s)}],
                      Purse!Greatest(s), bag[Purse!Greatest(s)])
    <3>1. s \ {c[s]} \in SUBSET D
      OBVIOUS
    <3>2. h[s \ {c[s]}] \in Inv[s \ {c[s]}]
      BY <2>4, <3>1
    <3>3. c[s] = Purse!Greatest(s) /\ c[s] \in D /\ h[s \ {c[s]}] \in Purses
      BY <1>4, <2>5, <3>2
    <3>4. op[<<c[s], h[s \ {c[s]}]>>]
            = Purse!ProcessMoneyEntry(h[s \ {c[s]}], c[s], bag[c[s]])
      BY <2>2, <3>3
    <3> QED BY <3>3, <3>4
  <2>6. h = [s \in SUBSET D |-> IF s = {} THEN base ELSE op[<<c[s], h[s \ {c[s]}]>>]]
    BY <2>4 DEF Folds
  <2>7. P(h)
    BY <2>5, <2>6
  <2> HIDE DEF P
  <2> QED BY <2>7
<1>7. P(iter)
  <2> HIDE DEF P
  <2> QED BY <1>6
<1> HIDE DEF iter
<1>8. iter[D] \in Inv[D]
  <2> DEFINE Good == {s \in SUBSET D : iter[s] \in Inv[s]}
  <2>1. {} \in Good
    BY <1>5, <1>7
  <2>2. ASSUME NEW s \in SUBSET D, s # {}, s \ {c[s]} \in Good PROVE s \in Good
    <3>1. iter[s \ {c[s]}] \in Inv[s \ {c[s]}]
      BY <2>2
    <3>2. /\ c[s] = Purse!Greatest(s)
          /\ Purse!ProcessMoneyEntry(iter[s \ {c[s]}], Purse!Greatest(s),
                bag[Purse!Greatest(s)]) \in Inv[s]
      BY <1>4, <2>2, <3>1
    <3>3. iter[s] = Purse!ProcessMoneyEntry(iter[s \ {c[s]}], Purse!Greatest(s),
                       bag[Purse!Greatest(s)])
      BY <1>7, <2>2, <3>2
    <3> QED BY <3>2, <3>3
  <2>3. SUBSET D \subseteq Good
    <3>1. \A s \in SUBSET D : s # {} /\ s \ {c[s]} \in Good => s \in Good
      BY <2>2
    <3> HIDE DEF Good, c
    <3> QED BY ONLY <1>1, <1>3, <2>1, <3>1, FoldInduction
  <2>4. D \in SUBSET D
    OBVIOUS
  <2> QED BY <2>3, <2>4
<1>9. Inv[D] = Paying(bag, money, Held(bag))
  BY DEF D
<1>10. Purse!RemoveMoney(money) = iter[D]
  BY DEF Purse!RemoveMoney, Purse!MapThenFoldSet, iter, base, D, Held
<1> QED BY <1>8, <1>9, <1>10

(* What is left to pay is what the coins did not cover.                     *)
LEMMA RemovedIs ==
    ASSUME bag \in Inventories, NEW money \in Nat
    PROVE  LET w == Purse!RemoveMoney(money)
           IN  /\ w \in Purses
               /\ w.vanished \/ w.doubled \/ Purse!Worth(w.bag) + w.ground + money
                                               = Purse!Worth(bag) + w.left
               /\ w.left > 0 => w.left = money - Purse!Worth(bag)
<1> DEFINE w == Purse!RemoveMoney(money)
<1>1. /\ w \in Purses
      /\ w.vanished \/ w.doubled \/ Purse!Worth(w.bag) + w.ground + money
                                      = Purse!Worth(bag) + w.left
      /\ w.left > 0 =>
            /\ ~w.vanished /\ ~w.doubled /\ w.ground = 0
            /\ \A j \in Purse!Slots : w.bag[j] = IF j \in Held(bag) THEN Purse!Free ELSE bag[j]
  <2>1. w \in Paying(bag, money, Held(bag))
    BY MoneyRemoved
  <2> HIDE DEF w
  <2> QED BY <2>1 DEF Paying
<1> HIDE DEF w
<1>2. ASSUME w.left > 0 PROVE w.left = money - Purse!Worth(bag)
  <2>1. \A j \in Purse!Slots : w.bag[j] = Purse!Free
    BY <1>1, <1>2 DEF Held
  <2>2. w.bag \in Inventories /\ w.left \in Nat /\ Purse!Worth(bag) \in Nat
    BY <1>1, PurseFields, WorthIs
  <2>3. Purse!Worth(w.bag) = 0
    <3>1. \A j \in Purse!Slots : Worths(w.bag)[j] = 0
      BY <2>1, <2>2, WorthIs, StackIs, FreeIsStack
    <3>2. SumFunctionOnSet(Worths(w.bag), Purse!Slots) = 0
      BY <3>1, SumZero, SlotsFinite
    <3> QED BY <2>2, <3>2, WorthIs
  <2> QED BY <1>1, <1>2, <2>2, <2>3
<1> QED BY <1>1, <1>2 DEF w

(* The money in accounts is a sum, which a payment changes by its amount.   *)
InBank(b) == SumFunctionOnSet(b, Accounts)

(* All the money there is, now and after a step.                            *)
LEMMA WealthIs ==
    /\ Purse!Wealth = Purse!Worth(bag) + ground + InBank(balance)
    /\ Purse!Wealth' = Purse!Worth(bag)' + ground' + InBank(balance')
  BY DEF Purse!Wealth, InBank, Purse!MapThenSumSet, Purse!MapThenFoldSet,
         SumFunctionOnSet, FoldFunctionOnSet, MapThenFoldSet

(* One account changes.                                                     *)
LEMMA InBankChanged ==
    ASSUME NEW b \in [Accounts -> Nat], NEW d \in [Accounts -> Nat],
           NEW a \in Accounts, NEW n \in Int,
           d[a] = b[a] + n, \A c \in Accounts \ {a} : d[c] = b[c]
    PROVE  InBank(d) = InBank(b) + n /\ InBank(b) \in Int
<1>2. IsFiniteSet(Accounts) /\ Integral(b, Accounts) /\ d[a] \in Int
  BY MoneyAssumption DEF Integral
<1>3. SumFunctionOnSet(d, Accounts) = SumFunctionOnSet(b, Accounts) + (d[a] - b[a])
  BY ONLY <1>2, a \in Accounts, \A c \in Accounts \ {a} : d[c] = b[c], SumChanged
<1>4. SumFunctionOnSet(b, Accounts) \in Int /\ b[a] \in Int
  BY <1>2, SumType
<1> QED BY <1>3, <1>4 DEF InBank

(* What is credited is in the bank,                                         *)
LEMMA Credited ==
    ASSUME NEW b \in [Accounts -> Nat], NEW a \in Accounts, NEW n \in Nat
    PROVE  /\ Purse!Credit(b, a, n) \in [Accounts -> Nat]
           /\ InBank(Purse!Credit(b, a, n)) = InBank(b) + n /\ InBank(b) \in Int
<1> DEFINE d == Purse!Credit(b, a, n)
<1>1. b[a] + n \in Nat /\ n \in Int
  OBVIOUS
<1>2. d \in [Accounts -> Nat] /\ d[a] = b[a] + n /\ \A c \in Accounts \ {a} : d[c] = b[c]
  BY <1>1 DEF Purse!Credit
<1> HIDE DEF d
<1>3. InBank(d) = InBank(b) + n /\ InBank(b) \in Int
  BY <1>1, <1>2, InBankChanged
<1> QED BY <1>2, <1>3 DEF d

(* and what is debited no more.                                             *)
LEMMA Debited ==
    ASSUME NEW b \in [Accounts -> Nat], NEW a \in Accounts, NEW n \in Nat, n <= b[a]
    PROVE  /\ Purse!Debit(b, a, n) \in [Accounts -> Nat]
           /\ InBank(Purse!Debit(b, a, n)) = InBank(b) - n /\ InBank(b) \in Int
<1> DEFINE m == -n
           d == Purse!Debit(b, a, n)
<1>1. b[a] + m \in Nat /\ m \in Int
  OBVIOUS
<1>2. d \in [Accounts -> Nat] /\ d[a] = b[a] + m /\ \A c \in Accounts \ {a} : d[c] = b[c]
  BY <1>1 DEF Purse!Debit
<1> HIDE DEF m, d
<1>3. InBank(d) = InBank(b) + m /\ InBank(b) \in Int
  BY <1>1, <1>2, InBankChanged
<1>4. InBank(d) = InBank(b) - n
  BY <1>3 DEF m
<1> QED BY <1>2, <1>3, <1>4 DEF d

(* What is in the bank is a number.                                         *)
LEMMA InBankType ==
    ASSUME NEW b \in [Accounts -> Nat]
    PROVE  InBank(b) \in Int
<1>1. IsFiniteSet(Accounts) /\ Integral(b, Accounts)
  BY MoneyAssumption DEF Integral
<1> QED BY <1>1, SumType DEF InBank

(* What the player began with, all accounts together.                       *)
AtFirst == Purse!Worth(InitialBag) + StackSize * Purse!Cardinality(Accounts)

(* It never changes.                                                        *)
LEMMA AtFirstIs ==
    /\ AtFirst \in Int /\ AtFirst' = AtFirst
    /\ InitialBag \in Inventories /\ IsFiniteSet(Accounts)
    /\ Purse!Cardinality(Accounts) = Cardinality(Accounts)
<1>1. InitialBag \in Inventories /\ IsFiniteSet(Accounts)
  BY MoneyAssumption DEF Inventories
<1>2. Purse!Cardinality(Accounts) = Cardinality(Accounts)
  BY Zenon DEF Cardinality, Purse!Cardinality
<1>3. Cardinality(Accounts) \in Nat
  BY <1>1, FS_CardinalityType
<1>4. StackSize * Cardinality(Accounts) \in Int
  BY <1>3, SizeIs
<1> HIDE DEF AtFirst
<1>5. AtFirst \in Int
  BY <1>1, <1>2, <1>4, WorthIs DEF AtFirst
<1> QED BY <1>1, <1>2, <1>5

(* What MoneyKept says, part by part.                                       *)
LEMMA MoneyTyped ==
    ASSUME MoneyKept
    PROVE  /\ bag \in Inventories /\ ground \in Nat /\ balance \in [Accounts -> Nat]
           /\ traded \in Int /\ calls \in 0..MaxCalls /\ MaxCalls \in Nat
           /\ vanished \in BOOLEAN /\ doubled \in BOOLEAN
           /\ Purse!Worth(bag) \in Nat /\ InBank(balance) \in Int
           /\ vanished \/ doubled \/ Purse!Worth(bag) + ground + InBank(balance) = AtFirst + traded
<1>1. /\ bag \in Inventories /\ ground \in Nat /\ balance \in [Accounts -> Nat]
      /\ traded \in Int /\ calls \in 0..MaxCalls
      /\ vanished \in BOOLEAN /\ doubled \in BOOLEAN
  BY DEF MoneyKept, Purse!TypeOK, Inventories
<1>2. MaxCalls \in Nat
  BY MoneyAssumption
<1>3. vanished \/ doubled \/ Purse!Wealth = AtFirst + traded
  BY DEF MoneyKept, Purse!MoneyMoves, Purse!MoneyConserved, AtFirst
<1> QED BY <1>1, <1>2, <1>3, WorthIs, WealthIs, InBankType

(* What a call leaves, and what it pays, goes into the whole.               *)
LEMMA PurseKeeps ==
    ASSUME MoneyKept, NEW w \in Purses, Purse!Becomes(w),
           balance' \in [Accounts -> Nat], NEW gain \in Int, traded' = traded + gain,
           w.vanished \/ w.doubled \/ Purse!Worth(w.bag) + w.ground + InBank(balance')
                                        = Purse!Worth(bag) + InBank(balance) + gain
    PROVE  MoneyKept'
<1>1. /\ bag' = w.bag /\ ground' = ground + w.ground /\ calls < MaxCalls /\ calls' = calls + 1
      /\ vanished' = (vanished \/ w.vanished) /\ doubled' = (doubled \/ w.doubled)
  BY DEF Purse!Becomes
<1>2. /\ w.bag \in Inventories /\ w.ground \in Nat /\ Purse!Worth(w.bag) \in Nat
      /\ w.vanished \in BOOLEAN /\ w.doubled \in BOOLEAN
  BY PurseFields
<1>3. /\ bag' \in Inventories /\ ground' \in Nat /\ traded' \in Int /\ calls' \in 0..MaxCalls
  BY <1>1, <1>2, MoneyTyped
<1>4. vanished' \in BOOLEAN /\ doubled' \in BOOLEAN
  BY <1>1, Zenon
<1>5. Purse!TypeOK'
  BY <1>3, <1>4 DEF Purse!TypeOK, Inventories
<1>6. vanished' \/ doubled' \/ Purse!Wealth' = AtFirst + traded'
  <2> SUFFICES ASSUME ~vanished', ~doubled' PROVE Purse!Wealth' = AtFirst + traded'
    OBVIOUS
  <2>1. Purse!Worth(bag) + ground + InBank(balance) = AtFirst + traded
    BY <1>1, MoneyTyped
  <2>2. Purse!Worth(w.bag) + w.ground + InBank(balance')
          = Purse!Worth(bag) + InBank(balance) + gain
    BY <1>1
  <2>3. Purse!Worth(bag)' = Purse!Worth(w.bag)
    <3>1. Purse!Worth(bag)' = Purse!Worth(bag')
      BY Zenon DEF Purse!Worth, Purse!MapThenSumSet, Purse!MapThenFoldSet,
                   Purse!WorthOf, Purse!Slots
    <3>2. bag' = w.bag
      BY <1>1
    <3> QED BY <3>1, <3>2
  <2>4. InBank(balance') \in Int /\ InBank(balance) \in Int
    BY MoneyTyped, InBankType
  <2>5. Purse!Wealth' = Purse!Worth(w.bag) + (ground + w.ground) + InBank(balance')
    BY <1>1, <2>3, WealthIs
  <2> QED BY <1>2, <2>1, <2>2, <2>4, <2>5, MoneyTyped, AtFirstIs
<1>7. Purse!MoneyMoves'
  BY <1>6, AtFirstIs DEF Purse!MoneyMoves, Purse!MoneyConserved, AtFirst
<1> QED BY <1>5, <1>7 DEF MoneyKept

(* A call starts with what the player carries.                              *)
LEMMA PurseIs ==
    ASSUME bag \in Inventories
    PROVE  /\ Purse!Purse(bag) \in Purses /\ Purse!Purse(bag).bag = bag
           /\ Purse!Purse(bag).ground = 0 /\ Purse!Purse(bag).added = 0
           /\ ~Purse!Purse(bag).vanished /\ ~Purse!Purse(bag).doubled
  BY DEF Purse!Purse, Purses

(* Money paid out in coins: what was not is still there.                    *)
LEMMA PaidOut ==
    ASSUME bag \in Inventories, NEW amount \in Nat
    PROVE  LET w == Purse!AddMoney(Purse!Purse(bag), amount, FALSE)
           IN  /\ w \in Purses /\ w.added \in 0..amount
               /\ w.vanished \/ Purse!Worth(w.bag) + w.ground = Purse!Worth(bag) + w.added
<1> DEFINE p == Purse!Purse(bag)
           w == Purse!AddMoney(p, amount, FALSE)
<1>1. p \in Purses /\ p.bag = bag /\ p.ground = 0
  BY PurseIs
<1> HIDE DEF p
<1>2. w \in Added(p, amount, FALSE, amount)
  BY <1>1, MoneyAdded
<1> HIDE DEF w
<1>3. /\ w \in Purses /\ w.added <= amount
      /\ w.vanished \/ Purse!Worth(w.bag) + w.ground = Purse!Worth(p.bag) + p.ground + w.added
  BY <1>2 DEF Added
<1>4. w.added \in Nat /\ Purse!Worth(bag) \in Nat
  BY <1>3, PurseFields, WorthIs
<1>5. w.added \in 0..amount
  BY <1>3, <1>4
<1>6. w.vanished \/ Purse!Worth(w.bag) + w.ground = Purse!Worth(bag) + w.added
  <2>1. Purse!Worth(p.bag) = Purse!Worth(bag) /\ p.ground = 0
    BY <1>1
  <2> QED BY <1>3, <1>4, <2>1
<1> QED BY <1>3, <1>5, <1>6 DEF w, p

(* Bank::withdraw: out of an account, back what was not handed out.         *)
LEMMA WithdrawKeeps ==
    ASSUME MoneyKept, NEW a \in Accounts, NEW amount \in Amounts, Purse!Withdraw(a, amount)
    PROVE  MoneyKept'
<1> DEFINE w == Purse!AddMoney(Purse!Purse(bag), amount, FALSE)
           rest == amount - w.added
           d == Purse!Debit(balance, a, amount)
<1>1. /\ amount <= balance[a] /\ Purse!Becomes(w) /\ traded' = traded
      /\ balance' = Purse!Credit(d, a, rest)
  <2>1. amount \in Nat /\ balance[a] \in Nat
    BY MoneyTyped, MoneyAssumption
  <2> QED BY <2>1 DEF Purse!Withdraw, Purse!Refund
<1>2. amount \in Nat /\ balance \in [Accounts -> Nat]
  BY MoneyTyped, MoneyAssumption
<1>3. /\ w \in Purses /\ w.added \in 0..amount
      /\ w.vanished \/ Purse!Worth(w.bag) + w.ground = Purse!Worth(bag) + w.added
  BY <1>2, MoneyTyped, PaidOut
<1> HIDE DEF w
<1>4. d \in [Accounts -> Nat] /\ InBank(d) = InBank(balance) - amount
  BY <1>1, <1>2, Debited
<1> HIDE DEF d
<1>5. rest \in Nat
  BY <1>2, <1>3
<1>6. balance' \in [Accounts -> Nat] /\ InBank(balance') = InBank(d) + rest
  <2> HIDE DEF rest
  <2> QED BY <1>1, <1>4, <1>5, Credited
<1>7. Purse!Worth(w.bag) \in Nat /\ w.ground \in Nat /\ InBank(balance) \in Int
      /\ Purse!Worth(bag) \in Nat /\ traded \in Int
  BY <1>3, PurseFields, MoneyTyped
<1>8. w.vanished \/ w.doubled \/ Purse!Worth(w.bag) + w.ground + InBank(balance')
                                   = Purse!Worth(bag) + InBank(balance) + 0
  BY <1>2, <1>3, <1>4, <1>5, <1>6, <1>7
<1>9. traded' = traded + 0
  BY <1>1, <1>7
<1> QED BY <1>1, <1>3, <1>6, <1>8, <1>9, PurseKeeps

(* Bank::deposit: there is enough, so nothing is left to pay.               *)
LEMMA DepositKeeps ==
    ASSUME MoneyKept, NEW a \in Accounts, NEW amount \in Amounts, Purse!Deposit(a, amount)
    PROVE  MoneyKept'
<1> DEFINE w == Purse!RemoveMoney(amount)
<1>1. /\ Purse!Worth(bag) >= amount /\ Purse!Becomes(w) /\ traded' = traded
      /\ balance' = Purse!Credit(balance, a, amount)
  BY DEF Purse!Deposit
<1>2. amount \in Nat /\ bag \in Inventories /\ balance \in [Accounts -> Nat] /\ traded \in Int
      /\ Purse!Worth(bag) \in Nat /\ InBank(balance) \in Int
  BY MoneyTyped, MoneyAssumption
<1>3. /\ w \in Purses
      /\ w.vanished \/ w.doubled \/ Purse!Worth(w.bag) + w.ground + amount
                                      = Purse!Worth(bag) + w.left
      /\ w.left > 0 => w.left = amount - Purse!Worth(bag)
  BY <1>2, RemovedIs
<1> HIDE DEF w
<1>4. Purse!Worth(w.bag) \in Nat /\ w.ground \in Nat /\ w.left \in Nat
  BY <1>3, PurseFields
<1>5. w.left = 0
  BY <1>1, <1>2, <1>3, <1>4
<1>6. balance' \in [Accounts -> Nat] /\ InBank(balance') = InBank(balance) + amount
  BY <1>1, <1>2, Credited
<1>7. w.vanished \/ w.doubled \/ Purse!Worth(w.bag) + w.ground + InBank(balance')
                                   = Purse!Worth(bag) + InBank(balance) + 0
  BY <1>2, <1>3, <1>4, <1>5, <1>6
<1>8. traded' = traded + 0
  BY <1>1, <1>2
<1> QED BY <1>1, <1>3, <1>6, <1>7, <1>8, PurseKeeps

(* Bank::transferTo: from one account to another, or to the same.           *)
LEMMA TransferToKeeps ==
    ASSUME MoneyKept, NEW a \in Accounts, NEW c \in Accounts, NEW amount \in Amounts,
           Purse!TransferTo(a, c, amount)
    PROVE  MoneyKept'
<1> DEFINE w == Purse!Purse(bag)
           d == Purse!Debit(balance, a, amount)
<1>1. amount \in Nat /\ bag \in Inventories /\ balance \in [Accounts -> Nat] /\ traded \in Int
      /\ Purse!Worth(bag) \in Nat /\ InBank(balance) \in Int /\ balance[a] \in Nat
  BY MoneyTyped, MoneyAssumption
<1>2. /\ amount <= balance[a] /\ Purse!Becomes(w) /\ traded' = traded
      /\ balance' = Purse!Credit(d, c, amount)
  BY <1>1 DEF Purse!TransferTo
<1>3. w \in Purses /\ w.bag = bag /\ w.ground = 0
  BY <1>1, PurseIs
<1> HIDE DEF w
<1>4. d \in [Accounts -> Nat] /\ InBank(d) = InBank(balance) - amount
  BY <1>1, <1>2, Debited
<1> HIDE DEF d
<1>5. balance' \in [Accounts -> Nat] /\ InBank(balance') = InBank(d) + amount
  BY <1>1, <1>2, <1>4, Credited
<1>6. Purse!Worth(w.bag) + w.ground + InBank(balance') = Purse!Worth(bag) + InBank(balance) + 0
  BY <1>1, <1>3, <1>4, <1>5
<1>7. traded' = traded + 0
  BY <1>1, <1>2
<1> QED BY <1>2, <1>3, <1>5, <1>6, <1>7, PurseKeeps

(* A purchase: the bank pays what the coins do not cover.                   *)
LEMMA BuyKeeps ==
    ASSUME MoneyKept, NEW price \in Amounts, Purse!Buy(price)
    PROVE  MoneyKept'
<1> DEFINE w == Purse!RemoveMoney(price)
           loss == -price
<1>1. price \in Nat /\ bag \in Inventories /\ balance \in [Accounts -> Nat] /\ traded \in Int
      /\ Purse!Worth(bag) \in Nat /\ InBank(balance) \in Int /\ balance[Own] \in Nat
      /\ Own \in Accounts
  BY MoneyTyped, MoneyAssumption
<1>2. /\ Purse!Worth(bag) + balance[Own] >= price /\ Purse!Becomes(w)
      /\ balance' = Purse!Debit(balance, Own, w.left) /\ traded' = traded - price
  BY DEF Purse!Buy
<1>3. /\ w \in Purses
      /\ w.vanished \/ w.doubled \/ Purse!Worth(w.bag) + w.ground + price
                                      = Purse!Worth(bag) + w.left
      /\ w.left > 0 => w.left = price - Purse!Worth(bag)
  BY <1>1, RemovedIs
<1> HIDE DEF w
<1>4. Purse!Worth(w.bag) \in Nat /\ w.ground \in Nat /\ w.left \in Nat
  BY <1>3, PurseFields
<1>5. w.left <= balance[Own]
  BY <1>1, <1>2, <1>3, <1>4
<1>6. balance' \in [Accounts -> Nat] /\ InBank(balance') = InBank(balance) - w.left
  BY <1>1, <1>2, <1>4, <1>5, Debited
<1>7. w.vanished \/ w.doubled \/ Purse!Worth(w.bag) + w.ground + InBank(balance')
                                   = Purse!Worth(bag) + InBank(balance) + loss
  BY <1>1, <1>3, <1>4, <1>6
<1>8. traded' = traded + loss /\ loss \in Int
  BY <1>1, <1>2
<1> HIDE DEF loss
<1> QED BY <1>2, <1>3, <1>6, <1>7, <1>8, PurseKeeps

(* A sale: the bank gets what the inventory does not take.                  *)
LEMMA SellKeeps ==
    ASSUME MoneyKept, NEW price \in Amounts, NEW autobank \in BOOLEAN,
           Purse!Sell(price, autobank)
    PROVE  MoneyKept'
<1> DEFINE w == IF autobank THEN Purse!Purse(bag)
                ELSE Purse!AddMoney(Purse!Purse(bag), price, FALSE)
           rest == price - w.added
<1>1. price \in Nat /\ bag \in Inventories /\ balance \in [Accounts -> Nat] /\ traded \in Int
      /\ Purse!Worth(bag) \in Nat /\ InBank(balance) \in Int /\ Own \in Accounts
  BY MoneyTyped, MoneyAssumption
<1>2. /\ Purse!Becomes(w) /\ balance' = Purse!Credit(balance, Own, rest)
      /\ traded' = traded + price
  BY DEF Purse!Sell
<1>3. /\ w \in Purses /\ w.added \in 0..price
      /\ w.vanished \/ Purse!Worth(w.bag) + w.ground = Purse!Worth(bag) + w.added
  <2>1. CASE autobank
    <3>1. w = Purse!Purse(bag)
      BY <2>1
    <3> HIDE DEF w
    <3>2. w \in Purses /\ w.bag = bag /\ w.ground = 0 /\ w.added = 0
      BY <1>1, <3>1, PurseIs
    <3> QED BY <1>1, <3>2
  <2>2. CASE ~autobank
    <3>1. w = Purse!AddMoney(Purse!Purse(bag), price, FALSE)
      BY <2>2
    <3> HIDE DEF w
    <3> QED BY <1>1, <3>1, PaidOut
  <2> QED BY <2>1, <2>2
<1> HIDE DEF w
<1>4. rest \in Nat
  BY <1>1, <1>3
<1>5. balance' \in [Accounts -> Nat] /\ InBank(balance') = InBank(balance) + rest
  <2> HIDE DEF rest
  <2> QED BY <1>1, <1>2, <1>4, Credited
<1>6. Purse!Worth(w.bag) \in Nat /\ w.ground \in Nat /\ w.added \in Nat
  BY <1>3, PurseFields
<1>7. w.vanished \/ w.doubled \/ Purse!Worth(w.bag) + w.ground + InBank(balance')
                                   = Purse!Worth(bag) + InBank(balance) + price
  BY <1>1, <1>3, <1>5, <1>6
<1> QED BY <1>1, <1>2, <1>3, <1>5, <1>7, PurseKeeps

(* The accounts hold a stack each at first.                                 *)
LEMMA MoneyStarts == MCInit => MoneyKept
<1> SUFFICES ASSUME MCInit PROVE MoneyKept
  OBVIOUS
<1>1. /\ bag = InitialBag /\ ground = 0 /\ balance = [a \in Accounts |-> StackSize]
      /\ traded = 0 /\ calls = 0 /\ vanished = FALSE /\ doubled = FALSE
  BY DEF MCInit, Purse!Init
<1>2. StackSize \in Nat /\ StackSize \in Int /\ MaxCalls \in Nat
  BY SizeIs, MoneyAssumption
<1>3. bag \in Inventories /\ balance \in [Accounts -> Nat]
  BY <1>1, <1>2, AtFirstIs
<1>4. Purse!TypeOK
  <2>1. ground \in Nat /\ traded \in Int /\ calls \in 0..MaxCalls
    BY <1>1, <1>2
  <2>2. vanished \in BOOLEAN /\ doubled \in BOOLEAN
    BY <1>1, Zenon
  <2> QED BY <1>3, <2>1, <2>2 DEF Purse!TypeOK, Inventories
<1>5. InBank(balance) = StackSize * Cardinality(Accounts)
  <2>1. \A a \in Accounts : balance[a] = StackSize
    BY <1>1
  <2> QED BY <1>2, <2>1, AtFirstIs, SumConstant DEF InBank
<1>6. InBank(balance) \in Int /\ Purse!Worth(bag) \in Nat
  BY <1>3, InBankType, WorthIs
<1>7. Purse!Wealth = AtFirst + traded
  <2>1. AtFirst = Purse!Worth(bag) + InBank(balance)
    BY <1>1, <1>5, AtFirstIs DEF AtFirst
  <2> QED BY <1>1, <1>6, <2>1, WealthIs
<1> QED BY <1>4, <1>7 DEF MoneyKept, Purse!MoneyMoves, Purse!MoneyConserved, AtFirst

(* Each call keeps the money.                                               *)
LEMMA MoneyStep ==
    ASSUME MoneyKept, MoneyNext
    PROVE  MoneyKept'
<1>1. PICK amount \in Amounts :
        \/ Purse!Buy(amount)
        \/ \E autobank \in BOOLEAN : Purse!Sell(amount, autobank)
        \/ \E a \in Accounts : Purse!Withdraw(a, amount)
        \/ \E a \in Accounts : Purse!Deposit(a, amount)
        \/ \E a \in Accounts, b \in Accounts : Purse!TransferTo(a, b, amount)
  BY DEF MoneyNext
<1>2. CASE Purse!Buy(amount)
  BY <1>2, BuyKeeps
<1>3. CASE \E autobank \in BOOLEAN : Purse!Sell(amount, autobank)
  BY <1>3, SellKeeps
<1>4. CASE \E a \in Accounts : Purse!Withdraw(a, amount)
  BY <1>4, WithdrawKeeps
<1>5. CASE \E a \in Accounts : Purse!Deposit(a, amount)
  BY <1>5, DepositKeeps
<1>6. CASE \E a \in Accounts, b \in Accounts : Purse!TransferTo(a, b, amount)
  BY <1>6, TransferToKeeps
<1> QED BY <1>1, <1>2, <1>3, <1>4, <1>5, <1>6

(* What goes on elsewhere leaves the money alone.                           *)
LEMMA MoneyUnchanged ==
    ASSUME MoneyKept, UNCHANGED moneyVars
    PROVE  MoneyKept'
<1>1. /\ bag' = bag /\ ground' = ground /\ balance' = balance /\ traded' = traded
      /\ vanished' = vanished /\ doubled' = doubled /\ calls' = calls
  BY DEF moneyVars
<1>2. Purse!TypeOK'
  BY <1>1 DEF MoneyKept, Purse!TypeOK
<1>3. Purse!Worth(bag)' = Purse!Worth(bag)
  BY <1>1, Zenon DEF Purse!Worth, Purse!MapThenSumSet, Purse!MapThenFoldSet,
                     Purse!WorthOf, Purse!Slots
<1>4. Purse!Wealth' = Purse!Wealth
  BY <1>1, <1>3, WealthIs
<1>5. Purse!MoneyMoves'
  BY <1>1, <1>4 DEF MoneyKept, Purse!MoneyMoves, Purse!MoneyConserved
<1> QED BY <1>2, <1>5 DEF MoneyKept

(* For any inventory, sums and accounts: money only moves, whatever is      *)
(* bought, sold, withdrawn, deposited and transferred, as long as no stack  *)
(* was merged that had room for a part of it only and no change was given a *)
(* second time (Game::addMoney, Game::removeMoney, Bank, npc sales).        *)
THEOREM MoneyIsKept == MCSpec => []MoneyKept
<1>1. MCInit => MoneyKept
  BY MoneyStarts
<1>2. MoneyKept /\ [MCNext]_<<game, moneyVars, vars, marketVars, partyVars, houseVars>> => MoneyKept'
  <2>1. CASE MoneyKept /\ MoneyNext
    BY <2>1, MoneyStep
  <2>2. CASE MoneyKept /\ (MarketNext \/ TradeNext \/ HouseNext \/ PartyNext)
    <3>1. UNCHANGED moneyVars
      BY <2>2 DEF MarketNext, TradeNext, HouseNext, PartyNext, Offers, Trades, Lives, Meets
    <3> QED BY <2>2, <3>1, MoneyUnchanged
  <2> QED BY <2>1, <2>2, MoneyUnchanged DEF MCNext
<1> QED BY <1>1, <1>2, PTL DEF MCSpec
==============================================================================
