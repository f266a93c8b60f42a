------------------------------- MODULE Trade -------------------------------
(***************************************************************************)
(* Trades between players (src/game/game.cpp, playerRequestTrade to         *)
(* internalCloseTrade) and what closes them: the notifications of           *)
(* src/creatures/players/player.cpp when a player walks off or leaves, and  *)
(* when an item that is on offer is touched.                                *)
(*                                                                         *)
(* Everything runs on the dispatcher thread, so an action is a whole call.  *)
(* An item is in a slot of a player's inventory, in a bag, which may be in  *)
(* another, or on the ground.                                               *)
(* Positions are left out: whenever somebody walks, whatever the walk may   *)
(* bring out of reach may be out of reach.                                  *)
(***************************************************************************)
EXTENDS Naturals, FiniteSets, Functions

CONSTANTS
    Players, Nobody,
    Goods,      \* the items
    Bags,       \* those that are containers
    Stackables,     \* those that are half a stack of one and the same kind
    Capacity,      \* bound: the places of an inventory, and of a bag
    Start,      \* where the items are at first
    MaxMoves    \* bound: how often an item is moved or somebody walks

Ground == "ground"
Nothing == "nothing"
Anywhere == Players \cup Bags \cup {Ground}

ASSUME TradeAssumption ==
    /\ IsFiniteSet(Goods) /\ Bags \subseteq Goods
    /\ Goods \cap (Players \cup {Ground, Nothing}) = {}
    /\ Ground \notin Players /\ Nobody \notin Players
    /\ Start \in [Goods -> Anywhere]
    /\ Capacity \in Nat /\ MaxMoves \in Nat

VARIABLES
    where,         \* a player, a bag or the ground
    tradeState, tradePartner, tradeItem,  \* of each player
    tradeItems,    \* the items on offer: a partial function to players
    accepted,      \* history: the offer a player accepted, and what is in it
    leftBehind,    \* history: what a transfer that succeeded did not move
    moves

trade == <<tradeState, tradePartner, tradeItem, tradeItems>>
vars == <<where, trade, accepted, leftBehind, moves>>

-----------------------------------------------------------------------------
Init ==
    /\ where = Start
    /\ tradeState = [p \in Players |-> "none"]
    /\ tradePartner = [p \in Players |-> Nobody]
    /\ tradeItem = [p \in Players |-> Nothing]
    /\ tradeItems = [i \in {} |-> Nobody]
    /\ accepted = [p \in Players |-> {}]
    /\ leftBehind = Nothing
    /\ moves = 0

(* isHoldingItem: it is in whatever set has what is in the bag and what is  *)
(* in something of the set.                                                 *)
Holds(place, b, i) ==
    /\ b \in Bags /\ i \in Goods
    /\ \A S \in SUBSET Goods :
         (\A j \in Goods : place[j] \in S \cup {b} => j \in S) => i \in S

Carries(p, i) == where[i] = p \/ \E b \in Bags : where[b] = p /\ Holds(where, b, i)
Reaches(p, i) == Carries(p, i) \/ Carries(Ground, i)

Vacancy(place, x) == Cardinality({j \in Goods : place[j] = x}) < Capacity
Offer(p) == {tradeItem[p]} \cup {i \in Goods : Holds(where, tradeItem[p], i)}
Offered == DOMAIN tradeItems

-----------------------------------------------------------------------------
(* playerRequestTrade: an item that is on offer, or in one that is, or has  *)
(* one in it, is refused.                                                   *)
AlreadyTraded(i) ==
    \E j \in Offered : i = j \/ Holds(where, i, j) \/ Holds(where, j, i)

(* internalStartTrade: the other side of a first offer is asked to answer.  *)
MayStart(p, q) ==
    /\ \/ tradeState[p] = "none"
       \/ tradeState[p] = "acknowledge" /\ tradePartner[p] = q
    /\ tradeState[q] = "none" \/ tradePartner[q] = p

RequestTrade(p, q, i) ==
    /\ p # q /\ Reaches(p, i)
    /\ ~AlreadyTraded(i) /\ MayStart(p, q)
    /\ tradeItem' = [tradeItem EXCEPT ![p] = i]
    /\ tradeItems' = [j \in Offered \cup {i} |-> IF j = i THEN p ELSE tradeItems[j]]
    /\ LET asked == tradeState[q] = "none"
       IN  /\ tradeState' = [tradeState EXCEPT ![p] = "initiated",
                               ![q] = IF asked THEN "acknowledge" ELSE @]
           /\ tradePartner' = [tradePartner EXCEPT ![p] = q,
                                 ![q] = IF asked THEN p ELSE @]
    /\ UNCHANGED <<where, accepted, leftBehind, moves>>

-----------------------------------------------------------------------------
(* internalCloseTrade for each of some players, and their partners.         *)
MutAlsoClosed(q) == {}
AlsoClosed(q) == {tradePartner[q]} \ {Nobody}

Close(closing) ==
    LET closed == closing \cup UNION {AlsoClosed(q) : q \in closing}
    IN  /\ tradeState' = [p \in Players |-> IF p \in closed THEN "none" ELSE tradeState[p]]
        /\ tradePartner' = [p \in Players |-> IF p \in closed THEN Nobody ELSE tradePartner[p]]
        /\ tradeItem' = [p \in Players |-> IF p \in closed THEN Nothing ELSE tradeItem[p]]
        /\ tradeItems' = Restrict(tradeItems, Offered \ {tradeItem[p] : p \in closed})
        /\ accepted' = [p \in Players |-> IF p \in closed THEN {} ELSE accepted[p]]

CloseTrade(p) ==
    /\ tradeState[p] # "none"
    /\ Close({p})
    /\ UNCHANGED <<where, leftBehind, moves>>

-----------------------------------------------------------------------------
(* checkTradeState and the tests beside it, for an item that goes from one  *)
(* place to another, by whoever is told: those near, or else the owner.  A  *)
(* bag that loses an item also closes the trades of what is deeper in it.   *)
Touches(place, i, to, offer) ==
    \/ offer \in {i, to}
    \/ Holds(place, offer, i) \/ Holds(place, i, offer) \/ Holds(place, offer, to)
    \/ place[i] # place[offer] /\ Holds(place, place[i], offer)

Disturbed(place, i, to) ==
    {q \in Players : tradeItem[q] # Nothing /\ Touches(place, i, to, tradeItem[q])}

-----------------------------------------------------------------------------
(* queryDestination for a player that gets the item of a trade: a free      *)
(* place in the inventory or in a bag in it; the player's own offer in a    *)
(* slot is passed over, and nobody looks into a bag that is full.           *)
Open(p, place) == {b \in Bags : place[b] = p /\ b # tradeItem[p]}
Vacant(p, place) ==
    IF Vacancy(place, p) THEN {p} ELSE {b \in Open(p, place) : Vacancy(place, b)}

(* The test of the transfer, for a stack: room in any bag that is not in    *)
(* the own offer, or another stack there that takes it up.                  *)
Within(p) ==
    {p} \cup {b \in Bags : Carries(p, b) /\ b # tradeItem[p] /\ ~Holds(where, tradeItem[p], b)}

Merges(p, i) ==
    i \in Stackables /\ \E x \in Within(p) :
        Vacancy(where, x) \/ \E j \in Stackables \ {i, tradeItem[p]} : where[j] = x

MutFits(p, i) == i # Nothing
Fits(p, i) == i # Nothing /\ (Merges(p, i) \/ Vacant(p, where) # {})

(* The second of the two moves is not looked at: the trade succeeds.        *)
Transfers(p, q) ==
    LET given == tradeItem[p]
        got == tradeItem[q]
    IN  \/ /\ ~(Fits(q, given) /\ Fits(p, got)) \/ Vacant(q, where) = {}
           /\ Close({p, q})
           /\ UNCHANGED <<where, leftBehind>>
        \/ /\ Fits(q, given) /\ Fits(p, got)
           /\ \E to \in Vacant(q, where) :
                LET moved == [where EXCEPT ![given] = to]
                    told == {p, q} \cup Disturbed(where, given, to)
                IN  \/ /\ Vacant(p, moved) = {}
                       /\ where' = moved /\ leftBehind' = got
                       /\ Close(told)
                    \/ \E back \in Vacant(p, moved) :
                         /\ where' = [moved EXCEPT ![got] = back]
                         /\ Close(told \cup Disturbed(moved, got, back))
                         /\ UNCHANGED leftBehind

(* playerAcceptTrade: when both have accepted the items change hands.       *)
AcceptTrade(p) ==
    LET q == tradePartner[p]
    IN  /\ tradeState[p] \in {"acknowledge", "initiated"}
        /\ \/ /\ tradeState[q] # "accept"
              /\ tradeState' = [tradeState EXCEPT ![p] = "accept"]
              /\ accepted' = [accepted EXCEPT ![p] = Offer(q)]
              /\ UNCHANGED <<where, tradePartner, tradeItem, tradeItems, leftBehind>>
           \/ /\ tradeState[q] = "accept"
              /\ Transfers(p, q)
           \/ /\ tradeState[q] = "accept"  \* a script refuses
              /\ Close({p, q})
              /\ UNCHANGED <<where, leftBehind>>
        /\ UNCHANGED moves

-----------------------------------------------------------------------------
(* A player moves what it carries or can reach to a place that is free.     *)
MoveItem(p, i, to) ==
    /\ moves < MaxMoves /\ moves' = moves + 1
    /\ Reaches(p, i) /\ to # where[i]
    /\ to = Ground \/ Vacancy(where, to)
    /\ to \in Bags => to # i /\ ~Holds(where, i, to) /\ Reaches(p, to)
    /\ where' = [where EXCEPT ![i] = to]
    /\ Close(Disturbed(where, i, to))
    /\ UNCHANGED leftBehind

(* onCreatureMove finds the offer or the partner out of reach; or the       *)
(* player leaves the game.                                                  *)
WalkAway(p) ==
    /\ moves < MaxMoves /\ moves' = moves + 1
    /\ tradePartner[p] # Nobody
    /\ Close({p})
    /\ UNCHANGED <<where, leftBehind>>

Next ==
    \E p \in Players :
        \/ \E q \in Players, i \in Goods : RequestTrade(p, q, i)
        \/ AcceptTrade(p) \/ CloseTrade(p) \/ WalkAway(p)
        \/ \E i \in Goods, to \in {p, Ground} \cup Bags : MoveItem(p, i, to)

Spec == Init /\ [][Next]_vars

-----------------------------------------------------------------------------
TradeStates == {"none", "acknowledge", "initiated", "accept"}

TypeOK ==
    /\ where \in [Goods -> Anywhere]
    /\ tradeState \in [Players -> TradeStates]
    /\ tradePartner \in [Players -> Players \cup {Nobody}]
    /\ tradeItem \in [Players -> Goods \cup {Nothing}]
    /\ Offered \subseteq Goods /\ tradeItems \in [Offered -> Players]
    /\ accepted \in [Players -> SUBSET (Goods \cup {Nothing})]
    /\ leftBehind \in Goods \cup {Nothing} /\ moves \in 0..MaxMoves

(* A trade has two sides who know each other, and tradeItems is what they   *)
(* have on offer, whoever closed which trade for what reason before: no     *)
(* player is left in a trade its partner is not in.                         *)
Paired ==
    \A p \in Players :
        /\ tradeState[p] = "none" <=> tradePartner[p] = Nobody
        /\ tradePartner[p] # Nobody =>
             tradePartner[p] # p /\ tradePartner[tradePartner[p]] = p
        /\ tradeState[p] = "initiated" => tradeItem[p] # Nothing
        /\ tradeState[p] \in {"none", "acknowledge"} => tradeItem[p] = Nothing
        /\ tradeItem[p] # Nothing =>
             tradeItem[p] \in Offered /\ tradeItems[tradeItem[p]] = p

(* An item is in one offer only, itself or within a bag, and its owner can  *)
(* still hand it over, wherever items were moved meanwhile.                 *)
OffersApart ==
    \A i \in Offered :
        /\ tradeItem[tradeItems[i]] = i
        /\ Reaches(tradeItems[i], i)
        /\ \A j \in Offered : ~Holds(where, i, j)

(* What a player has accepted is not replaced, added to or taken from until *)
(* it is handed over; but who accepts before there is an offer has accepted *)
(* whatever will be offered.                                                *)
AcceptedStands ==
    \A p \in Players :
        tradeState[p] = "accept" =>
            accepted[p] \in {{Nothing}, Offer(tradePartner[p])}

(* Both items change hands or none does; but room that the test of the      *)
(* transfer found on another stack is no room for the transfer.             *)
BothOrNone == leftBehind \in Stackables \cup {Nothing}

(* A trade has two sides, and what is on offer is in one offer and within   *)
(* its owner's reach (Game::internalStartTrade, internalCloseTrade and the  *)
(* notifications of Player).                                                *)
TradeKept == TypeOK /\ Paired /\ OffersApart

(* What was accepted is what changes hands, and both items do or none does  *)
(* (Game::playerAcceptTrade).                                               *)
TradeFair == AcceptedStands /\ BothOrNone
=============================================================================
