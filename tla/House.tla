------------------------------- MODULE House -------------------------------
(***************************************************************************)
(* Houses under the Cyclopedia auction (src/game/game.cpp,                  *)
(* playerCyclopediaHouseBid to processBankAuction): bids hold their money   *)
(* until they are outbid or win, an owner moves out or offers the house to  *)
(* another player, who accepts and pays or rejects.  What is due happens    *)
(* when the server starts (src/io/iomapserialize.cpp, loadHouseInfo).       *)
(*                                                                         *)
(* Everything runs on the dispatcher thread, the saves too, as configured   *)
(* by default, so an action is a whole call.  Players and houses are saved  *)
(* in transactions of their own, loading writes one row after the other,    *)
(* and a crash may come between any two steps; one among the players' saves *)
(* counts as one before them.  Time is left out: at a start, any date that  *)
(* is set may have passed.  What canBidHouse answers is only reported, and  *)
(* nothing asks for a house's state before it is bid for.                   *)
(***************************************************************************)
EXTENDS Integers, FiniteSets, Functions

CONSTANTS
    Houses, Buyers, Nobody,
    Rent,      \* House::getRent, the same for all
    Bids,      \* the amounts that are bid, or asked for a house
    Wallet,    \* what everybody has in the bank at first
    Tenants,   \* who may have a house at first
    MaxCalls,  \* bound: how many calls players make
    MaxStops   \* bound: how often the server stops or crashes

VARIABLES
    phase,     \* where the server is between two stops
    house,     \* in memory
    rows,      \* of the table houses
    loaded,    \* the houses loadHouseInfo has been through
    moved,     \* transferHouseItemsToPlayer
    half,      \* the house loadHouseInfo is amid the writes for, if any
    due,       \* what its other write brings (or takes from the stake)
    present,   \* players that are online
    balance,   \* m_bankBalance of a player that is
    saved,     \* the balance in the table players
    earned,    \* history: what houses brought a player, less what they cost
    strayed,   \* history: what players got, or lost, that was not theirs
    reset,     \* history: houses whose owner was inactive
    stale,     \* history: houses whose row kept transfer_status over a crash
    torn,      \* history: a crash came before everything was saved
    demands, stops

money == <<balance, saved>>
loading == <<loaded, moved, half, due>>
marks == <<reset, stale, torn>>
history == <<earned, strayed, marks>>
bounds == <<demands, stops>>
vars == <<phase, house, rows, loading, present, money, history, bounds>>

-----------------------------------------------------------------------------
(* named: bidderName is spelled as the bidder spells it.                    *)
Empty == [owner |-> Nobody, bidder |-> Nobody, named |-> TRUE, highest |-> 0,
          internal |-> 0, limit |-> 0, state |-> "Available", accepted |-> FALSE]

RentedBy(p) == [Empty EXCEPT !.owner = p, !.state = "Rented"]

Nothing == [p \in Buyers |-> 0]

Init ==
    /\ phase = "up" /\ loaded = Houses /\ moved = {} /\ half = {} /\ due = Nothing
    /\ house \in [Houses -> {Empty} \cup {RentedBy(p) : p \in Tenants}]
    /\ rows = house
    /\ present = {} /\ balance = Nothing
    /\ saved = [p \in Buyers |-> Wallet]
    /\ earned = Nothing /\ strayed = Nothing
    /\ reset = {} /\ stale = {} /\ torn = FALSE /\ demands = 0 /\ stops = 0

(* Money that comes (or goes): to the Player object of who is online,       *)
(* IOLoginData::increaseBankBalance to the row of who is not.               *)
Gain(p, amount) == [q \in Buyers |-> IF q = p THEN amount ELSE 0]
Both(first, second) == [q \in Buyers |-> first[q] + second[q]]

Moves(gain) ==
    /\ balance' = [p \in Buyers |-> balance[p] + IF p \in present THEN gain[p] ELSE 0]
    /\ saved' = [p \in Buyers |-> saved[p] + IF p \in present THEN 0 ELSE gain[p]]

Calls(p) ==
    /\ phase = "up" /\ p \in present
    /\ demands < MaxCalls /\ demands' = demands + 1
    /\ UNCHANGED <<phase, rows, loading, present, earned, marks, stops>>

(* The ledger of what the code gives, or takes, and should not.             *)
Strays(amounts) == strayed' = Both(strayed, amounts)

Becomes(h, x) == house' = [house EXCEPT ![h] = x]

-----------------------------------------------------------------------------
(* playerCyclopediaHouseBid with processBankAuction, which also gives the   *)
(* money back to who is outbid, whoever has the name that was stored.       *)
HighestBidder(x, p, bid, highest) ==
    [x EXCEPT !.bidder = p, !.named = TRUE, !.highest = highest,
              !.internal = bid, !.limit = bid]

(* The house holds what its bidder has paid.                                *)
Paid(x) == x.state # "Transfer" \/ x.accepted
Holds(x) == IF Paid(x) THEN Rent + x.internal ELSE 0

IsBidder(x, p) == x.bidder = p /\ x.named

FirstBid(p, h, bid) ==
    /\ Calls(p)
    /\ house[h].bidder = Nobody
    /\ balance[p] >= Rent + bid
    /\ Becomes(h, HighestBidder(house[h], p, bid, 0))
    /\ Moves(Gain(p, -(Rent + bid)))
    /\ UNCHANGED strayed

(* The bidder changes its own bid, up or down; who is offered the house     *)
(* changes the price, and pays the difference although it has paid nothing. *)
ChangeBid(p, h, bid) ==
    LET r == house[h]
    IN  /\ Calls(p)
        /\ IsBidder(r, p)
        /\ balance[p] >= bid
        /\ Becomes(h, HighestBidder(r, p, bid, r.highest))
        /\ Moves(Gain(p, r.internal - bid))
        /\ IF Paid(r) THEN UNCHANGED strayed ELSE Strays(Gain(p, r.internal - bid))

LowerBid(p, h, bid) ==
    /\ Calls(p)
    /\ house[h].bidder # Nobody /\ ~IsBidder(house[h], p)
    /\ bid <= house[h].internal
    /\ Becomes(h, [house[h] EXCEPT !.highest = bid])
    /\ UNCHANGED <<money, strayed>>

MutHeld(x) == Rent + x.highest
Held(x) == Rent + x.limit

(* In a transfer, who was offered the house gets back the rent and whatever *)
(* the limit is, not what it paid, if it did, and the money of who replaces *)
(* it is held only if the transfer had been accepted.                       *)
Outbid(p, h, bid) ==
    LET r == house[h]
        new == HighestBidder(r, p, bid, r.internal + 1)
    IN  /\ Calls(p)
        /\ r.bidder # Nobody /\ ~IsBidder(r, p)
        /\ bid > r.internal /\ balance[p] >= Rent + bid
        /\ Becomes(h, new)
        /\ Moves(Both(Gain(p, -(Rent + bid)), Gain(r.bidder, Held(r))))
        /\ IF r.state = "Transfer"
           THEN Strays(Both(Gain(p, Holds(new) - (Rent + bid)),
                            Gain(r.bidder, Held(r) - Holds(r))))
           ELSE UNCHANGED strayed

Bid(p, h, bid) ==
    FirstBid(p, h, bid) \/ ChangeBid(p, h, bid) \/ LowerBid(p, h, bid) \/ Outbid(p, h, bid)

-----------------------------------------------------------------------------
(* playerCyclopediaHouseMoveOut and CancelMoveOut.                          *)
MoveOut(p, h) ==
    /\ Calls(p)
    /\ house[h].state = "Rented" /\ house[h].owner = p
    /\ Becomes(h, [house[h] EXCEPT !.state = "MoveOut"])
    /\ UNCHANGED <<money, strayed>>

CancelMoveOut(p, h) ==
    /\ Calls(p)
    /\ house[h].state = "MoveOut" /\ house[h].owner = p
    /\ Becomes(h, [house[h] EXCEPT !.state = "Rented"])
    /\ UNCHANGED <<money, strayed>>

(* playerCyclopediaHouseTransfer; the new owner need not be online, and its *)
(* name is stored as it was typed.  A bid for the rented house is forgotten *)
(* with its money, and a transfer_status that was left over accepts the     *)
(* transfer unpaid.                                                         *)
Offered(x, q, named, price) ==
    [x EXCEPT !.bidder = q, !.named = named, !.internal = price, !.state = "Transfer"]

Transfer(p, h, q, named, price) ==
    LET r == house[h]
        new == Offered(r, q, named, price)
    IN  /\ Calls(p)
        /\ r.state = "Rented" /\ r.owner = p /\ q # p
        /\ Becomes(h, new)
        /\ UNCHANGED money
        /\ Strays(Both(Gain(r.bidder, -Holds(r)), Gain(q, Holds(new))))

(* playerCyclopediaHouseAcceptTransfer: the rent is paid too.  If the names *)
(* differ, processBankAuction gives the accepter back what somebody else    *)
(* would have had to be given.                                              *)
AcceptTransfer(q, h) ==
    LET r == house[h]
        back == IF r.named THEN Nothing ELSE Gain(q, Held(r))
    IN  /\ Calls(q)
        /\ r.state = "Transfer" /\ r.bidder = q /\ ~r.accepted
        /\ balance[q] >= Rent + r.internal
        /\ Becomes(h, [r EXCEPT !.accepted = TRUE])
        /\ Moves(Both(Gain(q, -(Rent + r.internal)), back))
        /\ Strays(back)

(* playerCyclopediaHouseCancelTransfer and RejectTransfer.                  *)
NoTransfer(x) ==
    [x EXCEPT !.bidder = Nobody, !.named = TRUE, !.internal = 0, !.state = "Rented",
              !.accepted = FALSE]

EndTransfer(h) ==
    /\ house[h].state = "Transfer"
    /\ Becomes(h, NoTransfer(house[h]))
    /\ IF house[h].accepted
       THEN Moves(Gain(house[h].bidder, house[h].internal + Rent))
       ELSE UNCHANGED money
    /\ UNCHANGED strayed

CancelTransfer(p, h) == Calls(p) /\ house[h].owner = p /\ EndTransfer(h)
RejectTransfer(q, h) == Calls(q) /\ house[h].bidder = q /\ EndTransfer(h)

-----------------------------------------------------------------------------
(* A login reads the row of the player, a logout writes it.                 *)
Login(p) ==
    /\ phase = "up" /\ p \notin present
    /\ present' = present \cup {p}
    /\ balance' = [balance EXCEPT ![p] = saved[p]]
    /\ UNCHANGED <<phase, house, rows, loading, saved, history, bounds>>

Written == [p \in Buyers |-> IF p \in present THEN balance[p] ELSE saved[p]]
Offline == present' = {} /\ balance' = Nothing

Logout(p) ==
    /\ phase = "up" /\ p \in present
    /\ present' = present \ {p}
    /\ saved' = [saved EXCEPT ![p] = balance[p]]
    /\ balance' = [balance EXCEPT ![p] = 0]
    /\ UNCHANGED <<phase, house, rows, loading, history, bounds>>

(* saveHouseInfo writes all but bidHolderLimit.                             *)
Row(x) == [x EXCEPT !.limit = 0]
SaveMap == rows' = [h \in Houses |-> Row(house[h])]

(* SaveManager::saveAll: the players, then the map; a shutdown kicks all    *)
(* players first.                                                           *)
SavePlayers(last) ==
    /\ phase = "up"
    /\ last => stops < MaxStops
    /\ saved' = Written
    /\ IF last THEN Offline /\ phase' = "closing" /\ stops' = stops + 1
               ELSE phase' = "saving" /\ UNCHANGED <<present, balance, stops>>
    /\ UNCHANGED <<house, rows, loading, history, demands>>

Restart == phase' = "loading" /\ loaded' = {} /\ house' = [h \in Houses |-> Empty]

FinishSave ==
    /\ phase \in {"saving", "closing"}
    /\ SaveMap
    /\ IF phase = "saving" THEN phase' = "up" /\ UNCHANGED <<house, loaded>>
                           ELSE Restart
    /\ UNCHANGED <<moved, half, due, present, money, history, bounds>>

(* What a crash loses.  What loading has put into memory is loaded again,   *)
(* but for a bidder that is only there; the halfway house is in the ledger. *)
Unsaved ==
    \/ \E h \in loaded : /\ rows[h] # Row(house[h])
                         /\ phase = "loading" => rows[h].bidder # house[h].bidder
    \/ \E p \in present : balance[p] # saved[p]

Crash ==
    /\ stops < MaxStops /\ stops' = stops + 1
    /\ torn' = (torn \/ Unsaved)
    /\ stale' = stale \cup {h \in Houses : rows[h].accepted /\ rows[h].state # "Transfer"}
    /\ strayed' = [p \in Buyers |-> strayed[p] - due[p]]
    /\ Restart /\ moved' = {} /\ half' = {} /\ due' = Nothing /\ Offline
    /\ UNCHANGED <<rows, saved, earned, reset, demands>>

-----------------------------------------------------------------------------
(* loadHouseInfo, one house after the other.  House::setOwner writes the    *)
(* new owner and what follows from it to the row, all but transfer_status;  *)
(* it does nothing for nobody, whom a house belongs to before it is loaded. *)
SetOwner(row, owner) ==
    IF owner = Nobody THEN row ELSE [RentedBy(owner) EXCEPT !.accepted = row.accepted]

Owned(row, owner) ==
    [row EXCEPT !.owner = owner, !.state = IF owner = Nobody THEN "Available" ELSE "Rented"]

Loads(h, x, row) ==
    /\ phase = "loading" /\ h \in Houses \ loaded /\ loaded' = loaded \cup {h}
    /\ house' = [house EXCEPT ![h] = [x EXCEPT !.limit = x.internal]]
    /\ rows' = [rows EXCEPT ![h] = row]
    /\ UNCHANGED <<phase, present, strayed, marks, bounds>>

(* The auction is over: the winner pays what the others made it, and gets   *)
(* the difference before the row is written.                                *)
Over(r) == r.state = "Available" /\ r.bidder # Nobody
PaysLess(r) == r.highest < r.internal
Price(r) == IF PaysLess(r) THEN r.highest ELSE r.internal

PayWinner(h) ==
    LET r == rows[h]
    IN  /\ phase = "loading" /\ h \in Houses \ loaded /\ half = {}
        /\ Over(r) /\ PaysLess(r)
        /\ half' = {h} /\ due' = Gain(r.bidder, Price(r) - r.internal)
        /\ Moves(Gain(r.bidder, r.internal - Price(r)))
        /\ UNCHANGED <<phase, house, rows, loaded, moved, present, history, bounds>>

EndAuction(h) ==
    LET r == rows[h]
    IN  /\ Over(r) /\ half = IF PaysLess(r) THEN {h} ELSE {}
        /\ Loads(h, [Owned(r, r.bidder) EXCEPT !.bidder = Nobody, !.named = TRUE,
                                               !.highest = 0, !.internal = 0],
                 SetOwner(r, r.bidder))
        /\ half' = {} /\ due' = Nothing
        /\ earned' = Both(earned, Gain(r.bidder, -(Rent + Price(r))))
        /\ UNCHANGED <<moved, money>>

(* The former owner is paid after the row is written.                       *)
CompleteTransfer(h) ==
    LET r == rows[h]
        owner == IF r.accepted THEN r.bidder ELSE r.owner
    IN  /\ half = {}
        /\ r.state = "Transfer" /\ r.bidder # Nobody
        /\ Loads(h, [Owned(r, owner) EXCEPT !.bidder = Nobody, !.named = TRUE,
                                            !.internal = 0, !.accepted = FALSE],
                 SetOwner(r, owner))
        /\ IF r.accepted
           THEN /\ half' = {h} /\ due' = Gain(r.owner, r.internal)
                /\ earned' = Both(earned, Both(Gain(r.owner, r.internal),
                                               Gain(r.bidder, -(Rent + r.internal))))
                /\ moved' = moved \cup {h}
           ELSE UNCHANGED <<half, due, earned, moved>>
        /\ UNCHANGED money

PayFormerOwner(h) ==
    /\ phase = "loading" /\ half = {h} /\ h \in loaded
    /\ Moves(due) /\ half' = {} /\ due' = Nothing
    /\ UNCHANGED <<phase, house, rows, loaded, moved, present, history, bounds>>

CompleteMoveOut(h) ==
    /\ half = {} /\ rows[h].state = "MoveOut"
    /\ Loads(h, Owned(rows[h], Nobody), rows[h])
    /\ moved' = moved \cup {h}
    /\ UNCHANGED <<half, due, money, earned>>

LoadAsIs(h) ==
    /\ half = {}
    /\ Loads(h, rows[h], rows[h])
    /\ UNCHANGED <<moved, half, due, money, earned>>

AllLoaded == phase = "loading" /\ loaded = Houses /\ half = {}

(* Houses::payHouses: an owner that has not logged in for long loses the    *)
(* house.  No rent is ever due here: loading has just set paidUntil to a    *)
(* period from now.  m_state stays as it is.                                *)
ResetInactive(h) ==
    /\ AllLoaded
    /\ house[h].owner # Nobody /\ h \notin reset
    /\ Becomes(h, [house[h] EXCEPT !.owner = Nobody])
    /\ rows' = [rows EXCEPT ![h] = [Empty EXCEPT !.accepted = rows[h].accepted]]
    /\ reset' = reset \cup {h}
    /\ UNCHANGED <<phase, loading, present, money, earned, strayed, stale, torn, bounds>>

(* transferHouseItemsToDepot saves the map when it has moved something,     *)
(* unless it is switched off.                                               *)
GoUp ==
    /\ AllLoaded
    /\ phase' = "up" /\ moved' = {}
    /\ \/ moved # {} /\ SaveMap
       \/ UNCHANGED rows
    /\ UNCHANGED <<house, loaded, half, due, present, money, history, bounds>>

-----------------------------------------------------------------------------
Asks(p, h) ==
    \/ \E bid \in Bids : Bid(p, h, bid)
    \/ MoveOut(p, h) \/ CancelMoveOut(p, h)
    \/ \E q \in Buyers, named \in BOOLEAN, price \in Bids : Transfer(p, h, q, named, price)
    \/ AcceptTransfer(p, h) \/ CancelTransfer(p, h) \/ RejectTransfer(p, h)

Load(h) ==
    \/ PayWinner(h) \/ EndAuction(h) \/ CompleteTransfer(h) \/ PayFormerOwner(h)
    \/ CompleteMoveOut(h) \/ LoadAsIs(h)

Next ==
    \/ \E p \in Buyers : Login(p) \/ Logout(p) \/ \E h \in Houses : Asks(p, h)
    \/ (\E last \in BOOLEAN : SavePlayers(last)) \/ FinishSave \/ Crash
    \/ (\E h \in Houses : Load(h) \/ ResetInactive(h)) \/ GoUp

Spec == Init /\ [][Next]_vars

-----------------------------------------------------------------------------
Records == [owner : Buyers \cup {Nobody}, bidder : Buyers \cup {Nobody},
            named : BOOLEAN, highest : Nat, internal : Nat, limit : Nat,
            state : {"Available", "Rented", "Transfer", "MoveOut"}, accepted : BOOLEAN]

Ledgers == [Buyers -> Int]

TypeOK ==
    /\ phase \in {"up", "saving", "closing", "loading"}
    /\ house \in [Houses -> Records] /\ rows \in [Houses -> Records]
    /\ loaded \subseteq Houses /\ moved \subseteq loaded /\ present \subseteq Buyers
    /\ half \subseteq Houses /\ due \in Ledgers
    /\ balance \in [Buyers -> Nat] /\ saved \in [Buyers -> Nat]
    /\ earned \in Ledgers /\ strayed \in Ledgers
    /\ reset \subseteq Houses /\ stale \subseteq Houses /\ torn \in BOOLEAN
    /\ demands \in 0..MaxCalls /\ stops \in 0..MaxStops

(* A house as it is, or as it will be loaded.                               *)
Now(h) == IF h \in loaded THEN house[h] ELSE rows[h]

(* What a player has at stake in a house, and in all of them.               *)
StakeIn(p, h) == IF Now(h).bidder = p THEN Holds(Now(h)) ELSE 0
Stake(p) == SumFunction([h \in Houses |-> StakeIn(p, h)])

(* A bid or an accepted transfer holds the money of who made it, and it     *)
(* comes back in full, whoever is online and whenever the server is         *)
(* restarted, unless it buys a house; then it costs the price and the rent  *)
(* and brings the price to the owner.  Nothing else strays than what the    *)
(* ledger says: bids for houses that are offered, offers of houses that are *)
(* bid for, names spelled otherwise and crashes between two writes.         *)
MoneyHeld ==
    torn \/ \A p \in Buyers :
        (IF p \in present THEN balance[p] ELSE saved[p]) + Stake(p) + due[p]
            = Wallet + earned[p] + strayed[p]

(* The state of a house agrees with who owns it, who waits for it and who   *)
(* has accepted it.  A house that was taken from an inactive owner is not   *)
(* available again, and a crash may leave transfer_status behind.           *)
StatesAgree ==
    torn \/ \A h \in Houses :
        LET it == Now(h) IN
        /\ it.state = "Available" => it.owner = Nobody
        /\ it.state # "Available" => it.owner # Nobody \/ h \in reset
        /\ it.state = "Transfer" => it.bidder # Nobody
        /\ it.accepted => it.state = "Transfer" \/ h \in stale
=============================================================================
