------------------------------- MODULE MCGame -------------------------------
(* What players do on the dispatcher thread: money, trades, the market,     *)
(* parties and houses.  Each has its own state, so a behaviour runs one of  *)
(* them and leaves the others in their initial states.                      *)
EXTENDS Trade

CONSTANTS
    p1, p2, p3, sack, x, Traders,
    Own, Accounts, StackSize, Places, Amounts, InitialBag, MaxCalls,
    Prices, Quantities, Fee, Funds, Stock, MaxOffers, MaxResults, MaxErrors,
    MaxParties, MaxSteps, MaxRefusals,
    Houses, Rent, Bids, Wallet, Tenants, MaxDemands, MaxStops

ASSUME MarketAssumption ==
    /\ IsFiniteSet(Traders) /\ Prices \subseteq Nat /\ Quantities \subseteq Nat \ {0}
    /\ Fee \in Nat /\ Funds \in Nat /\ Stock \in Nat
    /\ MaxOffers \in Nat /\ MaxResults \in Nat /\ MaxErrors \in Nat

ASSUME PartyAssumption == MaxParties \in Nat /\ MaxSteps \in Nat /\ MaxRefusals \in Nat

ASSUME HousesAssumption ==
    /\ IsFiniteSet(Houses) /\ Nobody \notin Traders
    /\ Rent \in Nat /\ Bids \subseteq Nat /\ Wallet \in Nat /\ Tenants \subseteq Traders
    /\ MaxDemands \in Nat /\ MaxStops \in Nat

VARIABLES
    game,  \* which of them runs
    bag, ground, balance, traded, vanished, doubled, calls,
    funds, stash, locker, market_offers, results, made, fees, forfeited,
    outdated, errors,
    society, far, idle, gone, created, steps, refusals,
    phase, house, rows, loaded, moved, half, due, present, bank, saved, earned,
    strayed, reset, stale, torn, demands, stops

moneyVars == <<bag, ground, balance, traded, vanished, doubled, calls>>
marketVars == <<funds, stash, locker, market_offers, results, made, fees,
    forfeited, outdated, errors>>
partyVars == <<society, far, idle, gone, created, steps, refusals>>
houseVars == <<phase, house, rows, loaded, moved, half, due, present, bank, saved,
    earned, strayed, reset, stale, torn, demands, stops>>

(* One coin of the greatest kind, one free place, two of the smallest coins.*)
Bag == <<[unit |-> StackSize * StackSize, count |-> 1],
         [unit |-> 0, count |-> 0], [unit |-> 1, count |-> 2]>>

(* A bag and half a stack with one player, the other half with another.     *)
FirstPlace == [i \in Goods |->
    IF i = x THEN Ground ELSE IF i \in Bags \cup {CHOOSE s \in Stackables : TRUE} THEN p1 ELSE p2]

Purse == INSTANCE Money
Stall == INSTANCE Market WITH Amounts <- Quantities, Goods <- Stock
Group == INSTANCE Party
Homes == INSTANCE House WITH Buyers <- Traders, MaxCalls <- MaxDemands, balance <- bank

ASSUME MoneyAssumption ==
    /\ StackSize \in Nat \ {0} /\ Places \in Nat
    /\ Amounts \subseteq Nat /\ MaxCalls \in Nat
    /\ IsFiniteSet(Accounts) /\ Own \in Accounts
    /\ InitialBag \in [Purse!Slots -> Purse!Stacks]

MCInit ==
    /\ game \in {"money", "trade", "market", "party", "house"}
    /\ Purse!Init /\ Init /\ Stall!Init /\ Group!Init /\ Homes!Init
    /\ game # "house" => house = [h \in Houses |-> Homes!Empty]

Pays == UNCHANGED <<game, vars, marketVars, partyVars, houseVars>>
Trades == UNCHANGED <<game, moneyVars, marketVars, partyVars, houseVars>>
Offers == UNCHANGED <<game, moneyVars, vars, partyVars, houseVars>>
Meets == UNCHANGED <<game, moneyVars, vars, marketVars, houseVars>>
Lives == UNCHANGED <<game, moneyVars, vars, marketVars, partyVars>>

MoneyNext ==
    game = "money" /\ \E amount \in Amounts :
        \/ Pays /\ Purse!Buy(amount)
        \/ \E autobank \in BOOLEAN : Pays /\ Purse!Sell(amount, autobank)
        \/ \E a \in Accounts :
             \/ Pays /\ Purse!Withdraw(a, amount)
             \/ Pays /\ Purse!Deposit(a, amount)
             \/ \E b \in Accounts : Pays /\ Purse!TransferTo(a, b, amount)

TradeNext ==
    game = "trade" /\ \E p \in Players :
        \/ \E q \in Players, i \in Goods : Trades /\ RequestTrade(p, q, i)
        \/ Trades /\ AcceptTrade(p)
        \/ Trades /\ CloseTrade(p)
        \/ Trades /\ WalkAway(p)
        \/ \E i \in Goods, to \in {p, Ground} \cup Bags :
             Trades /\ MoveItem(p, i, to)

MarketNext ==
    /\ game = "market"
    /\ \/ Offers /\ Stall!CheckExpired
       \/ Offers /\ Stall!ProcessExpired
       \/ \E i \in 1..MaxOffers :
            \/ Offers /\ Stall!GrowOld(i)
            \/ \E a \in Traders :
                 \/ Offers /\ Stall!CancelOffer(a, i)
                 \/ \E amount \in Quantities : Offers /\ Stall!AcceptOffer(a, i, amount)
       \/ \E a \in Traders, amount \in Quantities, price \in Prices :
            \/ Offers /\ Stall!CreateSell(a, amount, price)
            \/ Offers /\ Stall!CreateBuy(a, amount, price)

PartyNext ==
    game = "party" /\ \E p \in Players :
        \/ \E q \in Players :
             \/ Meets /\ Group!Invite(p, q)
             \/ Meets /\ Group!Join(p, q)
             \/ Meets /\ Group!PassLeadership(p, q)
             \/ Meets /\ Group!Walk(p, q)
             \/ \E refused \in BOOLEAN : Meets /\ Group!Revoke(p, q, refused)
        \/ \E refused \in BOOLEAN :
             \/ Meets /\ Group!Leave(p, refused)
             \/ \E stays \in BOOLEAN : Meets /\ Group!Logout(p, stays, refused)
        \/ Meets /\ Group!SetSharedExperience(p)
        \/ Meets /\ Group!Fight(p)
        \/ Meets /\ Group!TicksEnd(p)

HouseNext ==
    /\ game = "house"
    /\ \/ \E p \in Traders :
            \/ Lives /\ Homes!Login(p)
            \/ Lives /\ Homes!Logout(p)
            \/ \E h \in Houses :
                 \/ \E bid \in Bids :
                      \/ Lives /\ Homes!FirstBid(p, h, bid)
                      \/ Lives /\ Homes!ChangeBid(p, h, bid)
                      \/ Lives /\ Homes!LowerBid(p, h, bid)
                      \/ Lives /\ Homes!Outbid(p, h, bid)
                      \/ \E q \in Traders, named \in BOOLEAN :
                           Lives /\ Homes!Transfer(p, h, q, named, bid)
                 \/ Lives /\ Homes!MoveOut(p, h)
                 \/ Lives /\ Homes!CancelMoveOut(p, h)
                 \/ Lives /\ Homes!AcceptTransfer(p, h)
                 \/ Lives /\ Homes!CancelTransfer(p, h)
                 \/ Lives /\ Homes!RejectTransfer(p, h)
       \/ \E last \in BOOLEAN : Lives /\ Homes!SavePlayers(last)
       \/ Lives /\ Homes!FinishSave
       \/ Lives /\ Homes!Crash
       \/ \E h \in Houses :
            \/ Lives /\ Homes!PayWinner(h)
            \/ Lives /\ Homes!EndAuction(h)
            \/ Lives /\ Homes!CompleteTransfer(h)
            \/ Lives /\ Homes!PayFormerOwner(h)
            \/ Lives /\ Homes!CompleteMoveOut(h)
            \/ Lives /\ Homes!LoadAsIs(h)
            \/ Lives /\ Homes!ResetInactive(h)
       \/ Lives /\ Homes!GoUp

MCNext == MoneyNext \/ TradeNext \/ MarketNext \/ PartyNext \/ HouseNext

MCSpec ==
    /\ MCInit /\ [][MCNext]_<<game, moneyVars, vars, marketVars, partyVars, houseVars>>
    /\ Stall!Fairness

(* Money only moves, as long as no stack of coins vanished and no change    *)
(* was given twice (Game::addMoney, Game::removeMoney, Bank).               *)
MoneyKept == Purse!TypeOK /\ Purse!MoneyMoves

(* What an offer holds is paid out once, unless it expires while it is      *)
(* accepted in part (Game::playerCreateMarketOffer to IOMarket).            *)
MarketKept == Stall!TypeOK /\ Stall!MarketKept

(* Parties and players agree on who is a member and who is invited, and     *)
(* experience is shared with nobody who is too far away (Party).            *)
PartyKept ==
    /\ Group!TypeOK
    /\ Group!MembersAgree /\ Group!InvitesAgree /\ Group!SharedFairly

(* Bids and accepted transfers hold the money they promise until it comes   *)
(* back or buys the house, but for the amounts in the ledger strayed, and a *)
(* house's state agrees with its owner and its bidder, over restarts and    *)
(* crashes at any write of loading (Game::playerCyclopediaHouseBid to       *)
(* IOMapSerialize::loadHouseInfo).                                          *)
HousesKept == Homes!TypeOK /\ Homes!MoneyHeld /\ Homes!StatesAgree

(* An offer that is too old is given back (IOMarket::checkExpiredOffers).   *)
OldOffersLeave == Stall!OldOffersLeave
=============================================================================
