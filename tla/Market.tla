------------------------------- MODULE Market -------------------------------
(***************************************************************************)
(* The market: offers are rows of market_offers, what is offered is taken   *)
(* from the player when the offer is made (src/game/game.cpp,               *)
(* playerCreateMarketOffer to playerAcceptMarketOffer), and offers that are *)
(* too old are given back (src/io/iomarket.cpp, checkExpiredOffers).        *)
(*                                                                         *)
(* The calls of players run on the dispatcher thread, each a single action; *)
(* the query for old offers runs on a pool thread and its rows come back as *)
(* a dispatcher task.  One kind of good is traded.  A player's funds are    *)
(* the bank balance with the coins (see Money), and a player who is offline *)
(* is loaded, changed and saved within the call.  Store coins, tiers and    *)
(* the market history are left out.                                         *)
(***************************************************************************)
EXTENDS Naturals, FiniteSets, FiniteSetsExt, SequencesExt, Functions

CONSTANTS
    Traders,
    Prices, Amounts,  \* what players ask for
    Fee,
    Funds, Goods,     \* what each has at first, half of the goods in the stash
    MaxOffers,        \* bound: how many offers are made
    MaxResults,       \* bound: how many results of the query are on their way
    MaxErrors         \* bound: how many queries fail

VARIABLES
    funds, stash, locker,  \* of each player
    market_offers,         \* the rows: a partial function from ids
    results,               \* what queries for old offers have found
    made,
    fees, forfeited,       \* history: fees paid, goods taken in vain
    outdated,              \* history: an offer was given back as it had been
    errors

owned == <<funds, stash, locker>>
history == <<fees, forfeited, outdated>>
vars == <<owned, market_offers, results, made, history, errors>>

-----------------------------------------------------------------------------
Ids == 1..MaxOffers
Rows == [owner : Traders, sale : BOOLEAN, amount : Nat, price : Prices, old : BOOLEAN]
Listed == DOMAIN market_offers

Init ==
    /\ funds = [a \in Traders |-> Funds]
    /\ stash = [a \in Traders |-> Goods \div 2]
    /\ locker = [a \in Traders |-> Goods - (Goods \div 2)]
    /\ market_offers = [i \in {} |-> 0]
    /\ results = <<>> /\ made = 0
    /\ fees = 0 /\ forfeited = 0 /\ outdated = FALSE
    /\ errors = 0

Plus(f, a, n) == [f EXCEPT ![a] = @ + n]
Minus(f, a, n) == [f EXCEPT ![a] = @ - n]

(* A query that writes: its result is not looked at.                        *)
Writes(rows) ==
    \/ market_offers' = rows /\ UNCHANGED errors
    \/ /\ errors < MaxErrors /\ errors' = errors + 1
       /\ UNCHANGED market_offers

-----------------------------------------------------------------------------
(* removeOfferItems: from the stash first, the rest from the locker; what   *)
(* was taken before it turns out not to be enough is not put back.          *)
Least(n, m) == Min({n, m})
FromStash(a, amount) == Least(stash[a], amount)
FromLocker(a, amount) == Least(locker[a], amount - FromStash(a, amount))
Has(a, amount) == stash[a] + locker[a] >= amount

RemoveOfferItems(a, amount) ==
    /\ stash' = Minus(stash, a, FromStash(a, amount))
    /\ locker' = Minus(locker, a, FromLocker(a, amount))
    /\ forfeited' = forfeited +
         (IF Has(a, amount) THEN 0 ELSE FromStash(a, amount) + FromLocker(a, amount))

NewOffer(a, sale, amount, price) ==
    [owner |-> a, sale |-> sale, amount |-> amount, price |-> price, old |-> FALSE]

CreateOffer(a, sale, amount, price) ==
    /\ made < MaxOffers /\ made' = made + 1
    /\ Writes([i \in Listed \cup {made + 1} |->
                 IF i \in Listed THEN market_offers[i]
                                 ELSE NewOffer(a, sale, amount, price)])
    /\ fees' = fees + Fee

CreateSell(a, amount, price) ==
    /\ funds[a] >= Fee
    /\ RemoveOfferItems(a, amount)
    /\ \/ /\ Has(a, amount)
          /\ CreateOffer(a, TRUE, amount, price)
          /\ funds' = Minus(funds, a, Fee)
       \/ /\ ~Has(a, amount)
          /\ UNCHANGED <<funds, market_offers, made, fees, errors>>
    /\ UNCHANGED <<results, outdated>>

CreateBuy(a, amount, price) ==
    /\ funds[a] >= price * amount + Fee
    /\ CreateOffer(a, FALSE, amount, price)
    /\ funds' = Minus(funds, a, price * amount + Fee)
    /\ UNCHANGED <<stash, locker, results, forfeited, outdated>>

-----------------------------------------------------------------------------
(* What some offers hold goes back to their owners.                         *)
MoneyIn(o) == IF o.sale THEN 0 ELSE o.price * o.amount
GoodsIn(o) == IF o.sale THEN o.amount ELSE 0

Returned(a, rows, worth) ==
    SumFunction([i \in DOMAIN worth |-> IF rows[i].owner = a THEN worth[i] ELSE 0])

GiveBack(rows, ids) ==
    LET money == [i \in ids |-> MoneyIn(rows[i])]
        goods == [i \in ids |-> GoodsIn(rows[i])]
    IN  /\ funds' = [a \in Traders |-> funds[a] + Returned(a, rows, money)]
        /\ locker' = [a \in Traders |-> locker[a] + Returned(a, rows, goods)]

(* What is returned first and removed from the table afterwards is returned *)
(* again when the removal fails.                                            *)
Without(ids) == Restrict(market_offers, Listed \ ids)

CancelOffer(a, i) ==
    /\ i \in Listed /\ market_offers[i].owner = a
    /\ GiveBack(market_offers, {i})
    /\ Writes(Without({i}))
    /\ UNCHANGED <<stash, results, made, history>>

(* acceptOffer, or deleteOffer for the last of it.                          *)
MutRemaining(i, amount) == market_offers
Remaining(i, amount) ==
    IF market_offers[i].amount = amount THEN Without({i})
    ELSE [market_offers EXCEPT ![i].amount = @ - amount]

(* Somebody else takes an offer, or a part of it.                           *)
AcceptSell(a, i, amount) ==
    LET offer == market_offers[i]
        totalPrice == offer.price * amount
    IN  /\ offer.sale /\ totalPrice <= funds[a]
        /\ funds' = Plus(Minus(funds, a, totalPrice), offer.owner, totalPrice)
        /\ locker' = Plus(locker, a, amount)
        /\ Writes(Remaining(i, amount))
        /\ UNCHANGED <<stash, forfeited>>

AcceptBuy(a, i, amount) ==
    LET offer == market_offers[i]
    IN  /\ ~offer.sale
        /\ \/ /\ Has(a, amount)
              /\ stash' = Minus(stash, a, FromStash(a, amount))
              /\ locker' = Plus(Minus(locker, a, FromLocker(a, amount)),
                                offer.owner, amount)
              /\ funds' = Plus(funds, a, offer.price * amount)
              /\ Writes(Remaining(i, amount))
              /\ UNCHANGED forfeited
           \/ /\ ~Has(a, amount)  \* the buyer's goods are taken back
              /\ RemoveOfferItems(a, amount)
              /\ UNCHANGED <<funds, market_offers, errors>>

AcceptOffer(a, i, amount) ==
    /\ i \in Listed /\ market_offers[i].owner # a
    /\ amount <= market_offers[i].amount
    /\ AcceptSell(a, i, amount) \/ AcceptBuy(a, i, amount)
    /\ UNCHANGED <<results, made, fees, outdated>>

-----------------------------------------------------------------------------
(* An offer reaches MARKET_OFFER_DURATION.                                  *)
GrowOld(i) ==
    /\ i \in Listed /\ ~market_offers[i].old
    /\ market_offers' = [market_offers EXCEPT ![i].old = TRUE]
    /\ UNCHANGED <<owned, results, made, history, errors>>

(* checkExpiredOffers, as far as a thread of the pool runs it.              *)
Old == {i \in Listed : market_offers[i].old}

MutFound == {i \in Old : market_offers[i].sale}
Found == Old

CheckExpired ==
    /\ Found # {} /\ Len(results) < MaxResults
    /\ results' = Append(results, Restrict(market_offers, Found))
    /\ UNCHANGED <<owned, market_offers, made, history, errors>>

(* processExpiredOffers: each row is looked up and deleted again before it  *)
(* is given back, but with the amount it had when it was found.             *)
StillThere(found) == DOMAIN found \cap Listed

ProcessExpired ==
    /\ results # <<>> /\ results' = Tail(results)
    /\ LET found == Head(results)
       IN  \E failed \in SUBSET StillThere(found) :
             LET ended == StillThere(found) \ failed
             IN  /\ errors' = errors + Cardinality(failed) /\ errors' <= MaxErrors
                 /\ market_offers' = Without(ended)
                 /\ GiveBack(found, ended)
                 /\ outdated' = (outdated \/ \E i \in ended \cap Listed :
                                    found[i].amount # market_offers[i].amount)
    /\ UNCHANGED <<stash, made, fees, forfeited>>

-----------------------------------------------------------------------------
Next ==
    \/ \E i \in Ids : GrowOld(i)
    \/ CheckExpired \/ ProcessExpired
    \/ \E a \in Traders, amount \in Amounts :
         \/ \E price \in Prices : CreateSell(a, amount, price) \/ CreateBuy(a, amount, price)
         \/ \E i \in Ids : AcceptOffer(a, i, amount)
    \/ \E a \in Traders, i \in Ids : CancelOffer(a, i)

(* The timer of checkExpiredOffers comes again and again, its query is run  *)
(* and its rows are processed.                                              *)
Fairness == WF_vars(CheckExpired) /\ WF_vars(ProcessExpired)

Spec == Init /\ [][Next]_vars /\ Fairness

-----------------------------------------------------------------------------
(* Funds and goods are never less than zero, and no offer is listed that    *)
(* has nothing left.                                                        *)
TypeOK ==
    /\ funds \in [Traders -> Nat]
    /\ stash \in [Traders -> Nat] /\ locker \in [Traders -> Nat]
    /\ Listed \subseteq 1..made /\ market_offers \in [Listed -> Rows]
    /\ \A i \in Listed : market_offers[i].amount > 0
    /\ Len(results) <= MaxResults
    /\ made \in 0..MaxOffers /\ errors \in 0..MaxErrors
    /\ fees \in Nat /\ forfeited \in Nat /\ outdated \in BOOLEAN

MoneyThere ==
    SumFunction(funds) + fees + SumFunction([i \in Listed |-> MoneyIn(market_offers[i])])
GoodsThere ==
    SumFunction(stash) + SumFunction(locker) + forfeited
        + SumFunction([i \in Listed |-> GoodsIn(market_offers[i])])

(* playerCreateMarketOffer means "to avoid clone of items": in every        *)
(* sequence of offers, acceptances, cancellations and expirations, what an  *)
(* offer holds is paid out once, to whoever takes it or to its owner.       *)
MarketConserves ==
    errors = 0 =>
        /\ MoneyThere = Funds * Cardinality(Traders)
        /\ GoodsThere = Goods * Cardinality(Traders)

(* So it is unless an offer that was found to be too old is accepted in     *)
(* part before it is given back.                                            *)
MarketKept == outdated \/ MarketConserves

(* An offer that is too old is given back in the end, whatever queries fail.*)
OldOffersLeave == <>[](Old = {})
=============================================================================
