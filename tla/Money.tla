------------------------------- MODULE Money -------------------------------
(***************************************************************************)
(* A player's money: coins in the inventory, on the ground and in bank      *)
(* accounts.  Game::addMoney and Game::removeMoney (src/game/game.cpp) make *)
(* change in three coins, Bank (src/game/bank/bank.cpp) moves money between *)
(* accounts and the inventory, and shops pay and are paid.                  *)
(*                                                                         *)
(* Everything runs on the dispatcher thread, so an action is a whole call.  *)
(* The inventory is one container of a few places, each empty or with a     *)
(* stack of one coin; the player stands on a tile that takes what is        *)
(* dropped and has the capacity to carry what there is room for.            *)
(***************************************************************************)
EXTENDS Integers, FiniteSetsExt, SequencesExt

CONSTANTS
    Accounts, Own,  \* bank accounts: the player's own, and others
    StackSize,      \* of coins; as many make one of the next coin
    Places,         \* of the inventory, numbered from 1
    Amounts,        \* the amounts that are asked for
    InitialBag,     \* what the player carries at first
    MaxCalls        \* bound: how many calls are made

VARIABLES
    bag,       \* the stack in every place
    ground,    \* the worth of what was dropped on the tile
    balance,   \* of each account
    traded,    \* history: what shops paid less what they got
    vanished,  \* history: a stack was merged without room for all of it
    doubled,   \* history: change was given again after a part of it
    calls

vars == <<bag, ground, balance, traded, vanished, doubled, calls>>

-----------------------------------------------------------------------------
(* ITEM_CRYSTAL_COIN, ITEM_PLATINUM_COIN and ITEM_GOLD_COIN.                *)
Units == <<StackSize * StackSize, StackSize, 1>>
Free == [unit |-> 0, count |-> 0]
Stacks == [unit : Range(Units), count : 1..StackSize] \cup {Free}
Slots == 1..Places

WorthOf(stack) == stack.unit * stack.count
Worth(b) == MapThenSumSet(LAMBDA i : WorthOf(b[i]), Slots)

Init ==
    /\ bag = InitialBag /\ ground = 0
    /\ balance = [a \in Accounts |-> StackSize]
    /\ traded = 0 /\ calls = 0
    /\ vanished = FALSE /\ doubled = FALSE

(* What a call works on; ok is cleared by the first coins it cannot place,  *)
(* added is what it reports as placed, left what it has still to take.      *)
Purse(b) == [bag |-> b, ground |-> 0, added |-> 0, ok |-> TRUE, left |-> 0,
             vanished |-> FALSE, doubled |-> FALSE]

-----------------------------------------------------------------------------
(* internalAddItem for a player: coins go to the stacks that are not full,  *)
(* then to a free place, as far as queryMaxCount found room.  When there is *)
(* room for some but not for all of them, the rest is lost and the caller   *)
(* is told that nothing remains.                                            *)
Unfilled(b, unit) == {i \in Slots : b[i].unit = unit /\ b[i].count < StackSize}
FreeSlots(b) == {i \in Slots : b[i] = Free}

Room(b, unit) ==
    Cardinality(FreeSlots(b)) * StackSize
        + MapThenSumSet(LAMBDA i : StackSize - b[i].count, Unfilled(b, unit))

PutCoin(b, unit) ==
    LET to == IF Unfilled(b, unit) # {} THEN Min(Unfilled(b, unit))
                                        ELSE Min(FreeSlots(b))
    IN  [b EXCEPT ![to] = [unit |-> unit, count |-> @.count + 1]]

Put(b, unit, count) ==
    FoldLeft(LAMBDA x, n : PutCoin(x, unit), b, [n \in 1..count |-> n])

InternalAddItem(w, stack) ==
    LET placed == Min({stack.count, Room(w.bag, stack.unit)})
    IN  [w EXCEPT !.bag = Put(@, stack.unit, placed),
                  !.added = @ + WorthOf(stack),
                  !.vanished = @ \/ placed < stack.count]

(* addCoinStack: what finds no room at all is dropped, if that is asked for.*)
AddCoinStack(w, stack, drop) ==
    CASE ~w.ok -> w
      [] w.ok /\ Room(w.bag, stack.unit) > 0 -> InternalAddItem(w, stack)
      [] w.ok /\ Room(w.bag, stack.unit) = 0 /\ drop ->
           [w EXCEPT !.ground = @ + WorthOf(stack), !.added = @ + WorthOf(stack)]
      [] w.ok /\ Room(w.bag, stack.unit) = 0 /\ ~drop -> [w EXCEPT !.ok = FALSE]

(* addCoins makes full stacks and one of the rest, addMoney as many of the  *)
(* greater coins as it can.                                                 *)
CoinStacks(unit, count) ==
    [n \in 1..((count + StackSize - 1) \div StackSize) |->
        [unit |-> unit, count |-> Min({StackSize, count - (n - 1) * StackSize})]]

Coins(money) ==
    CoinStacks(Units[1], money \div Units[1])
        \o CoinStacks(Units[2], (money % Units[1]) \div Units[2])
        \o CoinStacks(Units[3], money % Units[2])

AddMoney(w, money, drop) ==
    FoldLeft(LAMBDA x, stack : AddCoinStack(x, stack, drop),
             [w EXCEPT !.added = 0, !.ok = TRUE], Coins(money))

(* deliverChange: when there was no room for all of the change, all of it   *)
(* is given once more, and dropped where there is no room.                  *)
DeliverChange(w, change) ==
    LET once == AddMoney(w, change, FALSE)
    IN  IF once.added >= change THEN once
        ELSE [AddMoney(once, change, TRUE) EXCEPT !.doubled = @ \/ once.added > 0]

(* processMoneyEntry: the smallest stacks are taken first; of the one that  *)
(* is too much, as few coins as do, and the change is given before.         *)
RemoveCount(left, unit) == (left + unit - 1) \div unit

Take(b, i, count) ==
    [b EXCEPT ![i] = IF @.count = count THEN Free
                     ELSE [unit |-> @.unit, count |-> @.count - count]]

ProcessMoneyEntry(w, i, stack) ==
    LET n == RemoveCount(w.left, stack.unit)
        changed == DeliverChange(w, stack.unit * n - w.left)
    IN  CASE w.left = 0 -> w
          [] w.left > 0 /\ WorthOf(stack) <= w.left ->
               [w EXCEPT !.bag = Take(@, i, stack.count),
                         !.left = @ - WorthOf(stack)]
          [] w.left > 0 /\ WorthOf(stack) > w.left ->
               [changed EXCEPT !.bag = Take(@, i, n), !.left = 0]

(* removeMoney, when there is enough: left is what the coins do not cover.  *)
(* Stacks are in a multimap by their worth, those of the same worth in the  *)
(* order in which they were found; a fold takes the greatest last.          *)
NoLater(j, i) ==
    \/ WorthOf(bag[j]) < WorthOf(bag[i])
    \/ WorthOf(bag[j]) = WorthOf(bag[i]) /\ j <= i
Greatest(s) == CHOOSE i \in s : \A j \in s : NoLater(j, i)

RemoveMoney(money) ==
    MapThenFoldSet(LAMBDA i, w : ProcessMoneyEntry(w, i, bag[i]),
                   [Purse(bag) EXCEPT !.left = money],
                   LAMBDA i : i, Greatest, {i \in Slots : bag[i] # Free})

-----------------------------------------------------------------------------
Becomes(w) ==
    /\ calls < MaxCalls /\ calls' = calls + 1
    /\ bag' = w.bag /\ ground' = ground + w.ground
    /\ vanished' = (vanished \/ w.vanished)
    /\ doubled' = (doubled \/ w.doubled)

Credit(b, account, amount) == [b EXCEPT ![account] = @ + amount]
Debit(b, account, amount) == [b EXCEPT ![account] = @ - amount]

(* Bank::withdraw: what could not be handed out is credited again.          *)
MutRefund(amount, added) == 0
Refund(amount, added) == amount - added

Withdraw(account, amount) ==
    /\ balance[account] >= amount
    /\ LET w == AddMoney(Purse(bag), amount, FALSE)
       IN  /\ Becomes(w)
           /\ balance' = Credit(Debit(balance, account, amount), account,
                                Refund(amount, w.added))
    /\ UNCHANGED traded

(* Bank::deposit, of the player's coins to any account.                     *)
Deposit(account, amount) ==
    /\ Worth(bag) >= amount
    /\ Becomes(RemoveMoney(amount))
    /\ balance' = Credit(balance, account, amount)
    /\ UNCHANGED traded

(* Bank::transferTo; its rules about names and towns only refuse.           *)
TransferTo(from, to, amount) ==
    /\ balance[from] >= amount
    /\ balance' = Credit(Debit(balance, from, amount), to, amount)
    /\ Becomes(Purse(bag))
    /\ UNCHANGED traded

(* A purchase: removeMoney from the inventory and then the bank.            *)
Buy(price) ==
    /\ Worth(bag) + balance[Own] >= price
    /\ LET w == RemoveMoney(price)
       IN  /\ Becomes(w)
           /\ balance' = Debit(balance, Own, w.left)
    /\ traded' = traded - price

(* applyGoldSaleProceeds: to the bank, or to the inventory and the rest to  *)
(* the bank.                                                                *)
Sell(price, autobank) ==
    /\ LET w == IF autobank THEN Purse(bag) ELSE AddMoney(Purse(bag), price, FALSE)
       IN  /\ Becomes(w)
           /\ balance' = Credit(balance, Own, price - w.added)
    /\ traded' = traded + price

Next ==
    \E amount \in Amounts :
        \/ Buy(amount)
        \/ \E autobank \in BOOLEAN : Sell(amount, autobank)
        \/ \E a \in Accounts :
             \/ Withdraw(a, amount) \/ Deposit(a, amount)
             \/ \E b \in Accounts : TransferTo(a, b, amount)

Spec == Init /\ [][Next]_vars

-----------------------------------------------------------------------------
TypeOK ==
    /\ bag \in [Slots -> Stacks]
    /\ ground \in Nat /\ balance \in [Accounts -> Nat]
    /\ traded \in Int /\ calls \in 0..MaxCalls
    /\ vanished \in BOOLEAN /\ doubled \in BOOLEAN

Wealth == Worth(bag) + ground + MapThenSumSet(LAMBDA a : balance[a], Accounts)

(* tests/integration/game/money_it.cpp, RemovesMoneyAndReturnsChange...:    *)
(* who pays 30 with a coin of 100 has 70 left.  Whatever is bought, sold,   *)
(* withdrawn, deposited and transferred, money only moves, and a trade      *)
(* costs or brings its price.                                               *)
MoneyConserved ==
    Wealth = Worth(InitialBag) + StackSize * Cardinality(Accounts) + traded

(* So it is as long as no stack was merged that had room for a part only,   *)
(* and no change was delivered a second time.                               *)
MoneyMoves == vanished \/ doubled \/ MoneyConserved
=============================================================================
