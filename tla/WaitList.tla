------------------------------ MODULE WaitList -----------------------------
(***************************************************************************)
(* The list of characters that wait for a place on a full server            *)
(* (src/creatures/players/management/waitlist.cpp), as ProtocolGame::login  *)
(* uses it (src/server/network/protocol/protocolgame.cpp).                  *)
(*                                                                         *)
(* A login is one task on the dispatcher thread, so an action.  A client    *)
(* that is refused tries again; an entry whose client does not come back in *)
(* time is dropped by the next login that looks at the lists.  The time is  *)
(* left out: an entry may run out at any moment, but not that of a client   *)
(* that comes back when it was told to, for TIMEOUT_EXTRA is added to it.   *)
(* Who may always log in, the staff, never asks the list.                   *)
(***************************************************************************)
EXTENDS Naturals, FiniteSets, SequencesExt

CONSTANTS
    Characters,
    Premium,     \* Player::isPremium
    Patient,     \* their clients come back in time
    MaxPlayers   \* as configured, more than 0

VARIABLES
    online, priorityWaitList, waitList,
    expired,  \* characters whose entry has run out
    stray     \* nodes that were erased through the wrong list, up to
              \* MaxPlayers: more make no difference

lists == <<priorityWaitList, waitList, stray>>
vars == <<online, lists, expired>>

Init ==
    /\ online = {} /\ priorityWaitList = <<>> /\ waitList = <<>>
    /\ expired = {} /\ stray = 0

-----------------------------------------------------------------------------
Waiting == Range(priorityWaitList) \cup Range(waitList)

(* cleanupList, of both lists: the entries that have run out are erased.    *)
Without(list, gone) ==
    FoldLeft(LAMBDA w, p : IF p \in gone THEN w ELSE Append(w, p), <<>>, list)
Cleaned(list) == Without(list, expired)

Joined(list, p, here) ==
    IF here /\ p \notin Range(list) THEN Append(list, p) ELSE list

(* Every premium character that got in was erased with waitList.erase,      *)
(* which is undefined for a node of another list; the library unlinks the   *)
(* node and takes one off the size of waitList.  So priorityWaitList.size() *)
(* stays too large and waitList.size() too small, and only their sum is     *)
(* right.  A place that is counted along the list is not affected.          *)
MutSlot(p, priority, rest, new) ==
    IF p \in Premium THEN Len(priority) ELSE Len(rest)
Slot(p, priority, rest, new) ==
    CASE p \in Premium /\ new -> Len(priority) + stray
      [] p \in Premium /\ ~new -> SelectInSeq(priority, LAMBDA q : q = p)
      [] p \notin Premium /\ new -> Len(priority) + Len(rest)
      [] OTHER -> Len(priority) + stray + SelectInSeq(rest, LAMBDA q : q = p)

(* ProtocolGame::login goes on to load and place the player, which may fail.*)
LogsIn(p) == online' \in {online, online \cup {p}}

-----------------------------------------------------------------------------
(* WaitingList::clientLogin.                                                *)
WalksIn(p) ==
    /\ p \notin online
    /\ Waiting = {} /\ Cardinality(online) < MaxPlayers
    /\ LogsIn(p)
    /\ UNCHANGED <<lists, expired>>

Asks(p) ==
    LET priority == Joined(Cleaned(priorityWaitList), p, p \in Premium)
        rest == Joined(Cleaned(waitList), p, p \notin Premium)
        slot == Slot(p, priority, rest, p \notin Waiting \ expired)
        fits == Cardinality(online) + slot <= MaxPlayers
    IN  /\ p \notin online
        /\ Waiting # {} \/ Cardinality(online) >= MaxPlayers
        /\ \/ /\ fits /\ LogsIn(p)
              /\ stray' = IF p \in Premium /\ stray < MaxPlayers THEN stray + 1 ELSE stray
              /\ priorityWaitList' = Without(priority, {p})
              /\ waitList' = Without(rest, {p})
           \/ /\ ~fits
              /\ priorityWaitList' = priority /\ waitList' = rest
              /\ UNCHANGED <<online, stray>>
        /\ expired' = (expired \cap Waiting') \ {p}

Leave(p) ==
    /\ p \in online
    /\ online' = online \ {p}
    /\ UNCHANGED <<lists, expired>>

RunOut(p) ==
    /\ p \in Waiting \ (Patient \cup expired)
    /\ expired' = expired \cup {p}
    /\ UNCHANGED <<online, lists>>

Next == \E p \in Characters : WalksIn(p) \/ Asks(p) \/ Leave(p) \/ RunOut(p)

(* A patient client tries again and again.                                  *)
Fairness == \A p \in Patient : WF_vars(WalksIn(p) \/ Asks(p))

Spec == Init /\ [][Next]_vars /\ Fairness

-----------------------------------------------------------------------------
TypeOK ==
    /\ online \subseteq Characters /\ expired \subseteq Waiting
    /\ priorityWaitList \in Seq(Premium) /\ waitList \in Seq(Characters \ Premium)
    /\ stray \in 0..MaxPlayers

(* Nobody waits twice or while online, and there are never more players     *)
(* than the server takes.                                                   *)
OnceInLine ==
    /\ IsInjective(priorityWaitList) /\ IsInjective(waitList)
    /\ Waiting \cap online = {}
    /\ Cardinality(online) <= MaxPlayers

Before(p, list) ==
    LET at == SelectInSeq(list, LAMBDA q : q = p)
    IN  {list[i] : i \in {j \in DOMAIN list : at = 0 \/ j < at}} \ expired

Ahead(p) ==
    Before(p, priorityWaitList)
      \cup IF p \in Premium THEN {} ELSE Before(p, waitList)

(* Whoever gets in leaves a place for each that is ahead: nobody overtakes. *)
PlacesKept ==
    [][\A p \in online' \ online :
         Cardinality(online) + Cardinality(Ahead(p)) < MaxPlayers]_vars

HasRoom(p) == Cardinality(online) + Cardinality(Ahead(p)) < MaxPlayers

(* Nobody who keeps asking is kept out while there is room for all ahead of *)
(* it and itself; but a premium character that has left the list costs all  *)
(* others a place for good, those that did not pay.                         *)
RoomIsUsed ==
    \A p \in Patient : []<>(p \notin Waiting \/ ~HasRoom(p) \/ (stray > 0 /\ p \notin Premium))
=============================================================================
