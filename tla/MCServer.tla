------------------------------ MODULE MCServer -----------------------------
(* Parts below the game: the database connection, a client's connection,    *)
(* logins and the list of who waits for one, item decay and the choice of   *)
(* the dispatcher's next lane.  They share nothing; a behaviour runs one of *)
(* them and leaves the others in their initial states.                      *)
EXTENDS DbTransaction

CONSTANTS MaxPackets, MaxMessages,
          Items, Durations, MinTicks, MaxTime, MaxScripts, MaxTimers,
          LaneCount, MaxTaskCost, Quantum, Costs,
          Protocols, Characters, Premium, Patient, MaxPlayers

ASSUME BoundsAssumption == MaxPackets \in Nat /\ MaxMessages \in Nat
ASSUME ProtocolsAssumption == Nobody \notin Protocols

(* The lanes of dispatcher_types.hpp; selectLane clamps quanta and costs.   *)
ASSUME LanesAssumption ==
    /\ LaneCount \in Nat \ {0} /\ MaxTaskCost \in Nat \ {0}
    /\ Costs \subseteq 1..MaxTaskCost /\ Costs # {}
    /\ Quantum \in [0..(LaneCount - 1) -> 1..MaxTaskCost]

(* Item types last for a time, and the clock does not run for ever.         *)
ASSUME DecayAssumption ==
    /\ Durations \subseteq Nat \ {0} /\ Durations # {} /\ IsFiniteSet(Durations)
    /\ MinTicks \in Nat /\ MaxTime \in Nat /\ MaxScripts \in Nat

ASSUME LineAssumption == MaxPlayers \in Nat

VARIABLES
    part,
    accepted, connectionState, socketOpen, reading, readTimer, writeTimer,
    messageQueue, posted, writer, front, protocol, receivedFirst, task,
    releases, packets, broken, forced, given, wire,
    item, decayMap, timers, eventId, now, decayPc, tempItems, it, scripted, undefined,
    deficits, cursor, currentLaneActive, lane, ready, bypass,
    at, open, sessionReleases, inGame, player, playerClient, isConnecting, late, dropped, raced,
    online, priorityWaitList, waitList, expired, stray

connectionVars == <<accepted, connectionState, socketOpen, reading, readTimer,
    writeTimer, messageQueue, posted, writer, front, protocol, receivedFirst, task,
    releases, packets, broken, forced, given, wire>>
decayVars == <<item, decayMap, timers, eventId, now, decayPc, tempItems, it,
    scripted, undefined>>
laneVars == <<deficits, cursor, currentLaneActive, lane, ready, bypass>>
sessionVars == <<at, open, sessionReleases, inGame, player, playerClient, isConnecting, late,
    dropped, raced>>
lineVars == <<online, priorityWaitList, waitList, expired, stray>>

(* The first lane has twice the quantum of the others.                      *)
Quanta == [l \in 0..(LaneCount - 1) |-> IF l = 0 THEN 2 ELSE 1]

Peer == INSTANCE Connection
Decays == INSTANCE Decay WITH pc <- decayPc
Lanes == INSTANCE Wdrr
Logins == INSTANCE Sessions WITH NoClient <- Nobody, releases <- sessionReleases,
    client <- playerClient
Line == INSTANCE WaitList

loginVars == <<sessionVars, lineVars>>

MCInit ==
    /\ part \in {"database", "connection", "decay", "lanes", "logins", "line"}
    /\ Init /\ Peer!Init /\ Decays!Init /\ Lanes!Init /\ Logins!Init /\ Line!Init
    /\ part # "decay" => \A i \in Items : item[i].duration = 1

InDatabase ==
    part = "database" /\ UNCHANGED <<part, connectionVars, decayVars, laneVars, loginVars>>
InConnection ==
    part = "connection" /\ UNCHANGED <<part, vars, decayVars, laneVars, loginVars>>
InDecay == part = "decay" /\ UNCHANGED <<part, vars, connectionVars, laneVars, loginVars>>
InLanes == part = "lanes" /\ UNCHANGED <<part, vars, connectionVars, decayVars, loginVars>>
InLogins ==
    /\ part = "logins"
    /\ UNCHANGED <<part, vars, connectionVars, decayVars, laneVars, lineVars>>
InLine ==
    /\ part = "line"
    /\ UNCHANGED <<part, vars, connectionVars, decayVars, laneVars, sessionVars>>

DatabaseNext ==
    \/ InDatabase /\ LoseConnection
    \/ \E t \in Threads :
         \/ InDatabase /\ Lock(t)
         \/ InDatabase /\ Statement(t)
         \/ InDatabase /\ Finish(t)
         \/ InDatabase /\ GiveUp(t)
         \/ InDatabase /\ Single(t)
         \/ \E m \in Modes \ {"single"} : InDatabase /\ Begin(t, m)

ConnectionNext ==
    \/ InConnection /\ Peer!Accept
    \/ InConnection /\ Peer!ParseProxyIdentification
    \/ InConnection /\ Peer!HeaderArrives
    \/ InConnection /\ Peer!ParsePacket
    \/ InConnection /\ Peer!ReadFails
    \/ InConnection /\ Peer!StartTask
    \/ InConnection /\ Peer!ResumeWork
    \/ InConnection /\ Peer!Send
    \/ \E force \in BOOLEAN : InConnection /\ Peer!Disconnect(force)
    \/ InConnection /\ Peer!InternalWorker
    \/ InConnection /\ Peer!InternalSend
    \/ InConnection /\ Peer!Written
    \/ InConnection /\ Peer!WriteFails
    \/ InConnection /\ Peer!ReadTimeout
    \/ InConnection /\ Peer!WriteTimeout
    \/ InConnection /\ Peer!PeerBreaks

DecayNext ==
    \/ InDecay /\ Decays!DecayNext
    \/ InDecay /\ Decays!Rearm
    \/ \E e \in timers : InDecay /\ Decays!Fire(e)
    \/ InDecay /\ Decays!Tick
    \/ \E i \in Items :
         \/ InDecay /\ Decays!Start(i)
         \/ InDecay /\ Decays!Stop(i)
         \/ InDecay /\ Decays!Transform(i)
         \/ InDecay /\ Decays!Vanish(i)

LanesNext ==
    \/ InLanes /\ Lanes!Select
    \/ InLanes /\ Lanes!EndSlice
    \/ InLanes /\ Lanes!ExhaustLane

LoginsNext ==
    \/ InLogins /\ Logins!Kick
    \/ \E c \in Protocols :
         \/ InLogins /\ Logins!FirstMessage(c)
         \/ InLogins /\ Logins!Break(c)
         \/ InLogins /\ Logins!Place(c)
         \/ InLogins /\ Logins!TakeOver(c)
         \/ InLogins /\ Logins!ConnectNow(c)
         \/ InLogins /\ Logins!Connect(c)
         \/ InLogins /\ Logins!ConnectFails(c)
         \/ InLogins /\ Logins!Release(c)
         \/ InLogins /\ Logins!Logout(c)

LineNext ==
    \E p \in Characters :
        \/ InLine /\ Line!WalksIn(p)
        \/ InLine /\ Line!Asks(p)
        \/ InLine /\ Line!Leave(p)
        \/ InLine /\ Line!RunOut(p)

MCNext ==
    \/ DatabaseNext \/ ConnectionNext \/ DecayNext \/ LanesNext
    \/ LoginsNext \/ LineNext

allVars == <<part, vars, connectionVars, decayVars, laneVars, loginVars>>

(* The clock of Decay runs only where decay does.                           *)
MCFairness ==
    /\ Fairness /\ Peer!Fairness /\ Logins!Fairness
    /\ \A p \in Patient : WF_allVars(InLine /\ (Line!WalksIn(p) \/ Line!Asks(p)))
    /\ WF_allVars(InDecay /\ Decays!Runs) /\ WF_allVars(InDecay /\ Decays!Tick)

MCSpec == MCInit /\ [][MCNext]_allVars /\ MCFairness

(* What a client is sent is written once, in order, by one writer at a time *)
(* (Connection::send, internalWorker, internalSend, onWriteOperation).      *)
Written ==
    /\ Peer!TypeOK
    /\ Peer!FrontStays /\ Peer!OneWriter /\ Peer!InOrder /\ Peer!GracefulFlush

(* A connection has one read under way, its waits are timed, and its        *)
(* protocol is released once (Connection::parseHeader, parsePacket, close). *)
OneReader == Peer!OneReader /\ Peer!WaitsAreTimed /\ Peer!ReleasedOnce

(* Decaying items are in the map under their time, and an event comes in    *)
(* time for the first of them (Decay::startDecay, stopDecay, checkDecay).   *)
DecayKept == Decays!TypeOK /\ Decays!MapMatchesItems /\ Decays!TimerArmed

(* No lane is passed over for longer than its share (selectLane).           *)
NoStarvation == Lanes!TypeOK /\ Lanes!NoStarvation

(* A ready lane is selected within the attempts of selectLane.              *)
SelectsWhenReady == Lanes!SelectsWhenReady

(* A character is played from one connection, which is or will be attached  *)
(* to it (ProtocolGame::login, connect, release).                           *)
LoginsKept ==
    Logins!TypeOK /\ Logins!OnePlays /\ Logins!ClientAttached /\ Logins!Awaited

(* Who waits for a place does so once and is not overtaken                  *)
(* (WaitingList::clientLogin, addPlayerToList).                             *)
LineKept == [](Line!TypeOK /\ Line!OnceInLine) /\ Line!PlacesKept

(* Transactions and logins end, nobody is kept out while there is room,     *)
(* what was sent is delivered, sockets are closed and items decay.          *)
AllEnds ==
    /\ TransactionsEnd /\ Logins!LoginEnds /\ Line!RoomIsUsed
    /\ Peer!Delivered /\ Peer!SocketCloses /\ Decays!DecayEnds
=============================================================================
