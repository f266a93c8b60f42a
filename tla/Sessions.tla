------------------------------ MODULE Sessions -----------------------------
(***************************************************************************)
(* The connections that want to play one character                          *)
(* (src/server/network/protocol/protocolgame.cpp, login, connect, logout    *)
(* and release): the first puts it into the game, a later one closes the    *)
(* connection that has it and takes over a second later.                    *)
(*                                                                         *)
(* login, connect and release are tasks on the dispatcher thread, in lanes  *)
(* that do not keep their order; a connection may close at any time.  A     *)
(* protocol that is done stands for a new one.  Bans, passwords and the     *)
(* waiting list only refuse a login; replaceKickOnLogin is on, as it is by  *)
(* default; a release is taken to be run before its deadline.               *)
(***************************************************************************)
CONSTANTS
    Protocols,
    NoClient

VARIABLES
    at,            \* how far the login of a protocol is
    open,          \* protocols whose connection is open
    releases,      \* protocols whose release is posted
    inGame,        \* whether the character is
    player,        \* ProtocolGame::player: protocols that have the Player
    client,        \* Player::client
    isConnecting,  \* Player::isConnecting
    late,          \* history: it got a client that was released before
    dropped,       \* history: who was to take it over had gone
    raced          \* history: a login came between another and its connect

protocolVars == <<at, open, releases>>
playerVars == <<inGame, player, client, isConnecting>>
history == <<late, dropped, raced>>
vars == <<protocolVars, playerVars, history>>

Init ==
    /\ at = [c \in Protocols |-> "none"]
    /\ open = {} /\ releases = {}
    /\ inGame = FALSE /\ player = {} /\ client = NoClient
    /\ isConnecting = FALSE
    /\ late = FALSE /\ dropped = FALSE /\ raced = FALSE

Becomes(c, step) == at' = [at EXCEPT ![c] = step]
OthersConnect(c) == \E d \in Protocols \ {c} : at[d] = "connecting"

-----------------------------------------------------------------------------
(* onRecvFirstMessage posts the login.                                      *)
FirstMessage(c) ==
    /\ at[c] = "none" /\ c \notin open \cup releases
    /\ Becomes(c, "asked")
    /\ open' = open \cup {c}
    /\ UNCHANGED <<releases, playerVars, history>>

(* Connection::close, for protocols that are closed already does nothing.   *)
Closes(gone) == open' = open \ gone /\ releases' = releases \cup (gone \cap open)

Break(c) ==
    /\ c \in open
    /\ Closes({c})
    /\ UNCHANGED <<at, playerVars, history>>

Released(c) == c \notin open \cup releases

-----------------------------------------------------------------------------
(* Game::placeCreature of a new Player, or the login is refused.            *)
Place(c) ==
    /\ at[c] = "asked" /\ ~inGame
    /\ \/ /\ Becomes(c, "in")
          /\ inGame' = TRUE /\ player' = {c} /\ client' = c
          /\ isConnecting' = FALSE
          /\ raced' = OthersConnect(c) /\ late' = Released(c) /\ dropped' = FALSE
          /\ UNCHANGED <<open, releases>>
       \/ /\ Becomes(c, "none") /\ Closes({c})
          /\ UNCHANGED <<playerVars, history>>

(* The Player has a client: it is disconnected, and connect is scheduled;   *)
(* the dispatcher may be full.                                              *)
MutReplaced == {}
Replaced == {client}

TakeOver(c) ==
    /\ at[c] = "asked" /\ inGame /\ client # NoClient
    /\ \/ /\ Becomes(c, "connecting") /\ Closes(Replaced)
          /\ isConnecting' = TRUE
          /\ raced' = (raced \/ OthersConnect(c))
       \/ /\ Becomes(c, "none") /\ Closes({client, c})
          /\ isConnecting' = FALSE
          /\ UNCHANGED raced
    /\ UNCHANGED <<inGame, player, client, late, dropped>>

Attach(c) ==
    /\ inGame
    /\ Becomes(c, "in")
    /\ player' = player \cup {c} /\ client' = c /\ isConnecting' = FALSE
    /\ late' = Released(c) /\ dropped' = FALSE
    /\ UNCHANGED <<open, releases, inGame>>

(* The Player has none: login calls connect at once.                        *)
ConnectNow(c) ==
    /\ at[c] = "asked" /\ client = NoClient
    /\ Attach(c)
    /\ raced' = (raced \/ OthersConnect(c))

Connect(c) ==
    /\ at[c] = "connecting"
    /\ Attach(c)
    /\ UNCHANGED raced

(* connect finds no Player, or that its own connection is gone, which it    *)
(* may be any time after it was closed.                                     *)
ConnectFails(c) ==
    /\ \/ at[c] = "connecting"
       \/ at[c] = "asked" /\ inGame /\ client = NoClient
    /\ ~inGame \/ c \notin open
    /\ Becomes(c, "none") /\ Closes({c})
    /\ dropped' = (dropped \/ (inGame /\ isConnecting))
    /\ UNCHANGED <<playerVars, late, raced>>

Release(c) ==
    /\ c \in releases
    /\ releases' = releases \ {c}
    /\ IF c \in player /\ client = c
       THEN client' = NoClient /\ player' = player \ {c}
       ELSE UNCHANGED <<client, player>>
    /\ at' = IF at[c] = "in" THEN [at EXCEPT ![c] = "none"] ELSE at
    /\ UNCHANGED <<open, inGame, isConnecting, history>>

-----------------------------------------------------------------------------
(* Game::removeCreature; the protocols that had the Player keep one that is *)
(* removed.                                                                 *)
Remove ==
    /\ inGame' = FALSE /\ player' = {} /\ client' = NoClient
    /\ isConnecting' = FALSE
    /\ late' = FALSE /\ dropped' = FALSE /\ raced' = FALSE
    /\ UNCHANGED <<open, releases>>

(* ProtocolGame::logout, asked for by a client.                             *)
Logout(c) ==
    /\ c \in player \cap open /\ at[c] = "in"
    /\ Remove
    /\ UNCHANGED at

(* Player::sendPing after a minute without an answer, or removePlayer: idle, *)
(* dead or banished.                                                        *)
Kick == inGame /\ Remove /\ UNCHANGED at

-----------------------------------------------------------------------------
Tasks(c) ==
    Place(c) \/ TakeOver(c) \/ ConnectNow(c) \/ Connect(c) \/ ConnectFails(c) \/ Release(c)

Next ==
    \/ \E c \in Protocols : FirstMessage(c) \/ Break(c) \/ Tasks(c) \/ Logout(c)
    \/ Kick

Fairness == \A c \in Protocols : WF_vars(Tasks(c))

Spec == Init /\ [][Next]_vars /\ Fairness

-----------------------------------------------------------------------------
TypeOK ==
    /\ at \in [Protocols -> {"none", "asked", "connecting", "in"}]
    /\ open \subseteq Protocols
    /\ releases \subseteq Protocols \ open /\ player \subseteq Protocols
    /\ client \in Protocols \cup {NoClient}
    /\ {inGame, isConnecting, late, dropped, raced} \subseteq BOOLEAN

(* No two connections play one character, as long as nobody logs in between *)
(* the login of another and its connect.                                    *)
OnePlays ==
    raced \/ \A c, d \in player \cap open : at[c] = "in" /\ at[d] = "in" => c = d

(* The client of a player is attached to it, and one whose connection has   *)
(* closed will be taken away.                                               *)
ClientAttached ==
    client # NoClient =>
      /\ inGame /\ client \in player /\ at[client] = "in"
      /\ client \in open \cup releases \/ late

(* A player that waits for a client gets one, unless that one has gone.     *)
Awaited == isConnecting => dropped \/ \E c \in Protocols : at[c] = "connecting"

(* Every login comes to an end.                                             *)
LoginEnds == \A c \in Protocols : []<>(at[c] \in {"in", "none"})
=============================================================================
