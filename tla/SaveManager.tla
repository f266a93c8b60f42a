---------------------------- MODULE SaveManager ----------------------------
(***************************************************************************)
(* SaveManager (src/game/scheduling/save_manager.cpp) with the dispatcher   *)
(* thread that plays the game and the workers of the ThreadPool: who saves  *)
(* which Player object when, and what is in the table afterwards.           *)
(*                                                                         *)
(* A character's data is the set of changes made to it.  Every login makes  *)
(* a new Player object from the table; a task of saveAll keeps its object   *)
(* alive, a task of schedulePlayer only watches it (weak_ptr).  A save      *)
(* reads the object and writes the table inside one transaction, which      *)
(* holds the databaseLock (see DbTransaction).  Guilds, the map and the     *)
(* key-value store, which saveAll saves after the players, are left out.    *)
(***************************************************************************)
EXTENDS Naturals, FiniteSets, Sequences

CONSTANTS
    Players, Game, Workers, Nobody,
    Plans,        \* the ways the server is run; each behaviour keeps to one
    MaxSessions,  \* bound: how many Player objects are made
    MaxChanges    \* bound: how many changes are made

(* A plan says whether saves are asynchronous (TOGGLE_SAVE_ASYNC), which    *)
(* threads of the pool the dispatcher loop leaves free, whether players     *)
(* leave and come back, and two bounds: how often savePlayer is called for  *)
(* a player online, and scheduleAll.                                        *)

Threads == Workers \cup {Game}
Objects == 1..MaxSessions
Changes == 1..MaxChanges

VARIABLES
    plan,         \* never changes
    table,        \* the rows of each character
    owner,        \* the Player objects made so far: whose they are
    data,         \* what each of them holds
    online,       \* Game::players: the object of each character, 0 for none
    released,     \* the objects nobody holds any more
    queue,        \* the pool's tasks
    m_playerMap,  \* when the save of a character was scheduled, 0 for never
    m_scheduledAt,
    playerLock,   \* the owner of each object's mutex
    pc, doing,    \* what a thread is at, and with which object
    copy,         \* what its transaction has read
    rest,         \* what a saveAll on this thread has still to save itself
    taskOf,       \* the saveAll the worker's task belongs to
    clock, changes, requests, alls,
    asked,        \* history: the changes somebody has asked to save
    progress      \* history: what the character had when it left

memory == <<owner, data, online, released>>
manager == <<queue, m_playerMap, m_scheduledAt>>
threads == <<playerLock, pc, doing, copy, rest, taskOf>>
counts == <<clock, changes, requests, alls>>
history == <<asked, progress>>
vars == <<plan, table, memory, manager, threads, counts, history>>

-----------------------------------------------------------------------------
Made == 1..Len(owner)

Init ==
    /\ plan \in Plans
    /\ table = [p \in Players |-> {}]
    /\ owner = <<>> /\ data = <<>> /\ released = {}
    /\ online = [p \in Players |-> 0]
    /\ queue = <<>> /\ m_scheduledAt = 0
    /\ m_playerMap = [p \in Players |-> 0]
    /\ playerLock = [o \in Objects |-> Nobody]
    /\ pc = [t \in Threads |-> "idle"] /\ doing = [t \in Threads |-> 0]
    /\ copy = [t \in Threads |-> {}] /\ rest = [t \in Threads |-> {}]
    /\ taskOf = [t \in Threads |-> Nobody]
    /\ clock = 0 /\ changes = 0 /\ requests = 0 /\ alls = 0
    /\ asked = [p \in Players |-> {}] /\ progress = [p \in Players |-> {}]

Goto(t, label) == pc' = [pc EXCEPT ![t] = label]
Playing == pc[Game] = "idle"

(* A strong reference: the game, a save in progress or a task of saveAll.   *)
Held(o) ==
    \/ \E p \in Players : online[p] = o
    \/ \E t \in Threads : doing[t] = o \/ o \in rest[t]
    \/ \E i \in DOMAIN queue : queue[i].kind = "one" /\ queue[i].object = o

-----------------------------------------------------------------------------
(* The game: it loads a character, changes it and asks for its save.        *)
Login(p) ==
    /\ Playing /\ online[p] = 0 /\ Len(owner) < MaxSessions
    /\ owner' = Append(owner, p) /\ data' = Append(data, table[p])
    /\ online' = [online EXCEPT ![p] = Len(owner) + 1]
    /\ UNCHANGED <<plan, table, released, manager, threads, counts, history>>

Change(p) ==
    /\ Playing /\ online[p] # 0 /\ changes < MaxChanges
    /\ changes' = changes + 1
    /\ data' = [data EXCEPT ![online[p]] = @ \cup {changes + 1}]
    /\ UNCHANGED <<plan, table, owner, online, released, manager, threads, clock, requests, alls, history>>

(* doSavePlayer on thread t starts with the object's mutex.                 *)
GoSave(t, o) == Goto(t, "lock") /\ doing' = [doing EXCEPT ![t] = o]

(* schedulePlayer, or the direct save when saves are not asynchronous.      *)
SavePlayer(p, o) ==
    /\ asked' = [asked EXCEPT ![p] = @ \cup data[o]]
    /\ \/ /\ ~plan.async
          /\ GoSave(Game, o)
          /\ UNCHANGED <<plan, manager, clock>>
       \/ /\ plan.async
          /\ clock' = clock + 1
          /\ m_playerMap' = [m_playerMap EXCEPT ![p] = clock + 1]
          /\ queue' = Append(queue, [kind |-> "player", object |-> o,
                                     at |-> clock + 1, by |-> Nobody])
          /\ UNCHANGED <<plan, m_scheduledAt, pc, doing>>

Request(p) ==
    /\ Playing /\ online[p] # 0 /\ requests < plan.requests
    /\ requests' = requests + 1
    /\ SavePlayer(p, online[p])
    /\ UNCHANGED <<plan, table, memory, playerLock, copy, rest, taskOf, changes, alls, progress>>

(* onRemoveCreature: the player has left the map and is saved.              *)
Logout(p) ==
    /\ plan.logouts /\ Playing /\ online[p] # 0
    /\ online' = [online EXCEPT ![p] = 0]
    /\ progress' = [progress EXCEPT ![p] = data[online[p]]]
    /\ SavePlayer(p, online[p])
    /\ UNCHANGED <<plan, table, owner, data, released, playerLock, copy, rest, taskOf, changes, requests, alls>>

(* The last reference to the object goes some time after the logout.        *)
Release(o) ==
    /\ o \in Made \ released /\ ~Held(o)
    /\ released' = released \cup {o}
    /\ UNCHANGED <<plan, table, owner, data, online, manager, threads, counts, history>>

-----------------------------------------------------------------------------
(* saveAll on thread t: one task for each player and a wait for all of      *)
(* them, or one player after another on this thread.  The dispatcher loop   *)
(* holds a thread of the pool for good, and that thread counts.             *)
OnlineObjects == {online[p] : p \in Players} \ {0}

PoolThreads == plan.workers \cup {Game}
InParallel == Cardinality(PoolThreads) > 1 /\ Cardinality(OnlineObjects) > 1

Begin(t) ==
    /\ pc[t] = "begin"
    /\ rest' = [rest EXCEPT ![t] = OnlineObjects]
    /\ Goto(t, IF InParallel THEN "submit" ELSE "each")
    /\ UNCHANGED <<plan, table, memory, manager, playerLock, doing, copy, taskOf, counts, history>>

MutAwaits == "idle"
Awaits == "await"

Submit(t) ==
    /\ pc[t] = "submit"
    /\ \E o \in rest[t] :
         /\ queue' = Append(queue, [kind |-> "one", object |-> o, at |-> 0, by |-> t])
         /\ rest' = [rest EXCEPT ![t] = @ \ {o}]
         /\ Goto(t, IF rest[t] = {o} THEN Awaits ELSE "submit")
    /\ UNCHANGED <<plan, table, memory, m_playerMap, m_scheduledAt, playerLock, doing, copy, taskOf, counts, history>>

(* scheduleAll on the dispatcher thread.                                    *)
ScheduleAll ==
    /\ Playing /\ alls < plan.alls
    /\ alls' = alls + 1 /\ clock' = clock + 1
    /\ m_scheduledAt' = clock + 1
    /\ \/ ~plan.async /\ Goto(Game, "begin") /\ UNCHANGED queue
       \/ /\ plan.async
          /\ queue' = Append(queue, [kind |-> "all", object |-> 0,
                                     at |-> clock + 1, by |-> Nobody])
          /\ UNCHANGED <<plan, pc>>
    /\ UNCHANGED <<plan, table, memory, m_playerMap, playerLock, doing, copy, rest, taskOf, changes, requests, history>>

(* The futures are all ready.                                               *)
Awaited(t) ==
    /\ pc[t] = "await"
    /\ \A i \in DOMAIN queue : queue[i].by # t
    /\ \A w \in Workers : taskOf[w] # t
    /\ Goto(t, "idle")
    /\ UNCHANGED <<plan, table, memory, manager, playerLock, doing, copy, rest, taskOf, counts, history>>

(* The next player of a saveAll that saves them itself, or the end.         *)
Each(t) ==
    /\ pc[t] = "each"
    /\ \/ /\ rest[t] = {}
          /\ Goto(t, "idle")
          /\ taskOf' = [taskOf EXCEPT ![t] = Nobody]
          /\ UNCHANGED <<plan, doing, rest>>
       \/ \E o \in rest[t] :
            /\ rest' = [rest EXCEPT ![t] = @ \ {o}]
            /\ GoSave(t, o)
            /\ UNCHANGED taskOf
    /\ UNCHANGED <<plan, table, memory, manager, playerLock, copy, counts, history>>

-----------------------------------------------------------------------------
(* A worker takes the first task: a save that a later one has replaced, or  *)
(* whose player is gone, is skipped.  A saveAll that has passed its test    *)
(* goes on beside one that is scheduled after it.                           *)
Current(task) ==
    /\ task.object \notin released
    /\ m_playerMap[owner[task.object]] = task.at

Take(w) ==
    /\ pc[w] = "idle" /\ queue # <<>>
    /\ queue' = Tail(queue)
    /\ LET task == Head(queue)
       IN  \/ /\ task.kind = "all"
              /\ IF m_scheduledAt = task.at THEN Goto(w, "begin") ELSE UNCHANGED pc
              /\ UNCHANGED <<plan, doing, taskOf>>
           \/ /\ task.kind = "player"
              /\ IF Current(task) THEN GoSave(w, task.object)
                                  ELSE UNCHANGED <<pc, doing>>
              /\ UNCHANGED <<plan, taskOf>>
           \/ /\ task.kind = "one"
              /\ GoSave(w, task.object)
              /\ taskOf' = [taskOf EXCEPT ![w] = task.by]
    /\ UNCHANGED <<plan, table, memory, m_playerMap, m_scheduledAt, playerLock, copy, rest, counts, history>>

-----------------------------------------------------------------------------
(* doSavePlayer: the entry of m_playerMap goes before the object is read,   *)
(* so that a save asked for from then on is made.                           *)
MutErasedAt == "write"
ErasedAt == "lock"

Erase(t) ==
    m_playerMap' = IF pc[t] = ErasedAt
                   THEN [m_playerMap EXCEPT ![owner[doing[t]]] = 0]
                   ELSE m_playerMap

TakePlayerLock(t) ==
    /\ pc[t] = "lock" /\ playerLock[doing[t]] = Nobody
    /\ playerLock' = [playerLock EXCEPT ![doing[t]] = t]
    /\ Erase(t)
    /\ Goto(t, "read")
    /\ UNCHANGED <<plan, table, memory, queue, m_scheduledAt, doing, copy, rest, taskOf, counts, history>>

(* savePlayer: the transaction, in which the object is read and written.    *)
TransactionFree == \A t \in Threads : pc[t] # "write"

ReadPlayer(t) ==
    /\ pc[t] = "read" /\ TransactionFree
    /\ copy' = [copy EXCEPT ![t] = data[doing[t]]]
    /\ Erase(t)
    /\ Goto(t, "write")
    /\ UNCHANGED <<plan, table, memory, queue, m_scheduledAt, playerLock, doing, rest, taskOf, counts, history>>

Forgets(t) == [doing EXCEPT ![t] = 0]

WritePlayer(t) ==
    /\ pc[t] = "write"
    /\ table' = [table EXCEPT ![owner[doing[t]]] = copy[t]]
    /\ copy' = [copy EXCEPT ![t] = {}]
    /\ playerLock' = [playerLock EXCEPT ![doing[t]] = Nobody]
    /\ Erase(t)
    /\ doing' = Forgets(t)
    /\ Goto(t, "each")
    /\ UNCHANGED <<plan, memory, queue, m_scheduledAt, rest, taskOf, counts, history>>

-----------------------------------------------------------------------------
Saves(t) ==
    \/ TakePlayerLock(t) \/ ReadPlayer(t) \/ WritePlayer(t)
    \/ Begin(t) \/ Submit(t) \/ Each(t) \/ Awaited(t)

Goes(t) == Saves(t) \/ (t \in plan.workers /\ Take(t))

Plays == ScheduleAll \/ \E p \in Players :
    Login(p) \/ Change(p) \/ Request(p) \/ Logout(p)

Next == Plays \/ (\E t \in Threads : Goes(t)) \/ (\E o \in Made : Release(o))

(* The threads run; a free mutex and the database are got in the end.       *)
Fairness == \A t \in Threads : WF_vars(Goes(t))

Spec == Init /\ [][Next]_vars /\ Fairness

-----------------------------------------------------------------------------
Tasks == [kind : {"all", "player", "one"}, object : 0..MaxSessions,
          at : 0..clock,
          by : Threads \cup {Nobody}]

TypeOK ==
    /\ table \in [Players -> SUBSET Changes]
    /\ owner \in Seq(Players) /\ data \in Seq(SUBSET Changes)
    /\ online \in [Players -> 0..MaxSessions] /\ released \subseteq Made
    /\ queue \in Seq(Tasks)
    /\ m_playerMap \in [Players -> 0..clock] /\ m_scheduledAt \in 0..clock
    /\ playerLock \in [Objects -> Threads \cup {Nobody}]
    /\ pc \in [Threads -> {"idle", "begin", "submit", "await", "each", "lock", "read", "write"}]
    /\ doing \in [Threads -> 0..MaxSessions]
    /\ \A t \in Threads : pc[t] \in {"lock", "read", "write"} <=> doing[t] # 0
    /\ rest \in [Threads -> SUBSET Objects]
    /\ taskOf \in [Threads -> Threads \cup {Nobody}]
    /\ copy \in [Threads -> SUBSET Changes]

(* With saves on the dispatcher thread, what a character had when it left   *)
(* is in the table before anybody can load it again: the save of the logout *)
(* is over, and no save of an earlier object of the same character comes    *)
(* after it.                                                                *)
LoginLoadsAll ==
    Playing /\ ~plan.async => \A p \in Players : online[p] = 0 => table[p] = progress[p]

(* A saveAll waits on a thread of the pool for tasks only the pool can run. *)
(* Once every thread the dispatcher leaves free waits so, none goes on.     *)
Stuck ==
    \A w \in plan.workers :
        pc[w] = "await" /\ \E i \in DOMAIN queue : queue[i].by = w

(* Whatever a character had when its save was asked for is saved in the     *)
(* end, by this save, the one that replaced it or a saveAll, unless the     *)
(* pool gets stuck; and no later save takes back what an earlier one has    *)
(* written.                                                                 *)
SavesLand ==
    /\ [][\A p \in Players : table[p] \subseteq table'[p]]_vars
    /\ <>[](\A p \in Players : asked[p] \subseteq table[p]) \/ <>Stuck

(* A saveAll ends, on whichever thread it runs, except in this one way.     *)
SaveAllEnds == <>[](\A t \in Threads : pc[t] # "await") \/ <>Stuck
=============================================================================
