------------------------- MODULE MonsterFollowPath -------------------------
(***************************************************************************)
(* How a monster gets the path to the creature it follows (goToFollowCreature *)
(* and Monster::requestFollowPathCompute to discardFollowPathCompute,       *)
(* src/creatures/monsters/monster.cpp): a request is prepared on the        *)
(* dispatcher, computed by MonsterComputeService from a snapshot, and       *)
(* comes back while monster, target and map have gone on.                   *)
(*                                                                         *)
(* One monster; its own steps never overlap, but the messages between the   *)
(* barrier phase, the dispatcher and the workers wait in any order.  The    *)
(* path itself is left out: what matters is what it was computed for.       *)
(***************************************************************************)
EXTENDS Naturals, FiniteSets

CONSTANTS
    Places, Creatures, Nobody,
    MaxChanges,     \* bound: how often the world changes
    MaxGenerations  \* bound: how many generations are drawn

ASSUME FollowAssumption ==
    /\ Nobody \notin Creatures /\ Places # {} /\ Creatures # {}
    /\ MaxChanges \in Nat /\ MaxGenerations \in Nat

VARIABLES
    at, place,      \* where the monster and the creatures are
    follow,         \* getFollowCreature()
    topology,       \* the version of the map around them
    gone,           \* removed or dead
    pathfinder,     \* the flag of goToFollowCreature_async
    outstanding,    \* followPathComputeOutstanding
    active,         \* activeFollowPathComputeGeneration
    generation,     \* followPathComputeGeneration
    superseded,     \* followPathComputeSuperseded
    pending,        \* pendingFollowPathCompute
    messages,       \* calls on their way: to prepare, or with a result
    changes

world == <<at, place, follow, topology, gone>>
flags == <<outstanding, active, generation, superseded, pending>>
vars == <<world, pathfinder, flags, messages, changes>>

-----------------------------------------------------------------------------
Requests == [start : Places, target : Places, who : Creatures]
NoRequest == [start |-> 0, target |-> 0, who |-> Nobody]

Init ==
    /\ at \in Places /\ place \in [Creatures -> Places]
    /\ follow = Nobody /\ topology = 0 /\ gone = FALSE
    /\ pathfinder = FALSE /\ outstanding = FALSE /\ active = 0
    /\ generation = 0 /\ superseded = FALSE /\ pending = NoRequest
    /\ messages = {} /\ changes = 0

(* What the world does meanwhile.                                           *)
Changes ==
    /\ changes < MaxChanges /\ changes' = changes + 1
    /\ \/ /\ at' \in Places \ {at}
          /\ UNCHANGED <<place, follow, topology, gone>>
       \/ /\ \E c \in Creatures, p \in Places :
               place[c] # p /\ place' = [place EXCEPT ![c] = p]
          /\ UNCHANGED <<at, follow, topology, gone>>
       \/ /\ follow' \in (Creatures \cup {Nobody}) \ {follow}
          /\ UNCHANGED <<at, place, topology, gone>>
       \/ /\ topology' = topology + 1
          /\ UNCHANGED <<at, place, follow, gone>>
       \/ /\ ~gone /\ gone' = TRUE
          /\ UNCHANGED <<at, place, follow, topology>>
    /\ UNCHANGED <<pathfinder, flags, messages>>

(* goToFollowCreature_async, from a think, a move or a refresh.             *)
AskForPath ==
    /\ ~gone /\ ~pathfinder /\ pathfinder' = TRUE
    /\ UNCHANGED <<world, flags, messages, changes>>

-----------------------------------------------------------------------------
Idle ==
    /\ outstanding' = FALSE /\ active' = 0
    /\ superseded' = FALSE /\ pending' = NoRequest
    /\ UNCHANGED generation

(* discardFollowPathCompute.                                                *)
Discard(refresh) ==
    /\ Idle
    /\ pathfinder' = (pathfinder \/ (refresh /\ ~gone /\ follow # Nobody))

Supersede ==
    \/ /\ outstanding
       /\ generation < MaxGenerations /\ generation' = generation + 1
       /\ pending' = NoRequest /\ superseded' = TRUE
       /\ UNCHANGED <<outstanding, active>>
    \/ /\ ~outstanding
       /\ pending' = NoRequest /\ superseded' = FALSE
       /\ UNCHANGED <<outstanding, active, generation>>

(* requestFollowPathCompute: a request like the one that is pending adds    *)
(* nothing; one that differs waits for the outstanding call; otherwise      *)
(* the dispatcher is called, which may reject the event.                    *)
Request ==
    LET request == [start |-> at, target |-> place[follow], who |-> follow]
    IN  \/ /\ outstanding /\ pending = request
           /\ UNCHANGED <<flags, messages>>
        \/ /\ ~(outstanding /\ pending = request)
           /\ generation < MaxGenerations /\ generation' = generation + 1
           /\ \/ /\ outstanding
                 /\ pending' = request /\ superseded' = FALSE
                 /\ UNCHANGED <<outstanding, active, messages>>
              \/ /\ ~outstanding
                 /\ pending' = request /\ superseded' = FALSE
                 /\ outstanding' = TRUE /\ active' = generation + 1
                 /\ messages' = messages \cup
                      {[kind |-> "prepare", gen |-> generation + 1,
                        job |-> NoRequest, map |-> 0]}
              \/ /\ ~outstanding
                 /\ pending' = NoRequest /\ superseded' = FALSE
                 /\ UNCHANGED <<outstanding, active, messages>>

(* goToFollowCreature in the barrier phase: no target, a direct way or a    *)
(* master it may not follow, or a request.                                  *)
GoToFollowCreature ==
    /\ pathfinder /\ pathfinder' = FALSE
    /\ \/ (follow = Nobody \/ gone) /\ UNCHANGED <<flags, messages>>
       \/ follow # Nobody /\ ~gone /\ Supersede /\ UNCHANGED messages
       \/ follow # Nobody /\ ~gone /\ Request
    /\ UNCHANGED <<world, changes>>

-----------------------------------------------------------------------------
(* A call for another generation than the active one is ignored; after a    *)
(* supersede that no request followed, the outstanding call just ends.      *)
Ignored(m) == gone \/ ~outstanding \/ active # m.gen
Abandoned(m) == ~Ignored(m) /\ pending = NoRequest
Expected(m) == ~Ignored(m) /\ pending # NoRequest

Settles == Idle

Dropped(m) ==
    /\ messages' = messages \ {m}
    /\ \/ Ignored(m) /\ UNCHANGED flags
       \/ Abandoned(m) /\ Settles
    /\ UNCHANGED pathfinder

Unmoved(request) ==
    /\ at = request.start /\ follow = request.who
    /\ place[request.who] = request.target

(* prepareFollowPathCompute, for the newest request: it is dropped when the *)
(* world has changed, submitted with a snapshot, or refused, which          *)
(* rejectFollowPathCompute answers by stopping the monster.                 *)
Submit(m) ==
    \/ /\ ~Unmoved(pending)
       /\ Discard(follow # Nobody)
       /\ messages' = messages \ {m}
    \/ /\ Unmoved(pending)
       /\ active' = generation
       /\ messages' = (messages \ {m}) \cup
             {[kind |-> "compute", gen |-> generation, job |-> pending,
               map |-> topology]}
       /\ UNCHANGED <<pathfinder, outstanding, generation, superseded, pending>>
    \/ /\ Unmoved(pending)
       /\ Idle /\ messages' = messages \ {m} /\ UNCHANGED pathfinder

Prepare(m) ==
    /\ m.kind = "prepare"
    /\ \/ Dropped(m)
       \/ Expected(m) /\ Submit(m)
    /\ UNCHANGED <<world, changes>>

(* completeFollowPathCompute, with a result for this generation.            *)
MutIsLatest(m) == TRUE
IsLatest(m) == m.gen = generation

Walks(m) ==
    /\ Expected(m) /\ IsLatest(m)
    /\ Unmoved(pending) /\ m.map = topology

Complete(m) ==
    /\ m.kind = "compute"
    /\ \/ Dropped(m)
       \/ /\ messages' = messages \ {m}
          /\ \/ Expected(m) /\ ~IsLatest(m) /\ Discard(TRUE)
             \/ Expected(m) /\ IsLatest(m) /\ Discard(FALSE)  \* cancelled
             \/ /\ Expected(m) /\ IsLatest(m) /\ ~Walks(m)
                /\ Discard(follow # Nobody)
             \/ Walks(m) /\ Idle /\ UNCHANGED pathfinder
    /\ UNCHANGED <<world, changes>>

(* rejectFollowPathCompute, when the service discards the job: it prepares  *)
(* a newer request at once.                                                 *)
Reject(m) ==
    /\ m.kind = "compute"
    /\ \/ Dropped(m)
       \/ /\ Expected(m) /\ ~IsLatest(m) /\ Submit(m)
       \/ /\ Expected(m) /\ IsLatest(m)
          /\ Idle /\ messages' = messages \ {m} /\ UNCHANGED pathfinder
    /\ UNCHANGED <<world, changes>>

-----------------------------------------------------------------------------
Delivers == \E m \in messages : Prepare(m) \/ Complete(m) \/ Reject(m)

Next == Changes \/ AskForPath \/ GoToFollowCreature \/ Delivers

(* The barrier phase comes round, and the dispatcher and the workers        *)
(* deliver every message.                                                   *)
Fairness ==
    /\ WF_vars(GoToFollowCreature)
    /\ WF_vars(Delivers)

Spec == Init /\ [][Next]_vars /\ Fairness

-----------------------------------------------------------------------------
Messages == [kind : {"prepare", "compute"}, gen : 1..MaxGenerations,
             job : Requests \cup {NoRequest}, map : 0..MaxChanges]

TypeOK ==
    /\ at \in Places /\ place \in [Creatures -> Places]
    /\ follow \in Creatures \cup {Nobody} /\ topology \in 0..MaxChanges
    /\ gone \in BOOLEAN /\ pathfinder \in BOOLEAN
    /\ outstanding \in BOOLEAN /\ superseded \in BOOLEAN
    /\ outstanding <=> active # 0
    /\ active \in 0..MaxGenerations /\ generation \in 0..MaxGenerations
    /\ pending \in Requests \cup {NoRequest}
    /\ messages \subseteq Messages

(* A monster that waits for an answer gets one: exactly one call carries    *)
(* the active generation, however often its request was replaced,           *)
(* superseded, rejected or discarded since.  Without it the monster would   *)
(* never ask for a path again; and nothing is pending without a call        *)
(* outstanding, for nobody would ask for it.                                *)
Answered ==
    /\ ~gone /\ outstanding => Cardinality({m \in messages : m.gen = active}) = 1
    /\ pending # NoRequest => outstanding

(* completeFollowPathCompute looks at the pending request, not at the one   *)
(* the result was computed for: a path is walked only from the place, to    *)
(* the creature, at the place and on the map it was computed for, and never *)
(* after a newer decision.                                                  *)
WalksItsOwnPath ==
    \A m \in messages :
        m.kind = "compute" /\ Walks(m) =>
          /\ m.gen = generation /\ ~superseded
          /\ Unmoved(m.job) /\ m.map = topology

(* A monster does not wait for ever.                                        *)
AnswerComes == []<>(~outstanding \/ gone)
=============================================================================
