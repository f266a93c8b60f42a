---------------------------- MODULE MonsterThink ----------------------------
(***************************************************************************)
(* A monster's think (src/creatures/monsters/monster.cpp): the tick asks    *)
(* for a target and for a post-think, which attacks; the post-think waits   *)
(* for the target, which is ranked by MonsterComputeService and comes back  *)
(* after the targets, the position or the decision may have changed.  The   *)
(* post-thinks wait in one of two queues (src/game/game.cpp), by whether a  *)
(* player sees the monster.                                                 *)
(*                                                                         *)
(* One monster.  Which target is best is left out, and so is everything the *)
(* thinking does besides.                                                   *)
(***************************************************************************)
EXTENDS Naturals, FiniteSets

CONSTANTS
    Creatures, Nobody, Places,
    MaxThinks, MaxChanges,  \* bounds: ticks, and changes of the world
    MaxGenerations, MaxEpochs

VARIABLES
    at, targets, attacked, gone, seen,     \* the monster and its world
    stateEpoch, decisionEpoch,             \* targetStateEpoch, targetDecisionEpoch
    onThink, targetRanking,                \* flags of the next barrier phase
    barrier,                               \* the barrier phase is at onThink_async
    outstanding, active, generation, pending, \* of the target search
    messages,                              \* calls on their way
    postPending,                           \* pendingPostThink
    postQueued, postVisible, postWaiting,
    queues,                                \* how often it is in each of the queues
    thinks, changes

world == <<at, targets, attacked, gone, seen>>
epochs == <<stateEpoch, decisionEpoch>>
flags == <<onThink, targetRanking, barrier>>
search == <<outstanding, active, generation, pending>>
post == <<postPending, postQueued, postVisible, postWaiting, queues>>
counts == <<thinks, changes>>
vars == <<world, epochs, flags, search, messages, post, counts>>

-----------------------------------------------------------------------------
Types == {"nearest", "random"}
NoSearch == [type |-> "none", state |-> 0, decision |-> 0]

Init ==
    /\ at \in Places /\ targets \in SUBSET Creatures
    /\ attacked = Nobody /\ gone = FALSE /\ seen \in BOOLEAN
    /\ stateEpoch = 1 /\ decisionEpoch = 1
    /\ onThink = FALSE /\ targetRanking = FALSE /\ barrier = FALSE
    /\ outstanding = FALSE /\ active = 0 /\ generation = 0 /\ pending = NoSearch
    /\ messages = {}
    /\ postPending = FALSE /\ postQueued = FALSE
    /\ postVisible = FALSE /\ postWaiting = FALSE
    /\ queues = [visible \in BOOLEAN |-> 0] /\ thinks = 0 /\ changes = 0

Serial == ~barrier

MarkTargetStateChanged ==
    /\ stateEpoch < MaxEpochs /\ stateEpoch' = stateEpoch + 1
    /\ UNCHANGED decisionEpoch


MarkTargetDecisionChanged ==
    /\ stateEpoch < MaxEpochs /\ stateEpoch' = stateEpoch + 1
    /\ decisionEpoch' = decisionEpoch + 1

-----------------------------------------------------------------------------
(* Queue, and queueMonsterPostThink: the queue may be full.                 *)
Queue(visible) ==
    \/ /\ postQueued' = TRUE /\ postVisible' = visible /\ postWaiting' = FALSE
       /\ queues' = [queues EXCEPT ![visible] = @ + 1]
       /\ UNCHANGED postPending
    \/ /\ postPending' = FALSE /\ postQueued' = FALSE /\ postWaiting' = FALSE
       /\ postVisible' = visible
       /\ UNCHANGED queues

(* queuePostThinkAfterAsync, once the search is outstanding or not and the  *)
(* post-think queued or not.                                                *)
QueueAfterAsync(searching, queued) ==
    \/ /\ ~postPending \/ queued
       /\ postQueued' = queued
       /\ UNCHANGED <<postPending, postVisible, postWaiting, queues>>
    \/ /\ postPending /\ ~queued /\ searching
       /\ postWaiting' = TRUE /\ postQueued' = FALSE
       /\ UNCHANGED <<postPending, postVisible, queues>>
    \/ /\ postPending /\ ~queued /\ ~searching
       /\ Queue(seen)

(* clearTargetSearchCompute: whoever waited for the decision goes on.       *)
MutReleases == FALSE
Releases == postWaiting

Clear ==
    /\ outstanding' = FALSE /\ active' = 0 /\ pending' = NoSearch
    /\ UNCHANGED generation
    /\ \/ ~Releases /\ UNCHANGED post
       \/ Releases /\ QueueAfterAsync(FALSE, postQueued)

-----------------------------------------------------------------------------
(* The world: targets come and go, the monster moves, is seen by a player,  *)
(* decides by another way, or dies.                                         *)
ChangeWorld ==
    /\ Serial /\ changes < MaxChanges /\ changes' = changes + 1
    /\ \/ /\ targets' \in SUBSET Creatures /\ targets' # targets
          /\ MarkTargetStateChanged
          /\ UNCHANGED <<at, attacked, gone, seen, post>>
       \/ /\ at' \in Places \ {at}
          /\ UNCHANGED <<targets, attacked, gone, seen, epochs, post>>
       \/ /\ attacked' \in (targets \cup {Nobody}) \ {attacked}
          /\ MarkTargetDecisionChanged
          /\ UNCHANGED <<at, targets, gone, seen, post>>
       \/ /\ ~gone /\ gone' = TRUE
          /\ UNCHANGED <<at, targets, attacked, seen, epochs, post>>
       \/ /\ seen /\ seen' = FALSE
          /\ UNCHANGED <<at, targets, attacked, gone, epochs, post>>
    /\ UNCHANGED <<flags, search, messages, thinks>>

(* observeVisiblePlayerForScheduling promotes a queued post-think.          *)
Seen ==
    /\ Serial /\ changes < MaxChanges /\ changes' = changes + 1
    /\ ~seen /\ seen' = TRUE
    /\ \/ ~(postQueued /\ postPending) /\ UNCHANGED post
       \/ /\ postQueued /\ postPending
          /\ \/ outstanding /\ QueueAfterAsync(TRUE, FALSE)
             \/ ~outstanding /\ Queue(TRUE)
    /\ UNCHANGED <<at, targets, attacked, gone, epochs, flags, search, messages, thinks>>

(* Game::checkCreatures: onThink, then trySchedulePostThink.                *)
Think ==
    /\ Serial /\ ~gone /\ thinks < MaxThinks /\ thinks' = thinks + 1
    /\ onThink' = TRUE /\ postPending' = TRUE
    /\ UNCHANGED <<world, epochs, targetRanking, barrier, search, messages, postQueued, postVisible, postWaiting, queues, changes>>

-----------------------------------------------------------------------------
(* requestTargetSearchCompute in the barrier phase: the dispatcher is       *)
(* called, and may reject the event.                                        *)
SameSearch(old, type) ==
    outstanding /\ old = [type |-> type, state |-> stateEpoch, decision |-> decisionEpoch]

Request(old, type, others) ==
    \/ /\ SameSearch(old, type)
       /\ pending' = old /\ messages' = others
       /\ UNCHANGED <<outstanding, active, generation, post>>
    \/ /\ ~SameSearch(old, type)
       /\ generation < MaxGenerations /\ generation' = generation + 1
       /\ LET asked == [type |-> type, state |-> stateEpoch, decision |-> decisionEpoch]
          IN  \/ /\ outstanding
                 /\ pending' = asked /\ messages' = others
                 /\ UNCHANGED <<outstanding, active, post>>
              \/ /\ ~outstanding
                 /\ pending' = asked /\ outstanding' = TRUE
                 /\ active' = generation + 1
                 /\ messages' = others \cup
                      {[kind |-> "prepare", gen |-> generation + 1, state |-> 0,
                        decision |-> 0, at |-> 0]}
                 /\ UNCHANGED post
              \/ /\ ~outstanding
                 /\ pending' = NoSearch /\ outstanding' = FALSE /\ active' = 0
                 /\ messages' = others
                 /\ \/ ~Releases /\ UNCHANGED post
                    \/ Releases /\ QueueAfterAsync(FALSE, postQueued)

(* onExecuteAsyncTasks: first the retry of a ranking ...                    *)
ExecuteRanking ==
    /\ Serial /\ ~gone /\ (targetRanking \/ onThink)
    /\ barrier' = TRUE /\ targetRanking' = FALSE
    /\ \/ /\ targetRanking /\ pending # NoSearch
          /\ Request(NoSearch, pending.type, messages)
       \/ /\ ~(targetRanking /\ pending # NoSearch)
          /\ UNCHANGED <<search, messages, post>>
    /\ UNCHANGED <<world, epochs, onThink, counts>>

(* ... then onThink_async: it may search, and calls the dispatcher to queue *)
(* the post-think, or does it here when that event is rejected or the       *)
(* monster is idle.                                                         *)
ThinkAsync ==
    /\ barrier /\ barrier' = FALSE /\ onThink' = FALSE
    /\ LET later == messages \cup
             {[kind |-> "post", gen |-> 0, state |-> 0, decision |-> 0, at |-> 0]}
       IN  \/ ~onThink /\ UNCHANGED <<search, messages, post>>
           \/ /\ onThink
              /\ \E type \in Types : Request(pending, type, later)
           \/ onThink /\ messages' = later /\ UNCHANGED <<search, post>>
           \/ /\ onThink /\ QueueAfterAsync(outstanding, postQueued)
              /\ UNCHANGED <<search, messages>>
    /\ UNCHANGED <<world, epochs, targetRanking, counts>>

QueuePost(m) ==
    /\ Serial /\ m.kind = "post" /\ messages' = messages \ {m}
    /\ \/ gone /\ UNCHANGED post
       \/ ~gone /\ QueueAfterAsync(outstanding, postQueued)
    /\ UNCHANGED <<world, epochs, flags, search, counts>>

-----------------------------------------------------------------------------

Ignored(m) ==
    gone \/ ~outstanding \/ active # m.gen \/ pending = NoSearch

(* selectTarget: the creature may have become no target, or is attacked.    *)
Select ==
    \/ UNCHANGED <<attacked, epochs>>
    \/ /\ attacked' \in targets \ {attacked}
       /\ MarkTargetDecisionChanged

(* prepareTargetSearchCompute, of the newest request: nothing to rank any   *)
(* more, a random choice or a single candidate taken at once, or a job,     *)
(* which may be refused.                                                    *)
KeepsRequest == pending.decision = decisionEpoch

Prepare(m) ==
    /\ Serial /\ m.kind = "prepare"
    /\ \/ /\ Ignored(m)
          /\ messages' = messages \ {m}
          /\ UNCHANGED <<attacked, epochs, search, post>>
       \/ /\ ~Ignored(m)
          /\ messages' = messages \ {m}
          /\ Clear
          /\ \/ UNCHANGED <<attacked, epochs>>   \* outdated, none, or refused
             \/ KeepsRequest /\ Select
       \/ /\ ~Ignored(m) /\ KeepsRequest /\ targets # {}
          /\ active' = generation
          /\ pending' = [pending EXCEPT !.state = stateEpoch]
          /\ messages' = (messages \ {m}) \cup
               {[kind |-> "compute", gen |-> generation, state |-> stateEpoch,
                 decision |-> decisionEpoch, at |-> at]}
          /\ UNCHANGED <<attacked, epochs, outstanding, generation, post>>
    /\ UNCHANGED <<at, targets, gone, seen, flags, counts>>

(* retryTargetSearchCompute: the post-think goes on waiting.                *)
MutKeepsWaiting == UNCHANGED targetRanking
KeepsWaiting == targetRanking' = TRUE

Retry(type) ==
    /\ outstanding' = FALSE /\ active' = 0
    /\ pending' = [type |-> type, state |-> stateEpoch, decision |-> decisionEpoch]
    /\ KeepsWaiting
    /\ UNCHANGED <<generation, post, attacked, epochs>>

Selects(m) ==
    /\ ~Ignored(m) /\ m.gen = generation
    /\ m.decision = decisionEpoch /\ m.state = stateEpoch /\ m.at = at

(* completeTargetSearchCompute, with a result or cancelled.                 *)
Complete(m) ==
    /\ Serial /\ m.kind = "compute" /\ messages' = messages \ {m}
    /\ \/ /\ Ignored(m)
          /\ UNCHANGED <<attacked, epochs, search, targetRanking, post>>
       \/ /\ ~Ignored(m) /\ m.gen # generation
          /\ Retry(pending.type)
       \/ /\ ~Ignored(m) /\ m.gen = generation   \* cancelled, or decided since
          /\ Clear /\ UNCHANGED <<attacked, epochs, targetRanking>>
       \/ /\ ~Ignored(m) /\ m.gen = generation /\ m.decision = decisionEpoch
          /\ ~Selects(m) /\ targets # {}
          /\ Retry(pending.type)
       \/ /\ Selects(m)
          /\ Clear /\ Select /\ UNCHANGED targetRanking
    /\ UNCHANGED <<at, targets, gone, seen, onThink, barrier, counts>>

-----------------------------------------------------------------------------
(* processMonsterPostThinkQueue and executePostThink: an entry that was     *)
(* promoted or answered already does nothing.                               *)
ExecutePostThink ==
    /\ Serial /\ \E visible \in BOOLEAN :
         /\ queues[visible] > 0 /\ queues' = [queues EXCEPT ![visible] = @ - 1]
         /\ \/ /\ gone \/ ~postQueued \/ postVisible # visible
               /\ UNCHANGED <<postPending, postQueued, postWaiting>>
            \/ /\ ~gone /\ postQueued /\ postVisible = visible /\ outstanding
               /\ postQueued' = FALSE /\ postWaiting' = TRUE
               /\ UNCHANGED postPending
            \/ /\ ~gone /\ postQueued /\ postVisible = visible /\ ~outstanding
               /\ postQueued' = FALSE /\ postPending' = FALSE
               /\ UNCHANGED postWaiting
    /\ UNCHANGED <<world, epochs, flags, search, messages, postVisible, counts>>

(* cancelMonsterPostThinkQueue: the dispatcher has rejected a queue's event.*)
CancelQueue(visible) ==
    /\ Serial /\ changes < MaxChanges /\ changes' = changes + 1
    /\ queues[visible] > 0 /\ queues' = [queues EXCEPT ![visible] = 0]
    /\ \/ /\ ~gone /\ postQueued /\ postVisible = visible
          /\ postPending' = FALSE /\ postQueued' = FALSE /\ postWaiting' = FALSE
       \/ /\ ~(~gone /\ postQueued /\ postVisible = visible)
          /\ UNCHANGED <<postPending, postQueued, postWaiting>>
    /\ UNCHANGED <<world, epochs, flags, search, messages, postVisible, thinks>>

-----------------------------------------------------------------------------
Delivers == \E m \in messages : QueuePost(m) \/ Prepare(m) \/ Complete(m)

Next ==
    \/ ChangeWorld \/ Seen \/ Think \/ ExecuteRanking \/ ThinkAsync
    \/ Delivers
    \/ ExecutePostThink \/ \E visible \in BOOLEAN : CancelQueue(visible)

(* Barrier phases come round, and the dispatcher and the workers deliver.   *)
Fairness ==
    /\ WF_vars(ExecuteRanking) /\ WF_vars(ThinkAsync) /\ WF_vars(ExecutePostThink)
    /\ WF_vars(Delivers)

Spec == Init /\ [][Next]_vars /\ Fairness

-----------------------------------------------------------------------------
Searches ==
    [type : Types, state : 1..MaxEpochs, decision : 1..MaxEpochs] \cup {NoSearch}
Calls == [kind : {"prepare", "compute", "post"}, gen : 0..MaxGenerations,
          state : 0..MaxEpochs, decision : 0..MaxEpochs, at : Places \cup {0}]

TypeOK ==
    /\ at \in Places /\ targets \subseteq Creatures
    /\ attacked \in Creatures \cup {Nobody}
    /\ gone \in BOOLEAN /\ seen \in BOOLEAN /\ barrier \in BOOLEAN
    /\ stateEpoch \in 1..MaxEpochs /\ decisionEpoch \in 1..stateEpoch
    /\ onThink \in BOOLEAN /\ targetRanking \in BOOLEAN
    /\ outstanding \in BOOLEAN /\ (outstanding <=> active # 0)
    /\ active \in 0..generation /\ generation \in 0..MaxGenerations
    /\ pending \in Searches /\ messages \subseteq Calls
    /\ postPending \in BOOLEAN /\ postQueued \in BOOLEAN
    /\ postVisible \in BOOLEAN /\ postWaiting \in BOOLEAN
    /\ queues \in [BOOLEAN -> Nat]

(* An outstanding search has exactly one call on its way that ends it.      *)
SearchAnswered ==
    ~gone /\ outstanding
      => /\ pending # NoSearch
         /\ Cardinality({m \in messages : m.kind # "post" /\ m.gen = active}) = 1

(* A post-think that was asked for is never forgotten: somebody holds it,   *)
(* be it the coming barrier phase, a call on its way, the queue it is       *)
(* entered in, or the search it waits for, including one to be retried.     *)
PostThinkKept ==
    ~gone /\ postPending =>
      \/ onThink \/ \E m \in messages : m.kind = "post"
      \/ postQueued /\ queues[postVisible] > 0
      \/ postWaiting /\ (outstanding \/ (targetRanking /\ pending # NoSearch))

(* The monster attacks, or its tick is given up by a full queue: it does    *)
(* not wait for ever for a target decision.                                 *)
PostThinkEnds == []<>(~postPending \/ gone)
=============================================================================
