------------------------------- MODULE MCPool -------------------------------
(* What the dispatcher thread shares with the threads of a pool: a monster  *)
(* that follows a creature, one that thinks, and the saves of players.      *)
(* Each has its own state, so a behaviour runs one of them and leaves the   *)
(* others in one of their initial states.                                   *)
EXTENDS MonsterFollowPath, Sequences

CONSTANTS
    Targets, MaxThinks, MaxWorldChanges, MaxSearches, MaxEpochs,
    Players, Game, Workers, Plans, MaxSessions, MaxProgress

ASSUME ThinkAssumption == MaxSearches \in Nat /\ MaxEpochs \in Nat \ {0}
ASSUME SaveAssumption ==
    /\ IsFiniteSet(Players) /\ Nobody \notin Players
    /\ Game \notin Workers /\ Nobody \notin Workers \cup {Game}
    /\ MaxSessions \in Nat /\ MaxProgress \in Nat
    /\ Plans \subseteq [async : BOOLEAN, logouts : BOOLEAN, requests : Nat,
                        alls : Nat, workers : SUBSET Workers]

VARIABLES
    part,  \* which of them runs
    thinkAt, targets, attacked, dead, seen, stateEpoch, decisionEpoch,
    onThink, targetRanking, barrier,
    searching, activeSearch, searches, search, calls,
    postPending, postQueued, postVisible, postWaiting, queues,
    thinks, worldChanges,
    plan, table, owner, data, online, released, queue, m_playerMap,
    m_scheduledAt, playerLock, pc, doing, copy, rest, taskOf, clock, gains,
    requests, alls, asked, progress

mindVars == <<thinkAt, targets, attacked, dead, seen, stateEpoch, decisionEpoch,
    onThink, targetRanking, barrier, searching, activeSearch, searches, search, calls,
    postPending, postQueued, postVisible, postWaiting, queues, thinks, worldChanges>>
saveVars == <<plan, table, owner, data, online, released, queue, m_playerMap,
    m_scheduledAt, playerLock, pc, doing, copy, rest, taskOf, clock, gains,
    requests, alls, asked, progress>>

(* Saves on the dispatcher thread with relogins, and asynchronous ones: of  *)
(* a player twice, beside a saveAll, two saveAlls that may meet, and a pool *)
(* with one thread free.                                                    *)
SavePlans == {
    [async |-> FALSE, logouts |-> TRUE, requests |-> 0, alls |-> 1, workers |-> Workers],
    [async |-> TRUE, logouts |-> FALSE, requests |-> 2, alls |-> 0, workers |-> Workers],
    [async |-> TRUE, logouts |-> FALSE, requests |-> 1, alls |-> 1, workers |-> Workers],
    [async |-> TRUE, logouts |-> FALSE, requests |-> 0, alls |-> 2, workers |-> Workers],
    [async |-> TRUE, logouts |-> FALSE, requests |-> 1, alls |-> 2,
     workers |-> {CHOOSE w \in Workers : TRUE}]}
FirstPlan == CHOOSE p \in Plans : ~p.async

Mind == INSTANCE MonsterThink WITH
    Creatures <- Targets, MaxChanges <- MaxWorldChanges, MaxGenerations <- MaxSearches,
    at <- thinkAt, gone <- dead,
    outstanding <- searching, active <- activeSearch, generation <- searches,
    pending <- search, messages <- calls, changes <- worldChanges
Saver == INSTANCE SaveManager WITH
    MaxChanges <- MaxProgress, changes <- gains

MCInit ==
    /\ part \in {"follow", "think", "saves"}
    /\ Init /\ Mind!Init /\ Saver!Init
    /\ part # "follow" => at = 1 /\ place = [c \in Creatures |-> 1]
    /\ part # "think" => thinkAt = 1 /\ targets = {} /\ ~seen
    /\ part # "saves" => plan = FirstPlan

Follows == part = "follow" /\ UNCHANGED <<part, mindVars, saveVars>>
Thinks == part = "think" /\ UNCHANGED <<part, vars, saveVars>>
Saves == part = "saves" /\ UNCHANGED <<part, vars, mindVars>>

FollowNext ==
    \/ Follows /\ Changes
    \/ Follows /\ AskForPath
    \/ Follows /\ GoToFollowCreature
    \/ \E m \in messages :
         \/ Follows /\ Prepare(m)
         \/ Follows /\ Complete(m)
         \/ Follows /\ Reject(m)

ThinkNext ==
    \/ Thinks /\ Mind!ChangeWorld
    \/ Thinks /\ Mind!Seen
    \/ Thinks /\ Mind!Think
    \/ Thinks /\ Mind!ExecuteRanking
    \/ Thinks /\ Mind!ThinkAsync
    \/ \E m \in calls :
         \/ Thinks /\ Mind!QueuePost(m)
         \/ Thinks /\ Mind!Prepare(m)
         \/ Thinks /\ Mind!Complete(m)
    \/ Thinks /\ Mind!ExecutePostThink
    \/ \E visible \in BOOLEAN : Thinks /\ Mind!CancelQueue(visible)

SavesNext ==
    \/ Saves /\ Saver!ScheduleAll
    \/ \E p \in Players :
         \/ Saves /\ Saver!Login(p)
         \/ Saves /\ Saver!Change(p)
         \/ Saves /\ Saver!Request(p)
         \/ Saves /\ Saver!Logout(p)
    \/ \E t \in {Game} \cup Workers :
         \/ Saves /\ Saver!TakePlayerLock(t)
         \/ Saves /\ Saver!ReadPlayer(t)
         \/ Saves /\ Saver!WritePlayer(t)
         \/ Saves /\ Saver!Begin(t)
         \/ Saves /\ Saver!Submit(t)
         \/ Saves /\ Saver!Each(t)
         \/ Saves /\ Saver!Awaited(t)
    \/ \E w \in plan.workers : Saves /\ Saver!Take(w)
    \/ \E o \in 1..Len(owner) : Saves /\ Saver!Release(o)

MCNext == FollowNext \/ ThinkNext \/ SavesNext

MCSpec ==
    /\ MCInit /\ [][MCNext]_<<part, vars, mindVars, saveVars>>
    /\ Fairness /\ Mind!Fairness /\ Saver!Fairness

(* A path search, a target search or a post-think that is waited for is on  *)
(* its way (Monster::requestFollowPathCompute, requestTargetRankingCompute, *)
(* requestPostThink and their completions).                                 *)
RequestsAnswered ==
    /\ TypeOK /\ Answered
    /\ Mind!TypeOK /\ Mind!SearchAnswered /\ Mind!PostThinkKept

(* Who logs in again finds all it had (SaveManager::doSavePlayer on the     *)
(* dispatcher thread).                                                      *)
LoginLoadsAll == Saver!TypeOK /\ Saver!LoginLoadsAll

(* What was to be saved is saved, unless every free thread of the pool      *)
(* waits in a saveAll (SaveManager::schedulePlayer, saveAll).               *)
SavesLand == Saver!SavesLand

(* A monster's requests and post-thinks and a saveAll come to their ends,   *)
(* the saveAll unless every free thread of the pool waits in one.           *)
WaitsEnd == AnswerComes /\ Mind!PostThinkEnds /\ Saver!SaveAllEnds
=============================================================================
