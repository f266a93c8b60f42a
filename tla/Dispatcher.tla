------------------------------ MODULE Dispatcher ------------------------------
(***************************************************************************)
(* Dispatcher (src/game/scheduling/dispatcher.cpp, dispatcher.hpp,          *)
(* task.hpp): threads publish tasks into buffers of their own, each under   *)
(* its mutex; the dispatcher thread merges the buffers into its lanes,      *)
(* promotes due timers into them, runs the lanes, and sleeps when nothing   *)
(* is pending.  Admission to a lane is a slot taken before publication.     *)
(*                                                                         *)
(* Every access to a shared atomic is one action, and so is every region    *)
(* under a thread's mutex that no atomic access divides.  A task is an      *)
(* element of Events, which fixes the producer call that adds it (Kind),    *)
(* its lane after the normalisation those calls do, and its producer token. *)
(* Time is left out: any timer may be due when timers are promoted, and a   *)
(* sleep with a timer armed may end at any time.  The order in which ready  *)
(* lanes are served is left open here; Wdrr models it.                      *)
(***************************************************************************)
EXTENDS Naturals, FiniteSets, SequencesExt

CONSTANTS
    Threads,       \* the threads with a buffer, the dispatcher's included
    DispatcherThread,
    Schedulers,    \* those of them that call scheduleEvent
    Compute,       \* monster workers: they only count a completion and notify
    Events,        \* the tasks
    Workloads,     \* those that are created together: one set in each behaviour
    NoEvent,       \* no task
    Kind,          \* "now" (addEvent, ...), "async" (addCreatureAsyncEvent),
                   \* "once" and "cycle" (scheduleEvent)
    LaneOf, TokenOf,
    Lanes,         \* every lane but WorkerCompletion
    BarrierLanes,  \* run in BarrierParallel mode
    FairLanes,     \* usesProducerFairness
    PlayerVisible, \* isPlayerVisible
    LaneCapacity,  \* DISPATCHER_LANE_QUEUE_CAPACITY: 16384
    AsyncReserve,  \* DISPATCHER_CREATURE_ASYNC_BUCKET_RESERVE: 32
    Budget,        \* laneTaskBudget, here one for all lanes
    MaxCompletions \* bound: completions published at a time

ASSUME ThreadsAssumption ==
    /\ IsFiniteSet(Threads) /\ IsFiniteSet(Events)
    /\ DispatcherThread \in Threads /\ Schedulers \subseteq Threads
    /\ Workloads \subseteq SUBSET Events
    /\ Threads \cap Compute = {} /\ NoEvent \notin Events
ASSUME EventsAssumption ==
    /\ Kind \in [Events -> {"now", "async", "once", "cycle"}]
    /\ LaneOf \in [Events -> Lanes] /\ TokenOf \in [Events -> Nat]
    /\ \A e \in Events : (Kind[e] = "async" => LaneOf[e] \in BarrierLanes)
                         /\ (Kind[e] \in {"once", "cycle"} => LaneOf[e] \notin BarrierLanes)
ASSUME BoundsAssumption ==
    /\ LaneCapacity \in Nat \ {0} /\ AsyncReserve \in Nat /\ Budget \in Nat \ {0}
    /\ MaxCompletions \in Nat
    /\ "WorkerCompletion" \notin Lanes

Timers == {e \in Events : Kind[e] \in {"once", "cycle"}}
Notifiers == Threads \cup Compute
Sources == Lanes \cup {"WorkerCompletion"}

VARIABLES
    at,            \* where a thread is in publishing
    cur,           \* the task it publishes
    unused,        \* the tasks nobody created yet
    buffer,        \* ThreadTask::tasks, a queue for each lane
    newTimers,     \* ThreadTask::scheduledTasks
    hasUnmerged, hasPending, shuttingDown,
    mainAt,        \* where the thread that calls shutdown is
    dpc,           \* where the dispatcher thread is in its loop
    afterMerge,    \* what follows the merge it is in
    left,          \* the buffers the merge or the check has still to lock
    ready,         \* m_tasks
    scheduled,     \* scheduledTasks
    registered,    \* the tasks of scheduledTasksRef
    idOf, lastId,  \* Task::id, LAST_EVENT_ID
    canceled,      \* func = nullptr
    slotted,       \* the tasks a slot is reserved for: dispatcherSlotReserved,
                   \* and between tryReserveLaneSlot and the adoption
    reserved,      \* reservedLaneSlots
    lane,          \* the lane of the slice that runs
    running,       \* the tasks that run
    served,        \* tasksExecuted
    exhausted,
    lastToken,     \* lastProducerTokens
    completions,   \* the completion count of MonsterComputeService
    accepted,      \* history: the immediate tasks of each thread that wait
    ahead,         \* history: those it published into a task's queue before it
    stopped        \* history: timers whose owner called stopEvent

threadVars == <<at, cur, unused, buffer, newTimers>>
flags == <<hasUnmerged, hasPending, shuttingDown, mainAt>>
loopVars == <<dpc, afterMerge, left>>
timerVars == <<scheduled, registered, idOf, lastId, canceled>>
slotVars == <<slotted, reserved>>
passVars == <<lane, running, served, exhausted, lastToken>>
history == <<accepted, ahead, stopped>>
vars == <<threadVars, flags, loopVars, ready, timerVars, slotVars, passVars,
          completions, history>>

(* Without creature work the workers are off: they have nothing to compute. *)
HasCreatures == \E e \in unused : Kind[e] = "async"

Init ==
    /\ unused \in Workloads
    /\ at = [t \in Notifiers |->
                IF t \in Threads \/ HasCreatures THEN "idle" ELSE "off"]
    /\ cur = [t \in Threads |-> NoEvent]
    /\ buffer = [t \in Threads |-> [l \in Lanes |-> <<>>]] /\ newTimers = [t \in Threads |-> {}]
    /\ hasUnmerged = FALSE /\ hasPending = FALSE /\ shuttingDown = FALSE
    /\ mainAt = "serving"
    /\ dpc = "top" /\ afterMerge = "promote" /\ left = {}
    /\ ready = [l \in Lanes |-> <<>>]
    /\ scheduled = {} /\ registered = {}
    /\ idOf = [e \in Events |-> 0] /\ lastId = 0 /\ canceled = {}
    /\ slotted = {} /\ reserved = [l \in Lanes |-> 0]
    /\ lane = "WorkerCompletion" /\ running = {}
    /\ served = [s \in Sources |-> 0] /\ exhausted = {}
    /\ lastToken = [l \in Lanes |-> 0]
    /\ completions = 0
    /\ accepted = [t \in Threads |-> {}] /\ ahead = [e \in Events |-> {}]
    /\ stopped = {}

-----------------------------------------------------------------------------
(* Publishing.  The dispatcher thread publishes from the tasks it runs.     *)

(* releaseDispatcherSlot: the tasks of a set give the slots back that they   *)
(* still hold.                                                              *)
MutRelease(S) ==
    /\ slotted' = slotted \ S
    /\ reserved' = [l \in Lanes |-> reserved[l] - Cardinality({e \in S : LaneOf[e] = l})]

MutReleaseNothing(S) == slotted' = slotted \ S /\ UNCHANGED reserved

Release(S) ==
    /\ slotted' = slotted \ S
    /\ reserved' = [l \in Lanes |->
                       reserved[l] - Cardinality({e \in S \cap slotted : LaneOf[e] = l})]

MayCall(t) == t = DispatcherThread => dpc = "running"

MutCapacityFor(e) == LaneCapacity + AsyncReserve

CapacityFor(e) == LaneCapacity + IF Kind[e] = "async" THEN AsyncReserve ELSE 0

(* The shuttingDown test and tryReserve; a rejected task changes nothing.   *)
(* No property tells a task admitted just before shutdown from one admitted *)
(* just after, so test and reservation are one step.                        *)
Admit(t, e) ==
    /\ at[t] = "idle" /\ MayCall(t)
    /\ e \in unused /\ (e \in Timers => t \in Schedulers)
    /\ ~shuttingDown /\ reserved[LaneOf[e]] < CapacityFor(e)
    /\ reserved' = [reserved EXCEPT ![LaneOf[e]] = @ + 1]
    /\ slotted' = slotted \cup {e}
    /\ unused' = unused \ {e}
    /\ cur' = [cur EXCEPT ![t] = e]
    /\ at' = [at EXCEPT ![t] = "admitted"]
    /\ UNCHANGED <<buffer, newTimers, flags, loopVars, ready, timerVars, passVars,
                   completions, history>>

(* Tasks whose order in their lane is that of their publication: in a lane  *)
(* with producer fairness, those of one token.                              *)
SameQueue(e, f) ==
    /\ LaneOf[e] = LaneOf[f]
    /\ LaneOf[e] \in FairLanes => TokenOf[e] = TokenOf[f]

(* Under the thread's mutex, which it keeps until it has notified.          *)
PushTask(t) ==
    /\ at[t] = "admitted" /\ cur[t] \notin Timers
    /\ buffer' = [buffer EXCEPT ![t][LaneOf[cur[t]]] = Append(@, cur[t])]
    /\ accepted' = [accepted EXCEPT ![t] = @ \cup {cur[t]}]
    /\ ahead' = [ahead EXCEPT ![cur[t]] = {f \in accepted[t] : SameQueue(f, cur[t])}]
    /\ at' = [at EXCEPT ![t] = "publishing"]
    /\ cur' = [cur EXCEPT ![t] = NoEvent]
    /\ UNCHANGED <<unused, newTimers, flags, loopVars, ready, timerVars, slotVars,
                   passVars, completions, stopped>>

(* The catch blocks: emplace_back threw.                                    *)
PushFails(t) ==
    /\ at[t] = "admitted" /\ cur[t] \notin Timers
    /\ Release({cur[t]})
    /\ at' = [at EXCEPT ![t] = "idle"] /\ cur' = [cur EXCEPT ![t] = NoEvent]
    /\ UNCHANGED <<unused, buffer, newTimers, flags, loopVars, ready, timerVars,
                   passVars, completions, history>>

(* Task::getId increments the shared counter and then reads it again.       *)
TakeNumber(t) ==
    /\ at[t] = "admitted" /\ cur[t] \in Timers
    /\ lastId' = lastId + 1
    /\ at' = [at EXCEPT ![t] = "numbering"]
    /\ UNCHANGED <<cur, unused, buffer, newTimers, flags, loopVars, ready, scheduled,
                   registered, idOf, canceled, slotVars, passVars, completions,
                   history>>

(* emplace into scheduledTasksRef registers no second task under one id.    *)
PushTimer(t) ==
    /\ at[t] = "numbering"
    /\ idOf' = [idOf EXCEPT ![cur[t]] = lastId]
    /\ registered' = IF \E f \in registered : idOf[f] = lastId
                     THEN registered ELSE registered \cup {cur[t]}
    /\ newTimers' = [newTimers EXCEPT ![t] = @ \cup {cur[t]}]
    /\ at' = [at EXCEPT ![t] = "publishing"]
    /\ cur' = [cur EXCEPT ![t] = NoEvent]
    /\ UNCHANGED <<unused, buffer, flags, loopVars, ready, scheduled, lastId, canceled,
                   slotVars, passVars, completions, history>>

(* notifyThreadTaskPublished and notify.                                    *)
SetUnmerged(t) ==
    /\ at[t] = "publishing"
    /\ hasUnmerged' = TRUE
    /\ at' = [at EXCEPT ![t] = "notifying"]
    /\ UNCHANGED <<cur, unused, buffer, newTimers, hasPending, shuttingDown, mainAt,
                   loopVars, ready, timerVars, slotVars, passVars, completions, history>>

Notify(t) ==
    /\ at[t] = "notifying"
    /\ at' = [at EXCEPT ![t] = IF hasPending THEN "idle" ELSE "signalling"]
    /\ UNCHANGED <<cur, unused, buffer, newTimers, flags, loopVars, ready, timerVars,
                   slotVars, passVars, completions, history>>

SetPending(t) ==
    /\ at[t] = "signalling"
    /\ hasPending' = TRUE
    /\ at' = [at EXCEPT ![t] = "waking"]
    /\ UNCHANGED <<cur, unused, buffer, newTimers, hasUnmerged, shuttingDown, mainAt,
                   loopVars, ready, timerVars, slotVars, passVars, completions, history>>

(* notify_one: the sleeping dispatcher tests its predicate again; a         *)
(* dispatcher that is not yet blocked does not notice.                      *)
Woken == IF dpc = "blocked" THEN "predicate" ELSE dpc

WakeDispatcher(t) ==
    /\ at[t] = "waking"
    /\ dpc' = Woken
    /\ at' = [at EXCEPT ![t] = "idle"]
    /\ UNCHANGED <<cur, unused, buffer, newTimers, flags, afterMerge, left, ready,
                   timerVars, slotVars, passVars, completions, history>>

Publishes(t) == PushTimer(t) \/ SetUnmerged(t) \/ Notify(t) \/ SetPending(t) \/ WakeDispatcher(t)

(* A monster worker has published a completion and calls the notifier.      *)
PublishCompletion(c) ==
    /\ at[c] = "idle" /\ completions < MaxCompletions
    /\ completions' = completions + 1
    /\ at' = [at EXCEPT ![c] = "notifying"]
    /\ UNCHANGED <<cur, unused, buffer, newTimers, flags, loopVars, ready, timerVars,
                   slotVars, passVars, history>>

(* Task::cancel.                                                            *)
MutCancel(S) == canceled
Cancel(S) == canceled \cup S

(* stopEvent, called from game code on the dispatcher thread: the id leads  *)
(* to the task registered under it.                                         *)
StopEvent(e) ==
    /\ dpc = "running" /\ at[DispatcherThread] = "idle"
    /\ idOf[e] # 0 /\ e \notin stopped
    /\ stopped' = stopped \cup {e}
    /\ LET found == {f \in registered : idOf[f] = idOf[e]} IN
         /\ canceled' = Cancel(found)
         /\ registered' = registered \ found
         /\ Release(found)
    /\ UNCHANGED <<threadVars, flags, loopVars, ready, scheduled, idOf, lastId,
                   passVars, completions, accepted, ahead>>

-----------------------------------------------------------------------------
(* shutdown: the flag, then notify_all.                                     *)

BeginShutdown ==
    /\ mainAt = "serving"
    /\ shuttingDown' = TRUE /\ mainAt' = "notifying"
    /\ UNCHANGED <<threadVars, hasUnmerged, hasPending, loopVars, ready, timerVars,
                   slotVars, passVars, completions, history>>

EndShutdown ==
    /\ mainAt = "notifying"
    /\ mainAt' = "done" /\ dpc' = Woken
    /\ UNCHANGED <<threadVars, hasUnmerged, hasPending, shuttingDown, afterMerge, left,
                   ready, timerVars, slotVars, passVars, completions, history>>

-----------------------------------------------------------------------------
(* The loop of the dispatcher thread.                                       *)

MutGoesOn == TRUE
GoesOn == ~shuttingDown

LoopTop ==
    /\ dpc = "top"
    /\ dpc' = IF GoesOn THEN "merge" ELSE "ended"
    /\ afterMerge' = "promote"
    /\ UNCHANGED <<threadVars, flags, left, ready, timerVars, slotVars, passVars,
                   completions, history>>

(* mergeEvents: the exchange, then each buffer under its mutex.  Buffers    *)
(* are visited in one fixed order in the code, in any order here.           *)
BeginMerge ==
    /\ dpc = "merge"
    /\ hasUnmerged' = FALSE
    /\ IF hasUnmerged THEN left' = Threads /\ dpc' = "merging"
                      ELSE left' = {} /\ dpc' = afterMerge
    /\ UNCHANGED <<threadVars, hasPending, shuttingDown, mainAt, afterMerge, ready,
                   timerVars, slotVars, passVars, completions, history>>

Locked(t) == at[t] \in {"numbering", "publishing", "notifying", "signalling", "waking"}

MutMergeThread(t) ==
    /\ dpc = "merging" /\ t \in left /\ ~Locked(t)
    /\ ready' = [l \in Lanes |-> ready[l] \o buffer[t][l]]
    /\ buffer' = [buffer EXCEPT ![t] = [l \in Lanes |-> <<>>]]
    /\ scheduled' = scheduled \cup newTimers[t]
    /\ newTimers' = [newTimers EXCEPT ![t] = {}]
    /\ left' = left \ {t}
    /\ dpc' = IF left = {t} THEN afterMerge ELSE "merging"
    /\ hasUnmerged' = (hasUnmerged /\ left # {t})
    /\ UNCHANGED <<at, cur, unused, hasPending, shuttingDown, mainAt, afterMerge,
                   registered, idOf, lastId, canceled, slotVars, passVars,
                   completions, history>>

MergeThread(t) ==
    /\ dpc = "merging" /\ t \in left /\ ~Locked(t)
    /\ ready' = [l \in Lanes |-> ready[l] \o buffer[t][l]]
    /\ buffer' = [buffer EXCEPT ![t] = [l \in Lanes |-> <<>>]]
    /\ scheduled' = scheduled \cup newTimers[t]
    /\ newTimers' = [newTimers EXCEPT ![t] = {}]
    /\ left' = left \ {t}
    /\ dpc' = IF left = {t} THEN afterMerge ELSE "merging"
    /\ UNCHANGED <<at, cur, unused, flags, afterMerge, registered, idOf, lastId,
                   canceled, slotVars, passVars, completions, history>>

(* scheduledTasks.erase of what was promoted.                               *)
MutUndue(due) == scheduled
Undue(due) == scheduled \ due

(* The ways to put the members of a set in a row.                           *)
Orders(S) ==
    {q \in [1..Cardinality(S) -> S] :
        \A e \in S : \E i \in DOMAIN q : \A j \in DOMAIN q : q[j] = e <=> j = i}

(* promoteScheduledEvents: the due timers, in an order of their own, join   *)
(* their lanes.  The first promotion of a round is followed by the pass,    *)
(* the second by checkPendingTasks.                                         *)
Promote(due) ==
    /\ dpc \in {"promote", "promoteAgain"}
    /\ due \subseteq scheduled
    /\ scheduled' = Undue(due)
    /\ LET DueOf(l) == {e \in due : LaneOf[e] = l} IN
       \E order \in [Lanes -> UNION {Orders(DueOf(l)) : l \in Lanes}] :
         /\ \A l \in Lanes : order[l] \in Orders(DueOf(l))
         /\ ready' = [l \in Lanes |-> ready[l] \o order[l]]
    /\ IF dpc = "promote"
       THEN /\ dpc' = "select"
            /\ served' = [s \in Sources |-> 0] /\ exhausted' = {}
       ELSE dpc' = "check" /\ UNCHANGED <<served, exhausted>>
    /\ UNCHANGED <<threadVars, flags, afterMerge, left, registered, idOf, lastId,
                   canceled, slotVars, lane, running, lastToken, completions, history>>

-----------------------------------------------------------------------------
(* executeReadyEvents: slices of lanes until every lane is empty, out of    *)
(* budget or exhausted.                                                     *)

Eligible(s) ==
    /\ s \notin exhausted /\ served[s] < Budget
    /\ IF s \in Lanes THEN ready[s] # <<>> ELSE completions > 0

EndPass ==
    /\ dpc = "select" /\ \A s \in Sources : ~Eligible(s)
    /\ dpc' = "merge" /\ afterMerge' = "promoteAgain"
    /\ UNCHANGED <<threadVars, flags, left, ready, timerVars, slotVars, passVars,
                   completions, history>>

(* selectProducerFairIndex: the next token after the last served one, or    *)
(* the smallest when there is none; its first task.                         *)
MutFairIndex(q, last) ==
    LET tokens == {TokenOf[q[i]] : i \in DOMAIN q}
        beyond == {k \in tokens : k > last}
        chosen == Min(IF beyond # {} THEN beyond ELSE tokens)
    IN  Max({i \in DOMAIN q : TokenOf[q[i]] = chosen})

FairIndex(q, last) ==
    LET tokens == {TokenOf[q[i]] : i \in DOMAIN q}
        beyond == {k \in tokens : k > last}
        chosen == Min(IF beyond # {} THEN beyond ELSE tokens)
    IN  Min({i \in DOMAIN q : TokenOf[q[i]] = chosen})

NextIndex(l) == IF l \in FairLanes THEN FairIndex(ready[l], lastToken[l]) ELSE 1

(* Tasks leave their lane and start.  A task that has expired or a canceled *)
(* timer is dropped instead.  The code takes a serial task off the queue    *)
(* after it has run; only the dispatcher thread looks there.                *)
Start(S, dropped) ==
    /\ dropped \subseteq S
    /\ running' = S \ dropped
    /\ accepted' = [t \in Threads |-> accepted[t] \ S]
    /\ dpc' = "running"

MayExpire(e) == e \notin Timers /\ LaneOf[e] \notin BarrierLanes

(* scheduledTasksRef.erase(id).                                             *)
Forget(S) == registered' = {f \in registered : \A e \in S : idOf[f] # idOf[e]}

(* A task keeps its slot as long as it may run again.                       *)
MutKeepsSlot(e) == e \in Timers /\ e \notin canceled
KeepsSlot(e) == Kind[e] = "cycle" /\ e \notin canceled

(* One task of executeSerialLane.  A timer that fires once gives its slot   *)
(* and its id back before it runs, a cycle keeps them (executeScheduledTask).*)
RunSerial(l) ==
    /\ dpc = "select" \/ (dpc = "slice" /\ l = lane)
    /\ l \in Lanes \ BarrierLanes /\ Eligible(l)
    /\ LET e == ready[l][NextIndex(l)] IN
         /\ ready' = [ready EXCEPT ![l] = RemoveAt(@, NextIndex(l))]
         /\ lastToken' = [lastToken EXCEPT ![l] = TokenOf[e]]
         /\ \/ Start({e}, {e} \cap canceled)
            \/ MayExpire(e) /\ Start({e}, {e})
         /\ IF KeepsSlot(e)
            THEN UNCHANGED <<slotVars, registered>>
            ELSE Release({e}) /\ Forget({e} \cap Timers)
    /\ lane' = l /\ served' = [served EXCEPT ![l] = @ + 1]
    /\ UNCHANGED <<threadVars, flags, afterMerge, left, scheduled, idOf, lastId,
                   canceled, exhausted, completions, ahead, stopped>>

(* executeBarrierLane: the first n tasks run at once on the pool.           *)
RunBarrier(l) ==
    /\ dpc = "select" /\ l \in BarrierLanes /\ Eligible(l)
    /\ \E n \in 1..Min({Len(ready[l]), Budget - served[l]}) :
         /\ ready' = [ready EXCEPT ![l] = SubSeq(@, n + 1, Len(@))]
         /\ Release({ready[l][i] : i \in 1..n})
         /\ Start({ready[l][i] : i \in 1..n}, {})
         /\ served' = [served EXCEPT ![l] = @ + n]
    /\ lane' = l
    /\ UNCHANGED <<threadVars, flags, afterMerge, left, timerVars, exhausted,
                   lastToken, completions, ahead, stopped>>

(* executeWorkerCompletionLane: n completions run.                          *)
RunCompletions ==
    /\ dpc = "select" /\ Eligible("WorkerCompletion")
    /\ \E n \in 1..Min({completions, Budget - served["WorkerCompletion"]}) :
         /\ completions' = completions - n
         /\ served' = [served EXCEPT !["WorkerCompletion"] = @ + n]
    /\ lane' = "WorkerCompletion" /\ dpc' = "running"
    /\ UNCHANGED <<threadVars, flags, afterMerge, left, ready, timerVars, slotVars,
                   running, exhausted, lastToken, history>>

(* The tasks return; a cycle that nobody canceled is scheduled again.  The  *)
(* slice goes on, or ends in a merge; a lane of background work may be out  *)
(* of its time for this pass.                                               *)
Finish ==
    /\ dpc = "running" /\ at[DispatcherThread] = "idle"
    /\ LET cycles == {e \in running : Kind[e] = "cycle"} IN
         /\ scheduled' = scheduled \cup (cycles \ canceled)
         /\ Forget(cycles \cap canceled) /\ Release(cycles \cap canceled)
    /\ running' = {}
    /\ \/ /\ lane \in Lanes \ BarrierLanes /\ Eligible(lane)
          /\ dpc' = "slice" /\ UNCHANGED <<exhausted, afterMerge>>
       \/ /\ dpc' = "merge" /\ afterMerge' = "select"
          /\ \/ UNCHANGED exhausted
             \/ /\ lane \in Lanes \ (BarrierLanes \cup PlayerVisible)
                /\ exhausted' = exhausted \cup {lane}
    /\ UNCHANGED <<threadVars, flags, left, ready, idOf, lastId, canceled, lane,
                   served, lastToken, completions, history>>

-----------------------------------------------------------------------------
(* checkPendingTasks and the sleep.                                         *)

ResetPending ==
    /\ dpc = "check"
    /\ hasPending' = FALSE /\ dpc' = "inspect"
    /\ UNCHANGED <<threadVars, hasUnmerged, shuttingDown, mainAt, afterMerge, left,
                   ready, timerVars, slotVars, passVars, completions, history>>

MutInspectOwn ==
    /\ dpc = "inspect"
    /\ dpc' = (IF completions > 0 \/ \E l \in Lanes : ready[l] # <<>>
               THEN "pending" ELSE "predicate")
    /\ UNCHANGED <<threadVars, flags, afterMerge, left, ready, timerVars, slotVars,
                   passVars, completions, history>>

InspectOwn ==
    /\ dpc = "inspect"
    /\ IF completions > 0 \/ \E l \in Lanes : ready[l] # <<>>
       THEN dpc' = "pending" /\ left' = {}
       ELSE dpc' = "inspecting" /\ left' = Threads
    /\ UNCHANGED <<threadVars, flags, afterMerge, ready, timerVars, slotVars,
                   passVars, completions, history>>

HasWork(t) == (\E l \in Lanes : buffer[t][l] # <<>>) \/ newTimers[t] # {}

InspectThread(t) ==
    /\ dpc = "inspecting" /\ t \in left /\ ~Locked(t)
    /\ \/ HasWork(t) /\ left' = {} /\ dpc' = "pending"
       \/ /\ ~HasWork(t) /\ left' = left \ {t}
          /\ dpc' = IF left = {t} THEN "predicate" ELSE "inspecting"
    /\ UNCHANGED <<threadVars, flags, afterMerge, ready, timerVars, slotVars,
                   passVars, completions, history>>

KeepPending ==
    /\ dpc = "pending"
    /\ hasPending' = TRUE /\ dpc' = "top"
    /\ UNCHANGED <<threadVars, hasUnmerged, shuttingDown, mainAt, afterMerge, left,
                   ready, timerVars, slotVars, passVars, completions, history>>

(* The predicate of wait_for.  dummyMutex is held from the test until the   *)
(* thread blocks, but no notifier takes it.                                 *)
TestPredicate ==
    /\ dpc = "predicate"
    /\ dpc' = IF hasPending \/ shuttingDown THEN "top" ELSE "blocking"
    /\ UNCHANGED <<threadVars, flags, afterMerge, left, ready, timerVars, slotVars,
                   passVars, completions, history>>

Block ==
    /\ dpc = "blocking" /\ dpc' = "blocked"
    /\ UNCHANGED <<threadVars, flags, afterMerge, left, ready, timerVars, slotVars,
                   passVars, completions, history>>

(* The time of the next timer has come.  With none armed the timeout is     *)
(* milliseconds::max(): added to the clock it overflows, so a build either  *)
(* returns at once or sleeps until it is notified.                          *)
Timeout ==
    /\ dpc = "blocked" /\ dpc' = "top"
    /\ UNCHANGED <<threadVars, flags, afterMerge, left, ready, timerVars, slotVars,
                   passVars, completions, history>>

-----------------------------------------------------------------------------

LoopNext ==
    \/ LoopTop \/ BeginMerge \/ (\E t \in Threads : MergeThread(t))
    \/ (\E due \in SUBSET Timers : Promote(due))
    \/ EndPass \/ (\E l \in Lanes : RunSerial(l) \/ RunBarrier(l)) \/ RunCompletions
    \/ Finish
    \/ ResetPending \/ InspectOwn \/ (\E t \in Threads : InspectThread(t))
    \/ KeepPending \/ TestPredicate \/ Block

ThreadNext(t) ==
    (\E e \in Events : Admit(t, e)) \/ PushTask(t) \/ PushFails(t) \/ TakeNumber(t)
        \/ Publishes(t)

ComputeNext(c) == PublishCompletion(c) \/ Notify(c) \/ SetPending(c) \/ WakeDispatcher(c)

Next ==
    \/ LoopNext \/ Timeout
    \/ \E t \in Threads : ThreadNext(t)
    \/ \E c \in Compute : ComputeNext(c)
    \/ \E e \in Timers : StopEvent(e)
    \/ BeginShutdown \/ EndShutdown

Spec == Init /\ [][Next]_vars

(***************************************************************************)
(* Threads run: a call that publishes goes on, the loop goes on (every      *)
(* holder of a buffer's mutex lets go of it), tasks return, and an armed    *)
(* timer ends a sleep and is due at some promotion.                         *)
(***************************************************************************)
Fairness ==
    /\ WF_vars(LoopNext) /\ WF_vars(Timeout /\ scheduled # {})
    /\ \A t \in Threads : WF_vars(PushTask(t) \/ TakeNumber(t) \/ Publishes(t))
    /\ \A c \in Compute : WF_vars(Notify(c) \/ SetPending(c) \/ WakeDispatcher(c))
    /\ \A e \in Timers : SF_vars(\E due \in SUBSET Timers : e \in due /\ Promote(due))
    /\ WF_vars(EndShutdown)

FairSpec == Spec /\ Fairness

-----------------------------------------------------------------------------
(* Properties.                                                              *)

LoopStates == {"top", "merge", "merging", "promote", "select", "slice", "running",
               "promoteAgain", "check", "inspect", "inspecting", "pending",
               "predicate", "blocking", "blocked", "ended"}

TypeOK ==
    /\ at \in [Notifiers -> {"off", "idle", "admitted", "numbering", "publishing",
                              "notifying", "signalling", "waking"}]
    /\ cur \in [Threads -> Events \cup {NoEvent}]
    /\ unused \subseteq Events
    /\ buffer \in [Threads -> [Lanes -> Seq(Events)]] /\ newTimers \in [Threads -> SUBSET Timers]
    /\ hasUnmerged \in BOOLEAN /\ hasPending \in BOOLEAN /\ shuttingDown \in BOOLEAN
    /\ mainAt \in {"serving", "notifying", "done"}
    /\ dpc \in LoopStates /\ afterMerge \in {"promote", "select", "promoteAgain"}
    /\ left \subseteq Threads
    /\ ready \in [Lanes -> Seq(Events)]
    /\ scheduled \subseteq Timers /\ registered \subseteq Timers
    /\ idOf \in [Events -> Nat] /\ lastId \in Nat /\ canceled \subseteq Timers
    /\ slotted \subseteq Events /\ reserved \in [Lanes -> Nat]
    /\ lane \in Sources /\ running \subseteq Events
    /\ served \in [Sources -> 0..Budget] /\ exhausted \subseteq Lanes
    /\ lastToken \in [Lanes -> Nat]
    /\ completions \in Nat
    /\ accepted \in [Threads -> SUBSET Events] /\ ahead \in [Events -> SUBSET Events]
    /\ stopped \subseteq Timers

Holders(l) == {e \in slotted : LaneOf[e] = l}

(* Where a task can be.                                                     *)
At(queues, e) ==
    UNION {{q} \X {i \in DOMAIN queues[q] : queues[q][i] = e} : q \in DOMAIN queues}
Buffered(e) == UNION {{t} \X At(buffer[t], e) : t \in Threads}
Queued(e) == At(ready, e)
InCall(e) == {t \in Threads : cur[t] = e}
New(e) == {t \in Threads : e \in newTimers[t]}

Places(e) ==
    {"buffer"} \X Buffered(e) \cup {"lane"} \X Queued(e)
        \cup {"call"} \X InCall(e) \cup {"timer"} \X New(e)
        \cup {p \in {<<"scheduled">>} : e \in scheduled}
        \cup {p \in {<<"running">>} : e \in running}

Armed(e) == e \in scheduled \/ New(e) # {}
Waiting(e) == Buffered(e) # {} \/ Queued(e) # {} \/ Armed(e)

(***************************************************************************)
(* The admission counter of every lane is the number of tasks that hold one *)
(* of its slots, whether they start, expire, are canceled or fail to be     *)
(* pushed; the assert of releaseLaneSlot follows.                           *)
(***************************************************************************)
SlotsMatch == \A l \in Lanes : reserved[l] = Cardinality(Holders(l))

(***************************************************************************)
(* An accepted task waits in exactly one place until it starts, a timer     *)
(* that stopEvent can find exists, nothing is ever in two places, and a     *)
(* task that is gone holds no slot: a leaked one would shrink its lane for  *)
(* good.                                                                    *)
(***************************************************************************)
OnePlace ==
    /\ TypeOK
    /\ \A e \in slotted : Places(e) # {}
    /\ \A e \in Events : Cardinality(Places(e)) <= 1
    /\ \A e \in unused : Places(e) = {}
    /\ \A t \in Threads : \A e \in accepted[t] : Buffered(e) # {} \/ Queued(e) # {}
    /\ \A e \in registered : Armed(e) \/ Queued(e) # {} \/ e \in running

(***************************************************************************)
(* A buffer that holds work is never skipped by the next merge: the flag is *)
(* up, or its publisher is about to raise it, or the merge that took the    *)
(* flag down has still to lock it.                                          *)
(***************************************************************************)
MergeFinds ==
    \A t \in Threads : HasWork(t) =>
        hasUnmerged \/ at[t] = "publishing" \/ (dpc = "merging" /\ t \in left)

(***************************************************************************)
(* The dispatcher does not go to sleep on work: whatever was published      *)
(* before the sleep, the flag is up or a notifier has still to look at it   *)
(* (the race checkPendingTasks closes by looking again after its reset).    *)
(***************************************************************************)
SleepSeesWork ==
    dpc \in {"blocking", "blocked"} =>
        /\ \A l \in Lanes : ready[l] = <<>>
        /\ completions > 0 \/ (\E t \in Threads : HasWork(t)) =>
              \/ hasPending
              \/ \E n \in Notifiers : at[n] \in {"publishing", "notifying", "signalling"}

(***************************************************************************)
(* As long as fewer creature buckets hold a slot than are reserved for      *)
(* them, the next bucket is admitted however full of ordinary work its lane *)
(* is (parallel-monster-ai-roadmap.md: "so ordinary lane work cannot strand *)
(* a bucket continuation").                                                 *)
(***************************************************************************)
BucketRoom ==
    \A e \in Events : Kind[e] = "async" =>
        LET buckets == {f \in Holders(LaneOf[e]) : Kind[f] = "async"} IN
        Cardinality(buckets) < AsyncReserve => reserved[LaneOf[e]] < CapacityFor(e)

(***************************************************************************)
(* Tasks that one thread publishes into one lane start in the order of      *)
(* their publication; in a lane with producer fairness, those of one token. *)
(***************************************************************************)
OrderKept ==
    [][\A t \in Threads : \A e \in accepted[t] \ accepted'[t] :
          ahead[e] \cap accepted'[t] = {}]_vars

(* A timer never runs again once stopEvent has been called with its id.     *)
StoppedNeverRuns == [][(running' \ running) \cap stopped = {}]_vars

(***************************************************************************)
(* As long as some timer is armed again and again (the recurring game       *)
(* events), every published task and every timer starts or is dropped,      *)
(* unless the dispatcher is shut down.                                      *)
(***************************************************************************)
EveryTaskLeaves == \A e \in Events : Waiting(e) ~> ~Waiting(e) \/ shuttingDown

LeavesWhileTicking == []<>(scheduled # {}) => EveryTaskLeaves

(* shutdown ends the loop, likewise.                                        *)
LoopEnds == []<>(scheduled # {} \/ dpc = "ended") => (shuttingDown ~> dpc = "ended")
=============================================================================
