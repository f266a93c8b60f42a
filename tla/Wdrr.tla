-------------------------------- MODULE Wdrr --------------------------------
(***************************************************************************)
(* DispatcherWeightedDeficitRoundRobin (src/game/scheduling/                *)
(* dispatcher_wdrr.cpp): which ready lane the dispatcher serves next.  Each *)
(* turn of a lane adds its quantum to its deficit, and the lane is selected *)
(* while the deficit pays for its next task.                                *)
(*                                                                         *)
(* A step of the dispatcher is a selection followed by what                 *)
(* executeReadyEvents does with it: consume the cost of the tasks it ran,   *)
(* and resetLane when the lane is exhausted for this pass.  Which lanes are *)
(* ready, how costly their next tasks are and which have aged is the        *)
(* environment's choice at every selection.                                 *)
(***************************************************************************)
EXTENDS Naturals, FiniteSetsExt, Functions

CONSTANTS
    LaneCount,
    MaxTaskCost,  \* DISPATCHER_MAX_TASK_COST: 32
    Quantum,      \* laneQuantum, of each lane: at most MaxTaskCost
    Costs         \* the costs tasks have: Task::setEstimatedCost clamps them

LaneIds == 0..(LaneCount - 1)
None == LaneCount
MaxDeficit == MaxTaskCost * 4

VARIABLES
    deficits, cursor, currentLaneActive,
    lane,   \* the lane selected last, while its slice runs
    ready,  \* history: the lanes ready at the last selection
    bypass  \* history: cost others consumed while a lane stayed ready

vars == <<deficits, cursor, currentLaneActive, lane, ready, bypass>>

-----------------------------------------------------------------------------
(* agedQuantum: twice the base once the lane's next task is older than the  *)
(* SLO, never more than a task may cost.                                    *)
AgedQuantum(l, aged) ==
    IF l \in aged THEN Min({MaxTaskCost, 2 * Quantum[l]}) ELSE Quantum[l]

(* Attempt k of selectLane looks at one lane; the cursor moves round.       *)
MutVisited(k) == cursor + k
Visited(k) == (cursor + k) % LaneCount

(* The loop bound of selectLane.                                            *)
MutAttempts == LaneCount
Attempts == LaneCount * MaxTaskCost

(* How often lane l was visited in the attempts 0..k, and how many of these *)
(* visits began a turn: the first one does not when the lane at the cursor  *)
(* is in its turn already.                                                  *)
Visits(l, k) ==
    LET first == (l + LaneCount - cursor) % LaneCount
    IN  IF k < first THEN 0 ELSE (k - first) \div LaneCount + 1

Turns(l, k) == Visits(l, k) - IF l = cursor /\ currentLaneActive THEN 1 ELSE 0

(* The deficit of a lane after attempt k: every turn added the quantum, and *)
(* a visit to a lane that is not ready cleared it.                          *)
DeficitAfter(l, k, input) ==
    IF l \in input.ready
    THEN Min({deficits[l] + Turns(l, k) * input.quantum[l], MaxDeficit})
    ELSE IF Visits(l, k) > 0 THEN 0 ELSE deficits[l]

(* Attempt k selects when the deficit pays for the lane's next task.        *)
Selects(k, input) ==
    /\ Visited(k) \in input.ready
    /\ DeficitAfter(Visited(k), k, input) >= input.cost[Visited(k)]

(* selectLane: the first attempt that selects ends it; when none does, the  *)
(* cursor has gone round and no lane is in its turn.                        *)
SelectLane(input) ==
    LET selecting == {k \in 0..(Attempts - 1) : Selects(k, input)}
        last == IF selecting = {} THEN Attempts - 1 ELSE Min(selecting)
    IN  /\ deficits' = [l \in LaneIds |-> DeficitAfter(l, last, input)]
        /\ currentLaneActive' = (selecting # {})
        /\ IF selecting = {} THEN lane' = None /\ cursor' = Visited(Attempts)
                             ELSE lane' = Visited(last) /\ cursor' = lane'

-----------------------------------------------------------------------------

Init ==
    /\ deficits = [l \in LaneIds |-> 0] /\ cursor = 0 /\ currentLaneActive = FALSE
    /\ lane = None /\ ready = {} /\ bypass = [l \in LaneIds |-> 0]

Select ==
    /\ lane = None
    /\ \E now \in SUBSET LaneIds : \E aged \in SUBSET now, cost \in [now -> Costs] :
         /\ SelectLane([ready |-> now, cost |-> cost,
                         quantum |-> [l \in now |-> AgedQuantum(l, aged)]])
         /\ ready' = now
         /\ bypass' = [l \in LaneIds |-> IF l \in now THEN bypass[l] ELSE 0]

(* consume, after a slice whose tasks cost c; the deficit paid for them.    *)
Consume(c) == deficits' = [deficits EXCEPT ![lane] = @ - Min({@, c})]

Bypass(c) == bypass' = [l \in LaneIds |->
                          IF l = lane \/ l \notin ready THEN 0 ELSE bypass[l] + c]

EndSlice ==
    /\ lane # None
    /\ \E c \in 1..deficits[lane] : Consume(c) /\ Bypass(c)
    /\ lane' = None
    /\ UNCHANGED <<cursor, currentLaneActive, ready>>

(* resetLane after the slice: the lane is out of its time for this pass, or *)
(* it ran nothing.                                                          *)
ExhaustLane ==
    /\ lane # None
    /\ \E c \in 0..deficits[lane] : Bypass(c)
    /\ deficits' = [deficits EXCEPT ![lane] = 0]
    /\ IF lane = cursor
       THEN currentLaneActive' = FALSE /\ cursor' = (cursor + 1) % LaneCount
       ELSE UNCHANGED <<cursor, currentLaneActive>>
    /\ lane' = None
    /\ UNCHANGED ready

Next == Select \/ EndSlice \/ ExhaustLane

Spec == Init /\ [][Next]_vars

-----------------------------------------------------------------------------
(* Properties.                                                              *)

TypeOK ==
    /\ deficits \in [LaneIds -> 0..MaxDeficit]
    /\ cursor \in LaneIds /\ currentLaneActive \in BOOLEAN
    /\ lane \in LaneIds \cup {None}
    /\ ready \subseteq LaneIds /\ bypass \in [LaneIds -> Nat]

(***************************************************************************)
(* A lane that stays ready is not starved: before it is served, another     *)
(* lane is served no more than its aged quantum for each turn the ready     *)
(* lane needs to save for its task, and what it had saved itself.           *)
(***************************************************************************)
Share == [k \in LaneIds |-> Max(Costs) * AgedQuantum(k, LaneIds) + (Max(Costs) - 1)]

NoStarvation ==
    \A l \in LaneIds : bypass[l] <= SumFunctionOnSet(Share, LaneIds \ {l})

(***************************************************************************)
(* Whatever was consumed and reset before, the attempts are enough to       *)
(* select a lane when one is ready (executeReadyEvents ends the pass on     *)
(* nullopt), provided a task costs less than the most a task may cost: the  *)
(* lane at the cursor may have begun its turn with nothing left, and then   *)
(* one of the attempts adds no quantum.                                     *)
(***************************************************************************)
SelectsWhenReady ==
    [][lane = None /\ ready' # {} => lane' # None]_vars
=============================================================================
