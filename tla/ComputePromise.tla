--------------------------- MODULE ComputePromise ---------------------------
(***************************************************************************)
(* What MonsterComputeService promises its users, the monsters and the      *)
(* dispatcher: a job that is accepted waits, is executed once and is served *)
(* once, in that order; background jobs leave room for visible ones; only   *)
(* closing the service cancels jobs, and no job survives the closing.       *)
(***************************************************************************)
EXTENDS Naturals, FiniteSets

CONSTANTS Request, Capacity, VisibleReserve

VARIABLES
    phase,    \* closed, open, closing
    waiting,  \* jobs accepted and not executed yet
    ready     \* jobs executed whose completion has not run to its end

vars == <<phase, waiting, ready>>

Jobs == waiting \cup ready

HasRoomFor(job) ==
    /\ Cardinality(Jobs) < Capacity
    /\ job.priority = "Background" =>
         Cardinality({j \in Jobs : j.priority = "Background"})
             < Capacity - VisibleReserve

Init == phase = "closed" /\ waiting = {} /\ ready = {}

(* Opening may fail half-way, and then the service closes again.            *)
Open ==
    /\ phase = "closed"
    /\ phase' \in {"open", "closing"}
    /\ UNCHANGED <<waiting, ready>>

Accept(job) ==
    /\ phase = "open" /\ job \notin Jobs /\ HasRoomFor(job)
    /\ waiting' = waiting \cup {job}
    /\ UNCHANGED <<phase, ready>>

Execute(job) ==
    /\ job \in waiting
    /\ waiting' = waiting \ {job}
    /\ ready' = ready \cup {job}
    /\ UNCHANGED phase

Serve(job) ==
    /\ job \in ready
    /\ ready' = ready \ {job}
    /\ UNCHANGED <<phase, waiting>>

Close ==
    /\ phase = "open" /\ phase' = "closing"
    /\ waiting' \in SUBSET waiting
    /\ UNCHANGED ready

Closed ==
    /\ phase = "closing" /\ waiting = {}
    /\ phase' = "closed" /\ ready' = {}
    /\ UNCHANGED waiting

Next ==
    \/ Open \/ Close \/ Closed
    \/ \E job \in Request : Accept(job) \/ Execute(job) \/ Serve(job)

Spec == Init /\ [][Next]_vars
=============================================================================
