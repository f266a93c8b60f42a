---------------------------- MODULE MCDispatcher ----------------------------
(* Instances of Dispatcher for TLC: which tasks exist, how they are added,  *)
(* where they go, and which of them are created together.                   *)
EXTENDS Dispatcher

CONSTANTS d, p, c, a1, a2, a3, b1, b2, b3, b4, m1, t1, t2, t3, w1

Tasks == {a1, a2, a3, b1, b2, b3, b4, m1, t1, t2, t3, w1}

TaskKind == [e \in Tasks |-> CASE e = b4 -> "async"
                               [] e \in {t1, t3} -> "cycle"
                               [] e = t2 -> "once"
                               [] OTHER -> "now"]

TaskLane == [e \in Tasks |-> CASE e \in {a1, a2, a3} -> "PlayerAction"
                               [] e \in {b1, b2, b3, b4} -> "MonsterAI"
                               [] e \in {m1, t1} -> "Deferred"
                               [] OTHER -> "WorldCommit"]

TaskToken == [e \in Tasks |-> IF e \in {a1, a2} THEN 1 ELSE IF e = a3 THEN 2 ELSE 0]

(* A task, one of the pool and a recurring timer; creature work, and with it *)
(* the workers, beside a timer and beside a task; two tasks of one connection *)
(* and one of another; two timers and a task; more ordinary work than a      *)
(* barrier lane takes.                                                       *)
Several == {{m1, b1, t1}, {b4, t1}, {m1, b4}, {a1, a2, a3}, {w1, t2, t3}, {b1, b2, b3}}

(* A task of the pool beside a recurring one, and one task alone.           *)
Ticking == {{b1, t1}}
Lone == {{w1}}
=============================================================================
