--------------------------- MODULE DbTransaction ---------------------------
(***************************************************************************)
(* Database and DBTransaction (src/database/database.cpp, database.hpp):    *)
(* threads share one connection to the MySQL server.  A query holds the     *)
(* databaseLock while it runs; a transaction sends BEGIN as such a query,   *)
(* takes the lock afterwards and keeps it until COMMIT or ROLLBACK.         *)
(*                                                                         *)
(* The server is external: it applies a write to the open transaction of    *)
(* the session, or at once when there is none, and forgets the transaction  *)
(* when the connection is lost.  The lock is recursive, but no transaction  *)
(* of the program is nested in another.                                     *)
(***************************************************************************)
EXTENDS Naturals, FiniteSets

CONSTANTS
    Threads, Nobody,
    Modes,            \* which of the two execute functions are called
    Statements,       \* how many writes a transaction has
    MaxTransactions,  \* bound: how many transactions and single queries run
    MaxErrors,        \* bound: how many statements the server refuses
    MaxLosses         \* bound: how often the connection is lost

ASSUME DbAssumption ==
    /\ Nobody \notin Threads
    /\ Modes \subseteq {"commit", "rollback", "single"}
    /\ Statements \in Nat \ {0} /\ MaxTransactions \in Nat
    /\ MaxErrors \in Nat /\ MaxLosses \in Nat

VARIABLES
    databaseLock,   \* its owner
    session,        \* the server's transaction: open, and what it has written
    lost,           \* the connection is gone and was not renewed yet
    durable,        \* the writes the tables have
    pc,
    current,        \* the transaction a thread is in
    issued,         \* how many of its statements were executed
    begun,          \* history: how many were begun
    mode, outcome,  \* history: of every transaction begun
    disturbed,      \* history: a thread came between a BEGIN and its lock
    errors, losses

client == <<databaseLock, pc, current, issued>>
server == <<session, lost, durable>>
history == <<begun, mode, outcome, disturbed>>
vars == <<client, server, history, errors, losses>>

-----------------------------------------------------------------------------
Ids == 1..MaxTransactions
Writes == [of : Ids, nth : 1..Statements]
Closed == [open |-> FALSE, writes |-> {}]
Opened == [open |-> TRUE, writes |-> {}]

Init ==
    /\ databaseLock = Nobody
    /\ session = Closed /\ lost = FALSE /\ durable = {}
    /\ pc = [t \in Threads |-> "idle"]
    /\ current = [t \in Threads |-> 0]
    /\ issued = [t \in Threads |-> 0]
    /\ begun = 0
    /\ mode = [x \in Ids |-> "none"] /\ outcome = [x \in Ids |-> "none"]
    /\ disturbed = FALSE
    /\ errors = 0 /\ losses = 0

Goto(t, label) == pc' = [pc EXCEPT ![t] = label]
Locks(t) == databaseLock \in {Nobody, t}

(* What the server makes of a write, and of BEGIN and COMMIT: a BEGIN       *)
(* commits the transaction that is open.                                    *)
Applies(write) ==
    /\ session' = IF session.open
                  THEN [open |-> TRUE, writes |-> session.writes \cup {write}]
                  ELSE session
    /\ durable' = IF session.open THEN durable ELSE durable \cup {write}

ServerBegins == session' = Opened /\ durable' = durable \cup session.writes
ServerCommits == session' = Closed /\ durable' = durable \cup session.writes
ServerRollsBack == session' = Closed /\ UNCHANGED durable

(* retryQuery: after a lost connection the query is repeated until the      *)
(* connection is back, or given up; other errors end it at once.            *)
QueryRuns == lost' = FALSE /\ UNCHANGED <<errors, losses>>

QueryFails ==
    /\ \/ lost /\ UNCHANGED errors
       \/ errors < MaxErrors /\ errors' = errors + 1
    /\ UNCHANGED <<server, losses>>

-----------------------------------------------------------------------------
Starts(t, m) ==
    /\ pc[t] = "idle" /\ begun < MaxTransactions
    /\ Locks(t)
    /\ begun' = begun + 1
    /\ mode' = [mode EXCEPT ![begun + 1] = m]
    /\ current' = [current EXCEPT ![t] = begun + 1]
    /\ issued' = [issued EXCEPT ![t] = 0]
    /\ disturbed' = (disturbed \/ \E u \in Threads : pc[u] = "lock")

(* executeQuery outside a transaction.                                      *)
Single(t) ==
    /\ Starts(t, "single")
    /\ LET done == [outcome EXCEPT ![begun + 1] = "committed"]
           failed == [outcome EXCEPT ![begun + 1] = "failed"]
       IN  \/ /\ Applies([of |-> begun + 1, nth |-> 1]) /\ QueryRuns
              /\ outcome' = done
           \/ QueryFails /\ outcome' = failed
    /\ UNCHANGED <<databaseLock, pc>>

(* beginTransaction sends BEGIN under a lock of its own ...                 *)
Begin(t, m) ==
    /\ Starts(t, m)
    /\ \/ /\ ServerBegins /\ QueryRuns
          /\ outcome' = [outcome EXCEPT ![begun + 1] = "running"]
          /\ Goto(t, "lock")
       \/ /\ QueryFails
          /\ outcome' = [outcome EXCEPT ![begun + 1] = "failed"]
          /\ UNCHANGED pc
    /\ UNCHANGED databaseLock

(* ... and then takes the lock for the transaction.                         *)
Lock(t) ==
    /\ pc[t] = "lock" /\ databaseLock = Nobody
    /\ databaseLock' = t
    /\ Goto(t, "inside")
    /\ UNCHANGED <<server, current, issued, history, errors, losses>>

(* A statement of the callback, which gives up when one fails.              *)
NextStatement(t) == issued[t] + 1

Statement(t) ==
    /\ pc[t] = "inside" /\ issued[t] < Statements
    /\ \/ /\ Applies([of |-> current[t], nth |-> NextStatement(t)]) /\ QueryRuns
          /\ issued' = [issued EXCEPT ![t] = @ + 1]
          /\ UNCHANGED pc
       \/ /\ QueryFails
          /\ Goto(t, "failed")
          /\ UNCHANGED issued
    /\ UNCHANGED <<databaseLock, current, history>>

(* commit and rollback give the lock back on every path.                    *)
MutReleased(ok) == IF ok THEN Nobody ELSE databaseLock
Released(ok) == Nobody

Ends(t, ok, result) ==
    /\ databaseLock' = Released(ok)
    /\ outcome' = [outcome EXCEPT ![current[t]] = result]
    /\ Goto(t, "idle")
    /\ UNCHANGED <<current, issued, begun, mode, disturbed, errors, losses>>

Commit(t, result) ==
    \/ /\ ServerCommits /\ lost' = FALSE
       /\ Ends(t, TRUE, result)
    \/ /\ lost
       /\ UNCHANGED server
       /\ Ends(t, FALSE, "failed")

Rollback(t) ==
    \/ /\ ServerRollsBack /\ lost' = FALSE
       /\ Ends(t, TRUE, "failed")
    \/ /\ lost
       /\ UNCHANGED server
       /\ Ends(t, FALSE, "failed")

Finish(t) ==
    /\ pc[t] = "inside" /\ issued[t] = Statements
    /\ Commit(t, "committed")

(* executeWithinTransaction commits although its callback returned false;   *)
(* a callback that throws, and the other execute function, roll back.       *)
MutRollsBack(x) == FALSE
RollsBack(x) == mode[x] = "rollback"

GiveUp(t) ==
    /\ pc[t] = "failed"
    /\ IF RollsBack(current[t]) THEN Rollback(t) ELSE Commit(t, "failed")

(* The server goes away: what its session had not committed is gone.        *)
LoseConnection ==
    /\ losses < MaxLosses /\ ~lost
    /\ losses' = losses + 1
    /\ lost' = TRUE /\ session' = Closed
    /\ UNCHANGED <<client, durable, history, errors>>

-----------------------------------------------------------------------------
Goes(t) == Lock(t) \/ Statement(t) \/ Finish(t) \/ GiveUp(t)

Next ==
    \/ LoseConnection
    \/ \E t \in Threads :
         \/ Goes(t)
         \/ "single" \in Modes /\ Single(t)
         \/ \E m \in Modes \ {"single"} : Begin(t, m)

(* A thread in a transaction goes on, and gets a lock that stays free.      *)
Fairness == \A t \in Threads : WF_vars(Goes(t))

Spec == Init /\ [][Next]_vars /\ Fairness

-----------------------------------------------------------------------------
TypeOK ==
    /\ databaseLock \in Threads \cup {Nobody}
    /\ session \in [open : BOOLEAN, writes : SUBSET Writes]
    /\ lost \in BOOLEAN /\ durable \subseteq Writes
    /\ pc \in [Threads -> {"idle", "lock", "inside", "failed"}]
    /\ current \in [Threads -> 0..MaxTransactions]
    /\ issued \in [Threads -> 0..Statements]
    /\ begun \in 0..MaxTransactions /\ disturbed \in BOOLEAN
    /\ mode \in [Ids -> {"none", "commit", "rollback", "single"}]
    /\ outcome \in [Ids -> {"none", "running", "committed", "failed"}]
    /\ errors \in 0..MaxErrors /\ losses \in 0..MaxLosses

(* The lock is held by the one thread that is inside a transaction and by   *)
(* nobody else, whatever BEGIN, a statement, COMMIT or ROLLBACK returned.   *)
LockBalanced ==
    \A t \in Threads : databaseLock = t <=> pc[t] \in {"inside", "failed"}

Planned(x) ==
    {w \in Writes : w.of = x /\ (mode[x] = "single" => w.nth = 1)}

(* A transaction or query that has ended left all of its writes when it     *)
(* reported success, and all or none when it did not; but                   *)
(* executeWithinTransaction commits what a callback that returned false had *)
(* written.                                                                 *)
Atomic ==
    \A x \in Ids :
      /\ outcome[x] = "committed" => Planned(x) \subseteq durable
      /\ outcome[x] = "failed" /\ mode[x] # "commit" =>
           \/ Planned(x) \subseteq durable
           \/ Planned(x) \cap durable = {}

(* docs/architecture.md: "Database writes are grouped into transactions"    *)
(* for "data consistency": once the session's transaction has ended, each   *)
(* of the threads' has taken effect as it reported.                         *)
TransactionsAtomic == ~session.open => Atomic

(* At every moment it is so as long as the connection is not lost and no    *)
(* thread comes between the BEGIN of another and its lock: the lock of      *)
(* BEGIN is not the transaction's.                                          *)
AllOrNothing == ~disturbed /\ losses = 0 => Atomic

(* Every transaction ends and lets the others in.                           *)
TransactionsEnd == \A t \in Threads : []<>(pc[t] = "idle")
=============================================================================
