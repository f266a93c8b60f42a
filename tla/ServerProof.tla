----------------------------- MODULE ServerProof -----------------------------
(****************************************************************************)
(* Proofs about the parts below the game, for any constants: transactions   *)
(* of the database, a client's connection, the logins of a character, the   *)
(* choice of the dispatcher's next lane, the decay of items and the list of *)
(* those who wait for a place.                                              *)
(****************************************************************************)
EXTENDS MCServer, Integers, SequenceTheorems, FoldLemmas, TLAPS

(* A thread in a transaction knows which one it is in.                      *)
KnowsCurrent == \A t \in Threads : pc[t] # "idle" => current[t] \in Ids

IInv == TypeOK /\ KnowsCurrent /\ LockBalanced

-----------------------------------------------------------------------------
(* Initially nobody is in a transaction and nobody has the lock.            *)
LEMMA InitEstablishes == Init => IInv
<1> SUFFICES ASSUME Init PROVE IInv
  OBVIOUS
<1>1. /\ MaxTransactions \in Nat /\ Statements \in Nat
      /\ MaxErrors \in Nat /\ MaxLosses \in Nat /\ Nobody \notin Threads
  BY DbAssumption
<1>2. session \in [open : BOOLEAN, writes : SUBSET Writes] /\ durable \subseteq Writes
  BY DEF Init, Closed
<1>3. /\ pc \in [Threads -> {"idle", "lock", "inside", "failed"}]
      /\ current \in [Threads -> 0..MaxTransactions]
      /\ issued \in [Threads -> 0..Statements]
  BY <1>1 DEF Init
<1>4. /\ mode \in [Ids -> {"none", "commit", "rollback", "single"}]
      /\ outcome \in [Ids -> {"none", "running", "committed", "failed"}]
  BY DEF Init
<1>5. /\ databaseLock \in Threads \cup {Nobody}
      /\ lost \in BOOLEAN /\ disturbed \in BOOLEAN
      /\ begun \in 0..MaxTransactions
      /\ errors \in 0..MaxErrors /\ losses \in 0..MaxLosses
  <2>1. /\ databaseLock \in Threads \cup {Nobody}
        /\ lost \in BOOLEAN /\ disturbed \in BOOLEAN
    BY Zenon DEF Init
  <2>2. /\ begun = 0 /\ errors = 0 /\ losses = 0
    BY Zenon DEF Init
  <2> QED
    BY <1>1, <2>1, <2>2
<1>6. TypeOK
  BY <1>1, <1>2, <1>3, <1>4, <1>5 DEF TypeOK
<1>7. KnowsCurrent /\ LockBalanced
  BY <1>1 DEF Init, KnowsCurrent, LockBalanced
<1> QED
  BY <1>6, <1>7 DEF IInv

(* What is written has a place among the writes of its transaction.         *)
LEMMA AppliesTyped ==
  ASSUME TypeOK, NEW w \in Writes, Applies(w)
  PROVE  /\ session' \in [open : BOOLEAN, writes : SUBSET Writes]
         /\ durable' \subseteq Writes
<1>1. /\ session.writes \cup {w} \in SUBSET Writes
      /\ session \in [open : BOOLEAN, writes : SUBSET Writes]
      /\ durable \cup {w} \subseteq Writes
  BY DEF TypeOK
<1>2. [open |-> TRUE, writes |-> session.writes \cup {w}]
        \in [open : BOOLEAN, writes : SUBSET Writes]
  BY <1>1
<1>3. session' = session \/ session' = [open |-> TRUE, writes |-> session.writes \cup {w}]
  BY DEF Applies
<1>4. durable' = durable \/ durable' = durable \cup {w}
  BY DEF Applies
<1> QED
  BY <1>1, <1>2, <1>3, <1>4
(* BEGIN, COMMIT and ROLLBACK move writes but make none.                    *)
LEMMA ServerTyped ==
  ASSUME TypeOK, ServerBegins \/ ServerCommits \/ ServerRollsBack
  PROVE  /\ session' \in [open : BOOLEAN, writes : SUBSET Writes]
         /\ durable' \subseteq Writes
<1>1. /\ session.writes \in SUBSET Writes
      /\ durable \cup session.writes \subseteq Writes /\ durable \subseteq Writes
  BY DEF TypeOK
<1>2. /\ Opened \in [open : BOOLEAN, writes : SUBSET Writes]
      /\ Closed \in [open : BOOLEAN, writes : SUBSET Writes]
  BY DEF Opened, Closed
<1>3. /\ session' = Opened \/ session' = Closed
      /\ durable' = durable \/ durable' = durable \cup session.writes
  BY DEF ServerBegins, ServerCommits, ServerRollsBack
<1> QED
  BY <1>1, <1>2, <1>3

(* A refused query changes at most the count of the errors.                 *)
LEMMA QueryFailsTyped ==
  ASSUME TypeOK, QueryFails
  PROVE  /\ UNCHANGED <<session, lost, durable, losses>>
         /\ errors' \in 0..MaxErrors
  BY DbAssumption DEF TypeOK, QueryFails, server

(* The bookkeeping of a transaction that starts.                            *)
LEMMA StartsTyped ==
  ASSUME TypeOK, NEW t \in Threads, NEW m \in Modes, Starts(t, m)
  PROVE  /\ begun + 1 \in Ids
         /\ begun' = begun + 1 /\ begun' \in 0..MaxTransactions
         /\ mode' \in [Ids -> {"none", "commit", "rollback", "single"}]
         /\ current' \in [Threads -> 0..MaxTransactions]
         /\ current' = [current EXCEPT ![t] = begun + 1]
         /\ issued' \in [Threads -> 0..Statements]
         /\ disturbed' \in BOOLEAN
         /\ pc[t] = "idle"
<1>1. begun + 1 \in Ids /\ begun + 1 \in 0..MaxTransactions
  BY DbAssumption DEF TypeOK, Starts, Ids
<1>2. disturbed' \in BOOLEAN
  BY DEF TypeOK, Starts
<1> QED
  BY <1>1, <1>2, DbAssumption DEF TypeOK, Starts

-----------------------------------------------------------------------------
(* A single query leaves the threads as they are.                           *)
LEMMA SingleKeeps ==
  ASSUME IInv, NEW t \in Threads, "single" \in Modes, Single(t)
  PROVE  IInv'
<1>1. Starts(t, "single") /\ UNCHANGED <<databaseLock, pc>>
  BY DEF Single
<1>2. TypeOK
  BY DEF IInv
<1>3. [of |-> begun + 1, nth |-> 1] \in Writes
  BY <1>1, <1>2, StartsTyped, DbAssumption DEF Writes
<1>4. /\ session' \in [open : BOOLEAN, writes : SUBSET Writes]
      /\ durable' \subseteq Writes /\ lost' \in BOOLEAN
      /\ errors' \in 0..MaxErrors /\ losses' \in 0..MaxLosses
  <2>1. CASE Applies([of |-> begun + 1, nth |-> 1]) /\ QueryRuns
    BY <2>1, <1>2, <1>3, AppliesTyped DEF QueryRuns, TypeOK
  <2>2. CASE QueryFails
    BY <2>2, <1>2, QueryFailsTyped DEF TypeOK
  <2> QED
    BY <2>1, <2>2 DEF Single
<1>5. outcome' \in [Ids -> {"none", "running", "committed", "failed"}]
  BY <1>2 DEF Single, TypeOK
<1>6. TypeOK'
  BY <1>1, <1>2, <1>4, <1>5, StartsTyped DEF TypeOK
<1>7. KnowsCurrent'
  BY <1>1, <1>2, StartsTyped DEF IInv, KnowsCurrent, TypeOK
<1>8. LockBalanced'
  BY <1>1 DEF IInv, LockBalanced
<1> QED
  BY <1>6, <1>7, <1>8 DEF IInv

(* After BEGIN a thread is on its way to the lock, which is still free.     *)
LEMMA BeginKeeps ==
  ASSUME IInv, NEW t \in Threads, NEW m \in Modes, Begin(t, m)
  PROVE  IInv'
<1>1. Starts(t, m) /\ UNCHANGED databaseLock
  BY DEF Begin
<1>2. TypeOK
  BY DEF IInv
<1>3. /\ session' \in [open : BOOLEAN, writes : SUBSET Writes]
      /\ durable' \subseteq Writes /\ lost' \in BOOLEAN
      /\ errors' \in 0..MaxErrors /\ losses' \in 0..MaxLosses
  <2>1. CASE ServerBegins /\ QueryRuns
    BY <2>1, <1>2, ServerTyped DEF QueryRuns, TypeOK
  <2>2. CASE QueryFails
    BY <2>2, <1>2, QueryFailsTyped DEF TypeOK
  <2> QED
    BY <2>1, <2>2 DEF Begin
<1>4. outcome' \in [Ids -> {"none", "running", "committed", "failed"}]
  BY <1>2 DEF Begin, TypeOK
<1>5. pc' = [pc EXCEPT ![t] = "lock"] \/ pc' = pc
  BY DEF Begin, Goto
<1>6. TypeOK'
  BY <1>1, <1>2, <1>3, <1>4, <1>5, StartsTyped DEF TypeOK
<1>7. KnowsCurrent'
  BY <1>1, <1>2, <1>5, StartsTyped DEF IInv, KnowsCurrent, TypeOK
<1>8. LockBalanced'
  BY <1>1, <1>2, <1>5, StartsTyped DEF IInv, LockBalanced, TypeOK
<1> QED
  BY <1>6, <1>7, <1>8 DEF IInv

(* The lock is taken from nobody, so nobody else is inside.                 *)
LEMMA LockKeeps ==
  ASSUME IInv, NEW t \in Threads, Lock(t)
  PROVE  IInv'
<1>1. /\ pc[t] = "lock" /\ databaseLock = Nobody /\ databaseLock' = t
      /\ pc' = [pc EXCEPT ![t] = "inside"]
      /\ UNCHANGED <<session, lost, durable, current, issued, begun, mode,
                     outcome, disturbed, errors, losses>>
  BY DEF Lock, Goto, server, history
<1>2. TypeOK'
  BY <1>1 DEF IInv, TypeOK
<1>3. KnowsCurrent'
  BY <1>1 DEF IInv, TypeOK, KnowsCurrent
<1>4. LockBalanced'
  BY <1>1, DbAssumption DEF IInv, TypeOK, LockBalanced
<1> QED
  BY <1>2, <1>3, <1>4 DEF IInv

(* A statement, whether it succeeds or not, is executed with the lock.      *)
LEMMA StatementKeeps ==
  ASSUME IInv, NEW t \in Threads, Statement(t)
  PROVE  IInv'
<1>1. TypeOK /\ pc[t] = "inside" /\ issued[t] < Statements
  BY DEF IInv, Statement
<1>2. UNCHANGED <<databaseLock, current, begun, mode, outcome, disturbed>>
  BY DEF Statement, history
<1>3. [of |-> current[t], nth |-> NextStatement(t)] \in Writes
  BY <1>1, DbAssumption DEF IInv, TypeOK, KnowsCurrent, NextStatement, Writes
<1>4. /\ session' \in [open : BOOLEAN, writes : SUBSET Writes]
      /\ durable' \subseteq Writes /\ lost' \in BOOLEAN
      /\ errors' \in 0..MaxErrors /\ losses' \in 0..MaxLosses
      /\ issued' \in [Threads -> 0..Statements]
      /\ pc' = pc \/ pc' = [pc EXCEPT ![t] = "failed"]
  <2>1. CASE /\ Applies([of |-> current[t], nth |-> NextStatement(t)])
             /\ QueryRuns
             /\ issued' = [issued EXCEPT ![t] = @ + 1]
             /\ UNCHANGED pc
    <3>1. issued[t] + 1 \in 0..Statements
      BY <1>1, DbAssumption DEF TypeOK
    <3> QED
      BY <2>1, <3>1, <1>1, <1>3, AppliesTyped DEF QueryRuns, TypeOK
  <2>2. CASE QueryFails /\ Goto(t, "failed") /\ UNCHANGED issued
    BY <2>2, <1>1, QueryFailsTyped DEF TypeOK, Goto
  <2> QED
    BY <2>1, <2>2 DEF Statement
<1>5. TypeOK'
  BY <1>1, <1>2, <1>4 DEF TypeOK
<1>6. KnowsCurrent'
  BY <1>1, <1>2, <1>4 DEF IInv, TypeOK, KnowsCurrent
<1>7. LockBalanced'
  BY <1>1, <1>2, <1>4 DEF IInv, TypeOK, LockBalanced
<1> QED
  BY <1>5, <1>6, <1>7 DEF IInv

(* What the end of a transaction does, whatever the server answered.        *)
LEMMA EndsKeeps ==
  ASSUME IInv, NEW t \in Threads, pc[t] \in {"inside", "failed"},
         NEW ok \in BOOLEAN, NEW result \in {"committed", "failed"},
         Ends(t, ok, result), lost' \in BOOLEAN,
         ServerCommits \/ ServerRollsBack \/ UNCHANGED <<session, durable>>
  PROVE  IInv'
<1>1. /\ TypeOK /\ databaseLock' = Nobody
      /\ outcome' = [outcome EXCEPT ![current[t]] = result]
      /\ pc' = [pc EXCEPT ![t] = "idle"]
      /\ UNCHANGED <<current, issued, begun, mode, disturbed, errors, losses>>
  BY DEF IInv, Ends, Released, Goto
<1>2. /\ session' \in [open : BOOLEAN, writes : SUBSET Writes]
      /\ durable' \subseteq Writes
  BY <1>1, ServerTyped DEF TypeOK
<1>3. outcome' \in [Ids -> {"none", "running", "committed", "failed"}]
  BY <1>1 DEF TypeOK
<1>4. TypeOK'
  BY <1>1, <1>2, <1>3 DEF TypeOK
<1>5. KnowsCurrent'
  BY <1>1 DEF IInv, TypeOK, KnowsCurrent
<1>6. databaseLock = t
  BY DEF IInv, LockBalanced
<1>7. LockBalanced'
  BY <1>1, <1>6, DbAssumption DEF IInv, TypeOK, LockBalanced
<1> QED
  BY <1>4, <1>5, <1>7 DEF IInv

(* COMMIT and ROLLBACK give the lock back although they may fail.           *)
LEMMA FinishKeeps ==
  ASSUME IInv, NEW t \in Threads, Finish(t) \/ GiveUp(t)
  PROVE  IInv'
<1>1. pc[t] \in {"inside", "failed"}
  BY DEF Finish, GiveUp
<1>2. ASSUME NEW result \in {"committed", "failed"}, Commit(t, result)
      PROVE  IInv'
  <2>1. CASE ServerCommits /\ lost' = FALSE /\ Ends(t, TRUE, result)
    BY <2>1, <1>1, EndsKeeps
  <2>2. CASE UNCHANGED server /\ Ends(t, FALSE, "failed")
    BY <2>2, <1>1, EndsKeeps DEF server, IInv, TypeOK
  <2> QED
    BY <1>2, <2>1, <2>2 DEF Commit
<1>3. ASSUME Rollback(t)
      PROVE  IInv'
  <2>1. CASE ServerRollsBack /\ lost' = FALSE /\ Ends(t, TRUE, "failed")
    BY <2>1, <1>1, EndsKeeps
  <2>2. CASE UNCHANGED server /\ Ends(t, FALSE, "failed")
    BY <2>2, <1>1, EndsKeeps DEF server, IInv, TypeOK
  <2> QED
    BY <1>3, <2>1, <2>2 DEF Rollback
<1> QED
  BY <1>2, <1>3 DEF Finish, GiveUp

(* A lost connection takes neither the lock nor a thread's place away.      *)
LEMMA LossKeeps ==
  ASSUME IInv, LoseConnection
  PROVE  IInv'
<1>1. /\ losses < MaxLosses /\ losses' = losses + 1
      /\ lost' = TRUE /\ session' = Closed
      /\ UNCHANGED <<databaseLock, pc, current, issued, durable, begun, mode,
                     outcome, disturbed, errors>>
  BY DEF LoseConnection, client, history
<1>2. losses' \in 0..MaxLosses /\ session' \in [open : BOOLEAN, writes : SUBSET Writes]
  BY <1>1, DbAssumption DEF IInv, TypeOK, Closed
<1>3. TypeOK'
  BY <1>1, <1>2 DEF IInv, TypeOK
<1> QED
  BY <1>1, <1>3 DEF IInv, KnowsCurrent, LockBalanced

(* Every step keeps the invariant.                                          *)
LEMMA StepKeeps == IInv /\ [Next]_vars => IInv'
<1> SUFFICES ASSUME IInv, [Next]_vars PROVE IInv'
  OBVIOUS
<1>1. CASE LoseConnection
  BY <1>1, LossKeeps
<1>2. ASSUME NEW t \in Threads, Goes(t)
      PROVE  IInv'
  BY <1>2, LockKeeps, StatementKeeps, FinishKeeps DEF Goes
<1>3. ASSUME NEW t \in Threads, "single" \in Modes, Single(t)
      PROVE  IInv'
  BY <1>3, SingleKeeps
<1>4. ASSUME NEW t \in Threads, NEW m \in Modes \ {"single"}, Begin(t, m)
      PROVE  IInv'
  BY <1>4, BeginKeeps
<1>5. CASE UNCHANGED vars
  BY <1>5 DEF vars, client, server, history, IInv, TypeOK, KnowsCurrent,
       LockBalanced
<1> QED
  BY <1>1, <1>2, <1>3, <1>4, <1>5 DEF Next

LEMMA Invariant == Spec => []IInv
  BY InitEstablishes, StepKeeps, PTL DEF Spec

-----------------------------------------------------------------------------
(* The variables of the database keep their types.                          *)
THEOREM TypeCorrect == Spec => []TypeOK
<1>1. IInv => TypeOK
  BY DEF IInv
<1> QED
  BY <1>1, Invariant, PTL

(* The lock is held by the thread that is inside a transaction and by       *)
(* nobody else: every path out of commit and rollback gives it back.        *)
THEOREM LockIsBalanced == Spec => []LockBalanced
<1>1. IInv => LockBalanced
  BY DEF IInv
<1> QED
  BY <1>1, Invariant, PTL

-----------------------------------------------------------------------------
(* While nothing has been lost and nobody has come between a BEGIN and its  *)
(* lock, one thread at a time is in a transaction, the server's session     *)
(* holds what that thread has executed, and the tables hold nothing of a    *)
(* transaction that has not ended.                                          *)
Calm == ~disturbed /\ losses = 0

Alone == \A t, u \in Threads : pc[t] # "idle" /\ pc[u] # "idle" => t = u

WrittenBy(x, n) == {w \in Writes : w.of = x /\ w.nth <= n}

InSession(t) ==
    /\ session = [open |-> TRUE, writes |-> WrittenBy(current[t], issued[t])]
    /\ outcome[current[t]] = "running" /\ mode[current[t]] \in {"commit", "rollback"}

SessionKept ==
    /\ \A t \in Threads : pc[t] # "idle" => InSession(t)
    /\ (\A t \in Threads : pc[t] = "idle") => session = Closed

NotBegun == \A x \in Ids : x > begun => outcome[x] = "none"
EndedOnly == \A w \in durable : outcome[w.of] \in {"committed", "failed"}

AtomicFor(x) ==
    /\ outcome[x] = "committed" => Planned(x) \subseteq durable
    /\ outcome[x] = "failed" /\ mode[x] # "commit" =>
         \/ Planned(x) \subseteq durable
         \/ Planned(x) \cap durable = {}

Kept == ~lost /\ Alone /\ SessionKept /\ NotBegun /\ EndedOnly /\ Atomic

(* A calm state was preceded by calm states only.                           *)
LEMMA CalmBefore ==
  ASSUME IInv, [Next]_vars, Calm'
  PROVE  Calm
<1>1. losses \in Nat /\ losses' \in Nat
  BY StepKeeps, DbAssumption DEF IInv, TypeOK
<1>2. CASE LoseConnection
  BY <1>1, <1>2 DEF LoseConnection, Calm, history
<1>3. ASSUME NEW t \in Threads, Goes(t)
      PROVE  Calm
  BY <1>3 DEF Goes, Lock, Statement, Finish, GiveUp, Commit, Rollback, Ends,
       QueryRuns, QueryFails, Calm, history
<1>4. ASSUME NEW t \in Threads, NEW m \in Modes, Single(t) \/ Begin(t, m)
      PROVE  Calm
  BY <1>4 DEF Single, Begin, Starts, QueryRuns, QueryFails, Calm
<1>5. CASE UNCHANGED vars
  BY <1>5 DEF vars, history, Calm
<1> QED
  BY <1>2, <1>3, <1>4, <1>5 DEF Next

(* A transaction or query starts when everybody else is out of one.         *)
LEMMA StartsAlone ==
  ASSUME IInv, Calm', NEW t \in Threads, NEW m \in Modes, Starts(t, m)
  PROVE  \A u \in Threads : pc[u] = "idle"
<1> SUFFICES ASSUME NEW u \in Threads PROVE pc[u] = "idle"
  OBVIOUS
<1>1. pc[u] # "lock"
  BY DEF Starts, Calm
<1>2. pc[t] = "idle" /\ databaseLock \in {Nobody, t}
  BY DEF Starts, Locks
<1>3. databaseLock = Nobody
  BY <1>2 DEF IInv, LockBalanced
<1>4. databaseLock # u
  BY <1>3, DbAssumption
<1>5. pc[u] \notin {"inside", "failed"}
  BY <1>4 DEF IInv, LockBalanced
<1> QED
  BY <1>1, <1>5 DEF IInv, TypeOK

(* Writes of others do not change how a transaction stands.                 *)
LEMMA AtomicFrame ==
  ASSUME NEW x \in Ids, AtomicFor(x), mode'[x] = mode[x],
         outcome'[x] = outcome[x], NEW W, durable' = durable \cup W,
         \A w \in W : w.of # x
  PROVE  AtomicFor(x)'
<1>1. Planned(x)' = Planned(x)
  BY DEF Planned
<1>2. Planned(x) \cap W = {}
  BY DEF Planned
<1> QED
  BY <1>1, <1>2 DEF AtomicFor

(* Atomic says the same of every transaction.                               *)
LEMMA AtomicForAll == Atomic <=> \A x \in Ids : AtomicFor(x)
  BY DEF Atomic, AtomicFor

LEMMA AtomicForAllNext == Atomic' <=> \A x \in Ids : AtomicFor(x)'
  BY DEF Atomic, AtomicFor

(* Initially the tables are empty and nothing has begun.                    *)
LEMMA InitKept == Init => Kept
<1> SUFFICES ASSUME Init PROVE Kept
  OBVIOUS
<1>1. ~lost /\ durable = {} /\ session = Closed /\ begun = 0
  BY DEF Init
<1>2. (\A t \in Threads : pc[t] = "idle") /\ \A x \in Ids : outcome[x] = "none"
  BY DEF Init
<1> QED
  BY <1>1, <1>2 DEF Kept, Alone, SessionKept, NotBegun, EndedOnly, Atomic

(* A single query is written whole or not at all.                           *)
LEMMA SingleCalm ==
  ASSUME IInv, Kept, Calm', NEW t \in Threads, "single" \in Modes, Single(t)
  PROVE  Kept'
<1>0. /\ Starts(t, "single") /\ UNCHANGED pc /\ begun + 1 \in Ids
      /\ begun \in Nat
  BY StartsTyped, DbAssumption DEF Single, IInv, TypeOK
<1> PICK x \in Ids : x = begun + 1
  BY <1>0
<1> DEFINE w == [of |-> x, nth |-> 1]
<1>1. /\ Starts(t, "single") /\ UNCHANGED pc
      /\ begun' = begun + 1 /\ begun \in Nat
      /\ mode' = [mode EXCEPT ![x] = "single"]
      /\ w \in Writes
  BY <1>0, DbAssumption DEF Starts, Writes
<1>2. \A u \in Threads : pc[u] = "idle"
  BY <1>1, StartsAlone
<1>3. session = Closed /\ ~lost
  BY <1>2 DEF Kept, SessionKept
<1>4. outcome[x] = "none" /\ \A v \in durable : v.of # x
  BY <1>1 DEF Kept, NotBegun, EndedOnly
<1>5. /\ session' = session /\ ~lost'
      /\ \/ /\ durable' = durable \cup {w}
            /\ outcome' = [outcome EXCEPT ![x] = "committed"]
         \/ /\ durable' = durable \cup {}
            /\ outcome' = [outcome EXCEPT ![x] = "failed"]
  BY <1>3 DEF Single, Applies, QueryRuns, QueryFails, Closed, server
<1>6. PICK W \in {{w}, {}} : durable' = durable \cup W /\ \A v \in W : v.of = x
  BY <1>5
<1>7. outcome'[x] \in {"committed", "failed"}
      /\ \A y \in Ids \ {x} : outcome'[y] = outcome[y] /\ mode'[y] = mode[y]
  BY <1>1, <1>5 DEF IInv, TypeOK
<1>8. Alone' /\ SessionKept'
  BY <1>1, <1>2, <1>3, <1>5 DEF Alone, SessionKept
<1>9. NotBegun'
  BY <1>1, <1>7, DbAssumption DEF Kept, NotBegun, Ids
<1>10. EndedOnly'
  <2> SUFFICES ASSUME NEW v \in durable' PROVE outcome'[v.of] \in {"committed", "failed"}
    BY DEF EndedOnly
  <2>1. CASE v \in W
    BY <2>1, <1>6, <1>7
  <2>2. CASE v \in durable
    <3>1. v.of \in Ids /\ v.of # x
      BY <2>2, <1>4 DEF IInv, TypeOK, Writes
    <3> QED
      BY <2>2, <3>1, <1>7 DEF Kept, EndedOnly
  <2> QED
    BY <2>1, <2>2, <1>6
<1>11. ASSUME NEW y \in Ids PROVE AtomicFor(y)'
  <2>1. CASE y # x
    BY <2>1, <1>6, <1>7, AtomicFrame, AtomicForAll DEF Kept
  <2>2. CASE y = x
    <3>1. mode'[x] = "single"
      BY <1>1 DEF IInv, TypeOK
    <3>2. \A v \in Planned(x)' : v = w
      BY <3>1 DEF Planned, Writes
    <3>3. CASE /\ durable' = durable \cup {w}
               /\ outcome' = [outcome EXCEPT ![x] = "committed"]
      BY <3>2, <3>3, <2>2 DEF AtomicFor
    <3>4. CASE /\ durable' = durable \cup {}
               /\ outcome' = [outcome EXCEPT ![x] = "failed"]
      <4>1. Planned(x)' \cap durable' = {}
        BY <3>2, <3>4, <1>4
      <4>2. outcome'[x] = "failed"
        BY <3>4, <1>1 DEF IInv, TypeOK
      <4> QED
        BY <4>1, <4>2, <2>2 DEF AtomicFor
    <3> QED
      BY <3>3, <3>4, <1>5
  <2> QED
    BY <2>1, <2>2
<1> QED
  BY <1>5, <1>8, <1>9, <1>10, <1>11, AtomicForAllNext DEF Kept

(* BEGIN opens the session of the one thread that starts.                   *)
LEMMA BeginCalm ==
  ASSUME IInv, Kept, Calm', NEW t \in Threads, NEW m \in Modes \ {"single"},
         Begin(t, m)
  PROVE  Kept'
<1>0. Starts(t, m) /\ begun + 1 \in Ids /\ begun \in Nat /\ TypeOK
  BY StartsTyped, DbAssumption DEF Begin, IInv, TypeOK
<1> PICK x \in Ids : x = begun + 1
  BY <1>0
<1>1. /\ Starts(t, m) /\ begun' = begun + 1 /\ begun \in Nat
      /\ mode' = [mode EXCEPT ![x] = m] /\ mode'[x] = m
      /\ current'[t] = x /\ issued'[t] = 0 /\ m \in {"commit", "rollback"}
  <2>1. begun' = begun + 1 /\ mode' = [mode EXCEPT ![x] = m]
    BY <1>0 DEF Starts
  <2>2. mode'[x] = m /\ current'[t] = x /\ issued'[t] = 0
    BY <1>0 DEF Starts, TypeOK
  <2>3. m \in {"commit", "rollback"}
    BY DbAssumption
  <2> QED
    BY <1>0, <2>1, <2>2, <2>3
<1>2. \A u \in Threads : pc[u] = "idle"
  BY <1>1, StartsAlone
<1>3. session = Closed /\ ~lost
  BY <1>2 DEF Kept, SessionKept
<1>4. outcome[x] = "none" /\ \A v \in durable : v.of # x
  BY <1>1 DEF Kept, NotBegun, EndedOnly
<1>5. durable' = durable \cup {} /\ ~lost'
  <2>1. session.writes = {}
    BY <1>3 DEF Closed
  <2>2. (ServerBegins /\ QueryRuns) \/ QueryFails
    BY DEF Begin
  <2> QED
    BY <1>3, <2>1, <2>2 DEF ServerBegins, QueryRuns, QueryFails, server
<1>6. \A y \in Ids \ {x} : outcome'[y] = outcome[y] /\ mode'[y] = mode[y]
  BY <1>1 DEF Begin, IInv, TypeOK
<1>7. NotBegun'
  BY <1>1, <1>6, DbAssumption DEF Kept, NotBegun, Ids
<1>8. EndedOnly'
  <2> SUFFICES ASSUME NEW v \in durable PROVE outcome'[v.of] \in {"committed", "failed"}
    BY <1>5 DEF EndedOnly
  <2>1. v.of \in Ids /\ v.of # x
    BY <1>4 DEF IInv, TypeOK, Writes
  <2> QED
    BY <2>1, <1>6 DEF Kept, EndedOnly
<1>9. CASE /\ ServerBegins /\ QueryRuns
           /\ outcome' = [outcome EXCEPT ![x] = "running"]
           /\ Goto(t, "lock")
  <2>1. /\ \A u \in Threads : pc'[u] # "idle" <=> u = t
        /\ outcome'[x] = "running"
    BY <1>1, <1>2, <1>9 DEF Goto, IInv, TypeOK
  <2>2. WrittenBy(x, 0) = {}
    BY DEF WrittenBy, Writes
  <2>3. session' = [open |-> TRUE, writes |-> WrittenBy(current'[t], issued'[t])]
    BY <1>1, <1>9, <2>2 DEF ServerBegins, Opened
  <2>4. InSession(t)'
    BY <1>1, <2>1, <2>3 DEF InSession
  <2>5. Alone' /\ SessionKept'
    BY <2>1, <2>4 DEF Alone, SessionKept
  <2>6. \A y \in Ids : AtomicFor(y)'
    <3> SUFFICES ASSUME NEW y \in Ids PROVE AtomicFor(y)'
      OBVIOUS
    <3>1. CASE y = x
      BY <3>1, <2>1 DEF AtomicFor
    <3>2. CASE y # x
      <4>1. AtomicFor(y) /\ outcome'[y] = outcome[y] /\ mode'[y] = mode[y]
        BY <3>2, <1>6, AtomicForAll DEF Kept
      <4>2. Planned(y)' = Planned(y) /\ durable' = durable
        BY <4>1, <1>5 DEF Planned
      <4> QED
        BY <4>1, <4>2 DEF AtomicFor
    <3> QED
      BY <3>1, <3>2
  <2> QED
    BY <1>5, <1>7, <1>8, <2>5, <2>6, AtomicForAllNext DEF Kept
<1>10. CASE /\ QueryFails
            /\ outcome' = [outcome EXCEPT ![x] = "failed"]
            /\ UNCHANGED pc
  <2>1. outcome'[x] = "failed" /\ session' = session
    BY <1>1, <1>10 DEF QueryFails, server, IInv, TypeOK
  <2>2. Alone' /\ SessionKept'
    BY <1>2, <1>3, <1>10, <2>1 DEF Alone, SessionKept
  <2>3. \A y \in Ids : AtomicFor(y)'
    <3> SUFFICES ASSUME NEW y \in Ids PROVE AtomicFor(y)'
      OBVIOUS
    <3>1. CASE y = x
      <4>1. Planned(x)' \cap durable' = {}
        BY <1>4, <1>5 DEF Planned
      <4> QED
        BY <3>1, <2>1, <4>1 DEF AtomicFor
    <3>2. CASE y # x
      <4>1. AtomicFor(y) /\ outcome'[y] = outcome[y] /\ mode'[y] = mode[y]
        BY <3>2, <1>6, AtomicForAll DEF Kept
      <4>2. Planned(y)' = Planned(y) /\ durable' = durable
        BY <4>1, <1>5 DEF Planned
      <4> QED
        BY <4>1, <4>2 DEF AtomicFor
    <3> QED
      BY <3>1, <3>2
  <2> QED
    BY <1>5, <1>7, <1>8, <2>2, <2>3, AtomicForAllNext DEF Kept
<1> QED
  BY <1>9, <1>10 DEF Begin

(* Taking the lock changes nothing that the server knows.                   *)
LEMMA LockCalm ==
  ASSUME IInv, Kept, NEW t \in Threads, Lock(t)
  PROVE  Kept'
<1>1. /\ UNCHANGED <<session, lost, durable, current, issued, begun, mode, outcome>>
      /\ \A u \in Threads : pc'[u] # "idle" <=> pc[u] # "idle"
  BY DEF Lock, Goto, server, history, IInv, TypeOK
<1>2. Alone' /\ SessionKept'
  BY <1>1 DEF Kept, Alone, SessionKept, InSession
<1>3. NotBegun' /\ EndedOnly'
  BY <1>1 DEF Kept, NotBegun, EndedOnly
<1>4. Atomic'
  BY <1>1 DEF Kept, Atomic, Planned
<1> QED
  BY <1>1, <1>2, <1>3, <1>4 DEF Kept

(* A statement's write joins those of its own transaction.                  *)
LEMMA StatementCalm ==
  ASSUME IInv, Kept, NEW t \in Threads, Statement(t)
  PROVE  Kept'
<1>1. /\ UNCHANGED <<current, begun, mode, outcome>>
      /\ pc[t] = "inside" /\ current[t] \in Ids
      /\ issued[t] \in Nat /\ issued[t] < Statements
  BY DbAssumption DEF Statement, history, IInv, TypeOK, KnowsCurrent
<1>2. InSession(t) /\ \A u \in Threads : pc[u] # "idle" <=> u = t
  BY <1>1 DEF Kept, SessionKept, Alone
<1>3. CASE /\ Applies([of |-> current[t], nth |-> NextStatement(t)]) /\ QueryRuns
           /\ issued' = [issued EXCEPT ![t] = @ + 1]
           /\ UNCHANGED pc
  <2> DEFINE w == [of |-> current[t], nth |-> issued[t] + 1]
  <2>1. /\ session' = [open |-> TRUE, writes |-> session.writes \cup {w}]
        /\ durable' = durable /\ ~lost'
        /\ issued'[t] = issued[t] + 1
    BY <1>1, <1>2, <1>3 DEF Applies, NextStatement, QueryRuns, InSession, IInv, TypeOK
  <2>2. WrittenBy(current[t], issued[t] + 1) =
            WrittenBy(current[t], issued[t]) \cup {w}
    BY <1>1, DbAssumption DEF WrittenBy, Writes
  <2>3. InSession(t)'
    BY <1>1, <1>2, <2>1, <2>2 DEF InSession
  <2>4. Alone' /\ SessionKept'
    BY <1>2, <1>3, <2>3 DEF Alone, SessionKept
  <2>5. NotBegun' /\ EndedOnly' /\ Atomic'
    BY <1>1, <2>1 DEF Kept, NotBegun, EndedOnly, Atomic, Planned
  <2> QED
    BY <2>1, <2>4, <2>5 DEF Kept
<1>4. CASE QueryFails /\ Goto(t, "failed") /\ UNCHANGED issued
  <2>1. /\ UNCHANGED <<session, lost, durable>>
        /\ \A u \in Threads : pc'[u] # "idle" <=> pc[u] # "idle"
    BY <1>1, <1>4 DEF QueryFails, server, Goto, IInv, TypeOK
  <2>2. Alone' /\ SessionKept'
    BY <1>1, <1>4, <2>1 DEF Kept, Alone, SessionKept, InSession
  <2>3. NotBegun' /\ EndedOnly' /\ Atomic'
    BY <1>1, <2>1 DEF Kept, NotBegun, EndedOnly, Atomic, Planned
  <2> QED
    BY <2>1, <2>2, <2>3 DEF Kept
<1> QED
  BY <1>3, <1>4 DEF Statement

(* COMMIT moves all of the session's writes to the tables, ROLLBACK none.   *)
LEMMA FinishCalm ==
  ASSUME IInv, Kept, NEW t \in Threads, Finish(t) \/ GiveUp(t)
  PROVE  Kept'
<1>0. pc[t] \in {"inside", "failed"} /\ current[t] \in Ids
  BY DEF Finish, GiveUp, IInv, KnowsCurrent
<1> PICK x \in Ids : x = current[t]
  BY <1>0
<1>1. pc[t] \in {"inside", "failed"} /\ current[t] = x
  BY <1>0
<1>2. /\ InSession(t) /\ ~lost
      /\ \A u \in Threads : pc[u] # "idle" <=> u = t
  BY <1>1 DEF Kept, SessionKept, Alone
<1>3. \A v \in durable : v.of # x
  BY <1>2 DEF Kept, EndedOnly, InSession
<1>4. ASSUME NEW ok \in BOOLEAN, NEW result \in {"committed", "failed"},
             Ends(t, ok, result), NEW W \in {session.writes, {}},
             session' = Closed, ~lost', durable' = durable \cup W,
             AtomicFor(x)'
      PROVE  Kept'
  <2>1. /\ UNCHANGED <<begun, mode>> /\ outcome'[x] = result
        /\ \A y \in Ids \ {x} : outcome'[y] = outcome[y]
        /\ \A u \in Threads : pc'[u] = "idle"
    BY <1>1, <1>2, <1>4 DEF Ends, Goto, IInv, TypeOK
  <2>2. \A v \in W : v.of = x
    BY <1>2, <1>4 DEF InSession, WrittenBy
  <2>3. Alone' /\ SessionKept'
    BY <1>4, <2>1 DEF Alone, SessionKept
  <2>4. outcome[x] # "none"
    BY <1>2 DEF InSession
  <2>5. NotBegun'
    BY <1>1, <2>1, <2>4 DEF Kept, NotBegun
  <2>6. EndedOnly'
    <3> SUFFICES ASSUME NEW v \in durable' PROVE outcome'[v.of] \in {"committed", "failed"}
      BY DEF EndedOnly
    <3>1. CASE v \in W
      BY <3>1, <2>1, <2>2, <1>4
    <3>2. CASE v \in durable
      <4>1. v.of \in Ids /\ v.of # x
        BY <3>2, <1>3 DEF IInv, TypeOK, Writes
      <4> QED
        BY <3>2, <4>1, <2>1 DEF Kept, EndedOnly
    <3> QED
      BY <3>1, <3>2, <1>4
  <2>7. ASSUME NEW y \in Ids, y # x PROVE AtomicFor(y)'
    BY <2>7, <2>1, <2>2, <1>4, AtomicFrame, AtomicForAll DEF Kept
  <2>8. Atomic'
    BY <2>7, <1>4, AtomicForAllNext
  <2> QED
    BY <1>4, <2>3, <2>5, <2>6, <2>8 DEF Kept
<1>5. ASSUME NEW ok \in BOOLEAN, NEW result \in {"committed", "failed"},
             Ends(t, ok, result)
      PROVE  UNCHANGED mode /\ outcome'[x] = result
  BY <1>1, <1>5 DEF Ends, IInv, TypeOK
<1>6. CASE Finish(t)
  <2>1. ServerCommits /\ lost' = FALSE /\ Ends(t, TRUE, "committed")
    BY <1>2, <1>6 DEF Finish, Commit
  <2>2. session' = Closed /\ durable' = durable \cup session.writes
    BY <2>1 DEF ServerCommits
  <2>3. session.writes = WrittenBy(x, Statements)
    BY <1>2, <1>6 DEF Finish, InSession
  <2>4. Planned(x)' \subseteq WrittenBy(x, Statements)
    BY DbAssumption DEF Planned, WrittenBy, Writes
  <2>5. AtomicFor(x)'
    BY <2>1, <2>2, <2>3, <2>4, <1>5 DEF AtomicFor
  <2> QED
    BY <1>4, <2>1, <2>2, <2>5
<1>7. CASE GiveUp(t) /\ ~RollsBack(x)
  <2>1. ServerCommits /\ lost' = FALSE /\ Ends(t, TRUE, "failed")
    BY <1>2, <1>7 DEF GiveUp, Commit
  <2>2. session' = Closed /\ durable' = durable \cup session.writes
    BY <2>1 DEF ServerCommits
  <2>3. mode[x] = "commit"
    BY <1>1, <1>2, <1>7 DEF RollsBack, InSession
  <2>4. AtomicFor(x)'
    BY <2>1, <2>3, <1>5 DEF AtomicFor
  <2> QED
    BY <1>4, <2>1, <2>2, <2>4
<1>8. CASE GiveUp(t) /\ RollsBack(x)
  <2>1. ServerRollsBack /\ lost' = FALSE /\ Ends(t, TRUE, "failed")
    BY <1>2, <1>8 DEF GiveUp, Rollback
  <2>2. session' = Closed /\ durable' = durable \cup {}
    BY <2>1 DEF ServerRollsBack
  <2>3. Planned(x)' \cap durable' = {}
    BY <2>2, <1>3 DEF Planned
  <2>4. AtomicFor(x)'
    BY <2>1, <2>3, <1>5 DEF AtomicFor
  <2> QED
    BY <1>4, <2>1, <2>2, <2>4
<1> QED
  BY <1>6, <1>7, <1>8

(* Every step that leads to a calm state keeps all of it.                   *)
LEMMA StepCalm == IInv /\ (Calm => Kept) /\ [Next]_vars => (Calm => Kept)'
<1> SUFFICES ASSUME IInv, Calm => Kept, [Next]_vars, Calm' PROVE Kept'
  OBVIOUS
<1>1. Kept
  BY CalmBefore
<1>2. ~LoseConnection
  BY DbAssumption DEF LoseConnection, Calm, IInv, TypeOK
<1>3. ASSUME NEW t \in Threads, Goes(t)
      PROVE  Kept'
  BY <1>1, <1>3, LockCalm, StatementCalm, FinishCalm DEF Goes
<1>4. ASSUME NEW t \in Threads, "single" \in Modes, Single(t)
      PROVE  Kept'
  BY <1>1, <1>4, SingleCalm
<1>5. ASSUME NEW t \in Threads, NEW m \in Modes \ {"single"}, Begin(t, m)
      PROVE  Kept'
  BY <1>1, <1>5, BeginCalm
<1>6. CASE UNCHANGED vars
  BY <1>1, <1>6 DEF vars, client, server, history, Kept, Alone, SessionKept,
       InSession, NotBegun, EndedOnly, Atomic, Planned
<1> QED
  BY <1>2, <1>3, <1>4, <1>5, <1>6 DEF Next

(* As long as the connection is not lost and no thread comes between the    *)
(* BEGIN of another and its lock, a transaction or query that has ended     *)
(* left all of its writes or, unless executeWithinTransaction committed a   *)
(* callback that returned false, none.                                      *)
THEOREM TransactionsAreAtomic == Spec => []AllOrNothing
<1>1. Init => (Calm => Kept)
  BY InitKept
<1>2. (Calm => Kept) => AllOrNothing
  BY DEF Calm, Kept, AllOrNothing
<1> QED
  BY <1>1, <1>2, StepCalm, Invariant, PTL DEF Spec

-----------------------------------------------------------------------------
(* Where the messages of a connection are.  Those accepted are written or   *)
(* in the queue, unless the queue was dropped, which closes by force or     *)
(* finds the connection closed with its socket still open; and a socket     *)
(* that closes without force has nothing left to write.                     *)
Accounted ==
    /\ \/ given = wire \o messageQueue
       \/ /\ messageQueue = <<>> /\ Peer!Closed
          /\ socketOpen \/ forced
          /\ Peer!InOrder
    /\ ~socketOpen => Peer!Closed
    /\ ~socketOpen /\ ~forced => messageQueue = <<>> /\ given = wire

(* Nothing happens to a connection before onAccept.                         *)
NotYetAccepted ==
    ~accepted => /\ connectionState = "open" /\ ~protocol
                 /\ task = "none" /\ reading = "none"

PeerInv ==
    /\ Peer!TypeOK /\ Peer!FrontStays /\ Peer!OneWriter /\ Accounted
    /\ NotYetAccepted /\ OneReader

-----------------------------------------------------------------------------
(* A sequence is a prefix of whatever continues it.                         *)
LEMMA PrefixOfConcat ==
  ASSUME NEW S, NEW s \in Seq(S), NEW t \in Seq(S)
  PROVE  Peer!IsPrefix(s, s \o t)
<1>1. /\ Len(s) \in Nat /\ Len(t) \in Nat
      /\ Len(s \o t) = Len(s) + Len(t)
  BY LenProperties, ConcatProperties
<1>2. SubSeq(s \o t, 1, Len(s)) = s
  BY SubSeqOfConcat1
<1>3. SubSeq(s, 1, Len(s)) = s
  BY SubSeqFull
<1> QED
  BY <1>1, <1>2, <1>3 DEF Peer!IsPrefix

(* Moving the first message of the queue to the wire keeps their            *)
(* concatenation.                                                           *)
LEMMA HeadMoves ==
  ASSUME NEW S, NEW s \in Seq(S), NEW q \in Seq(S), q # <<>>
  PROVE  Append(s, Head(q)) \o Tail(q) = s \o q
<1>1. Head(q) \in S /\ Tail(q) \in Seq(S)
  BY HeadTailProperties
<1>2. <<Head(q)>> \o Tail(q) = q
  BY <1>1
<1>3. Append(s, Head(q)) = s \o <<Head(q)>>
  BY <1>1
<1>4. <<Head(q)>> \in Seq(S)
  BY <1>1
<1> QED
  BY <1>1, <1>2, <1>3, <1>4, ConcatAssociative

(* Appending to the queue appends to the concatenation.                     *)
LEMMA AppendMoves ==
  ASSUME NEW S, NEW s \in Seq(S), NEW q \in Seq(S), NEW e \in S
  PROVE  s \o Append(q, e) = Append(s \o q, e)
<1>1. s \o q \in Seq(S) /\ <<e>> \in Seq(S)
  BY ConcatProperties
<1>2. Append(q, e) = q \o <<e>> /\ Append(s \o q, e) = (s \o q) \o <<e>>
  BY <1>1
<1> QED
  BY <1>1, <1>2, ConcatAssociative

-----------------------------------------------------------------------------
(* TypeOK by the part of the connection that changes: what is read, whether *)
(* it is open, and what is written.                                         *)
ReadTypes ==
    /\ accepted \in BOOLEAN /\ broken \in BOOLEAN
    /\ reading \in {"none", "identification", "remainder", "header", "body"}
    /\ readTimer \in BOOLEAN
    /\ protocol \in BOOLEAN /\ receivedFirst \in BOOLEAN
    /\ task \in {"none", "queued", "parsing"}
    /\ packets \in 0..MaxPackets

States == {"open", "identifying", "readings", "closed"}

CloseTypes ==
    /\ connectionState \in States
    /\ socketOpen \in BOOLEAN /\ writeTimer \in BOOLEAN /\ forced \in BOOLEAN
    /\ releases \in 0..1

WriteTypes ==
    /\ messageQueue \in Seq(Peer!Messages) /\ posted \in Nat
    /\ writer \in {"idle", "encoding", "writing"}
    /\ front \in 0..MaxMessages
    /\ given \in Seq(Peer!Messages) /\ wire \in Seq(Peer!Messages)

LEMMA Types == Peer!TypeOK <=> ReadTypes /\ CloseTypes /\ WriteTypes
  BY DEF Peer!TypeOK, ReadTypes, CloseTypes, WriteTypes, States

LEMMA TypesNext == Peer!TypeOK' <=> ReadTypes' /\ CloseTypes' /\ WriteTypes'
  BY DEF Peer!TypeOK, ReadTypes, CloseTypes, WriteTypes, States

(* A handler that closes, with whatever protocol it leaves behind.          *)
Closes ==
    \E force, armed \in BOOLEAN :
        Peer!Close(force, protocol', messageQueue, armed)

LEMMA InitPeerInv == Peer!Init => PeerInv
<1> SUFFICES ASSUME Peer!Init PROVE PeerInv
  OBVIOUS
<1>1. Peer!TypeOK
  <2>1. <<>> \in Seq(Peer!Messages)
    BY EmptySeq
  <2>2. 0 \in 0..MaxMessages /\ 0 \in 0..MaxPackets
    BY BoundsAssumption
  <2>3. ReadTypes
    BY <2>2 DEF Peer!Init, ReadTypes
  <2>4. CloseTypes
    <3>1. releases \in 0..1
      BY DEF Peer!Init
    <3> QED
      BY <3>1 DEF Peer!Init, CloseTypes, States
  <2>5. WriteTypes
    BY <2>1, <2>2 DEF Peer!Init, WriteTypes
  <2> QED
    BY <2>3, <2>4, <2>5, Types
<1>2. <<>> \o <<>> = <<>>
  BY EmptySeq, ConcatEmptySeq
<1>3. Accounted
  BY <1>2 DEF Peer!Init, Accounted
<1>4. Peer!FrontStays /\ Peer!OneWriter /\ NotYetAccepted
  BY DEF Peer!Init, Peer!FrontStays, Peer!OneWriter, NotYetAccepted
<1>5. OneReader
  BY DEF Peer!Init, OneReader, Peer!OneReader, Peer!WaitsAreTimed, Peer!ReleasedOnce,
    Peer!Closed
<1> QED
  BY <1>1, <1>3, <1>4, <1>5 DEF PeerInv

(* Closing, with the queue as it is, keeps account of the messages: the     *)
(* socket goes with an empty queue or by force.                             *)
LEMMA CloseKeepsOutgoing ==
  ASSUME PeerInv, UNCHANGED Peer!outgoing, Closes
  PROVE  Peer!FrontStays' /\ Peer!OneWriter' /\ Accounted'
<1>1. UNCHANGED <<messageQueue, posted, writer, front, given, wire>>
  BY DEF Peer!outgoing
<1>2. Peer!FrontStays' /\ Peer!OneWriter'
  BY <1>1 DEF PeerInv, Peer!FrontStays, Peer!OneWriter
<1>3. PICK force \in BOOLEAN, armed \in BOOLEAN :
        Peer!Close(force, protocol', messageQueue, armed)
  BY DEF Closes
<1>4. /\ Peer!Closed'
      /\ socketOpen' = (socketOpen /\ ~Peer!ClosesSocket(force, messageQueue))
      /\ forced' = (forced \/ (Peer!ClosesSocket(force, messageQueue) /\ force))
  BY <1>3 DEF Peer!Close, Peer!Closed
<1>5. Accounted /\ wire \in Seq(Peer!Messages) /\ given \in Seq(Peer!Messages)
  BY DEF PeerInv, Peer!TypeOK
<1>6. wire \o <<>> = wire
  BY <1>5, ConcatEmptySeq
<1>7. CASE ~Peer!ClosesSocket(force, messageQueue)
  <2>1. socketOpen' = socketOpen /\ forced' = forced
    BY <1>4, <1>7 DEF PeerInv, Peer!TypeOK
  <2>2. wire' \o messageQueue' = wire \o messageQueue /\ (Peer!InOrder <=> Peer!InOrder')
    BY <1>1 DEF Peer!InOrder
  <2> QED
    BY <1>1, <1>2, <1>4, <1>5, <2>1, <2>2 DEF Accounted
<1>8. CASE Peer!ClosesSocket(force, messageQueue)
  <2>1. ~Peer!Closed /\ (messageQueue = <<>> \/ force)
    BY <1>8 DEF Peer!ClosesSocket
  <2>2. given = wire \o messageQueue /\ socketOpen
    BY <1>5, <2>1 DEF Accounted
  <2>3. socketOpen' = FALSE /\ forced' = (forced \/ force)
    BY <1>4, <1>8
  <2>4. CASE force
    BY <1>1, <1>2, <1>4, <2>2, <2>3, <2>4 DEF Accounted
  <2>5. CASE ~force
    <3>1. messageQueue = <<>> /\ given = wire
      BY <1>6, <2>1, <2>2, <2>5
    <3> QED
      BY <1>1, <1>2, <1>4, <1>6, <2>3, <3>1 DEF Accounted
  <2> QED
    BY <2>4, <2>5
<1> QED
  BY <1>2, <1>7, <1>8

(* The protocol is released by whoever closes first, and only then.         *)
LEMMA CloseReleases ==
  ASSUME Peer!ReleasedOnce, protocol \in BOOLEAN, protocol' \in BOOLEAN,
         Peer!Closed => protocol' = protocol, Closes
  PROVE  Peer!ReleasedOnce' /\ releases' \in 0..1
<1>1. PICK force \in BOOLEAN, armed \in BOOLEAN :
        Peer!Close(force, protocol', messageQueue, armed)
  BY DEF Closes
<1>2. Peer!Closed'
  BY <1>1 DEF Peer!Close, Peer!Closed
<1>3. releases' = IF protocol' /\ ~Peer!Closed THEN releases + 1 ELSE releases
  BY <1>1 DEF Peer!Close, Peer!AlreadyClosed
<1>4. releases = IF Peer!Closed /\ protocol THEN 1 ELSE 0
  BY DEF Peer!ReleasedOnce
<1>5. releases' = IF Peer!Closed' /\ protocol' THEN 1 ELSE 0
  BY <1>2, <1>3, <1>4
<1> QED
  BY <1>5 DEF Peer!ReleasedOnce

-----------------------------------------------------------------------------
(* A handler that closes and leaves the queue alone.                        *)
LEMMA CloseStep ==
  ASSUME PeerInv, UNCHANGED Peer!outgoing, Closes, ReadTypes', accepted',
         Peer!Closed => protocol' = protocol,
         task' # "none" => reading' = "none"
  PROVE  PeerInv'
<1>1. Peer!FrontStays' /\ Peer!OneWriter' /\ Accounted'
  BY CloseKeepsOutgoing
<1>2. ReadTypes /\ CloseTypes /\ WriteTypes /\ Peer!ReleasedOnce
  BY Types DEF PeerInv, OneReader
<1>3. protocol \in BOOLEAN /\ protocol' \in BOOLEAN
  BY <1>2 DEF ReadTypes
<1>4. Peer!ReleasedOnce' /\ releases' \in 0..1
  BY <1>2, <1>3, CloseReleases
<1>5. PICK force \in BOOLEAN, armed \in BOOLEAN :
        Peer!Close(force, protocol', messageQueue, armed)
  BY DEF Closes
<1>6. connectionState' = "closed" /\ Peer!Closed'
  BY <1>5 DEF Peer!Close, Peer!Closed
<1>7. CloseTypes'
  <2>1. /\ socketOpen' \in BOOLEAN /\ writeTimer' \in BOOLEAN /\ forced' \in BOOLEAN
    BY <1>2, <1>5 DEF Peer!Close, CloseTypes
  <2> QED
    BY <1>4, <1>6, <2>1 DEF CloseTypes, States
<1>8. WriteTypes'
  BY <1>2 DEF WriteTypes, Peer!outgoing
<1>9. Peer!TypeOK'
  BY <1>7, <1>8, TypesNext
<1>10. NotYetAccepted'
  BY DEF NotYetAccepted
<1>11. OneReader'
  BY <1>4, <1>6 DEF OneReader, Peer!OneReader, Peer!WaitsAreTimed
<1> QED
  BY <1>1, <1>9, <1>10, <1>11 DEF PeerInv

(* A handler that leaves the connection as open as it was, and the queue    *)
(* alone, has a read under way or a task that resumes it.                   *)
LEMMA KeepStep ==
  ASSUME PeerInv, UNCHANGED Peer!outgoing, Peer!KeepsState,
         Peer!Closed' <=> Peer!Closed, connectionState' \in States,
         ReadTypes', accepted',
         Peer!Closed => protocol' = protocol,
         task' # "none" => reading' = "none",
         ~Peer!Closed => reading' # "none" \/ task' # "none",
         ~Peer!Closed /\ reading' # "none" => readTimer'
  PROVE  PeerInv'
<1>1. UNCHANGED <<messageQueue, posted, writer, front, given, wire>>
  BY DEF Peer!outgoing
<1>2. UNCHANGED <<socketOpen, releases, forced, writeTimer>>
  BY DEF Peer!KeepsState
<1>3. ReadTypes /\ CloseTypes /\ WriteTypes
  BY Types DEF PeerInv
<1>4. Peer!TypeOK'
  <2>1. CloseTypes' /\ WriteTypes'
    BY <1>1, <1>2, <1>3 DEF CloseTypes, WriteTypes
  <2> QED
    BY <2>1, TypesNext
<1>5. Peer!FrontStays' /\ Peer!OneWriter'
  BY <1>1 DEF PeerInv, Peer!FrontStays, Peer!OneWriter
<1>6. Accounted'
  <2>1. Accounted /\ (Peer!InOrder' <=> Peer!InOrder)
    BY <1>1 DEF PeerInv, Peer!InOrder
  <2> QED
    BY <1>1, <1>2, <2>1 DEF Accounted
<1>7. Peer!ReleasedOnce'
  <2>1. releases = IF Peer!Closed /\ protocol THEN 1 ELSE 0
    BY DEF PeerInv, OneReader, Peer!ReleasedOnce
  <2>2. releases' = IF Peer!Closed' /\ protocol' THEN 1 ELSE 0
    BY <1>2, <2>1
  <2> QED
    BY <2>2 DEF Peer!ReleasedOnce
<1>8. Peer!OneReader'
  BY DEF Peer!OneReader
<1>9. Peer!WaitsAreTimed'
  BY <1>1, <1>2 DEF PeerInv, OneReader, Peer!WaitsAreTimed
<1>10. NotYetAccepted'
  BY DEF NotYetAccepted
<1> QED
  BY <1>4, <1>5, <1>6, <1>7, <1>8, <1>9, <1>10 DEF PeerInv, OneReader

-----------------------------------------------------------------------------
(* onAccept finds the connection as it was made.                            *)
LEMMA AcceptPeerInv ==
  ASSUME PeerInv, Peer!Accept
  PROVE  PeerInv'
<1>1. /\ connectionState = "open" /\ ~protocol /\ task = "none" /\ ~Peer!Closed
      /\ ReadTypes
  BY Types DEF PeerInv, NotYetAccepted, Peer!Accept, Peer!Closed
<1>2. /\ UNCHANGED Peer!outgoing
      /\ accepted' = TRUE /\ task' = "none"
      /\ UNCHANGED <<receivedFirst, packets, broken>>
  BY <1>1 DEF Peer!Accept
<1>3. CASE /\ connectionState' = "identifying" /\ protocol' = TRUE
           /\ Peer!Reads("identification") /\ Peer!KeepsState
  <2>1. reading' = "identification" /\ readTimer' = TRUE
    BY <1>3 DEF Peer!Reads
  <2>2. ReadTypes' /\ ~Peer!Closed' /\ connectionState' \in States
    BY <1>1, <1>2, <1>3, <2>1 DEF ReadTypes, Peer!Closed, States
  <2> QED
    BY <1>1, <1>2, <1>3, <2>1, <2>2, KeepStep
<1>4. CASE /\ Peer!Reads("header") /\ Peer!KeepsState
           /\ UNCHANGED <<connectionState, protocol>>
  <2>1. reading' = "header" /\ readTimer' = TRUE
    BY <1>4 DEF Peer!Reads
  <2>2. ReadTypes' /\ ~Peer!Closed' /\ connectionState' \in States
    BY <1>1, <1>2, <1>4, <2>1 DEF ReadTypes, Peer!Closed, States
  <2> QED
    BY <1>1, <1>2, <1>4, <2>1, <2>2, KeepStep
<1>5. CASE /\ protocol' \in BOOLEAN
           /\ Peer!Close(TRUE, protocol', messageQueue, FALSE)
           /\ UNCHANGED <<reading, readTimer>>
  <2>1. Closes
    BY <1>5 DEF Closes
  <2>2. ReadTypes'
    BY <1>1, <1>2, <1>5 DEF ReadTypes
  <2> QED
    BY <1>1, <1>2, <2>1, <2>2, CloseStep
<1> QED
  BY <1>3, <1>4, <1>5 DEF Peer!Accept

(* A forced close by a read handler.                                        *)
LEMMA ForceClosePeerInv ==
  ASSUME PeerInv, Peer!ForceClose, UNCHANGED Peer!outgoing,
         UNCHANGED <<protocol, task, broken>>,
         accepted', receivedFirst' \in BOOLEAN, packets' \in 0..MaxPackets
  PROVE  PeerInv'
<1>1. ReadTypes
  BY Types DEF PeerInv
<1>2. /\ reading' = "none" /\ readTimer' = FALSE
      /\ Peer!Close(TRUE, protocol, messageQueue, writeTimer)
  BY DEF Peer!ForceClose
<1>3. writeTimer \in BOOLEAN
  BY DEF PeerInv, Peer!TypeOK
<1>4. Peer!Close(TRUE, protocol', messageQueue, writeTimer)
  BY <1>2 DEF Peer!Close
<1>5. Closes
  BY <1>3, <1>4 DEF Closes
<1>6. ReadTypes'
  BY <1>1, <1>2 DEF ReadTypes
<1> QED
  BY <1>2, <1>5, <1>6, CloseStep

(* A read handler of an open connection, that goes on reading.              *)
LEMMA ReadOnPeerInv ==
  ASSUME PeerInv, UNCHANGED Peer!outgoing, Peer!KeepsState,
         NEW what \in {"identification", "remainder", "header", "body"},
         Peer!Reads(what), UNCHANGED broken, task' = "none",
         Peer!Closed => protocol' = protocol, protocol' \in BOOLEAN,
         Peer!Closed' <=> Peer!Closed, connectionState' \in States,
         accepted' = TRUE, receivedFirst' \in BOOLEAN, packets' \in 0..MaxPackets
  PROVE  PeerInv'
<1>1. ReadTypes
  BY Types DEF PeerInv
<1>2. reading' = what /\ readTimer' = TRUE
  BY DEF Peer!Reads
<1>3. ReadTypes'
  BY <1>1, <1>2 DEF ReadTypes
<1> QED
  BY <1>2, <1>3, KeepStep

LEMMA ParseHeaderPeerInv ==
  ASSUME PeerInv, Peer!ParseHeader, ~Peer!Closed, task = "none", accepted' = TRUE,
         UNCHANGED Peer!outgoing,
         UNCHANGED <<protocol, receivedFirst, task, packets, broken>>
  PROVE  PeerInv'
<1>1. ReadTypes
  BY Types DEF PeerInv
<1>2. protocol' \in BOOLEAN /\ receivedFirst' \in BOOLEAN /\ packets' \in 0..MaxPackets
  BY <1>1 DEF ReadTypes
<1>3. CASE /\ reading' = "none" /\ readTimer' = FALSE
           /\ Peer!Close(FALSE, protocol, messageQueue, writeTimer)
  <2>1. writeTimer \in BOOLEAN
    BY DEF PeerInv, Peer!TypeOK
  <2>2. Peer!Close(FALSE, protocol', messageQueue, writeTimer)
    BY <1>3 DEF Peer!Close
  <2>3. Closes
    BY <2>1, <2>2 DEF Closes
  <2>4. ReadTypes'
    BY <1>1, <1>3 DEF ReadTypes
  <2> QED
    BY <1>3, <2>3, <2>4, CloseStep
<1>4. CASE Peer!ForceClose
  BY <1>2, <1>4, ForceClosePeerInv
<1>5. CASE connectionState' = "open" /\ Peer!Reads("body") /\ Peer!KeepsState
  <2>1. ~Peer!Closed' /\ connectionState' \in States
    BY <1>5 DEF Peer!Closed, States
  <2> QED
    BY <1>2, <1>5, <2>1, ReadOnPeerInv
<1> QED
  BY <1>3, <1>4, <1>5 DEF Peer!ParseHeader

(* What is known when a read ends: the network thread has accepted, and the *)
(* dispatcher is not parsing.                                               *)
LEMMA WhileReading ==
  ASSUME PeerInv, reading # "none"
  PROVE  accepted = TRUE /\ task = "none" /\ ReadTypes
<1>1. ReadTypes
  BY Types DEF PeerInv
<1> QED
  BY <1>1 DEF PeerInv, NotYetAccepted, OneReader, Peer!OneReader, ReadTypes

LEMMA ParseProxyPeerInv ==
  ASSUME PeerInv, Peer!ParseProxyIdentification
  PROVE  PeerInv'
<1>1. reading # "none"
  BY DEF Peer!ParseProxyIdentification, Peer!Arrives
<1>2. /\ UNCHANGED Peer!outgoing
      /\ UNCHANGED <<accepted, protocol, receivedFirst, task, packets, broken>>
  BY DEF Peer!ParseProxyIdentification
<1>3. accepted' = TRUE /\ task = "none" /\ task' = "none" /\ ReadTypes
  BY <1>1, <1>2, WhileReading
<1>4. protocol' \in BOOLEAN /\ receivedFirst' \in BOOLEAN /\ packets' \in 0..MaxPackets
  BY <1>2, <1>3 DEF ReadTypes
<1>5. CASE Peer!ForceClose
  BY <1>2, <1>3, <1>4, <1>5, ForceClosePeerInv
<1>6. CASE connectionState = "identifying" /\ Peer!ParseHeader
  <2>1. ~Peer!Closed
    BY <1>6 DEF Peer!Closed
  <2> QED
    BY <1>2, <1>3, <1>6, <2>1, ParseHeaderPeerInv
<1>7. CASE /\ connectionState = "identifying" /\ connectionState' = "readings"
           /\ Peer!Reads("remainder") /\ Peer!KeepsState
  <2>1. ~Peer!Closed /\ ~Peer!Closed' /\ connectionState' \in States
    BY <1>7 DEF Peer!Closed, States
  <2> QED
    BY <1>2, <1>3, <1>4, <1>7, <2>1, ReadOnPeerInv
<1>8. CASE /\ connectionState = "readings" /\ connectionState' = "open"
           /\ Peer!Reads("header") /\ Peer!KeepsState
  <2>1. ~Peer!Closed /\ ~Peer!Closed' /\ connectionState' \in States
    BY <1>8 DEF Peer!Closed, States
  <2> QED
    BY <1>2, <1>3, <1>4, <1>8, <2>1, ReadOnPeerInv
<1> QED
  BY <1>5, <1>6, <1>7, <1>8 DEF Peer!ParseProxyIdentification

LEMMA HeaderPeerInv ==
  ASSUME PeerInv, Peer!HeaderArrives
  PROVE  PeerInv'
<1>1. reading # "none"
  BY DEF Peer!HeaderArrives, Peer!Arrives
<1>2. /\ UNCHANGED Peer!outgoing
      /\ UNCHANGED <<accepted, protocol, receivedFirst, task, packets, broken>>
  BY DEF Peer!HeaderArrives
<1>3. accepted' = TRUE /\ task = "none" /\ task' = "none" /\ ReadTypes
  BY <1>1, <1>2, WhileReading
<1>4. CASE ~Peer!Closed /\ Peer!ParseHeader
  BY <1>2, <1>3, <1>4, ParseHeaderPeerInv
<1>5. CASE /\ Peer!Closed /\ reading' = "none" /\ readTimer' = FALSE
           /\ UNCHANGED connectionState /\ Peer!KeepsState
  <2>1. ReadTypes'
    BY <1>2, <1>3, <1>5 DEF ReadTypes
  <2>2. Peer!Closed' /\ connectionState' \in States
    BY <1>5 DEF Peer!Closed, States
  <2> QED
    BY <1>2, <1>3, <1>5, <2>1, <2>2, KeepStep
<1> QED
  BY <1>4, <1>5 DEF Peer!HeaderArrives

(* The first packet, when it is accepted, is read on; ...                   *)
LEMMA FirstPacketPeerInv ==
  ASSUME PeerInv, Peer!FirstPacket, ~Peer!Closed, reading # "none",
         UNCHANGED Peer!outgoing, UNCHANGED <<accepted, broken>>,
         packets' \in 0..MaxPackets
  PROVE  PeerInv'
<1>1. accepted' = TRUE /\ task = "none" /\ task' = "none" /\ ReadTypes /\ receivedFirst' = TRUE
  BY WhileReading DEF Peer!FirstPacket
<1>2. CASE Peer!ForceClose /\ UNCHANGED protocol
  BY <1>1, <1>2, ForceClosePeerInv
<1>3. ASSUME Peer!ReadOn("header") PROVE Peer!Reads("header")
  BY <1>3 DEF Peer!ReadOn, Peer!Skips
<1>4. CASE /\ protocol' = TRUE /\ Peer!ReadOn("header") /\ Peer!KeepsState
           /\ UNCHANGED connectionState
  <2>1. ~Peer!Closed' /\ connectionState' \in States
    BY <1>4, Types DEF PeerInv, CloseTypes, Peer!Closed
  <2> QED
    BY <1>1, <1>3, <1>4, <2>1, ReadOnPeerInv
<1>5. CASE /\ protocol' = TRUE /\ Peer!ReadOn("header")
           /\ Peer!Close(FALSE, TRUE, messageQueue, writeTimer)
  <2>1. reading' = "header" /\ readTimer' = TRUE
    BY <1>3, <1>5 DEF Peer!Reads
  <2>2. ReadTypes'
    BY <1>1, <1>5, <2>1 DEF ReadTypes
  <2>3. writeTimer \in BOOLEAN
    BY DEF PeerInv, Peer!TypeOK
  <2>4. Peer!Close(FALSE, protocol', messageQueue, writeTimer)
    BY <1>5 DEF Peer!Close
  <2>5. Closes
    BY <2>3, <2>4 DEF Closes
  <2> QED
    BY <1>1, <2>2, <2>5, CloseStep
<1> QED
  BY <1>2, <1>4, <1>5 DEF Peer!FirstPacket

(* ... a later one is parsed by the dispatcher first.                       *)
LEMMA LaterPacketPeerInv ==
  ASSUME PeerInv, Peer!LaterPacket, ~Peer!Closed, reading # "none",
         UNCHANGED Peer!outgoing, UNCHANGED <<accepted, broken>>,
         packets' \in 0..MaxPackets
  PROVE  PeerInv'
<1>1. /\ accepted' = TRUE /\ task = "none" /\ ReadTypes
      /\ UNCHANGED <<protocol, receivedFirst>>
  BY WhileReading DEF Peer!LaterPacket
<1>2. protocol' \in BOOLEAN /\ receivedFirst' \in BOOLEAN
  BY <1>1 DEF ReadTypes
<1>3. ASSUME Peer!ReadOn("header") PROVE Peer!Reads("header")
  BY <1>3 DEF Peer!ReadOn, Peer!Skips
<1>4. CASE /\ task' = "queued" /\ Peer!ReadOn("none") /\ Peer!KeepsState
           /\ UNCHANGED connectionState
  <2>1. reading' = "none" /\ readTimer' = TRUE
    BY <1>4 DEF Peer!ReadOn, Peer!Skips, Peer!Reads
  <2>2. ~Peer!Closed' /\ connectionState' \in States
    BY <1>4, Types DEF PeerInv, CloseTypes, Peer!Closed
  <2>3. ReadTypes'
    BY <1>1, <1>4, <2>1 DEF ReadTypes
  <2> QED
    BY <1>1, <1>4, <2>1, <2>2, <2>3, KeepStep
<1>5. CASE /\ Peer!ReadOn("header") /\ Peer!KeepsState
           /\ UNCHANGED <<connectionState, task>>
  <2>1. ~Peer!Closed' /\ connectionState' \in States
    BY <1>5, Types DEF PeerInv, CloseTypes, Peer!Closed
  <2> QED
    BY <1>1, <1>2, <1>3, <1>5, <2>1, ReadOnPeerInv
<1>6. CASE /\ Peer!ReadOn("header")
           /\ Peer!Close(TRUE, protocol, messageQueue, writeTimer)
           /\ UNCHANGED task
  <2>1. reading' = "header" /\ readTimer' = TRUE
    BY <1>3, <1>6 DEF Peer!Reads
  <2>2. ReadTypes'
    BY <1>1, <1>6, <2>1 DEF ReadTypes
  <2>3. writeTimer \in BOOLEAN
    BY DEF PeerInv, Peer!TypeOK
  <2>4. Peer!Close(TRUE, protocol', messageQueue, writeTimer)
    BY <1>1, <1>6 DEF Peer!Close
  <2>5. Closes
    BY <2>3, <2>4 DEF Closes
  <2> QED
    BY <1>1, <1>6, <2>2, <2>5, CloseStep
<1> QED
  BY <1>4, <1>5, <1>6 DEF Peer!LaterPacket

LEMMA ParsePacketPeerInv ==
  ASSUME PeerInv, Peer!ParsePacket
  PROVE  PeerInv'
<1>1. reading # "none" /\ packets < MaxPackets
  BY DEF Peer!ParsePacket, Peer!Arrives
<1>2. /\ UNCHANGED Peer!outgoing /\ UNCHANGED <<accepted, broken>>
      /\ packets' = packets + 1
  BY DEF Peer!ParsePacket
<1>3. accepted = TRUE /\ ReadTypes
  BY <1>1, WhileReading
<1>4. packets' \in 0..MaxPackets
  BY <1>1, <1>2, <1>3, BoundsAssumption DEF ReadTypes
<1>5. CASE ~Peer!Closed /\ Peer!FirstPacket
  BY <1>1, <1>2, <1>4, <1>5, FirstPacketPeerInv
<1>6. CASE ~Peer!Closed /\ Peer!LaterPacket
  BY <1>1, <1>2, <1>4, <1>6, LaterPacketPeerInv
<1>7. CASE Peer!ForceClose /\ UNCHANGED <<protocol, receivedFirst, task>>
  <2>1. receivedFirst' \in BOOLEAN
    BY <1>3, <1>7 DEF ReadTypes
  <2> QED
    BY <1>2, <1>3, <1>4, <1>7, <2>1, ForceClosePeerInv
<1> QED
  BY <1>5, <1>6, <1>7 DEF Peer!ParsePacket

LEMMA ReadFailsPeerInv ==
  ASSUME PeerInv, Peer!ReadFails
  PROVE  PeerInv'
<1>1. /\ reading # "none" /\ Peer!ForceClose /\ UNCHANGED Peer!outgoing
      /\ UNCHANGED <<accepted, protocol, receivedFirst, task, packets, broken>>
  BY DEF Peer!ReadFails
<1>2. accepted = TRUE /\ ReadTypes
  BY <1>1, WhileReading
<1>3. receivedFirst' \in BOOLEAN /\ packets' \in 0..MaxPackets
  BY <1>1, <1>2 DEF ReadTypes
<1> QED
  BY <1>1, <1>2, <1>3, ForceClosePeerInv

-----------------------------------------------------------------------------
(* The dispatcher's side of reading: the task, and resumeWork.              *)
LEMMA TaskPeerInv ==
  ASSUME PeerInv, Peer!StartTask \/ Peer!ResumeWork
  PROVE  PeerInv'
<1>1. /\ task # "none" /\ UNCHANGED Peer!outgoing
      /\ UNCHANGED <<connectionState, socketOpen, releases, forced, writeTimer>>
      /\ UNCHANGED <<accepted, protocol, receivedFirst, packets, broken>>
  BY DEF Peer!StartTask, Peer!ResumeWork, Peer!closing, Peer!timers
<1>2. ReadTypes /\ accepted /\ reading = "none" /\ connectionState \in States
  BY <1>1, Types DEF PeerInv, NotYetAccepted, OneReader, Peer!OneReader, CloseTypes
<1>3. Peer!KeepsState /\ (Peer!Closed' <=> Peer!Closed) /\ connectionState' \in States
  BY <1>1, <1>2 DEF Peer!KeepsState, Peer!Closed
<1>4. CASE Peer!StartTask
  <2>1. task' = "parsing" /\ UNCHANGED <<reading, readTimer>>
    BY <1>4 DEF Peer!StartTask, Peer!timers
  <2>2. ReadTypes'
    BY <1>1, <1>2, <2>1 DEF ReadTypes
  <2> QED
    BY <1>1, <1>2, <1>3, <2>1, <2>2, KeepStep
<1>5. CASE Peer!ResumeWork
  <2>1. task' = "none" /\ reading' = "header" /\ readTimer' = TRUE
    BY <1>5 DEF Peer!ResumeWork
  <2>2. ReadTypes'
    BY <1>1, <1>2, <2>1 DEF ReadTypes
  <2> QED
    BY <1>1, <1>2, <1>3, <2>1, <2>2, KeepStep
<1> QED
  BY <1>4, <1>5

(* A close by somebody else than a read handler, who leaves the read under  *)
(* way as it is.                                                            *)
LEMMA OtherClosePeerInv ==
  ASSUME PeerInv, accepted, NEW force \in BOOLEAN, NEW armed \in BOOLEAN,
         Peer!Close(force, protocol, messageQueue, armed),
         UNCHANGED Peer!outgoing, UNCHANGED Peer!incoming,
         UNCHANGED <<accepted, broken>>, readTimer' \in BOOLEAN
  PROVE  PeerInv'
<1>1. ReadTypes /\ (task # "none" => reading = "none")
  BY Types DEF PeerInv, OneReader, Peer!OneReader
<1>2. UNCHANGED <<reading, protocol, receivedFirst, task, packets>>
  BY DEF Peer!incoming
<1>3. ReadTypes'
  BY <1>1, <1>2 DEF ReadTypes
<1>4. Closes
  <2>1. Peer!Close(force, protocol', messageQueue, armed)
    BY <1>2 DEF Peer!Close
  <2> QED
    BY <2>1 DEF Closes
<1> QED
  BY <1>1, <1>2, <1>3, <1>4, CloseStep

LEMMA DisconnectPeerInv ==
  ASSUME PeerInv, NEW force \in BOOLEAN, Peer!Disconnect(force)
  PROVE  PeerInv'
<1>1. writeTimer \in BOOLEAN /\ readTimer \in BOOLEAN
  BY DEF PeerInv, Peer!TypeOK
<1>2. /\ accepted /\ Peer!Close(force, protocol, messageQueue, writeTimer)
      /\ Peer!CancelsRead(force, messageQueue)
      /\ UNCHANGED Peer!outgoing /\ UNCHANGED Peer!incoming
      /\ UNCHANGED <<accepted, broken>>
  BY DEF Peer!Disconnect
<1>3. readTimer' \in BOOLEAN
  BY <1>1, <1>2 DEF Peer!CancelsRead
<1> QED
  BY <1>1, <1>2, <1>3, OtherClosePeerInv

LEMMA TimeoutPeerInv ==
  ASSUME PeerInv, Peer!ReadTimeout \/ Peer!WriteTimeout
  PROVE  PeerInv'
<1>1. writeTimer \in BOOLEAN /\ readTimer \in BOOLEAN
  BY DEF PeerInv, Peer!TypeOK
<1>2. CASE Peer!ReadTimeout
  <2>1. /\ accepted /\ Peer!Close(TRUE, protocol, messageQueue, writeTimer)
        /\ UNCHANGED Peer!outgoing /\ UNCHANGED Peer!incoming
        /\ UNCHANGED <<accepted, broken>> /\ readTimer' = FALSE
    BY <1>2 DEF Peer!ReadTimeout, Peer!NetworkFree
  <2> QED
    BY <1>1, <2>1, OtherClosePeerInv
<1>3. CASE Peer!WriteTimeout
  <2>1. /\ accepted /\ Peer!Close(TRUE, protocol, messageQueue, FALSE)
        /\ UNCHANGED Peer!outgoing /\ UNCHANGED Peer!incoming
        /\ UNCHANGED <<accepted, broken>>
        /\ Peer!CancelsRead(TRUE, messageQueue)
    BY <1>3 DEF Peer!WriteTimeout, Peer!NetworkFree
  <2>2. readTimer' \in BOOLEAN
    BY <1>1, <2>1 DEF Peer!CancelsRead
  <2> QED
    BY <2>1, <2>2, OtherClosePeerInv
<1> QED
  BY <1>2, <1>3

LEMMA PeerBreaksPeerInv ==
  ASSUME PeerInv, Peer!PeerBreaks
  PROVE  PeerInv'
<1>1. /\ accepted /\ UNCHANGED Peer!outgoing /\ broken' = TRUE
      /\ UNCHANGED <<connectionState, socketOpen, releases, forced, writeTimer>>
      /\ UNCHANGED <<accepted, protocol, receivedFirst, task, packets, reading, readTimer>>
  BY DEF Peer!PeerBreaks, Peer!closing, Peer!timers, Peer!incoming
<1>2. /\ ReadTypes /\ connectionState \in States
      /\ task # "none" => reading = "none"
      /\ ~Peer!Closed => reading # "none" \/ task # "none"
      /\ ~Peer!Closed /\ reading # "none" => readTimer
  BY <1>1, Types
    DEF PeerInv, OneReader, Peer!OneReader, Peer!WaitsAreTimed, CloseTypes
<1>3. Peer!KeepsState /\ (Peer!Closed' <=> Peer!Closed) /\ connectionState' \in States
  BY <1>1, <1>2 DEF Peer!KeepsState, Peer!Closed
<1>4. ReadTypes'
  BY <1>1, <1>2 DEF ReadTypes
<1> QED
  BY <1>1, <1>2, <1>3, <1>4, KeepStep

-----------------------------------------------------------------------------
(* The steps of the writer leave what is read, and whether the connection   *)
(* is closed, as it is.                                                     *)
LEMMA WriterStep ==
  ASSUME PeerInv, UNCHANGED Peer!incoming,
         UNCHANGED <<accepted, broken, connectionState, releases>>,
         readTimer' \in BOOLEAN,
         ~Peer!Closed => readTimer' = readTimer,
         writer' = "writing" /\ socketOpen' /\ ~Peer!Closed => writeTimer',
         socketOpen' \in BOOLEAN, writeTimer' \in BOOLEAN, forced' \in BOOLEAN,
         WriteTypes', Peer!FrontStays', Peer!OneWriter', Accounted'
  PROVE  PeerInv'
<1>1. UNCHANGED <<reading, protocol, receivedFirst, task, packets>>
  BY DEF Peer!incoming
<1>2. Peer!Closed' <=> Peer!Closed
  BY DEF Peer!Closed
<1>3. ReadTypes /\ CloseTypes
  BY Types DEF PeerInv
<1>4. ReadTypes' /\ CloseTypes'
  BY <1>1, <1>3 DEF ReadTypes, CloseTypes
<1>5. Peer!TypeOK'
  BY <1>4, TypesNext
<1>6. NotYetAccepted'
  BY <1>1 DEF PeerInv, NotYetAccepted
<1>7. Peer!OneReader'
  BY <1>1, <1>2 DEF PeerInv, OneReader, Peer!OneReader
<1>8. Peer!WaitsAreTimed'
  BY <1>1, <1>2 DEF PeerInv, OneReader, Peer!WaitsAreTimed
<1>9. Peer!ReleasedOnce'
  BY <1>1, <1>2 DEF PeerInv, OneReader, Peer!ReleasedOnce
<1> QED
  BY <1>5, <1>6, <1>7, <1>8, <1>9 DEF PeerInv, OneReader

(* An open connection still has all it accepted, written or in the queue.   *)
LEMMA WhileOpen ==
  ASSUME PeerInv, ~Peer!Closed
  PROVE  given = wire \o messageQueue /\ socketOpen
  BY DEF PeerInv, Accounted

LEMMA SendPeerInv ==
  ASSUME PeerInv, Peer!Send
  PROVE  PeerInv'
<1> DEFINE message == Len(given) + 1
<1>1. /\ ~Peer!Closed /\ Len(given) < MaxMessages
      /\ messageQueue' = Append(messageQueue, message)
      /\ given' = Append(given, message)
      /\ posted' = IF messageQueue = <<>> THEN posted + 1 ELSE posted
      /\ UNCHANGED Peer!incoming /\ UNCHANGED Peer!closing /\ UNCHANGED Peer!timers
      /\ UNCHANGED <<accepted, writer, front, wire, broken>>
  BY DEF Peer!Send, Peer!Queued, Peer!NoPendingWrite
<1>2. UNCHANGED <<connectionState, socketOpen, releases, forced, readTimer, writeTimer>>
  BY <1>1 DEF Peer!closing, Peer!timers
<1>3. ReadTypes /\ CloseTypes /\ WriteTypes
  BY Types DEF PeerInv
<1>4. message \in Peer!Messages
  <2>1. Len(given) \in Nat
    BY <1>3, LenProperties DEF WriteTypes
  <2> QED
    BY <1>1, <2>1, BoundsAssumption DEF Peer!Messages
<1> HIDE DEF message
<1>5. /\ messageQueue' \in Seq(Peer!Messages) /\ given' \in Seq(Peer!Messages)
      /\ messageQueue' # <<>>
      /\ messageQueue # <<>> => Head(messageQueue') = Head(messageQueue)
  BY <1>1, <1>3, <1>4, AppendProperties DEF WriteTypes
<1>6. posted' \in Nat
  BY <1>1, <1>3 DEF WriteTypes
<1>7. WriteTypes'
  BY <1>1, <1>3, <1>5, <1>6 DEF WriteTypes
<1>8. Peer!FrontStays'
  BY <1>1, <1>5 DEF PeerInv, Peer!FrontStays
<1>9. Peer!OneWriter'
  <2>1. posted + (IF writer = "idle" THEN 0 ELSE 1)
          = IF messageQueue = <<>> THEN 0 ELSE 1
    BY DEF PeerInv, Peer!OneWriter
  <2>2. posted' + (IF writer = "idle" THEN 0 ELSE 1) = 1
    BY <1>1, <1>3, <2>1 DEF WriteTypes
  <2> QED
    BY <1>1, <1>5, <2>2 DEF Peer!OneWriter
<1>10. Accounted'
  <2>1. given = wire \o messageQueue /\ socketOpen
    BY <1>1, WhileOpen
  <2>2. given' = wire \o messageQueue'
    <3>1. wire \o Append(messageQueue, message) = Append(wire \o messageQueue, message)
      BY <1>3, <1>4, AppendMoves DEF WriteTypes
    <3> QED
      BY <1>1, <2>1, <3>1
  <2>3. given' = wire' \o messageQueue' /\ socketOpen'
    BY <1>1, <1>2, <2>1, <2>2
  <2> QED
    BY <2>3 DEF Accounted
<1>11. writer' = "writing" /\ socketOpen' /\ ~Peer!Closed => writeTimer'
  BY <1>1, <1>2 DEF PeerInv, OneReader, Peer!WaitsAreTimed
<1>12. /\ readTimer' \in BOOLEAN /\ socketOpen' \in BOOLEAN
       /\ writeTimer' \in BOOLEAN /\ forced' \in BOOLEAN
  BY <1>2, <1>3 DEF ReadTypes, CloseTypes
<1> QED
  BY <1>1, <1>2, <1>7, <1>8, <1>9, <1>10, <1>11, <1>12, WriterStep

(* The writer takes its reference, or starts to write.                      *)
LEMMA EncodePeerInv ==
  ASSUME PeerInv, Peer!InternalWorker \/ Peer!InternalSend
  PROVE  PeerInv'
<1>1. /\ UNCHANGED Peer!incoming /\ UNCHANGED Peer!closing
      /\ UNCHANGED <<accepted, readTimer, messageQueue, given, wire, broken>>
  BY DEF Peer!InternalWorker, Peer!InternalSend, Peer!timers
<1>2. UNCHANGED <<connectionState, socketOpen, releases, forced>>
  BY <1>1 DEF Peer!closing
<1>3. ReadTypes /\ CloseTypes /\ WriteTypes
  BY Types DEF PeerInv
<1>4. Accounted'
  <2>1. Accounted /\ (Peer!InOrder' <=> Peer!InOrder) /\ (Peer!Closed' <=> Peer!Closed)
    BY <1>1, <1>2 DEF PeerInv, Peer!InOrder, Peer!Closed
  <2> QED
    BY <1>1, <1>2, <2>1 DEF Accounted
<1>5. readTimer' \in BOOLEAN /\ socketOpen' \in BOOLEAN /\ forced' \in BOOLEAN
  BY <1>1, <1>2, <1>3 DEF ReadTypes, CloseTypes
<1>6. posted + (IF writer = "idle" THEN 0 ELSE 1)
        = IF messageQueue = <<>> THEN 0 ELSE 1
  BY DEF PeerInv, Peer!OneWriter
<1>7. CASE Peer!InternalWorker
  <2>1. /\ posted > 0 /\ messageQueue # <<>> /\ posted' = posted - 1
        /\ writer' = "encoding" /\ front' = Head(messageQueue)
        /\ UNCHANGED writeTimer
    BY <1>7 DEF Peer!InternalWorker, Peer!timers
  <2>2. posted' = 0
    BY <1>3, <1>6, <2>1 DEF WriteTypes
  <2>3. Head(messageQueue) \in 0..MaxMessages
    <3>1. Head(messageQueue) \in Peer!Messages
      BY <1>3, <2>1, HeadTailProperties DEF WriteTypes
    <3> QED
      BY <3>1, BoundsAssumption DEF Peer!Messages
  <2>4. WriteTypes'
    BY <1>1, <1>3, <2>1, <2>2, <2>3 DEF WriteTypes
  <2>5. Peer!FrontStays' /\ Peer!OneWriter'
    BY <1>1, <2>1, <2>2 DEF Peer!FrontStays, Peer!OneWriter
  <2>6. writeTimer' \in BOOLEAN /\ ~(writer' = "writing")
    BY <1>3, <2>1 DEF CloseTypes
  <2> QED
    BY <1>1, <1>2, <1>4, <1>5, <2>4, <2>5, <2>6, WriterStep
<1>8. CASE Peer!InternalSend
  <2>1. /\ writer = "encoding" /\ writer' = "writing" /\ writeTimer' = TRUE
        /\ UNCHANGED <<posted, front>>
    BY <1>8 DEF Peer!InternalSend
  <2>2. WriteTypes'
    BY <1>1, <1>3, <2>1 DEF WriteTypes
  <2>3. Peer!FrontStays'
    BY <1>1, <2>1 DEF PeerInv, Peer!FrontStays
  <2>4. Peer!OneWriter'
    <3>1. posted' + 1 = IF messageQueue' = <<>> THEN 0 ELSE 1
      BY <1>1, <1>6, <2>1
    <3> QED
      BY <2>1, <3>1 DEF Peer!OneWriter
  <2> QED
    BY <1>1, <1>2, <1>4, <1>5, <2>1, <2>2, <2>3, <2>4, WriterStep
<1> QED
  BY <1>7, <1>8

(* A message is written; the next one follows, or, when the connection was  *)
(* closed meanwhile, the socket goes.                                       *)
LEMMA WrittenPeerInv ==
  ASSUME PeerInv, Peer!Written
  PROVE  PeerInv'
<1>1. /\ writer = "writing" /\ socketOpen
      /\ wire' = Append(wire, front) /\ messageQueue' = Tail(messageQueue)
      /\ writeTimer' = FALSE
      /\ UNCHANGED <<accepted, posted, connectionState, releases, forced, given, broken>>
      /\ UNCHANGED Peer!incoming
  BY DEF Peer!Written, Peer!Popped
<1>2. ReadTypes /\ CloseTypes /\ WriteTypes
  BY Types DEF PeerInv
<1>3. messageQueue # <<>> /\ front = Head(messageQueue)
  BY <1>1 DEF PeerInv, Peer!FrontStays
<1>4. posted = 0
  <2>1. posted + 1 = 1
    BY <1>1, <1>3 DEF PeerInv, Peer!OneWriter
  <2> QED
    BY <1>2, <2>1 DEF WriteTypes
<1>5. /\ front \in Peer!Messages
      /\ messageQueue' \in Seq(Peer!Messages) /\ wire' \in Seq(Peer!Messages)
  BY <1>1, <1>2, <1>3, HeadTailProperties, AppendProperties DEF WriteTypes
<1>6. given = wire' \o messageQueue'
  <2>1. given = wire \o messageQueue
    BY <1>3 DEF PeerInv, Accounted
  <2> QED
    BY <1>1, <1>2, <1>3, <2>1, HeadMoves DEF WriteTypes
<1>7. wire' \o <<>> = wire'
  BY <1>5, ConcatEmptySeq
<1>8. Peer!Closed' <=> Peer!Closed
  BY <1>1 DEF Peer!Closed
<1>9. readTimer \in BOOLEAN /\ forced' \in BOOLEAN
  BY <1>1, <1>2 DEF ReadTypes, CloseTypes
<1>10. CASE /\ messageQueue' # <<>>
            /\ writer' = "encoding" /\ front' = Head(messageQueue')
            /\ UNCHANGED <<socketOpen, readTimer>>
  <2>1. front' \in 0..MaxMessages
    <3>1. front' \in Peer!Messages
      BY <1>5, <1>10, HeadTailProperties
    <3> QED
      BY <3>1, BoundsAssumption DEF Peer!Messages
  <2>2. WriteTypes'
    BY <1>1, <1>2, <1>5, <1>10, <2>1 DEF WriteTypes
  <2>3. Peer!FrontStays'
    BY <1>10 DEF Peer!FrontStays
  <2>4. Peer!OneWriter'
    BY <1>1, <1>4, <1>10 DEF Peer!OneWriter
  <2>5. Accounted'
    BY <1>1, <1>6, <1>10 DEF Accounted
  <2> QED
    BY <1>1, <1>9, <1>10, <2>2, <2>3, <2>4, <2>5, WriterStep
<1>11. CASE /\ messageQueue' = <<>>
            /\ writer' = "idle" /\ front' = 0
            /\ socketOpen' = ~Peer!Closed
            /\ readTimer' = (readTimer /\ ~Peer!Closed)
  <2>1. 0 \in 0..MaxMessages
    BY BoundsAssumption
  <2>2. WriteTypes'
    BY <1>1, <1>2, <1>5, <1>11, <2>1 DEF WriteTypes
  <2>3. Peer!FrontStays'
    BY <1>11 DEF Peer!FrontStays
  <2>4. Peer!OneWriter'
    BY <1>1, <1>4, <1>11 DEF Peer!OneWriter
  <2>5. given' = wire'
    BY <1>1, <1>6, <1>7, <1>11
  <2>6. Accounted'
    BY <1>7, <1>8, <1>11, <2>5 DEF Accounted
  <2>7. socketOpen' \in BOOLEAN /\ readTimer' \in BOOLEAN /\ (~Peer!Closed => readTimer' = readTimer)
    BY <1>9, <1>11
  <2> QED
    BY <1>1, <1>9, <1>11, <2>2, <2>3, <2>4, <2>6, <2>7, WriterStep
<1> QED
  BY <1>10, <1>11 DEF Peer!Written, Peer!GoesOn, Peer!ClosesAfterLast

(* A write fails: the queue is dropped and the connection closed by force;  *)
(* one that was closed already keeps its socket.                            *)
LEMMA WriteFailsPeerInv ==
  ASSUME PeerInv, Peer!WriteFails
  PROVE  PeerInv'
<1>1. /\ writer = "writing" /\ messageQueue' = <<>> /\ writer' = "idle" /\ front' = 0
      /\ Peer!Close(TRUE, protocol, <<>>, FALSE) /\ Peer!CancelsRead(TRUE, <<>>)
      /\ UNCHANGED <<accepted, posted, given, wire, broken>>
      /\ UNCHANGED Peer!incoming
      /\ accepted
  BY DEF Peer!WriteFails, Peer!NetworkFree
<1>2. ReadTypes /\ CloseTypes /\ WriteTypes
  BY Types DEF PeerInv
<1>3. messageQueue # <<>>
  BY <1>1 DEF PeerInv, Peer!FrontStays
<1>4. posted = 0
  <2>1. posted + 1 = 1
    BY <1>1, <1>3 DEF PeerInv, Peer!OneWriter
  <2> QED
    BY <1>2, <2>1 DEF WriteTypes
<1>5. UNCHANGED <<reading, protocol, receivedFirst, task, packets>>
  BY <1>1 DEF Peer!incoming
<1>6. /\ connectionState' = "closed" /\ Peer!Closed' /\ writeTimer' = FALSE
      /\ socketOpen' = (socketOpen /\ Peer!Closed)
      /\ forced' = (forced \/ ~Peer!Closed)
  BY <1>1 DEF Peer!Close, Peer!ClosesSocket, Peer!Closed
<1>7. /\ readTimer' \in BOOLEAN /\ socketOpen' \in BOOLEAN /\ forced' \in BOOLEAN
  BY <1>1, <1>2, <1>6 DEF ReadTypes, CloseTypes, Peer!CancelsRead
<1>8. Peer!ReleasedOnce' /\ releases' \in 0..1
  <2>1. releases = IF Peer!Closed /\ protocol THEN 1 ELSE 0
    BY DEF PeerInv, OneReader, Peer!ReleasedOnce
  <2>2. releases' = IF protocol /\ ~Peer!Closed THEN releases + 1 ELSE releases
    BY <1>1 DEF Peer!Close, Peer!AlreadyClosed
  <2>3. protocol \in BOOLEAN
    BY <1>2 DEF ReadTypes
  <2>4. releases' = IF Peer!Closed' /\ protocol' THEN 1 ELSE 0
    BY <1>5, <1>6, <2>1, <2>2, <2>3
  <2> QED
    BY <2>4 DEF Peer!ReleasedOnce
<1>9. Peer!TypeOK'
  <2>1. ReadTypes'
    BY <1>1, <1>2, <1>5, <1>7 DEF ReadTypes
  <2>2. CloseTypes'
    BY <1>6, <1>7, <1>8 DEF CloseTypes, States
  <2>3. 0 \in 0..MaxMessages /\ <<>> \in Seq(Peer!Messages)
    BY BoundsAssumption, EmptySeq
  <2>4. WriteTypes'
    BY <1>1, <1>2, <2>3 DEF WriteTypes
  <2> QED
    BY <2>1, <2>2, <2>4, TypesNext
<1>10. Peer!FrontStays' /\ Peer!OneWriter'
  BY <1>1, <1>4 DEF Peer!FrontStays, Peer!OneWriter
<1>11. Accounted'
  <2>1. given = wire \o messageQueue
    BY <1>3 DEF PeerInv, Accounted
  <2>2. Peer!IsPrefix(wire, given)
    BY <1>2, <2>1, PrefixOfConcat DEF WriteTypes
  <2>3. Peer!InOrder'
    BY <1>1, <2>2 DEF Peer!InOrder
  <2>4. ~(~socketOpen /\ ~forced)
    BY <1>3 DEF PeerInv, Accounted
  <2>5. socketOpen' \/ forced'
    BY <1>6, <2>4
  <2>6. messageQueue' = <<>> /\ Peer!Closed'
    BY <1>1, <1>6
  <2> QED
    BY <2>3, <2>5, <2>6 DEF Accounted
<1>12. Peer!OneReader' /\ Peer!WaitsAreTimed'
  BY <1>5, <1>6 DEF PeerInv, OneReader, Peer!OneReader, Peer!WaitsAreTimed
<1> QED
  BY <1>1, <1>8, <1>9, <1>10, <1>11, <1>12 DEF PeerInv, OneReader, NotYetAccepted

-----------------------------------------------------------------------------
LEMMA NextPeerInv ==
  ASSUME PeerInv, [Peer!Next]_Peer!vars
  PROVE  PeerInv'
<1>1. CASE Peer!Next
  <2>1. CASE Peer!Accept
    BY <2>1, AcceptPeerInv
  <2>2. CASE Peer!ParseProxyIdentification
    BY <2>2, ParseProxyPeerInv
  <2>3. CASE Peer!HeaderArrives
    BY <2>3, HeaderPeerInv
  <2>4. CASE Peer!ParsePacket
    BY <2>4, ParsePacketPeerInv
  <2>5. CASE Peer!ReadFails
    BY <2>5, ReadFailsPeerInv
  <2>6. CASE Peer!StartTask \/ Peer!ResumeWork
    BY <2>6, TaskPeerInv
  <2>7. CASE Peer!Send
    BY <2>7, SendPeerInv
  <2>8. CASE Peer!Disconnect(TRUE) \/ Peer!Disconnect(FALSE)
    BY <2>8, DisconnectPeerInv
  <2>9. CASE Peer!InternalWorker \/ Peer!InternalSend
    BY <2>9, EncodePeerInv
  <2>10. CASE Peer!Written
    BY <2>10, WrittenPeerInv
  <2>11. CASE Peer!WriteFails
    BY <2>11, WriteFailsPeerInv
  <2>12. CASE Peer!ReadTimeout \/ Peer!WriteTimeout
    BY <2>12, TimeoutPeerInv
  <2>13. CASE Peer!PeerBreaks
    BY <2>13, PeerBreaksPeerInv
  <2> QED
    BY <1>1, <2>1, <2>2, <2>3, <2>4, <2>5, <2>6, <2>7, <2>8, <2>9, <2>10,
      <2>11, <2>12, <2>13 DEF Peer!Next
<1>2. CASE UNCHANGED Peer!vars
  BY <1>2 DEF Peer!vars, Peer!closing, Peer!timers, Peer!outgoing, Peer!incoming,
    PeerInv, Peer!TypeOK, Peer!FrontStays, Peer!OneWriter, Accounted, Peer!InOrder,
    Peer!Closed, NotYetAccepted, OneReader, Peer!OneReader, Peer!WaitsAreTimed,
    Peer!ReleasedOnce
<1> QED
  BY <1>1, <1>2

(* The account of the messages says what the peer gets: a prefix of what    *)
(* was sent, and all of it when the socket is not closed by force.          *)
LEMMA PeerInvWritten ==
  ASSUME PeerInv
  PROVE  Written
<1>1. WriteTypes
  BY Types DEF PeerInv
<1>2. Peer!InOrder
  <2>1. CASE given = wire \o messageQueue
    BY <1>1, <2>1, PrefixOfConcat DEF WriteTypes, Peer!InOrder
  <2>2. CASE given # wire \o messageQueue
    BY <2>2 DEF PeerInv, Accounted
  <2> QED
    BY <2>1, <2>2
<1>3. Peer!GracefulFlush
  BY DEF PeerInv, Accounted, Peer!GracefulFlush
<1> QED
  BY <1>2, <1>3 DEF PeerInv, Written

(* Whatever the network and the dispatcher do in whatever order, what a     *)
(* client is sent is written once, in order, by one writer at a time, and a *)
(* close that is not forced lets all of it go out (Connection::send,        *)
(* internalWorker, internalSend, onWriteOperation, close).                  *)
THEOREM SentIsWritten == Peer!Spec => []Written
<1>1. Peer!Init => PeerInv
  BY InitPeerInv
<1>2. PeerInv /\ [Peer!Next]_Peer!vars => PeerInv'
  BY NextPeerInv
<1>3. PeerInv => Written
  BY PeerInvWritten
<1> QED
  BY <1>1, <1>2, <1>3, PTL DEF Peer!Spec

(* A connection has at most one read under way, none while its packet is    *)
(* parsed, a timer on every wait of an open connection, and a protocol that *)
(* is released once (Connection::parseHeader, parsePacket, resumeWork,      *)
(* close).                                                                  *)
THEOREM ReadsAlternate == Peer!Spec => []OneReader
<1>1. Peer!Init => PeerInv
  BY InitPeerInv
<1>2. PeerInv /\ [Peer!Next]_Peer!vars => PeerInv'
  BY NextPeerInv
<1>3. PeerInv => OneReader
  BY DEF PeerInv
<1> QED
  BY <1>1, <1>2, <1>3, PTL DEF Peer!Spec

-----------------------------------------------------------------------------
(* Who plays the character, and who waits to take it over.                  *)
Playing == {c \in player \cap open : at[c] = "in"}
Connecting == {c \in Protocols : at[c] = "connecting"}

(* As long as no login came between another and its connect, only the       *)
(* client plays, and nobody does once somebody waits to take over: that     *)
(* login has closed the client.                                             *)
ClientPlays ==
    ~raced /\ inGame =>
        /\ Playing \subseteq {playerClient}
        /\ \A c, d \in Connecting : c = d
        /\ Connecting # {} => Playing = {}

NobodyPlays == ~inGame => player = {} /\ playerClient = Nobody /\ ~isConnecting

Attached == Logins!ClientAttached /\ Logins!Awaited

LoginsInv == Logins!TypeOK /\ ClientPlays /\ NobodyPlays /\ Attached

(* The functions and sets of TypeOK, and its flags.                         *)
Steps == {"none", "asked", "connecting", "in"}

SetTypes ==
    /\ at \in [Protocols -> Steps]
    /\ open \subseteq Protocols
    /\ sessionReleases \subseteq Protocols \ open
    /\ player \subseteq Protocols
    /\ playerClient \in Protocols \cup {Nobody}

FlagTypes ==
    /\ inGame \in BOOLEAN /\ isConnecting \in BOOLEAN
    /\ late \in BOOLEAN /\ dropped \in BOOLEAN /\ raced \in BOOLEAN

LEMMA LoginTypes == Logins!TypeOK <=> SetTypes /\ FlagTypes
  BY DEF Logins!TypeOK, SetTypes, FlagTypes, Steps

LEMMA LoginTypesNext == Logins!TypeOK' <=> SetTypes' /\ FlagTypes'
  BY DEF Logins!TypeOK, SetTypes, FlagTypes, Steps

LEMMA InitLoginsInv == Logins!Init => LoginsInv
<1> SUFFICES ASSUME Logins!Init PROVE LoginsInv
  OBVIOUS
<1>1. Logins!TypeOK
  <2>1. SetTypes
    BY DEF Logins!Init, SetTypes, Steps
  <2>2. FlagTypes
    BY DEF Logins!Init, FlagTypes
  <2> QED
    BY <2>1, <2>2, LoginTypes
<1>2. ClientPlays /\ NobodyPlays /\ Attached
  BY DEF Logins!Init, ClientPlays, NobodyPlays, Attached, Logins!ClientAttached,
    Logins!Awaited
<1> QED
  BY <1>1, <1>2 DEF LoginsInv

-----------------------------------------------------------------------------
(* What a step that gives the character no new client has to show.          *)
LEMMA FirstMessageLoginsInv ==
  ASSUME LoginsInv, NEW c \in Protocols, Logins!FirstMessage(c)
  PROVE  LoginsInv'
<1>1. /\ at[c] = "none" /\ c \notin open \cup sessionReleases
      /\ at' = [at EXCEPT ![c] = "asked"] /\ open' = open \cup {c}
      /\ UNCHANGED <<sessionReleases, inGame, player, playerClient, isConnecting>>
      /\ UNCHANGED <<late, dropped, raced>>
  BY DEF Logins!FirstMessage, Logins!Becomes, Logins!playerVars, Logins!history
<1>2. SetTypes /\ FlagTypes
  BY LoginTypes DEF LoginsInv
<1>3. SetTypes' /\ FlagTypes'
  BY <1>1, <1>2 DEF SetTypes, FlagTypes, Steps
<1>4. Logins!TypeOK'
  BY <1>3, LoginTypesNext
<1>5. ClientPlays'
  <2>1. Playing' = Playing /\ Connecting' = Connecting
    BY <1>1, <1>2 DEF Playing, Connecting, SetTypes
  <2> QED
    BY <1>1, <2>1 DEF LoginsInv, ClientPlays
<1>6. NobodyPlays'
  BY <1>1 DEF LoginsInv, NobodyPlays
<1>7. Logins!ClientAttached'
  BY <1>1, <1>2, ProtocolsAssumption
    DEF LoginsInv, Attached, Logins!ClientAttached, SetTypes
<1>8. Logins!Awaited'
  BY <1>1, <1>2 DEF LoginsInv, Attached, Logins!Awaited, SetTypes
<1> QED
  BY <1>4, <1>5, <1>6, <1>7, <1>8 DEF LoginsInv, Attached

LEMMA BreakLoginsInv ==
  ASSUME LoginsInv, NEW c \in Protocols, Logins!Break(c)
  PROVE  LoginsInv'
<1>1. /\ open' = open \ {c} /\ sessionReleases' = sessionReleases \cup ({c} \cap open)
      /\ UNCHANGED <<at, inGame, player, playerClient, isConnecting>>
      /\ UNCHANGED <<late, dropped, raced>>
  BY DEF Logins!Break, Logins!Closes, Logins!playerVars, Logins!history
<1>2. SetTypes /\ FlagTypes
  BY LoginTypes DEF LoginsInv
<1>3. SetTypes' /\ FlagTypes'
  BY <1>1, <1>2 DEF SetTypes, FlagTypes, Steps
<1>4. Logins!TypeOK'
  BY <1>3, LoginTypesNext
<1>5. ClientPlays'
  <2>1. Playing' \subseteq Playing /\ Connecting' = Connecting
    BY <1>1, <1>2 DEF Playing, Connecting, SetTypes
  <2> QED
    BY <1>1, <2>1 DEF LoginsInv, ClientPlays
<1>6. NobodyPlays'
  BY <1>1 DEF LoginsInv, NobodyPlays
<1>7. Logins!ClientAttached'
  BY <1>1, <1>2 DEF LoginsInv, Attached, Logins!ClientAttached, SetTypes
<1>8. Logins!Awaited'
  BY <1>1, <1>2 DEF LoginsInv, Attached, Logins!Awaited, SetTypes
<1> QED
  BY <1>4, <1>5, <1>6, <1>7, <1>8 DEF LoginsInv, Attached

(* A login ends without a client: it was not the client's.                  *)
LEMMA GivesUpLoginsInv ==
  ASSUME LoginsInv, NEW c \in Protocols, at[c] \in {"asked", "connecting"},
         Logins!Becomes(c, "none"), Logins!Closes({c}),
         UNCHANGED <<inGame, player, playerClient, isConnecting, late, raced>>,
         dropped' = dropped \/ dropped' = TRUE,
         at[c] = "connecting" => dropped' = (dropped \/ (inGame /\ isConnecting))
  PROVE  LoginsInv'
<1>1. /\ at' = [at EXCEPT ![c] = "none"] /\ open' = open \ {c}
      /\ sessionReleases' = sessionReleases \cup ({c} \cap open)
  BY DEF Logins!Becomes, Logins!Closes
<1>2. SetTypes /\ FlagTypes
  BY LoginTypes DEF LoginsInv
<1>3. SetTypes'
  BY <1>1, <1>2 DEF SetTypes, Steps
<1>4. FlagTypes'
  BY <1>2 DEF FlagTypes
<1>5. Logins!TypeOK'
  BY <1>3, <1>4, LoginTypesNext
<1>6. ClientPlays'
  <2>1. Playing' \subseteq Playing /\ Connecting' \subseteq Connecting
    BY <1>1, <1>2 DEF Playing, Connecting, SetTypes
  <2> QED
    BY <2>1 DEF LoginsInv, ClientPlays
<1>7. NobodyPlays'
  BY DEF LoginsInv, NobodyPlays
<1>8. Logins!ClientAttached'
  BY <1>1, <1>2 DEF LoginsInv, Attached, Logins!ClientAttached, SetTypes
<1>9. Logins!Awaited'
  <2>1. CASE at[c] = "asked"
    <3>1. \A d \in Protocols : at[d] = "connecting" => at'[d] = "connecting"
      BY <1>1, <1>2, <2>1 DEF SetTypes
    <3> QED
      BY <3>1 DEF LoginsInv, Attached, Logins!Awaited
  <2>2. CASE at[c] = "connecting"
    <3>1. isConnecting => inGame
      BY DEF LoginsInv, NobodyPlays
    <3>2. isConnecting' => dropped'
      BY <2>2, <3>1
    <3> QED
      BY <3>2 DEF Logins!Awaited
  <2> QED
    BY <2>1, <2>2
<1> QED
  BY <1>5, <1>6, <1>7, <1>8, <1>9 DEF LoginsInv, Attached

(* The character gets a client: nobody else plays it then, or a login has   *)
(* come between.                                                            *)
LEMMA AttachesLoginsInv ==
  ASSUME LoginsInv, NEW c \in Protocols,
         Logins!Becomes(c, "in"), UNCHANGED <<open, sessionReleases>>,
         inGame' = TRUE, playerClient' = c, isConnecting' = FALSE,
         player' = {c} \/ player' = player \cup {c},
         late' = Logins!Released(c), dropped' = FALSE, raced' \in BOOLEAN,
         ~raced' => Playing \cap player' \subseteq {c},
         ~raced' => Connecting \subseteq {c}
  PROVE  LoginsInv'
<1>1. at' = [at EXCEPT ![c] = "in"]
  BY DEF Logins!Becomes
<1>2. SetTypes /\ FlagTypes
  BY LoginTypes DEF LoginsInv
<1>3. SetTypes'
  BY <1>1, <1>2 DEF SetTypes, Steps
<1>4. FlagTypes'
  <2>1. late' \in BOOLEAN
    BY DEF Logins!Released
  <2> QED
    BY <2>1 DEF FlagTypes
<1>5. Logins!TypeOK'
  BY <1>3, <1>4, LoginTypesNext
<1>6. ClientPlays'
  <2>1. Playing' \subseteq (Playing \cap player') \cup {c} /\ Connecting' = Connecting \ {c}
    BY <1>1, <1>2 DEF Playing, Connecting, SetTypes
  <2> QED
    BY <2>1 DEF ClientPlays
<1>7. NobodyPlays'
  BY DEF NobodyPlays
<1>8. Logins!ClientAttached'
  <2>1. c \in player' /\ at'[c] = "in" /\ (c \in open \cup sessionReleases \/ late')
    BY <1>1, <1>2 DEF SetTypes, Logins!Released
  <2> QED
    BY <2>1 DEF Logins!ClientAttached
<1>9. Logins!Awaited'
  BY DEF Logins!Awaited
<1> QED
  BY <1>5, <1>6, <1>7, <1>8, <1>9 DEF LoginsInv, Attached

LEMMA PlaceLoginsInv ==
  ASSUME LoginsInv, NEW c \in Protocols, Logins!Place(c)
  PROVE  LoginsInv'
<1>1. at[c] = "asked" /\ ~inGame
  BY DEF Logins!Place
<1>2. player = {} /\ SetTypes /\ FlagTypes
  BY <1>1, LoginTypes DEF LoginsInv, NobodyPlays
<1>3. CASE /\ Logins!Becomes(c, "in")
           /\ inGame' = TRUE /\ player' = {c} /\ playerClient' = c
           /\ isConnecting' = FALSE
           /\ raced' = Logins!OthersConnect(c)
           /\ late' = Logins!Released(c) /\ dropped' = FALSE
           /\ UNCHANGED <<open, sessionReleases>>
  <2>1. raced' \in BOOLEAN
    BY <1>3 DEF Logins!OthersConnect
  <2>2. Playing = {}
    BY <1>2 DEF Playing
  <2>3. ~raced' => Connecting \subseteq {c}
    BY <1>3 DEF Logins!OthersConnect, Connecting
  <2> QED
    BY <1>3, <2>1, <2>2, <2>3, AttachesLoginsInv
<1>4. CASE /\ Logins!Becomes(c, "none") /\ Logins!Closes({c})
           /\ UNCHANGED Logins!playerVars /\ UNCHANGED Logins!history
  <2>1. UNCHANGED <<inGame, player, playerClient, isConnecting, late, dropped, raced>>
    BY <1>4 DEF Logins!playerVars, Logins!history
  <2> QED
    BY <1>1, <1>4, <2>1, GivesUpLoginsInv
<1> QED
  BY <1>3, <1>4 DEF Logins!Place

LEMMA ConnectNowLoginsInv ==
  ASSUME LoginsInv, NEW c \in Protocols, Logins!ConnectNow(c)
  PROVE  LoginsInv'
<1>1. /\ playerClient = Nobody /\ inGame /\ Logins!Becomes(c, "in")
      /\ player' = player \cup {c} /\ playerClient' = c /\ isConnecting' = FALSE
      /\ late' = Logins!Released(c) /\ dropped' = FALSE
      /\ UNCHANGED <<open, sessionReleases, inGame>>
      /\ raced' = (raced \/ Logins!OthersConnect(c))
  BY DEF Logins!ConnectNow, Logins!Attach
<1>2. SetTypes /\ FlagTypes
  BY LoginTypes DEF LoginsInv
<1>3. raced' \in BOOLEAN /\ inGame' = TRUE
  BY <1>1, <1>2 DEF Logins!OthersConnect, FlagTypes
<1>4. ~raced' => Playing = {}
  <2>1. Playing \subseteq Protocols
    BY <1>2 DEF Playing, SetTypes
  <2> QED
    BY <1>1, <2>1, ProtocolsAssumption DEF LoginsInv, ClientPlays
<1>5. ~raced' => Connecting \subseteq {c}
  BY <1>1 DEF Logins!OthersConnect, Connecting
<1> QED
  BY <1>1, <1>3, <1>4, <1>5, AttachesLoginsInv

LEMMA ConnectLoginsInv ==
  ASSUME LoginsInv, NEW c \in Protocols, Logins!Connect(c)
  PROVE  LoginsInv'
<1>1. /\ at[c] = "connecting" /\ inGame /\ Logins!Becomes(c, "in")
      /\ player' = player \cup {c} /\ playerClient' = c /\ isConnecting' = FALSE
      /\ late' = Logins!Released(c) /\ dropped' = FALSE
      /\ UNCHANGED <<open, sessionReleases, inGame, raced>>
  BY DEF Logins!Connect, Logins!Attach
<1>2. SetTypes /\ FlagTypes
  BY LoginTypes DEF LoginsInv
<1>3. raced' \in BOOLEAN /\ inGame' = TRUE
  BY <1>1, <1>2 DEF FlagTypes
<1>4. c \in Connecting
  BY <1>1 DEF Connecting
<1>5. ~raced' => Playing = {} /\ Connecting \subseteq {c}
  BY <1>1, <1>4 DEF LoginsInv, ClientPlays
<1> QED
  BY <1>1, <1>3, <1>5, AttachesLoginsInv

LEMMA ConnectFailsLoginsInv ==
  ASSUME LoginsInv, NEW c \in Protocols, Logins!ConnectFails(c)
  PROVE  LoginsInv'
<1>1. /\ at[c] \in {"asked", "connecting"}
      /\ Logins!Becomes(c, "none") /\ Logins!Closes({c})
      /\ dropped' = (dropped \/ (inGame /\ isConnecting))
      /\ UNCHANGED <<inGame, player, playerClient, isConnecting, late, raced>>
  BY DEF Logins!ConnectFails, Logins!playerVars
<1>2. dropped \in BOOLEAN
  BY LoginTypes DEF LoginsInv, FlagTypes
<1>3. dropped' = dropped \/ dropped' = TRUE
  BY <1>1, <1>2
<1> QED
  BY <1>1, <1>3, GivesUpLoginsInv

(* A login closes the client it replaces, so that nobody plays until it     *)
(* connects.                                                                *)
LEMMA TakeOverLoginsInv ==
  ASSUME LoginsInv, NEW c \in Protocols, Logins!TakeOver(c)
  PROVE  LoginsInv'
<1>1. /\ at[c] = "asked" /\ inGame /\ playerClient # Nobody
      /\ UNCHANGED <<inGame, player, playerClient, late, dropped>>
  BY DEF Logins!TakeOver
<1>2. SetTypes /\ FlagTypes
  BY LoginTypes DEF LoginsInv
<1>3. /\ playerClient \in player /\ at[playerClient] = "in" /\ playerClient # c
      /\ playerClient \in open \cup sessionReleases \/ late
      /\ playerClient \in Protocols
  BY <1>1, <1>2 DEF LoginsInv, Attached, Logins!ClientAttached, SetTypes
<1>4. NobodyPlays'
  BY <1>1 DEF NobodyPlays
<1>5. CASE /\ Logins!Becomes(c, "connecting") /\ Logins!Closes(Logins!Replaced)
           /\ isConnecting' = TRUE
           /\ raced' = (raced \/ Logins!OthersConnect(c))
  <2>1. /\ at' = [at EXCEPT ![c] = "connecting"] /\ open' = open \ {playerClient}
        /\ sessionReleases' = sessionReleases \cup ({playerClient} \cap open)
    BY <1>5 DEF Logins!Becomes, Logins!Closes, Logins!Replaced
  <2>2. SetTypes'
    BY <1>1, <1>2, <2>1 DEF SetTypes, Steps
  <2>3. FlagTypes'
    BY <1>1, <1>2, <1>5 DEF FlagTypes, Logins!OthersConnect
  <2>4. Logins!TypeOK'
    BY <2>2, <2>3, LoginTypesNext
  <2>5. ClientPlays'
    <3>1. SUFFICES ASSUME ~raced' PROVE Playing' = {} /\ Connecting' \subseteq {c}
      BY DEF ClientPlays
    <3>2. ~raced /\ ~Logins!OthersConnect(c)
      BY <1>5, <3>1
    <3>3. Playing \subseteq {playerClient}
      BY <1>1, <3>2 DEF LoginsInv, ClientPlays
    <3>4. Playing' \subseteq Playing \ {playerClient}
      BY <1>1, <1>2, <2>1 DEF Playing, SetTypes
    <3>5. Connecting' \subseteq {c}
      BY <1>2, <2>1, <3>2 DEF Connecting, Logins!OthersConnect, SetTypes
    <3> QED
      BY <3>3, <3>4, <3>5
  <2>6. Logins!ClientAttached'
    BY <1>1, <1>2, <1>3, <2>1 DEF Logins!ClientAttached, SetTypes
  <2>7. Logins!Awaited'
    <3>1. at'[c] = "connecting"
      BY <1>2, <2>1 DEF SetTypes
    <3> QED
      BY <3>1 DEF Logins!Awaited
  <2> QED
    BY <1>4, <2>4, <2>5, <2>6, <2>7 DEF LoginsInv, Attached
<1>6. CASE /\ Logins!Becomes(c, "none") /\ Logins!Closes({playerClient, c})
           /\ isConnecting' = FALSE /\ UNCHANGED raced
  <2>1. /\ at' = [at EXCEPT ![c] = "none"] /\ open' = open \ {playerClient, c}
        /\ sessionReleases' = sessionReleases \cup ({playerClient, c} \cap open)
    BY <1>6 DEF Logins!Becomes, Logins!Closes
  <2>2. SetTypes'
    BY <1>1, <1>2, <2>1 DEF SetTypes, Steps
  <2>3. FlagTypes'
    BY <1>1, <1>2, <1>6 DEF FlagTypes
  <2>4. Logins!TypeOK'
    BY <2>2, <2>3, LoginTypesNext
  <2>5. ClientPlays'
    <3>1. Playing' \subseteq Playing /\ Connecting' \subseteq Connecting
      BY <1>1, <1>2, <2>1 DEF Playing, Connecting, SetTypes
    <3> QED
      BY <1>1, <1>6, <3>1 DEF LoginsInv, ClientPlays
  <2>6. Logins!ClientAttached'
    BY <1>1, <1>2, <1>3, <2>1 DEF Logins!ClientAttached, SetTypes
  <2>7. Logins!Awaited'
    BY <1>6 DEF Logins!Awaited
  <2> QED
    BY <1>4, <2>4, <2>5, <2>6, <2>7 DEF LoginsInv, Attached
<1> QED
  BY <1>5, <1>6 DEF Logins!TakeOver

(* A closed protocol lets the character go, which has no client then.       *)
LEMMA ReleaseLoginsInv ==
  ASSUME LoginsInv, NEW c \in Protocols, Logins!Release(c)
  PROVE  LoginsInv'
<1>1. /\ c \in sessionReleases /\ sessionReleases' = sessionReleases \ {c}
      /\ at' = IF at[c] = "in" THEN [at EXCEPT ![c] = "none"] ELSE at
      /\ UNCHANGED <<open, inGame, isConnecting, late, dropped, raced>>
  BY DEF Logins!Release, Logins!history
<1>2. SetTypes /\ FlagTypes
  BY LoginTypes DEF LoginsInv
<1>3. \/ playerClient = c /\ playerClient' = Nobody /\ player' = player \ {c}
      \/ playerClient # c /\ UNCHANGED <<playerClient, player>>
  BY <1>2, ProtocolsAssumption
    DEF Logins!Release, LoginsInv, Attached, Logins!ClientAttached
<1>4. /\ c \notin open
      /\ \A d \in Protocols : d # c => at'[d] = at[d]
      /\ \A d \in Protocols : at'[d] = "in" => at[d] = "in"
      /\ \A d \in Protocols : at'[d] = "connecting" <=> at[d] = "connecting"
  BY <1>1, <1>2 DEF SetTypes
<1>5. SetTypes'
  BY <1>1, <1>2, <1>3 DEF SetTypes, Steps
<1>6. FlagTypes'
  BY <1>1, <1>2 DEF FlagTypes
<1>7. Logins!TypeOK'
  BY <1>5, <1>6, LoginTypesNext
<1>8. ClientPlays'
  <2>1. Playing' \subseteq Playing /\ c \notin Playing /\ Connecting' = Connecting
    BY <1>1, <1>2, <1>3, <1>4 DEF Playing, Connecting, SetTypes
  <2>2. ~raced /\ inGame => Playing' \subseteq {playerClient'}
    BY <1>3, <2>1 DEF LoginsInv, ClientPlays
  <2> QED
    BY <1>1, <2>1, <2>2 DEF LoginsInv, ClientPlays
<1>9. NobodyPlays'
  BY <1>1, <1>3 DEF LoginsInv, NobodyPlays
<1>10. Logins!ClientAttached'
  BY <1>1, <1>2, <1>3, <1>4
    DEF LoginsInv, Attached, Logins!ClientAttached, SetTypes
<1>11. Logins!Awaited'
  BY <1>1, <1>4 DEF LoginsInv, Attached, Logins!Awaited
<1> QED
  BY <1>7, <1>8, <1>9, <1>10, <1>11 DEF LoginsInv, Attached

(* The character leaves the game.                                           *)
LEMMA RemoveLoginsInv ==
  ASSUME LoginsInv, Logins!Remove, UNCHANGED at
  PROVE  LoginsInv'
<1>1. /\ inGame' = FALSE /\ player' = {} /\ playerClient' = Nobody
      /\ isConnecting' = FALSE
      /\ late' = FALSE /\ dropped' = FALSE /\ raced' = FALSE
      /\ UNCHANGED <<at, open, sessionReleases>>
  BY DEF Logins!Remove
<1>2. SetTypes
  BY LoginTypes DEF LoginsInv
<1>3. SetTypes' /\ FlagTypes'
  BY <1>1, <1>2 DEF SetTypes, FlagTypes
<1>4. Logins!TypeOK'
  BY <1>3, LoginTypesNext
<1>5. ClientPlays' /\ NobodyPlays' /\ Attached'
  BY <1>1 DEF ClientPlays, NobodyPlays, Attached, Logins!ClientAttached, Logins!Awaited
<1> QED
  BY <1>4, <1>5 DEF LoginsInv

LEMMA NextLoginsInv ==
  ASSUME LoginsInv, [Logins!Next]_Logins!vars
  PROVE  LoginsInv'
<1>1. CASE Logins!Kick
  BY <1>1, RemoveLoginsInv DEF Logins!Kick
<1>2. ASSUME NEW c \in Protocols,
             \/ Logins!FirstMessage(c) \/ Logins!Break(c)
             \/ Logins!Tasks(c) \/ Logins!Logout(c)
      PROVE  LoginsInv'
  <2>1. CASE Logins!FirstMessage(c)
    BY <2>1, FirstMessageLoginsInv
  <2>2. CASE Logins!Break(c)
    BY <2>2, BreakLoginsInv
  <2>3. CASE Logins!Place(c)
    BY <2>3, PlaceLoginsInv
  <2>4. CASE Logins!TakeOver(c)
    BY <2>4, TakeOverLoginsInv
  <2>5. CASE Logins!ConnectNow(c)
    BY <2>5, ConnectNowLoginsInv
  <2>6. CASE Logins!Connect(c)
    BY <2>6, ConnectLoginsInv
  <2>7. CASE Logins!ConnectFails(c)
    BY <2>7, ConnectFailsLoginsInv
  <2>8. CASE Logins!Release(c)
    BY <2>8, ReleaseLoginsInv
  <2>9. CASE Logins!Logout(c)
    BY <2>9, RemoveLoginsInv DEF Logins!Logout
  <2> QED
    BY <1>2, <2>1, <2>2, <2>3, <2>4, <2>5, <2>6, <2>7, <2>8, <2>9 DEF Logins!Tasks
<1>3. CASE UNCHANGED Logins!vars
  <2>1. /\ UNCHANGED <<at, open, sessionReleases, inGame, player, playerClient, isConnecting>>
        /\ UNCHANGED <<late, dropped, raced>>
    BY <1>3 DEF Logins!vars, Logins!protocolVars, Logins!playerVars, Logins!history
  <2> QED
    BY <2>1 DEF LoginsInv, Logins!TypeOK, ClientPlays, Playing, Connecting, NobodyPlays,
      Attached, Logins!ClientAttached, Logins!Awaited
<1> QED
  BY <1>1, <1>2, <1>3 DEF Logins!Next

(* One client plays at most, whatever the number of protocols.              *)
LEMMA LoginsInvKept ==
  ASSUME LoginsInv
  PROVE  LoginsKept
<1>1. raced \/ Playing \subseteq {playerClient}
  <2>1. CASE inGame
    BY <2>1 DEF LoginsInv, ClientPlays
  <2>2. CASE ~inGame
    BY <2>2 DEF LoginsInv, NobodyPlays, Playing
  <2> QED
    BY <2>1, <2>2
<1>2. Logins!OnePlays
  BY <1>1 DEF Logins!OnePlays, Playing
<1> QED
  BY <1>2 DEF LoginsInv, Attached, LoginsKept

(* However many connections log a character in, break or are released, and  *)
(* whenever it is taken out of the game: one of them plays it, unless a     *)
(* login came between another and its connect; the client it has is         *)
(* attached to it, and one it waits for comes, unless it has gone           *)
(* (ProtocolGame::login, connect, release, logout).                         *)
THEOREM OneConnectionPlays == Logins!Spec => []LoginsKept
<1>1. Logins!Init => LoginsInv
  BY InitLoginsInv
<1>2. LoginsInv /\ [Logins!Next]_Logins!vars => LoginsInv'
  BY NextLoginsInv
<1>3. LoginsInv => LoginsKept
  BY LoginsInvKept
<1> QED
  BY <1>1, <1>2, <1>3, PTL DEF Logins!Spec

-----------------------------------------------------------------------------
(****************************************************************************)
(* The choice of the dispatcher's next lane.  What a lane has saved for its *)
(* next task and the place of the cursor bound the turns the others can have*)
(* before it (TurnsLeft), so what they can spend (Spends); Waits says that  *)
(* this and what they have been served since are within their shares.       *)
(****************************************************************************)

Lane == Lanes!LaneIds
MaxCost == Lanes!Max(Costs)
Quant(k) == Lanes!AgedQuantum(k, Lane)

(* How far a lane is ahead of the cursor.                                   *)
Ahead(l, c) == (l + LaneCount - c) % LaneCount

(* The lane at the cursor may be in its turn, which added its quantum.      *)
InTurn(k) == k = cursor /\ currentLaneActive

(* What a lane has saved is not enough for every task, or it is its turn.   *)
Thrifty ==
    \A k \in Lane :
        deficits[k] <= MaxCost - 1 + (IF InTurn(k) THEN Quant(k) ELSE 0)

Serving == lane # Lanes!None => lane = cursor /\ currentLaneActive

(* A lane that has its turn was served at last, ...                         *)
TurnServed == lane = Lanes!None => \A l \in Lane : InTurn(l) => bypass[l] = 0

(* ... and for each other lane l: how many turns lane k can have before l   *)
(* has saved enough for any task, and what k can spend by then.             *)
TurnsLeft(k, l) ==
    MaxCost - 1 - deficits[l]
        + (IF Ahead(k, cursor) < Ahead(l, cursor) THEN 1 ELSE 0)
        - (IF InTurn(k) THEN 1 ELSE 0)
Spends(l) == [k \in Lane \ {l} |-> deficits[k] + TurnsLeft(k, l) * Quant(k)]
Bound(l) == SumFunctionOnSet(Lanes!Share, Lane \ {l})

Waits ==
    \A l \in Lane :
        ~InTurn(l) => bypass[l] + SumFunctionOnSet(Spends(l), Lane \ {l}) <= Bound(l)

LanesInv ==
    /\ Lanes!TypeOK /\ Thrifty /\ Serving /\ TurnServed /\ Waits
    /\ \A l \in Lane : bypass[l] <= Bound(l)

-----------------------------------------------------------------------------
(* Quotients and remainders.                                                *)
LEMMA Division ==
    ASSUME NEW n \in Nat \ {0}, NEW q \in Nat, NEW r \in 0..(n - 1)
    PROVE  (q * n + r) \div n = q /\ (q * n + r) % n = r
  OBVIOUS

LEMMA Divides ==
    ASSUME NEW n \in Nat \ {0}, NEW a \in Nat
    PROVE  /\ a = ((a \div n) * n) + (a % n)
           /\ a % n \in 0..(n - 1) /\ a \div n \in Nat
  OBVIOUS

LEMMA LaneNumbers ==
    /\ LaneCount \in Nat /\ LaneCount >= 1 /\ Lane = 0..(LaneCount - 1)
    /\ IsFiniteSet(Lane) /\ Lanes!None \notin Lane /\ Lanes!None = LaneCount
<1>1. /\ LaneCount \in Nat /\ LaneCount >= 1 /\ Lane = 0..(LaneCount - 1)
      /\ Lanes!None \notin Lane /\ Lanes!None = LaneCount
  BY LanesAssumption DEF Lane, Lanes!LaneIds, Lanes!None
<1>2. IsFiniteSet(0..(LaneCount - 1))
  BY <1>1, FS_Interval
<1> QED BY <1>1, <1>2

LEMMA AheadIs ==
    ASSUME NEW c \in Lane, NEW l \in Lane
    PROVE  /\ Ahead(l, c) = IF l >= c THEN l - c ELSE l - c + LaneCount
           /\ Ahead(l, c) \in 0..(LaneCount - 1)
<1>1. LaneCount \in Nat \ {0} /\ l \in 0..(LaneCount - 1) /\ c \in 0..(LaneCount - 1)
  BY LaneNumbers
<1>2. CASE l >= c
  <2>1. l + LaneCount - c = 1 * LaneCount + (l - c) /\ l - c \in 0..(LaneCount - 1)
    BY <1>1, <1>2
  <2>2. (1 * LaneCount + (l - c)) % LaneCount = l - c
    BY <1>1, <2>1, Division
  <2> QED BY <1>2, <2>1, <2>2 DEF Ahead
<1>3. CASE ~(l >= c)
  <2>1. /\ l + LaneCount - c = 0 * LaneCount + (l - c + LaneCount)
        /\ l - c + LaneCount \in 0..(LaneCount - 1)
    BY <1>1, <1>3
  <2>2. (0 * LaneCount + (l - c + LaneCount)) % LaneCount = l - c + LaneCount
    BY <1>1, <2>1, Division
  <2> QED BY <1>3, <2>1, <2>2 DEF Ahead
<1> QED BY <1>2, <1>3

(* How often a lane is visited in the attempts up to one.                   *)
LEMMA VisitsAre ==
    ASSUME cursor \in Lane, NEW l \in Lane, NEW k \in Nat
    PROVE  /\ Lanes!Visits(l, k) = (k \div LaneCount)
                 + (IF Ahead(l, cursor) <= k % LaneCount THEN 1 ELSE 0)
           /\ Lanes!Visits(l, k) \in Nat
<1> DEFINE J == Ahead(l, cursor)
           a == k \div LaneCount
           m == k % LaneCount
<1>0. Ahead(l, cursor) \in 0..(LaneCount - 1)
  BY AheadIs
<1>1. LaneCount \in Nat \ {0} /\ J \in 0..(LaneCount - 1)
  BY <1>0, LaneNumbers
<1>2. k = a * LaneCount + m /\ m \in 0..(LaneCount - 1) /\ a \in Nat
  BY <1>1, Divides
<1>3. Lanes!Visits(l, k) = IF k < J THEN 0 ELSE (k - J) \div LaneCount + 1
  BY DEF Lanes!Visits, Ahead
<1> HIDE DEF J, a, m
<1>4. CASE k < J
  <2>1. a = 0
    BY <1>1, <1>2, <1>4
  <2> QED BY <1>1, <1>2, <1>3, <1>4, <2>1 DEF J, a, m
<1>5. CASE ~(k < J) /\ J <= m
  <2>1. k - J = a * LaneCount + (m - J) /\ m - J \in 0..(LaneCount - 1)
    BY <1>1, <1>2, <1>5
  <2>2. (a * LaneCount + (m - J)) \div LaneCount = a
    BY <1>1, <1>2, <2>1, Division
  <2> QED BY <1>2, <1>3, <1>5, <2>1, <2>2 DEF J, a, m
<1>6. CASE ~(k < J) /\ ~(J <= m)
  <2>1. a # 0
    BY <1>1, <1>2, <1>6
  <2>2. a - 1 \in Nat /\ a * LaneCount = (a - 1) * LaneCount + LaneCount
    BY <1>1, <1>2, <2>1
  <2>3. /\ k - J = (a - 1) * LaneCount + (LaneCount + m - J)
        /\ LaneCount + m - J \in 0..(LaneCount - 1)
    BY <1>1, <1>2, <1>6, <2>2
  <2>4. ((a - 1) * LaneCount + (LaneCount + m - J)) \div LaneCount = a - 1
    BY <1>1, <2>2, <2>3, Division
  <2> QED BY <1>2, <1>3, <1>6, <2>2, <2>3, <2>4 DEF J, a, m
<1> QED BY <1>4, <1>5, <1>6

(* The lane an attempt visits is as far ahead as the attempt.               *)
LEMMA VisitedIs ==
    ASSUME cursor \in Lane, NEW k \in Nat
    PROVE  /\ Lanes!Visited(k) \in Lane
           /\ \A l \in Lane : Lanes!Visited(k) = l <=> Ahead(l, cursor) = k % LaneCount
<1> DEFINE a == k \div LaneCount
           m == k % LaneCount
<1>1. LaneCount \in Nat \ {0} /\ cursor \in 0..(LaneCount - 1)
  BY LaneNumbers
<1>2. k = a * LaneCount + m /\ m \in 0..(LaneCount - 1) /\ a \in Nat
  BY <1>1, Divides
<1>3. Lanes!Visited(k) = (cursor + k) % LaneCount
  BY DEF Lanes!Visited
<1> HIDE DEF a, m
<1>4. Lanes!Visited(k) = IF cursor + m < LaneCount THEN cursor + m ELSE cursor + m - LaneCount
  <2>1. CASE cursor + m < LaneCount
    <3>1. cursor + k = a * LaneCount + (cursor + m) /\ cursor + m \in 0..(LaneCount - 1)
      BY <1>1, <1>2, <2>1
    <3>2. (a * LaneCount + (cursor + m)) % LaneCount = cursor + m
      BY <1>1, <1>2, <3>1, Division
    <3> QED BY <1>3, <2>1, <3>1, <3>2
  <2>2. CASE ~(cursor + m < LaneCount)
    <3>0. (a + 1) * LaneCount = a * LaneCount + LaneCount /\ a + 1 \in Nat
      BY <1>1, <1>2
    <3>1. /\ cursor + k = (a + 1) * LaneCount + (cursor + m - LaneCount)
          /\ cursor + m - LaneCount \in 0..(LaneCount - 1)
      BY <1>1, <1>2, <2>2, <3>0
    <3>2. ((a + 1) * LaneCount + (cursor + m - LaneCount)) % LaneCount = cursor + m - LaneCount
      BY <1>1, <3>0, <3>1, Division
    <3> QED BY <1>3, <2>2, <3>1, <3>2
  <2> QED BY <2>1, <2>2
<1>5. Lanes!Visited(k) \in Lane
  BY <1>1, <1>2, <1>4, LaneNumbers
<1>6. ASSUME NEW l \in Lane PROVE Lanes!Visited(k) = l <=> Ahead(l, cursor) = m
  <2>1. Ahead(l, cursor) = IF l >= cursor THEN l - cursor ELSE l - cursor + LaneCount
    BY AheadIs
  <2>2. l \in 0..(LaneCount - 1)
    BY LaneNumbers
  <2> QED BY <1>1, <1>2, <1>4, <2>1, <2>2
<1> QED BY <1>5, <1>6 DEF m


-----------------------------------------------------------------------------
(* Min is a least one.                                                      *)
LEMMA LeastIs ==
    ASSUME NEW S \in SUBSET Nat, S # {}
    PROVE  Lanes!Min(S) \in S /\ \A x \in S : Lanes!Min(S) <= x
<1>1. PICK x \in S : \A y \in S : x <= y
  BY LeastNumber
<1> QED BY <1>1 DEF Lanes!Min

LEMMA LeastOfTwo ==
    ASSUME NEW a \in Nat, NEW b \in Nat
    PROVE  Lanes!Min({a, b}) = IF a <= b THEN a ELSE b
  BY LeastIs

(* The bounds: costs and quanta.                                            *)
LEMMA Largest ==
    ASSUME NEW m \in Nat, NEW S \in SUBSET (1..m), S # {}
    PROVE  Lanes!Max(S) \in S /\ \A x \in S : Lanes!Max(S) >= x
<1> DEFINE T == {m - x : x \in S}
<1>1. T \in SUBSET Nat /\ T # {}
  <2>1. ASSUME NEW x \in S PROVE m - x \in Nat
    OBVIOUS
  <2> QED BY <2>1
<1>2. PICK y \in T : \A z \in T : y <= z
  <2> HIDE DEF T
  <2> QED BY <1>1, LeastNumber
<1>3. PICK x \in S : y = m - x
  BY <1>2
<1>4. ASSUME NEW z \in S PROVE x >= z
  <2>1. m - x <= m - z
    BY <1>2, <1>3
  <2> QED BY <2>1
<1> QED BY <1>4 DEF Lanes!Max

LEMMA Bounds ==
    /\ MaxTaskCost \in Nat /\ MaxTaskCost >= 1
    /\ MaxCost \in 1..MaxTaskCost /\ \A c \in Costs : c \in 1..MaxCost
    /\ \A k \in Lane : Quant(k) \in 1..MaxTaskCost
    /\ Lanes!MaxDeficit = MaxTaskCost * 4
    /\ Lanes!Attempts = LaneCount * MaxTaskCost
<1>1. MaxTaskCost \in Nat /\ MaxTaskCost >= 1 /\ Costs \in SUBSET (1..MaxTaskCost) /\ Costs # {}
  BY LanesAssumption
<1>2. MaxCost \in Costs /\ \A c \in Costs : MaxCost >= c
  BY <1>1, Largest DEF MaxCost
<1>3. ASSUME NEW k \in Lane PROVE Quant(k) \in 1..MaxTaskCost
  <2>1. Quantum[k] \in 1..MaxTaskCost
    BY LanesAssumption, LaneNumbers
  <2>2. Quant(k) = Lanes!Min({MaxTaskCost, 2 * Quantum[k]})
    BY DEF Quant, Lanes!AgedQuantum
  <2> QED BY <1>1, <2>1, <2>2, LeastOfTwo
<1> QED BY <1>1, <1>2, <1>3 DEF Lanes!MaxDeficit, Lanes!Attempts

(* What selectLane is given: costs of tasks and quanta of ready lanes.      *)
IsInput(input) ==
    /\ input.ready \in SUBSET Lane
    /\ \A l \in input.ready : input.cost[l] \in 1..MaxCost /\ input.quantum[l] \in 1..Quant(l)

Input(rs, aged, cost) ==
    [ready |-> rs, cost |-> cost,
     quantum |-> [l \in rs |-> Lanes!AgedQuantum(l, aged)]]

LEMMA InputIs ==
    ASSUME NEW rs \in SUBSET Lane, NEW aged \in SUBSET rs, NEW cost \in [rs -> Costs]
    PROVE  IsInput(Input(rs, aged, cost))
<1> DEFINE input == Input(rs, aged, cost)
<1>1. input.ready = rs /\ input.cost = cost
  BY DEF Input
<1>2. ASSUME NEW l \in rs PROVE input.quantum[l] \in 1..Quant(l)
  <2>1. Quantum[l] \in 1..MaxTaskCost /\ MaxTaskCost \in Nat
    BY LanesAssumption, LaneNumbers
  <2>2. Quant(l) = Lanes!Min({MaxTaskCost, 2 * Quantum[l]})
    BY DEF Quant, Lanes!AgedQuantum
  <2>3. input.quantum[l] = IF l \in aged THEN Lanes!Min({MaxTaskCost, 2 * Quantum[l]})
                                         ELSE Quantum[l]
    BY DEF Input, Lanes!AgedQuantum
  <2> QED BY <2>1, <2>2, <2>3, LeastOfTwo
<1>3. ASSUME NEW l \in rs PROVE input.cost[l] \in 1..MaxCost
  BY <1>1, Bounds
<1> QED BY <1>1, <1>2, <1>3 DEF IsInput

-----------------------------------------------------------------------------
(* One selection.  A lane's last visit counted as many visits as any attempt*)
(* after it, ...                                                            *)
LEMMA LastVisit ==
    ASSUME cursor \in Lane, NEW l \in Lane, NEW k \in Nat, Lanes!Visits(l, k) >= 1
    PROVE  \E t \in 0..k : /\ Lanes!Visited(t) = l
                           /\ Lanes!Visits(l, t) = Lanes!Visits(l, k)
<1> DEFINE J == Ahead(l, cursor)
           a == k \div LaneCount
           m == k % LaneCount
           b == IF J <= m THEN a ELSE a - 1
           t == (b * LaneCount) + J
<1>0. Ahead(l, cursor) \in 0..(LaneCount - 1)
  BY AheadIs
<1>1. LaneCount \in Nat \ {0} /\ J \in 0..(LaneCount - 1)
  BY <1>0, LaneNumbers
<1>2. k = (a * LaneCount) + m /\ m \in 0..(LaneCount - 1) /\ a \in Nat
  BY <1>1, Divides
<1>3. Lanes!Visits(l, k) = a + (IF J <= m THEN 1 ELSE 0)
  BY VisitsAre
<1>4. b \in Nat /\ Lanes!Visits(l, k) = b + 1
  <2> HIDE DEF J, a, m
  <2> QED BY <1>1, <1>2, <1>3
<1>5. t \in 0..k
  <2> HIDE DEF J, a, m
  <2>1. CASE J <= m
    BY <1>1, <1>2, <2>1
  <2>2. CASE ~(J <= m)
    <3>1. a * LaneCount = ((a - 1) * LaneCount) + LaneCount /\ a - 1 \in Nat
      BY <1>1, <1>2, <1>4, <2>2
    <3>2. (a - 1) * LaneCount \in Nat
      BY <1>1, <3>1
    <3> QED BY <1>1, <1>2, <2>2, <3>1, <3>2
  <2> QED BY <2>1, <2>2
<1>6. t \div LaneCount = b /\ t % LaneCount = J
  <2> HIDE DEF J, b
  <2> QED BY <1>1, <1>4, Division
<1>7. t \in Nat
  BY <1>5
<1>8. Lanes!Visits(l, t) = b + 1
  <2>1. Lanes!Visits(l, t) = (t \div LaneCount)
                 + (IF Ahead(l, cursor) <= t % LaneCount THEN 1 ELSE 0)
    BY ONLY <1>7, cursor \in Lane, l \in Lane, VisitsAre
  <2> HIDE DEF t, b
  <2> QED BY <1>1, <1>4, <1>6, <2>1
<1>9. Lanes!Visited(t) = l
  <2>1. Lanes!Visited(t) = l <=> Ahead(l, cursor) = t % LaneCount
    BY ONLY <1>7, cursor \in Lane, l \in Lane, VisitedIs
  <2> QED BY <1>6, <2>1
<1> QED BY <1>4, <1>5, <1>8, <1>9

(* ... and the visit before it one less.                                    *)
LEMMA VisitBefore ==
    ASSUME cursor \in Lane, NEW l \in Lane, NEW k \in Nat,
           Lanes!Visited(k) = l, Lanes!Visits(l, k) >= 2
    PROVE  \E t \in 0..(k - 1) : /\ Lanes!Visited(t) = l
                                 /\ Lanes!Visits(l, t) = Lanes!Visits(l, k) - 1
<1> DEFINE J == Ahead(l, cursor)
           a == k \div LaneCount
           m == k % LaneCount
           t == k - LaneCount
<1>1. LaneCount \in Nat \ {0}
  BY LaneNumbers
<1>2. k = (a * LaneCount) + m /\ m \in 0..(LaneCount - 1) /\ a \in Nat
  BY <1>1, Divides
<1>3. Lanes!Visits(l, k) = a + (IF J <= m THEN 1 ELSE 0)
  BY VisitsAre
<1>4. J = m
  BY VisitedIs
<1>5. a - 1 \in Nat
  <2> HIDE DEF J, a, m
  <2> QED BY <1>2, <1>3, <1>4
<1>6. t = ((a - 1) * LaneCount) + m
  <2> HIDE DEF a, m
  <2>1. a * LaneCount = ((a - 1) * LaneCount) + LaneCount
    BY <1>1, <1>2, <1>5
  <2> QED BY <1>1, <1>2, <1>5, <2>1
<1>7. t \div LaneCount = a - 1 /\ t % LaneCount = m
  <2> HIDE DEF a, m, t
  <2> QED BY <1>1, <1>2, <1>5, <1>6, Division
<1>8. t \in 0..(k - 1) /\ t \in Nat
  <2>1. (a - 1) * LaneCount \in Nat
    <3> HIDE DEF a
    <3> QED BY <1>1, <1>5
  <2>2. ((a - 1) * LaneCount) + m >= 0
    <3> HIDE DEF a, m
    <3> QED BY <1>2, <2>1
  <2> QED BY <1>1, <1>6, <2>2
<1>9. /\ Lanes!Visits(l, t) = (t \div LaneCount)
            + (IF Ahead(l, cursor) <= t % LaneCount THEN 1 ELSE 0)
      /\ Lanes!Visited(t) = l <=> Ahead(l, cursor) = t % LaneCount
  <2> HIDE DEF t
  <2> QED BY <1>8, VisitsAre, VisitedIs
<1>10. Lanes!Visits(l, t) = Lanes!Visits(l, k) - 1 /\ Lanes!Visited(t) = l
  <2> HIDE DEF J, a, m, t
  <2> QED BY <1>2, <1>3, <1>4, <1>5, <1>7, <1>9 DEF J
<1> QED BY <1>8, <1>10

(* The deficit of a lane after an attempt, ...                              *)
After(l, k, input) == Lanes!DeficitAfter(l, k, input)
TurnsOf(l, k) == Lanes!Visits(l, k) - (IF InTurn(l) THEN 1 ELSE 0)

LEMMA Deficits ==
    ASSUME Lanes!TypeOK, NEW input, IsInput(input), NEW l \in Lane, NEW k \in Nat
    PROVE  /\ Lanes!Visits(l, k) \in Nat /\ TurnsOf(l, k) \in Nat
           /\ After(l, k, input) \in 0..Lanes!MaxDeficit
           /\ l \in input.ready =>
                /\ After(l, k, input) <= deficits[l] + TurnsOf(l, k) * input.quantum[l]
                /\ \/ After(l, k, input) >= MaxCost
                   \/ After(l, k, input) = deficits[l] + TurnsOf(l, k) * input.quantum[l]
           /\ l \notin input.ready =>
                After(l, k, input) = IF Lanes!Visits(l, k) > 0 THEN 0 ELSE deficits[l]
<1>1. deficits[l] \in 0..Lanes!MaxDeficit /\ cursor \in Lane /\ currentLaneActive \in BOOLEAN
  BY DEF Lanes!TypeOK, Lane
<1>2. /\ Lanes!Visits(l, k) = (k \div LaneCount)
            + (IF Ahead(l, cursor) <= k % LaneCount THEN 1 ELSE 0)
      /\ Lanes!Visits(l, k) \in Nat
  BY <1>1, VisitsAre
<1>3. /\ MaxTaskCost \in Nat /\ MaxTaskCost >= 1 /\ MaxCost \in 1..MaxTaskCost
      /\ Lanes!MaxDeficit = MaxTaskCost * 4
  BY Bounds
<1>4. TurnsOf(l, k) \in Nat
  <2>1. CASE InTurn(l)
    <3>0. LaneCount \in Nat \ {0} /\ l \in 0..(LaneCount - 1)
      BY LaneNumbers
    <3>1. Ahead(l, cursor) = 0
      <4>1. Ahead(l, cursor) = IF l >= cursor THEN l - cursor ELSE l - cursor + LaneCount
        BY <1>1, AheadIs
      <4> QED BY <2>1, <3>0, <4>1 DEF InTurn
    <3>2. k % LaneCount \in 0..(LaneCount - 1) /\ k \div LaneCount \in Nat
      BY <3>0, Divides
    <3> QED BY <1>2, <2>1, <3>1, <3>2 DEF TurnsOf
  <2>2. CASE ~InTurn(l)
    BY <1>2, <2>2 DEF TurnsOf
  <2> QED BY <2>1, <2>2
<1>5. Lanes!Turns(l, k) = TurnsOf(l, k)
  BY DEF Lanes!Turns, TurnsOf, InTurn
<1>6. CASE l \in input.ready
  <2> DEFINE d == deficits[l] + TurnsOf(l, k) * input.quantum[l]
  <2>1. After(l, k, input) = Lanes!Min({d, Lanes!MaxDeficit})
    BY <1>5, <1>6 DEF After, Lanes!DeficitAfter
  <2>2. input.quantum[l] \in Nat
    <3>1. input.quantum[l] \in 1..Quant(l) /\ Quant(l) \in 1..MaxTaskCost
      BY <1>6, Bounds DEF IsInput
    <3> QED BY <3>1
  <2>3. TurnsOf(l, k) * input.quantum[l] \in Nat
    BY <1>4, <2>2
  <2>4. d \in Nat /\ Lanes!MaxDeficit \in Nat /\ Lanes!MaxDeficit >= MaxCost
    BY <1>1, <1>3, <2>3
  <2>5. After(l, k, input) = IF d <= Lanes!MaxDeficit THEN d ELSE Lanes!MaxDeficit
    <3> HIDE DEF d
    <3> QED BY <2>1, <2>4, LeastOfTwo
  <2>6. /\ After(l, k, input) \in 0..Lanes!MaxDeficit /\ After(l, k, input) <= d
        /\ After(l, k, input) >= MaxCost \/ After(l, k, input) = d
    <3> HIDE DEF d
    <3> QED BY <1>3, <2>4, <2>5
  <2> QED BY <1>2, <1>4, <1>6, <2>6
<1>7. CASE l \notin input.ready
  <2>1. After(l, k, input) = IF Lanes!Visits(l, k) > 0 THEN 0 ELSE deficits[l]
    BY <1>7 DEF After, Lanes!DeficitAfter
  <2>2. After(l, k, input) \in 0..Lanes!MaxDeficit
    BY <1>1, <1>3, <2>1
  <2> QED BY <1>2, <1>4, <1>7, <2>1, <2>2
<1> QED BY <1>6, <1>7

(* ... which depends on the visits only.                                    *)
LEMMA SameVisits ==
    ASSUME NEW l, NEW k, NEW t, NEW input, Lanes!Visits(l, t) = Lanes!Visits(l, k)
    PROVE  After(l, t, input) = After(l, k, input)
  BY DEF After, Lanes!DeficitAfter, Lanes!Turns

(* An attempt that does not select found a lane too poor.                   *)
LEMMA Poor ==
    ASSUME Lanes!TypeOK, NEW input, IsInput(input), NEW t \in Nat, ~Lanes!Selects(t, input),
           Lanes!Visited(t) \in input.ready
    PROVE  /\ After(Lanes!Visited(t), t, input) <= MaxCost - 1
           /\ After(Lanes!Visited(t), t, input) < input.cost[Lanes!Visited(t)]
<1> DEFINE l == Lanes!Visited(t)
<1>1. l \in Lane /\ input.cost[l] \in 1..MaxCost
  BY DEF IsInput
<1>2. ~(After(l, t, input) >= input.cost[l])
  BY DEF Lanes!Selects, After
<1>3. After(l, t, input) \in 0..Lanes!MaxDeficit
  <2> HIDE DEF l
  <2> QED BY <1>1, Deficits
<1>4. MaxCost \in 1..MaxTaskCost /\ MaxTaskCost \in Nat /\ Lanes!MaxDeficit = MaxTaskCost * 4
  BY Bounds
<1> HIDE DEF l
<1>5. After(l, t, input) <= MaxCost - 1 /\ After(l, t, input) < input.cost[l]
  BY <1>1, <1>2, <1>3, <1>4
<1> QED BY <1>5 DEF l

(* So is each lane before one is selected, ...                              *)
LEMMA LeftPoor ==
    ASSUME Lanes!TypeOK, Thrifty, NEW input, IsInput(input), NEW l \in Lane, NEW k \in Nat,
           \A t \in 0..k : Lanes!Visited(t) = l => ~Lanes!Selects(t, input)
    PROVE  /\ After(l, k, input) <= MaxCost - 1
           /\ l \in input.ready /\ Lanes!Visits(l, k) >= 1
                 => After(l, k, input) < input.cost[l]
<1>1. deficits[l] \in 0..Lanes!MaxDeficit /\ cursor \in Lane
  BY DEF Lanes!TypeOK, Lane
<1>2. /\ MaxCost \in 1..MaxTaskCost /\ MaxTaskCost \in Nat
      /\ Lanes!MaxDeficit = MaxTaskCost * 4 /\ Quant(l) \in 1..MaxTaskCost
  BY Bounds
<1>3. /\ Lanes!Visits(l, k) \in Nat /\ TurnsOf(l, k) \in Nat
      /\ l \in input.ready =>
            After(l, k, input) <= deficits[l] + TurnsOf(l, k) * input.quantum[l]
      /\ l \notin input.ready =>
            After(l, k, input) = IF Lanes!Visits(l, k) > 0 THEN 0 ELSE deficits[l]
      /\ After(l, k, input) \in 0..Lanes!MaxDeficit
  BY Deficits
<1>4. CASE Lanes!Visits(l, k) >= 1 /\ l \in input.ready
  <2>1. PICK t \in 0..k : Lanes!Visited(t) = l /\ Lanes!Visits(l, t) = Lanes!Visits(l, k)
    BY <1>1, <1>4, LastVisit
  <2>2. t \in Nat /\ ~Lanes!Selects(t, input)
    BY <2>1
  <2>3. After(l, t, input) <= MaxCost - 1 /\ After(l, t, input) < input.cost[l]
    BY <1>4, <2>1, <2>2, Poor
  <2>4. After(l, t, input) = After(l, k, input)
    BY <2>1, SameVisits
  <2> QED BY <2>3, <2>4
<1>5. CASE Lanes!Visits(l, k) >= 1 /\ l \notin input.ready
  BY <1>2, <1>3, <1>5
<1>6. CASE Lanes!Visits(l, k) = 0
  <2>1. ~InTurn(l) /\ TurnsOf(l, k) = 0
    <3>1. TurnsOf(l, k) = 0 - (IF InTurn(l) THEN 1 ELSE 0)
      BY <1>6 DEF TurnsOf
    <3>2. CASE InTurn(l)
      BY <1>3, <3>1, <3>2
    <3>3. CASE ~InTurn(l)
      <4>1. (IF InTurn(l) THEN 1 ELSE 0) = 0
        BY <3>3, Zenon
      <4>2. TurnsOf(l, k) = Lanes!Visits(l, k) - 0
        BY <4>1, Zenon DEF TurnsOf
      <4>3. TurnsOf(l, k) = 0
        BY <1>6, <4>2
      <4> QED BY <3>3, <4>3
    <3> QED BY <3>2, <3>3
  <2>2. deficits[l] <= MaxCost - 1
    <3>1. deficits[l] <= MaxCost - 1 + 0
      BY <2>1 DEF Thrifty
    <3> QED BY <1>1, <1>2, <3>1
  <2>3. l \in input.ready => input.quantum[l] \in Int
    <3>1. l \in input.ready => input.quantum[l] \in 1..Quant(l)
      BY DEF IsInput
    <3> QED BY <1>2, <3>1
  <2>4. After(l, k, input) <= deficits[l]
    <3>1. CASE l \in input.ready
      <4>1. 0 * input.quantum[l] = 0
        BY <2>3, <3>1
      <4> QED BY <1>1, <1>3, <2>1, <3>1, <4>1
    <3>2. CASE l \notin input.ready
      BY <1>1, <1>3, <1>6, <3>2
    <3> QED BY <3>1, <3>2
  <2> QED BY <1>1, <1>2, <1>3, <1>6, <2>2, <2>4
<1> QED BY <1>3, <1>4, <1>5, <1>6

(* ... and the selected one had saved no more before its turn.              *)
LEMMA SelectedThrifty ==
    ASSUME Lanes!TypeOK, Thrifty, NEW input, IsInput(input), NEW k \in Nat,
           Lanes!Selects(k, input), \A t \in 0..(k - 1) : ~Lanes!Selects(t, input)
    PROVE  After(Lanes!Visited(k), k, input) <= MaxCost - 1 + Quant(Lanes!Visited(k))
<1> DEFINE l == Lanes!Visited(k)
<1>1. l \in Lane /\ l \in input.ready
  <2>1. l \in input.ready
    BY DEF Lanes!Selects
  <2> QED BY <2>1 DEF IsInput
<1>2. l = Lanes!Visited(k)
  OBVIOUS
<1> HIDE DEF l
<1>3. deficits[l] \in 0..Lanes!MaxDeficit /\ cursor \in Lane
  BY <1>1 DEF Lanes!TypeOK, Lane
<1>4. /\ MaxCost \in 1..MaxTaskCost /\ MaxTaskCost \in Nat
      /\ Lanes!MaxDeficit = MaxTaskCost * 4 /\ Quant(l) \in 1..MaxTaskCost
  BY <1>1, Bounds
<1>5. input.quantum[l] \in 1..Quant(l)
  BY <1>1 DEF IsInput
<1>6. /\ Lanes!Visits(l, k) \in Nat /\ TurnsOf(l, k) \in Nat
      /\ After(l, k, input) <= deficits[l] + TurnsOf(l, k) * input.quantum[l]
      /\ After(l, k, input) \in 0..Lanes!MaxDeficit
  BY <1>1, Deficits
<1>7. CASE Lanes!Visits(l, k) >= 2
  <2>1. PICK t \in 0..(k - 1) : Lanes!Visited(t) = l /\ Lanes!Visits(l, t) = Lanes!Visits(l, k) - 1
    BY <1>1, <1>2, <1>3, <1>7, VisitBefore
  <2>2. t \in Nat /\ ~Lanes!Selects(t, input)
    BY <2>1
  <2>3. After(l, t, input) <= MaxCost - 1
    BY <1>1, <2>1, <2>2, Poor
  <2>4. /\ After(l, t, input) >= MaxCost
           \/ After(l, t, input) = deficits[l] + TurnsOf(l, t) * input.quantum[l]
        /\ After(l, t, input) \in 0..Lanes!MaxDeficit /\ TurnsOf(l, t) \in Nat
    BY <1>1, <2>2, Deficits
  <2>5. deficits[l] + TurnsOf(l, t) * input.quantum[l] <= MaxCost - 1
    BY <1>4, <2>3, <2>4
  <2>6. TurnsOf(l, k) = TurnsOf(l, t) + 1
    BY <1>6, <2>1 DEF TurnsOf
  <2>7. TurnsOf(l, k) * input.quantum[l] = TurnsOf(l, t) * input.quantum[l] + input.quantum[l]
    <3>1. \A n \in Nat, q \in Nat : (n + 1) * q = n * q + q
      OBVIOUS
    <3>2. input.quantum[l] \in Nat
      BY <1>4, <1>5
    <3> QED BY <2>4, <2>6, <3>1, <3>2
  <2>8. TurnsOf(l, t) * input.quantum[l] \in Nat
    <3>1. \A n \in Nat, q \in Nat : n * q \in Nat
      OBVIOUS
    <3> QED BY <1>4, <1>5, <2>4, <3>1
  <2> QED BY <1>2, <1>3, <1>4, <1>5, <1>6, <2>5, <2>7, <2>8
<1>8. CASE ~(Lanes!Visits(l, k) >= 2)
  <2>1. CASE InTurn(l)
    <3>1. TurnsOf(l, k) = 0
      BY <1>6, <1>8, <2>1 DEF TurnsOf
    <3>2. 0 * input.quantum[l] = 0
      BY <1>4, <1>5
    <3>3. deficits[l] <= MaxCost - 1 + Quant(l)
      BY <1>1, <2>1 DEF Thrifty
    <3> QED BY <1>2, <1>3, <1>4, <1>6, <3>1, <3>2, <3>3
  <2>2. CASE ~InTurn(l)
    <3>1. TurnsOf(l, k) \in {0, 1}
      BY <1>6, <1>8, <2>2 DEF TurnsOf
    <3>2. deficits[l] <= MaxCost - 1 + 0
      BY <1>1, <2>2 DEF Thrifty
    <3>3. 0 * input.quantum[l] = 0 /\ 1 * input.quantum[l] = input.quantum[l]
      BY <1>4, <1>5
    <3>4. TurnsOf(l, k) * input.quantum[l] \in {0, input.quantum[l]}
      BY <3>1, <3>3
    <3> QED BY <1>2, <1>3, <1>4, <1>5, <1>6, <3>2, <3>4
  <2> QED BY <2>1, <2>2
<1> QED BY <1>7, <1>8

-----------------------------------------------------------------------------
(* What selectLane does: lanes are left too poor, or the first lane that can*)
(* pay is selected.                                                         *)
Chosen(k, input) ==
    /\ deficits' = [l \in Lane |-> After(l, k, input)]
    /\ currentLaneActive' = TRUE /\ lane' = Lanes!Visited(k) /\ cursor' = Lanes!Visited(k)
    /\ Lanes!Selects(k, input)
    /\ \A t \in 0..(k - 1) : ~Lanes!Selects(t, input)

LastAttempt == Lanes!Attempts - 1

NoneChosen(input) ==
    /\ deficits' = [l \in Lane |-> After(l, LastAttempt, input)]
    /\ currentLaneActive' = FALSE /\ lane' = Lanes!None /\ cursor' = cursor
    /\ \A t \in 0..LastAttempt : ~Lanes!Selects(t, input)

LEMMA Attempted ==
    /\ LastAttempt \in Nat
    /\ LastAttempt \div LaneCount = MaxTaskCost - 1
    /\ LastAttempt % LaneCount = LaneCount - 1
    /\ Lanes!Attempts \in Nat /\ Lanes!Attempts % LaneCount = 0
<1>1. /\ LaneCount \in Nat \ {0} /\ MaxTaskCost - 1 \in Nat /\ MaxTaskCost \in Nat
      /\ Lanes!Attempts = LaneCount * MaxTaskCost
  BY LaneNumbers, Bounds
<1>2. /\ Lanes!Attempts = (MaxTaskCost * LaneCount) + 0
      /\ LastAttempt = ((MaxTaskCost - 1) * LaneCount) + (LaneCount - 1)
  BY <1>1 DEF LastAttempt
<1>3. LastAttempt \div LaneCount = MaxTaskCost - 1 /\ LastAttempt % LaneCount = LaneCount - 1
  <2>1. LaneCount - 1 \in 0..(LaneCount - 1)
    BY <1>1
  <2>2. /\ (((MaxTaskCost - 1) * LaneCount) + (LaneCount - 1)) \div LaneCount = MaxTaskCost - 1
        /\ (((MaxTaskCost - 1) * LaneCount) + (LaneCount - 1)) % LaneCount = LaneCount - 1
    BY <1>1, <2>1, Division
  <2> QED BY <1>2, <2>2
<1>4. ((MaxTaskCost * LaneCount) + 0) % LaneCount = 0
  BY <1>1, Division
<1>5. Lanes!Attempts \in Nat /\ LastAttempt \in Nat
  <2>1. MaxTaskCost * LaneCount \in Nat /\ (MaxTaskCost - 1) * LaneCount \in Nat
    BY <1>1
  <2> QED BY <1>1, <1>2, <2>1
<1> QED BY <1>2, <1>3, <1>4, <1>5

LEMMA SelectLaneDoes ==
    ASSUME Lanes!TypeOK, NEW input, IsInput(input), Lanes!SelectLane(input)
    PROVE  (\E k \in Nat : Chosen(k, input)) \/ NoneChosen(input)
<1> DEFINE selecting == {k \in 0..(Lanes!Attempts - 1) : Lanes!Selects(k, input)}
           last == IF selecting = {} THEN Lanes!Attempts - 1 ELSE Lanes!Min(selecting)
<1>1. /\ deficits' = [l \in Lane |-> After(l, last, input)]
      /\ currentLaneActive' = (selecting # {})
      /\ IF selecting = {} THEN lane' = Lanes!None /\ cursor' = Lanes!Visited(Lanes!Attempts)
                           ELSE lane' = Lanes!Visited(last) /\ cursor' = lane'
  BY DEF Lanes!SelectLane, Lane, After
<1>2. LastAttempt = Lanes!Attempts - 1 /\ LastAttempt \in Nat
  BY Attempted DEF LastAttempt
<1>3. CASE selecting = {}
  <2>1. \A t \in 0..LastAttempt : ~Lanes!Selects(t, input)
    BY <1>2, <1>3
  <2>2. cursor' = cursor
    <3>1. cursor \in 0..(LaneCount - 1) /\ LaneCount \in Nat \ {0} /\ cursor \in Lane
      BY LaneNumbers DEF Lanes!TypeOK, Lane
    <3>2. Ahead(cursor, cursor) = 0
      <4>1. Ahead(cursor, cursor) =
              IF cursor >= cursor THEN cursor - cursor ELSE cursor - cursor + LaneCount
        BY <3>1, AheadIs
      <4> QED BY <3>1, <4>1
    <3>3. Lanes!Visited(Lanes!Attempts) = cursor
      BY <3>1, <3>2, Attempted, VisitedIs
    <3> QED BY <1>1, <1>3, <3>3
  <2>3. last = LastAttempt
    BY <1>2, <1>3
  <2>4. deficits' = [l \in Lane |-> After(l, LastAttempt, input)]
    BY <1>1, <2>3
  <2>5. currentLaneActive' = FALSE /\ lane' = Lanes!None
    BY <1>1, <1>3
  <2>6. NoneChosen(input)
    BY <2>1, <2>2, <2>4, <2>5 DEF NoneChosen
  <2> QED BY <2>6
<1>4. CASE selecting # {}
  <2>1. selecting \in SUBSET Nat
    BY <1>2
  <2>2. last = Lanes!Min(selecting)
    BY <1>4
  <2>3. last \in selecting /\ \A t \in selecting : last <= t
    <3> HIDE DEF selecting, last
    <3> QED BY <1>4, <2>1, <2>2, LeastIs
  <2>4. last \in 0..LastAttempt /\ Lanes!Selects(last, input)
    <3> HIDE DEF last
    <3> QED BY <1>2, <2>3
  <2>5. ASSUME NEW t \in 0..(last - 1) PROVE ~Lanes!Selects(t, input)
    <3> HIDE DEF last
    <3>1. t \in 0..LastAttempt /\ ~(last <= t)
      BY <1>2, <2>4
    <3>2. t \notin selecting
      <4> HIDE DEF selecting
      <4> QED BY <2>3, <3>1
    <3> QED BY <1>2, <3>1, <3>2
  <2>6. lane' = Lanes!Visited(last) /\ cursor' = Lanes!Visited(last) /\ currentLaneActive' = TRUE
    BY <1>1, <1>4
  <2>7. Chosen(last, input)
    <3> HIDE DEF last, selecting
    <3> QED BY <1>1, <2>4, <2>5, <2>6 DEF Chosen
  <2>8. last \in Nat
    <3> HIDE DEF last
    <3> QED BY <1>2, <2>4
  <2> HIDE DEF last
  <2> QED BY <2>7, <2>8
<1> QED BY <1>3, <1>4

-----------------------------------------------------------------------------
(* How the lanes are ahead of the new cursor: what another lane has had is  *)
(* off what it may still have before l.                                     *)
Indicates(b) == IF b THEN 1 ELSE 0

LEMMA CountsChosen ==
    ASSUME cursor \in Lane, NEW k \in Nat, NEW j \in Lane, NEW l \in Lane, j # l,
           l # Lanes!Visited(k)
    PROVE  Lanes!Visits(j, k) - Lanes!Visits(l, k)
              + Indicates(Ahead(j, Lanes!Visited(k)) < Ahead(l, Lanes!Visited(k)))
              - Indicates(j = Lanes!Visited(k))
             <= Indicates(Ahead(j, cursor) < Ahead(l, cursor))
<1> DEFINE s == Lanes!Visited(k)
           a == k \div LaneCount
           m == k % LaneCount
<1>1. LaneCount \in Nat \ {0} /\ Lane = 0..(LaneCount - 1)
  BY LaneNumbers
<1>2. m \in 0..(LaneCount - 1) /\ a \in Nat
  BY <1>1, Divides
<1>3. s \in Lane /\ \A x \in Lane : s = x <=> Ahead(x, cursor) = m
  BY VisitedIs
<1>4. \A x \in Lane : Lanes!Visits(x, k) = a + (IF Ahead(x, cursor) <= m THEN 1 ELSE 0)
  BY VisitsAre
<1> HIDE DEF s, a, m
<1>5. \A x \in Lane :
         /\ Ahead(x, cursor) = IF x >= cursor THEN x - cursor ELSE x - cursor + LaneCount
         /\ Ahead(x, s) = IF x >= s THEN x - s ELSE x - s + LaneCount
  BY <1>3, AheadIs
<1>6. Ahead(s, cursor) = m
  BY <1>3
<1>7. \A x \in Lane : Ahead(x, s) = IF Ahead(x, cursor) >= m THEN Ahead(x, cursor) - m
                                   ELSE Ahead(x, cursor) - m + LaneCount
  <2> TAKE x \in Lane
  <2>1. x \in 0..(LaneCount - 1) /\ s \in 0..(LaneCount - 1) /\ cursor \in 0..(LaneCount - 1)
    BY <1>1, <1>3
  <2>2. m = IF s >= cursor THEN s - cursor ELSE s - cursor + LaneCount
    BY <1>3, <1>5, <1>6
  <2>3. /\ Ahead(x, cursor) = IF x >= cursor THEN x - cursor ELSE x - cursor + LaneCount
        /\ Ahead(x, s) = IF x >= s THEN x - s ELSE x - s + LaneCount
    BY <1>5
  <2> QED BY <1>1, <2>1, <2>2, <2>3
<1>8. /\ Ahead(j, cursor) \in 0..(LaneCount - 1) /\ Ahead(l, cursor) \in 0..(LaneCount - 1)
      /\ Ahead(j, cursor) # Ahead(l, cursor)
  <2>1. Ahead(j, cursor) \in 0..(LaneCount - 1) /\ Ahead(l, cursor) \in 0..(LaneCount - 1)
    BY AheadIs
  <2>2. Ahead(j, cursor) # Ahead(l, cursor)
    <3>1. /\ Ahead(j, cursor) = IF j >= cursor THEN j - cursor ELSE j - cursor + LaneCount
          /\ Ahead(l, cursor) = IF l >= cursor THEN l - cursor ELSE l - cursor + LaneCount
      BY <1>5
    <3>2. /\ j \in 0..(LaneCount - 1) /\ l \in 0..(LaneCount - 1)
          /\ cursor \in 0..(LaneCount - 1)
      BY <1>1
    <3> QED BY <1>1, <3>1, <3>2
  <2> QED BY <2>1, <2>2
<1>9. /\ Ahead(l, cursor) # m /\ (j = s <=> Ahead(j, cursor) = m)
      /\ Lanes!Visits(j, k) = a + (IF Ahead(j, cursor) <= m THEN 1 ELSE 0)
      /\ Lanes!Visits(l, k) = a + (IF Ahead(l, cursor) <= m THEN 1 ELSE 0)
      /\ Ahead(j, s) = IF Ahead(j, cursor) >= m THEN Ahead(j, cursor) - m
                       ELSE Ahead(j, cursor) - m + LaneCount
      /\ Ahead(l, s) = IF Ahead(l, cursor) >= m THEN Ahead(l, cursor) - m
                       ELSE Ahead(l, cursor) - m + LaneCount
  BY <1>3, <1>4, <1>7 DEF s
<1>10. Lanes!Visits(j, k) - Lanes!Visits(l, k) + Indicates(Ahead(j, s) < Ahead(l, s))
          - Indicates(j = s) <= Indicates(Ahead(j, cursor) < Ahead(l, cursor))
  <2> DEFINE aj == Ahead(j, cursor)
             al == Ahead(l, cursor)
             bj == Ahead(j, s)
             bl == Ahead(l, s)
             vj == Lanes!Visits(j, k)
             vl == Lanes!Visits(l, k)
  <2>1. /\ aj \in 0..(LaneCount - 1) /\ al \in 0..(LaneCount - 1) /\ aj # al /\ al # m
        /\ vj = a + (IF aj <= m THEN 1 ELSE 0) /\ vl = a + (IF al <= m THEN 1 ELSE 0)
        /\ bj = (IF aj >= m THEN aj - m ELSE aj - m + LaneCount)
        /\ bl = (IF al >= m THEN al - m ELSE al - m + LaneCount)
    BY <1>8, <1>9
  <2>2. /\ Indicates(j = s) = IF aj = m THEN 1 ELSE 0
        /\ Indicates(bj < bl) = IF bj < bl THEN 1 ELSE 0
        /\ Indicates(aj < al) = IF aj < al THEN 1 ELSE 0
    BY <1>9 DEF Indicates
  <2> HIDE DEF aj, al, bj, bl, vj, vl
  <2>3. CASE aj = m
    <3>1. bj < bl /\ Indicates(j = s) = 1 /\ vj = a + 1
      BY <1>1, <1>2, <2>1, <2>2, <2>3
    <3>2. Indicates(bj < bl) = 1
      BY <2>2, <3>1
    <3>3. vl = a + 1 \/ (vl = a /\ Indicates(aj < al) = 1)
      BY <1>1, <1>2, <2>1, <2>2, <2>3
    <3>4. Indicates(aj < al) \in {0, 1}
      BY <2>2
    <3> QED BY <1>2, <3>1, <3>2, <3>3, <3>4 DEF aj, al, bj, bl, vj, vl
  <2>4. CASE aj # m
    <3>1. Indicates(j = s) = 0
      BY <2>2, <2>4
    <3>2. CASE (aj < m /\ al < m) \/ (aj > m /\ al > m)
      <4>1. vj = vl /\ (bj < bl <=> aj < al)
        BY <1>1, <1>2, <2>1, <3>2
      <4>2. Indicates(bj < bl) = Indicates(aj < al) /\ Indicates(aj < al) \in {0, 1}
        BY <2>2, <4>1
      <4>3. vl \in Int
        BY <1>2, <2>1
      <4> QED BY <3>1, <4>1, <4>2, <4>3 DEF aj, al, bj, bl, vj, vl
    <3>3. CASE aj < m /\ al > m
      <4>1. vj = a + 1 /\ vl = a /\ ~(bj < bl) /\ aj < al
        BY <1>1, <1>2, <2>1, <3>3
      <4>2. Indicates(bj < bl) = 0 /\ Indicates(aj < al) = 1
        BY <2>2, <4>1
      <4> QED BY <1>2, <3>1, <4>1, <4>2 DEF aj, al, bj, bl, vj, vl
    <3>4. CASE aj > m /\ al < m
      <4>1. vj = a /\ vl = a + 1
        BY <1>1, <1>2, <2>1, <3>4
      <4>2. Indicates(bj < bl) \in {0, 1} /\ Indicates(aj < al) \in {0, 1}
        BY <2>2
      <4> QED BY <1>2, <3>1, <4>1, <4>2 DEF aj, al, bj, bl, vj, vl
    <3>5. \/ (aj < m /\ al < m) \/ (aj > m /\ al > m)
          \/ (aj < m /\ al > m) \/ (aj > m /\ al < m)
      BY <1>2, <2>1, <2>4
    <3> QED BY <3>2, <3>3, <3>4, <3>5
  <2> QED BY <2>3, <2>4
<1> QED BY <1>10 DEF s

LEMMA CountsNone ==
    ASSUME cursor \in Lane, NEW j \in Lane
    PROVE  Lanes!Visits(j, LastAttempt) = MaxTaskCost
<1>1. Ahead(j, cursor) \in 0..(LaneCount - 1)
  BY AheadIs
<1>2. Lanes!Visits(j, LastAttempt) = (LastAttempt \div LaneCount)
         + (IF Ahead(j, cursor) <= LastAttempt % LaneCount THEN 1 ELSE 0)
  BY Attempted, VisitsAre
<1>3. LaneCount \in Nat /\ MaxTaskCost \in Nat
  BY LaneNumbers, Bounds
<1> QED BY <1>1, <1>2, <1>3, Attempted

-----------------------------------------------------------------------------
(* What others can spend until l has saved enough is a lane's share each.   *)
LEMMA SharesAre ==
    /\ \A k \in Lane : Lanes!Share[k] = MaxCost * Quant(k) + (MaxCost - 1)
    /\ \A k \in Lane : Lanes!Share[k] \in Nat
<1>1. \A k \in Lane : Lanes!Share[k] = MaxCost * Quant(k) + (MaxCost - 1)
  BY DEF Lanes!Share, Lane, MaxCost, Quant
<1>2. ASSUME NEW k \in Lane PROVE Lanes!Share[k] \in Nat
  <2>1. MaxCost \in Nat /\ MaxCost >= 1 /\ Quant(k) \in Nat
    BY Bounds
  <2>2. MaxCost * Quant(k) \in Nat
    BY <2>1
  <2> QED BY <1>1, <2>1, <2>2
<1> QED BY <1>1, <1>2

SpentNumbers ==
    Lanes!TypeOK =>
        \A l \in Lane : \A k \in Lane \ {l} :
            /\ TurnsLeft(k, l) \in Int
            /\ Spends(l)[k] = deficits[k] + TurnsLeft(k, l) * Quant(k)
            /\ Spends(l)[k] \in Int

LEMMA SpendsAre == SpentNumbers
<1> SUFFICES ASSUME Lanes!TypeOK, NEW l \in Lane, NEW k \in Lane \ {l}
             PROVE  /\ TurnsLeft(k, l) \in Int
                    /\ Spends(l)[k] = deficits[k] + TurnsLeft(k, l) * Quant(k)
                    /\ Spends(l)[k] \in Int
  BY DEF SpentNumbers
<1>1. /\ deficits[k] \in 0..Lanes!MaxDeficit /\ deficits[l] \in 0..Lanes!MaxDeficit
      /\ cursor \in Lane /\ Lanes!MaxDeficit \in Nat
  BY Bounds DEF Lanes!TypeOK, Lane
<1>2. MaxCost \in Nat /\ Quant(k) \in Nat
  BY Bounds
<1>3. TurnsLeft(k, l) \in Int
  <2>0. /\ (IF Ahead(k, cursor) < Ahead(l, cursor) THEN 1 ELSE 0) \in {0, 1}
        /\ (IF InTurn(k) THEN 1 ELSE 0) \in {0, 1}
    BY Zenon
  <2>1. /\ (IF Ahead(k, cursor) < Ahead(l, cursor) THEN 1 ELSE 0) \in Int
        /\ (IF InTurn(k) THEN 1 ELSE 0) \in Int
    BY <2>0
  <2> QED BY <1>1, <1>2, <2>1 DEF TurnsLeft
<1>4. TurnsLeft(k, l) * Quant(k) \in Int
  BY <1>2, <1>3
<1> QED BY <1>1, <1>3, <1>4 DEF Spends

LEMMA OthersFinite == \A l \in Lane : IsFiniteSet(Lane \ {l})
  BY LaneNumbers, FS_Subset

LEMMA BoundIs ==
    ASSUME NEW l \in Lane
    PROVE  Bound(l) \in Nat
<1>1. \A k \in Lane \ {l} : Lanes!Share[k] \in Nat
  BY SharesAre
<1>2. IsFiniteSet(Lane \ {l})
  BY OthersFinite
<1> QED BY <1>1, <1>2, SumNatural DEF Bound

SpentWithin ==
    Lanes!TypeOK /\ Thrifty =>
        \A l \in Lane : ~InTurn(l) =>
            /\ SumFunctionOnSet(Spends(l), Lane \ {l}) <= Bound(l)
            /\ SumFunctionOnSet(Spends(l), Lane \ {l}) \in Nat

LEMMA SpendsBounded == SpentWithin
<1> SUFFICES ASSUME Lanes!TypeOK, Thrifty, NEW l \in Lane, ~InTurn(l)
             PROVE  /\ SumFunctionOnSet(Spends(l), Lane \ {l}) <= Bound(l)
                    /\ SumFunctionOnSet(Spends(l), Lane \ {l}) \in Nat
  BY DEF SpentWithin
<1>1. IsFiniteSet(Lane \ {l})
  BY OthersFinite
<1>2. ASSUME NEW k \in Lane \ {l}
      PROVE  Spends(l)[k] \in Nat /\ Spends(l)[k] <= Lanes!Share[k]
  <2>1. /\ deficits[k] \in Nat /\ deficits[l] \in Nat
        /\ cursor \in Lane /\ currentLaneActive \in BOOLEAN
    BY Bounds DEF Lanes!TypeOK, Lane
  <2>2. MaxCost \in Nat /\ MaxCost >= 1 /\ Quant(k) \in Nat
    BY Bounds
  <2>3. deficits[l] <= MaxCost - 1
    <3>1. deficits[l] <= MaxCost - 1 + 0
      BY DEF Thrifty
    <3> QED BY <2>1, <2>2, <3>1
  <2>4. Spends(l)[k] = deficits[k] + TurnsLeft(k, l) * Quant(k)
    BY SpendsAre DEF SpentNumbers
  <2>5. \A t \in Nat, q \in Nat : t * q \in Nat
    OBVIOUS
  <2>6. \A t \in Nat, q \in Nat : t <= MaxCost => t * q <= MaxCost * q
    BY <2>2
  <2>7. Lanes!Share[k] = MaxCost * Quant(k) + (MaxCost - 1)
    BY SharesAre
  <2>8. CASE InTurn(k)
    <3>1. k = cursor /\ k # l /\ l \in Lane
      BY <2>8 DEF InTurn
    <3>2. Ahead(k, cursor) < Ahead(l, cursor)
      <4>1. LaneCount \in Nat /\ LaneCount >= 1 /\ l \in 0..(LaneCount - 1) /\ k \in 0..(LaneCount - 1)
        BY LaneNumbers
      <4>2. /\ Ahead(k, k) = IF k >= k THEN k - k ELSE k - k + LaneCount
            /\ Ahead(l, k) = IF l >= k THEN l - k ELSE l - k + LaneCount
        BY AheadIs
      <4> QED BY <3>1, <4>1, <4>2
    <3>3. TurnsLeft(k, l) = MaxCost - 1 - deficits[l]
      BY <2>1, <2>2, <2>8, <3>2 DEF TurnsLeft
    <3>4. TurnsLeft(k, l) \in Nat /\ TurnsLeft(k, l) <= MaxCost - 1
      BY <2>1, <2>2, <2>3, <3>3
    <3>5. deficits[k] <= MaxCost - 1 + Quant(k)
      BY <2>8 DEF Thrifty
    <3>6. TurnsLeft(k, l) * Quant(k) <= (MaxCost - 1) * Quant(k)
      <4>1. \A t \in Nat, n \in Nat, q \in Nat : t <= n => t * q <= n * q
        OBVIOUS
      <4>2. MaxCost - 1 \in Nat
        BY <2>2
      <4> QED BY <2>2, <3>4, <4>1, <4>2
    <3>7. (MaxCost - 1) * Quant(k) = MaxCost * Quant(k) - Quant(k)
      BY <2>2
    <3>8. TurnsLeft(k, l) * Quant(k) \in Nat /\ MaxCost * Quant(k) \in Nat
      BY <2>2, <2>5, <3>4
    <3> QED BY <2>1, <2>2, <2>4, <2>7, <3>5, <3>6, <3>7, <3>8
  <2>9. CASE ~InTurn(k)
    <3>1. deficits[k] <= MaxCost - 1 + 0
      BY <2>9 DEF Thrifty
    <3>2. (IF InTurn(k) THEN 1 ELSE 0) = 0
      BY <2>9, Zenon
    <3>3. TurnsLeft(k, l) = MaxCost - 1 - deficits[l]
             + (IF Ahead(k, cursor) < Ahead(l, cursor) THEN 1 ELSE 0) - 0
      BY <3>2 DEF TurnsLeft
    <3>4. (IF Ahead(k, cursor) < Ahead(l, cursor) THEN 1 ELSE 0) \in 0..1
      OBVIOUS
    <3>5. TurnsLeft(k, l) \in Nat /\ TurnsLeft(k, l) <= MaxCost
      BY <2>1, <2>2, <2>3, <3>3, <3>4
    <3>6. /\ TurnsLeft(k, l) * Quant(k) <= MaxCost * Quant(k)
          /\ TurnsLeft(k, l) * Quant(k) \in Nat /\ MaxCost * Quant(k) \in Nat
      BY <2>2, <2>5, <2>6, <3>5
    <3> QED BY <2>1, <2>2, <2>4, <2>7, <3>1, <3>6
  <2> QED BY <2>8, <2>9
<1>3. \A k \in Lane \ {l} : Lanes!Share[k] \in Nat
  BY SharesAre
<1>4. SumFunctionOnSet(Spends(l), Lane \ {l}) <= SumFunctionOnSet(Lanes!Share, Lane \ {l})
  <2>1. Integral(Spends(l), Lane \ {l}) /\ Integral(Lanes!Share, Lane \ {l})
    BY <1>2, <1>3 DEF Integral
  <2> QED BY <1>1, <1>2, <2>1, SumOrdered
<1>5. SumFunctionOnSet(Spends(l), Lane \ {l}) \in Nat
  BY ONLY <1>1, <1>2, SumNatural
<1> QED BY <1>4, <1>5 DEF Bound

-----------------------------------------------------------------------------
(* A lane's waiting, in the next state: it counts anew, ...                 *)
Waiting(l) == bypass[l] + SumFunctionOnSet(Spends(l), Lane \ {l}) <= Bound(l)

LEMMA CountsAnew ==
    ASSUME Lanes!TypeOK', Thrifty', NEW l \in Lane, ~InTurn(l)', bypass'[l] = 0
    PROVE  Waiting(l)'
<1>1. SpentWithin'
  BY SpendsBounded, PTL
<1>2. (/\ SumFunctionOnSet(Spends(l), Lane \ {l}) <= Bound(l)
       /\ SumFunctionOnSet(Spends(l), Lane \ {l}) \in Nat)'
  BY <1>1 DEF SpentWithin
<1>3. (bypass[l] = 0)'
  OBVIOUS
<1> QED BY <1>2, <1>3 DEF Waiting

(* ... or others spend at least what it counts.                             *)
LEMMA CountsOn ==
    ASSUME Lanes!TypeOK, Lanes!TypeOK', NEW l \in Lane, Waiting(l), bypass[l] \in Nat,
           NEW c \in Nat, NEW k \in Lane \ {l}, bypass'[l] = bypass[l] + c,
           \A j \in (Lane \ {l}) \ {k} : Spends(l)'[j] <= Spends(l)[j],
           Spends(l)'[k] <= Spends(l)[k] - c
    PROVE  Waiting(l)'
<1> DEFINE S == Lane \ {l}
           f == Spends(l)
           g == [f EXCEPT ![k] = @ - c]
<1>1. \A j \in S : Spends(l)[j] \in Int
  BY SpendsAre DEF SpentNumbers
<1>2. SpentNumbers'
  BY SpendsAre, PTL
<1>3. \A j \in S : Spends(l)'[j] \in Int
  BY <1>2 DEF SpentNumbers
<1>4. IsFiniteSet(S)
  BY OthersFinite
<1>5. DOMAIN f = S
  BY DEF Spends
<1>6. /\ g[k] = f[k] - c
      /\ \A j \in S \ {k} : g[j] = f[j]
      /\ \A j \in S : g[j] \in Int
  <2> HIDE DEF f, S
  <2>0. k \in S /\ \A j \in S : f[j] \in Int
    BY <1>1 DEF f, S
  <2> QED BY <1>5, <2>0
<1>7. SumFunctionOnSet(g, S) = SumFunctionOnSet(f, S) + (g[k] - f[k])
  <2>1. Integral(f, S) /\ k \in S
    BY <1>1 DEF Integral
  <2>2. g[k] \in Int
    BY <1>6
  <2> HIDE DEF f, g, S
  <2> QED BY <1>4, <1>6, <2>1, <2>2, SumChanged
<1>8. SumFunctionOnSet(Spends(l)', S) <= SumFunctionOnSet(g, S)
  <2>1. Integral(Spends(l)', S) /\ Integral(g, S)
    <3> HIDE DEF g, S
    <3> QED BY <1>3, <1>6 DEF Integral
  <2>2. \A j \in S : Spends(l)'[j] <= g[j]
    <3> HIDE DEF g
    <3> QED BY <1>6
  <2> HIDE DEF g, S
  <2> QED BY ONLY <1>4, <2>1, <2>2, SumOrdered
<1>9. /\ SumFunctionOnSet(f, S) \in Int /\ SumFunctionOnSet(Spends(l)', S) \in Int
      /\ SumFunctionOnSet(g, S) \in Int
  <2>1. Integral(Spends(l)', S) /\ Integral(g, S) /\ Integral(f, S)
    <3> HIDE DEF g, S
    <3> QED BY <1>1, <1>3, <1>6 DEF Integral, S
  <2> HIDE DEF f, g, S
  <2> QED BY ONLY <1>4, <2>1, SumType
<1>10. bypass[l] + SumFunctionOnSet(f, S) <= Bound(l) /\ Bound(l) \in Nat
  BY BoundIs DEF Waiting
<1>11. f[k] \in Int
  BY <1>1
<1>12. bypass'[l] + SumFunctionOnSet(Spends(l)', S) <= Bound(l)
  <2> HIDE DEF f, g, S
  <2> QED BY <1>6, <1>7, <1>8, <1>9, <1>10, <1>11
<1>13. Waiting(l)' <=> bypass'[l] + SumFunctionOnSet(Spends(l)', Lane \ {l}) <= Bound(l)
  BY DEF Waiting, Bound, Lane, Lanes!LaneIds
<1> QED BY <1>12, <1>13

(* Nothing is counted and others spend no more.                             *)
LEMMA CountsSame ==
    ASSUME Lanes!TypeOK, Lanes!TypeOK', NEW l \in Lane, Waiting(l), bypass'[l] = bypass[l],
           \A j \in Lane \ {l} : Spends(l)'[j] <= Spends(l)[j]
    PROVE  Waiting(l)'
<1> DEFINE S == Lane \ {l}
           f == Spends(l)
<1>1. \A j \in S : Spends(l)[j] \in Int
  BY SpendsAre DEF SpentNumbers
<1>2. SpentNumbers'
  BY SpendsAre, PTL
<1>3. \A j \in S : Spends(l)'[j] \in Int
  BY <1>2 DEF SpentNumbers
<1>4. IsFiniteSet(S)
  BY OthersFinite
<1>5. Integral(f, S) /\ Integral(Spends(l)', S)
  BY <1>1, <1>3 DEF Integral
<1>6. \A j \in S : Spends(l)'[j] <= f[j]
  OBVIOUS
<1>7. /\ SumFunctionOnSet(Spends(l)', S) <= SumFunctionOnSet(f, S)
      /\ SumFunctionOnSet(f, S) \in Int /\ SumFunctionOnSet(Spends(l)', S) \in Int
  <2> HIDE DEF f, S
  <2>1. SumFunctionOnSet(Spends(l)', S) <= SumFunctionOnSet(f, S)
    BY ONLY <1>4, <1>5, <1>6, SumOrdered
  <2>2. SumFunctionOnSet(f, S) \in Int /\ SumFunctionOnSet(Spends(l)', S) \in Int
    BY ONLY <1>4, <1>5, SumType
  <2> QED BY <2>1, <2>2
<1>8. bypass[l] + SumFunctionOnSet(f, S) <= Bound(l) /\ Bound(l) \in Nat
  BY BoundIs DEF Waiting
<1>9. bypass[l] \in Nat
  BY DEF Lanes!TypeOK, Lane
<1>10. bypass'[l] + SumFunctionOnSet(Spends(l)', S) <= Bound(l)
  <2> HIDE DEF f, S
  <2> QED BY <1>7, <1>8, <1>9
<1>11. Waiting(l)' <=> bypass'[l] + SumFunctionOnSet(Spends(l)', Lane \ {l}) <= Bound(l)
  BY DEF Waiting, Bound, Lane, Lanes!LaneIds
<1> QED BY <1>10, <1>11

(* What may be spent, in this state and in the next.                        *)
LEMMA SpendsNow ==
    ASSUME Lanes!TypeOK, NEW l \in Lane, NEW j \in Lane \ {l}
    PROVE  /\ Spends(l)[j] = deficits[j] + TurnsLeft(j, l) * Quant(j)
           /\ TurnsLeft(j, l) = MaxCost - 1 - deficits[l]
                + Indicates(Ahead(j, cursor) < Ahead(l, cursor)) - Indicates(InTurn(j))
           /\ deficits[j] \in Nat /\ deficits[l] \in Nat /\ TurnsLeft(j, l) \in Int
<1>1. /\ Spends(l)[j] = deficits[j] + TurnsLeft(j, l) * Quant(j)
      /\ TurnsLeft(j, l) \in Int
  BY SpendsAre DEF SpentNumbers
<1>2. TurnsLeft(j, l) = MaxCost - 1 - deficits[l]
         + Indicates(Ahead(j, cursor) < Ahead(l, cursor)) - Indicates(InTurn(j))
  BY Zenon DEF TurnsLeft, Indicates
<1>3. deficits[j] \in Nat /\ deficits[l] \in Nat
  BY Bounds DEF Lanes!TypeOK, Lane
<1> QED BY <1>1, <1>2, <1>3

LEMMA ConstantsStay ==
    /\ MaxCost' = MaxCost /\ Lane' = Lane /\ Lanes!MaxDeficit' = Lanes!MaxDeficit
    /\ \A k : Quant(k)' = Quant(k)
    /\ \A l, c : Ahead(l, c)' = Ahead(l, c)
  BY DEF MaxCost, Lanes!Max, Lane, Lanes!LaneIds, Lanes!MaxDeficit, Quant, Lanes!AgedQuantum,
         Lanes!Min, Ahead

LEMMA NextTyped ==
    ASSUME Lanes!TypeOK'
    PROVE  /\ \A k \in Lane : deficits'[k] \in 0..Lanes!MaxDeficit /\ bypass'[k] \in Nat
           /\ \A k \in Lane : deficits'[k] \in Nat
           /\ cursor' \in Lane /\ currentLaneActive' \in BOOLEAN
           /\ lane' \in Lane \cup {Lanes!None}
<1>1. /\ deficits' \in [Lane -> 0..Lanes!MaxDeficit] /\ bypass' \in [Lane -> Nat]
      /\ cursor' \in Lane /\ currentLaneActive' \in BOOLEAN
      /\ lane' \in Lane \cup {Lanes!None}
  BY DEF Lanes!TypeOK, Lane, Lanes!LaneIds, Lanes!MaxDeficit, Lanes!None
<1>2. Lanes!MaxDeficit \in Nat
  BY Bounds
<1> QED BY <1>1, <1>2

LEMMA SpendsNext ==
    ASSUME Lanes!TypeOK', NEW l \in Lane, NEW j \in Lane \ {l}
    PROVE  /\ Spends(l)'[j] = deficits'[j] + TurnsLeft(j, l)' * Quant(j)
           /\ TurnsLeft(j, l)' = MaxCost - 1 - deficits'[l]
                + Indicates(Ahead(j, cursor') < Ahead(l, cursor'))
                - Indicates(j = cursor' /\ currentLaneActive')
           /\ TurnsLeft(j, l)' \in Int
<1>1. SpentNumbers'
  BY SpendsAre, PTL
<1>2. /\ Spends(l)'[j] = deficits'[j] + TurnsLeft(j, l)' * Quant(j)
      /\ TurnsLeft(j, l)' \in Int
  <2>1. l \in Lane' /\ j \in Lane' \ {l}
    BY ConstantsStay
  <2>2. (Spends(l)[j] = deficits[j] + TurnsLeft(j, l) * Quant(j) /\ TurnsLeft(j, l) \in Int)'
    BY <1>1, <2>1 DEF SpentNumbers
  <2>3. Quant(j)' = Quant(j)
    BY ConstantsStay
  <2> QED BY <2>2, <2>3
<1>3. TurnsLeft(j, l)' = MaxCost - 1 - deficits'[l]
         + Indicates(Ahead(j, cursor') < Ahead(l, cursor'))
         - Indicates(j = cursor' /\ currentLaneActive')
  BY Zenon DEF TurnsLeft, Indicates, InTurn, MaxCost, Ahead
<1> QED BY <1>2, <1>3

(* Who stays ready saves for each visit what others may spend in a turn.    *)
LEMMA WaitsOn ==
    ASSUME Lanes!TypeOK, Lanes!TypeOK', NEW input, IsInput(input), NEW k \in Nat,
           deficits' = [x \in Lane |-> After(x, k, input)],
           NEW l \in Lane, l \in input.ready, ~InTurn(l), After(l, k, input) <= MaxCost - 1,
           NEW j \in Lane \ {l},
           Lanes!Visits(j, k) - Lanes!Visits(l, k)
              + Indicates(Ahead(j, cursor') < Ahead(l, cursor'))
              - Indicates(j = cursor' /\ currentLaneActive')
             <= Indicates(Ahead(j, cursor) < Ahead(l, cursor))
    PROVE  Spends(l)'[j] <= Spends(l)[j]
<1> DEFINE q == Quant(j)
           was == TurnsLeft(j, l)
           is == TurnsLeft(j, l)'
           x == Indicates(Ahead(j, cursor) < Ahead(l, cursor))
           y == Indicates(Ahead(j, cursor') < Ahead(l, cursor'))
           z == Indicates(j = cursor' /\ currentLaneActive')
           n == Indicates(InTurn(j))
<1>1. /\ Spends(l)[j] = deficits[j] + was * q /\ was = MaxCost - 1 - deficits[l] + x - n
      /\ deficits[j] \in Nat /\ deficits[l] \in Nat /\ was \in Int
  BY SpendsNow
<1>2. /\ Spends(l)'[j] = deficits'[j] + is * q /\ is = MaxCost - 1 - deficits'[l] + y - z
      /\ is \in Int
  BY SpendsNext
<1>3. deficits'[j] \in Nat /\ deficits'[l] \in Nat
  BY NextTyped
<1>4. q \in Nat /\ q >= 1 /\ MaxCost \in Nat /\ MaxTaskCost \in Nat
  BY Bounds
<1>5. x \in {0, 1} /\ y \in {0, 1} /\ z \in {0, 1} /\ n \in {0, 1}
  BY Zenon DEF Indicates
<1>6. deficits'[j] = After(j, k, input) /\ deficits'[l] = After(l, k, input)
  OBVIOUS
<1>7. TurnsOf(j, k) = Lanes!Visits(j, k) - n
  BY Zenon DEF TurnsOf, Indicates
<1>8. /\ Lanes!Visits(j, k) \in Nat /\ TurnsOf(j, k) \in Nat
      /\ j \in input.ready => After(j, k, input) <= deficits[j] + TurnsOf(j, k) * input.quantum[j]
      /\ j \notin input.ready =>
            After(j, k, input) = IF Lanes!Visits(j, k) > 0 THEN 0 ELSE deficits[j]
  BY Deficits
<1>9. /\ Lanes!Visits(l, k) \in Nat /\ TurnsOf(l, k) \in Nat
      /\ \/ After(l, k, input) >= MaxCost
         \/ After(l, k, input) = deficits[l] + TurnsOf(l, k) * input.quantum[l]
  BY Deficits
<1>10. input.quantum[l] \in Nat /\ input.quantum[l] >= 1
  <2>1. input.quantum[l] \in 1..Quant(l) /\ Quant(l) \in Nat
    BY Bounds DEF IsInput
  <2> QED BY <2>1
<1>11. TurnsOf(l, k) = Lanes!Visits(l, k)
  <2>1. Indicates(InTurn(l)) = 0
    BY Zenon DEF Indicates
  <2>2. TurnsOf(l, k) = Lanes!Visits(l, k) - Indicates(InTurn(l))
    BY Zenon DEF TurnsOf, Indicates
  <2> QED BY <1>9, <2>1, <2>2
<1>12. deficits'[l] >= deficits[l] + Lanes!Visits(l, k)
  <2>1. After(l, k, input) = deficits[l] + Lanes!Visits(l, k) * input.quantum[l]
    BY <1>3, <1>4, <1>6, <1>9, <1>11
  <2>2. \A v \in Nat, p \in Nat : p >= 1 => v * p >= v
    OBVIOUS
  <2>3. \A v \in Nat, p \in Nat : v * p \in Nat
    OBVIOUS
  <2>4. /\ Lanes!Visits(l, k) * input.quantum[l] >= Lanes!Visits(l, k)
        /\ Lanes!Visits(l, k) * input.quantum[l] \in Nat
    BY <1>9, <1>10, <2>2, <2>3
  <2> QED BY <1>1, <1>3, <1>6, <1>9, <2>1, <2>4
<1>13. deficits'[j] <= deficits[j] + TurnsOf(j, k) * q
  <2>0. \A t \in Nat, p \in Nat : t * p \in Nat
    OBVIOUS
  <2>1. TurnsOf(j, k) * q \in Nat
    BY <1>4, <1>8, <2>0
  <2>2. CASE j \in input.ready
    <3>1. input.quantum[j] \in 1..q
      BY <2>2 DEF IsInput
    <3>2. input.quantum[j] \in Nat /\ input.quantum[j] <= q
      BY <1>4, <3>1
    <3>3. \A t \in Nat, p \in Nat, r \in Nat : p <= r => t * p <= t * r
      OBVIOUS
    <3>4. TurnsOf(j, k) * input.quantum[j] <= TurnsOf(j, k) * q
      BY <1>4, <1>8, <3>2, <3>3
    <3>5. TurnsOf(j, k) * input.quantum[j] \in Nat
      BY <1>8, <2>0, <3>2
    <3> QED BY <1>1, <1>3, <1>6, <1>8, <2>1, <2>2, <3>4, <3>5
  <2>3. CASE j \notin input.ready
    BY <1>1, <1>6, <1>8, <2>1, <2>3
  <2> QED BY <2>2, <2>3
<1>14. Lanes!Visits(j, k) - Lanes!Visits(l, k) + y - z <= x
  OBVIOUS
<1> HIDE DEF q, was, is, x, y, z, n
<1>15. TurnsOf(j, k) + is <= was
  BY <1>1, <1>2, <1>3, <1>4, <1>5, <1>7, <1>8, <1>9, <1>12, <1>14
<1>16. TurnsOf(j, k) * q + is * q <= was * q
  <2>1. \A t \in Int, a \in Int, b \in Int, p \in Nat : t + a <= b => t * p + a * p <= b * p
    OBVIOUS
  <2> QED BY <1>1, <1>2, <1>4, <1>8, <1>15, <2>1
<1>17. TurnsOf(j, k) * q \in Int /\ is * q \in Int /\ was * q \in Int
  BY <1>1, <1>2, <1>4, <1>8
<1> QED BY <1>1, <1>2, <1>3, <1>13, <1>16, <1>17

-----------------------------------------------------------------------------
(* The steps keep the invariant: a selection, ...                           *)
LEMMA WaitsWithin ==
    ASSUME Lanes!TypeOK', Thrifty', TurnServed', NEW l \in Lane,
           bypass'[l] <= Bound(l) \/ ~InTurn(l)', ~InTurn(l)' => Waiting(l)'
    PROVE  bypass'[l] <= Bound(l)
<1> SUFFICES ASSUME ~InTurn(l)' PROVE bypass'[l] <= Bound(l)
  OBVIOUS
<1>1. SpentWithin'
  BY SpendsBounded, PTL
<1>2. (SumFunctionOnSet(Spends(l), Lane \ {l}) \in Nat)'
  BY <1>1 DEF SpentWithin, Lane, Lanes!LaneIds
<1>3. (bypass[l] + SumFunctionOnSet(Spends(l), Lane \ {l}) <= Bound(l))'
  BY DEF Waiting
<1>4. Bound(l)' = Bound(l)
  BY DEF Bound, Lane, Lanes!LaneIds
<1>5. bypass'[l] \in Nat /\ Bound(l) \in Nat
  BY NextTyped, BoundIs
<1> QED BY <1>2, <1>3, <1>4, <1>5

LEMMA SelectTyped ==
    ASSUME Lanes!TypeOK, NEW input, IsInput(input), ready' = input.ready,
           bypass' = [l \in Lane |-> IF l \in input.ready THEN bypass[l] ELSE 0],
           NEW k \in Nat, deficits' = [l \in Lane |-> After(l, k, input)],
           cursor' \in Lane, currentLaneActive' \in BOOLEAN, lane' \in Lane \cup {Lanes!None}
    PROVE  Lanes!TypeOK'
<1>1. deficits' \in [Lane -> 0..Lanes!MaxDeficit]
  <2>1. \A l \in Lane : After(l, k, input) \in 0..Lanes!MaxDeficit
    BY Deficits
  <2> QED BY <2>1
<1>2. bypass' \in [Lane -> Nat]
  <2>1. \A l \in Lane : bypass[l] \in Nat
    BY DEF Lanes!TypeOK, Lane
  <2> QED BY <2>1
<1>3. ready' \subseteq Lane
  BY DEF IsInput
<1> QED BY <1>1, <1>2, <1>3 DEF Lanes!TypeOK, Lane, Lanes!LaneIds, Lanes!MaxDeficit, Lanes!None

LEMMA ChosenKeeps ==
    ASSUME LanesInv, lane = Lanes!None, NEW input, IsInput(input), ready' = input.ready,
           bypass' = [l \in Lane |-> IF l \in input.ready THEN bypass[l] ELSE 0],
           NEW k \in Nat, Chosen(k, input)
    PROVE  LanesInv'
<1> DEFINE s == Lanes!Visited(k)
<1>1. /\ deficits' = [l \in Lane |-> After(l, k, input)]
      /\ currentLaneActive' = TRUE /\ lane' = s /\ cursor' = s
      /\ Lanes!Selects(k, input)
      /\ \A t \in 0..(k - 1) : ~Lanes!Selects(t, input)
  BY DEF Chosen
<1>2. /\ Lanes!TypeOK /\ Thrifty /\ TurnServed /\ Waits
      /\ \A l \in Lane : bypass[l] <= Bound(l)
  BY DEF LanesInv
<1>3. cursor \in Lane /\ \A l \in Lane : bypass[l] \in Nat
  BY <1>2 DEF Lanes!TypeOK, Lane
<1>4. s \in Lane
  BY <1>3, VisitedIs
<1> HIDE DEF s
<1>5. Lanes!TypeOK'
  <2>1. currentLaneActive' \in BOOLEAN
    BY <1>1
  <2> QED BY <1>1, <1>2, <1>4, <2>1, SelectTyped
<1>6. ASSUME NEW l \in Lane, l # s PROVE After(l, k, input) <= MaxCost - 1
  <2>1. \A t \in 0..k : Lanes!Visited(t) = l => ~Lanes!Selects(t, input)
    <3> SUFFICES ASSUME NEW t \in 0..k, Lanes!Visited(t) = l PROVE ~Lanes!Selects(t, input)
      OBVIOUS
    <3>1. t # k
      BY <1>6 DEF s
    <3>2. t \in 0..(k - 1)
      BY <3>1
    <3> QED BY <1>1, <3>2
  <2> QED BY <1>2, <2>1, LeftPoor
<1>7. Thrifty'
  <2> SUFFICES ASSUME NEW l \in Lane
               PROVE  deficits'[l] <= MaxCost - 1 + (IF InTurn(l)' THEN Quant(l) ELSE 0)
    BY ConstantsStay DEF Thrifty
  <2>1. deficits'[l] = After(l, k, input) /\ deficits'[l] \in Nat
    BY <1>1, <1>5, NextTyped
  <2>2. MaxCost \in Nat /\ Quant(l) \in Nat
    BY Bounds
  <2>3. CASE l = s
    <3>1. InTurn(l)'
      BY <1>1, <2>3 DEF InTurn
    <3>2. After(l, k, input) <= MaxCost - 1 + Quant(l)
      BY <1>1, <1>2, <2>3, SelectedThrifty DEF s
    <3>3. (IF InTurn(l)' THEN Quant(l) ELSE 0) = Quant(l)
      BY <3>1, Zenon
    <3> QED BY <2>1, <3>2, <3>3
  <2>4. CASE l # s
    <3>1. ~InTurn(l)'
      BY <1>1, <2>4 DEF InTurn
    <3>2. (IF InTurn(l)' THEN Quant(l) ELSE 0) = 0
      BY <3>1, Zenon
    <3> QED BY <1>6, <2>1, <2>2, <2>4, <3>2
  <2> QED BY <2>3, <2>4
<1>8. lane' # Lanes!None
  BY <1>1, <1>4, LaneNumbers
<1>9. Serving' /\ TurnServed'
  <2>1. Lanes!None' = Lanes!None
    BY DEF Lanes!None
  <2> QED BY <1>1, <1>8, <2>1 DEF Serving, TurnServed
<1>10. ASSUME NEW l \in Lane, ~InTurn(l)' PROVE Waiting(l)'
  <2>1. l # s
    BY <1>1, <1>10 DEF InTurn
  <2>2. CASE l \notin input.ready \/ InTurn(l)
    <3>1. bypass'[l] = 0
      <4>1. CASE InTurn(l)
        BY <1>2, <4>1 DEF TurnServed
      <4> QED BY <2>2, <4>1
    <3> QED BY <1>5, <1>7, <1>10, <3>1, CountsAnew
  <2>3. CASE l \in input.ready /\ ~InTurn(l)
    <3>1. bypass'[l] = bypass[l]
      BY <2>3
    <3>2. Waiting(l)
      BY <1>2, <2>3 DEF Waits, Waiting
    <3>3. ASSUME NEW j \in Lane \ {l} PROVE Spends(l)'[j] <= Spends(l)[j]
      <4>1. Lanes!Visits(j, k) - Lanes!Visits(l, k)
              + Indicates(Ahead(j, s) < Ahead(l, s)) - Indicates(j = s)
             <= Indicates(Ahead(j, cursor) < Ahead(l, cursor))
        BY <1>3, <2>1, CountsChosen DEF s
      <4>2. (j = cursor' /\ currentLaneActive') <=> j = s
        BY <1>1
      <4>3. Indicates(j = cursor' /\ currentLaneActive') = Indicates(j = s)
        BY <4>2, Zenon DEF Indicates
      <4>4. Lanes!Visits(j, k) - Lanes!Visits(l, k)
              + Indicates(Ahead(j, cursor') < Ahead(l, cursor'))
              - Indicates(j = cursor' /\ currentLaneActive')
             <= Indicates(Ahead(j, cursor) < Ahead(l, cursor))
        BY <1>1, <4>1, <4>3
      <4>5. After(l, k, input) <= MaxCost - 1
        BY <1>6, <2>1
      <4> QED BY <1>1, <1>2, <1>5, <2>3, <4>4, <4>5, WaitsOn
    <3> QED BY <1>2, <1>5, <3>1, <3>2, <3>3, CountsSame
  <2> QED BY <2>2, <2>3
<1>11. Waits'
  BY <1>10, ConstantsStay DEF Waits, Waiting
<1>12. ASSUME NEW l \in Lane PROVE bypass'[l] <= Bound(l)
  <2>1. bypass'[l] = bypass[l] \/ bypass'[l] = 0
    OBVIOUS
  <2> QED BY <1>2, <1>3, <2>1, BoundIs
<1>13. (\A l \in Lane : bypass[l] <= Bound(l))'
  BY <1>12 DEF Bound, Lane, Lanes!LaneIds
<1> QED BY <1>5, <1>7, <1>9, <1>11, <1>13 DEF LanesInv

(* ... a pass that finds no lane to select, ...                             *)
LEMMA NoneKeeps ==
    ASSUME LanesInv, lane = Lanes!None, NEW input, IsInput(input), ready' = input.ready,
           bypass' = [l \in Lane |-> IF l \in input.ready THEN bypass[l] ELSE 0],
           NoneChosen(input)
    PROVE  LanesInv'
<1>1. /\ deficits' = [l \in Lane |-> After(l, LastAttempt, input)]
      /\ currentLaneActive' = FALSE /\ lane' = Lanes!None /\ cursor' = cursor
      /\ \A t \in 0..LastAttempt : ~Lanes!Selects(t, input)
  BY DEF NoneChosen
<1>2. /\ Lanes!TypeOK /\ Thrifty /\ TurnServed /\ Waits
      /\ \A l \in Lane : bypass[l] <= Bound(l)
  BY DEF LanesInv
<1>3. cursor \in Lane /\ \A l \in Lane : bypass[l] \in Nat
  BY <1>2 DEF Lanes!TypeOK, Lane
<1>4. LastAttempt \in Nat
  BY Attempted
<1>5. Lanes!TypeOK'
  <2>1. currentLaneActive' \in BOOLEAN
    BY <1>1
  <2> QED BY <1>1, <1>2, <1>3, <1>4, <2>1, SelectTyped
<1>6. ASSUME NEW l \in Lane PROVE After(l, LastAttempt, input) <= MaxCost - 1
  BY <1>1, <1>2, <1>4, LeftPoor
<1>7. \A l : ~InTurn(l)'
  BY <1>1 DEF InTurn
<1>8. Thrifty'
  <2> SUFFICES ASSUME NEW l \in Lane
               PROVE  deficits'[l] <= MaxCost - 1 + (IF InTurn(l)' THEN Quant(l) ELSE 0)
    BY ConstantsStay DEF Thrifty
  <2>1. deficits'[l] = After(l, LastAttempt, input) /\ deficits'[l] \in Nat /\ MaxCost \in Nat
    BY <1>1, <1>5, NextTyped, Bounds
  <2>2. (IF InTurn(l)' THEN Quant(l) ELSE 0) = 0
    BY <1>7, Zenon
  <2> QED BY <1>6, <2>1, <2>2
<1>9. Serving' /\ TurnServed'
  <2>1. Lanes!None' = Lanes!None
    BY DEF Lanes!None
  <2> QED BY <1>1, <1>7, <2>1 DEF Serving, TurnServed
<1>10. ASSUME NEW l \in Lane PROVE Waiting(l)'
  <2>1. CASE l \notin input.ready \/ InTurn(l)
    <3>1. bypass'[l] = 0
      <4>1. CASE InTurn(l)
        BY <1>2, <4>1 DEF TurnServed
      <4> QED BY <2>1, <4>1
    <3> QED BY <1>5, <1>7, <1>8, <3>1, CountsAnew
  <2>2. CASE l \in input.ready /\ ~InTurn(l)
    <3>1. bypass'[l] = bypass[l]
      BY <2>2
    <3>2. Waiting(l)
      BY <1>2, <2>2 DEF Waits, Waiting
    <3>3. ASSUME NEW j \in Lane \ {l} PROVE Spends(l)'[j] <= Spends(l)[j]
      <4>1. /\ Lanes!Visits(j, LastAttempt) = MaxTaskCost
            /\ Lanes!Visits(l, LastAttempt) = MaxTaskCost /\ MaxTaskCost \in Nat
        BY <1>3, CountsNone, Bounds
      <4>2. Indicates(j = cursor' /\ currentLaneActive') = 0
        BY <1>1, Zenon DEF Indicates
      <4>3. Indicates(Ahead(j, cursor) < Ahead(l, cursor)) \in {0, 1}
        BY Zenon DEF Indicates
      <4>4. Lanes!Visits(j, LastAttempt) - Lanes!Visits(l, LastAttempt)
              + Indicates(Ahead(j, cursor') < Ahead(l, cursor'))
              - Indicates(j = cursor' /\ currentLaneActive')
             <= Indicates(Ahead(j, cursor) < Ahead(l, cursor))
        BY <1>1, <4>1, <4>2, <4>3
      <4> QED BY <1>1, <1>2, <1>4, <1>5, <1>6, <2>2, <4>4, WaitsOn
    <3> QED BY <1>2, <1>5, <3>1, <3>2, <3>3, CountsSame
  <2> QED BY <2>1, <2>2
<1>11. Waits'
  BY <1>10, ConstantsStay DEF Waits, Waiting
<1>12. ASSUME NEW l \in Lane PROVE bypass'[l] <= Bound(l)
  <2>1. bypass'[l] = bypass[l] \/ bypass'[l] = 0
    OBVIOUS
  <2> QED BY <1>2, <1>3, <2>1, BoundIs
<1>13. (\A l \in Lane : bypass[l] <= Bound(l))'
  BY <1>12 DEF Bound, Lane, Lanes!LaneIds
<1> QED BY <1>5, <1>8, <1>9, <1>11, <1>13 DEF LanesInv

LEMMA SelectKeeps ==
    ASSUME LanesInv, Lanes!Select
    PROVE  LanesInv'
<1>1. lane = Lanes!None /\ Lanes!TypeOK
  BY DEF Lanes!Select, LanesInv
<1>2. PICK rs \in SUBSET Lane : \E aged \in SUBSET rs, cost \in [rs -> Costs] :
         /\ Lanes!SelectLane([ready |-> rs, cost |-> cost,
                quantum |-> [l \in rs |-> Lanes!AgedQuantum(l, aged)]])
         /\ ready' = rs
         /\ bypass' = [l \in Lanes!LaneIds |-> IF l \in rs THEN bypass[l] ELSE 0]
  BY DEF Lanes!Select, Lane
<1>3. PICK aged \in SUBSET rs, cost \in [rs -> Costs] :
         /\ Lanes!SelectLane(Input(rs, aged, cost))
         /\ ready' = rs
         /\ bypass' = [l \in Lane |-> IF l \in rs THEN bypass[l] ELSE 0]
  BY <1>2 DEF Input, Lane
<1> DEFINE input == Input(rs, aged, cost)
<1>4. IsInput(input) /\ input.ready = rs
  <2>1. IsInput(Input(rs, aged, cost))
    BY InputIs
  <2>2. Input(rs, aged, cost).ready = rs
    BY DEF Input
  <2> QED BY <2>1, <2>2
<1>5. Lanes!SelectLane(input)
  BY <1>3
<1> HIDE DEF input
<1>6. (\E k \in Nat : Chosen(k, input)) \/ NoneChosen(input)
  BY <1>1, <1>4, <1>5, SelectLaneDoes
<1>7. ready' = input.ready /\ bypass' = [l \in Lane |-> IF l \in input.ready THEN bypass[l] ELSE 0]
  BY <1>3, <1>4
<1>8. ASSUME NEW k \in Nat, Chosen(k, input) PROVE LanesInv'
  BY <1>1, <1>4, <1>7, <1>8, ChosenKeeps
<1>9. ASSUME NoneChosen(input) PROVE LanesInv'
  BY <1>1, <1>4, <1>7, <1>9, NoneKeeps
<1> QED BY <1>6, <1>8, <1>9

(* ... the end of a slice, ...                                              *)
LEMMA ConsumedIs ==
    ASSUME NEW d \in Nat, NEW c \in 0..d
    PROVE  d - Lanes!Min({d, c}) = d - c
  BY LeastOfTwo

LEMMA EndSliceKeeps ==
    ASSUME LanesInv, Lanes!EndSlice
    PROVE  LanesInv'
<1>1. /\ Lanes!TypeOK /\ Thrifty /\ Serving /\ TurnServed /\ Waits
      /\ \A l \in Lane : bypass[l] <= Bound(l)
  BY DEF LanesInv
<1>2. lane # Lanes!None /\ lane' = Lanes!None
      /\ cursor' = cursor /\ currentLaneActive' = currentLaneActive /\ ready' = ready
  BY DEF Lanes!EndSlice
<1>3. PICK c \in 1..deficits[lane] : Lanes!Consume(c) /\ Lanes!Bypass(c)
  BY DEF Lanes!EndSlice
<1>4. /\ deficits \in [Lane -> 0..Lanes!MaxDeficit] /\ bypass \in [Lane -> Nat]
      /\ cursor \in Lane /\ currentLaneActive \in BOOLEAN /\ ready \subseteq Lane
      /\ lane \in Lane /\ Lanes!MaxDeficit \in Nat
  BY <1>1, <1>2, Bounds DEF Lanes!TypeOK, Lane
<1>5. lane = cursor /\ InTurn(lane)
  BY <1>1, <1>2, <1>4 DEF Serving, InTurn
<1>6. c \in Nat /\ c <= deficits[lane] /\ deficits[lane] \in Nat
  <2>1. deficits[lane] \in 0..Lanes!MaxDeficit
    BY <1>4
  <2> QED BY <1>4, <2>1
<1>7. deficits' = [deficits EXCEPT ![lane] = deficits[lane] - c]
  <2>1. deficits[lane] - Lanes!Min({deficits[lane], c}) = deficits[lane] - c
    BY <1>6, ConsumedIs
  <2> QED BY <1>3, <2>1 DEF Lanes!Consume
<1>8. bypass' = [l \in Lane |-> IF l = lane \/ l \notin ready THEN 0 ELSE bypass[l] + c]
  BY <1>3 DEF Lanes!Bypass, Lane
<1>9. Lanes!TypeOK'
  <2>1. deficits' \in [Lane -> 0..Lanes!MaxDeficit]
    <3>1. deficits[lane] - c \in 0..Lanes!MaxDeficit
      <4>1. deficits[lane] \in 0..Lanes!MaxDeficit
        BY <1>4
      <4> QED BY <1>4, <1>6, <4>1
    <3> QED BY <1>4, <1>7, <3>1
  <2>2. bypass' \in [Lane -> Nat]
    BY <1>4, <1>6, <1>8
  <2> QED BY <1>2, <1>4, <2>1, <2>2
          DEF Lanes!TypeOK, Lane, Lanes!LaneIds, Lanes!MaxDeficit, Lanes!None
<1>10. \A l \in Lane : deficits'[l] <= deficits[l] /\ (l # lane => deficits'[l] = deficits[l])
  <2> TAKE l \in Lane
  <2>1. deficits[l] \in Nat
    BY <1>4
  <2> QED BY <1>4, <1>6, <1>7, <2>1
<1>11. \A l : InTurn(l)' <=> InTurn(l)
  BY <1>2 DEF InTurn
<1>12. Thrifty'
  <2> SUFFICES ASSUME NEW l \in Lane
               PROVE  deficits'[l] <= MaxCost - 1 + (IF InTurn(l)' THEN Quant(l) ELSE 0)
    BY ConstantsStay DEF Thrifty
  <2>1. (IF InTurn(l)' THEN Quant(l) ELSE 0) = (IF InTurn(l) THEN Quant(l) ELSE 0)
    BY <1>11, Zenon
  <2>2. (IF InTurn(l) THEN Quant(l) ELSE 0) \in {0, Quant(l)}
    BY Zenon
  <2>3. /\ deficits[l] \in Nat /\ deficits'[l] \in Nat /\ MaxCost \in Nat /\ Quant(l) \in Nat
    BY <1>4, <1>9, NextTyped, Bounds
  <2>4. deficits[l] <= MaxCost - 1 + (IF InTurn(l) THEN Quant(l) ELSE 0)
    BY <1>1 DEF Thrifty
  <2>5. (IF InTurn(l) THEN Quant(l) ELSE 0) \in Nat
    BY <2>2, <2>3
  <2> QED BY <1>10, <2>1, <2>3, <2>4, <2>5
<1>13. Serving'
  <2>1. Lanes!None' = Lanes!None
    BY DEF Lanes!None
  <2> QED BY <1>2, <2>1 DEF Serving
<1>14. TurnServed'
  <2>1. ASSUME NEW l \in Lane, InTurn(l)' PROVE bypass'[l] = 0
    <3>1. l = lane
      BY <1>5, <1>11, <2>1 DEF InTurn
    <3> QED BY <1>4, <1>8, <3>1
  <2> QED BY <2>1 DEF TurnServed, Lane, Lanes!LaneIds
<1>15. ASSUME NEW l \in Lane, ~InTurn(l)' PROVE Waiting(l)'
  <2>1. ~InTurn(l) /\ l # lane
    BY <1>5, <1>11, <1>15
  <2>2. CASE l \notin ready
    BY <1>8, <1>9, <1>12, <1>15, <2>2, CountsAnew
  <2>3. CASE l \in ready
    <3>1. bypass'[l] = bypass[l] + c /\ bypass[l] \in Nat
      BY <1>4, <1>8, <2>1, <2>3
    <3>2. Waiting(l)
      BY <1>1, <2>1 DEF Waits, Waiting
    <3>3. ASSUME NEW j \in Lane \ {l}
          PROVE  /\ TurnsLeft(j, l)' = TurnsLeft(j, l)
                 /\ TurnsLeft(j, l) * Quant(j) \in Int
                 /\ Spends(l)[j] = deficits[j] + TurnsLeft(j, l) * Quant(j)
                 /\ Spends(l)'[j] = deficits'[j] + TurnsLeft(j, l) * Quant(j)
      <4>1. (j = cursor' /\ currentLaneActive') <=> InTurn(j)
        BY <1>2 DEF InTurn
      <4>2. Indicates(j = cursor' /\ currentLaneActive') = Indicates(InTurn(j))
        BY <4>1, Zenon DEF Indicates
      <4>3. /\ Spends(l)[j] = deficits[j] + TurnsLeft(j, l) * Quant(j)
            /\ TurnsLeft(j, l) = MaxCost - 1 - deficits[l]
                 + Indicates(Ahead(j, cursor) < Ahead(l, cursor)) - Indicates(InTurn(j))
            /\ TurnsLeft(j, l) \in Int
        BY <1>1, SpendsNow
      <4>4. /\ Spends(l)'[j] = deficits'[j] + TurnsLeft(j, l)' * Quant(j)
            /\ TurnsLeft(j, l)' = MaxCost - 1 - deficits'[l]
                 + Indicates(Ahead(j, cursor') < Ahead(l, cursor'))
                 - Indicates(j = cursor' /\ currentLaneActive')
        BY <1>9, SpendsNext
      <4>5. TurnsLeft(j, l)' = TurnsLeft(j, l)
        BY <1>2, <1>10, <2>1, <4>2, <4>3, <4>4
      <4>6. TurnsLeft(j, l) * Quant(j) \in Int
        <5>1. Quant(j) \in Int
          BY Bounds
        <5> QED BY <4>3, <5>1
      <4> QED BY <4>3, <4>4, <4>5, <4>6
    <3>4. \A j \in (Lane \ {l}) \ {lane} : Spends(l)'[j] <= Spends(l)[j]
      <4> TAKE j \in (Lane \ {l}) \ {lane}
      <4>1. deficits'[j] = deficits[j] /\ deficits[j] \in Nat
        BY <1>4, <1>10
      <4> QED BY <3>3, <4>1
    <3>5. Spends(l)'[lane] <= Spends(l)[lane] - c
      <4>1. deficits'[lane] = deficits[lane] - c
        BY <1>4, <1>7
      <4>2. lane \in Lane \ {l}
        BY <1>4, <2>1
      <4> QED BY <1>6, <3>3, <4>1, <4>2
    <3>6. lane \in Lane \ {l}
      BY <1>4, <2>1
    <3> QED BY <1>1, <1>6, <1>9, <3>1, <3>2, <3>4, <3>5, <3>6, CountsOn
  <2> QED BY <2>2, <2>3
<1>16. Waits'
  BY <1>15, ConstantsStay DEF Waits, Waiting
<1>17. ASSUME NEW l \in Lane PROVE bypass'[l] <= Bound(l)
  <2>1. CASE InTurn(l)'
    <3>1. l = lane
      BY <1>5, <1>11, <2>1 DEF InTurn
    <3>2. bypass'[l] = 0
      BY <1>4, <1>8, <3>1
    <3> QED BY <3>2, BoundIs
  <2>2. CASE ~InTurn(l)'
    BY <1>9, <1>12, <1>14, <1>15, <2>2, WaitsWithin
  <2> QED BY <2>1, <2>2
<1>18. (\A l \in Lane : bypass[l] <= Bound(l))'
  BY <1>17 DEF Bound, Lane, Lanes!LaneIds
<1> QED BY <1>9, <1>12, <1>13, <1>14, <1>16, <1>18 DEF LanesInv

(* ... and a lane that has run out.                                         *)
LEMMA NextLane ==
    ASSUME NEW c \in Lane, NEW l \in Lane
    PROVE  /\ (c + 1) % LaneCount \in Lane
           /\ Ahead(l, (c + 1) % LaneCount)
                = IF l = c THEN LaneCount - 1 ELSE Ahead(l, c) - 1
<1>1. /\ LaneCount \in Nat \ {0} /\ Lane = 0..(LaneCount - 1)
      /\ c \in 0..(LaneCount - 1) /\ l \in 0..(LaneCount - 1)
  BY LaneNumbers
<1>2. (c + 1) % LaneCount = IF c + 1 = LaneCount THEN 0 ELSE c + 1
  <2>1. CASE c + 1 = LaneCount
    <3>1. ((1 * LaneCount) + 0) % LaneCount = 0
      BY <1>1, Division
    <3>2. c + 1 = (1 * LaneCount) + 0
      BY <1>1, <2>1
    <3> QED BY <2>1, <3>1, <3>2
  <2>2. CASE c + 1 # LaneCount
    <3>1. c + 1 \in 0..(LaneCount - 1)
      BY <1>1, <2>2
    <3>2. ((0 * LaneCount) + (c + 1)) % LaneCount = c + 1
      BY <1>1, <3>1, Division
    <3>3. (0 * LaneCount) + (c + 1) = c + 1
      BY <1>1
    <3> QED BY <2>2, <3>2, <3>3
  <2> QED BY <2>1, <2>2
<1>3. (c + 1) % LaneCount \in Lane
  BY <1>1, <1>2
<1> DEFINE d == (c + 1) % LaneCount
<1>4. /\ Ahead(l, c) = IF l >= c THEN l - c ELSE l - c + LaneCount
      /\ Ahead(l, d) = IF l >= d THEN l - d ELSE l - d + LaneCount
  BY <1>3, AheadIs
<1>5. d = IF c + 1 = LaneCount THEN 0 ELSE c + 1
  BY <1>2
<1> HIDE DEF d
<1>6. Ahead(l, d) = IF l = c THEN LaneCount - 1 ELSE Ahead(l, c) - 1
  BY <1>1, <1>4, <1>5
<1> QED BY <1>3, <1>6 DEF d

LEMMA ExhaustLaneKeeps ==
    ASSUME LanesInv, Lanes!ExhaustLane
    PROVE  LanesInv'
<1>1. /\ Lanes!TypeOK /\ Thrifty /\ Serving /\ TurnServed /\ Waits
      /\ \A l \in Lane : bypass[l] <= Bound(l)
  BY DEF LanesInv
<1>2. /\ lane # Lanes!None /\ lane' = Lanes!None /\ ready' = ready
      /\ deficits' = [deficits EXCEPT ![lane] = 0]
  BY DEF Lanes!ExhaustLane
<1>3. PICK c \in 0..deficits[lane] : Lanes!Bypass(c)
  BY DEF Lanes!ExhaustLane
<1>4. /\ deficits \in [Lane -> 0..Lanes!MaxDeficit] /\ bypass \in [Lane -> Nat]
      /\ cursor \in Lane /\ currentLaneActive \in BOOLEAN /\ ready \subseteq Lane
      /\ lane \in Lane /\ Lanes!MaxDeficit \in Nat
  BY <1>1, <1>2, Bounds DEF Lanes!TypeOK, Lane
<1>5. lane = cursor /\ InTurn(lane)
  BY <1>1, <1>2, <1>4 DEF Serving, InTurn
<1>6. currentLaneActive' = FALSE /\ cursor' = (cursor + 1) % LaneCount
  BY <1>5 DEF Lanes!ExhaustLane
<1>7. /\ cursor' \in Lane
      /\ \A l \in Lane : Ahead(l, cursor')
            = IF l = cursor THEN LaneCount - 1 ELSE Ahead(l, cursor) - 1
  BY <1>4, <1>6, NextLane
<1>8. c \in Nat /\ c <= deficits[lane] /\ deficits[lane] \in Nat
  <2>1. deficits[lane] \in 0..Lanes!MaxDeficit
    BY <1>4
  <2> QED BY <1>4, <2>1
<1>9. bypass' = [l \in Lane |-> IF l = lane \/ l \notin ready THEN 0 ELSE bypass[l] + c]
  BY <1>3 DEF Lanes!Bypass, Lane
<1>10. Lanes!TypeOK'
  <2>1. deficits' \in [Lane -> 0..Lanes!MaxDeficit]
    <3>1. 0 \in 0..Lanes!MaxDeficit
      BY <1>4
    <3> QED BY <1>2, <1>4, <3>1
  <2>2. bypass' \in [Lane -> Nat]
    BY <1>4, <1>8, <1>9
  <2>3. currentLaneActive' \in BOOLEAN
    BY <1>6
  <2> QED BY <1>2, <1>4, <1>7, <2>1, <2>2, <2>3
          DEF Lanes!TypeOK, Lane, Lanes!LaneIds, Lanes!MaxDeficit, Lanes!None
<1>11. \A l : ~InTurn(l)'
  BY <1>6 DEF InTurn
<1>12. \A l \in Lane : deficits'[l] = IF l = lane THEN 0 ELSE deficits[l]
  BY <1>2, <1>4
<1>13. Thrifty'
  <2> SUFFICES ASSUME NEW l \in Lane
               PROVE  deficits'[l] <= MaxCost - 1 + (IF InTurn(l)' THEN Quant(l) ELSE 0)
    BY ConstantsStay DEF Thrifty
  <2>1. (IF InTurn(l)' THEN Quant(l) ELSE 0) = 0
    BY <1>11, Zenon
  <2>2. deficits[l] \in Nat /\ MaxCost \in Nat /\ MaxCost >= 1
    BY <1>4, Bounds
  <2>3. CASE l = lane
    BY <1>12, <2>1, <2>2, <2>3
  <2>4. CASE l # lane
    <3>1. ~InTurn(l)
      BY <1>5, <2>4 DEF InTurn
    <3>2. deficits[l] <= MaxCost - 1 + 0
      BY <1>1, <3>1 DEF Thrifty
    <3> QED BY <1>12, <2>1, <2>2, <2>4, <3>2
  <2> QED BY <2>3, <2>4
<1>14. Serving' /\ TurnServed'
  <2>1. Lanes!None' = Lanes!None
    BY DEF Lanes!None
  <2> QED BY <1>2, <1>11, <2>1 DEF Serving, TurnServed
<1>15. ASSUME NEW l \in Lane PROVE Waiting(l)'
  <2>1. CASE l \notin ready \/ l = lane
    <3>1. bypass'[l] = 0
      BY <1>9, <2>1
    <3> QED BY <1>10, <1>11, <1>13, <3>1, CountsAnew
  <2>2. CASE l \in ready /\ l # lane
    <3>1. bypass'[l] = bypass[l] + c /\ bypass[l] \in Nat /\ deficits'[l] = deficits[l]
      BY <1>4, <1>9, <1>12, <2>2
    <3>2. Waiting(l)
      <4>1. ~InTurn(l)
        BY <1>5, <2>2 DEF InTurn
      <4> QED BY <1>1, <4>1 DEF Waits, Waiting
    <3>3. ASSUME NEW j \in Lane \ {l}
          PROVE  /\ TurnsLeft(j, l)' = TurnsLeft(j, l)
                 /\ TurnsLeft(j, l) * Quant(j) \in Int
                 /\ Spends(l)[j] = deficits[j] + TurnsLeft(j, l) * Quant(j)
                 /\ Spends(l)'[j] = deficits'[j] + TurnsLeft(j, l) * Quant(j)
      <4>1. Indicates(j = cursor' /\ currentLaneActive') = 0
        BY <1>6, Zenon DEF Indicates
      <4>2. Indicates(Ahead(j, cursor') < Ahead(l, cursor'))
              = Indicates(Ahead(j, cursor) < Ahead(l, cursor)) - Indicates(InTurn(j))
        <5>1. /\ LaneCount \in Nat /\ Ahead(l, cursor) \in 0..(LaneCount - 1)
              /\ Ahead(j, cursor) \in 0..(LaneCount - 1)
              /\ Ahead(cursor, cursor) = IF cursor >= cursor THEN cursor - cursor
                                         ELSE cursor - cursor + LaneCount
          BY <1>4, LaneNumbers, AheadIs
        <5>2. cursor \in Nat
          BY <1>4, LaneNumbers
        <5>3. Ahead(l, cursor') = Ahead(l, cursor) - 1 /\ Ahead(l, cursor') \in 0..(LaneCount - 1)
          BY <1>5, <1>7, <2>2, AheadIs
        <5>4. CASE j = cursor
          <6>1. Ahead(j, cursor) = 0 /\ Ahead(j, cursor') = LaneCount - 1
            BY <1>7, <5>1, <5>2, <5>4
          <6>2. Ahead(j, cursor) < Ahead(l, cursor) /\ ~(Ahead(j, cursor') < Ahead(l, cursor'))
            BY <5>1, <5>3, <6>1
          <6>3. InTurn(j)
            BY <1>5, <5>4
          <6>4. /\ Indicates(Ahead(j, cursor') < Ahead(l, cursor')) = 0
                /\ Indicates(Ahead(j, cursor) < Ahead(l, cursor)) = 1
                /\ Indicates(InTurn(j)) = 1
            BY <6>2, <6>3, Zenon DEF Indicates
          <6> QED BY <6>4
        <5>5. CASE j # cursor
          <6>1. Ahead(j, cursor') = Ahead(j, cursor) - 1
            BY <1>7, <5>5
          <6>2. Ahead(j, cursor') < Ahead(l, cursor') <=> Ahead(j, cursor) < Ahead(l, cursor)
            BY <5>1, <5>3, <6>1
          <6>3. ~InTurn(j)
            BY <5>5 DEF InTurn
          <6>4. /\ Indicates(Ahead(j, cursor') < Ahead(l, cursor'))
                     = Indicates(Ahead(j, cursor) < Ahead(l, cursor))
                /\ Indicates(Ahead(j, cursor) < Ahead(l, cursor)) \in {0, 1}
                /\ Indicates(InTurn(j)) = 0
            BY <6>2, <6>3, Zenon DEF Indicates
          <6> QED BY <6>4
        <5> QED BY <5>4, <5>5
      <4>3. /\ Spends(l)[j] = deficits[j] + TurnsLeft(j, l) * Quant(j)
            /\ TurnsLeft(j, l) = MaxCost - 1 - deficits[l]
                 + Indicates(Ahead(j, cursor) < Ahead(l, cursor)) - Indicates(InTurn(j))
            /\ TurnsLeft(j, l) \in Int /\ deficits[l] \in Nat
        BY <1>1, SpendsNow
      <4>4. /\ Spends(l)'[j] = deficits'[j] + TurnsLeft(j, l)' * Quant(j)
            /\ TurnsLeft(j, l)' = MaxCost - 1 - deficits'[l]
                 + Indicates(Ahead(j, cursor') < Ahead(l, cursor'))
                 - Indicates(j = cursor' /\ currentLaneActive')
        BY <1>10, SpendsNext
      <4>5. MaxCost \in Nat /\ Quant(j) \in Nat
        BY Bounds
      <4>6. /\ Indicates(Ahead(j, cursor) < Ahead(l, cursor)) \in {0, 1}
            /\ Indicates(InTurn(j)) \in {0, 1}
        BY Zenon DEF Indicates
      <4>7. TurnsLeft(j, l)' = TurnsLeft(j, l)
        BY <3>1, <4>1, <4>2, <4>3, <4>4, <4>5, <4>6
      <4>8. TurnsLeft(j, l) * Quant(j) \in Int
        BY <4>3, <4>5
      <4> QED BY <4>3, <4>4, <4>7, <4>8
    <3>4. \A j \in (Lane \ {l}) \ {lane} : Spends(l)'[j] <= Spends(l)[j]
      <4> TAKE j \in (Lane \ {l}) \ {lane}
      <4>1. deficits'[j] = deficits[j] /\ deficits[j] \in Nat
        BY <1>4, <1>12
      <4> QED BY <3>3, <4>1
    <3>5. lane \in Lane \ {l}
      BY <1>4, <2>2
    <3>6. Spends(l)'[lane] <= Spends(l)[lane] - c
      <4>1. deficits'[lane] = 0
        BY <1>4, <1>12
      <4> QED BY <1>8, <3>3, <3>5, <4>1
    <3> QED BY <1>1, <1>8, <1>10, <3>1, <3>2, <3>4, <3>5, <3>6, CountsOn
  <2> QED BY <2>1, <2>2
<1>16. Waits'
  BY <1>15, ConstantsStay DEF Waits, Waiting
<1>17. \A l \in Lane : bypass'[l] <= Bound(l)
  BY <1>10, <1>11, <1>13, <1>14, <1>15, WaitsWithin
<1>18. (\A l \in Lane : bypass[l] <= Bound(l))'
  BY <1>17 DEF Bound, Lane, Lanes!LaneIds
<1> QED BY <1>10, <1>13, <1>14, <1>16, <1>18 DEF LanesInv

-----------------------------------------------------------------------------
LEMMA InitLanesInv == Lanes!Init => LanesInv
<1> SUFFICES ASSUME Lanes!Init PROVE LanesInv
  OBVIOUS
<1>1. /\ deficits = [l \in Lane |-> 0] /\ cursor = 0 /\ currentLaneActive = FALSE
      /\ lane = Lanes!None /\ ready = {} /\ bypass = [l \in Lane |-> 0]
  BY DEF Lanes!Init, Lane
<1>2. Lanes!TypeOK
  <2>1. Lanes!MaxDeficit \in Nat /\ 0 \in Lane
    BY Bounds, LaneNumbers
  <2>2. 0 \in 0..Lanes!MaxDeficit
    BY <2>1
  <2>3. deficits \in [Lane -> 0..Lanes!MaxDeficit] /\ bypass \in [Lane -> Nat]
    BY <1>1, <2>2
  <2> QED BY <1>1, <2>1, <2>3 DEF Lanes!TypeOK, Lane
<1>3. \A l : ~InTurn(l)
  BY <1>1 DEF InTurn
<1>4. Thrifty
  <2> SUFFICES ASSUME NEW l \in Lane
               PROVE  deficits[l] <= MaxCost - 1 + (IF InTurn(l) THEN Quant(l) ELSE 0)
    BY DEF Thrifty
  <2>1. (IF InTurn(l) THEN Quant(l) ELSE 0) = 0
    BY <1>3, Zenon
  <2> QED BY <1>1, <2>1, Bounds
<1>5. Serving /\ TurnServed
  BY <1>1 DEF Serving, TurnServed
<1>6. ASSUME NEW l \in Lane
      PROVE  bypass[l] + SumFunctionOnSet(Spends(l), Lane \ {l}) <= Bound(l)
  <2>1. /\ SumFunctionOnSet(Spends(l), Lane \ {l}) <= Bound(l)
        /\ SumFunctionOnSet(Spends(l), Lane \ {l}) \in Nat
    BY <1>2, <1>3, <1>4, SpendsBounded DEF SpentWithin
  <2>2. bypass[l] = 0
    BY <1>1
  <2> QED BY <2>1, <2>2
<1>7. \A l \in Lane : bypass[l] <= Bound(l)
  BY <1>1, BoundIs
<1> QED BY <1>2, <1>4, <1>5, <1>6, <1>7 DEF LanesInv, Waits

LEMMA NextLanesInv == LanesInv /\ [Lanes!Next]_(Lanes!vars) => LanesInv'
<1> SUFFICES ASSUME LanesInv, [Lanes!Next]_(Lanes!vars) PROVE LanesInv'
  OBVIOUS
<1>1. CASE Lanes!Select
  BY <1>1, SelectKeeps
<1>2. CASE Lanes!EndSlice
  BY <1>2, EndSliceKeeps
<1>3. CASE Lanes!ExhaustLane
  BY <1>3, ExhaustLaneKeeps
<1>4. CASE UNCHANGED Lanes!vars
  <2>1. UNCHANGED <<deficits, cursor, currentLaneActive, lane, ready, bypass>>
    BY <1>4 DEF Lanes!vars
  <2>2. Lanes!TypeOK' /\ Thrifty' /\ Serving' /\ TurnServed'
    BY <2>1 DEF LanesInv, Lanes!TypeOK, Thrifty, Serving, TurnServed, InTurn
  <2>3. Waits'
    BY <2>1 DEF LanesInv, Waits, Spends, TurnsLeft, InTurn
  <2>4. (\A l \in Lane : bypass[l] <= Bound(l))'
    BY <2>1 DEF LanesInv
  <2> QED BY <2>2, <2>3, <2>4 DEF LanesInv
<1> QED BY <1>1, <1>2, <1>3, <1>4 DEF Lanes!Next

LEMMA LanesSum ==
    ASSUME NEW f, NEW S
    PROVE  Lanes!SumFunctionOnSet(f, S) = SumFunctionOnSet(f, S)
  BY DEF Lanes!SumFunctionOnSet, Lanes!FoldFunctionOnSet, Lanes!MapThenFoldSet,
         SumFunctionOnSet, FoldFunctionOnSet, MapThenFoldSet

LEMMA LanesInvServed == LanesInv => NoStarvation
<1> SUFFICES ASSUME LanesInv PROVE NoStarvation
  OBVIOUS
<1>1. \A l \in Lane : bypass[l] <= Lanes!SumFunctionOnSet(Lanes!Share, Lane \ {l})
  BY LanesSum DEF LanesInv, Bound
<1> QED BY <1>1 DEF NoStarvation, Lanes!NoStarvation, LanesInv, Lane

(* Whatever lanes there are and whatever they, their tasks' costs and their *)
(* ages are at each selection: before a lane that stays ready is selected,  *)
(* the others are served no more than their shares                          *)
(* (DispatcherWeightedDeficitRoundRobin::selectLane, consume, resetLane).   *)
THEOREM LanesAreServed == Lanes!Spec => []NoStarvation
<1>1. Lanes!Init => LanesInv
  BY InitLanesInv
<1>2. LanesInv /\ [Lanes!Next]_(Lanes!vars) => LanesInv'
  BY NextLanesInv
<1>3. LanesInv => NoStarvation
  BY LanesInvServed
<1> QED BY <1>1, <1>2, <1>3, PTL DEF Lanes!Spec

(* A ready lane has been visited so often that it can pay.                  *)
LEMMA ReadyCanPay ==
    ASSUME LanesInv, MaxCost < MaxTaskCost, NEW input, IsInput(input), NoneChosen(input)
    PROVE  input.ready = {}
<1> SUFFICES ASSUME NEW l \in input.ready PROVE FALSE
  OBVIOUS
<1>1. l \in Lane /\ input.cost[l] \in 1..MaxCost /\ input.quantum[l] \in 1..Quant(l)
  BY DEF IsInput
<1>2. Lanes!TypeOK /\ Thrifty /\ cursor \in Lane /\ deficits[l] \in Nat
  BY <1>1, Bounds DEF LanesInv, Lanes!TypeOK, Lane
<1>3. MaxCost \in Nat /\ MaxTaskCost \in Nat /\ Quant(l) \in Nat /\ LastAttempt \in Nat
  BY <1>1, Bounds, Attempted
<1>4. Lanes!Visits(l, LastAttempt) = MaxTaskCost
  BY <1>1, <1>2, CountsNone
<1>5. After(l, LastAttempt, input) <= MaxCost - 1
  BY <1>1, <1>2, <1>3, LeftPoor DEF NoneChosen
<1>6. /\ TurnsOf(l, LastAttempt) \in Nat /\ After(l, LastAttempt, input) \in 0..Lanes!MaxDeficit
      /\ \/ After(l, LastAttempt, input) >= MaxCost
         \/ After(l, LastAttempt, input)
              = deficits[l] + TurnsOf(l, LastAttempt) * input.quantum[l]
  BY <1>1, <1>2, <1>3, Deficits
<1>7. TurnsOf(l, LastAttempt) >= MaxCost
  <2>1. TurnsOf(l, LastAttempt) = MaxTaskCost - Indicates(InTurn(l))
    BY <1>4, Zenon DEF TurnsOf, Indicates
  <2>2. Indicates(InTurn(l)) \in {0, 1}
    BY Zenon DEF Indicates
  <2> QED BY <1>3, <2>1, <2>2
<1>8. TurnsOf(l, LastAttempt) * input.quantum[l] >= TurnsOf(l, LastAttempt)
  <2>1. \A v \in Nat, p \in Nat : p >= 1 => v * p >= v
    OBVIOUS
  <2>2. input.quantum[l] \in Nat /\ input.quantum[l] >= 1
    BY <1>1, <1>3
  <2> QED BY <1>6, <2>1, <2>2
<1>9. TurnsOf(l, LastAttempt) * input.quantum[l] \in Nat
  BY <1>1, <1>3, <1>6
<1>10. After(l, LastAttempt, input) \in Nat
  BY <1>6, Bounds
<1> QED BY <1>2, <1>3, <1>5, <1>6, <1>7, <1>8, <1>9, <1>10

LEMMA SelectFinds ==
    ASSUME LanesInv, MaxCost < MaxTaskCost, Lanes!Select, ready' # {}
    PROVE  lane' # Lanes!None
<1>1. Lanes!TypeOK
  BY DEF LanesInv
<1>2. PICK rs \in SUBSET Lane : \E aged \in SUBSET rs, cost \in [rs -> Costs] :
         /\ Lanes!SelectLane([ready |-> rs, cost |-> cost,
                quantum |-> [l \in rs |-> Lanes!AgedQuantum(l, aged)]])
         /\ ready' = rs
  BY DEF Lanes!Select, Lane
<1>3. PICK aged \in SUBSET rs, cost \in [rs -> Costs] :
         Lanes!SelectLane(Input(rs, aged, cost)) /\ ready' = rs
  BY <1>2 DEF Input
<1> DEFINE input == Input(rs, aged, cost)
<1>4. IsInput(input) /\ input.ready = ready'
  <2>1. IsInput(Input(rs, aged, cost))
    BY InputIs
  <2>2. Input(rs, aged, cost).ready = rs
    BY DEF Input
  <2> QED BY <1>3, <2>1, <2>2
<1>5. Lanes!SelectLane(input)
  BY <1>3
<1> HIDE DEF input
<1>6. (\E k \in Nat : Chosen(k, input)) \/ NoneChosen(input)
  BY <1>1, <1>4, <1>5, SelectLaneDoes
<1>7. PICK k \in Nat : Chosen(k, input)
  BY <1>4, <1>6, ReadyCanPay
<1>8. Lanes!Visited(k) \in Lane /\ lane' = Lanes!Visited(k)
  <2>1. cursor \in Lane
    BY <1>1 DEF Lanes!TypeOK, Lane
  <2> QED BY <1>7, <2>1, VisitedIs DEF Chosen
<1> QED BY <1>8, LaneNumbers

(* Whatever was consumed and reset before: when a lane is ready, one is     *)
(* selected within the attempts selectLane makes, provided that tasks cost  *)
(* less than the most they may cost (dispatcher_wdrr.cpp, the loop's bound).*)
THEOREM ReadyIsSelected ==
    ASSUME MaxCost < MaxTaskCost
    PROVE  Lanes!Spec => SelectsWhenReady
<1>1. Lanes!Init => LanesInv
  BY InitLanesInv
<1>2. LanesInv /\ [Lanes!Next]_(Lanes!vars) => LanesInv'
  BY NextLanesInv
<1>3. LanesInv /\ [Lanes!Next]_(Lanes!vars)
        => [lane = Lanes!None /\ ready' # {} => lane' # Lanes!None]_(Lanes!vars)
  <2> SUFFICES ASSUME LanesInv, Lanes!Next, lane = Lanes!None, ready' # {}
               PROVE  lane' # Lanes!None
    OBVIOUS
  <2>1. Lanes!Select
    BY DEF Lanes!Next, Lanes!EndSlice, Lanes!ExhaustLane
  <2> QED BY <2>1, SelectFinds
<1> QED BY <1>1, <1>2, <1>3, PTL DEF Lanes!Spec, SelectsWhenReady, Lanes!SelectsWhenReady

-----------------------------------------------------------------------------
(* Item decay.  The longest that an item lasts.                             *)
Longest == Decays!Max(Durations)

(* A finite set of numbers has a bound.                                     *)
LEMMA FiniteBounded ==
    ASSUME NEW S, S \subseteq Nat, IsFiniteSet(S)
    PROVE  \E b \in Nat : \A x \in S : x <= b
<1> DEFINE Bounded(T) == \E b \in Nat : \A x \in T : x <= b
           Bad == {T \in SUBSET S : ~Bounded(T)}
<1> SUFFICES ASSUME Bad # {} PROVE FALSE
  <2> QED BY Zenon
<1>1. PICK T \in Bad : \A u \in Bad : ~(u \subseteq T /\ u # T)
  <2>1. Bad \in SUBSET SUBSET S
    OBVIOUS
  <2> HIDE DEF Bad, Bounded
  <2> QED BY ONLY Bad # {}, IsFiniteSet(S), <2>1, LeastSubset
<1>2. PICK e \in T : TRUE
  <2>1. ASSUME T = {} PROVE Bounded(T)
    BY <2>1
  <2> QED BY <2>1
<1>3. Bounded(T \ {e})
  <2>1. T \ {e} \in SUBSET S /\ T \ {e} \subseteq T /\ T \ {e} # T
    BY <1>2
  <2> HIDE DEF Bounded
  <2> QED BY <1>1, <2>1
<1>4. PICK b \in Nat : \A x \in T \ {e} : x <= b
  BY <1>3
<1>5. \A x \in T : x <= b + e
  BY <1>4, <1>2
<1>6. b + e \in Nat
  BY <1>2
<1> QED BY <1>1, <1>5, <1>6

LEMMA LongestIs == Longest \in Durations /\ \A d \in Durations : Longest >= d
<1>1. Durations \in SUBSET Nat /\ Durations # {} /\ IsFiniteSet(Durations)
  BY DecayAssumption
<1>2. PICK b \in Nat : \A x \in Durations : x <= b
  BY <1>1, FiniteBounded
<1> DEFINE T == {b - x : x \in Durations}
<1>3. T \in SUBSET Nat /\ T # {}
  <2>1. ASSUME NEW x \in Durations PROVE b - x \in Nat
    BY <1>1, <1>2
  <2> QED BY <2>1, <1>1
<1>4. PICK y \in T : \A z \in T : y <= z
  <2> HIDE DEF T
  <2> QED BY <1>3, LeastNumber
<1>5. PICK x \in Durations : y = b - x
  OBVIOUS
<1>6. \A z \in Durations : x >= z
  <2> TAKE z \in Durations
  <2>1. y <= b - z
    BY <1>4
  <2> QED BY <2>1, <1>5, <1>1
<1> QED BY <1>6 DEF Longest, Decays!Max

LEMMA LongestPositive ==
    /\ Longest \in Nat \ {0}
    /\ \A d \in Durations : d \in Nat \ {0} /\ d <= Longest
  BY LongestIs, DecayAssumption

(* The least and the greater of some times.                                 *)
LEMMA FirstTime ==
    ASSUME NEW S \in SUBSET Nat, S # {}
    PROVE  Decays!Min(S) \in S /\ \A x \in S : Decays!Min(S) <= x
<1>1. PICK x \in S : \A y \in S : x <= y
  BY LeastNumber
<1> QED BY <1>1 DEF Decays!Min

LEMMA LaterTime ==
    ASSUME NEW a \in Int, NEW b \in Int
    PROVE  Decays!Max({a, b}) = IF a >= b THEN a ELSE b
<1>1. \E x \in {a, b} : \A y \in {a, b} : x >= y
  OBVIOUS
<1>2. Decays!Max({a, b}) \in {a, b} /\ \A y \in {a, b} : Decays!Max({a, b}) >= y
  BY <1>1 DEF Decays!Max
<1> QED BY <1>2

LEMMA RangeIs == \A f : Decays!Range(f) = {f[x] : x \in DOMAIN f}
  BY DEF Decays!Range

LEMMA EmptyDomain ==
    ASSUME NEW D, NEW f, f = [x \in D |-> f[x]]
    PROVE  f = <<>> <=> D = {}
  OBVIOUS

(* The bucket of an item that has left it.                                  *)
LEMMA SwappedOutIs ==
    ASSUME NEW b \in Seq(Items), Len(b) # 1, NEW i \in Decays!Range(b)
    PROVE  /\ Decays!SwappedOut(b, i) \in Seq(Items) /\ Decays!SwappedOut(b, i) # <<>>
           /\ Decays!IsInjective(b) =>
                /\ Decays!IsInjective(Decays!SwappedOut(b, i))
                /\ Decays!Range(Decays!SwappedOut(b, i)) = Decays!Range(b) \ {i}
<1> DEFINE place == CHOOSE n \in DOMAIN b : b[n] = i
           c == [b EXCEPT ![place] = b[Len(b)]]
           s == Decays!SwappedOut(b, i)
<1>1. place \in DOMAIN b /\ b[place] = i
  BY RangeIs
<1>2. s = SubSeq(c, 1, Len(c) - 1)
  BY DEF Decays!SwappedOut, Decays!Front, Decays!Last
<1> HIDE DEF place
<1>3. Len(b) \in Nat /\ DOMAIN b = 1..Len(b) /\ Len(b) > 1 /\ place \in 1..Len(b)
  <2>1. Len(b) \in Nat /\ DOMAIN b = 1..Len(b)
    BY LenProperties
  <2> QED BY <1>1, <2>1
<1>4. c \in Seq(Items) /\ Len(c) = Len(b) /\ DOMAIN c = 1..Len(b)
      /\ \A n \in 1..Len(b) : c[n] = IF n = place THEN b[Len(b)] ELSE b[n]
  BY <1>3
<1> HIDE DEF c, s
<1>5. /\ s \in Seq(Items) /\ Len(s) = Len(b) - 1 /\ DOMAIN s = 1..(Len(b) - 1)
      /\ \A n \in 1..(Len(b) - 1) : s[n] = c[n]
  BY <1>2, <1>3, <1>4
<1>6. s # <<>>
  BY <1>3, <1>5
<1>7. ASSUME Decays!IsInjective(b)
      PROVE  Decays!IsInjective(s) /\ Decays!Range(s) = Decays!Range(b) \ {i}
  <2>1. \A m, n \in 1..Len(b) : b[m] = b[n] => m = n
    BY <1>3, <1>7 DEF Decays!IsInjective
  <2>2. \A n \in 1..(Len(b) - 1) : s[n] = IF n = place THEN b[Len(b)] ELSE b[n]
    BY <1>4, <1>5, <1>3
  <2>3. \A m, n \in 1..(Len(b) - 1) : s[m] = s[n] => m = n
    BY <2>1, <2>2, <1>3
  <2>4. Decays!IsInjective(s)
    BY <2>3, <1>5 DEF Decays!IsInjective
  <2>5. \A n \in 1..(Len(b) - 1) : s[n] \in Decays!Range(b) \ {i}
    <3> TAKE n \in 1..(Len(b) - 1)
    <3>1. CASE n = place
      <4>1. b[Len(b)] # i
        BY <2>1, <1>1, <1>3, <3>1
      <4> QED BY <4>1, <2>2, <3>1, <1>3, RangeIs
    <3>2. CASE n # place
      <4>1. b[n] # i
        BY <2>1, <1>1, <1>3, <3>2
      <4> QED BY <4>1, <2>2, <3>2, <1>3, RangeIs
    <3> QED BY <3>1, <3>2
  <2>6. ASSUME NEW x \in Decays!Range(b) \ {i} PROVE x \in Decays!Range(s)
    <3>1. PICK n \in 1..Len(b) : x = b[n]
      BY <1>3, RangeIs
    <3>2. n # place
      BY <3>1, <1>1, <2>6
    <3>3. CASE n < Len(b)
      <4>1. n \in 1..(Len(b) - 1) /\ s[n] = x
        BY <3>1, <3>2, <3>3, <2>2, <1>3
      <4> QED BY <4>1, <1>5, RangeIs
    <3>4. CASE n = Len(b)
      <4>1. place \in 1..(Len(b) - 1) /\ s[place] = x
        BY <3>1, <3>2, <3>4, <2>2, <1>3
      <4> QED BY <4>1, <1>5, RangeIs
    <3>5. n < Len(b) \/ n = Len(b)
      <4>1. Len(b) \in Nat
        BY <1>3
      <4>2. n \in 1..Len(b)
        OBVIOUS
      <4> QED BY <4>1, <4>2, SMTT(30)
    <3> QED BY <3>3, <3>4, <3>5
  <2>7. Decays!Range(s) = {s[n] : n \in 1..(Len(b) - 1)}
    BY <1>5, RangeIs
  <2> QED BY <2>4, <2>5, <2>6, <2>7
<1> QED BY <1>5, <1>6, <1>7 DEF s
-----------------------------------------------------------------------------
(* The worlds of Decay when its clock shows m: what startDecay and          *)
(* stopDecay turn into another.                                             *)
Spans == (0..Longest) \cup {Decays!Unset}
Dues(m) == (0..(m + Longest)) \cup {Decays!Unset}
Attributes(m) ==
    [alive : BOOLEAN, decays : BOOLEAN, duration : Spans,
     state : {"none", "false", "pending", "true", "stopping"}, due : Dues(m)]
Buckets(m) ==
    UNION {[D -> Seq(Items) \ {<<>>}] : D \in SUBSET (0..(m + Longest))}
Events == [id : Nat \ {0}, due : Nat]
EventSets == {T \in SUBSET Events : IsFiniteSet(T)}
Worlds(m) ==
    [item : [Items -> Attributes(m)], map : Buckets(m), timers : EventSets, event : Nat]

LEMMA BucketsAre ==
    ASSUME NEW m \in Nat, NEW f
    PROVE  f \in Buckets(m) <=>
              /\ f = [d \in DOMAIN f |-> f[d]]
              /\ DOMAIN f \subseteq 0..(m + Longest)
              /\ \A d \in DOMAIN f : f[d] \in Seq(Items) /\ f[d] # <<>>
<1>1. ASSUME f \in Buckets(m)
      PROVE  /\ f = [d \in DOMAIN f |-> f[d]]
             /\ DOMAIN f \subseteq 0..(m + Longest)
             /\ \A d \in DOMAIN f : f[d] \in Seq(Items) /\ f[d] # <<>>
  <2>1. PICK D \in SUBSET (0..(m + Longest)) : f \in [D -> Seq(Items) \ {<<>>}]
    BY <1>1 DEF Buckets
  <2> QED BY <2>1
<1>2. ASSUME f = [d \in DOMAIN f |-> f[d]],
             DOMAIN f \subseteq 0..(m + Longest),
             \A d \in DOMAIN f : f[d] \in Seq(Items) /\ f[d] # <<>>
      PROVE  f \in Buckets(m)
  <2>1. f \in [DOMAIN f -> Seq(Items) \ {<<>>}]
    BY <1>2
  <2>2. DOMAIN f \in SUBSET (0..(m + Longest))
    BY <1>2
  <2> QED BY <2>1, <2>2 DEF Buckets
<1> QED BY <1>1, <1>2

(* The attributes of an item, one by one.                                   *)
LEMMA AttributesAre ==
    ASSUME NEW m \in Nat, NEW w \in Worlds(m), NEW i \in Items
    PROVE  /\ w.item[i] \in Attributes(m)
           /\ w.item[i].duration \in Spans /\ w.item[i].due \in Dues(m)
           /\ w.item[i].state \in {"none", "false", "pending", "true", "stopping"}
           /\ w.item[i].alive \in BOOLEAN /\ w.item[i].decays \in BOOLEAN
           /\ w.item \in [Items -> Attributes(m)]
<1>1. w.item \in [Items -> Attributes(m)]
  BY DEF Worlds
<1>2. w.item[i] \in Attributes(m)
  BY <1>1
<1> QED BY <1>1, <1>2 DEF Attributes

LEMMA SameCardinality == \A S : Decays!Cardinality(S) = Cardinality(S)
  BY Zenon DEF Decays!Cardinality, Cardinality

(* There is an id that no armed event has.                                  *)
LEMMA FreeIds ==
    ASSUME NEW w, IsFiniteSet(w.timers)
    PROVE  Decays!FreeId(w) \in Nat \ {0}
<1> DEFINE k == Cardinality(w.timers)
           ids == {e.id : e \in w.timers}
<1>1. k \in Nat
  BY FS_CardinalityType
<1>2. IsFiniteSet(ids) /\ Cardinality(ids) <= k
  <2> DEFINE f == [e \in w.timers |-> e.id]
  <2>1. f \in Surjection(w.timers, ids)
    BY DEF Surjection
  <2> HIDE DEF f, ids
  <2> QED BY <2>1, FS_Surjection
<1>3. IsFiniteSet(1..(k + 1)) /\ Cardinality(1..(k + 1)) = k + 1
  BY <1>1, FS_Interval
<1>4. \E y \in 1..(k + 1) : \A e \in w.timers : e.id # y
  <2> SUFFICES ASSUME \A y \in 1..(k + 1) : \E e \in w.timers : e.id = y
               PROVE  FALSE
    OBVIOUS
  <2>1. 1..(k + 1) \subseteq ids
    OBVIOUS
  <2>2. Cardinality(1..(k + 1)) <= Cardinality(ids)
    BY <2>1, <1>2, FS_Subset
  <2>3. Cardinality(ids) \in Nat
    BY <1>2, FS_CardinalityType
  <2> QED BY <2>2, <2>3, <1>1, <1>2, <1>3
<1>5. Decays!FreeId(w) \in 1..(k + 1)
  <2>1. Decays!FreeId(w) = CHOOSE y \in 1..(k + 1) : \A e \in w.timers : e.id # y
    BY SameCardinality, Zenon DEF Decays!FreeId
  <2> QED BY <1>4, <2>1, Zenon
<1> QED BY <1>1, <1>5

(* Arming and disarming an event.                                           *)
LEMMA ArmedIs ==
    ASSUME NEW w \in Worlds(now), now \in Nat, NEW delay \in Int
    PROVE  LET due == now + Decays!Max({MinTicks, delay})
               v == Decays!Armed(w, delay)
           IN  /\ v \in Worlds(now) /\ v.item = w.item /\ v.map = w.map
               /\ w.timers \subseteq v.timers
               /\ \E e \in v.timers : e.due = due
               /\ due = IF MinTicks >= delay THEN now + MinTicks ELSE now + delay
<1> DEFINE id == Decays!FreeId(w)
           due == now + Decays!Max({MinTicks, delay})
           v == Decays!Armed(w, delay)
<1>1. MinTicks \in Nat
  BY DecayAssumption
<1>2. due = IF MinTicks >= delay THEN now + MinTicks ELSE now + delay
  BY <1>1, LaterTime
<1>3. due \in Nat
  BY <1>1, <1>2
<1>4. w.timers \in SUBSET Events /\ IsFiniteSet(w.timers)
  BY DEF Worlds, EventSets
<1>5. id \in Nat \ {0}
  BY <1>4, FreeIds
<1>6. v = [w EXCEPT !.timers = @ \cup {[id |-> id, due |-> due]}, !.event = id]
  BY DEF Decays!Armed
<1> HIDE DEF id, due, v
<1>7. w.timers \cup {[id |-> id, due |-> due]} \in EventSets
  <2>1. [id |-> id, due |-> due] \in Events
    BY <1>3, <1>5 DEF Events
  <2>2. IsFiniteSet(w.timers \cup {[id |-> id, due |-> due]})
    BY <1>4, FS_AddElement
  <2> QED BY <2>1, <2>2, <1>4 DEF EventSets
<1>8. v \in Worlds(now) /\ v.item = w.item /\ v.map = w.map
      /\ v.timers = w.timers \cup {[id |-> id, due |-> due]}
  BY <1>5, <1>6, <1>7 DEF Worlds
<1>9. \E e \in v.timers : e.due = due
  <2>1. [id |-> id, due |-> due] \in v.timers /\ [id |-> id, due |-> due].due = due
    BY <1>8
  <2> QED BY <2>1
<1> QED BY <1>2, <1>8, <1>9 DEF v, due

LEMMA DisarmedIs ==
    ASSUME NEW w \in Worlds(now)
    PROVE  LET v == Decays!Disarmed(w)
           IN  v \in Worlds(now) /\ v.item = w.item /\ v.map = w.map
<1> DEFINE v == Decays!Disarmed(w)
           T == {e \in w.timers : e.id # w.event}
<1>1. v = [w EXCEPT !.timers = T]
  BY DEF Decays!Disarmed
<1>2. w.timers \in SUBSET Events /\ IsFiniteSet(w.timers)
  BY DEF Worlds, EventSets
<1>3. T \in EventSets
  <2>1. IsFiniteSet(T)
    BY <1>2, FS_Subset
  <2> QED BY <2>1, <1>2 DEF EventSets
<1> HIDE DEF T, v
<1> QED BY <1>1, <1>3 DEF Worlds, v
(* What is left of an item's time.                                          *)
LEMMA RemainingTyped ==
    ASSUME now \in Nat, NEW x \in Attributes(now)
    PROVE  Decays!Remaining(x) \in Spans
<1>1. x.duration \in Spans /\ x.due \in Dues(now)
  BY DEF Attributes
<1>2. Longest \in Nat
  BY LongestPositive
<1>3. x.due \in Int /\ x.due - now \in Int /\ x.due - now <= Longest
  BY <1>1, <1>2 DEF Dues, Decays!Unset
<1>4. Decays!Max0(x.due - now) \in 0..Longest
  BY <1>2, <1>3 DEF Decays!Max0
<1>5. Decays!Max0(x.duration) \in 0..Longest
  BY <1>1, <1>2 DEF Decays!Max0, Spans, Decays!Unset
<1> QED BY <1>4, <1>5 DEF Decays!Remaining, Spans

(* A world in which one item has other attributes.                          *)
LEMMA OtherAttributes ==
    ASSUME NEW m \in Nat, NEW w \in Worlds(m), NEW i \in Items, NEW y \in Attributes(m)
    PROVE  LET v == [w EXCEPT !.item[i] = y]
           IN  /\ v \in Worlds(m) /\ v.item = [w.item EXCEPT ![i] = y]
               /\ v.map = w.map /\ v.timers = w.timers /\ v.event = w.event
<1>1. w.item \in [Items -> Attributes(m)]
  BY DEF Worlds
<1>2. [w.item EXCEPT ![i] = y] \in [Items -> Attributes(m)]
  BY <1>1
<1>3. [w EXCEPT !.item[i] = y] = [w EXCEPT !.item = [w.item EXCEPT ![i] = y]]
  BY DEF Worlds
<1> QED BY <1>2, <1>3 DEF Worlds

(* The map without an item of one of its buckets.                           *)
Without(map, d, i) ==
    IF Len(map[d]) = 1 THEN Decays!Erased(map, d)
    ELSE [map EXCEPT ![d] = Decays!SwappedOut(map[d], i)]

LEMMA WithoutIs ==
    ASSUME NEW m \in Nat, NEW map \in Buckets(m), NEW d \in DOMAIN map,
           NEW i \in Decays!Range(map[d])
    PROVE  /\ Without(map, d, i) \in Buckets(m)
           /\ DOMAIN Without(map, d, i) \subseteq DOMAIN map
           /\ \A c \in DOMAIN map \ {d} :
                c \in DOMAIN Without(map, d, i) /\ Without(map, d, i)[c] = map[c]
           /\ Decays!IsInjective(map[d]) =>
                /\ d \in DOMAIN Without(map, d, i) =>
                     /\ Decays!IsInjective(Without(map, d, i)[d])
                     /\ Decays!Range(Without(map, d, i)[d]) = Decays!Range(map[d]) \ {i}
                /\ d \notin DOMAIN Without(map, d, i) => Decays!Range(map[d]) = {i}
<1> DEFINE v == Without(map, d, i)
<1>1. /\ map = [c \in DOMAIN map |-> map[c]] /\ DOMAIN map \subseteq 0..(m + Longest)
      /\ \A c \in DOMAIN map : map[c] \in Seq(Items) /\ map[c] # <<>>
  BY BucketsAre
<1>2. CASE Len(map[d]) = 1
  <2>1. v = [c \in DOMAIN map \ {d} |-> map[c]]
    BY <1>2 DEF Without, Decays!Erased
  <2>2. Decays!Range(map[d]) = {i}
    <3>1. map[d] \in Seq(Items) /\ DOMAIN map[d] = {1}
      BY <1>1, <1>2
    <3> QED BY <3>1, RangeIs
  <2> HIDE DEF v
  <2>3. v = [c \in DOMAIN v |-> v[c]] /\ DOMAIN v = DOMAIN map \ {d}
        /\ \A c \in DOMAIN v : v[c] = map[c]
    BY <2>1
  <2>4. v \in Buckets(m)
    BY <2>3, <1>1, BucketsAre
  <2> QED BY <2>2, <2>3, <2>4 DEF v
<1>3. CASE Len(map[d]) # 1
  <2> DEFINE s == Decays!SwappedOut(map[d], i)
  <2>1. v = [map EXCEPT ![d] = s]
    BY <1>3 DEF Without
  <2>2. /\ s \in Seq(Items) /\ s # <<>>
        /\ Decays!IsInjective(map[d]) =>
             Decays!IsInjective(s) /\ Decays!Range(s) = Decays!Range(map[d]) \ {i}
    BY <1>1, <1>3, SwappedOutIs
  <2> HIDE DEF s, v
  <2>3. v = [c \in DOMAIN v |-> v[c]] /\ DOMAIN v = DOMAIN map
        /\ \A c \in DOMAIN v : v[c] = IF c = d THEN s ELSE map[c]
    BY <2>1, <1>1
  <2>4. v \in Buckets(m)
    BY <2>2, <2>3, <1>1, BucketsAre
  <2> QED BY <2>2, <2>3, <2>4 DEF v
<1> QED BY <1>2, <1>3

(* What stopDecay does.                                                     *)
LEMMA StopDecayIs ==
    ASSUME now \in Nat, NEW w \in Worlds(now), NEW i \in Items
    PROVE  LET v == Decays!StopDecay(w, i)
               x == w.item[i]
               inBucket == /\ x.state # "none" /\ x.due \in DOMAIN w.map
                           /\ i \in Decays!Range(w.map[x.due])
           IN  /\ v \in Worlds(now) /\ v.timers = w.timers
               /\ DOMAIN v.map \subseteq DOMAIN w.map
               /\ v.map = IF inBucket THEN Without(w.map, x.due, i) ELSE w.map
               /\ \E y \in Attributes(now) :
                    /\ v.item = [w.item EXCEPT ![i] = y]
                    /\ y.state \in {x.state, "none"} /\ (inBucket => y.state = "none")
<1> DEFINE v == Decays!StopDecay(w, i)
           x == w.item[i]
           inBucket == /\ x.state # "none" /\ x.due \in DOMAIN w.map
                       /\ i \in Decays!Range(w.map[x.due])
           none == [x EXCEPT !.state = "none"]
           undue == [x EXCEPT !.due = Decays!Unset]
           stopped == [x EXCEPT !.state = "none",
                !.duration = IF @ = Decays!Unset THEN @ ELSE Decays!Remaining(x)]
<1>1. /\ x \in Attributes(now) /\ w.item \in [Items -> Attributes(now)]
      /\ w.map \in Buckets(now)
  BY AttributesAre DEF Worlds
<1>2. Decays!Remaining(x) \in Spans
  BY <1>1, RemainingTyped
<1>3. Decays!Unset \in Dues(now) /\ Decays!Unset \in Spans
  BY DEF Dues, Spans
<1>4. none \in Attributes(now) /\ undue \in Attributes(now) /\ stopped \in Attributes(now)
      /\ none.state = "none" /\ undue.state = x.state /\ stopped.state = "none"
  <2> HIDE DEF x
  <2> QED BY <1>1, <1>2, <1>3 DEF Attributes
<1>5. \/ ~inBucket /\ v = w
      \/ ~inBucket /\ v = [w EXCEPT !.item[i] = none]
      \/ ~inBucket /\ v = [w EXCEPT !.item[i] = undue]
      \/ /\ inBucket
         /\ v = [w EXCEPT !.item[i] = stopped, !.map = Without(w.map, x.due, i)]
  <2>1. \A a, b : [w EXCEPT !.item[i].state = a] = [w EXCEPT !.item[i] = [x EXCEPT !.state = a]]
            /\ [w EXCEPT !.item[i].due = b] = [w EXCEPT !.item[i] = [x EXCEPT !.due = b]]
    BY <1>1 DEF Worlds
  <2>2. Decays!Unset \notin DOMAIN w.map
    BY <1>1, BucketsAre DEF Decays!Unset
  <2>3. CASE x.state = "none"
    BY <2>3 DEF Decays!StopDecay
  <2>4. CASE x.state # "none" /\ x.due = Decays!Unset
    <3>1. v = [w EXCEPT !.item[i].state = "none"]
      BY <2>4, <2>2 DEF Decays!StopDecay
    <3> QED BY <3>1, <2>1, <2>2, <2>4
  <2>5. CASE x.state # "none" /\ x.due # Decays!Unset /\ x.due \notin DOMAIN w.map
    <3>1. v = [w EXCEPT !.item[i].due = Decays!Unset]
      BY <2>5 DEF Decays!StopDecay
    <3> QED BY <3>1, <2>1, <2>5
  <2>6. CASE inBucket
    <3>1. v = [w EXCEPT !.item[i] = stopped,
                        !.map = IF Decays!KeepsEntry(w.map[x.due]) THEN @
                                ELSE IF Len(w.map[x.due]) = 1 THEN Decays!Erased(@, x.due)
                                ELSE [@ EXCEPT ![x.due] = Decays!SwappedOut(w.map[x.due], i)]]
      BY <2>6, <2>2 DEF Decays!StopDecay
    <3>2. v = [w EXCEPT !.item[i] = stopped, !.map = Without(w.map, x.due, i)]
      BY <3>1, <1>1 DEF Decays!KeepsEntry, Without, Worlds
    <3> QED BY <3>2, <2>6
  <2>7. CASE /\ x.state # "none" /\ x.due \in DOMAIN w.map
             /\ i \notin Decays!Range(w.map[x.due])
    <3>1. v = w \/ v = [w EXCEPT !.item[i].due = Decays!Unset]
      BY <2>7, <2>2 DEF Decays!StopDecay
    <3> QED BY <3>1, <2>1, <2>7
  <2> QED BY <2>3, <2>4, <2>5, <2>6, <2>7
<1> HIDE DEF v, none, undue, stopped
<1>6. CASE ~inBucket /\ \E y \in Attributes(now) :
             y.state \in {x.state, "none"} /\ v = [w EXCEPT !.item[i] = y]
  <2>1. PICK y \in Attributes(now) :
             y.state \in {x.state, "none"} /\ v = [w EXCEPT !.item[i] = y]
    BY <1>6
  <2>2. /\ v \in Worlds(now) /\ v.item = [w.item EXCEPT ![i] = y]
        /\ v.map = w.map /\ v.timers = w.timers
    BY <2>1, OtherAttributes
  <2> QED BY <2>1, <2>2, <1>6 DEF v
<1>7. CASE ~inBucket /\ v = w
  <2>1. w.item = [w.item EXCEPT ![i] = x]
    BY <1>1
  <2> QED BY <2>1, <1>1, <1>7 DEF v
<1>8. CASE /\ inBucket
           /\ v = [w EXCEPT !.item[i] = stopped, !.map = Without(w.map, x.due, i)]
  <2> DEFINE u == [w EXCEPT !.item[i] = stopped]
             rest == Without(w.map, x.due, i)
  <2>1. /\ u \in Worlds(now) /\ u.item = [w.item EXCEPT ![i] = stopped]
        /\ u.map = w.map /\ u.timers = w.timers
    BY <1>4, OtherAttributes
  <2>2. rest \in Buckets(now) /\ DOMAIN rest \subseteq DOMAIN w.map
    BY <1>1, <1>8, WithoutIs
  <2>3. v = [u EXCEPT !.map = rest]
    BY <1>8
  <2> HIDE DEF u, rest
  <2>4. v \in Worlds(now) /\ v.item = u.item /\ v.map = rest /\ v.timers = u.timers
    BY <2>1, <2>2, <2>3 DEF Worlds
  <2> QED BY <2>1, <2>2, <2>4, <1>4, <1>8 DEF v, rest
<1> QED BY <1>4, <1>5, <1>6, <1>7, <1>8 DEF v
-----------------------------------------------------------------------------
(* An event comes in time for the first of the map, unless that is what the *)
(* iterator of checkDecay stands at: then checkDecay will arm one for it.   *)
InTime(map, T) ==
    \E e \in T : e.due <= Decays!Max({Decays!Min(DOMAIN map), now + MinTicks})
Covered(w) ==
    w.map # <<>> /\ (it = Decays!Unset \/ Decays!Min(DOMAIN w.map) < it) =>
        InTime(w.map, w.timers)

(* The first time of a map.                                                 *)
LEMMA FirstOfMap ==
    ASSUME NEW m \in Nat, NEW map \in Buckets(m)
    PROVE  /\ map = <<>> <=> DOMAIN map = {}
           /\ map # <<>> =>
                /\ Decays!Min(DOMAIN map) \in DOMAIN map /\ Decays!Min(DOMAIN map) \in Nat
                /\ \A d \in DOMAIN map : d \in Nat /\ Decays!Min(DOMAIN map) <= d
<1>1. map = [d \in DOMAIN map |-> map[d]] /\ DOMAIN map \subseteq 0..(m + Longest)
  BY BucketsAre
<1>2. DOMAIN map \in SUBSET Nat
  BY <1>1, LongestPositive
<1>3. map = <<>> <=> DOMAIN map = {}
  BY <1>1, EmptyDomain
<1>4. ASSUME DOMAIN map # {}
      PROVE  /\ Decays!Min(DOMAIN map) \in DOMAIN map
             /\ \A d \in DOMAIN map : Decays!Min(DOMAIN map) <= d
  BY <1>2, <1>4, FirstTime
<1> QED BY <1>2, <1>3, <1>4

LEMMA InTimeIs ==
    ASSUME now \in Nat, NEW map \in Buckets(now), map # <<>>, NEW T
    PROVE  LET first == Decays!Min(DOMAIN map)
           IN  InTime(map, T) <=> \E e \in T : e.due <= (IF first >= now + MinTicks THEN first
                                                         ELSE now + MinTicks)
<1>1. Decays!Min(DOMAIN map) \in Int /\ now + MinTicks \in Int
  BY FirstOfMap, DecayAssumption
<1>2. Decays!Max({Decays!Min(DOMAIN map), now + MinTicks})
        = IF Decays!Min(DOMAIN map) >= now + MinTicks THEN Decays!Min(DOMAIN map)
          ELSE now + MinTicks
  BY <1>1, LaterTime
<1> QED BY <1>2 DEF InTime

(* An event that is in time stays so when the map loses entries.            *)
LEMMA CoveredFewer ==
    ASSUME now \in Nat, it \in Int, NEW w \in Worlds(now), NEW v \in Worlds(now),
           v.timers = w.timers, DOMAIN v.map \subseteq DOMAIN w.map, Covered(w)
    PROVE  Covered(v)
<1> SUFFICES ASSUME v.map # <<>>, it = Decays!Unset \/ Decays!Min(DOMAIN v.map) < it
             PROVE  InTime(v.map, v.timers)
  BY DEF Covered
<1>1. w.map \in Buckets(now) /\ v.map \in Buckets(now) /\ w.timers \in SUBSET Events
  BY DEF Worlds, EventSets
<1>2. w.map # <<>>
  BY <1>1, FirstOfMap
<1>3. /\ Decays!Min(DOMAIN w.map) \in Nat /\ Decays!Min(DOMAIN v.map) \in Nat
      /\ Decays!Min(DOMAIN w.map) <= Decays!Min(DOMAIN v.map)
  BY <1>1, <1>2, FirstOfMap
<1>4. InTime(w.map, w.timers)
  BY <1>2, <1>3 DEF Covered
<1>5. PICK e \in w.timers : e.due <= (IF Decays!Min(DOMAIN w.map) >= now + MinTicks
                        THEN Decays!Min(DOMAIN w.map) ELSE now + MinTicks)
  BY <1>1, <1>2, <1>4, InTimeIs
<1>6. e.due <= (IF Decays!Min(DOMAIN v.map) >= now + MinTicks
                        THEN Decays!Min(DOMAIN v.map) ELSE now + MinTicks)
  <2>1. e.due \in Nat /\ MinTicks \in Nat
    BY <1>1, DecayAssumption DEF Events
  <2> QED BY <1>3, <1>5, <2>1
<1> QED BY <1>1, <1>6, InTimeIs

(* The map with one more item.                                              *)
LEMMA AddedIs ==
    ASSUME NEW m \in Nat, NEW map \in Buckets(m), NEW due \in 0..(m + Longest),
           NEW i \in Items
    PROVE  LET v == Decays!Added(map, due, i)
           IN  /\ v \in Buckets(m) /\ DOMAIN v = DOMAIN map \cup {due}
               /\ \A d \in DOMAIN map \ {due} : v[d] = map[d]
               /\ due \in DOMAIN map =>
                    /\ Decays!Range(v[due]) = Decays!Range(map[due]) \cup {i}
                    /\ (Decays!IsInjective(map[due]) /\ i \notin Decays!Range(map[due])) =>
                         Decays!IsInjective(v[due])
               /\ due \notin DOMAIN map =>
                    Decays!Range(v[due]) = {i} /\ Decays!IsInjective(v[due])
<1> DEFINE v == Decays!Added(map, due, i)
           b == IF due \in DOMAIN map THEN Append(map[due], i) ELSE <<i>>
<1>1. /\ map = [c \in DOMAIN map |-> map[c]] /\ DOMAIN map \subseteq 0..(m + Longest)
      /\ \A c \in DOMAIN map : map[c] \in Seq(Items) /\ map[c] # <<>>
  BY BucketsAre
<1>2. v = [d \in DOMAIN map \cup {due} |-> IF d # due THEN map[d] ELSE b]
  BY DEF Decays!Added
<1>3. b \in Seq(Items) /\ b # <<>>
  BY <1>1
<1>4. due \in DOMAIN map =>
        /\ Decays!Range(b) = Decays!Range(map[due]) \cup {i}
        /\ (Decays!IsInjective(map[due]) /\ i \notin Decays!Range(map[due])) =>
             Decays!IsInjective(b)
  <2> SUFFICES ASSUME due \in DOMAIN map
               PROVE  /\ Decays!Range(b) = Decays!Range(map[due]) \cup {i}
                      /\ (Decays!IsInjective(map[due]) /\ i \notin Decays!Range(map[due]))
                           => Decays!IsInjective(b)
    OBVIOUS
  <2> DEFINE s == map[due]
  <2>1. s \in Seq(Items) /\ Len(s) \in Nat /\ DOMAIN s = 1..Len(s)
    BY <1>1
  <2>2. b = Append(s, i)
    OBVIOUS
  <2> HIDE DEF s, b
  <2>3. DOMAIN b = 1..(Len(s) + 1)
        /\ \A n \in 1..(Len(s) + 1) : b[n] = IF n = Len(s) + 1 THEN i ELSE s[n]
    BY <2>1, <2>2
  <2>4. 1..(Len(s) + 1) = DOMAIN s \cup {Len(s) + 1} /\ Len(s) + 1 \notin DOMAIN s
    BY <2>1
  <2>5. Decays!Range(b) = Decays!Range(s) \cup {i}
    BY <2>3, <2>4, RangeIs
  <2>6. ASSUME Decays!IsInjective(s), i \notin Decays!Range(s)
        PROVE  Decays!IsInjective(b)
    <3>1. /\ \A x, y \in DOMAIN s : s[x] = s[y] => x = y
          /\ \A x \in DOMAIN s : s[x] # i
      BY <2>6, RangeIs DEF Decays!IsInjective
    <3> QED BY <3>1, <2>3, <2>4 DEF Decays!IsInjective
  <2> QED BY <2>5, <2>6 DEF s
<1>5. due \notin DOMAIN map => Decays!Range(b) = {i} /\ Decays!IsInjective(b)
  <2>1. DOMAIN <<i>> = {1} /\ <<i>>[1] = i
    OBVIOUS
  <2> QED BY <2>1, RangeIs DEF Decays!IsInjective
<1> HIDE DEF b, v
<1>6. v = [d \in DOMAIN v |-> v[d]] /\ DOMAIN v = DOMAIN map \cup {due}
      /\ \A d \in DOMAIN v : v[d] = IF d # due THEN map[d] ELSE b
  BY <1>2
<1>7. v \in Buckets(m)
  BY <1>1, <1>3, <1>6, BucketsAre
<1> QED BY <1>4, <1>5, <1>6, <1>7 DEF v

(* The attributes of an item whose decay starts.                            *)
Entry(x, due) == [x EXCEPT !.state = "true", !.due = due]

(* What startDecay does from the line that arms the event.                  *)
LEMMA EnteredIs ==
    ASSUME now \in Nat, it \in Int, NEW w \in Worlds(now), NEW i \in Items,
           NEW duration \in 1..Longest
    PROVE  LET v == Decays!Entered(w, i, duration)
               due == now + duration
           IN  /\ v \in Worlds(now) /\ v.map = Decays!Added(w.map, due, i)
               /\ v.item = [w.item EXCEPT ![i] = Entry(w.item[i], due)]
               /\ Covered(w) => Covered(v)
<1> DEFINE v == Decays!Entered(w, i, duration)
           due == now + duration
           timed == IF w.map = <<>> THEN Decays!Armed(w, duration)
                    ELSE IF Decays!IsFirst(w, due)
                         THEN Decays!Armed(Decays!Disarmed(w), duration)
                    ELSE w
           x == w.item[i]
           y == [x EXCEPT !.state = "true", !.due = due]
           map == Decays!Added(w.map, due, i)
<1>0. due \in 0..(now + Longest) /\ MinTicks \in Nat /\ Longest \in Nat /\ duration \in Int
      /\ due \in Nat
  BY DecayAssumption, LongestPositive
<1>1. /\ w.item \in [Items -> Attributes(now)] /\ x \in Attributes(now)
      /\ w.map \in Buckets(now) /\ w.timers \in SUBSET Events
  BY AttributesAre DEF Worlds, EventSets
<1>2. y \in Attributes(now)
  <2> HIDE DEF x
  <2> QED BY <1>0, <1>1 DEF Attributes, Dues
<1>3. /\ map \in Buckets(now) /\ DOMAIN map = DOMAIN w.map \cup {due}
  <2>1. due \in 0..(now + Longest)
    BY <1>0
  <2> HIDE DEF due
  <2>2. w.map \in Buckets(now)
    BY <1>1
  <2> HIDE DEF x, y, timed, v
  <2> QED BY ONLY <2>1, <2>2, now \in Nat, i \in Items, AddedIs
<1>4. /\ timed \in Worlds(now) /\ timed.item = w.item /\ timed.map = w.map
      /\ \/ timed = w /\ w.map # <<>> /\ ~(due < Decays!Min(DOMAIN w.map))
         \/ /\ \A d \in DOMAIN w.map : due < d
            /\ \E e \in timed.timers :
                 e.due = IF MinTicks >= duration THEN now + MinTicks ELSE due
  <2>0. \A d \in DOMAIN w.map : d \in Nat
    BY <1>1, FirstOfMap
  <2>1. CASE w.map = <<>>
    <3>1. timed = Decays!Armed(w, duration)
      BY <2>1
    <3> HIDE DEF timed
    <3>2. \A d \in DOMAIN w.map : due < d
      BY <2>1
    <3>3. /\ timed \in Worlds(now) /\ timed.item = w.item /\ timed.map = w.map
          /\ \E e \in timed.timers : e.due = now + Decays!Max({MinTicks, duration})
          /\ now + Decays!Max({MinTicks, duration})
               = IF MinTicks >= duration THEN now + MinTicks ELSE now + duration
      BY <3>1, <1>0, ArmedIs
    <3> QED BY <3>2, <3>3
  <2>2. CASE w.map # <<>> /\ due < Decays!Min(DOMAIN w.map)
    <3>1. timed = Decays!Armed(Decays!Disarmed(w), duration)
      BY <2>2 DEF Decays!IsFirst
    <3>2. Decays!Disarmed(w) \in Worlds(now) /\ Decays!Disarmed(w).item = w.item
          /\ Decays!Disarmed(w).map = w.map
      BY DisarmedIs
    <3> HIDE DEF timed
    <3>3. \A d \in DOMAIN w.map : due < d
      BY <2>2, <1>0, <1>1, FirstOfMap
    <3> DEFINE u == Decays!Disarmed(w)
    <3>4. timed = Decays!Armed(u, duration) /\ u \in Worlds(now) /\ u.item = w.item
          /\ u.map = w.map
      BY <3>1, <3>2
    <3> HIDE DEF u, timed
    <3>5. /\ timed \in Worlds(now) /\ timed.item = u.item /\ timed.map = u.map
          /\ \E e \in timed.timers : e.due = now + Decays!Max({MinTicks, duration})
          /\ now + Decays!Max({MinTicks, duration})
               = IF MinTicks >= duration THEN now + MinTicks ELSE now + duration
      BY <3>4, <1>0, ArmedIs
    <3> QED BY <3>3, <3>4, <3>5
  <2>3. CASE w.map # <<>> /\ ~(due < Decays!Min(DOMAIN w.map))
    BY <2>3 DEF Decays!IsFirst
  <2> QED BY <2>1, <2>2, <2>3
<1>5. v = [timed EXCEPT !.item[i].state = "true", !.item[i].due = due,
                        !.map = Decays!Added(@, due, i)]
  BY DEF Decays!Entered
<1> HIDE DEF v, timed, map, due
<1>6. v = [timed EXCEPT !.item = [w.item EXCEPT ![i] = y], !.map = map]
  BY <1>5, <1>4, <1>1 DEF Worlds, map
<1>7. [w.item EXCEPT ![i] = y] \in [Items -> Attributes(now)]
  BY <1>1, <1>2
<1>8. /\ v \in Worlds(now) /\ v.map = map /\ v.item = [w.item EXCEPT ![i] = y]
      /\ v.timers = timed.timers
  BY <1>3, <1>4, <1>6, <1>7 DEF Worlds
<1>9. ASSUME Covered(w), it = Decays!Unset \/ Decays!Min(DOMAIN map) < it
      PROVE  InTime(map, timed.timers)
  <2> DEFINE first == Decays!Min(DOMAIN map)
  <2>1. map # <<>> /\ first \in DOMAIN map /\ first \in Nat
        /\ \A d \in DOMAIN map : d \in Nat /\ first <= d
    BY <1>3, FirstOfMap
  <2>2. first <= due
    BY <1>3, <2>1
  <2> HIDE DEF first
  <2>3. CASE /\ \A d \in DOMAIN w.map : due < d
             /\ \E e \in timed.timers :
                  e.due = IF MinTicks >= duration THEN now + MinTicks ELSE due
    <3>1. first = due
      BY <1>0, <1>3, <2>1, <2>2, <2>3
    <3>2. PICK e \in timed.timers :
               e.due = IF MinTicks >= duration THEN now + MinTicks ELSE due
      BY <2>3
    <3>3. e.due <= (IF first >= now + MinTicks THEN first ELSE now + MinTicks)
      BY <3>1, <3>2, <1>0 DEF due
    <3> QED BY <3>3, <1>3, <2>1, InTimeIs DEF first
  <2>4. CASE timed = w /\ w.map # <<>> /\ ~(due < Decays!Min(DOMAIN w.map))
    <3>1. /\ Decays!Min(DOMAIN w.map) \in DOMAIN w.map /\ Decays!Min(DOMAIN w.map) \in Nat
          /\ \A d \in DOMAIN w.map : d \in Nat /\ Decays!Min(DOMAIN w.map) <= d
      BY <1>1, <2>4, FirstOfMap
    <3>2. first = Decays!Min(DOMAIN w.map)
      BY <3>1, <2>1, <1>3, <2>4, <1>0
    <3>3. InTime(w.map, timed.timers)
      BY <1>9, <2>4, <3>2 DEF Covered, first
    <3> QED BY <3>2, <3>3 DEF InTime, first
  <2> QED BY <1>4, <2>3, <2>4
<1> QED BY <1>8, <1>9 DEF Covered, v, map, due, Entry
-----------------------------------------------------------------------------
(* Map and items agree, but for item i, which is in the bucket of spot or   *)
(* in none, and those checkDecay holds.                                     *)
BucketsAgree(w, held, i, spot) ==
    \A d \in DOMAIN w.map :
        /\ Decays!IsInjective(w.map[d])
        /\ \A j \in Decays!Range(w.map[d]) :
             /\ j \notin held
             /\ j = i => d = spot
             /\ j # i => w.item[j].state = "true" /\ w.item[j].due = d
ItemsAgree(w, held, i) ==
    \A j \in Items \ {i} :
        w.item[j].state = "true" =>
            \/ j \in held
            \/ w.item[j].due \in DOMAIN w.map /\ j \in Decays!Range(w.map[w.item[j].due])
Placed(w, i, spot) ==
    spot # Decays!Unset => spot \in DOMAIN w.map /\ i \in Decays!Range(w.map[spot])
HeldAgree(w, held, i) ==
    /\ i \notin held /\ held \subseteq Items
    /\ \A j \in held : w.item[j].state = "true" /\ w.item[j].due <= now
    /\ held # {} => \A d \in DOMAIN w.map : d > now

Agrees(w, held, i, spot) ==
    /\ BucketsAgree(w, held, i, spot) /\ ItemsAgree(w, held, i)
    /\ Placed(w, i, spot) /\ HeldAgree(w, held, i)

(* Item i agrees as well.                                                   *)
Settled(w, held, i) ==
    \E spot \in Dues(now) :
        /\ Agrees(w, held, i, spot)
        /\ IF spot = Decays!Unset THEN w.item[i].state # "true"
           ELSE w.item[i].state = "true" /\ w.item[i].due = spot

(* The attributes of i do not matter to the others.                         *)
LEMMA OthersAgree ==
    ASSUME now \in Nat, NEW w \in Worlds(now), NEW v, NEW held, NEW i \in Items, NEW spot,
           NEW y, v.item = [w.item EXCEPT ![i] = y], v.map = w.map,
           Agrees(w, held, i, spot)
    PROVE  Agrees(v, held, i, spot)
<1>1. w.map \in Buckets(now) /\ w.item \in [Items -> Attributes(now)]
  BY DEF Worlds
<1>2. \A j \in Items \ {i} : v.item[j] = w.item[j]
  BY <1>1
<1>3. \A d \in DOMAIN w.map : Decays!Range(w.map[d]) \subseteq Items
  <2>1. \A d \in DOMAIN w.map : w.map[d] \in Seq(Items)
    BY <1>1, BucketsAre
  <2> QED BY <2>1, RangeIs
<1>4. BucketsAgree(w, held, i, spot) /\ ItemsAgree(w, held, i)
      /\ Placed(w, i, spot) /\ HeldAgree(w, held, i)
  BY DEF Agrees
<1>5. BucketsAgree(v, held, i, spot)
  BY <1>2, <1>3, <1>4 DEF BucketsAgree
<1>6. ItemsAgree(v, held, i) /\ Placed(v, i, spot)
  BY <1>2, <1>4 DEF ItemsAgree, Placed
<1>7. HeldAgree(v, held, i)
  BY <1>2, <1>4 DEF HeldAgree
<1> QED BY <1>5, <1>6, <1>7 DEF Agrees

(* After stopDecay the item is in no bucket.                                *)
LEMMA StopAgrees ==
    ASSUME now \in Nat, NEW w \in Worlds(now), NEW held, NEW i \in Items,
           NEW spot \in Dues(now), Agrees(w, held, i, spot),
           IF spot = Decays!Unset THEN w.item[i].state # "true"
           ELSE w.item[i].state # "none" /\ w.item[i].due = spot
    PROVE  LET v == Decays!StopDecay(w, i)
           IN  Agrees(v, held, i, Decays!Unset) /\ v.item[i].state # "true"
<1> DEFINE v == Decays!StopDecay(w, i)
           x == w.item[i]
           inBucket == /\ x.state # "none" /\ x.due \in DOMAIN w.map
                       /\ i \in Decays!Range(w.map[x.due])
<1>1. w.map \in Buckets(now) /\ w.item \in [Items -> Attributes(now)]
  BY DEF Worlds
<1>2. /\ DOMAIN v.map \subseteq DOMAIN w.map
      /\ v.map = IF inBucket THEN Without(w.map, x.due, i) ELSE w.map
      /\ \E y \in Attributes(now) :
           /\ v.item = [w.item EXCEPT ![i] = y]
           /\ y.state \in {x.state, "none"} /\ (inBucket => y.state = "none")
  BY StopDecayIs
<1>3. PICK y \in Attributes(now) :
           /\ v.item = [w.item EXCEPT ![i] = y]
           /\ y.state \in {x.state, "none"} /\ (inBucket => y.state = "none")
  BY <1>2
<1>4. BucketsAgree(w, held, i, spot) /\ ItemsAgree(w, held, i)
      /\ Placed(w, i, spot) /\ HeldAgree(w, held, i)
  BY DEF Agrees
<1>5. inBucket <=> spot # Decays!Unset
  <2>1. Decays!Unset \notin DOMAIN w.map
    BY <1>1, BucketsAre DEF Decays!Unset
  <2> QED BY <2>1, <1>4 DEF BucketsAgree, Placed
<1>6. v.item[i] = y /\ y.state # "true"
  BY <1>1, <1>3, <1>5
<1>7. \A j \in Items \ {i} : v.item[j] = w.item[j]
  BY <1>1, <1>3
<1>8. CASE ~inBucket
  <2>1. spot = Decays!Unset /\ v.map = w.map
    BY <1>2, <1>5, <1>8
  <2> HIDE DEF v
  <2>2. Agrees(v, held, i, spot)
    BY <2>1, <1>3, OthersAgree
  <2> QED BY <2>1, <2>2, <1>6 DEF v
<1>9. CASE inBucket
  <2> DEFINE rest == Without(w.map, spot, i)
  <2>1. x.due = spot /\ spot \in DOMAIN w.map /\ v.map = rest
        /\ Decays!IsInjective(w.map[spot]) /\ i \in Decays!Range(w.map[spot])
    BY <1>2, <1>4, <1>5, <1>9 DEF BucketsAgree
  <2>2. /\ rest \in Buckets(now) /\ DOMAIN rest \subseteq DOMAIN w.map
        /\ \A c \in DOMAIN w.map \ {spot} : c \in DOMAIN rest /\ rest[c] = w.map[c]
        /\ spot \in DOMAIN rest =>
             /\ Decays!IsInjective(rest[spot])
             /\ Decays!Range(rest[spot]) = Decays!Range(w.map[spot]) \ {i}
        /\ spot \notin DOMAIN rest => Decays!Range(w.map[spot]) = {i}
    BY <2>1, <1>1, WithoutIs
  <2> HIDE DEF v, rest
  <2>3. \A d \in DOMAIN rest : Decays!Range(rest[d]) \subseteq Items
    <3>1. \A d \in DOMAIN rest : rest[d] \in Seq(Items)
      BY <2>2, BucketsAre
    <3> QED BY <3>1, RangeIs
  <2>4. \A d \in DOMAIN rest :
          /\ Decays!IsInjective(rest[d])
          /\ Decays!Range(rest[d]) = Decays!Range(w.map[d]) \ {i}
    <3> TAKE d \in DOMAIN rest
    <3>1. CASE d = spot
      BY <3>1, <2>2
    <3>2. CASE d # spot
      BY <3>2, <2>2, <1>4 DEF BucketsAgree
    <3> QED BY <3>1, <3>2
  <2>5. BucketsAgree(v, held, i, Decays!Unset)
    <3>1. ASSUME NEW d \in DOMAIN v.map, NEW j \in Decays!Range(v.map[d])
          PROVE  /\ j \notin held /\ j # i
                 /\ v.item[j].state = "true" /\ v.item[j].due = d
      <4>1. d \in DOMAIN w.map /\ j \in Decays!Range(w.map[d]) /\ j # i /\ j \in Items
        BY <3>1, <2>1, <2>2, <2>3, <2>4
      <4> QED BY <4>1, <1>4, <1>7 DEF BucketsAgree
    <3> QED BY <3>1, <2>1, <2>4 DEF BucketsAgree
  <2>6. ItemsAgree(v, held, i)
    <3> SUFFICES ASSUME NEW j \in Items \ {i}, w.item[j].state = "true", j \notin held
                 PROVE  w.item[j].due \in DOMAIN rest
                        /\ j \in Decays!Range(rest[w.item[j].due])
      BY <1>7, <2>1 DEF ItemsAgree
    <3>1. w.item[j].due \in DOMAIN w.map /\ j \in Decays!Range(w.map[w.item[j].due])
      BY <1>4 DEF ItemsAgree
    <3>2. w.item[j].due \in DOMAIN rest
      BY <3>1, <2>2
    <3> QED BY <3>1, <3>2, <2>4
  <2>7. HeldAgree(v, held, i) /\ Placed(v, i, Decays!Unset)
    BY <1>4, <1>7, <2>1, <2>2 DEF HeldAgree, Placed
  <2> QED BY <2>5, <2>6, <2>7, <1>6 DEF Agrees, v
<1> QED BY <1>8, <1>9

(* Once entered it is in the bucket of its time.                            *)
LEMMA EnteredAgrees ==
    ASSUME now \in Nat, it \in Int, NEW w \in Worlds(now), NEW held, NEW i \in Items,
           NEW duration \in 1..Longest, Agrees(w, held, i, Decays!Unset)
    PROVE  Settled(Decays!Entered(w, i, duration), held, i)
<1> DEFINE v == Decays!Entered(w, i, duration)
           due == now + duration
           map == Decays!Added(w.map, due, i)
           y == Entry(w.item[i], due)
<1>1. /\ w.map \in Buckets(now) /\ w.item \in [Items -> Attributes(now)]
      /\ w.item[i] \in Attributes(now)
  BY AttributesAre DEF Worlds
<1>2. v.map = map /\ v.item = [w.item EXCEPT ![i] = y]
  BY EnteredIs
<1>3. due \in 0..(now + Longest) /\ due > now /\ Longest \in Nat
  BY LongestPositive
<1>4. due \in Dues(now) /\ due # Decays!Unset
  BY <1>3 DEF Dues, Decays!Unset
<1>5. y.state = "true" /\ y.due = due
  <2>1. \A x \in Attributes(now) :
          LET z == [x EXCEPT !.state = "true", !.due = due]
          IN  z.state = "true" /\ z.due = due
    BY DEF Attributes
  <2> QED BY <2>1, <1>1 DEF Entry
<1> HIDE DEF v, due, map, y
<1>6. /\ map \in Buckets(now) /\ DOMAIN map = DOMAIN w.map \cup {due}
      /\ \A d \in DOMAIN w.map \ {due} : map[d] = w.map[d]
      /\ due \in DOMAIN w.map =>
           /\ Decays!Range(map[due]) = Decays!Range(w.map[due]) \cup {i}
           /\ (Decays!IsInjective(w.map[due]) /\ i \notin Decays!Range(w.map[due])) =>
                Decays!IsInjective(map[due])
      /\ due \notin DOMAIN w.map =>
           Decays!Range(map[due]) = {i} /\ Decays!IsInjective(map[due])
  BY ONLY <1>1, <1>3, AddedIs, now \in Nat, i \in Items DEF map
<1>7. v.item[i] = y /\ \A j \in Items \ {i} : v.item[j] = w.item[j]
  BY <1>1, <1>2
<1>8. /\ BucketsAgree(w, held, i, Decays!Unset) /\ ItemsAgree(w, held, i)
      /\ HeldAgree(w, held, i)
  BY DEF Agrees
<1>9. \A d \in DOMAIN w.map : Decays!IsInjective(w.map[d]) /\ i \notin Decays!Range(w.map[d])
  <2>1. Decays!Unset \notin DOMAIN w.map
    BY <1>1, BucketsAre DEF Decays!Unset
  <2> QED BY <2>1, <1>8 DEF BucketsAgree
<1>10. \A d \in DOMAIN map :
         /\ Decays!IsInjective(map[d])
         /\ Decays!Range(map[d]) \ {i} =
              IF d \in DOMAIN w.map THEN Decays!Range(w.map[d]) ELSE {}
         /\ i \in Decays!Range(map[d]) <=> d = due
  <2> TAKE d \in DOMAIN map
  <2>1. CASE d = due /\ due \in DOMAIN w.map
    BY <2>1, <1>6, <1>9
  <2>2. CASE d = due /\ due \notin DOMAIN w.map
    BY <2>2, <1>6, <1>9
  <2>3. CASE d # due
    BY <2>3, <1>6, <1>9
  <2> QED BY <2>1, <2>2, <2>3
<1>11. \A d \in DOMAIN map : Decays!Range(map[d]) \subseteq Items
  <2>1. \A d \in DOMAIN map : map[d] \in Seq(Items)
    BY <1>6, BucketsAre
  <2> QED BY <2>1, RangeIs
<1>12. BucketsAgree(v, held, i, due)
  <2>1. ASSUME NEW d \in DOMAIN map, NEW j \in Decays!Range(map[d]), j # i
        PROVE  j \notin held /\ v.item[j].state = "true" /\ v.item[j].due = d
    <3>1. d \in DOMAIN w.map /\ j \in Decays!Range(w.map[d]) /\ j \in Items
      BY <2>1, <1>10, <1>11
    <3> QED BY <2>1, <3>1, <1>7, <1>8 DEF BucketsAgree
  <2>2. i \notin held
    BY <1>8 DEF HeldAgree
  <2> QED BY <2>1, <2>2, <1>2, <1>10 DEF BucketsAgree
<1>13. ItemsAgree(v, held, i)
  <2> SUFFICES ASSUME NEW j \in Items \ {i}, w.item[j].state = "true", j \notin held
               PROVE  w.item[j].due \in DOMAIN map /\ j \in Decays!Range(map[w.item[j].due])
    BY <1>2, <1>7 DEF ItemsAgree
  <2>1. w.item[j].due \in DOMAIN w.map /\ j \in Decays!Range(w.map[w.item[j].due])
    BY <1>8 DEF ItemsAgree
  <2>2. w.item[j].due \in DOMAIN map
    BY <2>1, <1>6
  <2> QED BY <2>1, <2>2, <1>10
<1>14. HeldAgree(v, held, i) /\ Placed(v, i, due)
  BY <1>2, <1>3, <1>6, <1>7, <1>8, <1>10 DEF HeldAgree, Placed
<1>15. Agrees(v, held, i, due)
  BY <1>12, <1>13, <1>14 DEF Agrees
<1> QED BY <1>4, <1>5, <1>7, <1>15 DEF Settled, v
-----------------------------------------------------------------------------
(* What every operation keeps: the type, and that the first is covered.     *)
Moved(w, v) == v \in Worlds(now) /\ (Covered(w) => Covered(v))

LEMMA AttributesMove ==
    ASSUME now \in Nat, it \in Int, NEW w \in Worlds(now), NEW i \in Items,
           NEW y \in Attributes(now)
    PROVE  LET v == [w EXCEPT !.item[i] = y]
           IN  /\ Moved(w, v) /\ v.item[i] = y
               /\ \A held, spot : Agrees(w, held, i, spot) => Agrees(v, held, i, spot)
<1> DEFINE v == [w EXCEPT !.item[i] = y]
<1>1. /\ v \in Worlds(now) /\ v.item = [w.item EXCEPT ![i] = y]
      /\ v.map = w.map /\ v.timers = w.timers
  BY OtherAttributes
<1>2. w.item \in [Items -> Attributes(now)]
  BY DEF Worlds
<1>3. v.item[i] = y
  <2> HIDE DEF v
  <2> QED BY <1>1, <1>2
<1> HIDE DEF v
<1>4. Moved(w, v)
  BY <1>1, CoveredFewer DEF Moved
<1>5. ASSUME NEW held, NEW spot, Agrees(w, held, i, spot)
      PROVE  Agrees(v, held, i, spot)
  BY <1>1, <1>5, OthersAgree
<1> QED BY <1>3, <1>4, <1>5 DEF v

LEMMA StopMoves ==
    ASSUME now \in Nat, it \in Int, NEW w \in Worlds(now), NEW i \in Items
    PROVE  Moved(w, Decays!StopDecay(w, i))
<1> DEFINE v == Decays!StopDecay(w, i)
<1>1. v \in Worlds(now) /\ v.timers = w.timers /\ DOMAIN v.map \subseteq DOMAIN w.map
  BY StopDecayIs
<1> HIDE DEF v
<1>2. Moved(w, v)
  BY <1>1, CoveredFewer DEF Moved
<1> QED BY <1>2 DEF v

LEMMA EnteredMoves ==
    ASSUME now \in Nat, it \in Int, NEW w \in Worlds(now), NEW i \in Items,
           NEW duration \in 1..Longest
    PROVE  Moved(w, Decays!Entered(w, i, duration))
  BY EnteredIs DEF Moved

(* The three ways of startDecay.                                            *)
LEMMA StartIs ==
    ASSUME now \in Nat, NEW w \in Worlds(now), NEW i \in Items
    PROVE  LET v == Decays!StartUnlessOver(w, i)
               x == w.item[i]
           IN  \/ /\ x.state = "stopping" \/ (~Decays!CanDecay(x) /\ x.state = "true")
                  /\ v = Decays!StopDecay(w, i)
               \/ /\ x.state # "stopping" /\ v = w
                  /\ Decays!CanDecay(x) => x.state = "true" \/ ~(x.duration > 0)
                  /\ ~Decays!CanDecay(x) => x.state # "true"
               \/ /\ x.state \notin {"stopping", "true"} /\ x.duration \in 1..Longest
                  /\ v = Decays!Entered(IF x.due = Decays!Unset THEN w
                                        ELSE Decays!StopDecay(w, i), i, x.duration)
<1> DEFINE x == w.item[i]
           v == Decays!StartUnlessOver(w, i)
           over == x.state = "stopping" \/ (~Decays!CanDecay(x) /\ x.state = "true")
           no == ~Decays!CanDecay(x) \/ x.state = "true" \/ x.duration <= 0
<1>1. x.duration \in Int /\ (x.duration > 0 => x.duration \in 1..Longest)
      /\ (x.duration <= 0 <=> ~(x.duration > 0))
  <2>1. x.duration \in Spans
    BY AttributesAre
  <2> QED BY <2>1, LongestPositive DEF Spans, Decays!Unset
<1>2. v = IF over THEN Decays!StopDecay(w, i)
          ELSE IF no THEN w
          ELSE Decays!Entered(IF x.due = Decays!Unset THEN w
                              ELSE Decays!StopDecay(w, i), i, x.duration)
  BY DEF Decays!StartUnlessOver
<1> HIDE DEF x, v
<1>3. CASE over
  BY <1>2, <1>3 DEF x, v
<1>4. CASE ~over /\ no
  <2>1. v = w
    BY <1>2, <1>4
  <2> QED BY <2>1, <1>1, <1>4 DEF x, v
<1>5. CASE ~over /\ ~no
  <2>1. v = Decays!Entered(IF x.due = Decays!Unset THEN w
                           ELSE Decays!StopDecay(w, i), i, x.duration)
    BY <1>2, <1>5
  <2>2. x.state \notin {"stopping", "true"} /\ x.duration \in 1..Longest
    BY <1>1, <1>5
  <2> QED BY <2>1, <2>2 DEF x, v
<1> QED BY <1>3, <1>4, <1>5

LEMMA StartMoves ==
    ASSUME now \in Nat, it \in Int, NEW w \in Worlds(now), NEW i \in Items
    PROVE  Moved(w, Decays!StartUnlessOver(w, i))
<1> DEFINE v == Decays!StartUnlessOver(w, i)
           u == IF w.item[i].due = Decays!Unset THEN w ELSE Decays!StopDecay(w, i)
<1>1. \/ v = Decays!StopDecay(w, i) \/ v = w
      \/ w.item[i].duration \in 1..Longest
         /\ v = Decays!Entered(u, i, w.item[i].duration)
  BY StartIs
<1>2. Moved(w, w) /\ Moved(w, Decays!StopDecay(w, i))
  BY StopMoves DEF Moved
<1>3. u \in Worlds(now) /\ Moved(w, u)
  BY <1>2 DEF Moved
<1> HIDE DEF u, v
<1>4. CASE w.item[i].duration \in 1..Longest
           /\ v = Decays!Entered(u, i, w.item[i].duration)
  <2>1. Moved(u, v)
    BY <1>3, <1>4, EnteredMoves
  <2> QED BY <1>3, <2>1 DEF Moved, v
<1> QED BY <1>1, <1>2, <1>4 DEF v

LEMMA StartSettles ==
    ASSUME now \in Nat, it \in Int, NEW w \in Worlds(now), NEW held, NEW i \in Items,
           NEW spot \in Dues(now), Agrees(w, held, i, spot),
           IF spot = Decays!Unset THEN w.item[i].state # "true"
           ELSE /\ w.item[i].due = spot
                /\ \/ w.item[i].state \in {"true", "stopping"}
                   \/ /\ w.item[i].state = "pending" /\ Decays!CanDecay(w.item[i])
                      /\ w.item[i].duration > 0
    PROVE  Settled(Decays!StartUnlessOver(w, i), held, i)
<1> DEFINE v == Decays!StartUnlessOver(w, i)
           x == w.item[i]
           stop == Decays!StopDecay(w, i)
<1>1. x.state # "none" \/ spot = Decays!Unset
  OBVIOUS
<1>2. stop \in Worlds(now) /\ Agrees(stop, held, i, Decays!Unset)
      /\ stop.item[i].state # "true"
  BY <1>1, StopMoves, StopAgrees DEF Moved
<1>3. Decays!Unset \in Dues(now)
  BY DEF Dues
<1>4. CASE /\ x.state = "stopping" \/ (~Decays!CanDecay(x) /\ x.state = "true")
           /\ v = stop
  BY <1>2, <1>3, <1>4, Zenon DEF Settled
<1>5. CASE /\ x.state # "stopping" /\ v = w
           /\ Decays!CanDecay(x) => x.state = "true" \/ ~(x.duration > 0)
           /\ ~Decays!CanDecay(x) => x.state # "true"
  <2>1. IF spot = Decays!Unset THEN x.state # "true" ELSE x.state = "true" /\ x.due = spot
    BY <1>5
  <2> QED BY <2>1, <1>5, Zenon DEF Settled
<1>6. CASE /\ x.state \notin {"stopping", "true"} /\ x.duration \in 1..Longest
           /\ v = Decays!Entered(IF x.due = Decays!Unset THEN w ELSE stop, i, x.duration)
  <2> DEFINE u == IF x.due = Decays!Unset THEN w ELSE stop
  <2>1. u \in Worlds(now) /\ Agrees(u, held, i, Decays!Unset)
    BY <1>2
  <2>2. v = Decays!Entered(u, i, x.duration) /\ x.duration \in 1..Longest
    BY <1>6
  <2> HIDE DEF u
  <2> QED BY <2>1, <2>2, EnteredAgrees
<1> QED BY <1>4, <1>5, <1>6, StartIs

(* Item::setID.                                                             *)
LEMMA RenamedIs ==
    ASSUME now \in Nat, NEW x \in Attributes(now), NEW lasts \in Durations \cup {0}
    PROVE  LET y == Decays!Renamed(x, lasts)
           IN  /\ y \in Attributes(now) /\ y.due = x.due
               /\ y.state \in {"none", "stopping", "pending"}
               /\ y.state = "none" => x.state = "none"
               /\ (y.state = "pending" /\ x.alive) =>
                    Decays!CanDecay(y) /\ y.duration > 0
               /\ Decays!CanDecay(y) => y.state = "pending"
<1>1. lasts = 0 \/ (lasts \in 1..Longest /\ lasts # 0)
  BY LongestPositive
<1>2. CASE lasts = 0
  <2>1. Decays!Unset \in Spans
    BY DEF Spans
  <2> QED BY <1>2, <2>1 DEF Decays!Renamed, Attributes, Decays!CanDecay
<1>3. CASE lasts \in 1..Longest /\ lasts # 0
  <2>1. lasts \in Spans /\ lasts > 0
    BY <1>3, LongestPositive DEF Spans
  <2> QED BY <1>3, <2>1 DEF Decays!Renamed, Attributes, Decays!CanDecay
<1> QED BY <1>1, <1>2, <1>3
LEMMA OutcomeIs ==
    ASSUME NEW end \in Decays!Outcomes
    PROVE  end.how \in {"removed", "kept", "renamed"}
           /\ end.lasts \in Durations \cup {0}
  BY DEF Decays!Outcomes

(* internalDecayItem leaves an item that is in no bucket settled.           *)
LEMMA DecayItemSettles ==
    ASSUME now \in Nat, it \in Int, NEW w \in Worlds(now), NEW i \in Items,
           NEW end \in Decays!Outcomes
    PROVE  LET v == Decays!DecayItem(w, i, end)
           IN  /\ Moved(w, v)
               /\ \A held : (/\ Agrees(w, held, i, Decays!Unset)
                             /\ w.item[i].state # "true") => Settled(v, held, i)
<1> DEFINE v == Decays!DecayItem(w, i, end)
           x == w.item[i]
           Fine == /\ Moved(w, v)
                   /\ \A held : (/\ Agrees(w, held, i, Decays!Unset)
                                 /\ x.state # "true") => Settled(v, held, i)
<1> SUFFICES Fine
  OBVIOUS
<1>1. x \in Attributes(now) /\ Decays!Unset \in Dues(now)
  BY AttributesAre DEF Dues
<1>2. CASE end.how = "kept"
  <2>1. v = w
    BY <1>2 DEF Decays!DecayItem
  <2> HIDE DEF v
  <2>2. Moved(w, v)
    BY <2>1 DEF Moved
  <2>3. ASSUME NEW held, Agrees(w, held, i, Decays!Unset), x.state # "true"
        PROVE  Settled(v, held, i)
    BY <2>1, <2>3, <1>1, Zenon DEF Settled
  <2> QED BY <2>2, <2>3
<1>3. CASE end.how = "removed"
  <2> DEFINE y == [x EXCEPT !.alive = FALSE]
             u == [w EXCEPT !.item[i] = y]
  <2>1. y \in Attributes(now) /\ y.state = x.state
    <3> HIDE DEF x
    <3> QED BY <1>1 DEF Attributes
  <2>2. v = Decays!StopDecay(u, i)
    <3>1. u = [w EXCEPT !.item[i].alive = FALSE]
      BY DEF Worlds
    <3> QED BY <1>3, <3>1 DEF Decays!DecayItem
  <2> HIDE DEF y
  <2>3. /\ Moved(w, u) /\ u.item[i] = y
        /\ \A held, spot : Agrees(w, held, i, spot) => Agrees(u, held, i, spot)
    BY <2>1, AttributesMove
  <2> HIDE DEF u, v
  <2>4. Moved(u, v)
    BY <2>2, <2>3, StopMoves DEF Moved
  <2>5. ASSUME NEW held, Agrees(w, held, i, Decays!Unset), x.state # "true"
        PROVE  Settled(v, held, i)
    <3>1. Agrees(v, held, i, Decays!Unset) /\ v.item[i].state # "true"
      BY <1>1, <2>1, <2>2, <2>3, <2>5, StopAgrees DEF Moved
    <3> QED BY <3>1, <1>1, Zenon DEF Settled
  <2> QED BY <2>3, <2>4, <2>5 DEF Moved
<1>4. CASE end.how = "renamed"
  <2> DEFINE y == Decays!Renamed(x, end.lasts)
             u == [w EXCEPT !.item[i] = y]
  <2>1. y \in Attributes(now) /\ y.state # "true"
    BY <1>1, OutcomeIs, RenamedIs
  <2>2. v = Decays!StartUnlessOver(u, i)
    <3>1. u = [w EXCEPT !.item[i] = Decays!Renamed(@, end.lasts)]
      BY DEF Worlds
    <3> QED BY <1>4, <3>1 DEF Decays!DecayItem
  <2> HIDE DEF y
  <2>3. /\ Moved(w, u) /\ u.item[i] = y
        /\ \A held, spot : Agrees(w, held, i, spot) => Agrees(u, held, i, spot)
    BY <2>1, AttributesMove
  <2> HIDE DEF u, v
  <2>4. Moved(u, v)
    BY <2>2, <2>3, StartMoves DEF Moved
  <2>5. ASSUME NEW held, Agrees(w, held, i, Decays!Unset), x.state # "true"
        PROVE  Settled(v, held, i)
    BY <1>1, <2>1, <2>2, <2>3, <2>5, StartSettles DEF Moved
  <2> QED BY <2>3, <2>4, <2>5 DEF Moved
<1> QED BY <1>2, <1>3, <1>4, OutcomeIs

(* startDecay leaves an item settled that was.                              *)
LEMMA StartDecaySettles ==
    ASSUME now \in Nat, it \in Int, NEW w \in Worlds(now), NEW i \in Items,
           NEW end \in Decays!Outcomes
    PROVE  LET v == Decays!StartDecay(w, i, end)
           IN  /\ Moved(w, v)
               /\ \A held : Settled(w, held, i) => Settled(v, held, i)
<1> DEFINE v == Decays!StartDecay(w, i, end)
<1>1. CASE Decays!IsOver(w.item[i])
  <2>1. v = Decays!DecayItem(w, i, end)
    BY <1>1 DEF Decays!StartDecay
  <2>2. w.item[i].state # "true"
    BY <1>1 DEF Decays!IsOver
  <2>3. /\ Moved(w, v)
        /\ \A held : (/\ Agrees(w, held, i, Decays!Unset)
                      /\ w.item[i].state # "true") => Settled(v, held, i)
    <3> HIDE DEF v
    <3> QED BY <2>1, DecayItemSettles
  <2> HIDE DEF v
  <2>4. \A held : Settled(w, held, i) => Agrees(w, held, i, Decays!Unset)
    BY <2>2 DEF Settled
  <2> QED BY <2>2, <2>3, <2>4 DEF v
<1>2. CASE ~Decays!IsOver(w.item[i])
  <2>1. v = Decays!StartUnlessOver(w, i)
    BY <1>2 DEF Decays!StartDecay
  <2>2. Moved(w, v)
    BY <2>1, StartMoves
  <2>3. ASSUME NEW held, Settled(w, held, i) PROVE Settled(v, held, i)
    <3>1. PICK spot \in Dues(now) :
            /\ Agrees(w, held, i, spot)
            /\ IF spot = Decays!Unset THEN w.item[i].state # "true"
               ELSE w.item[i].state = "true" /\ w.item[i].due = spot
      BY <2>3 DEF Settled
    <3>2. Settled(Decays!StartUnlessOver(w, i), held, i)
      BY <3>1, StartSettles
    <3> QED BY <2>1, <3>2
  <2> QED BY <2>2, <2>3
<1> QED BY <1>1, <1>2
-----------------------------------------------------------------------------
(* Sequences one after the other: the recursion of FlattenSeq.              *)
Flattens(f, ss, n) ==
    f = [k \in 1..n |-> IF k = 1 THEN ss[k] ELSE f[k - 1] \o ss[k]]

LEMMA FlattenExists ==
    ASSUME NEW ss, NEW n \in Nat \ {0}
    PROVE  \E f : Flattens(f, ss, n)
<1> DEFINE Bad == {m \in Nat \ {0} : ~ \E f : Flattens(f, ss, m)}
<1> SUFFICES ASSUME Bad # {} PROVE FALSE
  OBVIOUS
<1>1. PICK m \in Bad : \A k \in Bad : m <= k
  <2>1. Bad \in SUBSET Nat
    OBVIOUS
  <2> HIDE DEF Bad
  <2> QED BY ONLY <2>1, Bad # {}, LeastNumber
<1>2. m \in Nat \ {0} /\ ~ \E f : Flattens(f, ss, m)
  BY <1>1
<1>3. CASE m = 1
  <2> DEFINE f == [k \in 1..1 |-> ss[1]]
  <2>1. Flattens(f, ss, 1)
    BY DEF Flattens
  <2> QED BY <2>1, <1>2, <1>3
<1>4. CASE m # 1
  <2>1. m - 1 \in Nat \ {0} /\ m - 1 \notin Bad
    BY <1>1, <1>2, <1>4
  <2>2. PICK g : Flattens(g, ss, m - 1)
    BY <2>1
  <2> DEFINE f == [k \in 1..m |-> IF k < m THEN g[k] ELSE g[m - 1] \o ss[m]]
  <2>3. ASSUME NEW k \in 1..m
        PROVE  f[k] = IF k = 1 THEN ss[k] ELSE f[k - 1] \o ss[k]
    <3>1. CASE k < m
      <4>1. k \in 1..(m - 1) /\ f[k] = g[k]
        BY <3>1, <1>2
      <4>2. g[k] = IF k = 1 THEN ss[k] ELSE g[k - 1] \o ss[k]
        BY <4>1, <2>2, Zenon DEF Flattens
      <4>3. k # 1 => f[k - 1] = g[k - 1]
        BY <1>2, <3>1
      <4> QED BY <4>1, <4>2, <4>3
    <3>2. CASE k = m
      <4>1. k # 1 /\ f[m - 1] = g[m - 1] /\ f[k] = g[m - 1] \o ss[m]
        <5>1. m - 1 \in 1..m /\ m - 1 < m /\ m \in 1..m /\ ~(m < m)
          BY <1>2, <1>4
        <5> QED BY <5>1, <1>4, <3>2
      <4> QED BY <4>1, <3>2
    <3> QED BY <3>1, <3>2, <1>2
  <2>4. f = [k \in 1..m |-> f[k]]
    OBVIOUS
  <2> HIDE DEF f
  <2>5. Flattens(f, ss, m)
    BY <2>3, <2>4, Zenon DEF Flattens
  <2> QED BY <2>5, <1>2
<1> QED BY <1>3, <1>4

LEMMA ConcatIs ==
    ASSUME NEW S, NEW s \in Seq(S), NEW t \in Seq(S)
    PROVE  /\ s \o t \in Seq(S)
           /\ Decays!Range(s \o t) = Decays!Range(s) \cup Decays!Range(t)
           /\ (/\ Decays!IsInjective(s) /\ Decays!IsInjective(t)
               /\ Decays!Range(s) \cap Decays!Range(t) = {}) => Decays!IsInjective(s \o t)
<1> DEFINE c == s \o t
<1>1. /\ Len(s) \in Nat /\ Len(t) \in Nat
      /\ DOMAIN s = 1..Len(s) /\ DOMAIN t = 1..Len(t)
  OBVIOUS
<1>2. /\ c \in Seq(S) /\ DOMAIN c = 1..(Len(s) + Len(t))
      /\ \A k \in 1..(Len(s) + Len(t)) : c[k] = IF k <= Len(s) THEN s[k] ELSE t[k - Len(s)]
  OBVIOUS
<1> HIDE DEF c
<1>3. Decays!Range(c) \subseteq Decays!Range(s) \cup Decays!Range(t)
  <2>1. \A k \in DOMAIN c : c[k] \in Decays!Range(s) \cup Decays!Range(t)
    <3> TAKE k \in DOMAIN c
    <3>1. CASE k <= Len(s)
      <4>1. k \in DOMAIN s /\ c[k] = s[k]
        BY <1>1, <1>2, <3>1
      <4> QED BY <4>1, RangeIs
    <3>2. CASE ~(k <= Len(s))
      <4>1. k - Len(s) \in DOMAIN t /\ c[k] = t[k - Len(s)]
        BY <1>1, <1>2, <3>2
      <4> QED BY <4>1, RangeIs
    <3> QED BY <3>1, <3>2
  <2> QED BY <2>1, RangeIs
<1>4. Decays!Range(s) \cup Decays!Range(t) \subseteq Decays!Range(c)
  <2>1. ASSUME NEW k \in DOMAIN s PROVE s[k] \in Decays!Range(c)
    <3>1. k \in DOMAIN c /\ c[k] = s[k]
      BY <1>1, <1>2
    <3> QED BY <3>1, RangeIs
  <2>2. ASSUME NEW k \in DOMAIN t PROVE t[k] \in Decays!Range(c)
    <3>1. k + Len(s) \in DOMAIN c /\ c[k + Len(s)] = t[k]
      <4>1. k + Len(s) \in 1..(Len(s) + Len(t)) /\ ~(k + Len(s) <= Len(s))
            /\ (k + Len(s)) - Len(s) = k
        BY <1>1
      <4> QED BY <4>1, <1>2
    <3> QED BY <3>1, RangeIs
  <2> QED BY <2>1, <2>2, RangeIs
<1>5. ASSUME Decays!IsInjective(s), Decays!IsInjective(t),
             Decays!Range(s) \cap Decays!Range(t) = {}
      PROVE  Decays!IsInjective(c)
  <2>1. /\ \A k, l \in DOMAIN s : s[k] = s[l] => k = l
        /\ \A k, l \in DOMAIN t : t[k] = t[l] => k = l
        /\ \A k \in DOMAIN s, l \in DOMAIN t : s[k] # t[l]
    BY <1>5, RangeIs DEF Decays!IsInjective
  <2>2. ASSUME NEW k \in DOMAIN c, NEW l \in DOMAIN c, c[k] = c[l] PROVE k = l
    <3>1. CASE k <= Len(s) /\ l <= Len(s)
      <4>1. k \in DOMAIN s /\ l \in DOMAIN s /\ c[k] = s[k] /\ c[l] = s[l]
        BY <1>1, <1>2, <3>1
      <4> QED BY <4>1, <2>1, <2>2
    <3>2. CASE k <= Len(s) /\ ~(l <= Len(s))
      <4>1. k \in DOMAIN s /\ l - Len(s) \in DOMAIN t /\ c[k] = s[k] /\ c[l] = t[l - Len(s)]
        BY <1>1, <1>2, <3>2
      <4> QED BY <4>1, <2>1, <2>2
    <3>3. CASE ~(k <= Len(s)) /\ l <= Len(s)
      <4>1. l \in DOMAIN s /\ k - Len(s) \in DOMAIN t /\ c[l] = s[l] /\ c[k] = t[k - Len(s)]
        BY <1>1, <1>2, <3>3
      <4> QED BY <4>1, <2>1, <2>2
    <3>4. CASE ~(k <= Len(s)) /\ ~(l <= Len(s))
      <4>1. /\ k - Len(s) \in DOMAIN t /\ l - Len(s) \in DOMAIN t
            /\ c[k] = t[k - Len(s)] /\ c[l] = t[l - Len(s)]
        BY <1>1, <1>2, <3>4
      <4>2. k - Len(s) = l - Len(s)
        BY <4>1, <2>1, <2>2
      <4> QED BY <4>2, <1>1, <1>2
    <3> QED BY <3>1, <3>2, <3>3, <3>4
  <2> QED BY <2>2 DEF Decays!IsInjective
<1> QED BY <1>2, <1>3, <1>4, <1>5 DEF c

Apart(ss) ==
    /\ \A k \in DOMAIN ss : Decays!IsInjective(ss[k])
    /\ \A k, l \in DOMAIN ss :
         k # l => Decays!Range(ss[k]) \cap Decays!Range(ss[l]) = {}

LEMMA FlattenIs ==
    ASSUME NEW S, NEW ss \in Seq(Seq(S)), Len(ss) # 0
    PROVE  LET r == Decays!FlattenSeq(ss)
           IN  /\ r \in Seq(S)
               /\ \A x : x \in Decays!Range(r) <=>
                      \E k \in DOMAIN ss : x \in Decays!Range(ss[k])
               /\ Apart(ss) => Decays!IsInjective(r)
<1> DEFINE r == Decays!FlattenSeq(ss)
           f == CHOOSE g : Flattens(g, ss, Len(ss))
<1>1. Len(ss) \in Nat \ {0} /\ DOMAIN ss = 1..Len(ss)
      /\ \A k \in 1..Len(ss) : ss[k] \in Seq(S)
  OBVIOUS
<1>2. r = f[Len(ss)]
  BY Zenon DEF Decays!FlattenSeq, Flattens
<1>3. Flattens(f, ss, Len(ss))
  BY <1>1, FlattenExists, Zenon
<1> HIDE DEF f, r
<1>4. \A k \in 1..Len(ss) : f[k] = IF k = 1 THEN ss[k] ELSE f[k - 1] \o ss[k]
  BY <1>3, Zenon DEF Flattens
<1> DEFINE Good(n) ==
             /\ f[n] \in Seq(S)
             /\ \A x : x \in Decays!Range(f[n]) <=>
                    \E k \in 1..n : x \in Decays!Range(ss[k])
             /\ Apart(ss) => Decays!IsInjective(f[n])
           Bad == {n \in 1..Len(ss) : ~Good(n)}
<1>5. ASSUME Bad # {} PROVE FALSE
  <2>1. PICK n \in Bad : \A k \in Bad : n <= k
    <3>1. Bad \in SUBSET Nat
      BY <1>1
    <3> HIDE DEF Bad
    <3> QED BY ONLY <3>1, <1>5, LeastNumber
  <2>2. n \in 1..Len(ss) /\ ~Good(n)
    BY <2>1
  <2>3. CASE n = 1
    <3>1. f[1] = ss[1] /\ 1 \in 1..Len(ss) /\ ss[1] \in Seq(S)
      BY <1>1, <1>4
    <3>2. \A k : k \in 1..1 <=> k = 1
      OBVIOUS
    <3>3. Good(1)
      BY <3>1, <3>2, <1>1 DEF Apart
    <3> QED BY <3>3, <2>2, <2>3
  <2>4. CASE n # 1
    <3>1. n - 1 \in 1..Len(ss) /\ ~(n <= n - 1)
      BY <1>1, <2>2, <2>4
    <3>2. Good(n - 1)
      <4> HIDE DEF Good
      <4> QED BY <3>1, <2>1
    <3>3. f[n] = f[n - 1] \o ss[n] /\ ss[n] \in Seq(S)
      BY <1>1, <1>4, <2>2, <2>4
    <3>4. \A k : k \in 1..n <=> (k = n \/ k \in 1..(n - 1))
      BY <1>1, <2>2
    <3>5. f[n] \in Seq(S)
          /\ Decays!Range(f[n]) = Decays!Range(f[n - 1]) \cup Decays!Range(ss[n])
      BY <3>2, <3>3, ConcatIs
    <3>6. ASSUME Apart(ss) PROVE Decays!IsInjective(f[n])
      <4>1. n \in DOMAIN ss /\ \A k \in 1..(n - 1) : k \in DOMAIN ss /\ k # n
        BY <1>1, <2>2
      <4>2. Decays!Range(f[n - 1]) \cap Decays!Range(ss[n]) = {}
        BY <4>1, <3>2, <3>6 DEF Apart
      <4>3. Decays!IsInjective(ss[n]) /\ Decays!IsInjective(f[n - 1])
        BY <4>1, <3>2, <3>6 DEF Apart
      <4> QED BY <4>2, <4>3, <3>2, <3>3, ConcatIs
    <3>7. \A x : x \in Decays!Range(f[n]) <=>
                    \E k \in 1..n : x \in Decays!Range(ss[k])
      BY <3>2, <3>4, <3>5
    <3>8. Good(n)
      BY <3>5, <3>6, <3>7
    <3> HIDE DEF Good
    <3> QED BY <3>8, <2>2
  <2> QED BY <2>3, <2>4
<1>6. Good(Len(ss))
  <2> HIDE DEF Good
  <2> QED BY <1>1, <1>5
<1> QED BY <1>1, <1>2, <1>6 DEF r
-----------------------------------------------------------------------------
(* The state of Decay: its type, ...                                        *)
DecayTyped ==
    /\ now \in 0..MaxTime
    /\ Decays!Fresh \in Worlds(now)
    /\ decayPc \in {"idle", "decaying", "scripts"}
    /\ tempItems \in Seq(Items) /\ it \in (0..(MaxTime + Longest)) \cup {Decays!Unset}
    /\ scripted \in 0..MaxScripts /\ undefined \in BOOLEAN

(* ... that checkDecay holds nothing when it does not run, ...              *)
HoldsNothing == decayPc = "idle" => tempItems = <<>> /\ it = Decays!Unset

(* ... that an event comes in time, ...                                     *)
FirstCovered == ~undefined => Covered(Decays!Fresh)

(* ... and that map and items agree, but for what checkDecay holds.         *)
AllAgree(w, held) ==
    /\ \A d \in DOMAIN w.map :
         /\ Decays!IsInjective(w.map[d])
         /\ \A j \in Decays!Range(w.map[d]) :
              j \notin held /\ w.item[j].state = "true" /\ w.item[j].due = d
    /\ \A j \in Items :
         w.item[j].state = "true" =>
            \/ j \in held
            \/ w.item[j].due \in DOMAIN w.map /\ j \in Decays!Range(w.map[w.item[j].due])
    /\ held \subseteq Items
    /\ \A j \in held : w.item[j].state = "true" /\ w.item[j].due <= now
    /\ held # {} => \A d \in DOMAIN w.map : d > now
EntriesAgree ==
    scripted = 0 =>
        Decays!IsInjective(tempItems) /\ AllAgree(Decays!Fresh, Decays!Range(tempItems))

DecayInv == DecayTyped /\ HoldsNothing /\ FirstCovered /\ EntriesAgree

(* An item that agrees is settled, and the other way round.                 *)
LEMMA AgreedSettles ==
    ASSUME now \in Nat, NEW w \in Worlds(now), NEW held, NEW i \in Items, i \notin held,
           AllAgree(w, held)
    PROVE  Settled(w, held, i)
<1> DEFINE x == w.item[i]
           spot == IF x.state = "true" THEN x.due ELSE Decays!Unset
<1>1. x.due \in Dues(now) /\ Decays!Unset \in Dues(now) /\ w.map \in Buckets(now)
  BY AttributesAre DEF Dues, Worlds
<1>2. \A d \in DOMAIN w.map : d # Decays!Unset
  BY <1>1, BucketsAre DEF Decays!Unset
<1>3. BucketsAgree(w, held, i, spot) /\ ItemsAgree(w, held, i) /\ HeldAgree(w, held, i)
  BY DEF AllAgree, BucketsAgree, ItemsAgree, HeldAgree
<1>4. x.state = "true" => x.due \in DOMAIN w.map /\ i \in Decays!Range(w.map[x.due])
  BY DEF AllAgree
<1>5. Placed(w, i, spot)
  BY <1>4 DEF Placed
<1>6. spot \in Dues(now)
  BY <1>1
<1>7. IF spot = Decays!Unset THEN x.state # "true" ELSE x.state = "true" /\ x.due = spot
  BY <1>2, <1>4
<1>8. Agrees(w, held, i, spot)
  BY <1>3, <1>5 DEF Agrees
<1> HIDE DEF spot
<1> QED BY <1>6, <1>7, <1>8 DEF Settled

LEMMA SettledAgrees ==
    ASSUME now \in Nat, NEW w \in Worlds(now), NEW held, NEW i \in Items,
           Settled(w, held, i)
    PROVE  AllAgree(w, held)
<1>1. PICK spot \in Dues(now) :
        /\ Agrees(w, held, i, spot)
        /\ IF spot = Decays!Unset THEN w.item[i].state # "true"
           ELSE w.item[i].state = "true" /\ w.item[i].due = spot
  BY DEF Settled
<1>2. /\ BucketsAgree(w, held, i, spot) /\ ItemsAgree(w, held, i)
      /\ Placed(w, i, spot) /\ HeldAgree(w, held, i)
  BY <1>1 DEF Agrees
<1>3. CASE spot = Decays!Unset
  <2>1. w.item[i].state # "true"
    BY <1>1, <1>3
  <2>2. w.map \in Buckets(now)
    BY DEF Worlds
  <2>3. Decays!Unset \notin DOMAIN w.map
    BY <2>2, BucketsAre DEF Decays!Unset
  <2>4. \A d \in DOMAIN w.map : i \notin Decays!Range(w.map[d])
    BY <1>2, <1>3, <2>3 DEF BucketsAgree
  <2> QED BY <1>2, <2>1, <2>4 DEF BucketsAgree, ItemsAgree, HeldAgree, AllAgree
<1>4. CASE spot # Decays!Unset
  <2>1. w.item[i].state = "true" /\ w.item[i].due = spot
    BY <1>1, <1>4
  <2> QED BY <1>2, <1>4, <2>1
          DEF BucketsAgree, ItemsAgree, Placed, HeldAgree, AllAgree
<1> QED BY <1>3, <1>4
(* A world that the state becomes.                                          *)
LEMMA BecomesIs ==
    ASSUME NEW w \in Worlds(now), Decays!Becomes(w)
    PROVE  Decays!Fresh' = w
  BY DEF Decays!Becomes, Decays!Fresh, Worlds

LEMMA FreshIs ==
    /\ Decays!Fresh.item = item /\ Decays!Fresh.map = decayMap
    /\ Decays!Fresh.timers = timers /\ Decays!Fresh.event = eventId
  BY DEF Decays!Fresh

(* The game or a script acts on an item.                                    *)
LEMMA ActsKeep ==
    ASSUME DecayInv, Decays!Acts, NEW i \in Items, NEW v, Moved(Decays!Fresh, v),
           \A held : Settled(Decays!Fresh, held, i) => Settled(v, held, i),
           Decays!Becomes(v)
    PROVE  DecayInv'
<1>1. DecayTyped /\ HoldsNothing /\ FirstCovered /\ EntriesAgree
  BY DEF DecayInv
<1>2. /\ now' = now /\ decayPc' = decayPc /\ tempItems' = tempItems /\ it' = it
      /\ undefined' = undefined
  BY DEF Decays!Acts
<1>3. now \in Nat /\ v \in Worlds(now) /\ Decays!Fresh \in Worlds(now)
  BY <1>1 DEF DecayTyped, Moved
<1>4. Decays!Fresh' = v
  BY <1>3, BecomesIs
<1>5. \/ decayPc = "idle" /\ scripted' = scripted
      \/ scripted' = scripted + 1 /\ scripted < MaxScripts
  BY DEF Decays!Acts
<1>6. scripted' \in 0..MaxScripts
  BY <1>1, <1>5, DecayAssumption DEF DecayTyped
<1>7. DecayTyped'
  BY <1>1, <1>2, <1>3, <1>4, <1>6 DEF DecayTyped
<1>8. HoldsNothing'
  BY <1>1, <1>2 DEF HoldsNothing
<1>9. FirstCovered'
  <2>1. undefined \/ Covered(v)
    BY <1>1 DEF FirstCovered, Moved
  <2>2. Covered(v) => Covered(v)'
    BY <1>2 DEF Covered, InTime
  <2> QED BY <1>2, <1>4, <2>1, <2>2 DEF FirstCovered
<1>10. EntriesAgree'
  <2>1. ASSUME scripted' = 0
        PROVE  /\ Decays!IsInjective(tempItems)
               /\ AllAgree(v, Decays!Range(tempItems))
    <3>1. decayPc = "idle" /\ scripted = 0
      BY <1>1, <1>5, <2>1 DEF DecayTyped
    <3>2. /\ Decays!IsInjective(tempItems)
          /\ AllAgree(Decays!Fresh, Decays!Range(tempItems))
      BY <1>1, <3>1 DEF EntriesAgree
    <3>3. Decays!Range(tempItems) = {}
      BY <1>1, <3>1, RangeIs DEF HoldsNothing
    <3>4. Settled(Decays!Fresh, Decays!Range(tempItems), i)
      BY <1>3, <3>2, <3>3, AgreedSettles
    <3>5. Settled(v, Decays!Range(tempItems), i)
      BY <3>4
    <3> QED BY <1>3, <3>2, <3>5, SettledAgrees
  <2>2. AllAgree(v, Decays!Range(tempItems)) => AllAgree(v, Decays!Range(tempItems))'
    BY <1>2 DEF AllAgree
  <2> QED BY <1>2, <1>4, <2>1, <2>2 DEF EntriesAgree
<1> QED BY <1>7, <1>8, <1>9, <1>10 DEF DecayInv
LEMMA StopSettles ==
    ASSUME now \in Nat, it \in Int, NEW w \in Worlds(now), NEW held, NEW i \in Items,
           NEW spot \in Dues(now), Agrees(w, held, i, spot),
           IF spot = Decays!Unset THEN w.item[i].state # "true"
           ELSE w.item[i].state # "none" /\ w.item[i].due = spot
    PROVE  Settled(Decays!StopDecay(w, i), held, i)
<1>1. /\ Agrees(Decays!StopDecay(w, i), held, i, Decays!Unset)
      /\ Decays!StopDecay(w, i).item[i].state # "true"
  BY StopAgrees
<1>2. Decays!Unset \in Dues(now)
  BY DEF Dues
<1> QED BY <1>1, <1>2, Zenon DEF Settled

LEMMA SettledSpot ==
    ASSUME NEW w, NEW held, NEW i, Settled(w, held, i)
    PROVE  \E spot \in Dues(now) :
             /\ Agrees(w, held, i, spot)
             /\ IF spot = Decays!Unset THEN w.item[i].state # "true"
                ELSE w.item[i].state = "true" /\ w.item[i].due = spot
  BY DEF Settled

LEMMA FreshTyped ==
    ASSUME DecayInv
    PROVE  /\ now \in Nat /\ it \in Int /\ Decays!Fresh \in Worlds(now)
           /\ now <= MaxTime /\ MaxTime \in Nat /\ MinTicks \in Nat
           /\ tempItems \in Seq(Items) /\ decayMap \in Buckets(now)
           /\ item \in [Items -> Attributes(now)]
<1>1. DecayTyped
  BY DEF DecayInv
<1>2. now \in Nat /\ now <= MaxTime /\ MaxTime \in Nat /\ MinTicks \in Nat
  BY <1>1, DecayAssumption DEF DecayTyped
<1>3. it \in Int
  BY <1>1, LongestPositive, DecayAssumption DEF DecayTyped, Decays!Unset
<1>4. Decays!Fresh \in Worlds(now) /\ tempItems \in Seq(Items)
  BY <1>1 DEF DecayTyped
<1>5. decayMap \in Buckets(now) /\ item \in [Items -> Attributes(now)]
  BY <1>4, FreshIs DEF Worlds
<1> QED BY <1>2, <1>3, <1>4, <1>5

LEMMA StartKeeps ==
    ASSUME DecayInv, NEW i \in Items, Decays!Start(i)
    PROVE  DecayInv'
<1>1. PICK end \in Decays!Outcomes :
        Decays!Becomes(Decays!StartDecay(Decays!Fresh, i, end))
  BY DEF Decays!Start
<1>2. Decays!Acts
  BY DEF Decays!Start
<1> DEFINE v == Decays!StartDecay(Decays!Fresh, i, end)
<1>3. /\ Moved(Decays!Fresh, v)
      /\ \A held : Settled(Decays!Fresh, held, i) => Settled(v, held, i)
  <2>1. now \in Nat /\ it \in Int /\ Decays!Fresh \in Worlds(now)
    BY FreshTyped
  <2> QED BY <2>1, StartDecaySettles
<1> HIDE DEF v
<1> QED BY <1>1, <1>2, <1>3, ActsKeep DEF v

LEMMA StopKeeps ==
    ASSUME DecayInv, NEW i \in Items, Decays!Stop(i)
    PROVE  DecayInv'
<1> DEFINE v == Decays!StopDecay(Decays!Fresh, i)
<1>1. Decays!Acts /\ Decays!Becomes(v)
  BY DEF Decays!Stop
<1>2. now \in Nat /\ it \in Int /\ Decays!Fresh \in Worlds(now)
  BY FreshTyped
<1>3. Moved(Decays!Fresh, v)
  BY <1>2, StopMoves
<1>4. ASSUME NEW held, Settled(Decays!Fresh, held, i) PROVE Settled(v, held, i)
  <2>1. PICK spot \in Dues(now) :
          /\ Agrees(Decays!Fresh, held, i, spot)
          /\ IF spot = Decays!Unset THEN Decays!Fresh.item[i].state # "true"
             ELSE Decays!Fresh.item[i].state = "true" /\ Decays!Fresh.item[i].due = spot
    BY <1>4, SettledSpot
  <2> QED BY <1>2, <2>1, StopSettles
<1> HIDE DEF v
<1> QED BY <1>1, <1>3, <1>4, ActsKeep

LEMMA TransformKeeps ==
    ASSUME DecayInv, NEW i \in Items, Decays!Transform(i)
    PROVE  DecayInv'
<1> DEFINE w == Decays!Fresh
<1>1. Decays!Acts /\ item[i].alive
  BY DEF Decays!Transform
<1>2. PICK lasts \in Durations \cup {0} :
        Decays!Becomes(Decays!StartUnlessOver(
            [w EXCEPT !.item[i] = Decays!Renamed(@, lasts)], i))
  BY DEF Decays!Transform
<1> DEFINE y == Decays!Renamed(w.item[i], lasts)
           u == [w EXCEPT !.item[i] = y]
           v == Decays!StartUnlessOver(u, i)
<1>3. now \in Nat /\ it \in Int /\ w \in Worlds(now) /\ w.item = item
  BY FreshTyped, FreshIs
<1>4. w.item[i] \in Attributes(now)
  BY <1>3, AttributesAre
<1>5. /\ y \in Attributes(now) /\ y.due = w.item[i].due
      /\ y.state \in {"none", "stopping", "pending"}
      /\ y.state = "none" => w.item[i].state = "none"
      /\ y.state = "pending" => Decays!CanDecay(y) /\ y.duration > 0
  <2> HIDE DEF w
  <2> QED BY <1>1, <1>3, <1>4, RenamedIs
<1>6. Decays!Becomes(v)
  <2>1. u = [w EXCEPT !.item[i] = Decays!Renamed(@, lasts)]
    BY <1>3 DEF Worlds
  <2> HIDE DEF u, w
  <2> QED BY <1>2, <2>1
<1> HIDE DEF y, w
<1>7. /\ Moved(w, u) /\ u.item[i] = y
      /\ \A held, spot : Agrees(w, held, i, spot) => Agrees(u, held, i, spot)
  BY <1>3, <1>5, AttributesMove
<1> HIDE DEF u
<1>8. Moved(u, v) /\ u \in Worlds(now)
  BY <1>3, <1>7, StartMoves DEF Moved
<1>9. ASSUME NEW held, Settled(w, held, i) PROVE Settled(v, held, i)
  <2>1. PICK spot \in Dues(now) :
          /\ Agrees(w, held, i, spot)
          /\ IF spot = Decays!Unset THEN w.item[i].state # "true"
             ELSE w.item[i].state = "true" /\ w.item[i].due = spot
    BY <1>9, SettledSpot
  <2>2. Agrees(u, held, i, spot)
    BY <1>7, <2>1
  <2>3. IF spot = Decays!Unset THEN u.item[i].state # "true"
        ELSE /\ u.item[i].due = spot
             /\ \/ u.item[i].state \in {"true", "stopping"}
                \/ /\ u.item[i].state = "pending" /\ Decays!CanDecay(u.item[i])
                   /\ u.item[i].duration > 0
    BY <1>5, <1>7, <2>1
  <2> QED BY <1>3, <1>8, <2>2, <2>3, StartSettles
<1>10. Moved(w, v)
  BY <1>7, <1>8 DEF Moved
<1> HIDE DEF v
<1> QED BY <1>1, <1>6, <1>9, <1>10, ActsKeep DEF w

LEMMA VanishKeeps ==
    ASSUME DecayInv, NEW i \in Items, Decays!Vanish(i)
    PROVE  DecayInv'
<1> DEFINE w == Decays!Fresh
           y == [w.item[i] EXCEPT !.alive = FALSE]
           u == [w EXCEPT !.item[i] = y]
           v == Decays!StopDecay(u, i)
<1>1. now \in Nat /\ it \in Int /\ w \in Worlds(now)
  BY FreshTyped
<1>2. w.item[i] \in Attributes(now)
  BY <1>1, AttributesAre
<1>3. Decays!Acts /\ Decays!Becomes(v)
  <2>1. u = [w EXCEPT !.item[i].alive = FALSE]
    BY <1>1 DEF Worlds
  <2>2. Decays!Acts /\ Decays!Becomes(Decays!StopDecay([w EXCEPT !.item[i].alive = FALSE], i))
    BY DEF Decays!Vanish
  <2> HIDE DEF u, w
  <2> QED BY <2>1, <2>2
<1>4. y \in Attributes(now) /\ y.state = w.item[i].state /\ y.due = w.item[i].due
  <2> HIDE DEF w
  <2> QED BY <1>2 DEF Attributes
<1> HIDE DEF y, w
<1>5. /\ Moved(w, u) /\ u.item[i] = y
      /\ \A held, spot : Agrees(w, held, i, spot) => Agrees(u, held, i, spot)
  BY <1>1, <1>4, AttributesMove
<1> HIDE DEF u
<1>6. Moved(u, v) /\ u \in Worlds(now)
  BY <1>1, <1>5, StopMoves DEF Moved
<1>7. ASSUME NEW held, Settled(w, held, i) PROVE Settled(v, held, i)
  <2>1. PICK spot \in Dues(now) :
          /\ Agrees(w, held, i, spot)
          /\ IF spot = Decays!Unset THEN w.item[i].state # "true"
             ELSE w.item[i].state = "true" /\ w.item[i].due = spot
    BY <1>7, SettledSpot
  <2>2. Agrees(u, held, i, spot)
    BY <1>5, <2>1
  <2>3. IF spot = Decays!Unset THEN u.item[i].state # "true"
        ELSE u.item[i].state # "none" /\ u.item[i].due = spot
    BY <1>4, <1>5, <2>1
  <2> QED BY <1>1, <1>6, <2>2, <2>3, StopSettles
<1>8. Moved(w, v)
  BY <1>5, <1>6 DEF Moved
<1> HIDE DEF v
<1> QED BY <1>3, <1>7, <1>8, ActsKeep DEF w
(* The clock.                                                               *)
LEMMA ClockTyped ==
    ASSUME DecayInv, Decays!Tick
    PROVE  DecayTyped'
<1>1. /\ now < MaxTime /\ now' = now + 1 /\ decayPc' = decayPc /\ tempItems' = tempItems
      /\ it' = it /\ scripted' = scripted /\ undefined' = undefined
      /\ Decays!Fresh' = Decays!Fresh
  BY DEF Decays!Tick, Decays!state, Decays!Fresh
<1>2. DecayTyped /\ now \in Nat
  BY FreshTyped DEF DecayInv
<1>3. Dues(now) \subseteq Dues(now + 1) /\ Buckets(now) \subseteq Buckets(now + 1)
  <2>1. 0..(now + Longest) \subseteq 0..((now + 1) + Longest) /\ now + 1 \in Nat
    BY <1>2, LongestPositive
  <2>2. Dues(now) \subseteq Dues(now + 1)
    BY <2>1 DEF Dues
  <2>3. ASSUME NEW f \in Buckets(now) PROVE f \in Buckets(now + 1)
    <3>1. /\ f = [d \in DOMAIN f |-> f[d]] /\ DOMAIN f \subseteq 0..(now + Longest)
          /\ \A d \in DOMAIN f : f[d] \in Seq(Items) /\ f[d] # <<>>
      BY <1>2, BucketsAre
    <3>2. DOMAIN f \subseteq 0..((now + 1) + Longest)
      BY <3>1, <2>1
    <3> QED BY <3>1, <3>2, <2>1, BucketsAre
  <2> QED BY <2>2, <2>3
<1>4. Attributes(now) \subseteq Attributes(now + 1)
  BY <1>3 DEF Attributes
<1>5. Worlds(now) \subseteq Worlds(now + 1)
  <2>1. [Items -> Attributes(now)] \subseteq [Items -> Attributes(now + 1)]
    BY <1>4
  <2> QED BY <2>1, <1>3 DEF Worlds
<1>6. now + 1 \in 0..MaxTime
  BY <1>1, <1>2, DecayAssumption
<1> QED BY <1>1, <1>2, <1>5, <1>6 DEF DecayTyped

LEMMA ClockKeeps ==
    ASSUME DecayInv, Decays!Tick
    PROVE  DecayInv'
<1>1. /\ decayPc = "idle" /\ now' = now + 1 /\ decayPc' = decayPc /\ tempItems' = tempItems
      /\ it' = it /\ scripted' = scripted /\ undefined' = undefined
      /\ item' = item /\ decayMap' = decayMap /\ timers' = timers /\ eventId' = eventId
      /\ Decays!Fresh' = Decays!Fresh
  BY DEF Decays!Tick, Decays!state, Decays!Fresh
<1>2. HoldsNothing /\ FirstCovered /\ EntriesAgree
  BY DEF DecayInv
<1>3. tempItems = <<>> /\ it = Decays!Unset
  BY <1>1, <1>2 DEF HoldsNothing
<1>4. DecayTyped'
  BY ClockTyped
<1>5. HoldsNothing'
  BY <1>1, <1>2 DEF HoldsNothing
<1>6. FirstCovered'
  <2> SUFFICES ASSUME ~undefined, decayMap # <<>>
               PROVE  InTime(decayMap, timers)'
    BY <1>1, <1>3, FreshIs DEF FirstCovered, Covered, Decays!Fresh
  <2>1. InTime(decayMap, timers)
    BY <1>2, <1>3, FreshIs DEF FirstCovered, Covered
  <2>2. now \in Nat /\ MinTicks \in Nat /\ timers \in SUBSET Events
        /\ Decays!Min(DOMAIN decayMap) \in Nat
    BY FreshTyped, FreshIs, FirstOfMap DEF Worlds, EventSets
  <2>3. PICK e \in timers :
          e.due <= Decays!Max({Decays!Min(DOMAIN decayMap), now + MinTicks})
    BY <2>1 DEF InTime
  <2>4. e.due <= Decays!Max({Decays!Min(DOMAIN decayMap), (now + 1) + MinTicks})
    <3> DEFINE first == Decays!Min(DOMAIN decayMap)
    <3>1. e.due \in Nat
      BY <2>2 DEF Events
    <3>2. /\ Decays!Max({first, now + MinTicks})
               = IF first >= now + MinTicks THEN first ELSE now + MinTicks
          /\ Decays!Max({first, (now + 1) + MinTicks})
               = IF first >= (now + 1) + MinTicks THEN first ELSE (now + 1) + MinTicks
      <4> HIDE DEF first
      <4> QED BY <2>2, LaterTime DEF first
    <3> HIDE DEF first
    <3> QED BY <2>2, <2>3, <3>1, <3>2 DEF first
  <2> QED BY <1>1, <2>4 DEF InTime
<1>7. EntriesAgree'
  <2> SUFFICES ASSUME scripted = 0
               PROVE  (/\ Decays!IsInjective(tempItems)
                       /\ AllAgree(Decays!Fresh, Decays!Range(tempItems)))'
    BY <1>1 DEF EntriesAgree
  <2>1. /\ Decays!IsInjective(tempItems)
        /\ AllAgree(Decays!Fresh, Decays!Range(tempItems))
    BY <1>2 DEF EntriesAgree
  <2>2. Decays!Range(tempItems) = {}
    BY <1>3, RangeIs
  <2>3. AllAgree(Decays!Fresh, {})'
    BY <1>1, <2>1, <2>2 DEF AllAgree
  <2> QED BY <1>1, <2>1, <2>2, <2>3
<1> QED BY <1>4, <1>5, <1>6, <1>7 DEF DecayInv
(* checkDecay takes the buckets whose time has come, ...                    *)
DueBuckets(map, D) ==
    [n \in 1..(now + 1) |-> IF n - 1 \in D THEN map[n - 1] ELSE <<>>]

LEMMA DueItems ==
    ASSUME now \in Nat, NEW map \in Buckets(now), NEW D, D = {d \in DOMAIN map : d <= now}
    PROVE  LET r == Decays!FlattenSeq(DueBuckets(map, D))
           IN  /\ r \in Seq(Items)
               /\ \A x : x \in Decays!Range(r) <=> \E d \in D : x \in Decays!Range(map[d])
               /\ (\A d \in D : /\ Decays!IsInjective(map[d])
                                /\ \A c \in D \ {d} :
                                     Decays!Range(map[c]) \cap Decays!Range(map[d]) = {})
                    => Decays!IsInjective(r)
<1> DEFINE ss == DueBuckets(map, D)
           r == Decays!FlattenSeq(ss)
<1>1. /\ DOMAIN map \subseteq 0..(now + Longest)
      /\ \A d \in DOMAIN map : map[d] \in Seq(Items)
  BY BucketsAre
<1>2. \A d \in D : d \in Nat /\ d + 1 \in 1..(now + 1) /\ (d + 1) - 1 = d /\ map[d] \in Seq(Items)
  BY <1>1, LongestPositive
<1>3. <<>> \in Seq(Items) /\ Decays!Range(<<>>) = {} /\ Decays!IsInjective(<<>>)
  <2>1. DOMAIN <<>> = {}
    OBVIOUS
  <2> QED BY <2>1, RangeIs DEF Decays!IsInjective
<1>4. \A n \in 1..(now + 1) : ss[n] \in Seq(Items)
  BY <1>2, <1>3 DEF DueBuckets
<1>5. DOMAIN ss = 1..(now + 1)
      /\ \A n \in 1..(now + 1) : ss[n] = IF n - 1 \in D THEN map[n - 1] ELSE <<>>
  BY DEF DueBuckets
<1>6. ss \in Seq(Seq(Items)) /\ Len(ss) = now + 1
  <2>1. ss \in [1..(now + 1) -> Seq(Items)]
    BY <1>4 DEF DueBuckets
  <2>2. now + 1 \in Nat
    OBVIOUS
  <2> HIDE DEF ss
  <2> QED BY <2>1, <2>2
<1> HIDE DEF ss
<1>7. /\ r \in Seq(Items)
      /\ \A x : x \in Decays!Range(r) <=> \E k \in DOMAIN ss : x \in Decays!Range(ss[k])
      /\ Apart(ss) => Decays!IsInjective(r)
  <2>1. Len(ss) # 0
    BY <1>6
  <2> QED BY <1>6, <2>1, FlattenIs
<1> HIDE DEF r
<1>8. ASSUME NEW x
      PROVE  x \in Decays!Range(r) <=> \E d \in D : x \in Decays!Range(map[d])
  <2>1. ASSUME NEW k \in DOMAIN ss, x \in Decays!Range(ss[k])
        PROVE  \E d \in D : x \in Decays!Range(map[d])
    <3>1. k - 1 \in D /\ ss[k] = map[k - 1]
      BY <1>3, <1>5, <2>1
    <3> QED BY <2>1, <3>1
  <2>2. ASSUME NEW d \in D, x \in Decays!Range(map[d])
        PROVE  \E k \in DOMAIN ss : x \in Decays!Range(ss[k])
    <3>1. d + 1 \in DOMAIN ss /\ ss[d + 1] = map[d]
      BY <1>2, <1>5
    <3> QED BY <2>2, <3>1
  <2> QED BY <1>7, <2>1, <2>2
<1>9. ASSUME \A d \in D : /\ Decays!IsInjective(map[d])
                          /\ \A c \in D \ {d} :
                               Decays!Range(map[c]) \cap Decays!Range(map[d]) = {}
      PROVE  Apart(ss)
  <2>1. ASSUME NEW k \in DOMAIN ss PROVE Decays!IsInjective(ss[k])
    BY <1>3, <1>5, <1>9
  <2>2. ASSUME NEW k \in DOMAIN ss, NEW l \in DOMAIN ss, k # l
        PROVE  Decays!Range(ss[k]) \cap Decays!Range(ss[l]) = {}
    <3>1. CASE k - 1 \in D /\ l - 1 \in D
      <4>1. l - 1 \in D \ {k - 1}
        <5>1. k \in Int /\ l \in Int
          BY <1>5
        <5> QED BY <5>1, <2>2, <3>1
      <4>2. Decays!Range(map[l - 1]) \cap Decays!Range(map[k - 1]) = {}
        BY <4>1, <3>1, <1>9
      <4> QED BY <4>2, <3>1, <1>5
    <3>2. CASE ~(k - 1 \in D /\ l - 1 \in D)
      BY <1>3, <1>5, <3>2
    <3> QED BY <3>1, <3>2
  <2> QED BY <2>1, <2>2 DEF Apart
<1> QED BY <1>7, <1>8, <1>9 DEF r, ss

LEMMA FireKeeps ==
    ASSUME DecayInv, NEW e \in timers, Decays!Fire(e)
    PROVE  DecayInv'
<1> DEFINE D == {d \in DOMAIN decayMap : d <= now}
           later == DOMAIN decayMap \ D
           ss == DueBuckets(decayMap, D)
           r == Decays!FlattenSeq(ss)
           rest == [d \in later |-> decayMap[d]]
<1>1. DecayTyped /\ HoldsNothing /\ FirstCovered /\ EntriesAgree
  BY DEF DecayInv
<1>2. /\ now \in Nat /\ Decays!Fresh \in Worlds(now) /\ decayMap \in Buckets(now)
      /\ MaxTime \in Nat /\ now <= MaxTime /\ item \in [Items -> Attributes(now)]
  BY FreshTyped
<1>3. /\ decayPc = "idle" /\ timers' = timers \ {e} /\ tempItems' = r /\ decayMap' = rest
      /\ it' = IF later = {} THEN Decays!Unset ELSE Decays!Min(later)
      /\ decayPc' = "decaying" /\ item' = item /\ eventId' = eventId /\ now' = now
      /\ scripted' = scripted /\ undefined' = undefined
  BY DEF Decays!Fire, Decays!IsDue, DueBuckets
<1>4. /\ r \in Seq(Items)
      /\ \A x : x \in Decays!Range(r) <=> \E d \in D : x \in Decays!Range(decayMap[d])
      /\ (\A d \in D : /\ Decays!IsInjective(decayMap[d])
                       /\ \A c \in D \ {d} :
                            Decays!Range(decayMap[c]) \cap Decays!Range(decayMap[d]) = {})
           => Decays!IsInjective(r)
  <2>1. D = {d \in DOMAIN decayMap : d <= now}
    OBVIOUS
  <2>2. now \in Nat /\ decayMap \in Buckets(now)
    BY <1>2
  <2> HIDE DEF D
  <2> QED BY <2>1, <2>2, DueItems
<1>5. /\ rest \in Buckets(now) /\ DOMAIN rest = later
      /\ \A d \in later : rest[d] = decayMap[d] /\ d \in DOMAIN decayMap /\ d > now
      /\ later \in SUBSET (0..(now + Longest))
  <2>1. /\ DOMAIN decayMap \subseteq 0..(now + Longest)
        /\ \A d \in DOMAIN decayMap : decayMap[d] \in Seq(Items) /\ decayMap[d] # <<>>
    BY <1>2, BucketsAre
  <2>2. \A d \in later : d \in DOMAIN decayMap /\ d > now
    BY <2>1, <1>2, LongestPositive
  <2>3. DOMAIN rest = later /\ \A d \in later : rest[d] = decayMap[d]
    OBVIOUS
  <2>4. rest = [d \in DOMAIN rest |-> rest[d]]
    OBVIOUS
  <2> HIDE DEF rest
  <2>5. rest \in Buckets(now)
    BY <2>1, <2>2, <2>3, <2>4, <1>2, BucketsAre
  <2> QED BY <2>1, <2>2, <2>3, <2>5
<1> HIDE DEF r, ss, rest
<1> DEFINE v == [item |-> item, map |-> rest, timers |-> timers \ {e}, event |-> eventId]
<1>6. Decays!Fresh' = v
  BY <1>3 DEF Decays!Fresh
<1>7. v \in Worlds(now)
  <2>1. /\ timers \in SUBSET Events /\ IsFiniteSet(timers) /\ eventId \in Nat
    BY <1>2, FreshIs DEF Worlds, EventSets
  <2>2. timers \ {e} \in EventSets
    BY <2>1, FS_RemoveElement DEF EventSets
  <2> QED BY <2>1, <2>2, <1>2, <1>5 DEF Worlds
<1>8. it' \in (0..(MaxTime + Longest)) \cup {Decays!Unset}
      /\ (later # {} => it' = Decays!Min(later) /\ it' \in Nat)
  <2>1. ASSUME later # {} PROVE Decays!Min(later) \in 0..(now + Longest)
    <3>1. later \in SUBSET Nat
      BY <1>5, <1>2, LongestPositive
    <3>2. Decays!Min(later) \in later
      <4> HIDE DEF later
      <4> QED BY <3>1, <2>1, FirstTime
    <3> QED BY <3>2, <1>5
  <2>2. 0..(now + Longest) \subseteq 0..(MaxTime + Longest)
        /\ 0..(now + Longest) \subseteq Nat
    BY <1>2, LongestPositive
  <2> HIDE DEF later
  <2> QED BY <1>3, <2>1, <2>2
<1>9. DecayTyped'
  BY <1>1, <1>3, <1>4, <1>6, <1>7, <1>8 DEF DecayTyped
<1>10. HoldsNothing'
  BY <1>3 DEF HoldsNothing
<1>11. FirstCovered'
  <2>1. rest = <<>> <=> later = {}
    BY <1>5, <1>2, FirstOfMap
  <2>2. ASSUME later # {} PROVE ~(it' = Decays!Unset \/ Decays!Min(later) < it')
    BY <2>2, <1>8 DEF Decays!Unset
  <2>3. Decays!Fresh'.map = rest
    BY <1>6
  <2> HIDE DEF v, later
  <2> QED BY <2>1, <2>2, <2>3, <1>5 DEF FirstCovered, Covered
<1>12. EntriesAgree'
  <2> SUFFICES ASSUME scripted = 0
               PROVE  Decays!IsInjective(r) /\ AllAgree(v, Decays!Range(r))
    <3>1. AllAgree(v, Decays!Range(r)) => AllAgree(Decays!Fresh, Decays!Range(tempItems))'
      BY <1>3, <1>6 DEF AllAgree
    <3> QED BY <1>3, <3>1 DEF EntriesAgree
  <2>1. AllAgree(Decays!Fresh, {})
    <3>1. Decays!Range(tempItems) = {}
      BY <1>1, <1>3, RangeIs DEF HoldsNothing
    <3> QED BY <1>1, <3>1 DEF EntriesAgree
  <2>2. /\ \A d \in DOMAIN decayMap :
             /\ Decays!IsInjective(decayMap[d])
             /\ \A j \in Decays!Range(decayMap[d]) : item[j].state = "true" /\ item[j].due = d
        /\ \A j \in Items : item[j].state = "true" =>
             item[j].due \in DOMAIN decayMap /\ j \in Decays!Range(decayMap[item[j].due])
    BY <2>1, FreshIs DEF AllAgree
  <2>3. Decays!IsInjective(r)
    <3>1. \A d \in D : /\ Decays!IsInjective(decayMap[d])
                       /\ \A c \in D \ {d} :
                            Decays!Range(decayMap[c]) \cap Decays!Range(decayMap[d]) = {}
      BY <2>2
    <3> QED BY <1>4, <3>1
  <2>4. \A j \in Decays!Range(r) : item[j].state = "true" /\ item[j].due <= now /\ j \in Items
                                   /\ item[j].due \in D
    <3> TAKE j \in Decays!Range(r)
    <3>1. PICK d \in D : j \in Decays!Range(decayMap[d])
      BY <1>4
    <3>2. j \in Items
      <4>1. decayMap[d] \in Seq(Items)
        BY <1>2, BucketsAre
      <4> QED BY <3>1, <4>1, RangeIs
    <3> QED BY <3>1, <3>2, <2>2
  <2>5. \A d \in later : \A j \in Decays!Range(rest[d]) :
          j \notin Decays!Range(r) /\ item[j].state = "true" /\ item[j].due = d
    BY <1>5, <2>2, <2>4
  <2>6. \A j \in Items : item[j].state = "true" =>
          \/ j \in Decays!Range(r)
          \/ item[j].due \in later /\ j \in Decays!Range(rest[item[j].due])
    <3> TAKE j \in Items
    <3>1. CASE item[j].due \in D
      BY <1>4, <2>2, <3>1
    <3>2. CASE item[j].due \notin D
      BY <1>5, <2>2, <3>2
    <3> QED BY <3>1, <3>2
  <2> HIDE DEF later, D
  <2> QED BY <1>5, <2>2, <2>3, <2>4, <2>5, <2>6 DEF AllAgree
<1> QED BY <1>9, <1>10, <1>11, <1>12 DEF DecayInv
(* ... each of their items is decayed, ...                                  *)
LEMMA DecayNextKeeps ==
    ASSUME DecayInv, Decays!DecayNext
    PROVE  DecayInv'
<1> DEFINE i == Head(tempItems)
           w == Decays!Fresh
           x == w.item[i]
           y == Decays!DecayingFalse(x)
           u == [w EXCEPT !.item[i] = y]
           z == [y EXCEPT !.duration = Decays!Remaining(x)]
           q == [w EXCEPT !.item[i] = z]
<1>1. DecayTyped /\ HoldsNothing /\ FirstCovered /\ EntriesAgree
  BY DEF DecayInv
<1>2. /\ decayPc # "idle" /\ tempItems # <<>> /\ tempItems' = Tail(tempItems)
      /\ decayPc' = "scripts" /\ now' = now /\ it' = it /\ scripted' = scripted
      /\ undefined' = undefined
  BY DEF Decays!DecayNext
<1>3. /\ now \in Nat /\ it \in Int /\ w \in Worlds(now) /\ tempItems \in Seq(Items)
      /\ w.item = item
  BY FreshTyped, FreshIs
<1>4. /\ i \in Items /\ Tail(tempItems) \in Seq(Items) /\ i \in Decays!Range(tempItems)
      /\ Decays!Range(Tail(tempItems)) \subseteq Decays!Range(tempItems)
      /\ Decays!IsInjective(tempItems) =>
           /\ Decays!IsInjective(Tail(tempItems))
           /\ Decays!Range(Tail(tempItems)) = Decays!Range(tempItems) \ {i}
  <2> DEFINE s == Tail(tempItems)
  <2>1. /\ Len(tempItems) \in Nat \ {0} /\ DOMAIN tempItems = 1..Len(tempItems)
        /\ i = tempItems[1] /\ i \in Items
    BY <1>2, <1>3
  <2>2. /\ s \in Seq(Items) /\ DOMAIN s = 1..(Len(tempItems) - 1)
        /\ \A k \in 1..(Len(tempItems) - 1) : s[k] = tempItems[k + 1]
    BY <1>2, <1>3
  <2> HIDE DEF s, i
  <2>3. \A k \in DOMAIN s : k + 1 \in DOMAIN tempItems /\ s[k] = tempItems[k + 1] /\ k + 1 # 1
    BY <2>1, <2>2
  <2>4. 1 \in DOMAIN tempItems
    BY <2>1
  <2>5. Decays!Range(s) \subseteq Decays!Range(tempItems)
    BY <2>3, RangeIs
  <2>6. ASSUME Decays!IsInjective(tempItems)
        PROVE  Decays!IsInjective(s) /\ Decays!Range(s) = Decays!Range(tempItems) \ {i}
    <3>1. \A k, l \in DOMAIN tempItems : tempItems[k] = tempItems[l] => k = l
      BY <2>6 DEF Decays!IsInjective
    <3>2. \A k, l \in DOMAIN s : s[k] = s[l] => k = l
      <4> TAKE k, l \in DOMAIN s
      <4>1. s[k] = s[l] => k + 1 = l + 1
        BY <2>3, <3>1
      <4> QED BY <4>1, <2>1, <2>2
    <3>3. \A k \in DOMAIN s : s[k] # i
      BY <2>1, <2>3, <2>4, <3>1
    <3>4. ASSUME NEW k \in DOMAIN tempItems, tempItems[k] # i
          PROVE  tempItems[k] \in Decays!Range(s)
      <4>1. k - 1 \in DOMAIN s /\ (k - 1) + 1 = k
        BY <2>1, <2>2, <3>4
      <4>2. s[k - 1] = tempItems[k]
        BY <4>1, <2>3
      <4> QED BY <4>1, <4>2, RangeIs
    <3>5. Decays!Range(s) = Decays!Range(tempItems) \ {i}
      BY <2>5, <3>3, <3>4, RangeIs
    <3> QED BY <3>2, <3>5 DEF Decays!IsInjective
  <2> QED BY <2>1, <2>2, <2>4, <2>5, <2>6, RangeIs DEF s
<1>5. x \in Attributes(now)
  <2> HIDE DEF i, w
  <2> QED BY <1>3, <1>4, AttributesAre
<1>6. /\ y \in Attributes(now) /\ y.state = "false" /\ z \in Attributes(now)
      /\ z.state = "false"
  <2>1. Decays!Remaining(x) \in Spans /\ Decays!Unset \in Dues(now)
    BY <1>3, <1>5, RemainingTyped DEF Dues
  <2> HIDE DEF x
  <2> QED BY <1>5, <2>1 DEF Decays!DecayingFalse, Attributes
<1>7. \/ \E end \in Decays!Outcomes : Decays!Becomes(Decays!DecayItem(u, i, end))
      \/ Decays!Becomes(q)
  <2>1. u = [w EXCEPT !.item[i] = Decays!DecayingFalse(item[i])]
    BY <1>3
  <2>2. q = [[w EXCEPT !.item[i] = Decays!DecayingFalse(item[i])]
               EXCEPT !.item[i].duration = Decays!Remaining(item[i])]
    <3>1. u.item = [w.item EXCEPT ![i] = y] /\ u.item[i] = y /\ u = [w EXCEPT !.item = u.item]
      <4> HIDE DEF y, i
      <4> QED BY <1>3, <1>4 DEF Worlds
    <3>2. [u EXCEPT !.item[i].duration = Decays!Remaining(x)] = [u EXCEPT !.item[i] = z]
      <4> HIDE DEF u
      <4> QED BY <3>1
    <3>3. [u EXCEPT !.item[i] = z] = q
      <4> HIDE DEF z, i, y
      <4> QED BY <1>3, <1>4, <3>1 DEF Worlds
    <3> QED BY <3>2, <3>3, <1>3, <2>1
  <2> QED BY <2>1, <2>2, Zenon DEF Decays!DecayNext
<1> HIDE DEF y, z, x
<1>8. /\ Moved(w, u) /\ u.item[i] = y /\ Moved(w, q) /\ q.item[i] = z
      /\ \A held, spot : Agrees(w, held, i, spot) =>
           Agrees(u, held, i, spot) /\ Agrees(q, held, i, spot)
  <2> HIDE DEF w, i
  <2>1. now \in Nat /\ it \in Int /\ w \in Worlds(now) /\ i \in Items
    BY <1>3, <1>4
  <2>2. /\ Moved(w, u) /\ u.item[i] = y
        /\ \A held, spot : Agrees(w, held, i, spot) => Agrees(u, held, i, spot)
    BY <2>1, <1>6, AttributesMove
  <2>3. /\ Moved(w, q) /\ q.item[i] = z
        /\ \A held, spot : Agrees(w, held, i, spot) => Agrees(q, held, i, spot)
    BY <2>1, <1>6, AttributesMove
  <2> HIDE DEF u, q
  <2> QED BY <2>2, <2>3
<1>9. PICK v : /\ Decays!Becomes(v) /\ Moved(w, v)
               /\ \A held : Agrees(w, held, i, Decays!Unset) => Settled(v, held, i)
  <2> HIDE DEF w, i, u, q
  <2>1. CASE Decays!Becomes(q)
    <3>1. Decays!Unset \in Dues(now)
      BY DEF Dues
    <3>2. q.item[i].state # "true"
      BY <1>6, <1>8
    <3>3. \A held : Agrees(w, held, i, Decays!Unset) => Settled(q, held, i)
      BY <3>1, <3>2, <1>8, Zenon DEF Settled
    <3> QED BY <2>1, <3>3, <1>8
  <2>2. CASE \E end \in Decays!Outcomes : Decays!Becomes(Decays!DecayItem(u, i, end))
    <3>1. PICK end \in Decays!Outcomes : Decays!Becomes(Decays!DecayItem(u, i, end))
      BY <2>2
    <3> DEFINE v == Decays!DecayItem(u, i, end)
    <3>2. u \in Worlds(now) /\ u.item[i].state # "true"
      BY <1>6, <1>8 DEF Moved
    <3>3. /\ Moved(u, v)
          /\ \A held : (/\ Agrees(u, held, i, Decays!Unset)
                        /\ u.item[i].state # "true") => Settled(v, held, i)
      BY <1>3, <1>4, <3>2, DecayItemSettles
    <3> HIDE DEF v
    <3>4. Moved(w, v)
      BY <1>8, <3>3 DEF Moved
    <3>5. \A held : Agrees(w, held, i, Decays!Unset) => Settled(v, held, i)
      BY <1>8, <3>2, <3>3
    <3> QED BY <3>1, <3>4, <3>5 DEF v
  <2> QED BY <1>7, <2>1, <2>2
<1>10. Decays!Fresh' = v /\ v \in Worlds(now)
  BY <1>9, BecomesIs DEF Moved
<1>11. DecayTyped'
  BY <1>1, <1>2, <1>4, <1>10 DEF DecayTyped
<1>12. HoldsNothing'
  BY <1>2 DEF HoldsNothing
<1>13. FirstCovered'
  <2>1. undefined \/ Covered(v)
    BY <1>1, <1>9 DEF FirstCovered, Moved
  <2>2. Covered(v) => Covered(v)'
    BY <1>2 DEF Covered, InTime
  <2> QED BY <1>2, <1>10, <2>1, <2>2 DEF FirstCovered
<1>14. EntriesAgree'
  <2> DEFINE held == Decays!Range(tempItems)
             left == Decays!Range(Tail(tempItems))
  <2>1. ASSUME scripted = 0
        PROVE  Decays!IsInjective(Tail(tempItems)) /\ AllAgree(v, left)
    <3>1. Decays!IsInjective(tempItems) /\ AllAgree(w, held)
      BY <1>1, <2>1 DEF EntriesAgree
    <3>2. left = held \ {i} /\ i \in held /\ Decays!IsInjective(Tail(tempItems))
      BY <3>1, <1>4
    <3> HIDE DEF held, left, w, i
    <3>3. BucketsAgree(w, left, i, Decays!Unset)
      BY <3>1, <3>2 DEF AllAgree, BucketsAgree
    <3>4. ItemsAgree(w, left, i) /\ HeldAgree(w, left, i)
      BY <3>1, <3>2 DEF AllAgree, ItemsAgree, HeldAgree
    <3>5. Agrees(w, left, i, Decays!Unset)
      BY <3>3, <3>4 DEF Agrees, Placed
    <3>6. Settled(v, left, i)
      BY <1>9, <3>5
    <3> QED BY <1>3, <1>4, <1>10, <3>2, <3>6, SettledAgrees
  <2>2. AllAgree(v, left) => AllAgree(Decays!Fresh, Decays!Range(tempItems))'
    BY <1>2, <1>10 DEF AllAgree
  <2> QED BY <1>2, <2>1, <2>2 DEF EntriesAgree
<1> QED BY <1>11, <1>12, <1>13, <1>14 DEF DecayInv
(* ... and the iterator says when to come back.                             *)
LEMMA RearmKeeps ==
    ASSUME DecayInv, Decays!Rearm
    PROVE  DecayInv'
<1> DEFINE w == Decays!Fresh
<1>1. DecayTyped /\ HoldsNothing /\ FirstCovered /\ EntriesAgree
  BY DEF DecayInv
<1>2. /\ tempItems = <<>> /\ decayPc' = "idle" /\ it' = Decays!Unset /\ now' = now
      /\ tempItems' = tempItems /\ scripted' = scripted
      /\ undefined' = (undefined \/ (it # Decays!Unset /\ it \notin DOMAIN decayMap))
  BY DEF Decays!Rearm
<1>3. /\ now \in Nat /\ it \in Int /\ w \in Worlds(now) /\ decayMap \in Buckets(now)
      /\ MinTicks \in Nat /\ w.map = decayMap /\ w.timers = timers /\ w.item = item
  BY FreshTyped, FreshIs
<1>4. \/ it = Decays!Unset /\ Decays!Becomes(w)
      \/ it \in DOMAIN decayMap /\ Decays!Becomes(Decays!Armed(w, it - now))
      \/ /\ it # Decays!Unset /\ it \notin DOMAIN decayMap
         /\ \E d \in Durations \cup {MaxTime} : Decays!Becomes(Decays!Armed(w, d))
  BY DEF Decays!Rearm, Decays!Rearmed
<1> HIDE DEF w
<1>5. PICK v : /\ Decays!Becomes(v) /\ v \in Worlds(now) /\ v.item = w.item /\ v.map = w.map
               /\ \/ it = Decays!Unset /\ v = w
                  \/ v = Decays!Armed(w, it - now) /\ it \in DOMAIN decayMap
                  \/ it # Decays!Unset /\ it \notin DOMAIN decayMap
  <2>1. CASE it = Decays!Unset /\ Decays!Becomes(w)
    BY <1>3, <2>1
  <2>2. CASE it \in DOMAIN decayMap /\ Decays!Becomes(Decays!Armed(w, it - now))
    <3> DEFINE v == Decays!Armed(w, it - now)
    <3>1. it - now \in Int
      BY <1>3
    <3>2. v \in Worlds(now) /\ v.item = w.item /\ v.map = w.map
      BY <1>3, <3>1, ArmedIs
    <3> HIDE DEF v
    <3> QED BY <2>2, <3>2 DEF v
  <2>3. CASE /\ it # Decays!Unset /\ it \notin DOMAIN decayMap
             /\ \E d \in Durations \cup {MaxTime} : Decays!Becomes(Decays!Armed(w, d))
    <3>1. PICK d \in Durations \cup {MaxTime} : Decays!Becomes(Decays!Armed(w, d))
      BY <2>3
    <3> DEFINE v == Decays!Armed(w, d)
    <3>2. d \in Int
      BY DecayAssumption
    <3>3. v \in Worlds(now) /\ v.item = w.item /\ v.map = w.map
      BY <1>3, <3>2, ArmedIs
    <3> HIDE DEF v
    <3> QED BY <2>3, <3>1, <3>3 DEF v
  <2> QED BY <1>4, <2>1, <2>2, <2>3
<1>6. Decays!Fresh' = v
  BY <1>5, BecomesIs
<1>7. DecayTyped'
  <2>1. undefined' \in BOOLEAN
    BY <1>2, Zenon
  <2> QED BY <1>1, <1>2, <1>5, <1>6, <2>1 DEF DecayTyped
<1>8. HoldsNothing'
  BY <1>2 DEF HoldsNothing
<1>9. FirstCovered'
  <2>1. ASSUME ~undefined, it = Decays!Unset \/ it \in DOMAIN decayMap, decayMap # <<>>
        PROVE  InTime(decayMap, v.timers)
    <3> DEFINE first == Decays!Min(DOMAIN decayMap)
    <3>0. Covered(w)
      BY <1>1, <2>1 DEF FirstCovered, w
    <3>1. CASE it = Decays!Unset
      <4>1. v = w
        BY <1>3, <1>5, <3>1, BucketsAre DEF Decays!Unset
      <4> QED BY <1>3, <2>1, <3>0, <3>1, <4>1 DEF Covered
    <3>2. CASE it \in DOMAIN decayMap
      <4>1. first \in Nat /\ first <= it
        BY <1>3, <2>1, <3>2, FirstOfMap
      <4>2. it # Decays!Unset /\ it - now \in Int
        BY <1>3, <3>2, BucketsAre DEF Decays!Unset
      <4>3. v = Decays!Armed(w, it - now)
        BY <1>5, <3>2, <4>2
      <4>4. /\ w.timers \subseteq v.timers
            /\ \E e \in v.timers : e.due = now + Decays!Max({MinTicks, it - now})
            /\ now + Decays!Max({MinTicks, it - now})
                 = IF MinTicks >= it - now THEN now + MinTicks ELSE now + (it - now)
        BY <1>3, <4>2, <4>3, ArmedIs
      <4>5. CASE first < it
        <5>1. InTime(decayMap, w.timers)
          BY <1>3, <2>1, <3>0, <4>5 DEF Covered
        <5> QED BY <4>4, <5>1 DEF InTime
      <4>6. CASE first = it
        <5>1. PICK e \in v.timers : e.due = now + Decays!Max({MinTicks, it - now})
          BY <4>4
        <5>2. e.due <= (IF first >= now + MinTicks THEN first ELSE now + MinTicks)
          BY <1>3, <4>4, <4>6, <5>1
        <5> QED BY <1>3, <2>1, <5>2, InTimeIs
      <4> QED BY <1>3, <4>1, <4>5, <4>6
    <3> QED BY <2>1, <3>1, <3>2
  <2>2. InTime(decayMap, v.timers) => InTime(Decays!Fresh.map, Decays!Fresh.timers)'
    BY <1>2, <1>3, <1>5, <1>6 DEF InTime
  <2> QED BY <1>2, <1>3, <1>5, <1>6, <2>1, <2>2 DEF FirstCovered, Covered
<1>10. EntriesAgree'
  <2>1. AllAgree(w, Decays!Range(tempItems)) => AllAgree(Decays!Fresh, Decays!Range(tempItems))'
    BY <1>2, <1>5, <1>6 DEF AllAgree
  <2> QED BY <1>1, <1>2, <2>1 DEF EntriesAgree, w
<1> QED BY <1>7, <1>8, <1>9, <1>10 DEF DecayInv

LEMMA InitDecayInv == Decays!Init => DecayInv
<1> SUFFICES ASSUME Decays!Init PROVE DecayInv
  OBVIOUS
<1>1. /\ item \in [Items -> {[alive |-> TRUE, decays |-> TRUE, duration |-> d,
                              state |-> "none", due |-> Decays!Unset] : d \in Durations}]
      /\ decayMap = <<>> /\ timers = {} /\ eventId = 0
      /\ now = 0 /\ decayPc = "idle" /\ tempItems = <<>> /\ it = Decays!Unset
      /\ scripted = 0 /\ undefined = FALSE
  BY DEF Decays!Init
<1>2. \A j \in Items : item[j] \in Attributes(now) /\ item[j].state = "none"
  <2> TAKE j \in Items
  <2>1. PICK d \in Durations :
          item[j] = [alive |-> TRUE, decays |-> TRUE, duration |-> d,
                     state |-> "none", due |-> Decays!Unset]
    BY <1>1
  <2>2. d \in Spans /\ Decays!Unset \in Dues(now)
    BY LongestPositive DEF Spans, Dues
  <2> QED BY <2>1, <2>2 DEF Attributes
<1>3. <<>> \in Buckets(now)
  <2>1. DOMAIN <<>> = {} /\ <<>> = [d \in DOMAIN <<>> |-> <<>>[d]]
    OBVIOUS
  <2> QED BY <1>1, <2>1, BucketsAre
<1>4. Decays!Fresh \in Worlds(now)
  <2>1. {} \in EventSets
    BY FS_EmptySet DEF EventSets
  <2>2. item \in [Items -> Attributes(now)]
    BY <1>1, <1>2
  <2> QED BY <1>1, <1>3, <2>1, <2>2 DEF Decays!Fresh, Worlds
<1>5. DecayTyped
  <2>1. 0 \in 0..MaxTime /\ 0 \in 0..MaxScripts
    BY DecayAssumption
  <2>2. undefined \in BOOLEAN
    BY <1>1, Zenon
  <2>3. tempItems \in Seq(Items)
    BY <1>1
  <2> QED BY <1>1, <1>4, <2>1, <2>2, <2>3 DEF DecayTyped
<1>6. HoldsNothing /\ FirstCovered
  BY <1>1, FreshIs DEF HoldsNothing, FirstCovered, Covered
<1>7. EntriesAgree
  <2>1. DOMAIN <<>> = {} /\ Decays!Range(<<>>) = {} /\ Decays!IsInjective(<<>>)
    <3>1. DOMAIN <<>> = {}
      OBVIOUS
    <3> QED BY <3>1, RangeIs DEF Decays!IsInjective
  <2> QED BY <1>1, <1>2, <2>1, FreshIs DEF EntriesAgree, AllAgree
<1> QED BY <1>5, <1>6, <1>7 DEF DecayInv

LEMMA NextDecayInv == DecayInv /\ [Decays!Next]_(Decays!vars) => DecayInv'
<1> SUFFICES ASSUME DecayInv, [Decays!Next]_(Decays!vars) PROVE DecayInv'
  OBVIOUS
<1>1. CASE UNCHANGED Decays!vars
  <2>1. /\ UNCHANGED <<now, decayPc, tempItems, it, scripted, undefined>>
        /\ UNCHANGED Decays!Fresh
    BY <1>1 DEF Decays!vars, Decays!state, Decays!Fresh
  <2> QED BY <2>1 DEF DecayInv, DecayTyped, HoldsNothing, FirstCovered, Covered, InTime,
                      EntriesAgree, AllAgree
<1>2. CASE \E e \in timers : Decays!Fire(e)
  BY <1>2, FireKeeps
<1>3. CASE \E i \in Items : Decays!Start(i) \/ Decays!Stop(i) \/ Decays!Transform(i)
                            \/ Decays!Vanish(i)
  BY <1>3, StartKeeps, StopKeeps, TransformKeeps, VanishKeeps
<1>4. CASE Decays!DecayNext \/ Decays!Rearm \/ Decays!Tick
  BY <1>4, DecayNextKeeps, RearmKeeps, ClockKeeps
<1> QED BY <1>1, <1>2, <1>3, <1>4 DEF Decays!Next, Decays!Runs

LEMMA DecayInvKept == DecayInv => DecayKept
<1> SUFFICES ASSUME DecayInv PROVE DecayKept
  OBVIOUS
<1>1. DecayTyped /\ HoldsNothing /\ FirstCovered /\ EntriesAgree
  BY DEF DecayInv
<1>2. /\ now \in Nat /\ now <= MaxTime /\ MaxTime \in Nat /\ decayMap \in Buckets(now)
      /\ item \in [Items -> Attributes(now)] /\ Decays!Fresh \in Worlds(now)
  BY FreshTyped
<1> DEFINE all == 0..(MaxTime + Longest)
<1>3. /\ all = Decays!Times /\ 0..Longest \subseteq all /\ 0..(now + Longest) \subseteq all
  BY <1>2, LongestPositive DEF Decays!Times, Longest
<1>4. Decays!TypeOK
  <2>1. item \in [Items -> [alive : BOOLEAN, decays : BOOLEAN,
                            duration : Decays!Times \cup {Decays!Unset},
                            state : {"none", "false", "pending", "true", "stopping"},
                            due : Decays!Times \cup {Decays!Unset}]]
    <3>1. Spans \subseteq Decays!Times \cup {Decays!Unset}
          /\ Dues(now) \subseteq Decays!Times \cup {Decays!Unset}
      BY <1>3 DEF Spans, Dues
    <3>2. Attributes(now) \subseteq
            [alive : BOOLEAN, decays : BOOLEAN, duration : Decays!Times \cup {Decays!Unset},
             state : {"none", "false", "pending", "true", "stopping"},
             due : Decays!Times \cup {Decays!Unset}]
      BY <3>1 DEF Attributes
    <3> QED BY <1>2, <3>2
  <2>2. /\ DOMAIN decayMap \subseteq Decays!Times
        /\ \A d \in DOMAIN decayMap : decayMap[d] \in Seq(Items) /\ decayMap[d] # <<>>
    BY <1>2, <1>3, BucketsAre
  <2>3. (\A e \in timers : e.id \in Nat \ {0} /\ e.due \in Nat) /\ eventId \in Nat
    BY <1>2, FreshIs DEF Worlds, EventSets, Events
  <2>4. it \in Decays!Times \cup {Decays!Unset}
    BY <1>1, <1>3 DEF DecayTyped
  <2> QED BY <1>1, <2>1, <2>2, <2>3, <2>4 DEF DecayTyped, Decays!TypeOK
<1>5. Decays!MapMatchesItems
  BY <1>1, FreshIs DEF EntriesAgree, AllAgree, Decays!MapMatchesItems
<1>6. Decays!TimerArmed
  BY <1>1, FreshIs DEF HoldsNothing, FirstCovered, Covered, InTime, Decays!TimerArmed
<1> QED BY <1>4, <1>5, <1>6 DEF DecayKept

(* For any items, durations and bounds: what decays is in the map under its *)
(* time or about to be decayed, the map holds nothing else, and an event    *)
(* comes in time for the first of it (Decay::startDecay, stopDecay,         *)
(* checkDecay), as long as no script acts inside checkDecay or leaves its   *)
(* iterator dangling, respectively.                                         *)
THEOREM DecaysAreKept == Decays!Spec => []DecayKept
<1>1. Decays!Init => DecayInv
  BY InitDecayInv
<1>2. DecayInv /\ [Decays!Next]_(Decays!vars) => DecayInv'
  BY NextDecayInv
<1>3. DecayInv => DecayKept
  BY DecayInvKept
<1> QED BY <1>1, <1>2, <1>3, PTL DEF Decays!Spec

-----------------------------------------------------------------------------
(* The waiting list.  A fold from the left over n elements takes the last   *)
(* one last.                                                                *)
Latest(n) == [s \in SUBSET (1..n) |-> Line!Max(s)]

LEMMA LatestPick ==
    ASSUME NEW n \in Nat
    PROVE  /\ Picks(Latest(n), 1..n) /\ IsFiniteSet(1..n)
           /\ \A s \in SUBSET (1..n) : s # {} =>
                Latest(n)[s] = Line!Max(s) /\ \A k \in s : k <= Latest(n)[s]
<1>1. ASSUME NEW s \in SUBSET (1..n), s # {}
      PROVE  Line!Max(s) \in s /\ \A k \in s : Line!Max(s) >= k
  <2>1. s \in SUBSET (0..n)
    OBVIOUS
  <2>2. PICK e \in s : \A k \in s : e >= k
    BY <2>1, <1>1, GreatestNumber
  <2> QED BY <2>2 DEF Line!Max
<1>2. \A s \in SUBSET (1..n) : s # {} => Latest(n)[s] = Line!Max(s)
  BY DEF Latest
<1>3. Picks(Latest(n), 1..n)
  BY <1>1, <1>2 DEF Picks
<1>4. ASSUME NEW s \in SUBSET (1..n), s # {}, NEW k \in s PROVE k <= Latest(n)[s]
  <2> DEFINE m == Line!Max(s)
  <2>1. m \in s /\ m >= k /\ Latest(n)[s] = m
    BY <1>1, <1>2, <1>4
  <2> HIDE DEF m
  <2>2. m \in Nat /\ k \in Nat
    BY <2>1
  <2> QED BY <2>1, <2>2
<1>5. IsFiniteSet(1..n)
  BY FS_Interval
<1>6. \A s \in SUBSET (1..n) : s # {} => \A k \in s : k <= Latest(n)[s]
  BY <1>4
<1> QED BY <1>2, <1>3, <1>5, <1>6

(* What erasing has made of the places s of a list: who is not gone, in the *)
(* order of the list.                                                       *)
Thinned(C, list, gone, s) ==
    {w \in Seq(C) :
        /\ \A i \in s : list[i] \notin gone => \E k \in 1..Len(w) : w[k] = list[i]
        /\ \A k \in 1..Len(w) : w[k] \notin gone /\ \E i \in s : w[k] = list[i]
        /\ \A k \in 1..Len(w), l \in 1..Len(w) : l < k =>
              \E i \in s, j \in s : i < j /\ w[l] = list[i] /\ w[k] = list[j]}

LEMMA ThinnedOne ==
    ASSUME NEW C, NEW list \in Seq(C), NEW gone, NEW s \in SUBSET (1..Len(list)), NEW m \in s,
           \A k \in s : k <= m, NEW v \in Thinned(C, list, gone, s \ {m})
    PROVE  (IF list[m] \in gone THEN v ELSE Append(v, list[m])) \in Thinned(C, list, gone, s)
<1>1. /\ v \in Seq(C)
      /\ \A i \in s \ {m} : list[i] \notin gone => \E k \in 1..Len(v) : v[k] = list[i]
      /\ \A k \in 1..Len(v) : v[k] \notin gone /\ \E i \in s \ {m} : v[k] = list[i]
      /\ \A k \in 1..Len(v), l \in 1..Len(v) : l < k =>
            \E i \in s \ {m}, j \in s \ {m} : i < j /\ v[l] = list[i] /\ v[k] = list[j]
  BY DEF Thinned
<1>2. CASE list[m] \in gone
  <2>1. \A i \in s : list[i] \notin gone => i \in s \ {m}
    BY <1>2
  <2>2. v \in Thinned(C, list, gone, s)
    BY <1>1, <2>1 DEF Thinned
  <2> QED BY <1>2, <2>2
<1>3. CASE list[m] \notin gone
  <2> DEFINE w == Append(v, list[m])
             n == Len(v)
  <2>1. list[m] \in C /\ n \in Nat
    BY <1>1
  <2>2. /\ w \in Seq(C) /\ Len(w) = n + 1 /\ w[n + 1] = list[m]
        /\ \A k \in 1..n : w[k] = v[k]
    BY <1>1, <2>1
  <2>3. \A k \in 1..(n + 1) : k \in 1..n \/ k = n + 1
    BY <2>1
  <2>4. \A k \in 1..n : k \in 1..(n + 1)
    BY <2>1
  <2> HIDE DEF w, n
  <2>5. ASSUME NEW i \in s, list[i] \notin gone PROVE \E k \in 1..(n + 1) : w[k] = list[i]
    <3>1. CASE i = m
      BY <3>1, <2>1, <2>2
    <3>2. CASE i # m
      BY <3>2, <1>1, <2>2, <2>4, <2>5 DEF n
    <3> QED BY <3>1, <3>2
  <2>6. ASSUME NEW k \in 1..(n + 1) PROVE w[k] \notin gone /\ \E i \in s : w[k] = list[i]
    <3>1. CASE k \in 1..n
      BY <3>1, <1>1, <2>2 DEF n
    <3>2. CASE k = n + 1
      BY <3>2, <1>3, <2>2
    <3> QED BY <3>1, <3>2, <2>3
  <2>7. ASSUME NEW k \in 1..(n + 1), NEW l \in 1..(n + 1), l < k
        PROVE  \E i \in s, j \in s : i < j /\ w[l] = list[i] /\ w[k] = list[j]
    <3>1. l \in 1..n
      BY <2>1, <2>7
    <3>2. CASE k \in 1..n
      <4>1. \E i \in s \ {m}, j \in s \ {m} : i < j /\ v[l] = list[i] /\ v[k] = list[j]
        BY <3>1, <3>2, <1>1, <2>7 DEF n
      <4> QED BY <4>1, <3>1, <3>2, <2>2
    <3>3. CASE k = n + 1
      <4>1. PICK i \in s \ {m} : v[l] = list[i]
        BY <3>1, <1>1 DEF n
      <4>2. i < m
        <5>1. i \in Nat /\ m \in Nat /\ i <= m /\ i # m
          OBVIOUS
        <5> QED BY <5>1
      <4> QED BY <4>1, <4>2, <3>1, <3>3, <2>2
    <3> QED BY <3>2, <3>3, <2>3
  <2>8. w \in Thinned(C, list, gone, s)
    <3> DEFINE N == 1..(n + 1)
    <3>1. N = 1..Len(w)
      BY <2>2
    <3>2. /\ \A i \in s : list[i] \notin gone => \E k \in N : w[k] = list[i]
          /\ \A k \in N : w[k] \notin gone /\ \E i \in s : w[k] = list[i]
      BY <2>5, <2>6
    <3>3. \A k \in N, l \in N : l < k =>
             \E i \in s, j \in s : i < j /\ w[l] = list[i] /\ w[k] = list[j]
      BY <2>7
    <3> HIDE DEF N
    <3> QED BY <2>2, <3>1, <3>2, <3>3 DEF Thinned
  <2> QED BY <1>3, <2>8 DEF w
<1> QED BY <1>2, <1>3

(* list.erase, as often as needed.                                          *)
LEMMA Thins ==
    ASSUME NEW C, NEW list \in Seq(C), NEW gone
    PROVE  Line!Without(list, gone) \in Thinned(C, list, gone, 1..Len(list))
<1> DEFINE n == Len(list)
           D == 1..n
           c == Latest(n)
           base == <<>>
           F(v, p) == IF p \in gone THEN v ELSE Append(v, p)
           op == [p \in D \X Seq(C) |-> F(p[2], list[p[1]])]
           Inv == [s \in SUBSET D |-> Thinned(C, list, gone, s)]
           P(g) == g = [s \in SUBSET D |-> IF s = {} THEN base ELSE
                          F(g[s \ {Line!Max(s)}], list[Line!Max(s)])]
           iter == CHOOSE g : P(g)
<1>0. n \in Nat
  OBVIOUS
<1>1. /\ Picks(c, D) /\ IsFiniteSet(D)
      /\ \A s \in SUBSET D : s # {} => c[s] = Line!Max(s) /\ \A k \in s : k <= c[s]
  BY <1>0, LatestPick
<1>2. \A s \in SUBSET D : s # {} => c[s] \in s
  BY <1>1 DEF Picks
<1> HIDE DEF c
<1>3. ASSUME NEW s \in SUBSET D, s # {}, NEW v \in Inv[s \ {c[s]}]
      PROVE  /\ c[s] = Line!Max(s) /\ c[s] \in D /\ s \ {c[s]} \in SUBSET D
             /\ v \in Seq(C) /\ F(v, list[Line!Max(s)]) \in Inv[s]
  <2> DEFINE m == Line!Max(s)
  <2>1. c[s] = m /\ m \in s /\ m \in D /\ s \ {m} \in SUBSET D /\ \A k \in s : k <= m
    BY <1>1, <1>2, <1>3
  <2> HIDE DEF m
  <2>2. v \in Thinned(C, list, gone, s \ {m})
    BY <2>1
  <2>3. F(v, list[m]) \in Thinned(C, list, gone, s)
    BY <2>1, <2>2, ThinnedOne
  <2>4. v \in Seq(C)
    BY <2>2 DEF Thinned
  <2>5. F(v, list[m]) \in Inv[s]
    BY <2>3
  <2> HIDE DEF Inv, F
  <2> QED BY <2>1, <2>4, <2>5 DEF m
<1>4. base \in Inv[{}]
  <2>1. {} \in SUBSET D
    OBVIOUS
  <2>2. base \in Thinned(C, list, gone, {})
    BY DEF Thinned
  <2> QED BY <2>1, <2>2
<1> HIDE DEF base
<1>5. \E g : P(g)
  <2>1. \A s \in SUBSET D : Inv[s] \subseteq Seq(C)
    BY DEF Thinned
  <2>2. \A i \in D, v \in Seq(C) : op[<<i, v>>] = F(v, list[i])
    OBVIOUS
  <2>3. ASSUME NEW s \in SUBSET D, s # {}, NEW v \in Inv[s \ {c[s]}]
        PROVE  op[<<c[s], v>>] \in Inv[s]
    <3>1. /\ c[s] \in D /\ v \in Seq(C) /\ c[s] = Line!Max(s)
          /\ F(v, list[Line!Max(s)]) \in Inv[s]
      BY <1>3, <2>3
    <3> HIDE DEF Inv, op, F
    <3> QED BY <3>1, <2>2
  <2> HIDE DEF Inv, op, D, F
  <2>4. PICK h : Folds(h, D, c, op, base) /\ \A s \in SUBSET D : h[s] \in Inv[s]
    BY <1>1, <1>4, <2>1, <2>3, FoldWithin
  <2>5. ASSUME NEW s \in SUBSET D, s # {}
        PROVE  op[<<c[s], h[s \ {c[s]}]>>] = F(h[s \ {Line!Max(s)}], list[Line!Max(s)])
    <3>1. s \ {c[s]} \in SUBSET D
      OBVIOUS
    <3>2. h[s \ {c[s]}] \in Inv[s \ {c[s]}]
      BY <2>4, <3>1
    <3>3. c[s] = Line!Max(s) /\ c[s] \in D /\ h[s \ {c[s]}] \in Seq(C)
      BY <1>3, <2>5, <3>2
    <3>4. op[<<c[s], h[s \ {c[s]}]>>] = F(h[s \ {c[s]}], list[c[s]])
      BY <2>2, <3>3
    <3> QED BY <3>3, <3>4
  <2>6. h = [s \in SUBSET D |-> IF s = {} THEN base ELSE op[<<c[s], h[s \ {c[s]}]>>]]
    BY <2>4 DEF Folds
  <2>7. P(h)
    BY <2>5, <2>6
  <2> HIDE DEF P
  <2> QED BY <2>7
<1>6. P(iter)
  <2> HIDE DEF P
  <2> QED BY <1>5
<1> HIDE DEF iter, F
<1>7. iter[D] \in Inv[D]
  <2> DEFINE Good == {s \in SUBSET D : iter[s] \in Inv[s]}
  <2>1. {} \in Good
    BY <1>4, <1>6
  <2>2. ASSUME NEW s \in SUBSET D, s # {}, s \ {c[s]} \in Good PROVE s \in Good
    <3>1. iter[s \ {c[s]}] \in Inv[s \ {c[s]}]
      BY <2>2
    <3>2. c[s] = Line!Max(s) /\ F(iter[s \ {c[s]}], list[Line!Max(s)]) \in Inv[s]
      BY <1>3, <2>2, <3>1
    <3>3. iter[s] = F(iter[s \ {c[s]}], list[Line!Max(s)])
      BY <1>6, <2>2, <3>2
    <3> QED BY <3>2, <3>3
  <2>3. SUBSET D \subseteq Good
    <3>1. \A s \in SUBSET D : s # {} /\ s \ {c[s]} \in Good => s \in Good
      BY <2>2
    <3> HIDE DEF Good, D
    <3> QED BY ONLY <1>1, <2>1, <3>1, FoldInduction
  <2>4. D \in SUBSET D
    OBVIOUS
  <2> QED BY <2>3, <2>4
<1>8. Inv[D] = Thinned(C, list, gone, D)
  OBVIOUS
<1>9. Line!Without(list, gone) = iter[D]
  <2>1. DOMAIN list = D
    OBVIOUS
  <2> QED BY <2>1 DEF Line!Without, Line!FoldLeft, Line!MapThenFoldSet, iter, base, F
<1> QED BY <1>7, <1>8, <1>9

(* Where somebody is in a list, counted from 1, or 0.                       *)
Place(p, list) ==
    LET I == {i \in 1..Len(list) : list[i] = p}
    IN  IF I # {} THEN Line!Min(I) ELSE 0

LEMMA PlaceIs ==
    ASSUME NEW C, NEW list \in Seq(C), NEW p
    PROVE  /\ (\E i \in 1..Len(list) : list[i] = p)
                => Place(p, list) \in 1..Len(list) /\ list[Place(p, list)] = p
           /\ (\A i \in 1..Len(list) : list[i] # p) => Place(p, list) = 0
<1> DEFINE I == {i \in 1..Len(list) : list[i] = p}
<1>1. CASE I = {}
  BY <1>1 DEF Place
<1>2. CASE I # {}
  <2>1. I \in SUBSET Nat
    OBVIOUS
  <2>2. PICK k \in I : \A i \in I : k <= i
    <3> HIDE DEF I
    <3> QED BY <1>2, <2>1, LeastNumber
  <2>3. Line!Min(I) \in I
    BY <2>2 DEF Line!Min
  <2>4. Place(p, list) = Line!Min(I)
    BY <1>2 DEF Place
  <2> QED BY <2>3, <2>4
<1> QED BY <1>1, <1>2

(* Names that are all among the first k of a list are no more than k.       *)
LEMMA FewNames ==
    ASSUME NEW k \in Nat, NEW f, NEW S, \A q \in S : \E i \in 1..k : f[i] = q
    PROVE  IsFiniteSet(S) /\ Cardinality(S) <= k /\ Cardinality(S) \in Nat
<1> DEFINE T == {f[i] : i \in 1..k}
           g == [i \in 1..k |-> f[i]]
<1>1. IsFiniteSet(1..k) /\ Cardinality(1..k) = k
  BY FS_Interval
<1>2. g \in Surjection(1..k, T)
  BY DEF Surjection
<1>3. IsFiniteSet(T) /\ Cardinality(T) <= Cardinality(1..k)
  <2> HIDE DEF g, T
  <2> QED BY <1>1, <1>2, FS_Surjection
<1>4. S \subseteq T
  OBVIOUS
<1>5. IsFiniteSet(S) /\ Cardinality(S) <= Cardinality(T)
  <2> HIDE DEF T
  <2> QED BY <1>3, <1>4, FS_Subset
<1>6. Cardinality(S) \in Nat /\ Cardinality(T) \in Nat
  BY <1>3, <1>5, FS_CardinalityType
<1> QED BY <1>1, <1>3, <1>5, <1>6

(* Whoever is ahead of somebody is so in what is left of the list when those*)
(* whose entries have run out are erased.                                   *)
LEMMA AheadStay ==
    ASSUME NEW C, NEW list \in Seq(C), Line!IsInjective(list), NEW p,
           NEW w \in Thinned(C, list, expired, 1..Len(list))
    PROVE  /\ \A q \in Line!Before(p, list) : \E k \in 1..Len(w) : w[k] = q
           /\ \A pos \in 1..Len(w) : w[pos] = p =>
                \A q \in Line!Before(p, list) : \E k \in 1..(pos - 1) : w[k] = q
<1> DEFINE n == Len(list)
           a == Place(p, list)
<1>1. /\ w \in Seq(C)
      /\ \A i \in 1..n : list[i] \notin expired => \E k \in 1..Len(w) : w[k] = list[i]
      /\ \A k \in 1..Len(w) : w[k] \notin expired /\ \E i \in 1..n : w[k] = list[i]
      /\ \A k \in 1..Len(w), l \in 1..Len(w) : l < k =>
            \E i \in 1..n, j \in 1..n : i < j /\ w[l] = list[i] /\ w[k] = list[j]
  BY DEF Thinned
<1>2. Line!Before(p, list) = {list[i] : i \in {j \in DOMAIN list : a = 0 \/ j < a}} \ expired
  BY DEF Line!Before, Line!SelectInSeq, Place
<1>3. DOMAIN list = 1..n
  OBVIOUS
<1>4. \A i \in 1..n, j \in 1..n : list[i] = list[j] => i = j
  BY <1>3 DEF Line!IsInjective
<1>5. (\E i \in 1..n : list[i] = p) => a \in 1..n /\ list[a] = p
  BY PlaceIs
<1> HIDE DEF a, n
<1>6. ASSUME NEW q \in Line!Before(p, list)
      PROVE  q \notin expired /\ \E i \in 1..n : list[i] = q /\ (a = 0 \/ i < a)
  BY <1>2, <1>3, <1>6
<1>7. ASSUME NEW q \in Line!Before(p, list) PROVE \E k \in 1..Len(w) : w[k] = q
  BY <1>1, <1>6, <1>7
<1>8. ASSUME NEW pos \in 1..Len(w), w[pos] = p, NEW q \in Line!Before(p, list)
      PROVE  \E k \in 1..(pos - 1) : w[k] = q
  <2>1. PICK k \in 1..Len(w) : w[k] = q
    BY <1>7, <1>8
  <2>2. \E i \in 1..n : list[i] = p
    BY <1>1, <1>8
  <2>3. a \in 1..n /\ list[a] = p
    BY <2>2, <1>5
  <2>4. PICK i \in 1..n : list[i] = q /\ (a = 0 \/ i < a)
    BY <1>6, <1>8
  <2>5. i < a /\ i # a
    BY <2>3, <2>4
  <2>6. k # pos
    BY <1>4, <1>8, <2>1, <2>3, <2>4, <2>5
  <2>7. ~(pos < k)
    <3> SUFFICES ASSUME pos < k PROVE FALSE
      OBVIOUS
    <3> DEFINE m == Len(w)
    <3>0. \A j \in 1..m, l \in 1..m : l < j =>
             \E b \in 1..n, d \in 1..n : b < d /\ w[l] = list[b] /\ w[j] = list[d]
      BY <1>1
    <3>1. PICK b \in 1..n, d \in 1..n : b < d /\ w[pos] = list[b] /\ w[k] = list[d]
      <4>1. pos \in 1..m /\ k \in 1..m /\ pos < k
        BY <1>8, <2>1
      <4> HIDE DEF m
      <4> QED BY ONLY <3>0, <4>1
    <3>2. b = a /\ d = i
      BY <1>4, <1>8, <2>1, <2>3, <2>4, <3>1
    <3> QED BY <2>5, <3>1, <3>2
  <2>8. k \in 1..(pos - 1)
    BY <2>6, <2>7
  <2> QED BY <2>1, <2>8
<1> QED BY <1>7, <1>8

(* Erasing leaves a list in which each name is once, of those not gone.     *)
LEMMA WithoutKeeps ==
    ASSUME NEW C, NEW list \in Seq(C), Line!IsInjective(list), NEW gone
    PROVE  /\ Line!Without(list, gone) \in Seq(C)
           /\ Line!IsInjective(Line!Without(list, gone))
           /\ Line!Range(Line!Without(list, gone)) = Line!Range(list) \ gone
<1> DEFINE w == Line!Without(list, gone)
           n == Len(list)
<1>1. w \in Thinned(C, list, gone, 1..n)
  BY Thins
<1> HIDE DEF w
<1>2. /\ w \in Seq(C)
      /\ \A i \in 1..n : list[i] \notin gone => \E k \in 1..Len(w) : w[k] = list[i]
      /\ \A k \in 1..Len(w) : w[k] \notin gone /\ \E i \in 1..n : w[k] = list[i]
      /\ \A k \in 1..Len(w), l \in 1..Len(w) : l < k =>
            \E i \in 1..n, j \in 1..n : i < j /\ w[l] = list[i] /\ w[k] = list[j]
  BY <1>1 DEF Thinned
<1>3. DOMAIN list = 1..n /\ DOMAIN w = 1..Len(w)
  BY <1>2
<1>4. \A i \in 1..n, j \in 1..n : list[i] = list[j] => i = j
  BY <1>3 DEF Line!IsInjective
<1>5. ASSUME NEW k \in 1..Len(w), NEW l \in 1..Len(w), l < k PROVE w[k] # w[l]
  <2>1. PICK i \in 1..n, j \in 1..n : i < j /\ w[l] = list[i] /\ w[k] = list[j]
    BY <1>2, <1>5
  <2>2. i # j
    BY <2>1
  <2> QED BY <1>4, <2>1, <2>2
<1>6. ASSUME NEW k \in 1..Len(w), NEW l \in 1..Len(w), w[k] = w[l] PROVE k = l
  <2>1. k < l \/ l < k \/ k = l
    OBVIOUS
  <2> QED BY <2>1, <1>5, <1>6
<1>7. Line!IsInjective(w)
  BY <1>3, <1>6 DEF Line!IsInjective
<1>8. Line!Range(w) = Line!Range(list) \ gone
  <2>1. \A q : q \in Line!Range(w) <=> \E k \in 1..Len(w) : w[k] = q
    BY <1>3 DEF Line!Range
  <2>2. \A q : q \in Line!Range(list) <=> \E i \in 1..n : list[i] = q
    BY <1>3 DEF Line!Range
  <2>3. ASSUME NEW q PROVE q \in Line!Range(w) <=> q \in Line!Range(list) /\ q \notin gone
    <3>1. ASSUME q \in Line!Range(w) PROVE q \in Line!Range(list) /\ q \notin gone
      <4>1. PICK k \in 1..Len(w) : w[k] = q
        BY <2>1, <3>1
      <4> QED BY <4>1, <1>2, <2>2
    <3>2. ASSUME q \in Line!Range(list), q \notin gone PROVE q \in Line!Range(w)
      <4>1. PICK i \in 1..n : list[i] = q
        BY <2>2, <3>2
      <4> QED BY <4>1, <3>2, <1>2, <2>1
    <3> QED BY <3>1, <3>2
  <2> QED BY <2>3
<1> QED BY <1>2, <1>7, <1>8 DEF w

(* list.emplace_back of who is not in it.                                   *)
LEMMA JoinedKeeps ==
    ASSUME NEW C, NEW list \in Seq(C), Line!IsInjective(list), NEW p, NEW here \in BOOLEAN,
           here => p \in C
    PROVE  /\ Line!Joined(list, p, here) \in Seq(C)
           /\ Line!IsInjective(Line!Joined(list, p, here))
           /\ Line!Range(Line!Joined(list, p, here))
                = Line!Range(list) \cup (IF here THEN {p} ELSE {})
           /\ p \in Line!Range(list) \/ ~here => Line!Joined(list, p, here) = list
           /\ p \notin Line!Range(list) /\ here
                => Len(Line!Joined(list, p, here)) = Len(list) + 1
<1>1. CASE p \in Line!Range(list) \/ ~here
  <2>1. Line!Joined(list, p, here) = list
    BY <1>1 DEF Line!Joined
  <2> QED BY <1>1, <2>1
<1>2. CASE p \notin Line!Range(list) /\ here
  <2> DEFINE j == Append(list, p)
             n == Len(list)
  <2>1. Line!Joined(list, p, here) = j
    BY <1>2 DEF Line!Joined
  <2>2. /\ j \in Seq(C) /\ Len(j) = n + 1 /\ j[n + 1] = p /\ \A i \in 1..n : j[i] = list[i]
        /\ DOMAIN list = 1..n /\ DOMAIN j = 1..(n + 1) /\ n \in Nat
    BY <1>2
  <2> HIDE DEF j, n
  <2>3. \A i \in 1..(n + 1) : i \in 1..n \/ i = n + 1
    BY <2>2
  <2>4. \A i \in 1..n : i \in 1..(n + 1) /\ i # n + 1
    BY <2>2
  <2>5. n + 1 \in 1..(n + 1)
    BY <2>2
  <2>6. \A i \in 1..n : list[i] # p
    BY <1>2, <2>2 DEF Line!Range
  <2>7. Line!IsInjective(j)
    BY <2>2, <2>3, <2>4, <2>6 DEF Line!IsInjective
  <2>8. Line!Range(j) = Line!Range(list) \cup {p}
    BY <2>2, <2>3, <2>4, <2>5 DEF Line!Range
  <2> QED BY <1>2, <2>1, <2>2, <2>7, <2>8 DEF n
<1> QED BY <1>1, <1>2

-----------------------------------------------------------------------------
(* What makes the waiting list right is inductive by itself, but that the   *)
(* players online are finitely many.                                        *)
LineInv == Line!TypeOK /\ Line!OnceInLine /\ IsFiniteSet(online)

LEMMA LineTyped ==
    ASSUME LineInv
    PROVE  /\ online \subseteq Characters /\ IsFiniteSet(online)
           /\ Cardinality(online) \in Nat /\ Cardinality(online) <= MaxPlayers
           /\ MaxPlayers \in Nat /\ stray \in 0..MaxPlayers /\ stray \in Nat
           /\ priorityWaitList \in Seq(Premium) /\ waitList \in Seq(Characters \ Premium)
           /\ Line!IsInjective(priorityWaitList) /\ Line!IsInjective(waitList)
           /\ Line!Waiting = Line!Range(priorityWaitList) \cup Line!Range(waitList)
           /\ expired \subseteq Line!Waiting /\ Line!Waiting \cap online = {}
           /\ Line!Range(priorityWaitList) \subseteq Premium
           /\ Line!Range(waitList) \subseteq Characters \ Premium
<1>1. /\ online \subseteq Characters /\ IsFiniteSet(online)
      /\ stray \in 0..MaxPlayers /\ expired \subseteq Line!Waiting
      /\ priorityWaitList \in Seq(Premium) /\ waitList \in Seq(Characters \ Premium)
      /\ Line!IsInjective(priorityWaitList) /\ Line!IsInjective(waitList)
      /\ Line!Waiting \cap online = {} /\ Line!Cardinality(online) <= MaxPlayers
  BY DEF LineInv, Line!TypeOK, Line!OnceInLine
<1>2. Line!Cardinality(online) = Cardinality(online)
  BY Zenon DEF Line!Cardinality, Cardinality
<1>3. Cardinality(online) \in Nat /\ MaxPlayers \in Nat
  BY <1>1, FS_CardinalityType, LineAssumption
<1>4. Line!Waiting = Line!Range(priorityWaitList) \cup Line!Range(waitList)
  BY DEF Line!Waiting
<1>5. ASSUME NEW C, NEW list \in Seq(C) PROVE Line!Range(list) \subseteq C
  BY DEF Line!Range
<1>6. stray \in Nat
  BY <1>1, <1>3
<1>7. Line!Range(priorityWaitList) \subseteq Premium
  BY <1>1, <1>5
<1>8. Line!Range(waitList) \subseteq Characters \ Premium
  <2> DEFINE D == Characters \ Premium
  <2>1. waitList \in Seq(D)
    BY <1>1
  <2> HIDE DEF D
  <2>2. Line!Range(waitList) \subseteq D
    BY <2>1, <1>5
  <2> QED BY <2>2 DEF D
<1> QED BY <1>1, <1>2, <1>3, <1>4, <1>6, <1>7, <1>8

(* A step makes new lists.                                                  *)
LEMMA LineMade ==
    ASSUME NEW a \in Seq(Premium), NEW b \in Seq(Characters \ Premium),
           NEW on \in SUBSET Characters, IsFiniteSet(on), Cardinality(on) <= MaxPlayers,
           Line!IsInjective(a), Line!IsInjective(b),
           (Line!Range(a) \cup Line!Range(b)) \cap on = {},
           NEW ex \in SUBSET (Line!Range(a) \cup Line!Range(b)), NEW st \in 0..MaxPlayers,
           priorityWaitList' = a, waitList' = b, online' = on, expired' = ex, stray' = st
    PROVE  LineInv'
<1>1. Line!Waiting' = Line!Range(a) \cup Line!Range(b)
  BY DEF Line!Waiting, Line!Range
<1>2. Line!IsInjective(priorityWaitList)' /\ Line!IsInjective(waitList)'
  BY DEF Line!IsInjective
<1>3. Line!Cardinality(online)' = Cardinality(on)
  <2>1. Line!Cardinality(online)' = Line!Cardinality(online')
    BY Zenon DEF Line!Cardinality
  <2>2. Line!Cardinality(on) = Cardinality(on)
    BY Zenon DEF Line!Cardinality, Cardinality
  <2> QED BY <2>1, <2>2
<1>4. IsFiniteSet(online)'
  BY DEF IsFiniteSet
<1>5. Line!TypeOK'
  BY <1>1 DEF Line!TypeOK
<1>6. Line!OnceInLine'
  BY <1>1, <1>2, <1>3 DEF Line!OnceInLine
<1> QED BY <1>4, <1>5, <1>6 DEF LineInv

(* What clientLogin makes of the lists before it looks at the slot.         *)
Priority(p) == Line!Joined(Line!Cleaned(priorityWaitList), p, p \in Premium)
Rest(p) == Line!Joined(Line!Cleaned(waitList), p, p \notin Premium)
SlotOf(p) == Line!Slot(p, Priority(p), Rest(p), p \notin Line!Waiting \ expired)

LEMMA ListsLookedAt ==
    ASSUME LineInv, NEW p \in Characters
    PROVE  /\ Priority(p) \in Seq(Premium) /\ Rest(p) \in Seq(Characters \ Premium)
           /\ Line!IsInjective(Priority(p)) /\ Line!IsInjective(Rest(p))
           /\ Line!Range(Priority(p)) \cup Line!Range(Rest(p))
                = (Line!Waiting \ expired) \cup {p}
           /\ p \in Premium =>
                IF p \in Line!Waiting \ expired
                THEN /\ p \in Line!Range(Priority(p))
                     /\ Priority(p) = Line!Cleaned(priorityWaitList)
                ELSE Len(Priority(p)) = Len(Line!Cleaned(priorityWaitList)) + 1
           /\ p \notin Premium =>
                /\ Priority(p) = Line!Cleaned(priorityWaitList)
                /\ IF p \in Line!Waiting \ expired
                   THEN /\ p \in Line!Range(Rest(p))
                        /\ Rest(p) = Line!Cleaned(waitList)
                   ELSE Len(Rest(p)) = Len(Line!Cleaned(waitList)) + 1
<1> DEFINE D == Characters \ Premium
           cp == Line!Cleaned(priorityWaitList)
           cw == Line!Cleaned(waitList)
           here == p \in Premium
           there == p \notin Premium
<1>1. /\ cp \in Seq(Premium) /\ Line!IsInjective(cp)
      /\ Line!Range(cp) = Line!Range(priorityWaitList) \ expired
  BY LineTyped, WithoutKeeps DEF Line!Cleaned
<1>2. /\ cw \in Seq(D) /\ Line!IsInjective(cw)
      /\ Line!Range(cw) = Line!Range(waitList) \ expired
  <2>1. waitList \in Seq(D) /\ Line!IsInjective(waitList)
    BY LineTyped
  <2> HIDE DEF D
  <2> QED BY <2>1, WithoutKeeps DEF Line!Cleaned
<1>3. Priority(p) = Line!Joined(cp, p, here) /\ Rest(p) = Line!Joined(cw, p, there)
  BY DEF Priority, Rest
<1>4. here \in BOOLEAN /\ there \in BOOLEAN /\ (there => p \in D) /\ (here => p \in Premium)
  OBVIOUS
<1>5. /\ Line!Waiting = Line!Range(priorityWaitList) \cup Line!Range(waitList)
      /\ Line!Range(priorityWaitList) \subseteq Premium /\ Line!Range(waitList) \subseteq D
  BY LineTyped
<1> DEFINE P == Priority(p)
           W == Rest(p)
<1>6. here <=> ~there
  OBVIOUS
<1>7. (here => p \notin Line!Range(waitList)) /\ (there => p \notin Line!Range(priorityWaitList))
  BY <1>5
<1> HIDE DEF cp, cw, D, here, there
<1>8. /\ P \in Seq(Premium) /\ Line!IsInjective(P)
      /\ Line!Range(P) = Line!Range(cp) \cup (IF here THEN {p} ELSE {})
      /\ p \in Line!Range(cp) \/ ~here => P = cp
      /\ p \notin Line!Range(cp) /\ here => Len(P) = Len(cp) + 1
  BY <1>1, <1>3, <1>4, JoinedKeeps
<1>9. /\ W \in Seq(D) /\ Line!IsInjective(W)
      /\ Line!Range(W) = Line!Range(cw) \cup (IF there THEN {p} ELSE {})
      /\ p \in Line!Range(cw) \/ ~there => W = cw
      /\ p \notin Line!Range(cw) /\ there => Len(W) = Len(cw) + 1
  BY <1>2, <1>3, <1>4, JoinedKeeps
<1> HIDE DEF P, W
<1>10. Line!Range(P) \cup Line!Range(W) = (Line!Waiting \ expired) \cup {p}
  <2>1. Line!Range(P) \cup Line!Range(W) = Line!Range(cp) \cup Line!Range(cw) \cup {p}
    BY <1>6, <1>8, <1>9
  <2> QED BY <1>1, <1>2, <1>5, <2>1
<1>11. ASSUME here
       PROVE  IF p \in Line!Waiting \ expired
              THEN p \in Line!Range(P) /\ P = cp
              ELSE Len(P) = Len(cp) + 1
  <2>1. p \in Line!Waiting \ expired <=> p \in Line!Range(cp)
    BY <1>1, <1>5, <1>7, <1>11
  <2> QED BY <2>1, <1>8, <1>11
<1>12. ASSUME there
       PROVE  /\ P = cp
              /\ IF p \in Line!Waiting \ expired
                 THEN p \in Line!Range(W) /\ W = cw
                 ELSE Len(W) = Len(cw) + 1
  <2>1. p \in Line!Waiting \ expired <=> p \in Line!Range(cw)
    BY <1>2, <1>5, <1>7, <1>12
  <2>2. P = cp
    BY <1>6, <1>8, <1>12
  <2> QED BY <2>1, <2>2, <1>9, <1>12
<1> QED BY <1>8, <1>9, <1>10, <1>11, <1>12 DEF P, W, D, cp, cw, here, there

(* The slot leaves a place for each that is ahead, and one for p.           *)
LEMMA AheadFits ==
    ASSUME LineInv, NEW p \in Characters
    PROVE  /\ SlotOf(p) \in Nat /\ IsFiniteSet(Line!Ahead(p))
           /\ Cardinality(Line!Ahead(p)) \in Nat
           /\ Cardinality(Line!Ahead(p)) + 1 <= SlotOf(p)
<1> DEFINE D == Characters \ Premium
           cp == Line!Cleaned(priorityWaitList)
           cw == Line!Cleaned(waitList)
           new == p \notin Line!Waiting \ expired
           bp == Line!Before(p, priorityWaitList)
           bw == Line!Before(p, waitList)
<1>1. /\ cp \in Seq(Premium) /\ Len(cp) \in Nat
      /\ \A q \in bp : \E k \in 1..Len(cp) : cp[k] = q
      /\ \A pos \in 1..Len(cp) : cp[pos] = p => \A q \in bp : \E k \in 1..(pos - 1) : cp[k] = q
  <2>1. cp \in Thinned(Premium, priorityWaitList, expired, 1..Len(priorityWaitList))
    BY LineTyped, Thins DEF Line!Cleaned
  <2> HIDE DEF cp
  <2>2. cp \in Seq(Premium)
    BY <2>1 DEF Thinned
  <2> QED BY <2>1, <2>2, LineTyped, AheadStay
<1>2. /\ cw \in Seq(D) /\ Len(cw) \in Nat
      /\ \A q \in bw : \E k \in 1..Len(cw) : cw[k] = q
      /\ \A pos \in 1..Len(cw) : cw[pos] = p => \A q \in bw : \E k \in 1..(pos - 1) : cw[k] = q
  <2>1. waitList \in Seq(D) /\ Line!IsInjective(waitList)
    BY LineTyped
  <2> HIDE DEF D
  <2>2. cw \in Thinned(D, waitList, expired, 1..Len(waitList))
    BY <2>1, Thins DEF Line!Cleaned
  <2> HIDE DEF cw
  <2>3. cw \in Seq(D)
    BY <2>2 DEF Thinned
  <2> QED BY <2>1, <2>2, <2>3, AheadStay
<1> DEFINE P == Priority(p)
           W == Rest(p)
<1>3. /\ p \in Premium => IF ~new THEN p \in Line!Range(P) /\ P = cp
                                  ELSE Len(P) = Len(cp) + 1
      /\ p \notin Premium => /\ P = cp
                             /\ IF ~new THEN p \in Line!Range(W) /\ W = cw
                                        ELSE Len(W) = Len(cw) + 1
  BY ListsLookedAt
<1>4. /\ p \in Premium => Line!Ahead(p) = bp
      /\ p \notin Premium => Line!Ahead(p) = bp \cup bw
  BY DEF Line!Ahead
<1>5. /\ p \in Premium /\ new => SlotOf(p) = Len(P) + stray
      /\ p \in Premium /\ ~new => SlotOf(p) = Place(p, P)
      /\ p \notin Premium /\ new => SlotOf(p) = Len(P) + Len(W)
      /\ p \notin Premium /\ ~new => SlotOf(p) = Len(P) + stray + Place(p, W)
  BY DEF SlotOf, Line!Slot, Line!SelectInSeq, Place
<1>6. stray \in Nat
  BY LineTyped
<1> HIDE DEF cp, cw, new, bp, bw, P, W, D
<1>7. IsFiniteSet(bp) /\ Cardinality(bp) <= Len(cp) /\ Cardinality(bp) \in Nat
  <2> DEFINE m == Len(cp)
  <2>1. m \in Nat /\ \A q \in bp : \E k \in 1..m : cp[k] = q
    BY <1>1
  <2> HIDE DEF m
  <2>2. IsFiniteSet(bp) /\ Cardinality(bp) <= m /\ Cardinality(bp) \in Nat
    BY ONLY <2>1, FewNames
  <2> QED BY <2>2 DEF m
<1>8. IsFiniteSet(bw) /\ Cardinality(bw) <= Len(cw) /\ Cardinality(bw) \in Nat
  <2> DEFINE m == Len(cw)
  <2>1. m \in Nat /\ \A q \in bw : \E k \in 1..m : cw[k] = q
    BY <1>2
  <2> HIDE DEF m
  <2>2. IsFiniteSet(bw) /\ Cardinality(bw) <= m /\ Cardinality(bw) \in Nat
    BY ONLY <2>1, FewNames
  <2> QED BY <2>2 DEF m
<1>9. ASSUME NEW C, NEW list \in Seq(C), NEW b, p \in Line!Range(list),
             \A pos \in 1..Len(list) : list[pos] = p =>
                \A q \in b : \E k \in 1..(pos - 1) : list[k] = q
      PROVE  Place(p, list) \in Nat /\ Cardinality(b) + 1 <= Place(p, list)
  <2> DEFINE pos == Place(p, list)
  <2>1. \E i \in 1..Len(list) : list[i] = p
    BY <1>9 DEF Line!Range
  <2>2. pos \in 1..Len(list) /\ list[pos] = p
    BY <2>1, PlaceIs
  <2> HIDE DEF pos
  <2>3. pos - 1 \in Nat /\ pos \in Nat
    BY <2>2
  <2>4. \A q \in b : \E k \in 1..(pos - 1) : list[k] = q
    BY <1>9, <2>2
  <2>5. Cardinality(b) <= pos - 1 /\ Cardinality(b) \in Nat
    BY <2>3, <2>4, FewNames
  <2>6. Cardinality(b) + 1 <= pos
    BY <2>3, <2>5
  <2> QED BY <2>3, <2>6 DEF pos
<1>10. CASE p \in Premium /\ new
  BY <1>1, <1>3, <1>4, <1>5, <1>6, <1>7, <1>10
<1>11. CASE p \in Premium /\ ~new
  <2>1. Place(p, cp) \in Nat /\ Cardinality(bp) + 1 <= Place(p, cp)
    BY <1>1, <1>3, <1>9, <1>11
  <2> QED BY <1>3, <1>4, <1>5, <1>7, <1>11, <2>1
<1>12. ASSUME p \notin Premium
       PROVE  /\ IsFiniteSet(Line!Ahead(p)) /\ Cardinality(Line!Ahead(p)) \in Nat
              /\ Cardinality(Line!Ahead(p)) <= Cardinality(bp) + Cardinality(bw)
  <2>1. /\ IsFiniteSet(bp \cup bw)
        /\ Cardinality(bp \cup bw) = Cardinality(bp) + Cardinality(bw) - Cardinality(bp \cap bw)
    BY <1>7, <1>8, FS_Union
  <2>2. Cardinality(bp \cap bw) \in Nat /\ Cardinality(bp \cup bw) \in Nat
    <3> DEFINE both == bp \cap bw
               either == bp \cup bw
    <3>1. IsFiniteSet(both) /\ IsFiniteSet(either)
      BY <1>7, <2>1, FS_Intersection
    <3> HIDE DEF both, either
    <3>2. Cardinality(both) \in Nat
      BY <3>1, FS_CardinalityType
    <3>3. Cardinality(either) \in Nat
      BY <3>1, FS_CardinalityType
    <3> QED BY ONLY <3>2, <3>3 DEF both, either
  <2>3. Line!Ahead(p) = bp \cup bw
    BY <1>4, <1>12
  <2> DEFINE both == Cardinality(bp \cap bw)
             either == Cardinality(bp \cup bw)
             m == Cardinality(bp)
             n == Cardinality(bw)
  <2>4. m \in Nat /\ n \in Nat /\ both \in Nat /\ either \in Nat /\ either = m + n - both
    BY <1>7, <1>8, <2>1, <2>2
  <2> HIDE DEF both, either, m, n
  <2>5. either \in Nat /\ either <= m + n
    BY <2>4
  <2>6. Cardinality(Line!Ahead(p)) = either
    BY <2>3 DEF either
  <2> QED BY <2>1, <2>3, <2>5, <2>6 DEF m, n
<1>13. CASE p \notin Premium /\ new
  BY <1>1, <1>2, <1>3, <1>5, <1>7, <1>8, <1>12, <1>13
<1>14. CASE p \notin Premium /\ ~new
  <2>1. Place(p, cw) \in Nat /\ Cardinality(bw) + 1 <= Place(p, cw)
    BY <1>2, <1>3, <1>9, <1>14
  <2> QED BY <1>1, <1>3, <1>5, <1>6, <1>7, <1>8, <1>12, <1>14, <2>1
<1> QED BY <1>10, <1>11, <1>13, <1>14

(* Nobody who comes in overtakes.                                           *)
NoneOvertaken ==
    \A p \in online' \ online : Line!Cardinality(online) + Line!Cardinality(Line!Ahead(p)) < MaxPlayers

LEMMA LineCardinality == \A S : Line!Cardinality(S) = Cardinality(S)
  BY Zenon DEF Line!Cardinality, Cardinality

LEMMA LogsInKeeps ==
    ASSUME LineInv, NEW p \in Characters, Line!LogsIn(p), Cardinality(online) < MaxPlayers
    PROVE  /\ online' \in SUBSET Characters /\ IsFiniteSet(online')
           /\ Cardinality(online') <= MaxPlayers /\ online' \subseteq online \cup {p}
<1>1. /\ online \subseteq Characters /\ IsFiniteSet(online) /\ MaxPlayers \in Nat
      /\ Cardinality(online) \in Nat /\ Cardinality(online) <= MaxPlayers
  BY LineTyped
<1>2. CASE online' = online
  BY <1>1, <1>2
<1>3. CASE online' = online \cup {p}
  <2>1. /\ IsFiniteSet(online \cup {p})
        /\ Cardinality(online \cup {p}) <= Cardinality(online) + 1
    BY <1>1, FS_AddElement
  <2>2. Cardinality(online \cup {p}) \in Nat
    BY <2>1, FS_CardinalityType
  <2> QED BY <1>1, <1>3, <2>1, <2>2
<1> QED BY <1>2, <1>3 DEF Line!LogsIn

LEMMA WalksInKeeps ==
    ASSUME LineInv, NEW p \in Characters, Line!WalksIn(p)
    PROVE  LineInv' /\ NoneOvertaken
<1>1. /\ Line!Waiting = {} /\ Cardinality(online) < MaxPlayers /\ Line!LogsIn(p)
      /\ priorityWaitList' = priorityWaitList /\ waitList' = waitList
      /\ expired' = expired /\ stray' = stray
  BY LineCardinality DEF Line!WalksIn, Line!lists
<1>2. /\ online' \in SUBSET Characters /\ IsFiniteSet(online')
      /\ Cardinality(online') <= MaxPlayers /\ online' \subseteq online \cup {p}
  BY <1>1, LogsInKeeps
<1>3. LineInv'
  <2> DEFINE a == priorityWaitList
             b == waitList
             on == online'
             ex == expired
             st == stray
  <2>1. /\ a \in Seq(Premium) /\ b \in Seq(Characters \ Premium)
        /\ Line!IsInjective(a) /\ Line!IsInjective(b)
        /\ (Line!Range(a) \cup Line!Range(b)) \cap on = {}
        /\ ex \in SUBSET (Line!Range(a) \cup Line!Range(b)) /\ st \in 0..MaxPlayers
    BY <1>1, LineTyped
  <2> QED BY <1>1, <1>2, <2>1, LineMade
<1>4. ASSUME NEW q \in online' \ online
      PROVE  Line!Cardinality(online) + Line!Cardinality(Line!Ahead(q)) < MaxPlayers
  <2>1. Line!Ahead(q) = {}
    <3>1. \A list : Line!Before(q, list) \subseteq Line!Range(list)
      BY DEF Line!Before, Line!Range
    <3>2. Line!Range(priorityWaitList) = {} /\ Line!Range(waitList) = {}
      BY <1>1, LineTyped
    <3> QED BY <3>1, <3>2 DEF Line!Ahead
  <2>2. Cardinality(Line!Ahead(q)) = 0
    BY <2>1, FS_EmptySet
  <2> QED BY <1>1, <2>2, LineTyped, LineCardinality
<1> QED BY <1>3, <1>4 DEF NoneOvertaken

LEMMA AsksKeeps ==
    ASSUME LineInv, NEW p \in Characters, Line!Asks(p)
    PROVE  LineInv' /\ NoneOvertaken
<1> DEFINE P == Priority(p)
           W == Rest(p)
           slot == SlotOf(p)
           fits == Cardinality(online) + slot <= MaxPlayers
           P2 == Line!Without(P, {p})
           W2 == Line!Without(W, {p})
<1>1. /\ p \notin online
      /\ \/ /\ fits /\ Line!LogsIn(p)
            /\ stray' = IF p \in Premium /\ stray < MaxPlayers THEN stray + 1 ELSE stray
            /\ priorityWaitList' = P2 /\ waitList' = W2
         \/ /\ ~fits /\ priorityWaitList' = P /\ waitList' = W
            /\ online' = online /\ stray' = stray
      /\ expired' = (expired \cap Line!Waiting') \ {p}
  BY LineCardinality DEF Line!Asks, Priority, Rest, SlotOf
<1>2. /\ P \in Seq(Premium) /\ W \in Seq(Characters \ Premium)
      /\ Line!IsInjective(P) /\ Line!IsInjective(W)
      /\ Line!Range(P) \cup Line!Range(W) = (Line!Waiting \ expired) \cup {p}
  BY ListsLookedAt
<1>3. /\ slot \in Nat /\ Cardinality(Line!Ahead(p)) \in Nat
      /\ Cardinality(Line!Ahead(p)) + 1 <= slot
  BY AheadFits
<1>4. /\ online \subseteq Characters /\ IsFiniteSet(online) /\ MaxPlayers \in Nat
      /\ Cardinality(online) \in Nat /\ Cardinality(online) <= MaxPlayers
      /\ stray \in 0..MaxPlayers /\ Line!Waiting \cap online = {}
  BY LineTyped
<1>5. /\ P2 \in Seq(Premium) /\ Line!IsInjective(P2) /\ Line!Range(P2) = Line!Range(P) \ {p}
      /\ W2 \in Seq(Characters \ Premium) /\ Line!IsInjective(W2)
      /\ Line!Range(W2) = Line!Range(W) \ {p}
  <2> DEFINE D == Characters \ Premium
  <2> HIDE DEF P, W
  <2>1. P2 \in Seq(Premium) /\ Line!IsInjective(P2) /\ Line!Range(P2) = Line!Range(P) \ {p}
    BY <1>2, WithoutKeeps
  <2>2. W \in Seq(D)
    BY <1>2
  <2> HIDE DEF D
  <2>3. W2 \in Seq(D) /\ Line!IsInjective(W2) /\ Line!Range(W2) = Line!Range(W) \ {p}
    BY <1>2, <2>2, WithoutKeeps
  <2> QED BY <2>1, <2>3 DEF D
<1> HIDE DEF P, W, P2, W2, slot
<1>6. Line!Waiting' = Line!Range(priorityWaitList') \cup Line!Range(waitList')
  BY DEF Line!Waiting, Line!Range
<1>7. ASSUME fits PROVE Cardinality(online) < MaxPlayers
  BY <1>3, <1>4, <1>7
<1> DEFINE st == IF p \in Premium /\ stray < MaxPlayers THEN stray + 1 ELSE stray
<1>8. st \in 0..MaxPlayers
  BY <1>4
<1> HIDE DEF st
<1>9. LineInv'
  <2>1. CASE fits /\ Line!LogsIn(p) /\ stray' = st /\ priorityWaitList' = P2 /\ waitList' = W2
    <3>1. /\ online' \in SUBSET Characters /\ IsFiniteSet(online')
          /\ Cardinality(online') <= MaxPlayers /\ online' \subseteq online \cup {p}
      BY <1>7, <2>1, LogsInKeeps
    <3>2. /\ (Line!Range(P2) \cup Line!Range(W2)) \cap online' = {}
          /\ expired' \in SUBSET (Line!Range(P2) \cup Line!Range(W2))
      BY <1>1, <1>2, <1>4, <1>5, <1>6, <2>1, <3>1
    <3> QED BY <1>5, <1>8, <2>1, <3>1, <3>2, LineMade
  <2>2. CASE ~fits /\ priorityWaitList' = P /\ waitList' = W /\ online' = online /\ stray' = stray
    <3>1. /\ (Line!Range(P) \cup Line!Range(W)) \cap online = {}
          /\ expired' \in SUBSET (Line!Range(P) \cup Line!Range(W))
      BY <1>1, <1>2, <1>4, <1>6, <2>2
    <3> QED BY <1>2, <1>4, <2>2, <3>1, LineMade
  <2> QED BY <1>1, <2>1, <2>2 DEF st
<1>10. ASSUME NEW q \in online' \ online
       PROVE  Line!Cardinality(online) + Line!Cardinality(Line!Ahead(q)) < MaxPlayers
  <2>1. fits /\ q = p
    BY <1>1 DEF Line!LogsIn
  <2> QED BY <1>3, <1>4, <2>1, LineCardinality
<1> QED BY <1>9, <1>10 DEF NoneOvertaken

LEMMA LineStep ==
    ASSUME LineInv, [Line!Next]_(Line!vars)
    PROVE  LineInv' /\ (NoneOvertaken \/ Line!vars' = Line!vars)
<1> DEFINE a == priorityWaitList
           b == waitList
<1>1. /\ a \in Seq(Premium) /\ b \in Seq(Characters \ Premium)
      /\ Line!IsInjective(a) /\ Line!IsInjective(b)
      /\ (Line!Range(a) \cup Line!Range(b)) \cap online = {}
      /\ expired \in SUBSET (Line!Range(a) \cup Line!Range(b)) /\ stray \in 0..MaxPlayers
      /\ online \subseteq Characters /\ IsFiniteSet(online) /\ MaxPlayers \in Nat
      /\ Cardinality(online) \in Nat /\ Cardinality(online) <= MaxPlayers
      /\ Line!Waiting = Line!Range(a) \cup Line!Range(b)
  BY LineTyped
<1>2. CASE Line!vars' = Line!vars
  <2>1. /\ online' = online /\ a' = a /\ b' = b /\ expired' = expired /\ stray' = stray
    BY <1>2 DEF Line!vars, Line!lists
  <2> QED BY <1>1, <1>2, <2>1, LineMade
<1>3. ASSUME NEW p \in Characters, Line!Leave(p) PROVE LineInv' /\ NoneOvertaken
  <2>1. /\ online' = online \ {p} /\ a' = a /\ b' = b /\ expired' = expired /\ stray' = stray
    BY <1>3 DEF Line!Leave, Line!lists
  <2>2. IsFiniteSet(online \ {p}) /\ Cardinality(online \ {p}) <= Cardinality(online)
    BY <1>1, FS_Subset
  <2>3. Cardinality(online \ {p}) \in Nat
    BY <2>2, FS_CardinalityType
  <2>4. LineInv'
    <3> DEFINE on == online \ {p}
    <3>1. /\ on \in SUBSET Characters /\ IsFiniteSet(on) /\ Cardinality(on) <= MaxPlayers
          /\ (Line!Range(a) \cup Line!Range(b)) \cap on = {} /\ online' = on
      BY <1>1, <2>1, <2>2, <2>3
    <3> HIDE DEF on
    <3> QED BY <1>1, <2>1, <3>1, LineMade
  <2> QED BY <2>1, <2>4 DEF NoneOvertaken
<1>4. ASSUME NEW p \in Characters, Line!RunOut(p) PROVE LineInv' /\ NoneOvertaken
  <2> DEFINE ex == expired \cup {p}
  <2>1. /\ online' = online /\ a' = a /\ b' = b /\ expired' = ex /\ stray' = stray
        /\ p \in Line!Waiting
    BY <1>4 DEF Line!RunOut, Line!lists
  <2>2. ex \in SUBSET (Line!Range(a) \cup Line!Range(b))
    BY <1>1, <2>1
  <2> HIDE DEF ex
  <2>3. LineInv'
    BY <1>1, <2>1, <2>2, LineMade
  <2> QED BY <2>1, <2>3 DEF NoneOvertaken
<1>5. CASE Line!Next
  BY <1>3, <1>4, <1>5, WalksInKeeps, AsksKeeps DEF Line!Next
<1> QED BY <1>2, <1>5

(* For any characters, premium or not, patient or not, and any number of    *)
(* places: who waits does so once, the server is never too full, and who    *)
(* gets in leaves a place for each that was ahead in line, whichever entries*)
(* have run out and whichever nodes were erased through the wrong list      *)
(* (WaitingList::clientLogin, addPlayerToList, cleanupList).                *)
THEOREM LineIsKept == Line!Spec => LineKept
<1>1. Line!Init => LineInv
  <2> SUFFICES ASSUME Line!Init PROVE LineInv
    OBVIOUS
  <2>1. /\ online = {} /\ priorityWaitList = <<>> /\ waitList = <<>> /\ expired = {} /\ stray = 0
        /\ MaxPlayers \in Nat
    BY LineAssumption DEF Line!Init
  <2>2. IsFiniteSet(online) /\ Line!Cardinality(online) = 0
    BY <2>1, FS_EmptySet, LineCardinality
  <2>3. Line!IsInjective(priorityWaitList) /\ Line!IsInjective(waitList)
    BY <2>1 DEF Line!IsInjective
  <2>4. Line!TypeOK
    BY <2>1 DEF Line!TypeOK
  <2>5. Line!OnceInLine
    BY <2>1, <2>2, <2>3 DEF Line!OnceInLine
  <2> QED BY <2>2, <2>4, <2>5 DEF LineInv
<1>2. LineInv /\ [Line!Next]_(Line!vars) => LineInv'
  BY LineStep
<1>3. LineInv /\ [Line!Next]_(Line!vars) =>
        [\A p \in online' \ online :
            Line!Cardinality(online) + Line!Cardinality(Line!Ahead(p)) < MaxPlayers]_(Line!vars)
  BY LineStep DEF NoneOvertaken
<1>4. LineInv => Line!TypeOK /\ Line!OnceInLine
  BY DEF LineInv
<1> QED BY <1>1, <1>2, <1>3, <1>4, PTL DEF Line!Spec, LineKept, Line!PlacesKept

==============================================================================
