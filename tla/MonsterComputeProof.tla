------------------------ MODULE MonsterComputeProof ------------------------
(***************************************************************************)
(* Proofs about MonsterCompute, for any threads, capacity and tokens: its   *)
(* counters agree with the places its requests are in, so its asserts hold  *)
(* and it admits no more than it may; and it implements ComputePromise.     *)
(***************************************************************************)
EXTENDS MonsterCompute, FiniteSetTheorems, TLAPS

(* A thread holds a request exactly while it executes it.                   *)
HeldWhileExecuting ==
    \A t \in Threads : (held[t] = None) <=> (at[t] # "executing")

(* The loops of drainCompletions stay within the queues and the batch.      *)
BatchShape ==
    /\ selecting <= TotalLen(completions)
    /\ selecting > 0 => next = 1
    /\ pending = <<>> => next = 1
    /\ pending # <<>> => next <= Len(pending)

IInv ==
    TypeOK /\ Accounting /\ AdmissionBound /\ HeldWhileExecuting /\ BatchShape

(* Leading the service out of Stopping: the owner that abandons a start or  *)
(* runs shutdown.                                                           *)
Abandoning(m) == owner[m] \in {"abandoning", "abandonJoining"}
AfterJoin(m) == owner[m] \in {"draining", "drainAsleep"}
Leading(m) == Abandoning(m) \/ AfterJoin(m) \/ owner[m] \in {"stopping", "joining"}

(* The service is stopping exactly while one owner leads it.                *)
OneLeader ==
    /\ \A m, n \in Owners : Leading(m) /\ Leading(n) => m = n
    /\ lifecycle = "Stopping" <=> \E m \in Owners : Leading(m)

ClosedQueues == lifecycle # "Running" => \A p \in Priorities : requests[p] = <<>>

NothingLeft ==
    lifecycle = "Stopped" \/ (\E m \in Owners : Abandoning(m)) => outstanding = 0

WorkersOff ==
    lifecycle = "Stopped" \/ (\E m \in Owners : AfterJoin(m))
        => \A w \in Workers : at[w] = "off"

LInv == OneLeader /\ ClosedQueues /\ NothingLeft /\ WorkersOff

Inv == IInv /\ LInv

-----------------------------------------------------------------------------
(* Counting the executing threads and the records of the batch.             *)

LEMMA HoldingFinite ==
    ASSUME NEW p
    PROVE  IsFiniteSet(Holding(p)) /\ Cardinality(Holding(p)) \in Nat
<1>1. IsFiniteSet(Threads)
  BY ThreadsAssumption, FS_Union DEF Threads
<1>2. Holding(p) \subseteq Threads
  BY DEF Holding
<1> QED BY <1>1, <1>2, FS_Subset, FS_CardinalityType

LEMMA InFlightFinite ==
    ASSUME TypeOK, NEW p
    PROVE  IsFiniteSet(InFlight(p)) /\ Cardinality(InFlight(p)) \in Nat
<1>1. Len(pending) \in Nat /\ next \in Nat
  BY DEF TypeOK
<1>2. IsFiniteSet(next..Len(pending))
  BY <1>1, FS_Interval
<1>3. InFlight(p) \subseteq next..Len(pending)
  BY DEF InFlight
<1> QED BY <1>2, <1>3, FS_Subset, FS_CardinalityType

(* A thread takes a request.                                                *)
LEMMA TakeHeld ==
    ASSUME TypeOK, NEW t \in Threads, held[t] = None, NEW r \in Request,
           held' = [held EXCEPT ![t] = r], NEW p \in Priorities
    PROVE  /\ p = r.priority => Cardinality(Holding(p)') = Cardinality(Holding(p)) + 1
           /\ p # r.priority => Cardinality(Holding(p)') = Cardinality(Holding(p))
<1>1. \A u \in Threads : held'[u] = IF u = t THEN r ELSE held[u]
  BY DEF TypeOK
<1>2. t \notin Holding(p)
  BY DEF Holding, None, Priorities
<1>3. CASE p = r.priority
  <2>1. Holding(p)' = Holding(p) \cup {t}
    BY <1>1, <1>3 DEF Holding
  <2> QED BY <2>1, <1>2, <1>3, HoldingFinite, FS_AddElement
<1>4. CASE p # r.priority
  <2>1. Holding(p)' = Holding(p)
    BY <1>1, <1>2, <1>4 DEF Holding
  <2> QED BY <2>1, <1>4
<1> QED BY <1>3, <1>4

(* A thread gives its request away.                                         *)
LEMMA GiveHeld ==
    ASSUME TypeOK, NEW t \in Threads, held[t] # None,
           held' = [held EXCEPT ![t] = None], NEW p \in Priorities
    PROVE  /\ held[t].priority \in Priorities /\ held[t].token \in Tokens
           /\ p = held[t].priority =>
                /\ Cardinality(Holding(p)) >= 1
                /\ Cardinality(Holding(p)') = Cardinality(Holding(p)) - 1
           /\ p # held[t].priority => Cardinality(Holding(p)') = Cardinality(Holding(p))
<1>1. \A u \in Threads : held'[u] = IF u = t THEN None ELSE held[u]
  BY DEF TypeOK
<1>2. held[t] \in Request
  BY DEF TypeOK
<1>3. CASE p = held[t].priority
  <2>1. t \in Holding(p)
    BY <1>3 DEF Holding
  <2>2. Holding(p)' = Holding(p) \ {t}
    BY <1>1 DEF Holding, None, Priorities
  <2>3. Cardinality(Holding(p)') = Cardinality(Holding(p)) - 1
    BY <2>1, <2>2, HoldingFinite, FS_RemoveElement
  <2>4. Cardinality(Holding(p)') \in Nat
    BY <2>2, HoldingFinite, FS_RemoveElement, FS_CardinalityType
  <2> QED BY <1>2, <1>3, <2>3, <2>4, HoldingFinite DEF Request
<1>4. CASE p # held[t].priority
  <2>1. Holding(p)' = Holding(p)
    BY <1>1, <1>4 DEF Holding, None, Priorities
  <2> QED BY <1>2, <1>4, <2>1 DEF Request
<1> QED BY <1>3, <1>4

(* A completion joins the batch.                                            *)
LEMMA JoinBatch ==
    ASSUME TypeOK, next = 1, next' = next, NEW r \in Request,
           pending' = Append(pending, r), NEW p \in Priorities
    PROVE  /\ p = r.priority => Cardinality(InFlight(p)') = Cardinality(InFlight(p)) + 1
           /\ p # r.priority => Cardinality(InFlight(p)') = Cardinality(InFlight(p))
<1> DEFINE n == Len(pending) + 1
<1>1. pending \in Seq(Request) /\ n \in Nat /\ Len(pending') = n
  BY DEF TypeOK
<1>2. \A i \in 1..n : pending'[i] = IF i = n THEN r ELSE pending[i]
  BY <1>1
<1>3. n \notin InFlight(p)
  BY <1>1 DEF InFlight
<1>4. CASE p = r.priority
  <2>1. InFlight(p)' = InFlight(p) \cup {n}
    BY <1>1, <1>2, <1>4 DEF InFlight
  <2> QED BY <2>1, <1>3, <1>4, InFlightFinite, FS_AddElement
<1>5. CASE p # r.priority
  <2>1. InFlight(p)' = InFlight(p)
    BY <1>1, <1>2, <1>5 DEF InFlight
  <2> QED BY <2>1, <1>5
<1> QED BY <1>4, <1>5

(* The record at `next' leaves the batch, with or without it being the last.*)
LEMMA LeaveBatch ==
    ASSUME TypeOK, BatchShape, pending # <<>>,
           IF next < Len(pending)
           THEN next' = next + 1 /\ UNCHANGED pending
           ELSE next' = 1 /\ pending' = <<>>,
           NEW p \in Priorities
    PROVE  /\ pending[next].priority \in Priorities
           /\ p = pending[next].priority =>
                /\ Cardinality(InFlight(p)) >= 1
                /\ Cardinality(InFlight(p)') = Cardinality(InFlight(p)) - 1
           /\ p # pending[next].priority => Cardinality(InFlight(p)') = Cardinality(InFlight(p))
<1>1. next \in 1..Len(pending) /\ pending \in Seq(Request)
  BY DEF TypeOK, BatchShape
<1>2. pending[next] \in Request
  BY <1>1
<1>3. InFlight(p)' = InFlight(p) \ {next}
  BY <1>1 DEF InFlight
<1>4. CASE p = pending[next].priority
  <2>1. next \in InFlight(p)
    BY <1>1, <1>4 DEF InFlight
  <2>2. Cardinality(InFlight(p)') = Cardinality(InFlight(p)) - 1
    BY <1>3, <2>1, InFlightFinite, FS_RemoveElement
  <2>3. Cardinality(InFlight(p)') \in Nat
    BY <1>3, InFlightFinite, FS_RemoveElement, FS_CardinalityType
  <2> QED BY <1>2, <1>4, <2>2, <2>3, InFlightFinite DEF Request
<1>5. CASE p # pending[next].priority
  <2>1. next \notin InFlight(p)
    BY <1>5 DEF InFlight
  <2> QED BY <1>2, <1>3, <1>5, <2>1 DEF Request
<1> QED BY <1>4, <1>5

-----------------------------------------------------------------------------
(* The arithmetic of a step: it moves requests of one priority p between    *)
(* the places, the other priority keeps what it has, and the counters       *)
(* follow.                                                                  *)

Other(p) == IF p = "Visible" THEN "Background" ELSE "Visible"

PlacesKept(o) ==
    /\ Waiting(o)' = Waiting(o)
    /\ Executing(o)' = Executing(o)
    /\ Published(o)' = Published(o)
    /\ Taken(o)' = Taken(o)
    /\ outstandingOf'[o] = outstandingOf[o]

LEMMA PlacesTyped ==
    ASSUME TypeOK, NEW p \in Priorities
    PROVE  /\ Waiting(p) \in Nat /\ Published(p) \in Nat
           /\ Executing(p) \in Nat /\ Taken(p) \in Nat
           /\ outstandingOf[p] \in Nat
<1>1. requests[p] \in Seq(Tokens) /\ completions[p] \in Seq(Tokens) /\ outstandingOf[p] \in Nat
  BY DEF TypeOK
<1> QED BY <1>1, HoldingFinite, InFlightFinite DEF Waiting, Executing, Published, Taken

LEMMA CountersFollow ==
    ASSUME TypeOK, Accounting, NEW p \in Priorities, PlacesKept(Other(p)),
           NEW i \in Int, NEW j \in Int, NEW k \in Int, NEW l \in Int,
           Waiting(p)' = Waiting(p) + i,
           Executing(p)' = Executing(p) + j,
           Published(p)' = Published(p) + k,
           Taken(p)' = Taken(p) + l,
           outstandingOf'[p] = outstandingOf[p] + (i + j + k + l),
           outstanding' = outstanding + (i + j + k + l),
           activeRequests' = activeRequests + j,
           completionsInFlight' = completionsInFlight + l
    PROVE  Accounting'
<1> DEFINE o == Other(p)
<1>1. o \in Priorities /\ ((p = "Visible" /\ o = "Background") \/ (p = "Background" /\ o = "Visible"))
  BY DEF Other, Priorities
<1>2. Balanced(p) /\ Balanced(o)
  BY <1>1 DEF Accounting
<1>3. Balanced(p)'
  <2>1. /\ Waiting(p) \in Nat /\ Published(p) \in Nat
        /\ Executing(p) \in Nat /\ Taken(p) \in Nat
        /\ outstandingOf[p] \in Nat
    BY PlacesTyped
  <2> QED BY <1>2, <2>1 DEF Balanced
<1>4. Balanced(o)'
  BY <1>1, <1>2 DEF Balanced, PlacesKept
<1>5. \A q \in Priorities : Balanced(q)'
  BY <1>1, <1>3, <1>4 DEF Priorities
<1> HIDE DEF o
<1>6. /\ outstandingOf[p] \in Nat /\ outstandingOf[o] \in Nat
      /\ Executing(p) \in Nat /\ Executing(o) \in Nat
      /\ Taken(p) \in Nat /\ Taken(o) \in Nat
  BY <1>1, PlacesTyped
<1>7. /\ outstanding = outstandingOf[p] + outstandingOf[o]
      /\ activeRequests = Executing(p) + Executing(o)
      /\ completionsInFlight = Taken(p) + Taken(o)
  BY <1>1, <1>6 DEF Accounting
<1>8. PlacesKept(o)
  BY DEF o
<1>9. /\ outstanding' = outstandingOf'[p] + outstandingOf'[o]
      /\ activeRequests' = Executing(p)' + Executing(o)'
      /\ completionsInFlight' = Taken(p)' + Taken(o)'
  BY <1>6, <1>7, <1>8 DEF PlacesKept
<1>10. /\ outstandingOf'[p] \in Int /\ outstandingOf'[o] \in Int
       /\ Executing(p)' \in Int /\ Executing(o)' \in Int
       /\ Taken(p)' \in Int /\ Taken(o)' \in Int
  BY <1>6, <1>8 DEF PlacesKept
<1>11. CASE p = "Visible" /\ o = "Background"
  BY <1>5, <1>9, <1>10, <1>11 DEF Accounting
<1>12. CASE p = "Background" /\ o = "Visible"
  BY <1>5, <1>9, <1>10, <1>12 DEF Accounting
<1> QED BY <1>1, <1>11, <1>12

-----------------------------------------------------------------------------
(* The inductive invariant.                                                 *)

LEMMA InitIInv == Init => IInv
<1> SUFFICES ASSUME Init PROVE IInv
  OBVIOUS
<1>1. ASSUME NEW p \in Priorities
      PROVE  Waiting(p) = 0 /\ Executing(p) = 0 /\ Published(p) = 0 /\ Taken(p) = 0
  <2>1. Holding(p) = {} /\ InFlight(p) = {}
    BY DEF Init, Holding, InFlight, None, Priorities
  <2> QED BY <2>1, FS_EmptySet DEF Init, Waiting, Executing, Published, Taken
<1>2. TypeOK
  <2>1. /\ requests \in [Priorities -> Seq(Tokens)] /\ completions \in [Priorities -> Seq(Tokens)]
        /\ outstandingOf \in [Priorities -> Nat]
    BY DEF Init
  <2>2. /\ at \in [Threads -> {"off", "testing", "asleep", "executing", "idle", "notifying"}]
        /\ held \in [Threads -> Request \cup {None}]
        /\ stopRequested \in [Workers -> BOOLEAN]
        /\ owner \in [Owners -> OwnerStates]
    BY DEF Init, OwnerStates
  <2>3. pending \in Seq(Request)
    BY DEF Init
  <2>4. streak \in 0..StreakLimit /\ completionStreak \in 0..StreakLimit
    BY CapacityAssumption DEF Init
  <2> QED BY <2>1, <2>2, <2>3, <2>4 DEF Init, TypeOK
<1>3. Accounting
  <2>1. "Visible" \in Priorities /\ "Background" \in Priorities
    BY DEF Priorities
  <2>2. \A p \in Priorities : Balanced(p)
    BY <1>1 DEF Init, Balanced
  <2> QED BY <1>1, <2>1, <2>2 DEF Init, Accounting
<1>4. AdmissionBound
  BY CapacityAssumption DEF Init, AdmissionBound, VisibleReserve, Priorities
<1>5. HeldWhileExecuting
  BY DEF Init, HeldWhileExecuting
<1>6. BatchShape
  BY DEF Init, BatchShape, TotalLen, Priorities
<1> QED BY <1>2, <1>3, <1>4, <1>5, <1>6 DEF IInv

LEMMA ReserveTyped == VisibleReserve \in Int /\ Capacity \in Int
BY CapacityAssumption DEF VisibleReserve

LEMMA WokenTyped ==
    ASSUME TypeOK, NEW m \in Owners
    PROVE  Woken(m) \in OwnerStates
BY DEF TypeOK, Woken, OwnerStates

(* A step that moves no request keeps the invariant.                        *)
LEMMA NothingMoves ==
    ASSUME IInv, UNCHANGED <<queues, counters, held, pending, next>>,
           TypeOK', HeldWhileExecuting',
           selecting' <= TotalLen(completions),
           selecting' > 0 => next = 1
    PROVE  IInv'
<1>1. \A p : UNCHANGED <<Waiting(p), Executing(p), Published(p), Taken(p), outstandingOf>>
  BY DEF Waiting, Executing, Published, Taken, Holding, InFlight, queues, counters
<1>2. Accounting'
  BY <1>1 DEF IInv, Accounting, Balanced, counters
<1>3. AdmissionBound'
  BY DEF IInv, AdmissionBound, counters
<1>4. BatchShape'
  BY DEF IInv, BatchShape, TotalLen, queues
<1> QED BY <1>2, <1>3, <1>4 DEF IInv

LEMMA SubmitStep ==
    ASSUME IInv, NEW t \in Submitters, NEW p \in Priorities, Submit(t, p)
    PROVE  IInv'
<1> USE DEF IInv
<1> DEFINE r == [token |-> FreshToken, priority |-> p]
           o == Other(p)
<1>1. /\ t \in Threads /\ FreshToken \in Tokens /\ r \in Request
      /\ o \in Priorities /\ o # p
  BY DEF Threads, Submit, FreshToken, Request, Other, Priorities
<1>2. held[t] = None
  BY <1>1 DEF Submit, HeldWhileExecuting
<1>3. UNCHANGED <<Taken(p), Taken(o), Published(p), Published(o)>>
  BY DEF Submit, Taken, Published, InFlight, batch
<1>4. /\ outstanding' = outstanding + 1 /\ outstandingOf'[p] = outstandingOf[p] + 1
      /\ outstandingOf'[o] = outstandingOf[o]
      /\ completionsInFlight' = completionsInFlight
  BY <1>1 DEF Submit, TypeOK
<1>5. /\ Taken(p) \in Nat /\ Published(p) \in Nat /\ Executing(p) \in Nat
      /\ Waiting(p) \in Nat /\ completionsInFlight \in Nat /\ activeRequests \in Nat
  BY PlacesTyped DEF TypeOK
<1>6. AdmissionBound'
  BY <1>4, CapacityAssumption DEF Submit, Admits, AdmissionBound, TypeOK, Priorities, VisibleReserve
<1>7. CASE inlineMode
  <2>1. /\ held' = [held EXCEPT ![t] = r] /\ at' = [at EXCEPT ![t] = "executing"]
        /\ activeRequests' = activeRequests + 1 /\ requests' = requests
    BY <1>7 DEF Submit
  <2>2. Executing(p)' = Executing(p) + 1 /\ Executing(o)' = Executing(o)
    BY <1>1, <1>2, <2>1, TakeHeld DEF Executing
  <2>3. UNCHANGED <<Waiting(p), Waiting(o)>>
    BY <2>1 DEF Waiting
  <2>4. TypeOK'
    BY <1>1, <2>1 DEF Submit, TypeOK, batch
  <2>5. Accounting'
    <3>1. PlacesKept(o)
      BY <1>3, <1>4, <2>2, <2>3 DEF PlacesKept
    <3>2. /\ Waiting(p)' = Waiting(p) + 0 /\ Published(p)' = Published(p) + 0
          /\ Taken(p)' = Taken(p) + 0 /\ completionsInFlight' = completionsInFlight + 0
      BY <1>3, <1>4, <1>5, <2>3
    <3> QED BY <1>4, <2>1, <2>2, <3>1, <3>2, CountersFollow
  <2>6. HeldWhileExecuting'
    BY <1>1, <2>1 DEF HeldWhileExecuting, TypeOK, None, Priorities
  <2>7. BatchShape'
    BY DEF Submit, BatchShape, TotalLen, batch
  <2> QED BY <1>6, <2>4, <2>5, <2>6, <2>7
<1>8. CASE ~inlineMode
  <2>1. /\ requests' = [requests EXCEPT ![p] = Append(@, FreshToken)]
        /\ at' = [at EXCEPT ![t] = "notifying"] /\ UNCHANGED <<activeRequests, held>>
    BY <1>8 DEF Submit
  <2>2. UNCHANGED <<Executing(p), Executing(o)>>
    BY <2>1 DEF Executing, Holding
  <2>3. Waiting(p)' = Waiting(p) + 1 /\ Waiting(o)' = Waiting(o)
    BY <1>1, <2>1 DEF TypeOK, Waiting
  <2>4. TypeOK'
    <3>1. requests' \in [Priorities -> Seq(Tokens)]
      BY <1>1, <2>1 DEF TypeOK
    <3>2. at' \in [Threads -> {"off", "testing", "asleep", "executing", "idle", "notifying"}]
      BY <1>1, <2>1 DEF TypeOK
    <3>3. outstanding' \in Nat /\ outstandingOf' \in [Priorities -> Nat]
      BY DEF Submit, TypeOK
    <3> QED BY <2>1, <3>1, <3>2, <3>3 DEF Submit, TypeOK, batch
  <2>5. Accounting'
    <3>1. PlacesKept(o)
      BY <1>3, <1>4, <2>2, <2>3 DEF PlacesKept
    <3>2. /\ Executing(p)' = Executing(p) + 0 /\ Published(p)' = Published(p) + 0
          /\ Taken(p)' = Taken(p) + 0 /\ completionsInFlight' = completionsInFlight + 0
          /\ activeRequests' = activeRequests + 0
      BY <1>3, <1>4, <1>5, <2>1, <2>2
    <3> QED BY <1>4, <2>3, <3>1, <3>2, CountersFollow
  <2>6. HeldWhileExecuting'
    BY <1>1, <2>1 DEF Submit, HeldWhileExecuting, TypeOK
  <2>7. BatchShape'
    BY DEF Submit, BatchShape, TotalLen, batch
  <2> QED BY <1>6, <2>4, <2>5, <2>6, <2>7
<1> QED BY <1>7, <1>8

LEMMA PopStep ==
    ASSUME IInv, NEW w \in Workers, PopNextRequest(w)
    PROVE  IInv'
<1> USE DEF IInv
<1>p. PICK p \in Priorities : p = NextPriority(requests, streak) /\ requests[p] # <<>>
  BY DEF PopNextRequest, NextPriority, SelectsVisible, SomeQueued, Priorities
<1>r. PICK r : r = [token |-> Head(requests[p]), priority |-> p]
  OBVIOUS
<1> DEFINE o == Other(p)
<1>1. w \in Threads /\ p \in Priorities /\ requests[p] # <<>> /\ r.priority = p
  BY <1>p, <1>r DEF Threads
<1>2. o \in Priorities /\ o # p
  BY <1>1 DEF Other, Priorities
<1>3. /\ held' = [held EXCEPT ![w] = r] /\ requests' = [requests EXCEPT ![p] = Tail(@)]
      /\ activeRequests' = activeRequests + 1 /\ at' = [at EXCEPT ![w] = "executing"]
  BY <1>p, <1>r DEF PopNextRequest
<1>4. /\ requests[p] \in Seq(Tokens) /\ Head(requests[p]) \in Tokens /\ r \in Request
      /\ Tail(requests[p]) \in Seq(Tokens)
      /\ Len(Tail(requests[p])) = Len(requests[p]) - 1
  BY <1>1, <1>r DEF TypeOK, Request
<1>5. held[w] = None
  BY <1>1 DEF PopNextRequest, HeldWhileExecuting
<1>6. Executing(p)' = Executing(p) + 1 /\ Executing(o)' = Executing(o)
  BY <1>1, <1>2, <1>3, <1>4, <1>5, TakeHeld DEF Executing
<1>7. UNCHANGED <<Taken(p), Taken(o), Published(p), Published(o)>>
  BY DEF PopNextRequest, Taken, Published, InFlight, batch
<1>8. Waiting(p)' = Waiting(p) + (-1) /\ Waiting(o)' = Waiting(o)
  <2>1. requests'[p] = Tail(requests[p]) /\ requests'[o] = requests[o]
    BY <1>1, <1>2, <1>3 DEF TypeOK
  <2>2. Len(requests[p]) \in Nat
    BY <1>4
  <2> QED BY <1>4, <2>1, <2>2 DEF Waiting
<1>9. /\ Taken(p) \in Nat /\ Published(p) \in Nat /\ outstandingOf[p] \in Nat
      /\ outstanding \in Nat /\ completionsInFlight \in Nat
  BY <1>1, PlacesTyped DEF TypeOK
<1>10. UNCHANGED <<outstanding, outstandingOf, completionsInFlight>>
  BY DEF PopNextRequest
<1>11. Accounting'
  <2>1. PlacesKept(o)
    BY <1>6, <1>7, <1>8, <1>10 DEF PlacesKept
  <2>2. /\ Published(p)' = Published(p) + 0 /\ Taken(p)' = Taken(p) + 0
        /\ outstandingOf'[p] = outstandingOf[p] + ((-1) + 1 + 0 + 0)
        /\ outstanding' = outstanding + ((-1) + 1 + 0 + 0)
        /\ completionsInFlight' = completionsInFlight + 0
    BY <1>7, <1>9, <1>10
  <2> QED BY <1>1, <1>3, <1>6, <1>8, <2>1, <2>2, CountersFollow
<1>12. NextStreak(requests, streak) \in 0..StreakLimit
  BY CapacityAssumption DEF NextStreak, SelectsVisible, TypeOK
<1>13. TypeOK'
  BY <1>1, <1>3, <1>4, <1>12 DEF PopNextRequest, TypeOK, batch
<1>14. AdmissionBound'
  BY <1>10 DEF AdmissionBound
<1>15. HeldWhileExecuting'
  BY <1>1, <1>3, <1>4 DEF HeldWhileExecuting, TypeOK, None, Priorities
<1>16. BatchShape'
  BY DEF PopNextRequest, BatchShape, TotalLen, batch
<1> QED BY <1>11, <1>13, <1>14, <1>15, <1>16

LEMMA EnqueueStep ==
    ASSUME IInv, NEW t \in Threads, EnqueueCompletion(t)
    PROVE  IInv'
<1> USE DEF IInv
<1>p. PICK p : p = held[t].priority
  OBVIOUS
<1>k. PICK k : k = held[t].token
  OBVIOUS
<1> DEFINE o == Other(p)
<1>1. /\ held' = [held EXCEPT ![t] = None]
      /\ completions' = [completions EXCEPT ![p] = Append(@, k)]
      /\ activeRequests' = activeRequests + (-1)
      /\ at' = [at EXCEPT ![t] = IF t \in Workers THEN "testing" ELSE "idle"]
  BY <1>p, <1>k DEF EnqueueCompletion, TypeOK
<1>2. held[t] # None
  BY DEF EnqueueCompletion, HeldWhileExecuting
<1>3. p \in Priorities /\ k \in Tokens
  BY <1>2, <1>p, <1>k DEF TypeOK, Request
<1>4. o \in Priorities /\ o # p
  BY <1>3 DEF Other, Priorities
<1>5. /\ Executing(p) >= 1 /\ Executing(p)' = Executing(p) - 1
      /\ Executing(o)' = Executing(o)
  BY <1>p, <1>1, <1>2, <1>3, <1>4, GiveHeld DEF Executing
<1>6. /\ Taken(p) \in Nat /\ Published(p) \in Nat /\ outstandingOf[p] \in Nat
      /\ Waiting(p) \in Nat /\ outstanding \in Nat /\ completionsInFlight \in Nat
      /\ Executing(p) \in Nat /\ Executing(o) \in Nat /\ activeRequests \in Nat
      /\ Published(o) \in Nat
  BY <1>3, <1>4, PlacesTyped DEF TypeOK
<1>7. UNCHANGED <<Taken(p), Taken(o), Waiting(p), Waiting(o), outstanding,
                  outstandingOf, completionsInFlight>>
  BY DEF EnqueueCompletion, Taken, Waiting, InFlight, batch
<1>8. Published(p)' = Published(p) + 1 /\ Published(o)' = Published(o)
  BY <1>1, <1>3, <1>4 DEF TypeOK, Published
<1>9. Accounting'
  <2>1. PlacesKept(o)
    BY <1>5, <1>7, <1>8 DEF PlacesKept
  <2>2. /\ Waiting(p)' = Waiting(p) + 0 /\ Taken(p)' = Taken(p) + 0
        /\ Executing(p)' = Executing(p) + (-1)
        /\ outstandingOf'[p] = outstandingOf[p] + (0 + (-1) + 1 + 0)
        /\ outstanding' = outstanding + (0 + (-1) + 1 + 0)
        /\ completionsInFlight' = completionsInFlight + 0
    BY <1>5, <1>6, <1>7
  <2> QED BY <1>1, <1>3, <1>8, <2>1, <2>2, CountersFollow
<1>10. activeRequests' \in Nat
  <2>1. activeRequests = Executing(p) + Executing(o)
    <3>1. (p = "Visible" /\ o = "Background") \/ (p = "Background" /\ o = "Visible")
      BY <1>3 DEF Other, Priorities
    <3> HIDE DEF o
    <3> QED BY <1>6, <3>1 DEF Accounting
  <2> QED BY <1>1, <1>5, <1>6, <2>1
<1>11. TypeOK'
  <2>1. completions' \in [Priorities -> Seq(Tokens)]
    BY <1>1, <1>3 DEF TypeOK
  <2>2. held' \in [Threads -> Request \cup {None}]
    BY <1>1 DEF TypeOK
  <2>3. owner' \in [Owners -> OwnerStates]
    BY WokenTyped DEF EnqueueCompletion, WakeOwners
  <2> QED BY <1>1, <1>10, <2>1, <2>2, <2>3 DEF EnqueueCompletion, TypeOK, batch
<1>12. AdmissionBound'
  BY <1>7 DEF AdmissionBound
<1>13. HeldWhileExecuting'
  BY <1>1 DEF HeldWhileExecuting, TypeOK
<1>14. BatchShape'
  <2>1. TotalLen(completions) = Published("Visible") + Published("Background")
    BY DEF TotalLen, Published
  <2>2. TotalLen(completions') = Published("Visible")' + Published("Background")'
    BY DEF TotalLen, Published
  <2>3. (p = "Visible" /\ o = "Background") \/ (p = "Background" /\ o = "Visible")
    BY <1>3 DEF Other, Priorities
  <2> HIDE DEF o
  <2>4. TotalLen(completions') = TotalLen(completions) + 1 /\ TotalLen(completions) \in Nat
    BY <1>6, <1>8, <2>1, <2>2, <2>3
  <2>5. UNCHANGED <<pending, next, selecting>>
    BY DEF EnqueueCompletion, batch
  <2> QED BY <2>4, <2>5 DEF BatchShape, TypeOK
<1> QED BY <1>9, <1>11, <1>12, <1>13, <1>14

LEMMA SelectStep ==
    ASSUME IInv, SelectCompletion
    PROVE  IInv'
<1> USE DEF IInv
<1>p. PICK p \in Priorities : p = NextPriority(completions, completionStreak)
                                /\ completions[p] # <<>>
  <2>1. completions["Visible"] # <<>> \/ completions["Background"] # <<>>
    BY DEF SelectCompletion, BatchShape, TotalLen, TypeOK, Priorities
  <2> QED BY <2>1 DEF NextPriority, SelectsVisible, Priorities
<1>r. PICK r : r = [token |-> Head(completions[p]), priority |-> p]
  OBVIOUS
<1> DEFINE o == Other(p)
<1>1. /\ pending' = Append(pending, r)
      /\ completions' = [completions EXCEPT ![p] = Tail(@)]
      /\ completionsInFlight' = completionsInFlight + 1
      /\ selecting' = selecting - 1 /\ next' = next /\ next = 1 /\ selecting > 0
  BY <1>p, <1>r DEF SelectCompletion, BatchShape
<1>2. o \in Priorities /\ o # p
  BY <1>p DEF Other, Priorities
<1>3. /\ completions[p] \in Seq(Tokens) /\ r \in Request /\ r.priority = p
      /\ Tail(completions[p]) \in Seq(Tokens)
      /\ Len(Tail(completions[p])) = Len(completions[p]) - 1
      /\ Len(completions[p]) \in Nat
  BY <1>p, <1>r DEF TypeOK, Request
<1>4. Taken(p)' = Taken(p) + 1 /\ Taken(o)' = Taken(o)
  BY <1>1, <1>2, <1>3, JoinBatch DEF Taken
<1>5. Published(p)' = Published(p) + (-1) /\ Published(o)' = Published(o)
  <2>1. completions'[p] = Tail(completions[p]) /\ completions'[o] = completions[o]
    BY <1>1, <1>2 DEF TypeOK
  <2> QED BY <1>3, <2>1 DEF Published
<1>6. UNCHANGED <<Waiting(p), Waiting(o), Executing(p), Executing(o), outstanding,
                  outstandingOf, activeRequests>>
  BY DEF SelectCompletion, Waiting, Executing, Holding, workers
<1>7. /\ Waiting(p) \in Nat /\ Executing(p) \in Nat /\ Published(p) \in Nat
      /\ Published(o) \in Nat /\ outstandingOf[p] \in Nat
      /\ outstanding \in Nat /\ activeRequests \in Nat
  BY <1>2, PlacesTyped DEF TypeOK
<1>8. Accounting'
  <2>1. PlacesKept(o)
    BY <1>4, <1>5, <1>6 DEF PlacesKept
  <2>2. /\ Waiting(p)' = Waiting(p) + 0 /\ Executing(p)' = Executing(p) + 0
        /\ outstandingOf'[p] = outstandingOf[p] + (0 + 0 + (-1) + 1)
        /\ outstanding' = outstanding + (0 + 0 + (-1) + 1)
        /\ activeRequests' = activeRequests + 0
    BY <1>6, <1>7
  <2> QED BY <1>1, <1>4, <1>5, <2>1, <2>2, CountersFollow
<1>9. NextStreak(completions, completionStreak) \in 0..StreakLimit
  BY CapacityAssumption DEF NextStreak, SelectsVisible, TypeOK
<1>10. TypeOK'
  BY <1>1, <1>3, <1>9 DEF SelectCompletion, TypeOK, workers
<1>11. AdmissionBound'
  BY <1>6 DEF AdmissionBound
<1>12. HeldWhileExecuting'
  BY DEF SelectCompletion, HeldWhileExecuting, workers
<1>13. BatchShape'
  <2>1. TotalLen(completions') = TotalLen(completions) - 1 /\ TotalLen(completions) \in Nat
    <3>1. (p = "Visible" /\ o = "Background") \/ (p = "Background" /\ o = "Visible")
      BY DEF Other, Priorities
    <3>2. /\ TotalLen(completions) = Published("Visible") + Published("Background")
          /\ TotalLen(completions') = Published("Visible")' + Published("Background")'
      BY DEF TotalLen, Published
    <3> HIDE DEF o
    <3> QED BY <1>5, <1>7, <3>1, <3>2
  <2>2. pending' # <<>> /\ Len(pending') \in Nat /\ Len(pending') >= 1
    BY <1>1, <1>3 DEF TypeOK
  <2> QED BY <1>1, <2>1, <2>2 DEF BatchShape, TypeOK
<1> QED BY <1>8, <1>10, <1>11, <1>12, <1>13

LEMMA CompleteStep ==
    ASSUME IInv, CompleteRecord
    PROVE  IInv'
<1> USE DEF IInv
<1>p. PICK p : p = pending[next].priority
  OBVIOUS
<1> DEFINE o == Other(p)
<1>1. /\ outstanding' = outstanding + (-1)
      /\ outstandingOf' = [outstandingOf EXCEPT ![p] = @ - 1]
      /\ completionsInFlight' = completionsInFlight + (-1)
  BY <1>p DEF CompleteRecord, TypeOK
<1>2. p \in Priorities
  BY <1>p, LeaveBatch DEF CompleteRecord, Priorities
<1>3. o \in Priorities /\ o # p
  BY <1>2 DEF Other, Priorities
<1>4. Taken(p) >= 1 /\ Taken(p)' = Taken(p) - 1 /\ Taken(o)' = Taken(o)
  BY <1>p, <1>2, <1>3, LeaveBatch DEF CompleteRecord, Taken
<1>5. UNCHANGED <<Waiting(p), Waiting(o), Executing(p), Executing(o),
                  Published(p), Published(o), activeRequests>>
  BY DEF CompleteRecord, Waiting, Executing, Published, Holding, queues, workers
<1>6. /\ Waiting(p) \in Nat /\ Executing(p) \in Nat /\ Published(p) \in Nat
      /\ Taken(p) \in Nat /\ Taken(o) \in Nat /\ outstandingOf[p] \in Nat
      /\ outstandingOf[o] \in Nat /\ outstanding \in Nat
      /\ activeRequests \in Nat /\ completionsInFlight \in Nat
  BY <1>2, <1>3, PlacesTyped DEF TypeOK
<1>7. outstandingOf'[p] = outstandingOf[p] - 1 /\ outstandingOf'[o] = outstandingOf[o]
  BY <1>1, <1>2, <1>3 DEF TypeOK
<1>8. Accounting'
  <2>1. PlacesKept(o)
    BY <1>4, <1>5, <1>7 DEF PlacesKept
  <2>2. /\ Waiting(p)' = Waiting(p) + 0 /\ Executing(p)' = Executing(p) + 0
        /\ Published(p)' = Published(p) + 0 /\ Taken(p)' = Taken(p) + (-1)
        /\ outstandingOf'[p] = outstandingOf[p] + (0 + 0 + 0 + (-1))
        /\ outstanding' = outstanding + (0 + 0 + 0 + (-1))
        /\ activeRequests' = activeRequests + 0
    BY <1>1, <1>4, <1>5, <1>6, <1>7
  <2> QED BY <1>1, <1>2, <2>1, <2>2, CountersFollow
<1>9. outstandingOf[p] >= 1 /\ outstanding >= 1 /\ completionsInFlight >= 1
  <2>1. (p = "Visible" /\ o = "Background") \/ (p = "Background" /\ o = "Visible")
    BY <1>2 DEF Other, Priorities
  <2>2. Balanced(p)
    BY <1>2 DEF Accounting
  <2> HIDE DEF o
  <2>3. outstandingOf[p] >= 1
    BY <1>4, <1>6, <2>2 DEF Balanced
  <2>4. /\ outstanding = outstandingOf[p] + outstandingOf[o]
        /\ completionsInFlight = Taken(p) + Taken(o)
    BY <1>6, <2>1 DEF Accounting
  <2> QED BY <1>4, <1>6, <2>3, <2>4
<1>10. TypeOK'
  <2>1. outstanding' \in Nat /\ completionsInFlight' \in Nat
    BY <1>1, <1>6, <1>9
  <2>2. outstandingOf' \in [Priorities -> Nat]
    <3>1. outstandingOf[p] - 1 \in Nat
      BY <1>6, <1>9
    <3> QED BY <1>1, <1>2, <3>1 DEF TypeOK
  <2>3. pending' \in Seq(Request) /\ next' \in Nat \ {0}
    <3>1. CASE next < Len(pending)
      BY <3>1 DEF CompleteRecord, TypeOK
    <3>2. CASE ~(next < Len(pending))
      BY <3>2 DEF CompleteRecord, TypeOK
    <3> QED BY <3>1, <3>2
  <2>4. owner' \in [Owners -> OwnerStates]
    BY WokenTyped DEF CompleteRecord, WakeOwners
  <2> QED BY <2>1, <2>2, <2>3, <2>4 DEF CompleteRecord, TypeOK, queues, workers
<1>11. AdmissionBound'
  <2>1. outstandingOf'["Background"] <= outstandingOf["Background"]
    BY <1>1, <1>2 DEF TypeOK, Priorities
  <2>2. /\ outstandingOf'["Background"] \in Nat /\ outstandingOf["Background"] \in Nat
        /\ VisibleReserve \in Int
    BY <1>10, CapacityAssumption DEF TypeOK, Priorities, VisibleReserve
  <2> QED BY <1>1, <1>6, <2>1, <2>2, CapacityAssumption DEF AdmissionBound
<1>12. HeldWhileExecuting'
  BY DEF CompleteRecord, HeldWhileExecuting, workers
<1>13. BatchShape'
  BY DEF CompleteRecord, BatchShape, MutexFree, TypeOK, queues
<1> QED BY <1>8, <1>10, <1>11, <1>12, <1>13

(* Both steps of shutdown that empty the queues of both priorities.         *)
LEMMA BeginShutdownStep ==
    ASSUME IInv, NEW m \in Owners, BeginShutdown(m)
    PROVE  IInv'
<1> USE DEF IInv
<1>1. /\ requests' = [q \in Priorities |-> <<>>]
      /\ outstanding' = outstanding - TotalLen(requests)
      /\ outstandingOf' = [q \in Priorities |-> outstandingOf[q] - Len(requests[q])]
  BY DEF BeginShutdown, Cleared, CountsWithout
<1>2. ASSUME NEW p \in Priorities
      PROVE  /\ Waiting(p)' = 0
             /\ outstandingOf'[p] = outstandingOf[p] - Waiting(p)
  BY <1>1 DEF Waiting
<1>3. ASSUME NEW p \in Priorities
      PROVE  UNCHANGED <<Executing(p), Published(p), Taken(p)>>
  BY DEF BeginShutdown, Executing, Published, Taken, Holding, InFlight, workers, batch
<1>4. ASSUME NEW p \in Priorities
      PROVE  /\ Waiting(p) \in Nat /\ Executing(p) \in Nat /\ Published(p) \in Nat
             /\ Taken(p) \in Nat /\ outstandingOf[p] \in Nat
             /\ outstandingOf[p] = Waiting(p) + Executing(p) + Published(p) + Taken(p)
  BY PlacesTyped DEF Accounting, Balanced
<1>5. ASSUME NEW p \in Priorities
      PROVE  /\ Balanced(p)'
             /\ outstandingOf'[p] \in Nat /\ outstandingOf'[p] <= outstandingOf[p]
  BY <1>2, <1>3, <1>4 DEF Balanced
<1>6. "Visible" \in Priorities /\ "Background" \in Priorities
  BY DEF Priorities
<1>7. outstanding' = outstandingOf'["Visible"] + outstandingOf'["Background"]
  <2>1. TotalLen(requests) = Waiting("Visible") + Waiting("Background")
    BY DEF TotalLen, Waiting
  <2>2. outstanding = outstandingOf["Visible"] + outstandingOf["Background"]
    BY DEF Accounting
  <2>3. /\ outstandingOf'["Visible"] = outstandingOf["Visible"] - Waiting("Visible")
        /\ outstandingOf'["Background"] = outstandingOf["Background"] - Waiting("Background")
    BY <1>2, <1>6
  <2>4. /\ outstandingOf["Visible"] \in Nat /\ outstandingOf["Background"] \in Nat
        /\ Waiting("Visible") \in Nat /\ Waiting("Background") \in Nat
    BY <1>4, <1>6
  <2> QED BY <1>1, <2>1, <2>2, <2>3, <2>4
<1>8. Accounting'
  <2>1. UNCHANGED <<activeRequests, completionsInFlight>>
    BY DEF BeginShutdown
  <2> QED BY <1>3, <1>5, <1>6, <1>7, <2>1 DEF Accounting
<1>9. outstanding' \in Nat /\ outstanding' <= outstanding
  BY <1>4, <1>5, <1>6, <1>7 DEF Accounting
<1>10. TypeOK'
  <2>1. requests' \in [Priorities -> Seq(Tokens)]
    BY <1>1
  <2>2. outstandingOf' \in [Priorities -> Nat]
    BY <1>1, <1>5
  <2>3. owner' \in [Owners -> OwnerStates]
    BY DEF BeginShutdown, TypeOK, OwnerStates
  <2> QED BY <1>9, <2>1, <2>2, <2>3 DEF BeginShutdown, TypeOK, workers, batch
<1>11. AdmissionBound'
  <2>1. /\ outstandingOf'["Background"] \in Nat /\ outstandingOf["Background"] \in Nat
        /\ outstandingOf'["Background"] <= outstandingOf["Background"]
        /\ outstanding \in Nat /\ VisibleReserve \in Int /\ Capacity \in Int
    BY <1>4, <1>5, <1>6, ReserveTyped DEF TypeOK
  <2> QED BY <1>9, <2>1 DEF AdmissionBound
<1>12. HeldWhileExecuting'
  BY DEF BeginShutdown, HeldWhileExecuting, workers
<1>13. BatchShape'
  BY DEF BeginShutdown, BatchShape, batch
<1> QED BY <1>8, <1>10, <1>11, <1>12, <1>13

LEMMA FinishShutdownStep ==
    ASSUME IInv, NEW m \in Owners, FinishShutdown(m)
    PROVE  IInv'
<1> USE DEF IInv
<1>1. /\ completions' = [q \in Priorities |-> <<>>]
      /\ outstanding' = outstanding - TotalLen(completions)
      /\ outstandingOf' = [q \in Priorities |-> outstandingOf[q] - Len(completions[q])]
  BY DEF FinishShutdown, Cleared, CountsWithout
<1>2. ASSUME NEW p \in Priorities
      PROVE  /\ Published(p)' = 0
             /\ outstandingOf'[p] = outstandingOf[p] - Published(p)
  BY <1>1 DEF Published
<1>3. ASSUME NEW p \in Priorities
      PROVE  UNCHANGED <<Executing(p), Waiting(p), Taken(p)>>
  BY DEF FinishShutdown, Executing, Waiting, Taken, Holding, InFlight, workers, batch
<1>4. ASSUME NEW p \in Priorities
      PROVE  /\ Waiting(p) \in Nat /\ Executing(p) \in Nat /\ Published(p) \in Nat
             /\ Taken(p) \in Nat /\ outstandingOf[p] \in Nat
             /\ outstandingOf[p] = Waiting(p) + Executing(p) + Published(p) + Taken(p)
  BY PlacesTyped DEF Accounting, Balanced
<1>5. ASSUME NEW p \in Priorities
      PROVE  /\ Balanced(p)'
             /\ outstandingOf'[p] \in Nat /\ outstandingOf'[p] <= outstandingOf[p]
  BY <1>2, <1>3, <1>4 DEF Balanced
<1>6. "Visible" \in Priorities /\ "Background" \in Priorities
  BY DEF Priorities
<1>7. outstanding' = outstandingOf'["Visible"] + outstandingOf'["Background"]
  <2>1. TotalLen(completions) = Published("Visible") + Published("Background")
    BY DEF TotalLen, Published
  <2>2. outstanding = outstandingOf["Visible"] + outstandingOf["Background"]
    BY DEF Accounting
  <2>3. /\ outstandingOf'["Visible"] = outstandingOf["Visible"] - Published("Visible")
        /\ outstandingOf'["Background"] = outstandingOf["Background"] - Published("Background")
    BY <1>2, <1>6
  <2>4. /\ outstandingOf["Visible"] \in Nat /\ outstandingOf["Background"] \in Nat
        /\ Published("Visible") \in Nat /\ Published("Background") \in Nat
    BY <1>4, <1>6
  <2> QED BY <1>1, <2>1, <2>2, <2>3, <2>4
<1>8. Accounting'
  <2>1. UNCHANGED <<activeRequests, completionsInFlight>>
    BY DEF FinishShutdown
  <2> QED BY <1>3, <1>5, <1>6, <1>7, <2>1 DEF Accounting
<1>9. outstanding' \in Nat /\ outstanding' <= outstanding
  BY <1>4, <1>5, <1>6, <1>7 DEF Accounting
<1>10. TypeOK'
  <2>1. completions' \in [Priorities -> Seq(Tokens)]
    BY <1>1
  <2>2. outstandingOf' \in [Priorities -> Nat]
    BY <1>1, <1>5
  <2>3. owner' \in [Owners -> OwnerStates]
    BY WokenTyped DEF FinishShutdown, WakeOthers, OwnerStates
  <2> QED BY <1>9, <2>1, <2>2, <2>3 DEF FinishShutdown, TypeOK, workers, batch
<1>11. AdmissionBound'
  <2>1. /\ outstandingOf'["Background"] \in Nat /\ outstandingOf["Background"] \in Nat
        /\ outstandingOf'["Background"] <= outstandingOf["Background"]
        /\ outstanding \in Nat /\ VisibleReserve \in Int /\ Capacity \in Int
    BY <1>4, <1>5, <1>6, ReserveTyped DEF TypeOK
  <2> QED BY <1>9, <2>1 DEF AdmissionBound
<1>12. HeldWhileExecuting'
  BY DEF FinishShutdown, HeldWhileExecuting, workers
<1>13. BatchShape'
  <2>1. TotalLen(completions') = 0
    <3>1. completions'["Visible"] = <<>> /\ completions'["Background"] = <<>>
      BY <1>1, <1>6
    <3> QED BY <3>1 DEF TotalLen
  <2>2. selecting' = 0 /\ UNCHANGED <<pending, next>>
    BY DEF FinishShutdown, MutexFree, batch
  <2> QED BY <2>1, <2>2 DEF BatchShape
<1> QED BY <1>8, <1>10, <1>11, <1>12, <1>13

-----------------------------------------------------------------------------

(* Creating threads puts none of them into a request.                       *)
LEMMA StartCreates ==
    ASSUME IInv, WorkersOff, NEW m \in Owners, Start(m), NEW t \in Threads
    PROVE  (at'[t] = "executing") <=> (at[t] = "executing")
BY DEF Start, WorkersOff

LEMMA NextIInv == IInv /\ WorkersOff /\ [Next]_vars => IInv'
<1> SUFFICES ASSUME IInv, WorkersOff, [Next]_vars PROVE IInv'
  OBVIOUS
<1> USE DEF IInv
<1>0. ASSUME UNCHANGED <<queues, counters, held, batch>>,
             TypeOK', HeldWhileExecuting'
      PROVE  IInv'
  BY <1>0, NothingMoves DEF batch, BatchShape
<1>1. ASSUME NEW t \in Submitters, SubmitterNext(t) PROVE IInv'
  <2>1. CASE NotifyWorker(t)
    <3>1. t \in Threads /\ UNCHANGED <<queues, counters, held, batch>>
      BY <2>1 DEF NotifyWorker, Threads
    <3>2. TypeOK' /\ HeldWhileExecuting'
      BY <2>1, <3>1 DEF NotifyWorker, TypeOK, HeldWhileExecuting, queues, counters, batch, Threads
    <3> QED BY <1>0, <3>1, <3>2
  <2>2. ASSUME NEW p \in Priorities, Submit(t, p) PROVE IInv'
    BY <2>2, SubmitStep
  <2> QED BY <1>1, <2>1, <2>2 DEF SubmitterNext
<1>2. ASSUME NEW w \in Workers, WorkerNext(w) PROVE IInv'
  <2>1. CASE WorkerSleeps(w) \/ WorkerExits(w)
    <3>1. w \in Threads /\ UNCHANGED <<queues, counters, held, batch>>
      BY <2>1 DEF WorkerSleeps, WorkerExits, Threads
    <3>2. TypeOK' /\ HeldWhileExecuting'
      BY <2>1, <3>1 DEF WorkerSleeps, WorkerExits, TypeOK, HeldWhileExecuting, queues, counters, batch
    <3> QED BY <1>0, <3>1, <3>2
  <2>2. CASE PopNextRequest(w)
    BY <2>2, PopStep
  <2> QED BY <1>2, <2>1, <2>2 DEF WorkerNext
<1>3. ASSUME NEW t \in Threads, EnqueueCompletion(t) PROVE IInv'
  BY <1>3, EnqueueStep
<1>4. CASE DrainNext
  <2>1. CASE BeginDrain
    <3>1. UNCHANGED <<queues, counters, held, pending, next>> /\ next = 1
      BY <2>1 DEF BeginDrain, BatchShape, workers
    <3>2. selecting' \in Nat /\ selecting' <= TotalLen(completions)
      BY <2>1 DEF BeginDrain, TypeOK, TotalLen, Priorities
    <3>3. TypeOK' /\ HeldWhileExecuting'
      BY <2>1, <3>1, <3>2 DEF BeginDrain, TypeOK, HeldWhileExecuting, queues, counters, workers
    <3> QED BY <3>1, <3>2, <3>3, NothingMoves
  <2>2. CASE SelectCompletion
    BY <2>2, SelectStep
  <2>3. CASE CompleteRecord
    BY <2>3, CompleteStep
  <2> QED BY <1>4, <2>1, <2>2, <2>3 DEF DrainNext
<1>5. ASSUME NEW m \in Owners, OwnerNext(m) PROVE IInv'
  <2>1. CASE Start(m) \/ AbandonStart(m) \/ StopWorkers(m)
    <3>1. UNCHANGED <<queues, counters, held, batch>>
      BY <2>1 DEF Start, AbandonStart, StopWorkers
    <3>2. TypeOK'
      <4>1. CASE Start(m)
        <5>1. owner' \in [Owners -> OwnerStates] /\ lifecycle' \in {"Stopped", "Running", "Stopping"}
          BY <4>1 DEF Start, TypeOK, OwnerStates
        <5>2. /\ streak' \in 0..StreakLimit /\ completionStreak' \in 0..StreakLimit
              /\ starts' \in Nat /\ stopRequested' \in [Workers -> BOOLEAN]
              /\ inlineMode' \in BOOLEAN
          BY <4>1, CapacityAssumption, ModesAssumption DEF Start, TypeOK
        <5>3. at' \in [Threads -> {"off", "testing", "asleep", "executing", "idle", "notifying"}]
          BY <4>1 DEF Start, TypeOK
        <5> QED BY <3>1, <5>1, <5>2, <5>3 DEF TypeOK, queues, counters, batch
      <4>2. CASE AbandonStart(m) \/ StopWorkers(m)
        BY <3>1, <4>2
           DEF AbandonStart, StopWorkers, TypeOK, OwnerStates, queues, counters, batch
      <4> QED BY <2>1, <4>1, <4>2
    <3>3. HeldWhileExecuting'
      <4>1. \A t \in Threads : (at'[t] = "executing") <=> (at[t] = "executing")
        BY <1>5, <2>1, StartCreates DEF AbandonStart, StopWorkers
      <4> QED BY <3>1, <4>1 DEF HeldWhileExecuting
    <3> QED BY <1>0, <3>1, <3>2, <3>3
  <2>2. CASE FinishAbandon(m) \/ JoinShutdown(m) \/ JoinWorkers(m) \/ AwaitDrained(m) \/ AwaitStopped(m)
    <3>1. UNCHANGED <<queues, counters, held, at, stopRequested, batch, starts, inlineMode, streak, completionStreak>>
      BY <2>2 DEF FinishAbandon, JoinShutdown, JoinWorkers, AwaitDrained, AwaitStopped, workers
    <3>2. owner' \in [Owners -> OwnerStates]
      BY <2>2, WokenTyped DEF FinishAbandon, JoinShutdown, JoinWorkers, AwaitDrained,
                  AwaitStopped, WakeOthers, TypeOK, OwnerStates
    <3>3. lifecycle' \in {"Stopped", "Running", "Stopping"}
      BY <2>2 DEF FinishAbandon, JoinShutdown, JoinWorkers, AwaitDrained, AwaitStopped, TypeOK
    <3>4. TypeOK' /\ HeldWhileExecuting'
      BY <3>1, <3>2, <3>3 DEF TypeOK, HeldWhileExecuting, queues, counters, batch
    <3> QED BY <1>0, <3>1, <3>4
  <2>3. CASE BeginShutdown(m)
    BY <2>3, BeginShutdownStep
  <2>4. CASE FinishShutdown(m)
    BY <2>4, FinishShutdownStep
  <2> QED BY <1>5, <2>1, <2>2, <2>3, <2>4 DEF OwnerNext, OwnerReturns
<1>6. CASE UNCHANGED vars
  BY <1>6, <1>0 DEF vars, TypeOK, HeldWhileExecuting, queues, counters, workers, batch
<1> QED BY <1>1, <1>2, <1>3, <1>4, <1>5, <1>6 DEF Next

-----------------------------------------------------------------------------
(* The shape of start and shutdown.                                         *)

LEMMA InitLInv == Init => LInv
BY DEF Init, LInv, OneLeader, ClosedQueues, NothingLeft, WorkersOff, Leading, Abandoning, AfterJoin, Threads

(* The steps that leave who leads, and how far, as it is.                   *)
LEMMA LeaderKept ==
    ASSUME TypeOK, LInv, TypeOK',
           lifecycle' = lifecycle,
           \A m \in Owners : /\ Abandoning(m)' <=> Abandoning(m)
                             /\ AfterJoin(m)' => AfterJoin(m) \/ (\A w \in Workers : at[w] = "off")
                             /\ Leading(m)' <=> Leading(m),
           ClosedQueues', lifecycle # "Running" => outstanding' <= outstanding,
           \A w \in Workers : at[w] = "off" => at'[w] = "off"
    PROVE  LInv'
<1> USE DEF LInv
<1>1. OneLeader'
  BY DEF OneLeader
<1>2. NothingLeft'
  <2>1. SUFFICES ASSUME lifecycle' = "Stopped" \/ (\E m \in Owners : Abandoning(m)')
                 PROVE  outstanding' = 0
    BY DEF NothingLeft
  <2>2. lifecycle = "Stopped" \/ (\E m \in Owners : Abandoning(m))
    BY <2>1
  <2>3. outstanding = 0 /\ lifecycle # "Running"
    BY <2>2 DEF NothingLeft, OneLeader, Leading
  <2> QED BY <2>3 DEF TypeOK
<1>3. WorkersOff'
  BY DEF WorkersOff
<1> QED BY <1>1, <1>2, <1>3

LEMMA WokenKeeps ==
    ASSUME TypeOK, NEW m \in Owners, owner'[m] = Woken(m)
    PROVE  /\ Abandoning(m)' <=> Abandoning(m)
           /\ AfterJoin(m)' <=> AfterJoin(m)
           /\ Leading(m)' <=> Leading(m)
BY DEF Woken, Abandoning, AfterJoin, Leading

(* With no request queued, executing, published or taken, none is counted.  *)
EmptyPlaces ==
    /\ TypeOK /\ Accounting
    /\ \A p \in Priorities : requests[p] = <<>> /\ completions[p] = <<>>
    /\ activeRequests = 0 /\ completionsInFlight = 0
    => outstanding = 0

LEMMA EmptyPlacesNow == EmptyPlaces
<1> SUFFICES ASSUME TypeOK, Accounting,
                    \A p \in Priorities : requests[p] = <<>> /\ completions[p] = <<>>,
                    activeRequests = 0, completionsInFlight = 0
             PROVE  outstanding = 0
  BY DEF EmptyPlaces
<1>1. ASSUME NEW p \in Priorities PROVE Waiting(p) = 0 /\ Published(p) = 0
  BY DEF Waiting, Published
<1>2. "Visible" \in Priorities /\ "Background" \in Priorities
  BY DEF Priorities
<1>3. ASSUME NEW p \in Priorities PROVE Executing(p) \in Nat /\ Taken(p) \in Nat /\ Balanced(p)
  BY PlacesTyped DEF Accounting
<1>4. /\ Executing("Visible") = 0 /\ Executing("Background") = 0
      /\ Taken("Visible") = 0 /\ Taken("Background") = 0
  BY <1>2, <1>3 DEF Accounting
<1>5. /\ outstandingOf["Visible"] = 0 + 0 + 0 + 0
      /\ outstandingOf["Background"] = 0 + 0 + 0 + 0
  <2>1. Balanced("Visible") /\ Balanced("Background")
    BY <1>2, <1>3
  <2> QED BY <1>1, <1>2, <1>4, <2>1 DEF Balanced
<1> QED BY <1>5 DEF Accounting

LEMMA EmptyPlacesThen == EmptyPlaces'
BY EmptyPlacesNow, PTL

LEMMA NextLInv == Inv /\ IInv' /\ [Next]_vars => LInv'
<1> SUFFICES ASSUME Inv, IInv', [Next]_vars PROVE LInv'
  OBVIOUS
<1> USE DEF Inv, IInv
<1>0. ASSUME lifecycle' = lifecycle, owner' = owner, outstanding' = outstanding, ClosedQueues',
             \A w \in Workers : at[w] = "off" => at'[w] = "off"
      PROVE  LInv'
  <2>1. \A m \in Owners : /\ Abandoning(m)' <=> Abandoning(m)
                          /\ AfterJoin(m)' <=> AfterJoin(m)
                          /\ Leading(m)' <=> Leading(m)
    BY <1>0 DEF Abandoning, AfterJoin, Leading
  <2> QED BY <1>0, <2>1, LeaderKept, SMTT(30) DEF TypeOK
<1>1. ASSUME NEW t \in Submitters, SubmitterNext(t) PROVE LInv'
  <2>1. CASE NotifyWorker(t)
    <3>1. \A w \in Workers : at[w] = "off" => at'[w] = "off"
      BY <2>1, ThreadsAssumption DEF NotifyWorker, TypeOK, Threads
    <3>2. ClosedQueues'
      BY <2>1 DEF NotifyWorker, ClosedQueues, LInv, queues
    <3> QED BY <1>0, <2>1, <3>1, <3>2 DEF NotifyWorker, counters
  <2>2. ASSUME NEW p \in Priorities, Submit(t, p) PROVE LInv'
    <3>1. lifecycle = "Running" /\ lifecycle' = lifecycle /\ owner' = owner
      BY <2>2 DEF Submit, Admits
    <3>2. \A w \in Workers : at[w] = "off" => at'[w] = "off"
      BY <2>2, ThreadsAssumption DEF Submit, TypeOK, Threads
    <3>3. \A m \in Owners : /\ Abandoning(m)' <=> Abandoning(m)
                            /\ AfterJoin(m)' <=> AfterJoin(m)
                            /\ Leading(m)' <=> Leading(m)
      BY <3>1 DEF Abandoning, AfterJoin, Leading
    <3> QED BY <3>1, <3>2, <3>3, LeaderKept DEF ClosedQueues
  <2> QED BY <1>1, <2>1, <2>2 DEF SubmitterNext
<1>2. ASSUME NEW w \in Workers, WorkerNext(w) PROVE LInv'
  <2>1. \A x \in Workers : at[x] = "off" => at'[x] = "off"
    BY <1>2 DEF WorkerNext, WorkerSleeps, WorkerExits, PopNextRequest, TypeOK, Threads
  <2>2. lifecycle' = lifecycle /\ owner' = owner /\ outstanding' = outstanding
    BY <1>2 DEF WorkerNext, WorkerSleeps, WorkerExits, PopNextRequest, counters
  <2>3. ClosedQueues'
    BY <1>2 DEF WorkerNext, WorkerSleeps, WorkerExits, PopNextRequest, MustExit, ClosedQueues, LInv, queues
  <2> QED BY <1>0, <2>1, <2>2, <2>3
<1>3. ASSUME NEW t \in Threads, EnqueueCompletion(t) PROVE LInv'
  <2>1. \A w \in Workers : at[w] = "off" => at'[w] = "off"
    BY <1>3 DEF EnqueueCompletion, TypeOK, Threads
  <2>2. \A m \in Owners : owner'[m] = Woken(m)
    BY <1>3 DEF EnqueueCompletion, WakeOwners
  <2>3. UNCHANGED <<lifecycle, requests, outstanding>>
    BY <1>3 DEF EnqueueCompletion
  <2>4. ClosedQueues'
    BY <2>3 DEF ClosedQueues, LInv
  <2>5. outstanding' <= outstanding
    BY <2>3 DEF TypeOK
  <2> QED BY <2>1, <2>2, <2>3, <2>4, <2>5, WokenKeeps, LeaderKept
<1>4. CASE DrainNext
  <2>1. CASE BeginDrain \/ SelectCompletion
    <3>1. UNCHANGED <<lifecycle, owner, outstanding, requests, at>>
      BY <2>1 DEF BeginDrain, SelectCompletion, queues, counters, workers
    <3>2. ClosedQueues'
      BY <3>1 DEF ClosedQueues, LInv
    <3> QED BY <1>0, <3>1, <3>2
  <2>2. CASE CompleteRecord
    <3>1. UNCHANGED <<lifecycle, requests, at>> /\ outstanding' = outstanding - 1
      BY <2>2 DEF CompleteRecord, queues, workers
    <3>2. \A m \in Owners : owner'[m] = Woken(m)
      BY <2>2 DEF CompleteRecord, WakeOwners
    <3>3. ClosedQueues' /\ outstanding' <= outstanding
      BY <3>1 DEF ClosedQueues, LInv, TypeOK
    <3> QED BY <3>1, <3>2, <3>3, WokenKeeps, LeaderKept
  <2> QED BY <1>4, <2>1, <2>2 DEF DrainNext
<1>5. ASSUME NEW m \in Owners, OwnerNext(m) PROVE LInv'
  <2>1. CASE Start(m)
    <3>1. lifecycle = "Stopped" /\ outstanding' = 0 /\ requests' = requests
      BY <2>1 DEF Start, LInv, NothingLeft, counters, queues
    <3>2. \A n \in Owners : ~Leading(n)
      BY <3>1 DEF LInv, OneLeader
    <3>3. ClosedQueues'
      BY <2>1, <3>1 DEF Start, ClosedQueues, LInv
    <3>4. CASE lifecycle' = "Running" /\ owner' = owner
      BY <3>2, <3>3, <3>4 DEF LInv, OneLeader, NothingLeft, WorkersOff, Leading, Abandoning, AfterJoin
    <3>5. CASE lifecycle' = "Stopping" /\ owner' = [owner EXCEPT ![m] = "abandoning"]
      <4>1. \A n \in Owners : /\ Leading(n)' <=> n = m
                              /\ ~AfterJoin(n)'
        BY <3>2, <3>5 DEF Leading, Abandoning, AfterJoin, TypeOK
      <4> QED BY <3>1, <3>3, <3>5, <4>1 DEF LInv, OneLeader, NothingLeft, WorkersOff
    <3> QED BY <2>1, <3>4, <3>5 DEF Start
  <2>2. CASE AbandonStart(m) \/ StopWorkers(m)
    <3>1. UNCHANGED <<lifecycle, requests, outstanding>>
      BY <2>2 DEF AbandonStart, StopWorkers, queues, counters
    <3>2. \A n \in Owners : /\ Abandoning(n)' <=> Abandoning(n)
                            /\ AfterJoin(n)' <=> AfterJoin(n)
                            /\ Leading(n)' <=> Leading(n)
      BY <2>2 DEF AbandonStart, StopWorkers, Leading, Abandoning, AfterJoin, TypeOK
    <3>3. ClosedQueues' /\ outstanding' <= outstanding
      BY <3>1 DEF ClosedQueues, LInv, TypeOK
    <3>4. \A w \in Workers : at[w] = "off" => at'[w] = "off"
      BY <2>2 DEF AbandonStart, StopWorkers, Threads
    <3> QED BY <3>1, <3>2, <3>3, <3>4, LeaderKept
  <2>3. CASE JoinShutdown(m) \/ AwaitDrained(m) \/ AwaitStopped(m)
    <3>1. UNCHANGED <<lifecycle, requests, outstanding, at>>
      BY <2>3 DEF JoinShutdown, AwaitDrained, AwaitStopped, queues, counters, workers
    <3>2. \A n \in Owners : /\ Abandoning(n)' <=> Abandoning(n)
                            /\ AfterJoin(n)' <=> AfterJoin(n)
                            /\ Leading(n)' <=> Leading(n)
      BY <2>3, SMTT(30) DEF JoinShutdown, AwaitDrained, AwaitStopped, Leading, Abandoning, AfterJoin, TypeOK
    <3>3. ClosedQueues' /\ outstanding' <= outstanding
      BY <3>1 DEF ClosedQueues, LInv, TypeOK
    <3> QED BY <3>1, <3>2, <3>3, LeaderKept
  <2>4. CASE JoinWorkers(m)
    <3>1. UNCHANGED <<lifecycle, requests, outstanding, at>>
      BY <2>4 DEF JoinWorkers, queues, counters, workers
    <3>2. \A n \in Owners : /\ Abandoning(n)' <=> Abandoning(n)
                            /\ Leading(n)' <=> Leading(n)
      BY <2>4 DEF JoinWorkers, Leading, Abandoning, AfterJoin, TypeOK
    <3>3. ClosedQueues' /\ outstanding' <= outstanding /\ \A w \in Workers : at[w] = "off"
      BY <2>4, <3>1 DEF JoinWorkers, ClosedQueues, LInv, TypeOK
    <3> QED BY <3>1, <3>2, <3>3, LeaderKept
  <2>5. CASE BeginShutdown(m)
    <3>1. /\ lifecycle = "Running" /\ lifecycle' = "Stopping" /\ at' = at
          /\ \A p \in Priorities : requests'[p] = <<>>
          /\ owner' = [owner EXCEPT ![m] = "stopping"]
      BY <2>5 DEF BeginShutdown, Cleared, workers
    <3>2. \A n \in Owners : ~Leading(n)
      BY <3>1 DEF LInv, OneLeader
    <3>3. \A n \in Owners : /\ Leading(n)' <=> n = m
                            /\ ~AfterJoin(n)' /\ ~Abandoning(n)'
      BY <3>1, <3>2 DEF Leading, Abandoning, AfterJoin, TypeOK
    <3> QED BY <3>1, <3>3 DEF LInv, OneLeader, ClosedQueues, NothingLeft, WorkersOff
  <2>6. CASE FinishAbandon(m)
    <3>1. /\ Abandoning(m) /\ lifecycle' = "Stopped" /\ UNCHANGED <<requests, outstanding, at>>
          /\ \A w \in Workers : at[w] = "off"
          /\ \A n \in Owners : owner'[n] = IF n = m THEN "idle" ELSE Woken(n)
      BY <2>6 DEF FinishAbandon, Abandoning, WakeOthers, queues, counters, workers
    <3>2. outstanding = 0 /\ lifecycle = "Stopping" /\ \A n \in Owners : Leading(n) => n = m
      BY <3>1 DEF LInv, NothingLeft, OneLeader, Leading
    <3>3. \A n \in Owners : ~Leading(n)' /\ ~Abandoning(n)' /\ ~AfterJoin(n)'
      BY <3>1, <3>2 DEF Woken, Leading, Abandoning, AfterJoin
    <3> QED BY <3>1, <3>2, <3>3 DEF LInv, OneLeader, ClosedQueues, NothingLeft, WorkersOff
  <2>7. CASE FinishShutdown(m)
    <3>1. /\ AfterJoin(m) /\ lifecycle' = "Stopped" /\ UNCHANGED <<requests, at>>
          /\ activeRequests' = 0 /\ completionsInFlight' = 0
          /\ \A p \in Priorities : completions'[p] = <<>>
          /\ \A n \in Owners : owner'[n] = IF n = m THEN "idle" ELSE Woken(n)
      BY <2>7 DEF FinishShutdown, Drained, Cleared, AfterJoin, WakeOthers, workers
    <3>2. /\ lifecycle = "Stopping" /\ \A n \in Owners : Leading(n) => n = m
          /\ \A w \in Workers : at[w] = "off"
          /\ \A p \in Priorities : requests[p] = <<>>
      BY <3>1 DEF LInv, ClosedQueues, WorkersOff, OneLeader, Leading
    <3>3. \A n \in Owners : ~Leading(n)' /\ ~Abandoning(n)' /\ ~AfterJoin(n)'
      BY <3>1, <3>2 DEF Woken, Leading, Abandoning, AfterJoin
    <3>4. outstanding' = 0
      <4>1. \A p \in Priorities : requests'[p] = <<>> /\ completions'[p] = <<>>
        BY <3>1, <3>2
      <4>2. TypeOK' /\ Accounting'
        OBVIOUS
      <4> QED BY <3>1, <4>1, <4>2, EmptyPlacesThen DEF EmptyPlaces
    <3> QED BY <3>1, <3>2, <3>3, <3>4 DEF LInv, OneLeader, ClosedQueues, NothingLeft, WorkersOff
  <2> QED BY <1>5, <2>1, <2>2, <2>3, <2>4, <2>5, <2>6, <2>7 DEF OwnerNext, OwnerReturns
<1>6. CASE UNCHANGED vars
  <2>1. UNCHANGED <<lifecycle, owner, outstanding, requests, at>>
    BY <1>6 DEF vars, queues, counters, workers
  <2>2. ClosedQueues'
    BY <2>1 DEF ClosedQueues, LInv
  <2> QED BY <1>0, <2>1, <2>2
<1> QED BY <1>1, <1>2, <1>3, <1>4, <1>5, <1>6 DEF Next

-----------------------------------------------------------------------------
LEMMA InvHolds == Spec => []Inv
<1>1. Init => Inv
  BY InitIInv, InitLInv DEF Inv
<1>2. Inv /\ [Next]_vars => Inv'
  <2> SUFFICES ASSUME Inv, [Next]_vars PROVE Inv'
    OBVIOUS
  <2>1. IInv'
    BY NextIInv DEF Inv, LInv
  <2> QED BY <2>1, NextLInv DEF Inv
<1> QED BY <1>1, <1>2, PTL DEF Spec

(* The counters of MonsterComputeService have the types their uses assume:  *)
(* in particular no decrement of a size_t ever wraps below zero.            *)
THEOREM TypeCorrect == Spec => []TypeOK
<1>1. Inv => TypeOK
  BY DEF Inv, IInv
<1> QED BY <1>1, InvHolds, PTL

(* outstanding, activeRequests and completionsInFlight always equal what    *)
(* the queues, threads and batch hold (the asserts of the service).         *)
THEOREM AccountingHolds == Spec => []Accounting
<1>1. Inv => Accounting
  BY DEF Inv, IInv
<1> QED BY <1>1, InvHolds, PTL

(* submit never admits more than the capacity, nor background work into the *)
(* reserve of the visible monsters.                                         *)
THEOREM AdmissionBounded == Spec => []AdmissionBound
<1>1. Inv => AdmissionBound
  BY DEF Inv, IInv
<1> QED BY <1>1, InvHolds, PTL

(* The assert of enqueueCompletion: a thread that has executed a request    *)
(* finds room for its completion.                                           *)
THEOREM RoomWhenPublishing == Spec => []RoomToPublish
<1>1. Inv => RoomToPublish
  <2> SUFFICES ASSUME Inv, NEW t \in Threads, at[t] = "executing"
               PROVE  TotalLen(completions) < Capacity
    BY DEF RoomToPublish
  <2> USE DEF Inv, IInv
  <2>1. held[t] # None
    BY DEF HeldWhileExecuting
  <2>2. held[t].priority \in Priorities
    BY <2>1 DEF TypeOK, Request
  <2>3. ASSUME NEW p \in Priorities
        PROVE  /\ Waiting(p) \in Nat /\ Executing(p) \in Nat /\ Published(p) \in Nat
               /\ Taken(p) \in Nat /\ outstandingOf[p] \in Nat
               /\ outstandingOf[p] = Waiting(p) + Executing(p) + Published(p) + Taken(p)
    BY PlacesTyped DEF Accounting, Balanced
  <2>4. "Visible" \in Priorities /\ "Background" \in Priorities
    BY DEF Priorities
  <2>5. ASSUME NEW p \in Priorities, held[t].priority = p
        PROVE  Executing(p) >= 1
    <3>1. t \in Holding(p) /\ IsFiniteSet(Holding(p))
      BY <2>5, HoldingFinite DEF Holding
    <3>2. Cardinality(Holding(p)) # 0
      BY <3>1, FS_EmptySet
    <3> QED BY <3>2, <2>3 DEF Executing
  <2>6. Executing("Visible") + Executing("Background") >= 1
    BY <2>2, <2>3, <2>4, <2>5 DEF Priorities
  <2>7. outstanding = outstandingOf["Visible"] + outstandingOf["Background"] /\ outstanding <= Capacity
    BY DEF Accounting, AdmissionBound
  <2>8. TotalLen(completions) = Published("Visible") + Published("Background")
    BY DEF TotalLen, Published
  <2> QED BY <2>3, <2>4, <2>6, <2>7, <2>8, CapacityAssumption
<1> QED BY <1>1, InvHolds, PTL

(* When shutdown has set Stopped nothing of the service is left, neither in *)
(* its queues and counters nor on its workers or in the dispatcher's batch. *)
THEOREM StoppedQuiet == Spec => []StoppedIsQuiet
<1>1. Inv => StoppedIsQuiet
  <2> SUFFICES ASSUME Inv, lifecycle = "Stopped"
               PROVE  /\ ~SomeQueued(requests) /\ ~SomeQueued(completions) /\ pending = <<>>
                      /\ \A t \in Threads : at[t] # "executing"
                      /\ \A w \in Workers : at[w] = "off"
                      /\ outstanding = 0 /\ \A p \in Priorities : outstandingOf[p] = 0
    BY DEF StoppedIsQuiet
  <2> USE DEF Inv, IInv, LInv
  <2>1. outstanding = 0 /\ \A w \in Workers : at[w] = "off"
    BY DEF NothingLeft, WorkersOff
  <2>2. "Visible" \in Priorities /\ "Background" \in Priorities
    BY DEF Priorities
  <2>3. ASSUME NEW p \in Priorities
        PROVE  /\ Waiting(p) \in Nat /\ Executing(p) \in Nat /\ Published(p) \in Nat
               /\ Taken(p) \in Nat /\ outstandingOf[p] \in Nat
               /\ outstandingOf[p] = Waiting(p) + Executing(p) + Published(p) + Taken(p)
    BY PlacesTyped DEF Accounting, Balanced
  <2>4. outstandingOf["Visible"] = 0 /\ outstandingOf["Background"] = 0
    BY <2>1, <2>2, <2>3 DEF Accounting
  <2>5. ASSUME NEW p \in Priorities
        PROVE  /\ outstandingOf[p] = 0 /\ Waiting(p) = 0 /\ Executing(p) = 0
               /\ Published(p) = 0 /\ Taken(p) = 0
    <3>1. outstandingOf[p] = 0
      BY <2>4, <2>5 DEF Priorities
    <3> QED BY <2>3, <2>5, <3>1
  <2>6. ASSUME NEW p \in Priorities PROVE requests[p] = <<>> /\ completions[p] = <<>>
    BY <2>5 DEF Waiting, Published, TypeOK
  <2>7. ASSUME NEW t \in Threads, at[t] = "executing" PROVE FALSE
    <3>1. held[t] # None
      BY <2>7 DEF HeldWhileExecuting
    <3>2. PICK p \in Priorities : held[t].priority = p
      BY <3>1 DEF TypeOK, Request
    <3>3. t \in Holding(p) /\ IsFiniteSet(Holding(p))
      BY <3>2, HoldingFinite DEF Holding
    <3> QED BY <3>3, <2>5, FS_EmptySet DEF Executing
  <2>8. ASSUME pending # <<>> PROVE FALSE
    <3>1. next \in Nat /\ Len(pending) \in Nat /\ next <= Len(pending) /\ next >= 1
      BY <2>8 DEF BatchShape, TypeOK
    <3>2. PICK p \in Priorities : pending[next].priority = p
      <4>1. pending[next] \in Request
        BY <3>1 DEF TypeOK
      <4> QED BY <4>1 DEF Request
    <3>3. next \in InFlight(p) /\ IsFiniteSet(InFlight(p))
      BY <3>1, <3>2, InFlightFinite DEF InFlight
    <3> QED BY <3>3, <2>5, FS_EmptySet DEF Taken
  <2> QED BY <2>1, <2>5, <2>6, <2>7, <2>8 DEF SomeQueued
<1> QED BY <1>1, InvHolds, PTL

-----------------------------------------------------------------------------
(* MonsterCompute implements ComputePromise.                               *)

(* No token is twice in the queues q.                                       *)
DistinctQueues(q) ==
    \A p, o \in Priorities : \A i \in 1..Len(q[p]), j \in 1..Len(q[o]) :
        q[p][i] = q[o][j] => p = o /\ i = j

DistinctHeld ==
    \A t, u \in Threads :
        held[t] # None /\ held[u] # None /\ held[t].token = held[u].token => t = u

DistinctBatch ==
    \A i, j \in next..Len(pending) : pending[i].token = pending[j].token => i = j

Apart(S, T) == \A j \in S, k \in T : j.token # k.token

(* A token is in one place only.                                            *)
OnePlaceEach ==
    /\ DistinctQueues(requests) /\ DistinctQueues(completions)
    /\ DistinctHeld /\ DistinctBatch
    /\ Apart(InQueue(requests), HeldJobs)
    /\ Apart(InQueue(requests), InQueue(completions))
    /\ Apart(InQueue(requests), BatchJobs)
    /\ Apart(HeldJobs, InQueue(completions))
    /\ Apart(HeldJobs, BatchJobs)
    /\ Apart(InQueue(completions), BatchJobs)

-----------------------------------------------------------------------------
(* How the sets of jobs change with the queues.                             *)
LEMMA AppendJob ==
  ASSUME NEW q \in [Priorities -> Seq(Tokens)], DistinctQueues(q),
         NEW p \in Priorities, NEW k \in Tokens,
         \A j \in InQueue(q) : j.token # k,
         NEW r, r = [q EXCEPT ![p] = Append(@, k)]
  PROVE  /\ InQueue(r) = InQueue(q) \cup {[token |-> k, priority |-> p]}
         /\ DistinctQueues(r)
<1> DEFINE job == [token |-> k, priority |-> p]
           n == Len(q[p]) + 1
<1>1. \A o \in Priorities : q[o] \in Seq(Tokens) /\ Len(q[o]) \in Nat
  OBVIOUS
<1>2. /\ r[p] = Append(q[p], k) /\ Len(r[p]) = n /\ r[p][n] = k
      /\ \A i \in 1..Len(q[p]) : r[p][i] = q[p][i]
  BY <1>1
<1>3. \A o \in Priorities \ {p} : r[o] = q[o]
  OBVIOUS
<1>4. 1..n = 1..Len(q[p]) \cup {n}
  BY <1>1
<1>5. Queued(r, p) = Queued(q, p) \cup {job}
  BY <1>2, <1>4 DEF Queued
<1>6. \A o \in Priorities \ {p} : Queued(r, o) = Queued(q, o)
  BY <1>3 DEF Queued
<1>7. InQueue(r) = InQueue(q) \cup {job}
  BY <1>5, <1>6 DEF InQueue, Priorities
<1>8. \A o \in Priorities : \A i \in 1..Len(q[o]) : q[o][i] # k
  <2> SUFFICES ASSUME NEW o \in Priorities, NEW i \in 1..Len(q[o]) PROVE q[o][i] # k
    OBVIOUS
  <2>1. [token |-> q[o][i], priority |-> o] \in InQueue(q)
    BY DEF InQueue, Queued, Priorities
  <2> QED
    BY <2>1
<1>9. DistinctQueues(r)
  <2> SUFFICES ASSUME NEW o1 \in Priorities, NEW o2 \in Priorities,
                      NEW i \in 1..Len(r[o1]), NEW j \in 1..Len(r[o2]),
                      r[o1][i] = r[o2][j]
               PROVE  o1 = o2 /\ i = j
    BY DEF DistinctQueues
  <2>1. /\ (o1 = p /\ i = n) \/ (i \in 1..Len(q[o1]) /\ r[o1][i] = q[o1][i])
        /\ (o2 = p /\ j = n) \/ (j \in 1..Len(q[o2]) /\ r[o2][j] = q[o2][j])
    BY <1>2, <1>3, <1>4
  <2>2. CASE o1 = p /\ i = n
    BY <2>1, <2>2, <1>2, <1>8
  <2>3. CASE o2 = p /\ j = n
    BY <2>1, <2>3, <1>2, <1>8
  <2>4. CASE ~(o1 = p /\ i = n) /\ ~(o2 = p /\ j = n)
    BY <2>1, <2>4 DEF DistinctQueues
  <2> QED
    BY <2>2, <2>3, <2>4
<1> QED
  BY <1>7, <1>9

LEMMA PopJob ==
  ASSUME NEW q \in [Priorities -> Seq(Tokens)], DistinctQueues(q),
         NEW p \in Priorities, q[p] # <<>>,
         NEW r, r = [q EXCEPT ![p] = Tail(@)]
  PROVE  /\ [token |-> Head(q[p]), priority |-> p] \in InQueue(q)
         /\ InQueue(r) = InQueue(q) \ {[token |-> Head(q[p]), priority |-> p]}
         /\ DistinctQueues(r)
<1> DEFINE job == [token |-> Head(q[p]), priority |-> p]
           n == Len(q[p])
<1>1. \A o \in Priorities : q[o] \in Seq(Tokens) /\ Len(q[o]) \in Nat
  OBVIOUS
<1>2. /\ n \in Nat \ {0} /\ Head(q[p]) = q[p][1]
      /\ r[p] = Tail(q[p]) /\ Len(r[p]) = n - 1
      /\ \A i \in 1..(n - 1) : r[p][i] = q[p][i + 1]
  BY <1>1
<1>3. \A o \in Priorities \ {p} : r[o] = q[o]
  OBVIOUS
<1>4. job \in Queued(q, p)
  BY <1>2 DEF Queued
<1>5. \A i \in 1..n : q[p][i] = q[p][1] => i = 1
  BY <1>2 DEF DistinctQueues
<1>6. Queued(r, p) = Queued(q, p) \ {job}
  <2>1. ASSUME NEW i \in 1..(n - 1)
        PROVE  [token |-> r[p][i], priority |-> p] \in Queued(q, p) \ {job}
    <3>1. r[p][i] = q[p][i + 1] /\ i + 1 \in 1..n /\ i + 1 # 1
      BY <1>2
    <3>2. r[p][i] # Head(q[p])
      BY <3>1, <1>2, <1>5
    <3>3. [token |-> r[p][i], priority |-> p] # job
      BY <3>2
    <3> QED
      BY <3>1, <3>3 DEF Queued
  <2>2. ASSUME NEW j \in Queued(q, p), j # job
        PROVE  j \in Queued(r, p)
    <3>1. PICK i \in 1..n : j = [token |-> q[p][i], priority |-> p]
      BY DEF Queued
    <3>2. i # 1
      BY <3>1, <2>2, <1>2
    <3>3. i - 1 \in 1..(n - 1) /\ q[p][i] = r[p][i - 1]
      BY <3>2, <1>2
    <3> QED
      BY <3>1, <3>3, <1>2 DEF Queued
  <2>3. Queued(r, p) \subseteq Queued(q, p) \ {job}
    BY <2>1, <1>2 DEF Queued
  <2> QED
    BY <2>2, <2>3
<1>7. \A o \in Priorities \ {p} : Queued(r, o) = Queued(q, o) /\ job \notin Queued(q, o)
  BY <1>3 DEF Queued
<1>8. InQueue(r) = InQueue(q) \ {job} /\ job \in InQueue(q)
  <2>1. CASE p = "Visible"
    <3>1. /\ Queued(r, "Background") = Queued(q, "Background")
          /\ job \notin Queued(q, "Background")
          /\ Queued(r, "Visible") = Queued(q, "Visible") \ {job}
          /\ job \in Queued(q, "Visible")
      BY <2>1, <1>4, <1>6, <1>7 DEF Priorities
    <3> HIDE DEF job
    <3> QED
      BY <3>1 DEF InQueue
  <2>2. CASE p = "Background"
    <3>1. /\ Queued(r, "Visible") = Queued(q, "Visible")
          /\ job \notin Queued(q, "Visible")
          /\ Queued(r, "Background") = Queued(q, "Background") \ {job}
          /\ job \in Queued(q, "Background")
      BY <2>2, <1>4, <1>6, <1>7 DEF Priorities
    <3> HIDE DEF job
    <3> QED
      BY <3>1 DEF InQueue
  <2> QED
    BY <2>1, <2>2 DEF Priorities
<1>9. DistinctQueues(r)
  <2> SUFFICES ASSUME NEW o1 \in Priorities, NEW o2 \in Priorities,
                      NEW i \in 1..Len(r[o1]), NEW j \in 1..Len(r[o2]),
                      r[o1][i] = r[o2][j]
               PROVE  o1 = o2 /\ i = j
    BY DEF DistinctQueues
  <2>1. /\ o1 = p => i + 1 \in 1..n /\ r[o1][i] = q[o1][i + 1]
        /\ o1 # p => i \in 1..Len(q[o1]) /\ r[o1][i] = q[o1][i]
        /\ o2 = p => j + 1 \in 1..n /\ r[o2][j] = q[o2][j + 1]
        /\ o2 # p => j \in 1..Len(q[o2]) /\ r[o2][j] = q[o2][j]
    BY <1>2, <1>3
  <2>2. i \in Nat /\ j \in Nat
    BY <1>1, <1>2, <1>3
  <2>3. CASE o1 = p /\ o2 = p
    BY <2>1, <2>2, <2>3 DEF DistinctQueues
  <2>4. CASE o1 # p /\ o2 = p
    BY <2>1, <2>4 DEF DistinctQueues
  <2>5. CASE o1 = p /\ o2 # p
    BY <2>1, <2>5 DEF DistinctQueues
  <2>6. CASE o1 # p /\ o2 # p
    BY <2>1, <2>6 DEF DistinctQueues
  <2> QED
    BY <2>3, <2>4, <2>5, <2>6
<1> QED
  BY <1>8, <1>9

LEMMA ClearedJobs ==
  ASSUME NEW q
  PROVE  InQueue(Cleared(q)) = {} /\ DistinctQueues(Cleared(q))
<1>1. \A p \in Priorities : Cleared(q)[p] = <<>> /\ 1..Len(Cleared(q)[p]) = {}
  BY DEF Cleared
<1> QED
  BY <1>1 DEF InQueue, Queued, DistinctQueues, Priorities

(* How they change with the threads and the batch.                          *)
LEMMA TakeJob ==
  ASSUME TypeOK, DistinctHeld, NEW t \in Threads, held[t] = None,
         NEW r \in Request, \A j \in HeldJobs : j.token # r.token,
         held' = [held EXCEPT ![t] = r]
  PROVE  HeldJobs' = HeldJobs \cup {r} /\ DistinctHeld'
<1>1. r # None
  BY DEF Request, None, Priorities
<1>2. \A u \in Threads : held'[u] = IF u = t THEN r ELSE held[u]
  BY DEF TypeOK
<1>3. HeldJobs' = HeldJobs \cup {r}
  BY <1>1, <1>2 DEF HeldJobs
<1>4. \A u \in Threads \ {t} : held[u] # None => held[u].token # r.token
  BY DEF HeldJobs
<1>5. DistinctHeld'
  BY <1>2, <1>4 DEF DistinctHeld
<1> QED
  BY <1>3, <1>5

LEMMA GiveJob ==
  ASSUME TypeOK, DistinctHeld, NEW t \in Threads, held[t] # None,
         held' = [held EXCEPT ![t] = None]
  PROVE  /\ held[t] \in HeldJobs /\ held[t] \in Request
         /\ HeldJobs' = HeldJobs \ {held[t]} /\ DistinctHeld'
<1>1. \A u \in Threads : held'[u] = IF u = t THEN None ELSE held[u]
  BY DEF TypeOK
<1>2. held[t] \in HeldJobs /\ held[t] \in Request
  BY DEF HeldJobs, TypeOK
<1>3. \A u \in Threads \ {t} : held[u] # None => held[u] # held[t]
  BY DEF DistinctHeld
<1>4. HeldJobs' = HeldJobs \ {held[t]}
  BY <1>1, <1>3 DEF HeldJobs
<1>5. DistinctHeld'
  BY <1>1 DEF DistinctHeld
<1> QED
  BY <1>2, <1>4, <1>5

LEMMA JoinJob ==
  ASSUME TypeOK, DistinctBatch, NEW r \in Request, next' = next,
         next <= Len(pending) + 1,
         \A j \in BatchJobs : j.token # r.token,
         pending' = Append(pending, r)
  PROVE  BatchJobs' = BatchJobs \cup {r} /\ DistinctBatch'
<1> DEFINE n == Len(pending) + 1
<1>1. n \in Nat /\ next \in Nat /\ Len(pending') = n /\ Len(pending) \in Nat
  BY DEF TypeOK
<1>2. next..n = next..Len(pending) \cup {n} /\ n \notin next..Len(pending)
  BY <1>1
<1>3. /\ pending'[n] = r
      /\ \A i \in next..Len(pending) : pending'[i] = pending[i]
  BY <1>1 DEF TypeOK
<1>4. BatchJobs' = BatchJobs \cup {r}
  <2>1. BatchJobs' = {pending'[i] : i \in next..n}
    BY <1>1 DEF BatchJobs
  <2>2. {pending'[i] : i \in next..n} = {pending[i] : i \in next..Len(pending)} \cup {r}
    BY <1>2, <1>3
  <2> QED
    BY <2>1, <2>2 DEF BatchJobs
<1>5. \A i \in next..Len(pending) : pending[i].token # r.token
  BY DEF BatchJobs
<1>6. DistinctBatch'
  <2> SUFFICES ASSUME NEW i \in next..n, NEW j \in next..n,
                      pending'[i].token = pending'[j].token
               PROVE  i = j
    BY <1>1 DEF DistinctBatch
  <2>1. CASE i = n \/ j = n
    BY <2>1, <1>2, <1>3, <1>5
  <2>2. CASE i # n /\ j # n
    BY <2>2, <1>2, <1>3 DEF DistinctBatch
  <2> QED
    BY <2>1, <2>2
<1> QED
  BY <1>4, <1>6

LEMMA LeaveJob ==
  ASSUME TypeOK, DistinctBatch, pending # <<>>, next <= Len(pending),
         IF next < Len(pending)
         THEN next' = next + 1 /\ UNCHANGED pending
         ELSE next' = 1 /\ pending' = <<>>
  PROVE  /\ pending[next] \in BatchJobs /\ pending[next] \in Request
         /\ BatchJobs' = BatchJobs \ {pending[next]} /\ DistinctBatch'
<1>1. next \in Nat \ {0} /\ Len(pending) \in Nat
  BY DEF TypeOK
<1>2. next \in next..Len(pending) /\ next \in 1..Len(pending)
  BY <1>1
<1>3. pending[next] \in BatchJobs /\ pending[next] \in Request
  BY <1>2 DEF BatchJobs, TypeOK
<1>4. \A i \in next..Len(pending) : i # next => pending[i] # pending[next]
  BY <1>2 DEF DistinctBatch
<1>5. CASE next < Len(pending)
  <2>1. next..Len(pending) = (next'..Len(pending')) \cup {next}
    BY <1>1, <1>5
  <2>2. next \notin next'..Len(pending') /\ pending' = pending
    BY <1>1, <1>5
  <2>3. BatchJobs' = BatchJobs \ {pending[next]}
    BY <1>4, <2>1, <2>2 DEF BatchJobs
  <2>4. DistinctBatch'
    BY <2>1, <2>2 DEF DistinctBatch
  <2> QED
    BY <1>3, <2>3, <2>4
<1>6. CASE ~(next < Len(pending))
  <2>1. next..Len(pending) = {next} /\ next'..Len(pending') = {}
    BY <1>1, <1>6
  <2> QED
    BY <1>3, <2>1 DEF BatchJobs, DistinctBatch
<1> QED
  BY <1>5, <1>6

-----------------------------------------------------------------------------
(* The jobs of distinct queues have different tokens.                       *)
LEMMA QueueTokensDistinct ==
  ASSUME NEW q \in [Priorities -> Seq(Tokens)], DistinctQueues(q),
         NEW j \in InQueue(q), NEW k \in InQueue(q), j.token = k.token
  PROVE  j = k
<1>1. PICK p \in Priorities : j \in Queued(q, p)
  BY DEF InQueue, Priorities
<1>2. PICK i \in 1..Len(q[p]) : j = [token |-> q[p][i], priority |-> p]
  BY <1>1 DEF Queued
<1>3. PICK o \in Priorities : k \in Queued(q, o)
  BY DEF InQueue, Priorities
<1>4. PICK h \in 1..Len(q[o]) : k = [token |-> q[o][h], priority |-> o]
  BY <1>3 DEF Queued
<1>5. q[p][i] = q[o][h]
  BY <1>2, <1>4
<1> QED
  BY <1>2, <1>4, <1>5 DEF DistinctQueues

(* Every place is in Live, so a fresh token is in none.                     *)
LEMMA JobsAreLive ==
  ASSUME TypeOK
  PROVE  /\ \A j \in WaitingJobs \cup ReadyJobs : j.token \in Live
         /\ WaitingJobs \cup ReadyJobs \subseteq Request
<1>1. \A q \in [Priorities -> Seq(Tokens)] : \A j \in InQueue(q) :
          j.token \in QueuedTokens(q) /\ j \in Request
  BY DEF InQueue, Queued, QueuedTokens, Request, Priorities
<1>2. \A j \in HeldJobs : j.token \in HeldTokens /\ j \in Request
  BY DEF HeldJobs, HeldTokens, TypeOK
<1>3. ASSUME NEW j \in BatchJobs
      PROVE  j.token \in BatchTokens /\ j \in Request
  <2>1. PICK i \in next..Len(pending) : j = pending[i]
    BY DEF BatchJobs
  <2>2. i \in 1..Len(pending)
    BY <2>1 DEF TypeOK
  <2> QED
    BY <2>1, <2>2 DEF BatchTokens, TypeOK
<1>4. requests \in [Priorities -> Seq(Tokens)] /\ completions \in [Priorities -> Seq(Tokens)]
  BY DEF TypeOK
<1>5. ASSUME NEW j \in InQueue(requests) \cup InQueue(completions)
      PROVE  j.token \in Live /\ j \in Request
  BY <1>1, <1>4, <1>5 DEF Live
<1>6. ASSUME NEW j \in HeldJobs \cup BatchJobs
      PROVE  j.token \in Live /\ j \in Request
  BY <1>2, <1>3, <1>6 DEF Live
<1> QED
  BY <1>5, <1>6 DEF WaitingJobs, ReadyJobs

(* Steps that leave the places alone.                                       *)
LEMMA PlacesStay ==
  ASSUME OnePlaceEach, UNCHANGED <<requests, completions, held, pending, next>>
  PROVE  OnePlaceEach' /\ UNCHANGED <<WaitingJobs, ReadyJobs>>
BY DEF OnePlaceEach, WaitingJobs, ReadyJobs, HeldJobs, BatchJobs, InQueue,
       Queued, DistinctQueues, DistinctHeld, DistinctBatch, Apart

(* submit, inline or to a queue: a job that was nowhere is waiting.         *)
LEMMA SubmitJob ==
  ASSUME Inv, OnePlaceEach, NEW t \in Submitters, NEW p \in Priorities,
         Submit(t, p)
  PROVE  /\ OnePlaceEach' /\ ReadyJobs' = ReadyJobs
         /\ \E job \in Request \ (WaitingJobs \cup ReadyJobs) :
              job.priority = p /\ WaitingJobs' = WaitingJobs \cup {job}
<1>1. TypeOK
  BY DEF Inv, IInv
<1>2. PICK k \in Tokens : k = FreshToken /\ k \notin Live
  BY DEF Submit, FreshToken
<1> DEFINE job == [token |-> k, priority |-> p]
<1>3. job \in Request /\ \A j \in WaitingJobs \cup ReadyJobs : j.token # job.token
  BY <1>1, <1>2, JobsAreLive DEF Request
<1>4. /\ UNCHANGED <<completions, pending, next>>
      /\ InQueue(completions)' = InQueue(completions) /\ BatchJobs' = BatchJobs
      /\ DistinctQueues(completions)' /\ DistinctBatch'
  BY DEF Submit, batch, InQueue, Queued, BatchJobs, OnePlaceEach, DistinctQueues,
         DistinctBatch
<1>5. CASE inlineMode
  <2>1. held' = [held EXCEPT ![t] = job] /\ UNCHANGED requests
    BY <1>2, <1>5 DEF Submit
  <2>2. t \in Threads /\ held[t] = None
    BY DEF Inv, IInv, HeldWhileExecuting, Submit, Threads
  <2>3. HeldJobs' = HeldJobs \cup {job} /\ DistinctHeld'
    BY <1>1, <1>3, <2>1, <2>2, TakeJob DEF OnePlaceEach, WaitingJobs
  <2>4. InQueue(requests)' = InQueue(requests) /\ DistinctQueues(requests)'
    BY <2>1 DEF InQueue, Queued, OnePlaceEach, DistinctQueues
  <2>5. OnePlaceEach'
    BY <1>3, <1>4, <2>3, <2>4 DEF OnePlaceEach, Apart, WaitingJobs, ReadyJobs
  <2>6. WaitingJobs' = WaitingJobs \cup {job} /\ ReadyJobs' = ReadyJobs
    BY <1>4, <2>3, <2>4 DEF WaitingJobs, ReadyJobs
  <2> QED
    BY <1>3, <2>5, <2>6
<1>6. CASE ~inlineMode
  <2>1. requests' = [requests EXCEPT ![p] = Append(@, k)] /\ UNCHANGED held
    BY <1>2, <1>6 DEF Submit
  <2>2. /\ InQueue(requests') = InQueue(requests) \cup {job}
        /\ DistinctQueues(requests')
    <3>1. requests \in [Priorities -> Seq(Tokens)] /\ DistinctQueues(requests)
      BY <1>1 DEF TypeOK, OnePlaceEach
    <3>2. \A j \in InQueue(requests) : j.token # k
      BY <1>3 DEF WaitingJobs
    <3> QED
      BY <2>1, <3>1, <3>2, AppendJob
  <2>3. HeldJobs' = HeldJobs /\ DistinctHeld'
    BY <2>1 DEF HeldJobs, OnePlaceEach, DistinctHeld
  <2>4. OnePlaceEach'
    BY <1>3, <1>4, <2>2, <2>3 DEF OnePlaceEach, Apart, WaitingJobs, ReadyJobs
  <2>5. WaitingJobs' = WaitingJobs \cup {job} /\ ReadyJobs' = ReadyJobs
    BY <1>4, <2>2, <2>3 DEF WaitingJobs, ReadyJobs
  <2> QED
    BY <1>3, <2>4, <2>5
<1> QED
  BY <1>5, <1>6

(* A worker takes a request: it is still waiting.                           *)
LEMMA PopWaits ==
  ASSUME Inv, OnePlaceEach, NEW w \in Workers, PopNextRequest(w)
  PROVE  OnePlaceEach' /\ UNCHANGED <<WaitingJobs, ReadyJobs>>
<1> DEFINE p0 == NextPriority(requests, streak)
<1>1. PICK p \in Priorities : p = p0 /\ requests[p] # <<>>
  BY DEF PopNextRequest, NextPriority, SelectsVisible, SomeQueued, Priorities
<1>2. TypeOK /\ w \in Threads /\ held[w] = None
  BY DEF Inv, IInv, HeldWhileExecuting, PopNextRequest, Threads
<1>3. PICK job \in Request : job = [token |-> Head(requests[p]), priority |-> p]
  <2>1. requests[p] \in Seq(Tokens)
    BY <1>2 DEF TypeOK
  <2>2. Head(requests[p]) \in Tokens
    BY <1>1, <2>1
  <2> QED
    BY <2>2 DEF Request
<1>4. /\ held' = [held EXCEPT ![w] = job]
      /\ requests' = [requests EXCEPT ![p] = Tail(@)]
      /\ UNCHANGED <<completions, pending, next>>
  BY <1>1, <1>3 DEF PopNextRequest, batch
<1>5. /\ job \in InQueue(requests) /\ InQueue(requests') = InQueue(requests) \ {job}
      /\ DistinctQueues(requests')
  <2>1. requests \in [Priorities -> Seq(Tokens)] /\ DistinctQueues(requests)
    BY <1>2 DEF TypeOK, OnePlaceEach
  <2>2. requests[p] # <<>> /\ requests' = [requests EXCEPT ![p] = Tail(@)]
    BY <1>1, <1>4
  <2> HIDE DEF p0
  <2> QED
    BY <2>1, <2>2, <1>3, PopJob
<1>6. HeldJobs' = HeldJobs \cup {job} /\ DistinctHeld'
  BY <1>2, <1>4, <1>5, TakeJob DEF OnePlaceEach, Apart
<1>7. /\ InQueue(completions') = InQueue(completions) /\ BatchJobs' = BatchJobs
      /\ DistinctQueues(completions') /\ DistinctBatch'
  BY <1>4 DEF BatchJobs, OnePlaceEach, DistinctBatch
<1>8. \A j \in InQueue(requests') : j.token # job.token
  <2> SUFFICES ASSUME NEW j \in InQueue(requests), j.token = job.token PROVE j = job
    BY <1>5
  <2> QED
    BY <1>5, QueueTokensDistinct, <1>2 DEF OnePlaceEach, TypeOK
<1>9. OnePlaceEach'
  BY <1>5, <1>6, <1>7, <1>8 DEF OnePlaceEach, Apart
<1> QED
  BY <1>5, <1>6, <1>7, <1>9 DEF WaitingJobs, ReadyJobs

(* A thread publishes: its job was waiting and is ready.                    *)
LEMMA EnqueueJob ==
  ASSUME Inv, OnePlaceEach, NEW t \in Threads, EnqueueCompletion(t)
  PROVE  /\ OnePlaceEach'
         /\ \E job \in WaitingJobs :
              /\ job \in Request
              /\ WaitingJobs' = WaitingJobs \ {job}
              /\ ReadyJobs' = ReadyJobs \cup {job}
<1>1. TypeOK /\ held[t] # None
  BY DEF Inv, IInv, HeldWhileExecuting, EnqueueCompletion
<1>2. PICK job \in Request : job = held[t]
  BY <1>1 DEF TypeOK
<1>3. /\ held' = [held EXCEPT ![t] = None]
      /\ completions' = [completions EXCEPT ![job.priority] = Append(@, job.token)]
      /\ UNCHANGED <<requests, pending, next>>
  BY <1>2 DEF EnqueueCompletion, batch
<1>4. job \in HeldJobs /\ HeldJobs' = HeldJobs \ {job} /\ DistinctHeld'
  BY <1>1, <1>2, <1>3, GiveJob DEF OnePlaceEach
<1>5. /\ InQueue(completions') = InQueue(completions) \cup {job}
      /\ DistinctQueues(completions')
  <2>1. job.priority \in Priorities /\ job.token \in Tokens
        /\ job = [token |-> job.token, priority |-> job.priority]
    BY DEF Request
  <2>2. \A j \in InQueue(completions) : j.token # job.token
    BY <1>4 DEF OnePlaceEach, Apart
  <2>3. completions \in [Priorities -> Seq(Tokens)] /\ DistinctQueues(completions)
    BY <1>1 DEF TypeOK, OnePlaceEach
  <2> QED
    BY <1>3, <2>1, <2>2, <2>3, AppendJob, ZenonT(40)
<1>6. /\ InQueue(requests') = InQueue(requests) /\ BatchJobs' = BatchJobs
      /\ DistinctQueues(requests') /\ DistinctBatch'
  BY <1>3 DEF BatchJobs, OnePlaceEach, DistinctBatch
<1>7. \A j \in HeldJobs' : j.token # job.token
  BY <1>2, <1>4 DEF HeldJobs, OnePlaceEach, DistinctHeld
<1>8. OnePlaceEach'
  BY <1>4, <1>5, <1>6, <1>7 DEF OnePlaceEach, Apart
<1>9. WaitingJobs' = WaitingJobs \ {job} /\ ReadyJobs' = ReadyJobs \cup {job}
  BY <1>4, <1>5, <1>6 DEF WaitingJobs, ReadyJobs, OnePlaceEach, Apart
<1> QED
  BY <1>4, <1>8, <1>9 DEF WaitingJobs

(* The dispatcher takes a completion into its batch: it is still ready.     *)
LEMMA SelectStaysReady ==
  ASSUME Inv, OnePlaceEach, SelectCompletion
  PROVE  OnePlaceEach' /\ UNCHANGED <<WaitingJobs, ReadyJobs>>
<1> DEFINE p0 == NextPriority(completions, completionStreak)
<1>1. TypeOK /\ next = 1 /\ Len(pending) \in Nat
  BY DEF Inv, IInv, BatchShape, SelectCompletion, TypeOK
<1>2. completions["Visible"] # <<>> \/ completions["Background"] # <<>>
  <2> SUFFICES ASSUME completions["Visible"] = <<>>, completions["Background"] = <<>>
               PROVE  FALSE
    OBVIOUS
  <2>1. TotalLen(completions) = 0
    BY DEF TotalLen
  <2>2. selecting <= TotalLen(completions) /\ selecting \in Nat /\ selecting > 0
    BY <1>1 DEF Inv, IInv, BatchShape, SelectCompletion, TypeOK
  <2> QED
    BY <2>1, <2>2
<1>3. PICK p \in Priorities : p = p0 /\ completions[p] # <<>>
  BY <1>2 DEF NextPriority, SelectsVisible, Priorities
<1>4. PICK job \in Request : job = [token |-> Head(completions[p]), priority |-> p]
  <2>1. completions[p] \in Seq(Tokens)
    BY <1>1 DEF TypeOK
  <2>2. Head(completions[p]) \in Tokens
    BY <1>3, <2>1
  <2> QED
    BY <2>2 DEF Request
<1>5. /\ pending' = Append(pending, job)
      /\ completions' = [completions EXCEPT ![p] = Tail(@)]
      /\ UNCHANGED <<requests, held, next>>
  BY <1>3, <1>4 DEF SelectCompletion, workers
<1>6. /\ job \in InQueue(completions)
      /\ InQueue(completions') = InQueue(completions) \ {job}
      /\ DistinctQueues(completions')
  BY <1>1, <1>3, <1>4, <1>5, PopJob, ZenonT(40) DEF TypeOK, OnePlaceEach
<1>7. BatchJobs' = BatchJobs \cup {job} /\ DistinctBatch'
  <2>1. \A j \in BatchJobs : j.token # job.token
    BY <1>6 DEF OnePlaceEach, Apart
  <2> QED
    BY <1>1, <1>5, <2>1, JoinJob DEF OnePlaceEach
<1>8. /\ InQueue(requests') = InQueue(requests) /\ HeldJobs' = HeldJobs
      /\ DistinctQueues(requests') /\ DistinctHeld'
  BY <1>5 DEF HeldJobs, OnePlaceEach, DistinctHeld
<1>9. \A j \in InQueue(completions') : j.token # job.token
  <2> SUFFICES ASSUME NEW j \in InQueue(completions), j.token = job.token PROVE j = job
    BY <1>6
  <2> QED
    BY <1>6, QueueTokensDistinct, <1>1 DEF OnePlaceEach, TypeOK
<1>10. OnePlaceEach'
  BY <1>6, <1>7, <1>8, <1>9 DEF OnePlaceEach, Apart
<1> QED
  BY <1>6, <1>7, <1>8, <1>10 DEF WaitingJobs, ReadyJobs

(* A record of the batch has run: its job has been served.                  *)
LEMMA CompleteServes ==
  ASSUME Inv, OnePlaceEach, CompleteRecord
  PROVE  /\ OnePlaceEach' /\ WaitingJobs' = WaitingJobs
         /\ \E job \in ReadyJobs : job \in Request /\ ReadyJobs' = ReadyJobs \ {job}
<1>1. TypeOK /\ pending # <<>> /\ next <= Len(pending)
  BY DEF Inv, IInv, BatchShape, CompleteRecord
<1>2. /\ UNCHANGED <<requests, completions, held>>
      /\ IF next < Len(pending)
         THEN next' = next + 1 /\ UNCHANGED pending
         ELSE next' = 1 /\ pending' = <<>>
  BY DEF CompleteRecord, queues, workers
<1>3. PICK job : job = pending[next]
  OBVIOUS
<1>4. /\ job \in BatchJobs /\ job \in Request
      /\ BatchJobs' = BatchJobs \ {job} /\ DistinctBatch'
  BY <1>1, <1>2, <1>3, LeaveJob DEF OnePlaceEach
<1>5. /\ InQueue(requests') = InQueue(requests) /\ HeldJobs' = HeldJobs
      /\ InQueue(completions') = InQueue(completions)
      /\ DistinctQueues(requests') /\ DistinctQueues(completions') /\ DistinctHeld'
  BY <1>2 DEF HeldJobs, OnePlaceEach, DistinctHeld
<1>6. OnePlaceEach'
  BY <1>4, <1>5 DEF OnePlaceEach, Apart
<1>7. WaitingJobs' = WaitingJobs /\ ReadyJobs' = ReadyJobs \ {job}
  BY <1>4, <1>5 DEF WaitingJobs, ReadyJobs, OnePlaceEach, Apart
<1> QED
  BY <1>4, <1>6, <1>7 DEF ReadyJobs

-----------------------------------------------------------------------------
(* Where nothing is counted there is nothing.                               *)
LEMMA NothingHeld ==
  ASSUME TypeOK, \A p \in Priorities : Executing(p) = 0
  PROVE  HeldJobs = {}
<1> SUFFICES ASSUME NEW t \in Threads, held[t] # None PROVE FALSE
  BY DEF HeldJobs
<1>1. PICK p \in Priorities : held[t].priority = p
  BY DEF TypeOK, Request
<1>2. t \in Holding(p) /\ IsFiniteSet(Holding(p)) /\ Cardinality(Holding(p)) = 0
  BY <1>1, HoldingFinite DEF Holding, Executing
<1> QED
  BY <1>2, FS_EmptySet

LEMMA NothingTaken ==
  ASSUME TypeOK, \A p \in Priorities : Taken(p) = 0
  PROVE  BatchJobs = {}
<1> SUFFICES ASSUME NEW i \in next..Len(pending) PROVE FALSE
  BY DEF BatchJobs
<1>1. i \in 1..Len(pending)
  BY DEF TypeOK
<1>2. PICK p \in Priorities : pending[i].priority = p
  <2>1. pending[i] \in Request
    BY <1>1 DEF TypeOK
  <2> QED
    BY <2>1 DEF Request
<1>3. i \in InFlight(p) /\ IsFiniteSet(InFlight(p)) /\ Cardinality(InFlight(p)) = 0
  BY <1>2, InFlightFinite DEF InFlight, Taken
<1> QED
  BY <1>3, FS_EmptySet

LEMMA NothingQueued ==
  ASSUME NEW q, \A p \in Priorities : q[p] = <<>>
  PROVE  InQueue(q) = {}
<1>1. Len(q["Visible"]) = 0 /\ Len(q["Background"]) = 0
  BY DEF Priorities
<1> QED
  BY <1>1 DEF InQueue, Queued

(* shutdown empties the request queues and cancels what was in them.        *)
LEMMA ShutdownCancels ==
  ASSUME OnePlaceEach, NEW m \in Owners, BeginShutdown(m)
  PROVE  /\ OnePlaceEach'
         /\ WaitingJobs' \subseteq WaitingJobs /\ ReadyJobs' = ReadyJobs
<1>1. requests' = Cleared(requests) /\ UNCHANGED <<completions, held, pending, next>>
  BY DEF BeginShutdown, workers, batch
<1>2. InQueue(requests') = {} /\ DistinctQueues(requests')
  BY <1>1, ClearedJobs
<1>3. /\ HeldJobs' = HeldJobs /\ BatchJobs' = BatchJobs /\ DistinctHeld' /\ DistinctBatch'
      /\ InQueue(completions') = InQueue(completions) /\ DistinctQueues(completions')
  BY <1>1 DEF HeldJobs, BatchJobs, OnePlaceEach, DistinctHeld, DistinctBatch
<1> QED
  BY <1>2, <1>3 DEF OnePlaceEach, Apart, WaitingJobs, ReadyJobs

(* When its end comes nothing waits, and what is ready is cleared.          *)
LEMMA FinishClears ==
  ASSUME Inv, OnePlaceEach, NEW m \in Owners, FinishShutdown(m)
  PROVE  /\ OnePlaceEach' /\ lifecycle = "Stopping"
         /\ WaitingJobs = {} /\ WaitingJobs' = {} /\ ReadyJobs' = {}
<1>1. /\ activeRequests = 0 /\ completionsInFlight = 0
      /\ completions' = Cleared(completions)
      /\ UNCHANGED <<requests, held, pending, next>>
  BY DEF FinishShutdown, Drained, workers, batch
<1>2. TypeOK /\ Accounting /\ OneLeader /\ ClosedQueues
  BY DEF Inv, IInv, LInv
<1>3. lifecycle = "Stopping"
  BY <1>2 DEF OneLeader, Leading, AfterJoin, FinishShutdown
<1>4. \A p \in Priorities : Executing(p) \in Nat /\ Taken(p) \in Nat
  BY <1>2, PlacesTyped
<1>5. \A p \in Priorities : Executing(p) = 0 /\ Taken(p) = 0
  <2>1. /\ Executing("Visible") \in Nat /\ Executing("Background") \in Nat
        /\ Taken("Visible") \in Nat /\ Taken("Background") \in Nat
    BY <1>4 DEF Priorities
  <2>2. /\ Executing("Visible") + Executing("Background") = 0
        /\ Taken("Visible") + Taken("Background") = 0
    BY <1>1, <1>2 DEF Accounting
  <2>3. /\ Executing("Visible") = 0 /\ Executing("Background") = 0
        /\ Taken("Visible") = 0 /\ Taken("Background") = 0
    BY <2>1, <2>2
  <2> QED
    BY <2>3 DEF Priorities
<1>6. HeldJobs = {} /\ BatchJobs = {}
  BY <1>2, <1>5, NothingHeld, NothingTaken
<1>7. InQueue(requests) = {}
  BY <1>2, <1>3, NothingQueued DEF ClosedQueues
<1>8. /\ HeldJobs' = {} /\ BatchJobs' = {} /\ DistinctHeld' /\ DistinctBatch'
      /\ InQueue(requests') = {} /\ DistinctQueues(requests')
  <2>1. HeldJobs' = HeldJobs /\ BatchJobs' = BatchJobs
    BY <1>1 DEF HeldJobs, BatchJobs
  <2>2. DistinctHeld' /\ DistinctBatch' /\ DistinctQueues(requests')
    BY <1>1 DEF OnePlaceEach, DistinctHeld, DistinctBatch
  <2> QED
    BY <1>1, <1>6, <1>7, <2>1, <2>2
<1>9. InQueue(completions') = {} /\ DistinctQueues(completions')
  BY <1>1, ClearedJobs
<1> QED
  BY <1>3, <1>6, <1>7, <1>8, <1>9 DEF OnePlaceEach, Apart, WaitingJobs, ReadyJobs

(* A start that is abandoned closes a service that never had a job.         *)
LEMMA AbandonedIsEmpty ==
  ASSUME Inv, NEW m \in Owners, owner[m] = "abandonJoining"
  PROVE  lifecycle = "Stopping" /\ WaitingJobs = {} /\ ReadyJobs = {}
<1>1. TypeOK /\ Accounting /\ OneLeader /\ NothingLeft
  BY DEF Inv, IInv, LInv
<1>2. lifecycle = "Stopping" /\ outstanding = 0
  BY <1>1 DEF OneLeader, NothingLeft, Leading, Abandoning
<1>3. ASSUME NEW p \in Priorities
      PROVE  /\ Waiting(p) \in Nat /\ Executing(p) \in Nat /\ Published(p) \in Nat
             /\ Taken(p) \in Nat /\ outstandingOf[p] \in Nat
             /\ outstandingOf[p] = Waiting(p) + Executing(p) + Published(p) + Taken(p)
  BY <1>1, PlacesTyped DEF Accounting, Balanced
<1>4. outstandingOf["Visible"] + outstandingOf["Background"] = 0
  BY <1>1, <1>2 DEF Accounting
<1>5. outstandingOf["Visible"] = 0 /\ outstandingOf["Background"] = 0
  BY <1>3, <1>4 DEF Priorities
<1>6. ASSUME NEW p \in Priorities
      PROVE  Waiting(p) = 0 /\ Executing(p) = 0 /\ Published(p) = 0 /\ Taken(p) = 0
  <2>1. outstandingOf[p] = 0
    BY <1>5, <1>6 DEF Priorities
  <2>2. /\ Waiting(p) \in Nat /\ Executing(p) \in Nat /\ Published(p) \in Nat
        /\ Taken(p) \in Nat
        /\ Waiting(p) + Executing(p) + Published(p) + Taken(p) = 0
    BY <1>3, <1>6, <2>1
  <2> QED
    BY <2>2
<1>7. \A p \in Priorities : requests[p] = <<>> /\ completions[p] = <<>>
  BY <1>1, <1>6 DEF Waiting, Published, TypeOK
<1>8. InQueue(requests) = {} /\ InQueue(completions) = {}
  BY <1>7, NothingQueued
<1>9. HeldJobs = {} /\ BatchJobs = {}
  BY <1>1, <1>6, NothingHeld, NothingTaken
<1> QED
  BY <1>2, <1>8, <1>9 DEF WaitingJobs, ReadyJobs

-----------------------------------------------------------------------------
(* How many jobs there are.                                                 *)
HeldOf(p) == {held[t] : t \in Holding(p)}
BatchOf(p) == {pending[i] : i \in InFlight(p)}
JobsOf(p) == {j \in WaitingJobs \cup ReadyJobs : j.priority = p}

(* A set of values of a function is no greater than its domain.             *)
LEMMA ImageIsSmaller ==
  ASSUME NEW S, IsFiniteSet(S), NEW f, NEW T, T = {f[s] : s \in S}
  PROVE  IsFiniteSet(T) /\ Cardinality(T) <= Cardinality(S)
<1> DEFINE g == [s \in S |-> f[s]]
<1>1. g \in Surjection(S, T)
  BY DEF Surjection
<1> QED
  BY <1>1, FS_Surjection

LEMMA UnionCounted ==
  ASSUME NEW S, NEW T, IsFiniteSet(S), IsFiniteSet(T)
  PROVE  /\ IsFiniteSet(S \cup T)
         /\ Cardinality(S \cup T) <= Cardinality(S) + Cardinality(T)
<1>1. S \cap T \in SUBSET S
  OBVIOUS
<1>2. IsFiniteSet(S \cap T)
  BY <1>1, FS_Subset
<1>3. /\ Cardinality(S) \in Nat /\ Cardinality(T) \in Nat
      /\ Cardinality(S \cap T) \in Nat
  BY <1>2, FS_CardinalityType
<1>4. /\ IsFiniteSet(S \cup T)
      /\ Cardinality(S \cup T) =
            Cardinality(S) + Cardinality(T) - Cardinality(S \cap T)
  BY FS_Union
<1> QED
  BY <1>3, <1>4

LEMMA QueuedCounted ==
  ASSUME NEW q \in [Priorities -> Seq(Tokens)], NEW p \in Priorities
  PROVE  IsFiniteSet(Queued(q, p)) /\ Cardinality(Queued(q, p)) <= Len(q[p])
<1> DEFINE f == [i \in 1..Len(q[p]) |-> [token |-> q[p][i], priority |-> p]]
<1> DEFINE n == Len(q[p])
<1>1. n \in Nat
  OBVIOUS
<1>2. Queued(q, p) = {f[i] : i \in 1..n}
  BY DEF Queued
<1> HIDE DEF f, n
<1>3. IsFiniteSet(1..n) /\ Cardinality(1..n) = IF 1 > n THEN 0 ELSE n - 1 + 1
  <2>1. 1 \in Int /\ n \in Int
    BY <1>1
  <2> QED
    BY <2>1, FS_Interval
<1>4. IsFiniteSet(1..n) /\ Cardinality(1..n) = n
  BY <1>1, <1>3
<1>5. IsFiniteSet(Queued(q, p)) /\ Cardinality(Queued(q, p)) <= n
  <2> DEFINE T == Queued(q, p)
             S == 1..n
  <2>1. IsFiniteSet(S) /\ T = {f[i] : i \in S} /\ Cardinality(S) = n
    BY <1>2, <1>4
  <2> HIDE DEF T, S
  <2>2. IsFiniteSet(T) /\ Cardinality(T) <= Cardinality(S)
    BY <2>1, ImageIsSmaller
  <2> QED
    BY <2>1, <2>2 DEF T
<1> QED
  BY <1>5 DEF n

LEMMA JobsCounted ==
  ASSUME TypeOK, Accounting, NEW p \in Priorities
  PROVE  IsFiniteSet(JobsOf(p)) /\ Cardinality(JobsOf(p)) <= outstandingOf[p]
<1> DEFINE A == Queued(requests, p)
           B == HeldOf(p)
           C == Queued(completions, p)
           D == BatchOf(p)
<1>1. IsFiniteSet(A) /\ Cardinality(A) <= Waiting(p)
  BY QueuedCounted DEF TypeOK, Waiting
<1>2. IsFiniteSet(C) /\ Cardinality(C) <= Published(p)
  BY QueuedCounted DEF TypeOK, Published
<1>3. IsFiniteSet(B) /\ Cardinality(B) <= Executing(p)
  BY HoldingFinite, ImageIsSmaller DEF HeldOf, Executing
<1>4. IsFiniteSet(D) /\ Cardinality(D) <= Taken(p)
  BY InFlightFinite, ImageIsSmaller DEF BatchOf, Taken
<1>5. JobsOf(p) \subseteq A \cup B \cup C \cup D
  <2> SUFFICES ASSUME NEW j \in WaitingJobs \cup ReadyJobs, j.priority = p
               PROVE  j \in A \cup B \cup C \cup D
    BY DEF JobsOf
  <2>1. CASE j \in InQueue(requests) \cup InQueue(completions)
    BY <2>1 DEF InQueue, Queued
  <2>2. CASE j \in HeldJobs
    BY <2>2 DEF HeldJobs, HeldOf, Holding
  <2>3. CASE j \in BatchJobs
    BY <2>3 DEF BatchJobs, BatchOf, InFlight
  <2> QED
    BY <2>1, <2>2, <2>3 DEF WaitingJobs, ReadyJobs
<1> HIDE DEF A, B, C, D
<1>6. IsFiniteSet(A \cup B) /\ Cardinality(A \cup B) <= Cardinality(A) + Cardinality(B)
  BY <1>1, <1>3, UnionCounted
<1>7. IsFiniteSet(C \cup D) /\ Cardinality(C \cup D) <= Cardinality(C) + Cardinality(D)
  BY <1>2, <1>4, UnionCounted
<1>8. /\ IsFiniteSet((A \cup B) \cup (C \cup D))
      /\ Cardinality((A \cup B) \cup (C \cup D)) <= Cardinality(A \cup B) + Cardinality(C \cup D)
  BY <1>6, <1>7, UnionCounted
<1>9. /\ IsFiniteSet(JobsOf(p))
      /\ Cardinality(JobsOf(p)) <= Cardinality((A \cup B) \cup (C \cup D))
  <2>1. JobsOf(p) \in SUBSET ((A \cup B) \cup (C \cup D))
    BY <1>5
  <2> QED
    BY <1>8, <2>1, FS_Subset
<1>10. outstandingOf[p] = Waiting(p) + Executing(p) + Published(p) + Taken(p)
  BY DEF Accounting, Balanced
<1>11. /\ Waiting(p) \in Nat /\ Executing(p) \in Nat
       /\ Published(p) \in Nat /\ Taken(p) \in Nat
  BY PlacesTyped
<1>12. /\ Cardinality(A) \in Nat /\ Cardinality(B) \in Nat
       /\ Cardinality(C) \in Nat /\ Cardinality(D) \in Nat
       /\ Cardinality(A \cup B) \in Nat /\ Cardinality(C \cup D) \in Nat
       /\ Cardinality((A \cup B) \cup (C \cup D)) \in Nat
       /\ Cardinality(JobsOf(p)) \in Nat
  BY <1>1, <1>2, <1>3, <1>4, <1>6, <1>7, <1>8, <1>9, FS_CardinalityType
<1>13. Cardinality(JobsOf(p)) <= Cardinality(A) + Cardinality(B) + Cardinality(C) + Cardinality(D)
  BY <1>6, <1>7, <1>8, <1>9, <1>12
<1> QED
  BY <1>1, <1>2, <1>3, <1>4, <1>9, <1>10, <1>11, <1>12, <1>13

(* So a submission that is admitted finds room in the promise.              *)
LEMMA AdmittedHasRoom ==
  ASSUME Inv, NEW p \in Priorities, Admits(p)
  PROVE  /\ Cardinality(WaitingJobs \cup ReadyJobs) < Capacity
         /\ p = "Background" =>
              Cardinality({j \in WaitingJobs \cup ReadyJobs : j.priority = "Background"})
                  < Capacity - VisibleReserve
<1>1. TypeOK /\ Accounting
  BY DEF Inv, IInv
<1>2. /\ IsFiniteSet(JobsOf("Visible")) /\ IsFiniteSet(JobsOf("Background"))
      /\ Cardinality(JobsOf("Visible")) <= outstandingOf["Visible"]
      /\ Cardinality(JobsOf("Background")) <= outstandingOf["Background"]
  BY <1>1, JobsCounted DEF Priorities
<1>3. WaitingJobs \cup ReadyJobs = JobsOf("Visible") \cup JobsOf("Background")
  BY <1>1, JobsAreLive DEF JobsOf, Request, Priorities
<1>4. Cardinality(WaitingJobs \cup ReadyJobs)
        <= Cardinality(JobsOf("Visible")) + Cardinality(JobsOf("Background"))
      /\ IsFiniteSet(WaitingJobs \cup ReadyJobs)
  BY <1>2, <1>3, UnionCounted
<1>5. /\ Cardinality(JobsOf("Visible")) \in Nat /\ Cardinality(JobsOf("Background")) \in Nat
      /\ Cardinality(WaitingJobs \cup ReadyJobs) \in Nat
      /\ outstandingOf["Visible"] \in Nat /\ outstandingOf["Background"] \in Nat
      /\ outstanding = outstandingOf["Visible"] + outstandingOf["Background"]
  BY <1>1, <1>2, <1>4, FS_CardinalityType DEF Accounting, TypeOK, Priorities
<1>6. VisibleReserve \in Int /\ Capacity \in Int
  BY ReserveTyped
<1> QED
  BY <1>2, <1>4, <1>5, <1>6 DEF Admits, JobsOf

-----------------------------------------------------------------------------
(* Steps that change neither the life of the service nor its jobs are       *)
(* stuttering steps of the promise.                                         *)
LEMMA Stutters ==
  ASSUME OnePlaceEach, UNCHANGED <<lifecycle, requests, completions, held, pending, next>>
  PROVE  OnePlaceEach' /\ UNCHANGED Promise!vars
<1>1. OnePlaceEach' /\ UNCHANGED <<WaitingJobs, ReadyJobs>>
  BY PlacesStay
<1>2. UNCHANGED Phase
  BY DEF Phase
<1> QED
  BY <1>1, <1>2 DEF Promise!vars

(* The promise counts as the service does.                                  *)
LEMMA SameCardinality ==
  ASSUME NEW S
  PROVE  Promise!Cardinality(S) = Cardinality(S)
BY DEF Promise!Cardinality, Cardinality, Promise!IsFiniteSet, IsFiniteSet

(* submit accepts a job for which there is room.                            *)
LEMMA SubmitAccepts ==
  ASSUME Inv, OnePlaceEach, NEW t \in Submitters, NEW p \in Priorities, Submit(t, p)
  PROVE  \E job \in Request : Promise!Accept(job)
<1>1. PICK job \in Request \ (WaitingJobs \cup ReadyJobs) :
         job.priority = p /\ WaitingJobs' = WaitingJobs \cup {job}
  BY SubmitJob
<1>2. ReadyJobs' = ReadyJobs
  BY SubmitJob
<1>3. Phase = "open" /\ Phase' = Phase
  BY DEF Submit, Admits, Phase
<1>4. Admits(p)
  BY DEF Submit
<1>5. Promise!HasRoomFor(job)
  <2>1. Cardinality(WaitingJobs \cup ReadyJobs) < Capacity
    BY <1>4, AdmittedHasRoom
  <2>2. job.priority = "Background" =>
          Cardinality({j \in WaitingJobs \cup ReadyJobs : j.priority = "Background"})
              < Capacity - VisibleReserve
    BY <1>1, <1>4, AdmittedHasRoom
  <2> QED
    BY <2>1, <2>2, SameCardinality DEF Promise!HasRoomFor, Promise!Jobs
<1> QED
  BY <1>1, <1>2, <1>3, <1>5 DEF Promise!Accept, Promise!Jobs

(* The life of the service is that of the promise.                          *)
LEMMA PhaseSteps ==
  /\ lifecycle = "Stopped" => Phase = "closed"
  /\ lifecycle = "Running" => Phase = "open"
  /\ lifecycle = "Stopping" => Phase = "closing"
BY DEF Phase

LEMMA PhaseStepsNext ==
  /\ lifecycle' = "Stopped" => Phase' = "closed"
  /\ lifecycle' = "Running" => Phase' = "open"
  /\ lifecycle' = "Stopping" => Phase' = "closing"
BY DEF Phase

LEMMA SubmitterImplements ==
  ASSUME Inv, OnePlaceEach, NEW t \in Submitters, SubmitterNext(t)
  PROVE  OnePlaceEach' /\ (Promise!Next \/ UNCHANGED Promise!vars)
<1>1. CASE NotifyWorker(t)
  BY <1>1, Stutters DEF NotifyWorker, queues, batch
<1>2. ASSUME NEW p \in Priorities, Submit(t, p)
      PROVE  OnePlaceEach' /\ Promise!Next
  BY <1>2, SubmitJob, SubmitAccepts DEF Promise!Next
<1> QED
  BY <1>1, <1>2 DEF SubmitterNext

LEMMA WorkerImplements ==
  ASSUME Inv, OnePlaceEach, NEW w \in Workers, WorkerNext(w)
  PROVE  OnePlaceEach' /\ UNCHANGED Promise!vars
<1>1. CASE WorkerSleeps(w) \/ WorkerExits(w)
  BY <1>1, Stutters DEF WorkerSleeps, WorkerExits, queues, batch
<1>2. CASE PopNextRequest(w)
  <2>1. OnePlaceEach' /\ UNCHANGED <<WaitingJobs, ReadyJobs>>
    BY <1>2, PopWaits
  <2>2. UNCHANGED Phase
    BY <1>2 DEF PopNextRequest, Phase
  <2> QED
    BY <2>1, <2>2 DEF Promise!vars
<1> QED
  BY <1>1, <1>2 DEF WorkerNext

LEMMA EnqueueImplements ==
  ASSUME Inv, OnePlaceEach, NEW t \in Threads, EnqueueCompletion(t)
  PROVE  OnePlaceEach' /\ Promise!Next
<1>1. PICK job \in WaitingJobs :
         /\ job \in Request
         /\ WaitingJobs' = WaitingJobs \ {job}
         /\ ReadyJobs' = ReadyJobs \cup {job}
  BY EnqueueJob
<1>2. UNCHANGED Phase
  BY DEF EnqueueCompletion, Phase
<1>3. Promise!Execute(job)
  BY <1>1, <1>2 DEF Promise!Execute
<1> QED
  BY <1>1, <1>3, EnqueueJob DEF Promise!Next

LEMMA DrainImplements ==
  ASSUME Inv, OnePlaceEach, DrainNext
  PROVE  OnePlaceEach' /\ (Promise!Next \/ UNCHANGED Promise!vars)
<1>1. CASE BeginDrain
  BY <1>1, Stutters DEF BeginDrain, queues, workers
<1>2. CASE SelectCompletion
  <2>1. OnePlaceEach' /\ UNCHANGED <<WaitingJobs, ReadyJobs>>
    BY <1>2, SelectStaysReady
  <2>2. UNCHANGED Phase
    BY <1>2 DEF SelectCompletion, Phase
  <2> QED
    BY <2>1, <2>2 DEF Promise!vars
<1>3. CASE CompleteRecord
  <2>1. PICK job \in ReadyJobs : job \in Request /\ ReadyJobs' = ReadyJobs \ {job}
    BY <1>3, CompleteServes
  <2>2. OnePlaceEach' /\ WaitingJobs' = WaitingJobs
    BY <1>3, CompleteServes
  <2>3. UNCHANGED Phase
    BY <1>3 DEF CompleteRecord, Phase
  <2>4. Promise!Serve(job)
    BY <2>1, <2>2, <2>3 DEF Promise!Serve
  <2> QED
    BY <2>1, <2>2, <2>4 DEF Promise!Next
<1> QED
  BY <1>1, <1>2, <1>3 DEF DrainNext

LEMMA OwnerImplements ==
  ASSUME Inv, OnePlaceEach, NEW m \in Owners, OwnerNext(m)
  PROVE  OnePlaceEach' /\ (Promise!Next \/ UNCHANGED Promise!vars)
<1>1. CASE Start(m)
  <2>1. OnePlaceEach' /\ UNCHANGED <<WaitingJobs, ReadyJobs>>
    BY <1>1, PlacesStay DEF Start, queues, batch
  <2>2. lifecycle = "Stopped" /\ lifecycle' \in {"Running", "Stopping"}
    BY <1>1 DEF Start
  <2>3. Promise!Open
    BY <2>1, <2>2, PhaseSteps, PhaseStepsNext DEF Promise!Open
  <2> QED
    BY <2>1, <2>3 DEF Promise!Next
<1>2. CASE BeginShutdown(m)
  <2>1. /\ OnePlaceEach'
        /\ WaitingJobs' \subseteq WaitingJobs /\ ReadyJobs' = ReadyJobs
    BY <1>2, ShutdownCancels
  <2>2. lifecycle = "Running" /\ lifecycle' = "Stopping"
    BY <1>2 DEF BeginShutdown
  <2>3. Promise!Close
    BY <2>1, <2>2, PhaseSteps, PhaseStepsNext DEF Promise!Close
  <2> QED
    BY <2>1, <2>3 DEF Promise!Next
<1>3. CASE FinishShutdown(m)
  <2>1. /\ OnePlaceEach' /\ lifecycle = "Stopping"
        /\ WaitingJobs = {} /\ WaitingJobs' = {} /\ ReadyJobs' = {}
    BY <1>3, FinishClears
  <2>2. lifecycle' = "Stopped"
    BY <1>3 DEF FinishShutdown
  <2>3. Promise!Closed
    BY <2>1, <2>2, PhaseSteps, PhaseStepsNext DEF Promise!Closed
  <2> QED
    BY <2>1, <2>3 DEF Promise!Next
<1>4. CASE FinishAbandon(m)
  <2>1. lifecycle = "Stopping" /\ WaitingJobs = {} /\ ReadyJobs = {}
    BY <1>4, AbandonedIsEmpty DEF FinishAbandon
  <2>2. OnePlaceEach' /\ UNCHANGED <<WaitingJobs, ReadyJobs>>
    BY <1>4, PlacesStay DEF FinishAbandon, queues, workers, batch
  <2>3. lifecycle' = "Stopped"
    BY <1>4 DEF FinishAbandon
  <2>4. Promise!Closed
    BY <2>1, <2>2, <2>3, PhaseSteps, PhaseStepsNext DEF Promise!Closed
  <2> QED
    BY <2>2, <2>4 DEF Promise!Next
<1>5. CASE \/ JoinShutdown(m) \/ AbandonStart(m) \/ StopWorkers(m)
           \/ JoinWorkers(m) \/ AwaitDrained(m) \/ AwaitStopped(m)
  BY <1>5, Stutters DEF JoinShutdown, AbandonStart, StopWorkers, JoinWorkers,
       AwaitDrained, AwaitStopped, queues, workers, batch
<1> QED
  BY <1>1, <1>2, <1>3, <1>4, <1>5 DEF OwnerNext, OwnerReturns

(* Every step maps to a step of the promise or to a stutter.                *)
LEMMA StepImplements ==
  ASSUME Inv, OnePlaceEach, [Next]_vars
  PROVE  OnePlaceEach' /\ (Promise!Next \/ UNCHANGED Promise!vars)
<1>1. CASE UNCHANGED vars
  BY <1>1, Stutters DEF vars, queues, workers, batch
<1> QED
  BY <1>1, SubmitterImplements, WorkerImplements, EnqueueImplements,
     DrainImplements, OwnerImplements DEF Next

(* The initial state maps to the promise's.                                 *)
LEMMA InitImplements == Init => OnePlaceEach /\ Promise!Init
<1> SUFFICES ASSUME Init PROVE OnePlaceEach /\ Promise!Init
  OBVIOUS
<1>1. /\ \A p \in Priorities : requests[p] = <<>> /\ completions[p] = <<>>
      /\ \A t \in Threads : held[t] = None
      /\ pending = <<>> /\ next = 1 /\ lifecycle = "Stopped"
  BY DEF Init
<1>2. InQueue(requests) = {} /\ InQueue(completions) = {}
  BY <1>1, NothingQueued
<1>3. HeldJobs = {} /\ BatchJobs = {}
  BY <1>1 DEF HeldJobs, BatchJobs
<1>4. DistinctQueues(requests) /\ DistinctQueues(completions)
  BY <1>1 DEF DistinctQueues
<1>5. DistinctHeld /\ DistinctBatch
  BY <1>1 DEF DistinctHeld, DistinctBatch
<1>6. OnePlaceEach
  BY <1>2, <1>3, <1>4, <1>5 DEF OnePlaceEach, Apart
<1>7. Promise!Init
  BY <1>1, <1>2, <1>3, PhaseSteps DEF Promise!Init, WaitingJobs, ReadyJobs
<1> QED
  BY <1>6, <1>7

-----------------------------------------------------------------------------
(* A token is in one place only: no request is queued, executed, published  *)
(* or taken twice.                                                          *)
THEOREM TokensInOnePlace == Spec => []OnePlaceEach
<1>1. Inv /\ OnePlaceEach /\ [Next]_vars => OnePlaceEach'
  BY StepImplements
<1> QED
  BY <1>1, InitImplements, InvHolds, PTL DEF Spec

(* The service keeps the promise it makes to the monsters and to the        *)
(* dispatcher: a job is accepted when there is room, executed once and      *)
(* served once; only closing cancels jobs, and nothing survives it.         *)
THEOREM PromiseIsKept == Spec => KeepsPromise
<1>1. Init => Promise!Init
  BY InitImplements
<1>2. Inv /\ OnePlaceEach /\ [Next]_vars => [Promise!Next]_(Promise!vars)
  BY StepImplements
<1> QED
  BY <1>1, <1>2, InvHolds, TokensInOnePlace, PTL DEF Spec, KeepsPromise, Promise!Spec
=============================================================================
