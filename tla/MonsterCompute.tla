--------------------------- MODULE MonsterCompute ---------------------------
(***************************************************************************)
(* MonsterComputeService (src/game/scheduling/monster_compute_service.cpp): *)
(* the service that runs monster AI work (target ranking, path finding,     *)
(* combat intention) on its own worker threads and hands the completions    *)
(* back to the dispatcher thread.                                           *)
(*                                                                         *)
(* A request is admitted by submit, queued by priority, popped by a worker  *)
(* (or executed on the submitting thread when the service has no workers),  *)
(* published as a completion, taken in a batch by the dispatcher and        *)
(* accounted for once its completion has run.  Shutdown may begin at any    *)
(* point of that life.  Every region that the code runs under the mutex is  *)
(* one action, except the batch selection of drainCompletions, whose loop   *)
(* is kept: `selecting' stands for the mutex being held across its          *)
(* iterations.  A request is identified by its token; what the work         *)
(* computes, and whether it throws (the failure completion then takes the   *)
(* place of the result), is not told apart.                                 *)
(***************************************************************************)
EXTENDS Naturals, Sequences, FiniteSets

CONSTANTS
    Workers,      \* the jthreads of the service when it has any
    Modes,        \* the values of inlineMode that start may choose
    Submitters,   \* the threads that call submit
    Dispatcher,   \* the submitter that also calls drainCompletions
    Owners,       \* the threads that call start and shutdown
    Capacity,     \* config.capacity, clamped
    ReserveShare, \* the reserve is Capacity \div ReserveShare: 4 in the code
    StreakLimit,  \* visible selections in a row: 3 in the code
    Tokens,       \* the values of a MonsterComputeToken
    MaxStarts     \* bound: how often the service is started

ASSUME ThreadsAssumption ==
    /\ IsFiniteSet(Workers) /\ IsFiniteSet(Submitters)
    /\ Workers \cap Submitters = {}
    /\ Dispatcher \in Submitters
ASSUME CapacityAssumption ==
    Capacity \in Nat \ {0} /\ ReserveShare \in Nat \ {0} /\ StreakLimit \in Nat \ {0}
ASSUME TokensAssumption == Tokens \subseteq Nat \ {0}
ASSUME ModesAssumption ==
    Modes \subseteq BOOLEAN /\ (Workers = {} => Modes \subseteq {TRUE})

Priorities == {"Visible", "Background"}

Threads == Workers \cup Submitters

(* Background requests leave this much of the capacity to visible monsters. *)
VisibleReserve == Capacity \div ReserveShare

(* A thread that executes no request holds None; pending records and held   *)
(* requests carry the priority their queue had.                            *)
None == [token |-> 0, priority |-> "none"]
Request == [token : Tokens, priority : Priorities]

VARIABLES
    lifecycle,           \* state: Stopped, Running, Stopping
    requests,            \* visibleRequests, backgroundRequests
    completions,         \* visibleCompletions, backgroundCompletions
    outstanding,
    outstandingOf,       \* visibleOutstanding, backgroundOutstanding
    activeRequests,
    completionsInFlight,
    streak,              \* visibleStreak
    completionStreak,    \* completionVisibleStreak
    at,                  \* where each worker and submitter is
    held,                \* the request it executes
    stopRequested,       \* the workers' stop tokens
    pending,             \* drainCompletions' local batch
    next,                \* the index of the record it runs
    selecting,           \* how many more it selects; the mutex is held while > 0
    owner,               \* where each caller of shutdown is
    starts,              \* history: number of starts so far
    inlineMode           \* no workers: submit executes the request itself

queues == <<requests, completions>>
counters == <<outstanding, outstandingOf, activeRequests, completionsInFlight>>
workers == <<at, held, stopRequested>>
batch == <<pending, next, selecting>>
vars == <<lifecycle, queues, counters, streak, completionStreak, workers,
          batch, owner, starts, inlineMode>>

(***************************************************************************)
(* selectNextPriority: after StreakLimit visible selections in a row a     *)
(* waiting background entry is selected.                                    *)
(***************************************************************************)
MutSelectsVisible(q, s) == q["Visible"] # <<>>

SelectsVisible(q, s) ==
    q["Visible"] # <<>> /\ (q["Background"] = <<>> \/ s < StreakLimit)

NextPriority(q, s) == IF SelectsVisible(q, s) THEN "Visible" ELSE "Background"


NextStreak(q, s) ==
    IF SelectsVisible(q, s) THEN IF s < StreakLimit THEN s + 1 ELSE s ELSE 0

SomeQueued(q) == \E p \in Priorities : q[p] # <<>>

TotalLen(q) == Len(q["Visible"]) + Len(q["Background"])

QueuedTokens(q) == UNION { {q[p][i] : i \in 1..Len(q[p])} : p \in Priorities }
HeldTokens == {held[t].token : t \in {u \in Threads : held[u] # None}}
BatchTokens == {pending[i].token : i \in next..Len(pending)}
Live == QueuedTokens(requests) \cup HeldTokens
            \cup QueuedTokens(completions) \cup BatchTokens

MutexFree == selecting = 0

(* Clearing both queues, and the visible and background counts without the  *)
(* entries that are cleared.                                                *)
MutCleared(q) == [q EXCEPT !["Visible"] = <<>>]
Cleared(q) == [p \in Priorities |-> <<>>]

MutCountsWithout(q) ==
    [outstandingOf EXCEPT !["Visible"] = @ - TotalLen(q)]
CountsWithout(q) == [p \in Priorities |-> outstandingOf[p] - Len(q[p])]

(* notify_all on lifecycleChanged: the sleeping callers of shutdown test    *)
(* their predicates again.                                                  *)
MutWoken(m) == IF owner[m] = "stoppedAsleep" THEN "stopped" ELSE owner[m]

Woken(m) == CASE owner[m] = "drainAsleep"   -> "draining"
              [] owner[m] = "stoppedAsleep" -> "stopped"
              [] OTHER                      -> owner[m]

WakeOwners == owner' = [m \in Owners |-> Woken(m)]
WakeOthers(m) == owner' = [n \in Owners |-> IF n = m THEN "idle" ELSE Woken(n)]

-----------------------------------------------------------------------------

Init ==
    /\ lifecycle = "Stopped"
    /\ requests = [p \in Priorities |-> <<>>]
    /\ completions = [p \in Priorities |-> <<>>]
    /\ outstanding = 0
    /\ outstandingOf = [p \in Priorities |-> 0]
    /\ activeRequests = 0
    /\ completionsInFlight = 0
    /\ streak = 0
    /\ completionStreak = 0
    /\ at = [t \in Threads |-> IF t \in Workers THEN "off" ELSE "idle"]
    /\ held = [t \in Threads |-> None]
    /\ stopRequested = [w \in Workers |-> FALSE]
    /\ pending = <<>>
    /\ next = 1
    /\ selecting = 0
    /\ owner = [m \in Owners |-> "idle"]
    /\ starts = 0
    /\ inlineMode = TRUE

(***************************************************************************)
(* start: a running service is left alone and a stopping one throws, so     *)
(* both change nothing.  Creating the threads may throw after some of them  *)
(* exist: the service goes through Stopping to stop and join them.          *)
(***************************************************************************)
Start(m) ==
    /\ MutexFree
    /\ owner[m] = "idle" /\ lifecycle = "Stopped" /\ starts < MaxStarts
    /\ starts' = starts + 1
    /\ streak' = 0 /\ completionStreak' = 0
    /\ inlineMode' \in Modes
    /\ \E created \in SUBSET Workers :
         /\ inlineMode' => created = {}
         /\ at' = [t \in Threads |-> IF t \in created THEN "testing" ELSE at[t]]
         /\ stopRequested' = [w \in Workers |-> FALSE]
         /\ IF inlineMode' \/ created = Workers
            THEN lifecycle' = "Running" /\ UNCHANGED owner
            ELSE lifecycle' = "Stopping"
                 /\ owner' = [owner EXCEPT ![m] = "abandoning"]
    /\ UNCHANGED <<queues, counters, held, batch>>

(* The catch block of start: stop and join the threads that were created.   *)
AbandonStart(m) ==
    /\ owner[m] = "abandoning"
    /\ stopRequested' = [w \in Workers |-> TRUE]
    /\ at' = [t \in Threads |-> IF at[t] = "asleep" THEN "testing" ELSE at[t]]
    /\ owner' = [owner EXCEPT ![m] = "abandonJoining"]
    /\ UNCHANGED <<lifecycle, queues, counters, streak, completionStreak,
                   held, batch, starts, inlineMode>>

FinishAbandon(m) ==
    /\ MutexFree
    /\ owner[m] = "abandonJoining"
    /\ \A w \in Workers : at[w] = "off"
    /\ lifecycle' = "Stopped"
    /\ WakeOthers(m)
    /\ UNCHANGED <<queues, counters, streak, completionStreak, workers,
                   batch, starts, inlineMode>>

-----------------------------------------------------------------------------
(* submit.  A rejected submission only counts itself, so it is no step.     *)

MutAdmits(p) ==
    /\ lifecycle = "Running"
    /\ outstanding <= Capacity
    /\ p = "Background" => outstandingOf[p] < Capacity - VisibleReserve

Admits(p) ==
    /\ lifecycle = "Running"
    /\ outstanding < Capacity
    /\ p = "Background" => outstandingOf[p] < Capacity - VisibleReserve

(* nextToken: 2^64 values in turn; here, any value no live request has.     *)
FreshToken == CHOOSE k \in Tokens : k \notin Live

Submit(t, p) ==
    /\ MutexFree
    /\ at[t] = "idle"
    /\ Admits(p)
    /\ Tokens \ Live # {}
    /\ outstanding' = outstanding + 1
    /\ outstandingOf' = [outstandingOf EXCEPT ![p] = @ + 1]
    /\ IF inlineMode
       THEN /\ activeRequests' = activeRequests + 1
            /\ at' = [at EXCEPT ![t] = "executing"]
            /\ held' = [held EXCEPT ![t] = [token |-> FreshToken, priority |-> p]]
            /\ UNCHANGED requests
       ELSE /\ requests' = [requests EXCEPT ![p] = Append(@, FreshToken)]
            /\ at' = [at EXCEPT ![t] = "notifying"]
            /\ UNCHANGED <<activeRequests, held>>
    /\ UNCHANGED <<lifecycle, completions, completionsInFlight, streak,
                   completionStreak, stopRequested, batch, owner, starts, inlineMode>>

(* workAvailable.notify_one, after the mutex has been released.             *)
NotifyWorker(t) ==
    /\ at[t] = "notifying"
    /\ LET asleep == {w \in Workers : at[w] = "asleep"} IN
       IF asleep = {}
       THEN at' = [at EXCEPT ![t] = "idle"]
       ELSE \E w \in asleep : at' = [at EXCEPT ![t] = "idle", ![w] = "testing"]
    /\ UNCHANGED <<lifecycle, queues, counters, streak, completionStreak, held,
                   stopRequested, batch, owner, starts, inlineMode>>

-----------------------------------------------------------------------------
(* workerLoop: the stop token and the wait predicate, then popNextRequest.  *)

MustExit(w) == stopRequested[w] \/ lifecycle # "Running"

WorkerSleeps(w) ==
    /\ MutexFree
    /\ at[w] = "testing" /\ ~MustExit(w) /\ ~SomeQueued(requests)
    /\ at' = [at EXCEPT ![w] = "asleep"]
    /\ UNCHANGED <<lifecycle, queues, counters, streak, completionStreak, held,
                   stopRequested, batch, owner, starts, inlineMode>>

WorkerExits(w) ==
    /\ MutexFree
    /\ at[w] = "testing" /\ MustExit(w)
    /\ at' = [at EXCEPT ![w] = "off"]
    /\ UNCHANGED <<lifecycle, queues, counters, streak, completionStreak, held,
                   stopRequested, batch, owner, starts, inlineMode>>

PopNextRequest(w) ==
    /\ MutexFree
    /\ at[w] = "testing" /\ ~MustExit(w) /\ SomeQueued(requests)
    /\ LET p == NextPriority(requests, streak) IN
         /\ held' = [held EXCEPT ![w] = [token |-> Head(requests[p]), priority |-> p]]
         /\ requests' = [requests EXCEPT ![p] = Tail(@)]
    /\ streak' = NextStreak(requests, streak)
    /\ activeRequests' = activeRequests + 1
    /\ at' = [at EXCEPT ![w] = "executing"]
    /\ UNCHANGED <<lifecycle, completions, outstanding, outstandingOf,
                   completionsInFlight, completionStreak, stopRequested, batch,
                   owner, starts, inlineMode>>

(* executeRequest and enqueueCompletion, by a worker or, inline, by the     *)
(* submitter.  The notifier, Dispatcher::notify, is modelled with the       *)
(* dispatcher.                                                              *)
EnqueueCompletion(t) ==
    /\ MutexFree
    /\ at[t] = "executing"
    /\ completions' = [completions EXCEPT ![held[t].priority] =
                            Append(@, held[t].token)]
    /\ activeRequests' = activeRequests - 1
    /\ held' = [held EXCEPT ![t] = None]
    /\ at' = [at EXCEPT ![t] = IF t \in Workers THEN "testing" ELSE "idle"]
    /\ WakeOwners
    /\ UNCHANGED <<lifecycle, requests, outstanding, outstandingOf,
                   completionsInFlight, streak, completionStreak, stopRequested,
                   batch, starts, inlineMode>>

-----------------------------------------------------------------------------
(* drainCompletions, on the dispatcher thread.                              *)

BeginDrain ==
    /\ MutexFree
    /\ at[Dispatcher] = "idle" /\ pending = <<>>
    /\ \E n \in 1..TotalLen(completions) : selecting' = n
    /\ UNCHANGED <<lifecycle, queues, counters, streak, completionStreak,
                   workers, pending, next, owner, starts, inlineMode>>

SelectCompletion ==
    /\ selecting > 0
    /\ LET p == NextPriority(completions, completionStreak) IN
         /\ pending' = Append(pending,
                          [token |-> Head(completions[p]), priority |-> p])
         /\ completions' = [completions EXCEPT ![p] = Tail(@)]
    /\ completionStreak' = NextStreak(completions, completionStreak)
    /\ completionsInFlight' = completionsInFlight + 1
    /\ selecting' = selecting - 1
    /\ UNCHANGED <<lifecycle, requests, outstanding, outstandingOf,
                   activeRequests, streak, workers, next, owner, starts, inlineMode>>

(* The completion has run, outside the mutex: the dispatcher may have       *)
(* submitted in it.  Now its request is accounted for.                      *)
CompleteRecord ==
    /\ MutexFree
    /\ at[Dispatcher] = "idle" /\ pending # <<>>
    /\ outstanding' = outstanding - 1
    /\ outstandingOf' = [outstandingOf EXCEPT ![pending[next].priority] = @ - 1]
    /\ completionsInFlight' = completionsInFlight - 1
    /\ IF next < Len(pending)
       THEN next' = next + 1 /\ UNCHANGED pending
       ELSE next' = 1 /\ pending' = <<>>
    /\ WakeOwners
    /\ UNCHANGED <<lifecycle, queues, activeRequests, streak, completionStreak,
                   workers, selecting, starts, inlineMode>>

-----------------------------------------------------------------------------
(* shutdown.                                                                *)

BeginShutdown(m) ==
    /\ MutexFree
    /\ owner[m] = "idle" /\ lifecycle = "Running"
    /\ lifecycle' = "Stopping"
    /\ requests' = Cleared(requests)
    /\ outstanding' = outstanding - TotalLen(requests)
    /\ outstandingOf' = CountsWithout(requests)
    /\ owner' = [owner EXCEPT ![m] = "stopping"]
    /\ UNCHANGED <<completions, activeRequests, completionsInFlight, streak,
                   completionStreak, workers, batch, starts, inlineMode>>

(* A second caller waits for the first to finish.                           *)
JoinShutdown(m) ==
    /\ MutexFree
    /\ owner[m] = "idle" /\ lifecycle = "Stopping"
    /\ owner' = [owner EXCEPT ![m] = "stopped"]
    /\ UNCHANGED <<lifecycle, queues, counters, streak, completionStreak,
                   workers, batch, starts, inlineMode>>

(* request_stop on every worker, then workAvailable.notify_all.             *)
StopWorkers(m) ==
    /\ owner[m] = "stopping"
    /\ stopRequested' = [w \in Workers |-> TRUE]
    /\ at' = [t \in Threads |-> IF at[t] = "asleep" THEN "testing" ELSE at[t]]
    /\ owner' = [owner EXCEPT ![m] = "joining"]
    /\ UNCHANGED <<lifecycle, queues, counters, streak, completionStreak, held,
                   batch, starts, inlineMode>>

JoinWorkers(m) ==
    /\ owner[m] = "joining"
    /\ \A w \in Workers : at[w] = "off"
    /\ owner' = [owner EXCEPT ![m] = "draining"]
    /\ UNCHANGED <<lifecycle, queues, counters, streak, completionStreak,
                   workers, batch, starts, inlineMode>>

MutDrained == activeRequests = 0

Drained == activeRequests = 0 /\ completionsInFlight = 0

AwaitDrained(m) ==
    /\ MutexFree
    /\ owner[m] = "draining" /\ ~Drained
    /\ owner' = [owner EXCEPT ![m] = "drainAsleep"]
    /\ UNCHANGED <<lifecycle, queues, counters, streak, completionStreak,
                   workers, batch, starts, inlineMode>>

FinishShutdown(m) ==
    /\ MutexFree
    /\ owner[m] = "draining" /\ Drained
    /\ completions' = Cleared(completions)
    /\ outstanding' = outstanding - TotalLen(completions)
    /\ outstandingOf' = CountsWithout(completions)
    /\ lifecycle' = "Stopped"
    /\ WakeOthers(m)
    /\ UNCHANGED <<requests, activeRequests, completionsInFlight, streak,
                   completionStreak, workers, batch, starts, inlineMode>>

AwaitStopped(m) ==
    /\ MutexFree
    /\ owner[m] = "stopped"
    /\ owner' = [owner EXCEPT ![m] = IF lifecycle = "Stopped" THEN "idle"
                                                              ELSE "stoppedAsleep"]
    /\ UNCHANGED <<lifecycle, queues, counters, streak, completionStreak,
                   workers, batch, starts, inlineMode>>

-----------------------------------------------------------------------------

SubmitterNext(t) == NotifyWorker(t) \/ \E p \in Priorities : Submit(t, p)

WorkerNext(w) == WorkerSleeps(w) \/ WorkerExits(w) \/ PopNextRequest(w)

DrainNext == BeginDrain \/ SelectCompletion \/ CompleteRecord

OwnerReturns(m) ==
    \/ AbandonStart(m) \/ FinishAbandon(m)
    \/ StopWorkers(m) \/ JoinWorkers(m) \/ AwaitDrained(m) \/ FinishShutdown(m)
    \/ AwaitStopped(m)

OwnerNext(m) == Start(m) \/ BeginShutdown(m) \/ JoinShutdown(m) \/ OwnerReturns(m)

Next ==
    \/ \E t \in Submitters : SubmitterNext(t)
    \/ \E w \in Workers : WorkerNext(w)
    \/ \E t \in Threads : EnqueueCompletion(t)
    \/ DrainNext
    \/ \E m \in Owners : OwnerNext(m)

Spec == Init /\ [][Next]_vars

(***************************************************************************)
(* Threads run and the mutex is granted to every thread that keeps asking   *)
(* (strong fairness where the mutex is taken); the dispatcher keeps passing *)
(* over the worker-completion lane.  Nobody is obliged to submit, to start  *)
(* or to shut down.                                                         *)
(***************************************************************************)
Fairness ==
    /\ \A t \in Submitters : WF_vars(NotifyWorker(t))
    /\ \A w \in Workers : SF_vars(WorkerNext(w))
    /\ \A t \in Threads : SF_vars(EnqueueCompletion(t))
    /\ WF_vars(SelectCompletion) /\ SF_vars(BeginDrain) /\ SF_vars(CompleteRecord)
    /\ \A m \in Owners : SF_vars(OwnerReturns(m))

FairSpec == Spec /\ Fairness
-----------------------------------------------------------------------------
(* The service keeps the promise of ComputePromise: its waiting jobs are    *)
(* those queued or executing, its ready ones those published or in the      *)
(* dispatcher's batch.                                                      *)

Queued(q, p) == {[token |-> q[p][i], priority |-> p] : i \in 1..Len(q[p])}
InQueue(q) == Queued(q, "Visible") \cup Queued(q, "Background")
HeldJobs == {held[t] : t \in Threads} \ {None}
BatchJobs == {pending[i] : i \in next..Len(pending)}

Phase == CASE lifecycle = "Stopped"  -> "closed"
           [] lifecycle = "Running"  -> "open"
           [] lifecycle = "Stopping" -> "closing"
WaitingJobs == InQueue(requests) \cup HeldJobs
ReadyJobs == InQueue(completions) \cup BatchJobs

Promise == INSTANCE ComputePromise WITH
    phase <- Phase, waiting <- WaitingJobs, ready <- ReadyJobs

(* Every behaviour of the service is one of the promise: a job leaves only  *)
(* by being served after it was executed, or by a cancellation that only    *)
(* shutdown may make, and nothing of it is left when the service closes.    *)
KeepsPromise == Promise!Spec

-----------------------------------------------------------------------------
(* Properties.                                                              *)

OwnerStates == {"idle", "abandoning", "abandonJoining", "stopping", "joining",
                "draining", "drainAsleep", "stopped", "stoppedAsleep"}

TypeOK ==
    /\ lifecycle \in {"Stopped", "Running", "Stopping"}
    /\ requests \in [Priorities -> Seq(Tokens)]
    /\ completions \in [Priorities -> Seq(Tokens)]
    /\ outstanding \in Nat
    /\ outstandingOf \in [Priorities -> Nat]
    /\ activeRequests \in Nat
    /\ completionsInFlight \in Nat
    /\ streak \in 0..StreakLimit /\ completionStreak \in 0..StreakLimit
    /\ at \in [Threads -> {"off", "testing", "asleep", "executing", "idle", "notifying"}]
    /\ held \in [Threads -> Request \cup {None}]
    /\ stopRequested \in [Workers -> BOOLEAN]
    /\ pending \in Seq(Request)
    /\ next \in Nat \ {0}
    /\ selecting \in Nat
    /\ owner \in [Owners -> OwnerStates]
    /\ starts \in Nat /\ inlineMode \in BOOLEAN

Holding(p) == {t \in Threads : held[t].priority = p}
InFlight(p) == {i \in next..Len(pending) : pending[i].priority = p}

(* How many requests of priority p are in each of the four places.          *)
Waiting(p) == Len(requests[p])
Executing(p) == Cardinality(Holding(p))
Published(p) == Len(completions[p])
Taken(p) == Cardinality(InFlight(p))

Balanced(p) ==
    outstandingOf[p] = Waiting(p) + Executing(p) + Published(p) + Taken(p)

(***************************************************************************)
(* Every request the counters of one priority claim is in exactly the       *)
(* places a request can be: queued, executing, published or in the          *)
(* dispatcher's batch.  The asserts of enqueueCompletion, drainCompletions  *)
(* and shutdown follow; a leaked count would shrink the capacity for good.  *)
(***************************************************************************)
Accounting ==
    /\ \A p \in Priorities : Balanced(p)
    /\ outstanding = outstandingOf["Visible"] + outstandingOf["Background"]
    /\ activeRequests = Executing("Visible") + Executing("Background")
    /\ completionsInFlight = Taken("Visible") + Taken("Background")

(***************************************************************************)
(* However submissions, completions and shutdowns interleave, the service   *)
(* holds no more than its capacity and background work never takes the      *)
(* reserve kept for visible monsters (the admission test of submit).        *)
(***************************************************************************)
AdmissionBound ==
    /\ outstanding <= Capacity
    /\ outstandingOf["Background"] <= Capacity - VisibleReserve

(* A thread about to publish finds room: the assert at the head of          *)
(* enqueueCompletion.                                                       *)
RoomToPublish ==
    (\E t \in Threads : at[t] = "executing") => TotalLen(completions) < Capacity

(***************************************************************************)
(* Once shutdown has set Stopped nothing of the service is left: no queued  *)
(* work, no thread in a request, no completion still to run on the          *)
(* dispatcher, all counters zero, all workers joined.                       *)
(***************************************************************************)
StoppedIsQuiet ==
    lifecycle = "Stopped" =>
        /\ ~SomeQueued(requests) /\ ~SomeQueued(completions) /\ pending = <<>>
        /\ \A t \in Threads : at[t] # "executing"
        /\ \A w \in Workers : at[w] = "off"
        /\ outstanding = 0 /\ \A p \in Priorities : outstandingOf[p] = 0

(***************************************************************************)
(* Every accepted request is served or canceled, a background one too while *)
(* visible monsters keep submitting (selectNextPriority's streaks).         *)
(***************************************************************************)
RequestLeaves == \A k \in Tokens : k \in Live ~> k \notin Live

(* Every call of shutdown (and an abandoned start) returns: no wakeup of    *)
(* lifecycleChanged or workAvailable is lost.                               *)
ShutdownReturns == \A m \in Owners : owner[m] # "idle" ~> owner[m] = "idle"
=============================================================================
