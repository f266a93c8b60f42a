------------------------------- MODULE Decay -------------------------------
(***************************************************************************)
(* Decay (src/items/decay/decay.cpp): items that change or vanish when      *)
(* their time is up, kept by due time, with a dispatcher event for the      *)
(* first of them.  Everything runs on the dispatcher thread; the hard part  *)
(* is that checkDecay decays items, which starts and stops the decay of     *)
(* these and, through scripts, of other items while it runs.                *)
(*                                                                         *)
(* An item's attributes are those the code looks at; Unset is a missing     *)
(* attribute.  Time is in units that are long enough to see an order.       *)
(***************************************************************************)
EXTENDS Integers, FiniteSetsExt, SequencesExt

CONSTANTS
    Items,
    Durations,  \* of the item types there are
    MinTicks,   \* SCHEDULER_MINTICKS
    MaxTime,    \* bound: how long the clock runs
    MaxScripts, \* bound: what scripts do to items while one decays
    MaxTimers   \* bound: the game does nothing while so many events are armed

VARIABLES
    item,      \* the attributes of every item
    decayMap,  \* a partial function from due times to sequences of items
    timers,    \* the armed events: id and due time
    eventId,
    now,
    pc,        \* is checkDecay running?
    tempItems, \* the items it has still to decay
    it,        \* its iterator: the bucket after those it erased, or Unset
    scripted,  \* how often a script has acted
    undefined  \* history: has it read an erased bucket?

state == <<item, decayMap, timers, eventId>>
vars == <<state, now, pc, tempItems, it, scripted, undefined>>

Unset == -1
Max0(n) == IF n < 0 THEN 0 ELSE n

(* How an item's decay ends: removed, kept because it came with the map,    *)
(* turned into one that lasts as long or, with 0, does not decay.           *)
Outcomes ==
    [how : {"removed", "kept"}, lasts : {0}]
        \cup [how : {"renamed"}, lasts : Durations \cup {0}]

Fresh == [item |-> item, map |-> decayMap, timers |-> timers,
          event |-> eventId]

Becomes(w) ==
    /\ item' = w.item /\ decayMap' = w.map
    /\ timers' = w.timers /\ eventId' = w.event

-----------------------------------------------------------------------------
(* Item::canDecay, getDuration, setDecaying and setID.                      *)
CanDecay(x) == x.alive /\ x.decays

Remaining(x) ==
    IF x.state \in {"true", "stopping"} THEN Max0(x.due - now)
                                        ELSE Max0(x.duration)

DecayingFalse(x) == [x EXCEPT !.state = "false", !.due = Unset]

Renamed(x, duration) ==
    IF duration = 0
    THEN [x EXCEPT !.decays = FALSE, !.duration = Unset,
                   !.state = IF @ = "none" THEN "none" ELSE "stopping"]
    ELSE [x EXCEPT !.decays = TRUE, !.duration = duration, !.state = "pending"]

(* scheduleEvent and stopEvent of the dispatcher (external here).  An id    *)
(* that no armed event has is as good as a new one, for eventId takes it.   *)
FreeId(w) == CHOOSE n \in 1..(Cardinality(w.timers) + 1) :
                \A e \in w.timers : e.id # n

Armed(w, delay) ==
    [w EXCEPT !.timers = @ \cup {[id |-> FreeId(w),
                                  due |-> now + Max({MinTicks, delay})]},
              !.event = FreeId(w)]

Disarmed(w) == [w EXCEPT !.timers = {e \in @ : e.id # w.event}]

Erased(map, due) == [d \in DOMAIN map \ {due} |-> map[d]]
Added(map, due, i) ==
    [d \in DOMAIN map \cup {due} |->
        IF d # due THEN map[d]
        ELSE IF due \in DOMAIN map THEN Append(map[due], i) ELSE <<i>>]

(* The place of the removed item goes to the last one of the bucket.        *)
SwappedOut(bucket, i) ==
    LET at == CHOOSE n \in DOMAIN bucket : bucket[n] = i
    IN  Front([bucket EXCEPT ![at] = Last(bucket)])

(* stopDecay: the entry is looked for in the bucket of the item's time.     *)
MutKeepsEntry(bucket) == Len(bucket) > 1
KeepsEntry(bucket) == FALSE

StopDecay(w, i) ==
    LET x == w.item[i]
        stopped == [x EXCEPT !.state = "none",
                             !.duration = IF @ = Unset THEN @ ELSE Remaining(x)]
        bucket == w.map[x.due]
    IN  CASE x.state = "none" -> w
          [] x.state # "none" /\ x.due = Unset ->
               [w EXCEPT !.item[i].state = "none"]
          [] x.state # "none" /\ x.due # Unset /\ x.due \notin DOMAIN w.map ->
               [w EXCEPT !.item[i].due = Unset]
          [] x.state # "none" /\ x.due \in DOMAIN w.map /\ i \in Range(bucket) ->
               [w EXCEPT !.item[i] = stopped,
                         !.map = IF KeepsEntry(bucket) THEN @
                                 ELSE IF Len(bucket) = 1 THEN Erased(@, x.due)
                                 ELSE [@ EXCEPT ![x.due] = SwappedOut(bucket, i)]]
          [] x.state # "none" /\ x.due \in DOMAIN w.map /\ i \notin Range(bucket) ->
               IF Len(bucket) = 1 THEN w ELSE [w EXCEPT !.item[i].due = Unset]

(* startDecay, from the line that arms the event.                           *)
IsFirst(w, due) == w.map = <<>> \/ due < Min(DOMAIN w.map)

Entered(w, i, duration) ==
    LET due == now + duration
        timed == IF w.map = <<>> THEN Armed(w, duration)
                 ELSE IF IsFirst(w, due) THEN Armed(Disarmed(w), duration)
                 ELSE w
    IN  [timed EXCEPT !.item[i].state = "true", !.item[i].due = due,
                      !.map = Added(@, due, i)]

StartUnlessOver(w, i) ==
    LET x == w.item[i]
    IN  IF x.state = "stopping" \/ (~CanDecay(x) /\ x.state = "true")
        THEN StopDecay(w, i)
        ELSE IF ~CanDecay(x) \/ x.state = "true" \/ x.duration <= 0
        THEN w
        ELSE Entered(IF x.due = Unset THEN w ELSE StopDecay(w, i), i, x.duration)

(* internalDecayItem: Game::internalRemoveItem or Game::transformItem.      *)
DecayItem(w, i, outcome) ==
    CASE outcome.how = "kept" -> w
      [] outcome.how = "removed" ->
           StopDecay([w EXCEPT !.item[i].alive = FALSE], i)
      [] outcome.how = "renamed" ->
           StartUnlessOver([w EXCEPT !.item[i] = Renamed(@, outcome.lasts)], i)

IsOver(x) ==
    /\ CanDecay(x) /\ x.state \in {"none", "false", "pending"} /\ x.duration = 0

StartDecay(w, i, outcome) ==
    IF IsOver(w.item[i]) THEN DecayItem(w, i, outcome) ELSE StartUnlessOver(w, i)

-----------------------------------------------------------------------------
Init ==
    /\ item \in [Items -> {[alive |-> TRUE, decays |-> TRUE, duration |-> d,
                            state |-> "none", due |-> Unset] : d \in Durations}]
    /\ decayMap = <<>> /\ timers = {} /\ eventId = 0
    /\ now = 0 /\ pc = "idle" /\ tempItems = <<>> /\ it = Unset
    /\ scripted = 0 /\ undefined = FALSE

(* The game between two dispatcher tasks, or a script that the decay of an  *)
(* item has called.                                                         *)
Acts ==
    /\ \/ pc = "idle" /\ UNCHANGED scripted
       \/ pc = "scripts" /\ scripted < MaxScripts /\ scripted' = scripted + 1
    /\ Cardinality(timers) < MaxTimers
    /\ UNCHANGED <<now, pc, tempItems, it, undefined>>

Start(i) ==
    /\ Acts /\ item[i].alive
    /\ \E outcome \in Outcomes : Becomes(StartDecay(Fresh, i, outcome))

Stop(i) ==
    /\ Acts /\ item[i].alive
    /\ Becomes(StopDecay(Fresh, i))

Transform(i) ==
    /\ Acts /\ item[i].alive
    /\ \E d \in Durations \cup {0} :
         Becomes(StartUnlessOver([Fresh EXCEPT !.item[i] = Renamed(@, d)], i))

Vanish(i) ==
    /\ Acts /\ item[i].alive
    /\ Becomes(StopDecay([Fresh EXCEPT !.item[i].alive = FALSE], i))

(* OTSYS_TIME is read once per cycle of the dispatcher; a timer may be late *)
(* by other tasks of its cycle, but not by a unit of time.                  *)
Tick ==
    /\ now < MaxTime /\ pc = "idle"
    /\ \A e \in timers : e.due > now
    /\ now' = now + 1
    /\ UNCHANGED <<state, pc, tempItems, it, scripted, undefined>>

(* checkDecay: the buckets whose time has come are copied and erased, ...   *)
IsDue(due) == due <= now

Fire(e) ==
    /\ pc = "idle" /\ e.due <= now
    /\ timers' = timers \ {e}
    /\ LET dueTimes == {d \in DOMAIN decayMap : IsDue(d)}
           later == DOMAIN decayMap \ dueTimes
       IN  /\ tempItems' = FlattenSeq([n \in 1..(now + 1) |->
                              IF n - 1 \in dueTimes THEN decayMap[n - 1] ELSE <<>>])
           /\ decayMap' = [d \in later |-> decayMap[d]]
           /\ it' = IF later = {} THEN Unset ELSE Min(later)
    /\ pc' = "decaying"
    /\ UNCHANGED <<item, eventId, now, scripted, undefined>>

(* ... each of their items decays unless it no longer can, ...              *)
DecayNext ==
    /\ pc # "idle" /\ tempItems # <<>>
    /\ LET i == Head(tempItems)
           x == item[i]
           ended == [Fresh EXCEPT !.item[i] = DecayingFalse(x)]
       IN  IF CanDecay(x)
           THEN \E outcome \in Outcomes : Becomes(DecayItem(ended, i, outcome))
           ELSE Becomes([ended EXCEPT !.item[i].duration = Remaining(x)])
    /\ tempItems' = Tail(tempItems)
    /\ pc' = "scripts"
    /\ UNCHANGED <<now, it, scripted, undefined>>

(* ... and the iterator says whether and when to come back.  If its bucket  *)
(* was erased meanwhile, what it reads is not defined.                      *)
Rearmed(delay) == Armed(Fresh, delay)

Rearm ==
    /\ pc # "idle" /\ tempItems = <<>>
    /\ \/ it = Unset /\ Becomes(Fresh)
       \/ it \in DOMAIN decayMap /\ Becomes(Rearmed(it - now))
       \/ /\ it # Unset /\ it \notin DOMAIN decayMap
          /\ \E d \in Durations \cup {MaxTime} : Becomes(Rearmed(d))
    /\ undefined' = (undefined \/ (it # Unset /\ it \notin DOMAIN decayMap))
    /\ pc' = "idle" /\ it' = Unset
    /\ UNCHANGED <<now, tempItems, scripted>>

Runs == DecayNext \/ Rearm \/ \E e \in timers : Fire(e)

Next ==
    \/ Runs \/ Tick
    \/ \E i \in Items : Start(i) \/ Stop(i) \/ Transform(i) \/ Vanish(i)

Spec == Init /\ [][Next]_vars /\ WF_vars(Runs) /\ WF_vars(Tick)

-----------------------------------------------------------------------------
Times == 0..(MaxTime + Max(Durations))

TypeOK ==
    /\ item \in [Items -> [alive : BOOLEAN, decays : BOOLEAN,
                           duration : Times \cup {Unset},
                           state : {"none", "false", "pending", "true", "stopping"},
                           due : Times \cup {Unset}]]
    /\ DOMAIN decayMap \subseteq Times
    /\ \A d \in DOMAIN decayMap : decayMap[d] \in Seq(Items) /\ decayMap[d] # <<>>
    /\ \A e \in timers : e.id \in Nat \ {0} /\ e.due \in Nat
    /\ eventId \in Nat
    /\ now \in 0..MaxTime /\ pc \in {"idle", "decaying", "scripts"}
    /\ tempItems \in Seq(Items) /\ it \in Times \cup {Unset}
    /\ scripted \in 0..MaxScripts /\ undefined \in BOOLEAN

(* An item that decays is in the bucket of its time, or about to be decayed *)
(* by the checkDecay that is running, and what the buckets hold decays, as  *)
(* long as no script has acted on an item inside checkDecay.                *)
MapMatchesItems ==
  scripted = 0 =>
    /\ \A d \in DOMAIN decayMap :
         /\ IsInjective(decayMap[d])
         /\ \A i \in Range(decayMap[d]) : item[i].state = "true" /\ item[i].due = d
    /\ \A i \in Items :
         item[i].state = "true" =>
           \/ i \in Range(tempItems)
           \/ item[i].due \in DOMAIN decayMap /\ i \in Range(decayMap[item[i].due])

(* While anything is in the map an event is armed that comes in time for    *)
(* the first of it: no start, stop or re-entrant change loses the event, as *)
(* long as the iterator of checkDecay was never left dangling.              *)
TimerArmed ==
    (pc = "idle" /\ decayMap # <<>> /\ ~undefined) =>
        \E e \in timers : e.due <= Max({Min(DOMAIN decayMap), now + MinTicks})

(* Every decay that is not stopped comes to its end: when the clock has run *)
(* out, no item is left whose time had come before, unless a script has     *)
(* made the iterator of checkDecay dangle.                                  *)
DecayEnds ==
    <>[](\/ undefined
         \/ \A i \in Items :
              item[i].state = "true" => item[i].due > MaxTime - MinTicks)
=============================================================================
