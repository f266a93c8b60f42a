------------------------------ MODULE PoolProof ------------------------------
(****************************************************************************)
(* Proofs about what the dispatcher thread shares with a pool, for any      *)
(* targets, players, workers and bounds: that a monster that follows a      *)
(* creature gets its paths, that one that thinks gets its answers, and that *)
(* whoever logs in again finds all it had.                                  *)
(****************************************************************************)
EXTENDS MCPool, FiniteSetTheorems, SequenceTheorems, TLAPS

(* As long as the monster lives there is one call when one is outstanding,  *)
(* and none otherwise; ...                                                  *)
OneCall ==
    /\ outstanding => \E m : messages = {m} /\ m.gen = active
    /\ ~outstanding => messages = {}

(* ... a computation for the newest generation is the pending request's,    *)
(* because whoever replaces or drops that request draws a new generation.   *)
ComputesPending ==
    \A m \in messages :
        m.kind = "compute" /\ m.gen = generation => m.job = pending /\ ~superseded

PendingKept ==
    /\ pending # NoRequest => outstanding
    /\ superseded => pending = NoRequest

Generations ==
    generation \in Nat /\ active \in Nat /\ active <= generation

PInv ==
    /\ Generations /\ PendingKept
    /\ ~gone => OneCall /\ ComputesPending

-----------------------------------------------------------------------------
(* Nothing is outstanding at first.                                         *)
LEMMA InitPInv == Init => PInv
  BY DEF Init, PInv, Generations, PendingKept, OneCall, ComputesPending

(* Whatever the world does, it leaves the monster's flags and calls alone.  *)
LEMMA ChangesPInv ==
  ASSUME PInv, Changes
  PROVE  PInv'
<1>1. UNCHANGED <<outstanding, active, generation, superseded, pending, messages>>
  BY DEF Changes, flags
<1>2. gone => gone'
  BY DEF Changes
<1> QED
  BY <1>1, <1>2 DEF PInv, Generations, PendingKept, OneCall, ComputesPending

(* Superseding or replacing the request of the outstanding call draws a new *)
(* generation, so that its result is no longer the newest; without a call   *)
(* outstanding, a request makes one.                                        *)
LEMMA GoToPInv ==
  ASSUME PInv, GoToFollowCreature
  PROVE  PInv'
<1>1. UNCHANGED gone
  BY DEF GoToFollowCreature, world
<1>2. CASE UNCHANGED <<outstanding, active, generation, superseded, pending, messages>>
  BY <1>1, <1>2 DEF PInv, Generations, PendingKept, OneCall, ComputesPending
<1>3. CASE ~gone /\ Supersede /\ UNCHANGED messages
  <2>1. OneCall /\ ComputesPending /\ Generations /\ PendingKept
    BY <1>3 DEF PInv
  <2>2. CASE outstanding
    <3>1. /\ generation' = generation + 1 /\ pending' = NoRequest
          /\ superseded' = TRUE /\ UNCHANGED <<outstanding, active, messages>>
      BY <1>3, <2>2 DEF Supersede
    <3>2. \A m \in messages : m.gen # generation + 1
      BY <2>1, <2>2 DEF OneCall, Generations
    <3>3. Generations' /\ PendingKept'
      BY <2>1, <3>1 DEF Generations, PendingKept
    <3>4. OneCall' /\ ComputesPending'
      BY <2>1, <3>1, <3>2 DEF OneCall, ComputesPending
    <3> QED
      BY <3>3, <3>4 DEF PInv
  <2>3. CASE ~outstanding
    <3>1. /\ pending' = NoRequest /\ superseded' = FALSE
          /\ UNCHANGED <<outstanding, active, generation, messages>>
      BY <1>3, <2>3 DEF Supersede
    <3> QED
      BY <2>1, <2>3, <3>1 DEF PInv, Generations, PendingKept, OneCall, ComputesPending
  <2> QED
    BY <2>2, <2>3
<1>4. CASE ~gone /\ follow # Nobody /\ Request
  <2> DEFINE request == [start |-> at, target |-> place[follow], who |-> follow]
  <2>1. OneCall /\ ComputesPending /\ Generations /\ PendingKept
    BY <1>4 DEF PInv
  <2>2. CASE UNCHANGED <<outstanding, active, generation, superseded, pending, messages>>
    BY <1>2, <2>2
  <2>3. CASE /\ outstanding /\ generation' = generation + 1
             /\ pending' = request /\ superseded' = FALSE
             /\ UNCHANGED <<outstanding, active, messages>>
    <3>1. \A m \in messages : m.gen # generation + 1
      BY <2>1, <2>3 DEF OneCall, Generations
    <3>2. Generations' /\ PendingKept'
      BY <2>1, <2>3 DEF Generations, PendingKept
    <3>3. OneCall' /\ ComputesPending'
      BY <2>1, <2>3, <3>1 DEF OneCall, ComputesPending
    <3> QED
      BY <3>2, <3>3 DEF PInv
  <2>4. CASE /\ ~outstanding /\ generation' = generation + 1
             /\ pending' = request /\ superseded' = FALSE
             /\ outstanding' = TRUE /\ active' = generation + 1
             /\ messages' = messages \cup
                  {[kind |-> "prepare", gen |-> generation + 1,
                    job |-> NoRequest, map |-> 0]}
    <3> DEFINE call == [kind |-> "prepare", gen |-> generation + 1,
                        job |-> NoRequest, map |-> 0]
    <3>1. messages' = {call} /\ call.gen = active' /\ call.kind = "prepare"
      BY <2>1, <2>4 DEF OneCall
    <3>2. OneCall' /\ ComputesPending'
      BY <2>4, <3>1 DEF OneCall, ComputesPending
    <3>3. Generations' /\ PendingKept'
      BY <2>1, <2>4 DEF Generations, PendingKept
    <3> QED
      BY <3>2, <3>3 DEF PInv
  <2>5. CASE /\ ~outstanding /\ generation' = generation + 1
             /\ pending' = NoRequest /\ superseded' = FALSE
             /\ UNCHANGED <<outstanding, active, messages>>
    BY <2>1, <2>5 DEF PInv, Generations, PendingKept, OneCall, ComputesPending
  <2> QED
    BY <1>4, <2>2, <2>3, <2>4, <2>5 DEF Request, flags
<1> QED
  BY <1>2, <1>3, <1>4 DEF GoToFollowCreature, flags

-----------------------------------------------------------------------------
(* The one call is answered and nothing is outstanding any more.            *)
LEMMA IdlePInv ==
  ASSUME PInv, NEW m \in messages, ~gone, UNCHANGED gone, Idle,
         messages' = messages \ {m}
  PROVE  PInv'
<1>1. messages = {m}
  BY DEF PInv, OneCall
<1>2. messages' = {}
  BY <1>1
<1> QED
  BY <1>2 DEF PInv, Idle, Generations, PendingKept, OneCall, ComputesPending

(* A call that is ignored belongs to a monster that is gone.                *)
LEMMA IgnoredPInv ==
  ASSUME PInv, NEW m \in messages, UNCHANGED gone, Ignored(m),
         UNCHANGED flags
  PROVE  PInv'
<1>1. gone
  BY DEF PInv, OneCall, Ignored
<1> QED
  BY <1>1 DEF PInv, Generations, PendingKept, flags

(* The two ways a call is dropped.                                          *)
LEMMA DroppedPInv ==
  ASSUME PInv, NEW m \in messages, UNCHANGED gone, Dropped(m)
  PROVE  PInv'
<1>1. CASE Ignored(m) /\ UNCHANGED flags
  BY <1>1, IgnoredPInv
<1>2. CASE Abandoned(m) /\ Settles
  <2>1. ~gone
    BY <1>2 DEF Abandoned, Ignored
  <2> QED
    BY <1>2, <2>1, IdlePInv DEF Dropped, Settles
<1> QED
  BY <1>1, <1>2 DEF Dropped

(* A snapshot is submitted for the newest generation and the request that   *)
(* is pending.                                                              *)
LEMMA SubmitPInv ==
  ASSUME PInv, NEW m \in messages, UNCHANGED gone, Expected(m), Submit(m)
  PROVE  PInv'
<1>1. ~gone /\ pending # NoRequest
  BY DEF Expected, Ignored
<1>2. CASE Idle /\ messages' = messages \ {m}
  BY <1>1, <1>2, IdlePInv
<1>3. CASE /\ active' = generation
           /\ messages' = (messages \ {m}) \cup
                {[kind |-> "compute", gen |-> generation, job |-> pending,
                  map |-> topology]}
           /\ UNCHANGED <<outstanding, generation, superseded, pending>>
  <2> DEFINE call == [kind |-> "compute", gen |-> generation, job |-> pending,
                      map |-> topology]
  <2>1. messages = {m} /\ outstanding
    BY <1>1 DEF PInv, OneCall, PendingKept
  <2>2. messages' = {call} /\ call.gen = generation /\ call.job = pending
    BY <1>3, <2>1
  <2>3. Generations' /\ PendingKept'
    BY <1>3 DEF PInv, Generations, PendingKept
  <2>4. ~superseded'
    BY <1>1, <1>3 DEF PInv, PendingKept
  <2>5. OneCall' /\ ComputesPending'
    BY <1>3, <2>1, <2>2, <2>4 DEF OneCall, ComputesPending
  <2> QED
    BY <2>3, <2>5 DEF PInv
<1> QED
  BY <1>2, <1>3 DEF Submit, Discard

(* A call is prepared.                                                      *)
LEMMA PreparePInv ==
  ASSUME PInv, NEW m \in messages, Prepare(m)
  PROVE  PInv'
  BY DroppedPInv, SubmitPInv DEF Prepare, world

(* A result comes back.                                                     *)
LEMMA CompletePInv ==
  ASSUME PInv, NEW m \in messages, Complete(m)
  PROVE  PInv'
<1>1. UNCHANGED gone
  BY DEF Complete, world
<1>2. CASE Dropped(m)
  BY <1>1, <1>2, DroppedPInv
<1>3. CASE Expected(m) /\ Idle /\ messages' = messages \ {m}
  <2>1. ~gone
    BY <1>3 DEF Expected, Ignored
  <2> QED
    BY <1>1, <1>3, <2>1, IdlePInv
<1> QED
  BY <1>2, <1>3 DEF Complete, Discard, Walks

(* A call is rejected.                                                      *)
LEMMA RejectPInv ==
  ASSUME PInv, NEW m \in messages, Reject(m)
  PROVE  PInv'
<1>1. UNCHANGED gone
  BY DEF Reject, world
<1>2. CASE Dropped(m)
  BY <1>1, <1>2, DroppedPInv
<1>3. CASE Expected(m) /\ Submit(m)
  BY <1>1, <1>3, SubmitPInv
<1>4. CASE Expected(m) /\ Idle /\ messages' = messages \ {m}
  <2>1. ~gone
    BY <1>4 DEF Expected, Ignored
  <2> QED
    BY <1>1, <1>4, <2>1, IdlePInv
<1> QED
  BY <1>2, <1>3, <1>4 DEF Reject

(* Every step keeps the invariant.                                          *)
LEMMA StepPInv == PInv /\ [Next]_vars => PInv'
<1> SUFFICES ASSUME PInv, [Next]_vars PROVE PInv'
  OBVIOUS
<1>1. CASE AskForPath
  BY <1>1 DEF AskForPath, world, flags, PInv, Generations, PendingKept,
       OneCall, ComputesPending
<1>2. CASE UNCHANGED vars
  BY <1>2 DEF vars, world, flags, PInv, Generations, PendingKept, OneCall,
       ComputesPending
<1> QED
  BY <1>1, <1>2, ChangesPInv, GoToPInv, PreparePInv, CompletePInv, RejectPInv
     DEF Next, Delivers

LEMMA PInvHolds == Spec => []PInv
  BY InitPInv, StepPInv, PTL DEF Spec

-----------------------------------------------------------------------------
(* completeFollowPathCompute compares the world with the pending request:   *)
(* that is safe, for whatever it walks was computed for that request.       *)
THEOREM PathsAreItsOwn == Spec => []WalksItsOwnPath
<1>1. PInv => WalksItsOwnPath
  <2> SUFFICES ASSUME PInv, NEW m \in messages, m.kind = "compute", Walks(m)
               PROVE  /\ m.gen = generation /\ ~superseded
                      /\ Unmoved(m.job) /\ m.map = topology
    BY DEF WalksItsOwnPath
  <2>1. /\ ~gone /\ m.gen = generation
        /\ Unmoved(pending) /\ m.map = topology
    BY DEF Walks, Expected, Ignored, IsLatest
  <2>2. m.job = pending /\ ~superseded
    BY <2>1 DEF PInv, ComputesPending
  <2> QED
    BY <2>1, <2>2
<1> QED
  BY <1>1, PInvHolds, PTL

(* A monster that waits for an answer has exactly one call on its way, and  *)
(* nothing is pending without one.                                          *)
LEMMA PInvAnswers == PInv => Answered
<1> SUFFICES ASSUME PInv PROVE Answered
  OBVIOUS
<1>1. ASSUME ~gone, outstanding
      PROVE  Cardinality({m \in messages : m.gen = active}) = 1
  <2>1. PICK m : messages = {m} /\ m.gen = active
    BY <1>1 DEF PInv, OneCall
  <2>2. {n \in messages : n.gen = active} = {m}
    BY <2>1
  <2> QED
    BY <2>2, FS_Singleton
<1> QED
  BY <1>1 DEF PInv, PendingKept, Answered

(* The same, of the specification.                                          *)
THEOREM CallsAreAnswered == Spec => []Answered
  BY PInvAnswers, PInvHolds, PTL

-----------------------------------------------------------------------------
(* The map changes no oftener than the world does.                          *)
Bounded == changes \in 0..MaxChanges /\ topology <= changes

PlaceTypes ==
    /\ at \in Places /\ place \in [Creatures -> Places]
    /\ follow \in Creatures \cup {Nobody} /\ topology \in 0..MaxChanges
    /\ gone \in BOOLEAN

FlagTypes ==
    /\ outstanding \in BOOLEAN /\ superseded \in BOOLEAN
    /\ outstanding <=> active # 0
    /\ active \in 0..MaxGenerations /\ generation \in 0..MaxGenerations
    /\ pending \in Requests \cup {NoRequest}
    /\ messages \subseteq Messages

LEMMA FollowTypes == TypeOK <=> PlaceTypes /\ FlagTypes /\ pathfinder \in BOOLEAN
  BY DEF TypeOK, PlaceTypes, FlagTypes

LEMMA WorldIs ==
  ASSUME UNCHANGED world, UNCHANGED changes, PlaceTypes, Bounded
  PROVE  PlaceTypes' /\ Bounded'
  BY DEF world, PlaceTypes, Bounded

LEMMA ChangesTypes ==
  ASSUME TypeOK, Bounded, Changes
  PROVE  TypeOK' /\ Bounded'
<1>1. PlaceTypes /\ FlagTypes /\ pathfinder \in BOOLEAN
  BY FollowTypes
<1>2. UNCHANGED <<pathfinder, outstanding, active, generation, superseded, pending, messages>>
  BY DEF Changes, flags
<1>3. FlagTypes' /\ pathfinder' \in BOOLEAN
  BY <1>1, <1>2 DEF FlagTypes
<1>4. changes \in Nat /\ topology \in Nat /\ MaxChanges \in Nat
  BY <1>1, FollowAssumption DEF Bounded, PlaceTypes
<1>5. changes' \in 0..MaxChanges /\ topology' \in 0..MaxChanges /\ topology' <= changes'
  BY <1>4 DEF Changes, Bounded
<1>6. at' \in Places /\ follow' \in Creatures \cup {Nobody} /\ gone' \in BOOLEAN
  BY <1>1 DEF Changes, PlaceTypes
<1>7. place' \in [Creatures -> Places]
  <2>1. place \in [Creatures -> Places]
    BY <1>1 DEF PlaceTypes
  <2>2. \/ place' = place
        \/ \E c \in Creatures, p \in Places : place' = [place EXCEPT ![c] = p]
    BY DEF Changes
  <2> QED BY <2>1, <2>2
<1> QED BY <1>3, <1>5, <1>6, <1>7, FollowTypes DEF TypeOK, PlaceTypes, FlagTypes, Bounded

LEMMA GoToTypes ==
  ASSUME TypeOK, Bounded, GoToFollowCreature
  PROVE  TypeOK' /\ Bounded'
<1> DEFINE request == [start |-> at, target |-> place[follow], who |-> follow]
           call == [kind |-> "prepare", gen |-> generation + 1,
                    job |-> NoRequest, map |-> 0]
<1>1. PlaceTypes /\ FlagTypes
  BY FollowTypes
<1>2. UNCHANGED world /\ UNCHANGED changes /\ pathfinder' = FALSE
  BY DEF GoToFollowCreature
<1>3. PlaceTypes' /\ Bounded' /\ pathfinder' \in BOOLEAN
  BY <1>1, <1>2, WorldIs
<1>4. FlagTypes' => TypeOK' /\ Bounded'
  BY <1>3 DEF TypeOK, PlaceTypes, FlagTypes
<1>5. CASE UNCHANGED <<outstanding, active, generation, superseded, pending, messages>>
  BY <1>1, <1>4, <1>5 DEF FlagTypes
<1>6. CASE Supersede /\ UNCHANGED messages
  <2>1. /\ UNCHANGED <<outstanding, active, messages>>
        /\ pending' = NoRequest /\ superseded' \in BOOLEAN
    BY <1>6 DEF Supersede
  <2>2. generation' \in 0..MaxGenerations
    BY <1>1, <1>6, FollowAssumption DEF Supersede, FlagTypes
  <2> QED BY <1>1, <1>4, <2>1, <2>2 DEF FlagTypes
<1>7. CASE follow # Nobody /\ generation < MaxGenerations /\ generation' = generation + 1
           /\ \/ /\ outstanding
                 /\ pending' = request /\ superseded' = FALSE
                 /\ UNCHANGED <<outstanding, active, messages>>
              \/ /\ ~outstanding
                 /\ pending' = request /\ superseded' = FALSE
                 /\ outstanding' = TRUE /\ active' = generation + 1
                 /\ messages' = messages \cup {call}
              \/ /\ ~outstanding
                 /\ pending' = NoRequest /\ superseded' = FALSE
                 /\ UNCHANGED <<outstanding, active, messages>>
  <2>1. generation' \in 0..MaxGenerations /\ generation + 1 \in 1..MaxGenerations
    BY <1>1, <1>7, FollowAssumption DEF FlagTypes
  <2>2. request \in Requests
    BY <1>1, <1>7 DEF PlaceTypes, Requests
  <2>3. call \in Messages
    BY <2>1, FollowAssumption DEF Messages
  <2> HIDE DEF request, call
  <2>4. pending' \in Requests \cup {NoRequest} /\ messages' \subseteq Messages
    BY <1>1, <1>7, <2>2, <2>3 DEF FlagTypes
  <2>5. active' \in 0..MaxGenerations /\ (outstanding' <=> active' # 0)
    BY <1>1, <1>7, <2>1, FollowAssumption DEF FlagTypes
  <2>6. outstanding' \in BOOLEAN /\ superseded' \in BOOLEAN
    BY <1>1, <1>7 DEF FlagTypes
  <2> QED BY <1>4, <2>1, <2>4, <2>5, <2>6 DEF FlagTypes
<1> QED BY <1>5, <1>6, <1>7 DEF GoToFollowCreature, Request, flags

(* A message that arrives.                                                  *)
LEMMA DeliversTypes ==
  ASSUME TypeOK, Bounded, PInv, Delivers
  PROVE  TypeOK' /\ Bounded'
<1>1. PlaceTypes /\ FlagTypes /\ pathfinder \in BOOLEAN
  BY FollowTypes
<1>2. PICK m \in messages : Prepare(m) \/ Complete(m) \/ Reject(m)
  BY DEF Delivers
<1>3. UNCHANGED world /\ UNCHANGED changes
  BY <1>2 DEF Prepare, Complete, Reject
<1>4. PlaceTypes' /\ Bounded'
  BY <1>1, <1>3, WorldIs
<1>5. FlagTypes' /\ pathfinder' \in BOOLEAN => TypeOK' /\ Bounded'
  BY <1>4 DEF TypeOK, PlaceTypes, FlagTypes
<1>6. CASE Dropped(m) /\ UNCHANGED flags
  BY <1>1, <1>5, <1>6 DEF Dropped, flags, FlagTypes
<1>7. CASE Idle /\ messages' = messages \ {m} /\ pathfinder' \in BOOLEAN
  <2>1. 0 \in 0..MaxGenerations
    BY FollowAssumption
  <2> QED BY <1>1, <1>5, <1>7, <2>1 DEF Idle, FlagTypes
<1>8. ASSUME NEW refresh \in BOOLEAN, Discard(refresh)
      PROVE  Idle /\ pathfinder' \in BOOLEAN
  BY <1>1, <1>8 DEF Discard, PlaceTypes
<1>9. CASE /\ Expected(m) /\ active' = generation
           /\ messages' = (messages \ {m}) \cup
                {[kind |-> "compute", gen |-> generation, job |-> pending,
                  map |-> topology]}
           /\ UNCHANGED <<pathfinder, outstanding, generation, superseded, pending>>
  <2> DEFINE call == [kind |-> "compute", gen |-> generation, job |-> pending,
                      map |-> topology]
  <2>1. outstanding /\ generation \in 1..MaxGenerations
    BY <1>1, <1>9, FollowAssumption DEF Expected, Ignored, FlagTypes, PInv, Generations
  <2>2. call \in Messages
    BY <1>1, <2>1 DEF FlagTypes, PlaceTypes, Messages
  <2> HIDE DEF call
  <2>3. messages' = (messages \ {m}) \cup {call}
    BY <1>9 DEF call
  <2>4. messages' \subseteq Messages
    BY <1>1, <2>2, <2>3 DEF FlagTypes
  <2>5. outstanding' <=> active' # 0
    BY <1>9, <2>1, FollowAssumption
  <2> QED BY <1>1, <1>5, <1>9, <2>4, <2>5 DEF FlagTypes
<1>10. CASE Expected(m) /\ Submit(m)
  <2>1. CASE Discard(follow # Nobody) /\ messages' = messages \ {m}
    BY <1>7, <1>8, <2>1
  <2>2. CASE Idle /\ messages' = messages \ {m} /\ UNCHANGED pathfinder
    BY <1>1, <1>7, <2>2
  <2> QED BY <1>9, <1>10, <2>1, <2>2 DEF Submit
<1>11. CASE Dropped(m)
  BY <1>1, <1>6, <1>7, <1>11 DEF Dropped, Settles
<1>12. CASE Complete(m) /\ ~Dropped(m)
  <2>1. messages' = messages \ {m}
    BY <1>12 DEF Complete
  <2>2. Idle /\ pathfinder' \in BOOLEAN
    BY <1>1, <1>8, <1>12 DEF Complete
  <2> QED BY <1>7, <2>1, <2>2
<1>13. CASE Reject(m) /\ ~Dropped(m)
  BY <1>1, <1>7, <1>10, <1>13 DEF Reject
<1> QED BY <1>2, <1>10, <1>11, <1>12, <1>13 DEF Prepare

(* Every step keeps the types.                                              *)
LEMMA StepTypes == TypeOK /\ Bounded /\ PInv /\ [Next]_vars => TypeOK' /\ Bounded'
<1> SUFFICES ASSUME TypeOK, Bounded, PInv, [Next]_vars PROVE TypeOK' /\ Bounded'
  OBVIOUS
<1>1. CASE AskForPath \/ UNCHANGED vars
  <2>1. UNCHANGED <<at, place, follow, topology, gone, changes, outstanding, active,
          generation, superseded, pending, messages>>
    BY <1>1 DEF AskForPath, world, flags, vars
  <2>2. pathfinder' \in BOOLEAN
    BY <1>1 DEF AskForPath, vars, TypeOK
  <2> QED BY <2>1, <2>2 DEF TypeOK, Bounded
<1> QED BY <1>1, ChangesTypes, GoToTypes, DeliversTypes DEF Next

LEMMA InitTypes == Init => TypeOK /\ Bounded
<1>1. 0 \in 0..MaxChanges /\ 0 \in 0..MaxGenerations /\ 0 <= 0
  BY FollowAssumption
<1>2. Init => PlaceTypes /\ Bounded
  BY <1>1 DEF Init, PlaceTypes, Bounded
<1>3. Init => FlagTypes /\ pathfinder \in BOOLEAN
  BY <1>1 DEF Init, FlagTypes
<1> QED BY <1>2, <1>3, FollowTypes

(* The types of a monster that asks for paths.                              *)
THEOREM TypeCorrect == Spec => []TypeOK
  BY InitTypes, StepTypes, PInvHolds, PTL DEF Spec

-----------------------------------------------------------------------------
(* As long as the monster lives there is one call when a search is          *)
(* outstanding, and none otherwise; ...                                     *)
SearchCalls == {m \in calls : m.kind # "post"}
OneSearch ==
    /\ searching => search # Mind!NoSearch /\ \E m : SearchCalls = {m} /\ m.gen = activeSearch
    /\ ~searching => SearchCalls = {}

(* ... a post-think that is said to be queued is in the queue that is said. *)
InItsQueue == postQueued => queues[postVisible] > 0

(* Somebody holds the post-think; PostThinkKept, of a monster that lives.   *)
Somewhere ==
    postPending =>
      \/ onThink \/ \E m \in calls : m.kind = "post"
      \/ postQueued /\ queues[postVisible] > 0
      \/ postWaiting /\ (searching \/ (targetRanking /\ search # Mind!NoSearch))

MindInv ==
    Mind!TypeOK /\ (barrier => ~dead) /\ (~dead => OneSearch /\ InItsQueue /\ Somewhere)

PostTypes ==
    /\ postPending \in BOOLEAN /\ postQueued \in BOOLEAN
    /\ postVisible \in BOOLEAN /\ postWaiting \in BOOLEAN
    /\ queues \in [BOOLEAN -> Nat]

-----------------------------------------------------------------------------
(* A post-think that is queued is in a queue or given up.                   *)
LEMMA QueuePosts ==
    ASSUME PostTypes, NEW visible \in BOOLEAN, Mind!Queue(visible)
    PROVE  PostTypes' /\ InItsQueue' /\ (postPending' => postQueued')
<1>1. CASE /\ postQueued' = TRUE /\ postVisible' = visible /\ postWaiting' = FALSE
           /\ queues' = [queues EXCEPT ![visible] = @ + 1]
           /\ UNCHANGED postPending
  <2>1. queues' \in [BOOLEAN -> Nat] /\ queues'[visible] > 0
    BY <1>1 DEF PostTypes
  <2> QED BY <1>1, <2>1 DEF PostTypes, InItsQueue
<1>2. CASE /\ postPending' = FALSE /\ postQueued' = FALSE /\ postWaiting' = FALSE
           /\ postVisible' = visible
           /\ UNCHANGED queues
  BY <1>2 DEF PostTypes, InItsQueue
<1> QED BY <1>1, <1>2 DEF Mind!Queue

(* queuePostThinkAfterAsync: it is in a queue or waits for the search.      *)
LEMMA AfterAsyncPosts ==
    ASSUME Mind!TypeOK, NEW going \in BOOLEAN, NEW queued \in BOOLEAN,
           ~dead => InItsQueue, queued => postQueued,
           Mind!QueueAfterAsync(going, queued)
    PROVE  /\ PostTypes'
           /\ ~dead => InItsQueue'
           /\ postPending' => postQueued' \/ (postWaiting' /\ going)
<1>1. PostTypes /\ seen \in BOOLEAN
  BY DEF Mind!TypeOK, PostTypes
<1>2. CASE /\ ~postPending \/ queued
           /\ postQueued' = queued
           /\ UNCHANGED <<postPending, postVisible, postWaiting, queues>>
  BY <1>1, <1>2 DEF PostTypes, InItsQueue
<1>3. CASE /\ postPending /\ ~queued /\ going
           /\ postWaiting' = TRUE /\ postQueued' = FALSE
           /\ UNCHANGED <<postPending, postVisible, queues>>
  BY <1>1, <1>3 DEF PostTypes, InItsQueue
<1>4. CASE Mind!Queue(seen)
  BY <1>1, <1>4, QueuePosts
<1> QED BY <1>2, <1>3, <1>4 DEF Mind!QueueAfterAsync

(* clearTargetSearchCompute: whoever waited for the search does so no more. *)
LEMMA ReleasePosts ==
    ASSUME Mind!TypeOK, ~dead => InItsQueue,
           \/ ~Mind!Releases /\ UNCHANGED Mind!post
           \/ Mind!Releases /\ Mind!QueueAfterAsync(FALSE, postQueued)
    PROVE  /\ PostTypes'
           /\ ~dead => InItsQueue'
           /\ postPending' => postQueued' \/ (UNCHANGED Mind!post /\ ~postWaiting)
<1>1. postQueued \in BOOLEAN
  BY DEF Mind!TypeOK
<1>2. CASE ~Mind!Releases /\ UNCHANGED Mind!post
  BY <1>2 DEF Mind!Releases, Mind!post, Mind!TypeOK, PostTypes, InItsQueue
<1>3. CASE Mind!QueueAfterAsync(FALSE, postQueued)
  BY <1>1, <1>3, AfterAsyncPosts
<1> QED BY <1>2, <1>3

-----------------------------------------------------------------------------
WorldTypes ==
    /\ thinkAt \in Places /\ targets \subseteq Targets
    /\ attacked \in Targets \cup {Nobody}
    /\ dead \in BOOLEAN /\ seen \in BOOLEAN /\ barrier \in BOOLEAN
    /\ barrier => ~dead
    /\ stateEpoch \in 1..MaxEpochs /\ decisionEpoch \in 1..stateEpoch
    /\ onThink \in BOOLEAN /\ targetRanking \in BOOLEAN

SearchTypes ==
    /\ searching \in BOOLEAN /\ (searching <=> activeSearch # 0)
    /\ activeSearch \in 0..searches /\ searches \in 0..MaxSearches
    /\ search \in Mind!Searches /\ calls \subseteq Mind!Calls

LEMMA TypesAre == Mind!TypeOK /\ (barrier => ~dead) <=> WorldTypes /\ SearchTypes /\ PostTypes
  BY DEF Mind!TypeOK, WorldTypes, SearchTypes, PostTypes

(* A search that is asked for is one.                                       *)
LEMMA SearchesAre ==
    ASSUME NEW type \in Mind!Types, NEW state \in 1..MaxEpochs, NEW decision \in 1..state
    PROVE  /\ [type |-> type, state |-> state, decision |-> decision] \in Mind!Searches
           /\ [type |-> type, state |-> state, decision |-> decision] # Mind!NoSearch
<1>1. decision \in 1..MaxEpochs /\ state # 0
  BY ThinkAssumption
<1>2. [type |-> type, state |-> state, decision |-> decision].state # Mind!NoSearch.state
  BY <1>1 DEF Mind!NoSearch
<1>3. [type |-> type, state |-> state, decision |-> decision] \in Mind!Searches
  BY <1>1 DEF Mind!Searches
<1> QED BY <1>2, <1>3

LEMMA NoSearchIs == Mind!NoSearch \in Mind!Searches
  BY DEF Mind!Searches

(* requestTargetSearchCompute: a call is on its way afterwards, and the     *)
(* post-think waits only where a search does.                               *)
LEMMA RequestSearches ==
    ASSUME MindInv, ~dead, NEW old \in {Mind!NoSearch, search}, NEW type \in Mind!Types,
           NEW others \in SUBSET Mind!Calls, {m \in others : m.kind # "post"} = SearchCalls,
           Mind!Request(old, type, others)
    PROVE  /\ SearchTypes' /\ OneSearch' /\ PostTypes' /\ InItsQueue'
           /\ others \subseteq calls'
           /\ postPending' => postQueued' \/ (UNCHANGED Mind!post /\ (postWaiting => searching'))
<1> DEFINE wanted == [type |-> type, state |-> stateEpoch, decision |-> decisionEpoch]
<1>1. WorldTypes /\ SearchTypes /\ PostTypes /\ OneSearch /\ InItsQueue
  BY TypesAre DEF MindInv
<1>2. wanted \in Mind!Searches /\ wanted # Mind!NoSearch
  BY <1>1, SearchesAre DEF WorldTypes
<1>3. UNCHANGED Mind!post => PostTypes' /\ InItsQueue'
  BY <1>1 DEF Mind!post, PostTypes, InItsQueue
<1> HIDE DEF wanted
<1>4. CASE /\ searching /\ search' \in {old, wanted} /\ search' # Mind!NoSearch
           /\ calls' = others
           /\ UNCHANGED <<searching, activeSearch, Mind!post>>
           /\ searches' \in searches..MaxSearches
  <2>1. search' \in Mind!Searches
    BY <1>1, <1>2, <1>4, NoSearchIs DEF SearchTypes
  <2>2. SearchTypes'
    <3>1. searches' \in 0..MaxSearches /\ activeSearch' \in 0..searches'
      BY <1>1, <1>4, ThinkAssumption DEF SearchTypes
    <3> QED BY <1>1, <1>4, <2>1, <3>1 DEF SearchTypes
  <2>3. OneSearch'
    BY <1>1, <1>4 DEF OneSearch, SearchCalls
  <2> QED BY <1>3, <1>4, <2>2, <2>3
<1>5. CASE Mind!SameSearch(old, type) /\ search' = old /\ calls' = others
           /\ UNCHANGED <<searching, activeSearch, searches, Mind!post>>
  <2>1. searching /\ old = wanted
    BY <1>5 DEF Mind!SameSearch, wanted
  <2>2. searches' \in searches..MaxSearches
    BY <1>1, <1>5, ThinkAssumption DEF SearchTypes
  <2> QED BY <1>2, <1>4, <1>5, <2>1, <2>2
<1>6. ASSUME searches < MaxSearches, searches' = searches + 1
      PROVE  searches' \in searches..MaxSearches /\ searches + 1 \in 1..MaxSearches
  BY <1>1, <1>6, ThinkAssumption DEF SearchTypes
<1>7. CASE /\ searches < MaxSearches /\ searches' = searches + 1
           /\ searching /\ search' = wanted /\ calls' = others
           /\ UNCHANGED <<searching, activeSearch, Mind!post>>
  BY <1>2, <1>4, <1>6, <1>7
<1>8. CASE /\ searches < MaxSearches /\ searches' = searches + 1
           /\ ~searching /\ search' = wanted /\ searching' = TRUE
           /\ activeSearch' = searches + 1
           /\ calls' = others \cup
                {[kind |-> "prepare", gen |-> searches + 1, state |-> 0,
                  decision |-> 0, at |-> 0]}
           /\ UNCHANGED Mind!post
  <2> DEFINE call == [kind |-> "prepare", gen |-> searches + 1, state |-> 0,
                      decision |-> 0, at |-> 0]
  <2>1. call \in Mind!Calls /\ call.kind # "post" /\ call.gen = searches + 1
    BY <1>6, <1>8, ThinkAssumption DEF Mind!Calls
  <2> HIDE DEF call
  <2>2. calls' = others \cup {call}
    BY <1>8 DEF call
  <2>3. SearchTypes'
    <3>1. activeSearch' # 0 /\ activeSearch' \in 0..searches' /\ searches' \in 0..MaxSearches
      BY <1>1, <1>6, <1>8, ThinkAssumption DEF SearchTypes
    <3> QED BY <1>2, <1>8, <2>1, <2>2, <3>1 DEF SearchTypes
  <2>4. SearchCalls' = SearchCalls \cup {call}
    BY <2>1, <2>2 DEF SearchCalls
  <2>5. SearchCalls' = {call}
    BY <1>1, <1>8, <2>4 DEF OneSearch
  <2>6. OneSearch'
    BY <1>2, <1>8, <2>1, <2>5 DEF OneSearch
  <2> QED BY <1>3, <1>8, <2>2, <2>3, <2>6
<1>9. CASE /\ searches < MaxSearches /\ searches' = searches + 1
           /\ ~searching /\ search' = Mind!NoSearch /\ searching' = FALSE
           /\ activeSearch' = 0 /\ calls' = others
           /\ \/ ~Mind!Releases /\ UNCHANGED Mind!post
              \/ Mind!Releases /\ Mind!QueueAfterAsync(FALSE, postQueued)
  <2>1. SearchTypes'
    <3>1. activeSearch' \in 0..searches' /\ searches' \in 0..MaxSearches
      BY <1>1, <1>6, <1>9, ThinkAssumption DEF SearchTypes
    <3> QED BY <1>9, <3>1, NoSearchIs DEF SearchTypes
  <2>2. OneSearch'
    BY <1>1, <1>9 DEF OneSearch, SearchCalls
  <2>3. Mind!TypeOK /\ (~dead => InItsQueue)
    BY DEF MindInv
  <2>4. /\ PostTypes' /\ InItsQueue'
        /\ postPending' => postQueued' \/ (UNCHANGED Mind!post /\ ~postWaiting)
    BY <1>9, <2>3, ReleasePosts
  <2> QED BY <1>9, <2>1, <2>2, <2>4
<1> QED BY <1>5, <1>7, <1>8, <1>9 DEF Mind!Request, wanted

-----------------------------------------------------------------------------
(* What is left of MindInv for a step to show.                              *)
LEMMA MindInvFrom ==
    ASSUME WorldTypes', SearchTypes', PostTypes',
           ~dead' => OneSearch' /\ InItsQueue' /\ Somewhere'
    PROVE  MindInv'
  BY DEF MindInv, Mind!TypeOK, WorldTypes, SearchTypes, PostTypes

(* The world around the monster, and the player that sees it.               *)
LEMMA ChangeWorldMind ==
    ASSUME MindInv, Mind!ChangeWorld
    PROVE  MindInv'
<1>1. WorldTypes /\ SearchTypes /\ PostTypes /\ (dead' => TRUE) /\ (dead => dead')
  BY TypesAre DEF MindInv, Mind!ChangeWorld
<1>2. UNCHANGED <<onThink, targetRanking, barrier, searching, activeSearch, searches, search,
          calls, postPending, postQueued, postVisible, postWaiting, queues>>
  BY DEF Mind!ChangeWorld, Mind!flags, Mind!search, Mind!post
<1>3. SearchTypes' /\ PostTypes'
  BY <1>1, <1>2 DEF SearchTypes, PostTypes
<1>4. ~dead' => OneSearch' /\ InItsQueue' /\ Somewhere'
  BY <1>1, <1>2 DEF MindInv, OneSearch, SearchCalls, InItsQueue, Somewhere
<1>5. stateEpoch' \in 1..MaxEpochs /\ decisionEpoch' \in 1..stateEpoch'
  <2>1. \/ Mind!MarkTargetStateChanged \/ Mind!MarkTargetDecisionChanged
        \/ UNCHANGED Mind!epochs
    BY DEF Mind!ChangeWorld
  <2> QED BY <1>1, <2>1, ThinkAssumption DEF WorldTypes, Mind!epochs,
          Mind!MarkTargetStateChanged, Mind!MarkTargetDecisionChanged
<1>6. WorldTypes'
  <2>1. thinkAt' \in Places /\ targets' \subseteq Targets /\ attacked' \in Targets \cup {Nobody}
    BY <1>1 DEF Mind!ChangeWorld, WorldTypes
  <2>2. dead' \in BOOLEAN /\ seen' \in BOOLEAN
    BY <1>1 DEF Mind!ChangeWorld, WorldTypes
  <2>3. barrier' => ~dead'
    BY <1>2 DEF Mind!ChangeWorld, Mind!Serial
  <2> QED BY <1>1, <1>2, <1>5, <2>1, <2>2, <2>3 DEF WorldTypes
<1> QED BY <1>3, <1>4, <1>6, MindInvFrom

LEMMA SeenMind ==
    ASSUME MindInv, Mind!Seen
    PROVE  MindInv'
<1>1. WorldTypes /\ SearchTypes /\ PostTypes
  BY TypesAre DEF MindInv
<1>2. UNCHANGED <<thinkAt, targets, attacked, dead, stateEpoch, decisionEpoch,
          onThink, targetRanking, barrier, searching, activeSearch, searches, search, calls>>
      /\ seen' = TRUE
  BY DEF Mind!Seen, Mind!flags, Mind!search, Mind!epochs
<1>3. WorldTypes' /\ SearchTypes'
  BY <1>1, <1>2 DEF WorldTypes, SearchTypes
<1>4. CASE UNCHANGED Mind!post
  BY <1>1, <1>2, <1>3, <1>4, MindInvFrom DEF MindInv, OneSearch, SearchCalls, InItsQueue,
     Somewhere, Mind!post, PostTypes
<1>5. CASE searching /\ Mind!QueueAfterAsync(TRUE, FALSE)
  <2>1. /\ PostTypes' /\ (~dead => InItsQueue')
        /\ postPending' => postQueued' \/ postWaiting'
    BY <1>5, AfterAsyncPosts DEF MindInv
  <2>2. ~dead' => OneSearch' /\ InItsQueue' /\ Somewhere'
    BY <1>2, <1>5, <2>1 DEF MindInv, OneSearch, SearchCalls, InItsQueue, Somewhere
  <2> QED BY <1>3, <2>1, <2>2, MindInvFrom
<1>6. CASE Mind!Queue(TRUE)
  <2>1. PostTypes' /\ InItsQueue' /\ (postPending' => postQueued')
    BY <1>1, <1>6, QueuePosts
  <2>2. ~dead' => OneSearch' /\ InItsQueue' /\ Somewhere'
    BY <1>2, <2>1 DEF MindInv, OneSearch, SearchCalls, InItsQueue, Somewhere
  <2> QED BY <1>3, <2>1, <2>2, MindInvFrom
<1> QED BY <1>4, <1>5, <1>6 DEF Mind!Seen

LEMMA ThinkMind ==
    ASSUME MindInv, Mind!Think
    PROVE  MindInv'
<1>1. WorldTypes /\ SearchTypes /\ PostTypes
  BY TypesAre DEF MindInv
<1>2. UNCHANGED <<thinkAt, targets, attacked, dead, seen, stateEpoch, decisionEpoch,
          targetRanking, barrier, searching, activeSearch, searches, search, calls,
          postQueued, postVisible, postWaiting, queues>>
      /\ onThink' = TRUE /\ postPending' = TRUE
  BY DEF Mind!Think, Mind!world, Mind!search, Mind!epochs
<1>3. WorldTypes' /\ SearchTypes' /\ PostTypes'
  BY <1>1, <1>2 DEF WorldTypes, SearchTypes, PostTypes
<1>4. ~dead' => OneSearch' /\ InItsQueue' /\ Somewhere'
  BY <1>2 DEF MindInv, OneSearch, SearchCalls, InItsQueue, Somewhere
<1> QED BY <1>3, <1>4, MindInvFrom

(* The barrier phase.                                                       *)
LEMMA ExecuteRankingMind ==
    ASSUME MindInv, Mind!ExecuteRanking
    PROVE  MindInv'
<1>1. WorldTypes /\ SearchTypes /\ PostTypes
  BY TypesAre DEF MindInv
<1>2. UNCHANGED <<thinkAt, targets, attacked, dead, seen, stateEpoch, decisionEpoch, onThink>>
      /\ barrier' = TRUE /\ targetRanking' = FALSE /\ ~dead
  BY DEF Mind!ExecuteRanking, Mind!world, Mind!epochs
<1>3. WorldTypes'
  BY <1>1, <1>2 DEF WorldTypes
<1>4. CASE /\ search # Mind!NoSearch
           /\ Mind!Request(Mind!NoSearch, search.type, calls)
  <2>1. search.type \in Mind!Types
    BY <1>1, <1>4 DEF SearchTypes, Mind!Searches, Mind!NoSearch
  <2>2. /\ SearchTypes' /\ OneSearch' /\ PostTypes' /\ InItsQueue'
        /\ calls \subseteq calls'
        /\ postPending' => postQueued' \/ (UNCHANGED Mind!post /\ (postWaiting => searching'))
    BY <1>1, <1>2, <1>4, <2>1, RequestSearches DEF SearchTypes, SearchCalls
  <2>3. Somewhere'
    <3>1. CASE ~postPending' \/ postQueued'
      BY <2>2, <3>1 DEF Somewhere, InItsQueue
    <3>2. CASE UNCHANGED Mind!post /\ (postWaiting => searching')
      BY <1>2, <2>2, <3>2 DEF Somewhere, MindInv, Mind!post
    <3> QED BY <2>2, <3>1, <3>2
  <2> QED BY <1>3, <2>2, <2>3, MindInvFrom
<1>5. CASE /\ ~(targetRanking /\ search # Mind!NoSearch)
           /\ UNCHANGED <<Mind!search, calls, Mind!post>>
  <2>1. SearchTypes' /\ PostTypes'
    BY <1>1, <1>5 DEF SearchTypes, PostTypes, Mind!search, Mind!post
  <2>2. OneSearch' /\ InItsQueue' /\ Somewhere'
    BY <1>2, <1>5 DEF MindInv, OneSearch, SearchCalls, InItsQueue, Somewhere,
       Mind!search, Mind!post
  <2> QED BY <1>3, <2>1, <2>2, MindInvFrom
<1> QED BY <1>4, <1>5 DEF Mind!ExecuteRanking

LEMMA ThinkAsyncMind ==
    ASSUME MindInv, Mind!ThinkAsync
    PROVE  MindInv'
<1> DEFINE post == [kind |-> "post", gen |-> 0, state |-> 0, decision |-> 0, at |-> 0]
           later == calls \cup {post}
<1>1. WorldTypes /\ SearchTypes /\ PostTypes
  BY TypesAre DEF MindInv
<1>2. UNCHANGED <<thinkAt, targets, attacked, dead, seen, stateEpoch, decisionEpoch, targetRanking>>
      /\ barrier' = FALSE /\ onThink' = FALSE
  BY DEF Mind!ThinkAsync, Mind!world, Mind!epochs
<1>3. WorldTypes'
  BY <1>1, <1>2 DEF WorldTypes
<1>4. post \in Mind!Calls /\ post.kind = "post"
  BY ThinkAssumption DEF Mind!Calls
<1> HIDE DEF post
<1>5. later \in SUBSET Mind!Calls /\ {m \in later : m.kind # "post"} = SearchCalls
  BY <1>1, <1>4 DEF SearchTypes, SearchCalls
<1>6. ASSUME SearchTypes', OneSearch', PostTypes', InItsQueue', postPending' =>
             \/ post \in calls' \/ postQueued' \/ (postWaiting' /\ searching')
      PROVE  MindInv'
  <2>1. Somewhere'
    BY <1>4, <1>6 DEF Somewhere, InItsQueue
  <2> QED BY <1>2, <1>3, <1>6, <2>1, MindInvFrom
<1>7. ~dead
  BY DEF MindInv, Mind!ThinkAsync
<1>8. CASE ~onThink /\ UNCHANGED <<Mind!search, calls, Mind!post>>
  <2>1. SearchTypes' /\ PostTypes'
    BY <1>1, <1>8 DEF SearchTypes, PostTypes, Mind!search, Mind!post
  <2>2. OneSearch /\ InItsQueue /\ Somewhere
    BY <1>7 DEF MindInv
  <2>3. UNCHANGED <<postPending, postQueued, postVisible, postWaiting, queues,
          searching, activeSearch, search, calls>>
    BY <1>8 DEF Mind!search, Mind!post
  <2>4. OneSearch' /\ InItsQueue' /\ Somewhere'
    BY <1>2, <1>8, <2>2, <2>3 DEF OneSearch, SearchCalls, InItsQueue, Somewhere
  <2> QED BY <1>3, <2>1, <2>4, MindInvFrom
<1>9. ASSUME onThink, NEW type \in Mind!Types, Mind!Request(search, type, later)
      PROVE  MindInv'
  <2>1. /\ SearchTypes' /\ OneSearch' /\ PostTypes' /\ InItsQueue'
        /\ later \subseteq calls'
    BY <1>5, <1>7, <1>9, RequestSearches
  <2> QED BY <1>6, <2>1
<1>10. CASE onThink /\ calls' = later /\ UNCHANGED <<Mind!search, Mind!post>>
  <2>1. SearchTypes' /\ PostTypes'
    BY <1>1, <1>5, <1>10 DEF SearchTypes, PostTypes, Mind!search, Mind!post
  <2>2. SearchCalls' = SearchCalls
    BY <1>5, <1>10 DEF SearchCalls
  <2>3. OneSearch' /\ InItsQueue'
    <3>1. OneSearch /\ InItsQueue
      BY <1>7 DEF MindInv
    <3>2. UNCHANGED <<postPending, postQueued, postVisible, postWaiting, queues,
            searching, activeSearch, search>>
      BY <1>10 DEF Mind!search, Mind!post
    <3> QED BY <2>2, <3>1, <3>2 DEF OneSearch, InItsQueue
  <2> QED BY <1>6, <1>10, <2>1, <2>3
<1>11. CASE /\ onThink /\ Mind!QueueAfterAsync(searching, postQueued)
            /\ UNCHANGED <<Mind!search, calls>>
  <2>1. searching \in BOOLEAN /\ postQueued \in BOOLEAN
    BY <1>1 DEF SearchTypes, PostTypes
  <2>2. /\ PostTypes' /\ InItsQueue'
        /\ postPending' => postQueued' \/ (postWaiting' /\ searching)
    BY <1>7, <1>11, <2>1, AfterAsyncPosts DEF MindInv
  <2>3. SearchTypes' /\ OneSearch'
    BY <1>1, <1>7, <1>11 DEF MindInv, SearchTypes, OneSearch, SearchCalls, Mind!search
  <2> QED BY <1>6, <1>11, <2>2, <2>3 DEF Mind!search
<1> QED BY <1>8, <1>9, <1>10, <1>11 DEF Mind!ThinkAsync, post

-----------------------------------------------------------------------------
(* What the dispatcher and the workers deliver.                             *)
LEMMA QueuePostMind ==
    ASSUME MindInv, NEW m \in calls, Mind!QueuePost(m)
    PROVE  MindInv'
<1>1. WorldTypes /\ SearchTypes /\ PostTypes
  BY TypesAre DEF MindInv
<1>2. /\ UNCHANGED <<thinkAt, targets, attacked, dead, seen, stateEpoch, decisionEpoch,
            onThink, targetRanking, barrier, searching, activeSearch, searches, search>>
      /\ m.kind = "post" /\ calls' = calls \ {m}
  BY DEF Mind!QueuePost, Mind!world, Mind!epochs, Mind!flags, Mind!search
<1>3. WorldTypes' /\ SearchTypes'
  BY <1>1, <1>2 DEF WorldTypes, SearchTypes
<1>4. SearchCalls' = SearchCalls
  BY <1>2 DEF SearchCalls
<1>5. CASE dead /\ UNCHANGED Mind!post
  <2>1. PostTypes' /\ dead'
    BY <1>1, <1>2, <1>5 DEF PostTypes, Mind!post
  <2> QED BY <1>3, <2>1, MindInvFrom
<1>6. CASE ~dead /\ Mind!QueueAfterAsync(searching, postQueued)
  <2>1. searching \in BOOLEAN /\ postQueued \in BOOLEAN
    BY <1>1 DEF SearchTypes, PostTypes
  <2>2. /\ PostTypes' /\ InItsQueue'
        /\ postPending' => postQueued' \/ (postWaiting' /\ searching)
    BY <1>6, <2>1, AfterAsyncPosts DEF MindInv
  <2>3. OneSearch' /\ Somewhere'
    BY <1>2, <1>4, <1>6, <2>2 DEF MindInv, OneSearch, InItsQueue, Somewhere
  <2> QED BY <1>3, <2>2, <2>3, MindInvFrom
<1> QED BY <1>5, <1>6 DEF Mind!QueuePost

(* A call for the search comes to a monster that waits for it, unless the   *)
(* monster is dead; nothing else is on its way then.                        *)
LEMMA CallIsExpected ==
    ASSUME MindInv, ~dead, NEW m \in calls, m.kind # "post"
    PROVE  /\ searching /\ m.gen = activeSearch /\ search # Mind!NoSearch
           /\ ~Mind!Ignored(m) /\ {x \in calls \ {m} : x.kind # "post"} = {}
<1>1. m \in SearchCalls
  BY DEF SearchCalls
<1>2. searching
  BY <1>1 DEF MindInv, OneSearch
<1>3. search # Mind!NoSearch /\ \E x : SearchCalls = {x} /\ x.gen = activeSearch
  BY <1>2 DEF MindInv, OneSearch
<1>4. SearchCalls = {m} /\ m.gen = activeSearch
  BY <1>1, <1>3
<1>5. {x \in calls \ {m} : x.kind # "post"} = {}
  BY <1>4 DEF SearchCalls
<1> QED BY <1>2, <1>3, <1>4, <1>5 DEF Mind!Ignored

(* The search ends: whoever waits for it goes on.                           *)
LEMMA ClearEnds ==
    ASSUME MindInv, ~dead, ~dead', NEW m \in calls, m.kind # "post", WorldTypes',
           calls' = calls \ {m}, Mind!Clear, UNCHANGED onThink
    PROVE  MindInv'
<1>1. SearchTypes /\ InItsQueue /\ Mind!TypeOK /\ Somewhere
  BY TypesAre DEF MindInv
<1>2. /\ searching' = FALSE /\ activeSearch' = 0 /\ search' = Mind!NoSearch
      /\ searches' = searches
  BY DEF Mind!Clear
<1>3. SearchTypes'
  <2>1. activeSearch' \in 0..searches'
    BY <1>1, <1>2, ThinkAssumption DEF SearchTypes
  <2> QED BY <1>1, <1>2, <2>1, NoSearchIs DEF SearchTypes
<1>4. OneSearch'
  BY <1>2, CallIsExpected DEF OneSearch, SearchCalls
<1>5. /\ PostTypes' /\ InItsQueue'
      /\ postPending' => postQueued' \/ (UNCHANGED Mind!post /\ ~postWaiting)
  BY <1>1, ReleasePosts DEF Mind!Clear
<1>6. Somewhere'
  <2>1. CASE ~postPending' \/ postQueued'
    BY <1>5, <2>1 DEF Somewhere, InItsQueue
  <2>2. CASE UNCHANGED Mind!post /\ ~postWaiting
    <3>1. (\E c \in calls : c.kind = "post") => \E c \in calls' : c.kind = "post"
      OBVIOUS
    <3> QED BY <1>1, <2>2, <3>1 DEF Somewhere, Mind!post
  <2> QED BY <1>5, <2>1, <2>2
<1> QED BY <1>3, <1>4, <1>5, <1>6, MindInvFrom

(* Taking a target is a decision.                                           *)
LEMMA SelectTypes ==
    ASSUME WorldTypes, Mind!Select
    PROVE  /\ attacked' \in Targets \cup {Nobody}
           /\ stateEpoch' \in 1..MaxEpochs /\ decisionEpoch' \in 1..stateEpoch'
<1>1. CASE UNCHANGED <<attacked, Mind!epochs>>
  BY <1>1 DEF WorldTypes, Mind!epochs
<1>2. CASE attacked' \in targets \ {attacked} /\ Mind!MarkTargetDecisionChanged
  BY <1>2, ThinkAssumption DEF WorldTypes, Mind!MarkTargetDecisionChanged
<1> QED BY <1>1, <1>2 DEF Mind!Select

LEMMA PrepareMind ==
    ASSUME MindInv, NEW m \in calls, Mind!Prepare(m)
    PROVE  MindInv'
<1>1. WorldTypes /\ SearchTypes /\ PostTypes
  BY TypesAre DEF MindInv
<1>2. /\ UNCHANGED <<thinkAt, targets, dead, seen, onThink, targetRanking, barrier>>
      /\ m.kind = "prepare"
  BY DEF Mind!Prepare, Mind!flags
<1>3. CASE Mind!Ignored(m) /\ calls' = calls \ {m}
           /\ UNCHANGED <<attacked, Mind!epochs, Mind!search, Mind!post>>
  <2>1. dead
    BY <1>2, <1>3, CallIsExpected
  <2>2. WorldTypes' /\ SearchTypes' /\ PostTypes' /\ dead'
    BY <1>1, <1>2, <1>3, <2>1 DEF WorldTypes, SearchTypes, PostTypes, Mind!epochs,
       Mind!search, Mind!post
  <2> QED BY <2>2, MindInvFrom
<1>4. CASE /\ ~Mind!Ignored(m) /\ calls' = calls \ {m} /\ Mind!Clear
           /\ UNCHANGED <<attacked, Mind!epochs>> \/ Mind!Select
  <2>1. WorldTypes'
    BY <1>1, <1>2, <1>4, SelectTypes DEF WorldTypes, Mind!epochs
  <2>2. ~dead /\ ~dead'
    BY <1>2, <1>4 DEF Mind!Ignored
  <2> QED BY <1>2, <1>4, <2>1, <2>2, ClearEnds
<1>5. CASE /\ ~Mind!Ignored(m)
           /\ activeSearch' = searches
           /\ search' = [search EXCEPT !.state = stateEpoch]
           /\ calls' = (calls \ {m}) \cup
                {[kind |-> "compute", gen |-> searches, state |-> stateEpoch,
                  decision |-> decisionEpoch, at |-> thinkAt]}
           /\ UNCHANGED <<attacked, Mind!epochs, searching, searches, Mind!post>>
  <2> DEFINE call == [kind |-> "compute", gen |-> searches, state |-> stateEpoch,
                      decision |-> decisionEpoch, at |-> thinkAt]
  <2>1. ~dead /\ ~dead'
    BY <1>2, <1>5 DEF Mind!Ignored
  <2>2. call \in Mind!Calls /\ call.kind = "compute" /\ call.gen = searches
    <3>1. stateEpoch \in 0..MaxEpochs /\ decisionEpoch \in 0..MaxEpochs
      BY <1>1, ThinkAssumption DEF WorldTypes
    <3> QED BY <1>1, <3>1 DEF WorldTypes, SearchTypes, Mind!Calls
  <2>3. calls' = (calls \ {m}) \cup {call}
    BY <1>5
  <2> HIDE DEF call
  <2>4. /\ searching /\ search # Mind!NoSearch
        /\ {x \in calls \ {m} : x.kind # "post"} = {}
    BY <1>2, <2>1, CallIsExpected
  <2>5. search' \in Mind!Searches /\ search' # Mind!NoSearch
    <3>1. search \in [type : Mind!Types, state : 1..MaxEpochs, decision : 1..MaxEpochs]
      BY <1>1, <2>4 DEF SearchTypes, Mind!Searches
    <3>2. stateEpoch \in 1..MaxEpochs /\ stateEpoch # 0
      BY <1>1, ThinkAssumption DEF WorldTypes
    <3>3. /\ search' \in [type : Mind!Types, state : 1..MaxEpochs, decision : 1..MaxEpochs]
          /\ search'.state = stateEpoch
      BY <1>5, <3>1, <3>2
    <3> QED BY <3>2, <3>3 DEF Mind!Searches, Mind!NoSearch
  <2>6. SearchTypes'
    <3>1. activeSearch' # 0 /\ activeSearch' \in 0..searches'
      BY <1>1, <1>5, <2>4, ThinkAssumption DEF SearchTypes
    <3> QED BY <1>1, <1>5, <2>2, <2>3, <2>4, <2>5, <3>1 DEF SearchTypes
  <2>7. SearchCalls' = {call}
    BY <2>2, <2>3, <2>4 DEF SearchCalls
  <2>8. OneSearch'
    BY <1>5, <2>2, <2>4, <2>5, <2>7 DEF OneSearch
  <2>9. UNCHANGED <<postPending, postQueued, postVisible, postWaiting, queues>>
    BY <1>5 DEF Mind!post
  <2>10. WorldTypes' /\ PostTypes'
    BY <1>1, <1>2, <1>5, <2>9 DEF WorldTypes, PostTypes, Mind!epochs
  <2>11. InItsQueue /\ Somewhere
    BY <2>1 DEF MindInv
  <2>12. (\E c \in calls : c.kind = "post") => \E c \in calls' : c.kind = "post"
    BY <1>2, <2>3
  <2>13. InItsQueue' /\ Somewhere'
    BY <1>2, <1>5, <2>4, <2>9, <2>11, <2>12 DEF InItsQueue, Somewhere
  <2> QED BY <2>6, <2>8, <2>10, <2>13, MindInvFrom
<1> QED BY <1>3, <1>4, <1>5 DEF Mind!Prepare

(* retryTargetSearchCompute: the post-think waits for the search that the   *)
(* next barrier phase makes.                                                *)
LEMMA RetryWaits ==
    ASSUME MindInv, ~dead, NEW m \in calls, m.kind # "post",
           calls' = calls \ {m}, Mind!Retry(search.type),
           UNCHANGED <<thinkAt, targets, dead, seen, onThink, barrier>>
    PROVE  MindInv'
<1>1. WorldTypes /\ SearchTypes /\ PostTypes /\ InItsQueue /\ Somewhere
  BY TypesAre DEF MindInv
<1>2. /\ searching' = FALSE /\ activeSearch' = 0 /\ searches' = searches
      /\ targetRanking' = TRUE
      /\ search' = [type |-> search.type, state |-> stateEpoch, decision |-> decisionEpoch]
      /\ UNCHANGED <<attacked, stateEpoch, decisionEpoch, postPending, postQueued,
            postVisible, postWaiting, queues>>
  BY DEF Mind!Retry, Mind!KeepsWaiting, Mind!post, Mind!epochs
<1>3. search # Mind!NoSearch /\ {x \in calls \ {m} : x.kind # "post"} = {}
  BY CallIsExpected
<1>4. search.type \in Mind!Types
  BY <1>1, <1>3 DEF SearchTypes, Mind!Searches
<1>5. search' \in Mind!Searches /\ search' # Mind!NoSearch
  BY <1>1, <1>2, <1>4, SearchesAre DEF WorldTypes
<1>6. SearchTypes'
  <2>1. activeSearch' \in 0..searches'
    BY <1>1, <1>2, ThinkAssumption DEF SearchTypes
  <2> QED BY <1>1, <1>2, <1>5, <2>1 DEF SearchTypes
<1>7. WorldTypes' /\ PostTypes'
  BY <1>1, <1>2 DEF WorldTypes, PostTypes
<1>8. OneSearch' /\ InItsQueue'
  BY <1>1, <1>2, <1>3 DEF OneSearch, SearchCalls, InItsQueue
<1>9. (\E c \in calls : c.kind = "post") => \E c \in calls' : c.kind = "post"
  OBVIOUS
<1>10. Somewhere'
  BY <1>1, <1>2, <1>5, <1>9 DEF Somewhere
<1> QED BY <1>6, <1>7, <1>8, <1>10, MindInvFrom

LEMMA CompleteMind ==
    ASSUME MindInv, NEW m \in calls, Mind!Complete(m)
    PROVE  MindInv'
<1>1. WorldTypes /\ SearchTypes /\ PostTypes
  BY TypesAre DEF MindInv
<1>2. /\ UNCHANGED <<thinkAt, targets, dead, seen, onThink, barrier>>
      /\ m.kind # "post" /\ calls' = calls \ {m}
  BY DEF Mind!Complete
<1>3. CASE Mind!Ignored(m)
           /\ UNCHANGED <<attacked, Mind!epochs, Mind!search, targetRanking, Mind!post>>
  <2>1. dead
    BY <1>2, <1>3, CallIsExpected
  <2>2. WorldTypes' /\ SearchTypes' /\ PostTypes' /\ dead'
    BY <1>1, <1>2, <1>3, <2>1 DEF WorldTypes, SearchTypes, PostTypes, Mind!epochs,
       Mind!search, Mind!post
  <2> QED BY <2>2, MindInvFrom
<1>4. CASE ~Mind!Ignored(m) /\ Mind!Retry(search.type)
  BY <1>2, <1>4, RetryWaits DEF Mind!Ignored
<1>5. CASE /\ ~Mind!Ignored(m) /\ Mind!Clear /\ UNCHANGED targetRanking
           /\ UNCHANGED <<attacked, Mind!epochs>> \/ Mind!Select
  <2>1. WorldTypes'
    BY <1>1, <1>2, <1>5, SelectTypes DEF WorldTypes, Mind!epochs
  <2>2. ~dead /\ ~dead'
    BY <1>2, <1>5 DEF Mind!Ignored
  <2> QED BY <1>2, <1>5, <2>1, <2>2, ClearEnds
<1> QED BY <1>3, <1>4, <1>5 DEF Mind!Complete, Mind!Selects

-----------------------------------------------------------------------------
(* A queue is worked through, or given up as a whole.                       *)
LEMMA ExecutePostThinkMind ==
    ASSUME MindInv, Mind!ExecutePostThink
    PROVE  MindInv'
<1>1. WorldTypes /\ SearchTypes /\ PostTypes
  BY TypesAre DEF MindInv
<1>2. UNCHANGED <<thinkAt, targets, attacked, dead, seen, stateEpoch, decisionEpoch,
            onThink, targetRanking, barrier, searching, activeSearch, searches, search,
            calls, postVisible>>
  BY DEF Mind!ExecutePostThink, Mind!world, Mind!epochs, Mind!flags, Mind!search
<1>3. WorldTypes' /\ SearchTypes'
  BY <1>1, <1>2 DEF WorldTypes, SearchTypes
<1>4. PICK visible \in BOOLEAN :
         /\ queues[visible] > 0 /\ queues' = [queues EXCEPT ![visible] = @ - 1]
         /\ \/ /\ dead \/ ~postQueued \/ postVisible # visible
               /\ UNCHANGED <<postPending, postQueued, postWaiting>>
            \/ /\ ~dead /\ postQueued /\ postVisible = visible /\ searching
               /\ postQueued' = FALSE /\ postWaiting' = TRUE
               /\ UNCHANGED postPending
            \/ /\ ~dead /\ postQueued /\ postVisible = visible /\ ~searching
               /\ postQueued' = FALSE /\ postPending' = FALSE
               /\ UNCHANGED postWaiting
  BY DEF Mind!ExecutePostThink
<1>5. queues' \in [BOOLEAN -> Nat]
  BY <1>1, <1>4 DEF PostTypes
<1>6. PostTypes'
  BY <1>1, <1>2, <1>4, <1>5 DEF PostTypes
<1>7. ASSUME ~dead'
      PROVE  OneSearch' /\ InItsQueue' /\ Somewhere'
  <2>1. OneSearch /\ InItsQueue /\ Somewhere /\ ~dead
    BY <1>2, <1>7 DEF MindInv
  <2>2. OneSearch'
    BY <1>2, <2>1 DEF OneSearch, SearchCalls
  <2>3. postQueued' => postQueued /\ queues'[postVisible] = queues[postVisible]
    BY <1>1, <1>4, <2>1 DEF PostTypes
  <2>4. InItsQueue'
    BY <1>2, <2>1, <2>3 DEF InItsQueue
  <2>5. Somewhere'
    BY <1>2, <1>4, <2>1, <2>4 DEF Somewhere, InItsQueue
  <2> QED BY <2>2, <2>4, <2>5
<1> QED BY <1>3, <1>6, <1>7, MindInvFrom

LEMMA CancelQueueMind ==
    ASSUME MindInv, NEW visible \in BOOLEAN, Mind!CancelQueue(visible)
    PROVE  MindInv'
<1>1. WorldTypes /\ SearchTypes /\ PostTypes
  BY TypesAre DEF MindInv
<1>2. UNCHANGED <<thinkAt, targets, attacked, dead, seen, stateEpoch, decisionEpoch,
            onThink, targetRanking, barrier, searching, activeSearch, searches, search,
            calls, postVisible>>
  BY DEF Mind!CancelQueue, Mind!world, Mind!epochs, Mind!flags, Mind!search
<1>3. WorldTypes' /\ SearchTypes'
  BY <1>1, <1>2 DEF WorldTypes, SearchTypes
<1>4. /\ queues' = [queues EXCEPT ![visible] = 0]
      /\ \/ postPending' = FALSE /\ postQueued' = FALSE /\ postWaiting' = FALSE
         \/ /\ ~(~dead /\ postQueued /\ postVisible = visible)
            /\ UNCHANGED <<postPending, postQueued, postWaiting>>
  BY DEF Mind!CancelQueue
<1>5. queues' \in [BOOLEAN -> Nat]
  BY <1>1, <1>4 DEF PostTypes
<1>6. PostTypes'
  BY <1>1, <1>2, <1>4, <1>5 DEF PostTypes
<1>7. ASSUME ~dead'
      PROVE  OneSearch' /\ InItsQueue' /\ Somewhere'
  <2>1. OneSearch /\ InItsQueue /\ Somewhere /\ ~dead
    BY <1>2, <1>7 DEF MindInv
  <2>2. OneSearch'
    BY <1>2, <2>1 DEF OneSearch, SearchCalls
  <2>3. postQueued' => postQueued /\ queues'[postVisible] = queues[postVisible]
    BY <1>1, <1>4, <2>1 DEF PostTypes
  <2>4. InItsQueue' /\ Somewhere'
    BY <1>2, <1>4, <2>1, <2>3 DEF Somewhere, InItsQueue
  <2> QED BY <2>2, <2>4
<1> QED BY <1>3, <1>6, <1>7, MindInvFrom

-----------------------------------------------------------------------------
(* Nothing is asked for at first.                                           *)
LEMMA InitMind == Mind!Init => MindInv
<1> SUFFICES ASSUME Mind!Init PROVE MindInv
  OBVIOUS
<1>1. 1 \in 1..MaxEpochs /\ 0 \in 0..0 /\ 0 \in 0..MaxSearches /\ 1 \in 1..1
  BY ThinkAssumption
<1>2. WorldTypes /\ PostTypes
  BY <1>1 DEF Mind!Init, WorldTypes, PostTypes
<1>3. SearchTypes
  BY <1>1, NoSearchIs DEF Mind!Init, SearchTypes
<1>4. OneSearch /\ InItsQueue /\ Somewhere
  BY DEF Mind!Init, OneSearch, SearchCalls, InItsQueue, Somewhere
<1> QED BY <1>2, <1>3, <1>4, TypesAre DEF MindInv

LEMMA StepMind == MindInv /\ [Mind!Next]_(Mind!vars) => MindInv'
<1> SUFFICES ASSUME MindInv, [Mind!Next]_(Mind!vars) PROVE MindInv'
  OBVIOUS
<1>1. CASE UNCHANGED Mind!vars
  <2>1. UNCHANGED <<thinkAt, targets, attacked, dead, seen, stateEpoch, decisionEpoch,
            onThink, targetRanking, barrier, searching, activeSearch, searches, search,
            calls, postPending, postQueued, postVisible, postWaiting, queues>>
    BY <1>1 DEF Mind!vars, Mind!world, Mind!epochs, Mind!flags, Mind!search, Mind!post
  <2>2. WorldTypes /\ SearchTypes /\ PostTypes
    BY TypesAre DEF MindInv
  <2>3. WorldTypes' /\ SearchTypes' /\ PostTypes'
    BY <2>1, <2>2 DEF WorldTypes, SearchTypes, PostTypes
  <2>4. ~dead' => OneSearch' /\ InItsQueue' /\ Somewhere'
    BY <2>1 DEF MindInv, OneSearch, SearchCalls, InItsQueue, Somewhere
  <2> QED BY <2>3, <2>4, MindInvFrom
<1>2. CASE Mind!Delivers
  BY <1>2, QueuePostMind, PrepareMind, CompleteMind DEF Mind!Delivers
<1> QED BY <1>1, <1>2, ChangeWorldMind, SeenMind, ThinkMind, ExecuteRankingMind,
        ThinkAsyncMind, ExecutePostThinkMind, CancelQueueMind DEF Mind!Next

-----------------------------------------------------------------------------
(* A step of the whole is a step of each part or leaves it as it is.        *)
LEMMA StepsOfMonsters ==
    [MCNext]_<<part, vars, mindVars, saveVars>>
      => [Next]_vars /\ [Mind!Next]_(Mind!vars)
<1> SUFFICES ASSUME [MCNext]_<<part, vars, mindVars, saveVars>>
             PROVE  [Next]_vars /\ [Mind!Next]_(Mind!vars)
  OBVIOUS
<1>1. UNCHANGED mindVars => UNCHANGED Mind!vars
  BY DEF mindVars, Mind!vars, Mind!world, Mind!epochs, Mind!flags, Mind!search,
     Mind!post, Mind!counts
<1>2. CASE FollowNext
  <2>1. Next
    BY <1>2 DEF FollowNext, Next, Delivers
  <2>2. UNCHANGED mindVars
    BY <1>2 DEF FollowNext, Follows
  <2> QED BY <1>1, <2>1, <2>2
<1>3. CASE ThinkNext
  <2>1. Mind!Next
    BY <1>3 DEF ThinkNext, Mind!Next, Mind!Delivers
  <2>2. UNCHANGED vars
    BY <1>3 DEF ThinkNext, Thinks
  <2> QED BY <2>1, <2>2
<1>4. CASE SavesNext
  BY <1>1, <1>4 DEF SavesNext, Saves
<1>5. CASE UNCHANGED <<part, vars, mindVars, saveVars>>
  BY <1>1, <1>5
<1> QED BY <1>2, <1>3, <1>4, <1>5 DEF MCNext

(* With one call for the search, it is the one that SearchAnswered counts.  *)
LEMMA MindInvAnswers == MindInv => Mind!SearchAnswered /\ Mind!PostThinkKept
<1> SUFFICES ASSUME MindInv PROVE Mind!SearchAnswered /\ Mind!PostThinkKept
  OBVIOUS
<1>1. ASSUME ~dead, searching
      PROVE  /\ search # Mind!NoSearch
             /\ Mind!Cardinality({m \in calls : m.kind # "post" /\ m.gen = activeSearch}) = 1
  <2>1. search # Mind!NoSearch /\ \E m : SearchCalls = {m} /\ m.gen = activeSearch
    BY <1>1 DEF MindInv, OneSearch
  <2>2. PICK m : SearchCalls = {m} /\ m.gen = activeSearch
    BY <2>1
  <2>3. {c \in calls : c.kind # "post" /\ c.gen = activeSearch} = {m}
    BY <2>2 DEF SearchCalls
  <2>4. Mind!Cardinality({m}) = Cardinality({m})
    BY DEF Mind!Cardinality, Cardinality
  <2> QED BY <2>1, <2>3, <2>4, FS_Singleton
<1> QED BY <1>1 DEF Mind!SearchAnswered, Mind!PostThinkKept, MindInv, Somewhere

(* However the world changes under them, the monsters' requests have        *)
(* somebody who answers: a path or target search exactly one call, a        *)
(* post-think a phase, a call, a queue or a search to come.                 *)
THEOREM RequestsHaveAnswers == MCSpec => []RequestsAnswered
<1> DEFINE I == PInv /\ TypeOK /\ Bounded /\ MindInv
<1>1. MCInit => I
  BY InitPInv, InitTypes, InitMind DEF MCInit
<1>2. I /\ [MCNext]_<<part, vars, mindVars, saveVars>> => I'
  BY StepsOfMonsters, StepPInv, StepTypes, StepMind
<1>3. I => RequestsAnswered
  BY PInvAnswers, MindInvAnswers DEF RequestsAnswered, MindInv
<1> QED BY <1>1, <1>2, <1>3, PTL DEF MCSpec

-----------------------------------------------------------------------------
(* Every Player object that is online is its character's; ...               *)
CharTypes ==
    /\ plan \in Plans /\ gains \in 0..MaxProgress
    /\ table \in [Players -> SUBSET (1..MaxProgress)]
    /\ progress \in [Players -> SUBSET (1..MaxProgress)]
    /\ owner \in Seq(Players) /\ data \in Seq(SUBSET (1..MaxProgress))
    /\ Len(owner) <= MaxSessions /\ Len(data) = Len(owner)
    /\ released \subseteq 1..Len(owner)
    /\ online \in [Players -> 0..MaxSessions]
    /\ \A p \in Players : online[p] # 0 => online[p] <= Len(owner) /\ owner[online[p]] = p

(* ... a task of one object has one.                                        *)
SaveTasks == {e \in Saver!Tasks : e.kind # "all" => e.object \in 1..Len(owner)}
TaskTypes ==
    /\ clock \in Nat /\ queue \in Seq(SaveTasks)
    /\ m_playerMap \in [Players -> 0..clock] /\ m_scheduledAt \in 0..clock

Working == {"lock", "read", "write"}
PcTypes ==
    /\ pc \in [Saver!Threads -> {"idle", "begin", "submit", "await", "each"} \cup Working]
    /\ doing \in [Saver!Threads -> 0..Len(owner)]
    /\ \A t \in Saver!Threads : pc[t] \in Working <=> doing[t] # 0
HeldTypes ==
    /\ playerLock \in [1..MaxSessions -> Saver!Threads \cup {Nobody}]
    /\ rest \in [Saver!Threads -> SUBSET (1..Len(owner))]
    /\ taskOf \in [Saver!Threads -> Saver!Threads \cup {Nobody}]
    /\ copy \in [Saver!Threads -> SUBSET (1..MaxProgress)]

SaveTypes == CharTypes /\ TaskTypes /\ PcTypes /\ HeldTypes

(* Saves on the dispatcher thread: but for the time the game makes tasks of *)
(* saveAll and waits for them there are none, and what they save is online; *)
(* ...                                                                      *)
Joining == {"submit", "await"}
JoinedTasks ==
    {e \in Saver!Tasks : e.kind = "one" /\ e.by = Game /\ e.object \in Saver!OnlineObjects}
Joined ==
    /\ queue \in Seq(JoinedTasks)
    /\ \A w \in Workers :
         /\ rest[w] = {} /\ pc[w] \in {"idle", "each"} \cup Working
         /\ taskOf[w] = IF pc[w] = "idle" THEN Nobody ELSE Game
         /\ doing[w] # 0 => doing[w] \in Saver!OnlineObjects
    /\ rest[Game] \subseteq Saver!OnlineObjects
    /\ pc[Game] \in {"idle", "begin", "await"} => rest[Game] = {}
    /\ pc[Game] \notin Joining => queue = <<>> /\ \A w \in Workers : pc[w] = "idle"

(* ... but for a character that leaves, which the game saves next.          *)
Leaving(o) ==
    /\ o # 0 /\ o \notin Saver!OnlineObjects /\ data[o] = progress[owner[o]]
    /\ pc[Game] = "write" => copy[Game] = data[o]
Saved ==
    /\ doing[Game] # 0 /\ doing[Game] \notin Saver!OnlineObjects => Leaving(doing[Game])
    /\ \A p \in Players :
         online[p] = 0 => \/ table[p] = progress[p]
                          \/ Leaving(doing[Game]) /\ owner[doing[Game]] = p

SaveInv == SaveTypes /\ (~plan.async => Joined /\ Saved)

-----------------------------------------------------------------------------
(* What is invariant says what is wanted.                                   *)
LEMMA SaveInvLoads == SaveInv => LoginLoadsAll
<1> SUFFICES ASSUME SaveInv PROVE LoginLoadsAll
  OBVIOUS
<1>1. CharTypes /\ TaskTypes /\ PcTypes /\ HeldTypes
  BY DEF SaveInv, SaveTypes
<1>2. queue \in Seq(Saver!Tasks)
  <2>1. SaveTasks \subseteq Saver!Tasks
    BY DEF SaveTasks
  <2> QED BY <1>1, <2>1, SeqMonotonic DEF TaskTypes
<1>3. Saver!TypeOK
  <2>0. 0..Len(owner) \subseteq 0..MaxSessions /\ 1..Len(owner) \subseteq 1..MaxSessions
    BY <1>1, SaveAssumption DEF CharTypes
  <2>1. /\ table \in [Players -> SUBSET Saver!Changes]
        /\ owner \in Seq(Players) /\ data \in Seq(SUBSET Saver!Changes)
        /\ online \in [Players -> 0..MaxSessions] /\ released \subseteq Saver!Made
    BY <1>1 DEF CharTypes, Saver!Changes, Saver!Made
  <2>2. m_playerMap \in [Players -> 0..clock] /\ m_scheduledAt \in 0..clock
    BY <1>1 DEF TaskTypes
  <2>3. /\ pc \in [Saver!Threads ->
                {"idle", "begin", "submit", "await", "each", "lock", "read", "write"}]
        /\ doing \in [Saver!Threads -> 0..MaxSessions]
        /\ \A t \in Saver!Threads : pc[t] \in {"lock", "read", "write"} <=> doing[t] # 0
    BY <1>1, <2>0 DEF PcTypes, Working
  <2>4. /\ playerLock \in [Saver!Objects -> Saver!Threads \cup {Nobody}]
        /\ rest \in [Saver!Threads -> SUBSET Saver!Objects]
        /\ taskOf \in [Saver!Threads -> Saver!Threads \cup {Nobody}]
        /\ copy \in [Saver!Threads -> SUBSET Saver!Changes]
    BY <1>1, <2>0 DEF HeldTypes, Saver!Objects, Saver!Changes
  <2> QED BY <1>2, <2>1, <2>2, <2>3, <2>4 DEF Saver!TypeOK
<1>4. Saver!LoginLoadsAll
  <2> SUFFICES ASSUME pc[Game] = "idle", ~plan.async, NEW p \in Players, online[p] = 0
               PROVE  table[p] = progress[p]
    BY DEF Saver!LoginLoadsAll, Saver!Playing
  <2>1. doing[Game] = 0
    BY <1>1 DEF PcTypes, Working, Saver!Threads
  <2> QED BY <2>1 DEF SaveInv, Saved, Leaving
<1> QED BY <1>3, <1>4 DEF LoginLoadsAll

LEMMA InitSave == Saver!Init => SaveInv
<1> SUFFICES ASSUME Saver!Init PROVE SaveInv
  OBVIOUS
<1>1. 0 \in 0..MaxProgress /\ 0 \in 0..MaxSessions /\ 0 \in 0..0 /\ 0 <= MaxSessions
  BY SaveAssumption
<1>2. <<>> \in Seq(Players) /\ <<>> \in Seq(SUBSET (1..MaxProgress)) /\ <<>> \in Seq(SaveTasks)
      /\ <<>> \in Seq(JoinedTasks) /\ Len(<<>>) = 0
  BY EmptySeq
<1>3. CharTypes
  BY <1>1, <1>2 DEF Saver!Init, CharTypes
<1>4. TaskTypes
  BY <1>1, <1>2 DEF Saver!Init, TaskTypes
<1>5. PcTypes
  BY <1>1 DEF Saver!Init, PcTypes, Working
<1>6. HeldTypes
  BY DEF Saver!Init, HeldTypes, Saver!Objects
<1>7. Joined
  BY <1>2 DEF Saver!Init, Joined, Joining, Saver!Threads
<1>8. Saved
  BY DEF Saver!Init, Saved, Saver!Threads
<1> QED BY <1>3, <1>4, <1>5, <1>6, <1>7, <1>8 DEF SaveInv, SaveTypes

-----------------------------------------------------------------------------
(* The objects online are made, and finitely many.                          *)
LEMMA OnlineAre ==
    ASSUME CharTypes
    PROVE  /\ Saver!OnlineObjects \subseteq 1..Len(owner)
           /\ Saver!OnlineObjects \subseteq 1..MaxSessions
           /\ Len(owner) \in Nat
           /\ \A o \in Saver!OnlineObjects :
                o \in 1..Len(owner) /\ owner[o] \in Players /\ online[owner[o]] = o
           /\ \A p \in Players : online[p] # 0 => online[p] \in Saver!OnlineObjects
  BY SaveAssumption DEF CharTypes, Saver!OnlineObjects

-----------------------------------------------------------------------------
(* The types, by what a step touches.                                       *)
LEMMA CharsKept ==
    ASSUME CharTypes,
           UNCHANGED <<plan, gains, table, progress, owner, data, released, online>>
    PROVE  CharTypes' /\ Saver!OnlineObjects' = Saver!OnlineObjects
  BY DEF CharTypes, Saver!OnlineObjects

LEMMA TasksKept ==
    ASSUME TaskTypes, UNCHANGED <<owner, clock, queue, m_scheduledAt>>,
           \/ UNCHANGED m_playerMap
           \/ \E p : m_playerMap' = [m_playerMap EXCEPT ![p] = 0]
    PROVE  TaskTypes'
<1>1. SaveTasks' = SaveTasks
  BY DEF SaveTasks, Saver!Tasks
<1>2. m_playerMap' \in [Players -> 0..clock']
  BY DEF TaskTypes
<1> QED BY <1>1, <1>2 DEF TaskTypes

LEMMA QueueAppends ==
    ASSUME TaskTypes, clock' = clock + 1, UNCHANGED owner, NEW e, queue' = Append(queue, e),
           e.kind # "all" => e.object \in 1..Len(owner), e \in Saver!Tasks'
    PROVE  /\ clock' \in Nat /\ queue' \in Seq(SaveTasks')
           /\ \A p : (\/ m_playerMap' = m_playerMap
                      \/ m_playerMap' = [m_playerMap EXCEPT ![p] = clock + 1])
                     => m_playerMap' \in [Players -> 0..clock']
           /\ m_scheduledAt' \in {m_scheduledAt, clock + 1} => m_scheduledAt' \in 0..clock'
<1>1. SaveTasks \subseteq SaveTasks' /\ e \in SaveTasks'
  BY DEF SaveTasks, Saver!Tasks, TaskTypes
<1>2. queue \in Seq(SaveTasks')
  BY <1>1, SeqMonotonic DEF TaskTypes
<1>3. queue' \in Seq(SaveTasks')
  BY <1>1, <1>2, AppendProperties
<1>4. 0..clock \subseteq 0..clock' /\ clock + 1 \in 0..clock' /\ clock' \in Nat
  BY DEF TaskTypes
<1>5. m_playerMap \in [Players -> 0..clock']
  BY <1>4 DEF TaskTypes
<1> QED BY <1>3, <1>4, <1>5 DEF TaskTypes

LEMMA PcsKept ==
    ASSUME PcTypes, NEW t \in Saver!Threads, Len(owner) \in Nat, UNCHANGED owner,
           \/ \E o \in 1..Len(owner) : Saver!GoSave(t, o)
           \/ \E label \in {"idle", "begin", "submit", "await", "each"} :
                /\ pc[t] \notin Working \/ doing' = [doing EXCEPT ![t] = 0]
                /\ pc[t] \in Working \/ UNCHANGED doing
                /\ pc' = [pc EXCEPT ![t] = label]
           \/ /\ pc[t] \in Working /\ UNCHANGED doing
              /\ \E label \in Working : pc' = [pc EXCEPT ![t] = label]
    PROVE  PcTypes'
<1>1. CASE \E o \in 1..Len(owner) : Saver!GoSave(t, o)
  BY <1>1 DEF PcTypes, Working, Saver!GoSave, Saver!Goto
<1>2. CASE \E label \in {"idle", "begin", "submit", "await", "each"} :
                /\ pc[t] \notin Working \/ doing' = [doing EXCEPT ![t] = 0]
                /\ pc[t] \in Working \/ UNCHANGED doing
                /\ pc' = [pc EXCEPT ![t] = label]
  BY <1>2, SaveAssumption DEF PcTypes, Working
<1>3. CASE /\ pc[t] \in Working /\ UNCHANGED doing
           /\ \E label \in Working : pc' = [pc EXCEPT ![t] = label]
  BY <1>3 DEF PcTypes, Working
<1> QED BY <1>1, <1>2, <1>3

(* savePlayer, of an object of the game.                                    *)
LEMMA SavePlayerTypes ==
    ASSUME SaveTypes, NEW p \in Players, NEW o \in 1..Len(owner), UNCHANGED owner,
           Saver!SavePlayer(p, o)
    PROVE  TaskTypes' /\ PcTypes'
<1>1. TaskTypes /\ PcTypes /\ Game \in Saver!Threads /\ Len(owner) \in Nat
  BY OnlineAre DEF SaveTypes, Saver!Threads
<1>2. CASE Saver!GoSave(Game, o)
           /\ UNCHANGED <<queue, m_playerMap, m_scheduledAt, clock>>
  BY <1>1, <1>2, TasksKept, PcsKept
<1>3. CASE /\ clock' = clock + 1
           /\ m_playerMap' = [m_playerMap EXCEPT ![p] = clock + 1]
           /\ queue' = Append(queue, [kind |-> "player", object |-> o,
                                      at |-> clock + 1, by |-> Nobody])
           /\ UNCHANGED <<m_scheduledAt, pc, doing>>
  <2> DEFINE e == [kind |-> "player", object |-> o, at |-> clock + 1, by |-> Nobody]
  <2>0. o \in 0..MaxSessions
    BY SaveAssumption DEF SaveTypes, CharTypes
  <2>1. e \in Saver!Tasks' /\ e.object \in 1..Len(owner)
    BY <1>1, <1>3, <2>0, SaveAssumption DEF TaskTypes, Saver!Tasks
  <2> HIDE DEF e
  <2>2. queue' = Append(queue, e)
    BY <1>3 DEF e
  <2>3. TaskTypes'
    BY <1>1, <1>3, <2>1, <2>2, QueueAppends DEF TaskTypes
  <2>4. PcTypes'
    BY <1>1, <1>3 DEF PcTypes
  <2> QED BY <2>3, <2>4
<1> QED BY <1>2, <1>3 DEF Saver!SavePlayer, Saver!manager

LEMMA HeldKept ==
    ASSUME HeldTypes, UNCHANGED <<owner, playerLock, rest, taskOf, copy>>
    PROVE  HeldTypes'
  BY DEF HeldTypes

-----------------------------------------------------------------------------
(* Without asynchronous saves, the game runs alone.                         *)
LEMMA Quiet ==
    ASSUME SaveInv, ~plan.async, pc[Game] \notin Joining
    PROVE  /\ queue = <<>> /\ Joined /\ Saved
           /\ \A w \in Workers : /\ pc[w] = "idle" /\ rest[w] = {} /\ doing[w] = 0
                                 /\ taskOf[w] = Nobody
           /\ pc[Game] \in {"idle", "begin"} => doing[Game] = 0 /\ rest[Game] = {}
  BY DEF SaveInv, SaveTypes, PcTypes, Joined, Saver!Threads, Working

LEMMA StaysQuiet ==
    ASSUME queue' = <<>>, pc'[Game] \notin Joining,
           \A w \in Workers : /\ pc'[w] = "idle" /\ rest'[w] = {} /\ doing'[w] = 0
                              /\ taskOf'[w] = Nobody,
           rest'[Game] \subseteq Saver!OnlineObjects',
           pc'[Game] \in {"idle", "begin"} => rest'[Game] = {}
    PROVE  Joined'
  BY EmptySeq DEF Joined, Joining

LEMMA SaveInvFrom ==
    ASSUME CharTypes', TaskTypes', PcTypes', HeldTypes',
           ~plan.async => Joined' /\ Saved', UNCHANGED plan
    PROVE  SaveInv'
  BY DEF SaveInv, SaveTypes

(* When the game plays, every character that is offline is in the table.    *)
LEMMA AllSaved ==
    ASSUME SaveInv, ~plan.async, pc[Game] = "idle"
    PROVE  \A p \in Players : online[p] = 0 => table[p] = progress[p]
  BY Quiet DEF Saved, Leaving, Joining

LEMMA LoginSave ==
    ASSUME SaveInv, NEW p \in Players, Saver!Login(p)
    PROVE  SaveInv'
<1>1. CharTypes /\ TaskTypes /\ PcTypes /\ HeldTypes
  BY DEF SaveInv, SaveTypes
<1>2. /\ pc[Game] = "idle" /\ Len(owner) < MaxSessions
      /\ owner' = Append(owner, p) /\ data' = Append(data, table[p])
      /\ online' = [online EXCEPT ![p] = Len(owner) + 1]
      /\ UNCHANGED <<plan, gains, table, progress, released, clock, queue, m_playerMap,
            m_scheduledAt, playerLock, pc, doing, copy, rest, taskOf>>
  BY DEF Saver!Login, Saver!Playing, Saver!manager, Saver!threads, Saver!counts, Saver!history
<1>3. TaskTypes' /\ PcTypes' /\ HeldTypes'
  <2>1. Len(owner) \in Nat /\ Len(owner') = Len(owner) + 1
    BY <1>1, <1>2, AppendProperties DEF CharTypes
  <2>2. 1..Len(owner) \subseteq 1..Len(owner') /\ 0..Len(owner) \subseteq 0..Len(owner')
    BY <2>1
  <2>3. SaveTasks \subseteq SaveTasks'
    BY <1>2, <2>2 DEF SaveTasks, Saver!Tasks
  <2>4. TaskTypes'
    BY <1>1, <1>2, <2>3, SeqMonotonic DEF TaskTypes
  <2> QED BY <1>1, <1>2, <2>2, <2>4 DEF PcTypes, HeldTypes
<1>4. CharTypes'
  <2>1. Len(owner) \in Nat /\ table[p] \in SUBSET (1..MaxProgress)
    BY <1>1 DEF CharTypes
  <2>2. /\ owner' \in Seq(Players) /\ Len(owner') = Len(owner) + 1
        /\ \A i \in 1..Len(owner) : owner'[i] = owner[i]
        /\ owner'[Len(owner) + 1] = p
    BY <1>1, <1>2, AppendProperties DEF CharTypes
  <2>3. data' \in Seq(SUBSET (1..MaxProgress)) /\ Len(data') = Len(data) + 1
    BY <1>1, <1>2, <2>1, AppendProperties DEF CharTypes
  <2>4. online' \in [Players -> 0..MaxSessions]
    BY <1>1, <1>2, <2>1, SaveAssumption DEF CharTypes
  <2>5. \A q \in Players : online'[q] # 0 => online'[q] <= Len(owner') /\ owner'[online'[q]] = q
    BY <1>1, <1>2, <2>1, <2>2 DEF CharTypes
  <2>6. released' \subseteq 1..Len(owner') /\ Len(owner') <= MaxSessions
    BY <1>1, <1>2, <2>1, <2>2, SaveAssumption DEF CharTypes
  <2> QED BY <1>1, <1>2, <2>2, <2>3, <2>4, <2>5, <2>6 DEF CharTypes
<1>5. ASSUME ~plan.async
      PROVE  Joined' /\ Saved'
  <2>1. Joined'
    BY <1>2, <1>5, Quiet, StaysQuiet DEF Joining
  <2>2. \A q \in Players : online'[q] = 0 => table'[q] = progress'[q]
    BY <1>1, <1>2, <1>5, AllSaved DEF CharTypes
  <2>3. doing'[Game] = 0
    BY <1>2, <1>5, Quiet DEF Joining
  <2> QED BY <2>1, <2>2, <2>3 DEF Saved
<1> QED BY <1>2, <1>3, <1>4, <1>5, SaveInvFrom

LEMMA ChangeSave ==
    ASSUME SaveInv, NEW p \in Players, Saver!Change(p)
    PROVE  SaveInv'
<1>1. CharTypes /\ TaskTypes /\ PcTypes /\ HeldTypes
  BY DEF SaveInv, SaveTypes
<1>2. /\ pc[Game] = "idle" /\ online[p] # 0 /\ gains < MaxProgress /\ gains' = gains + 1
      /\ data' = [data EXCEPT ![online[p]] = @ \cup {gains + 1}]
      /\ UNCHANGED <<plan, table, progress, owner, online, released, clock, queue,
            m_playerMap, m_scheduledAt, playerLock, pc, doing, copy, rest, taskOf>>
  BY DEF Saver!Change, Saver!Playing, Saver!manager, Saver!threads, Saver!history
<1>3. TaskTypes' /\ PcTypes' /\ HeldTypes'
  <2>1. TaskTypes'
    BY <1>1, <1>2, TasksKept
  <2> QED BY <1>1, <1>2, <2>1, HeldKept DEF PcTypes
<1>4. CharTypes'
  <2>1. gains' \in 0..MaxProgress /\ gains + 1 \in 1..MaxProgress
    BY <1>1, <1>2, SaveAssumption DEF CharTypes
  <2>2. online[p] \in 1..Len(data)
    BY <1>1, <1>2 DEF CharTypes
  <2>3. data[online[p]] \cup {gains + 1} \in SUBSET (1..MaxProgress)
    BY <1>1, <2>1, <2>2, ElementOfSeq DEF CharTypes
  <2>4. data' \in Seq(SUBSET (1..MaxProgress)) /\ Len(data') = Len(data)
    BY <1>1, <1>2, <2>2, <2>3, ExceptSeq DEF CharTypes
  <2> QED BY <1>1, <1>2, <2>1, <2>4 DEF CharTypes
<1>5. ASSUME ~plan.async
      PROVE  Joined' /\ Saved'
  <2>1. Joined'
    BY <1>2, <1>5, Quiet, StaysQuiet DEF Joining
  <2>2. \A q \in Players : online'[q] = 0 => table'[q] = progress'[q]
    BY <1>2, <1>5, AllSaved
  <2>3. doing'[Game] = 0
    BY <1>2, <1>5, Quiet DEF Joining
  <2> QED BY <2>1, <2>2, <2>3 DEF Saved
<1> QED BY <1>2, <1>3, <1>4, <1>5, SaveInvFrom

(* savePlayer on the dispatcher thread starts at once.                      *)
LEMMA SavePlayerSync ==
    ASSUME SaveInv, ~plan.async, pc[Game] = "idle", NEW p \in Players, NEW o,
           Saver!SavePlayer(p, o), UNCHANGED <<rest, taskOf>>
    PROVE  Joined' /\ doing'[Game] = o /\ pc'[Game] = "lock"
<1>1. PcTypes /\ Game \in Saver!Threads
  BY DEF SaveInv, SaveTypes, Saver!Threads
<1>2. /\ pc' = [pc EXCEPT ![Game] = "lock"] /\ doing' = [doing EXCEPT ![Game] = o]
      /\ UNCHANGED <<queue, m_playerMap, m_scheduledAt, clock>>
  BY DEF Saver!SavePlayer, Saver!GoSave, Saver!Goto, Saver!manager
<1>3. doing'[Game] = o /\ pc'[Game] = "lock"
  BY <1>1, <1>2 DEF PcTypes
<1>4. \A w \in Workers : pc'[w] = pc[w] /\ doing'[w] = doing[w]
  BY <1>1, <1>2, SaveAssumption DEF PcTypes, Saver!Threads
<1> QED BY <1>2, <1>3, <1>4, Quiet, StaysQuiet DEF Joining

LEMMA RequestSave ==
    ASSUME SaveInv, NEW p \in Players, Saver!Request(p)
    PROVE  SaveInv'
<1>1. CharTypes /\ TaskTypes /\ PcTypes /\ HeldTypes /\ SaveTypes
  BY DEF SaveInv, SaveTypes
<1>2. /\ pc[Game] = "idle" /\ online[p] # 0 /\ Saver!SavePlayer(p, online[p])
      /\ UNCHANGED <<plan, gains, table, progress, owner, data, released, online,
            playerLock, copy, rest, taskOf>>
  BY DEF Saver!Request, Saver!Playing, Saver!memory
<1>3. online[p] \in 1..Len(owner)
  BY <1>1, <1>2 DEF CharTypes
<1>4. CharTypes' /\ TaskTypes' /\ PcTypes' /\ HeldTypes'
  BY <1>1, <1>2, <1>3, CharsKept, SavePlayerTypes, HeldKept
<1>5. ASSUME ~plan.async
      PROVE  Joined' /\ Saved'
  <2>1. Joined' /\ doing'[Game] = online[p]
    BY <1>2, <1>5, SavePlayerSync
  <2>2. \A q \in Players : online'[q] = 0 => table'[q] = progress'[q]
    BY <1>2, <1>5, AllSaved
  <2>3. online[p] \in Saver!OnlineObjects /\ Saver!OnlineObjects' = Saver!OnlineObjects
    BY <1>1, <1>2, OnlineAre, CharsKept
  <2> QED BY <2>1, <2>2, <2>3 DEF Saved
<1> QED BY <1>2, <1>4, <1>5, SaveInvFrom

(* Who leaves takes what it has, and is saved before anything else happens. *)
LEMMA LogoutSave ==
    ASSUME SaveInv, NEW p \in Players, Saver!Logout(p)
    PROVE  SaveInv'
<1> DEFINE o == online[p]
<1>1. CharTypes /\ TaskTypes /\ PcTypes /\ HeldTypes /\ SaveTypes
  BY DEF SaveInv, SaveTypes
<1>2. /\ pc[Game] = "idle" /\ o # 0 /\ Saver!SavePlayer(p, o)
      /\ online' = [online EXCEPT ![p] = 0]
      /\ progress' = [progress EXCEPT ![p] = data[o]]
      /\ UNCHANGED <<plan, gains, table, owner, data, released,
            playerLock, copy, rest, taskOf>>
  BY DEF Saver!Logout, Saver!Playing
<1>3. o \in 1..Len(owner) /\ o \in 1..Len(data) /\ owner[o] = p
  BY <1>1, <1>2 DEF CharTypes
<1>4. CharTypes'
  <2>1. data[o] \in SUBSET (1..MaxProgress)
    BY <1>1, <1>3, ElementOfSeq DEF CharTypes
  <2>2. progress' \in [Players -> SUBSET (1..MaxProgress)]
    BY <1>1, <1>2, <2>1 DEF CharTypes
  <2>3. online' \in [Players -> 0..MaxSessions]
    BY <1>1, <1>2, SaveAssumption DEF CharTypes
  <2>4. \A q \in Players : online'[q] # 0 => online'[q] <= Len(owner') /\ owner'[online'[q]] = q
    BY <1>1, <1>2 DEF CharTypes
  <2> QED BY <1>1, <1>2, <2>2, <2>3, <2>4 DEF CharTypes
<1>5. TaskTypes' /\ PcTypes' /\ HeldTypes'
  BY <1>1, <1>2, <1>3, SavePlayerTypes, HeldKept
<1>6. ASSUME ~plan.async
      PROVE  Joined' /\ Saved'
  <2>1. Joined' /\ doing'[Game] = o /\ pc'[Game] = "lock"
    BY <1>2, <1>6, SavePlayerSync
  <2>2. o \notin Saver!OnlineObjects'
    BY <1>1, <1>2, <1>3 DEF CharTypes, Saver!OnlineObjects
  <2>3. progress'[p] = data'[o] /\ owner'[o] = p
    BY <1>1, <1>2, <1>3 DEF CharTypes
  <2>4. Leaving(doing[Game])'
    BY <1>2, <2>1, <2>2, <2>3 DEF Leaving
  <2>5. \A q \in Players \ {p} : online'[q] = 0 => table'[q] = progress'[q]
    BY <1>1, <1>2, <1>6, AllSaved DEF CharTypes
  <2> QED BY <2>1, <2>3, <2>4, <2>5 DEF Saved
<1> QED BY <1>2, <1>4, <1>5, <1>6, SaveInvFrom

-----------------------------------------------------------------------------
(* saveAll begins: here at once, or as a task.                              *)
LEMMA ScheduleAllSave ==
    ASSUME SaveInv, Saver!ScheduleAll
    PROVE  SaveInv'
<1>1. CharTypes /\ TaskTypes /\ PcTypes /\ HeldTypes /\ Game \in Saver!Threads
      /\ Len(owner) \in Nat
  BY OnlineAre DEF SaveInv, SaveTypes, Saver!Threads
<1>2. /\ pc[Game] = "idle" /\ clock' = clock + 1 /\ m_scheduledAt' = clock + 1
      /\ UNCHANGED <<plan, gains, table, progress, owner, data, released, online,
            m_playerMap, playerLock, doing, copy, rest, taskOf>>
  BY DEF Saver!ScheduleAll, Saver!Playing, Saver!memory, Saver!history
<1>3. CharTypes' /\ HeldTypes' /\ Saver!OnlineObjects' = Saver!OnlineObjects
  BY <1>1, <1>2, CharsKept, HeldKept
<1>4. pc[Game] \notin Working /\ pc[Game] \notin Joining
  BY <1>2 DEF Working, Joining
<1>5. clock + 1 \in 0..clock' /\ clock' \in Nat /\ 0..clock \subseteq 0..clock'
  BY <1>1, <1>2 DEF TaskTypes
<1>6. m_playerMap' \in [Players -> 0..clock'] /\ m_scheduledAt' \in 0..clock'
  BY <1>1, <1>2, <1>5 DEF TaskTypes
<1>7. CASE ~plan.async /\ pc' = [pc EXCEPT ![Game] = "begin"] /\ UNCHANGED queue
  <2>1. queue' = <<>> /\ TaskTypes'
    <3>1. queue = <<>>
      BY <1>4, <1>7, Quiet
    <3>2. <<>> \in Seq(SaveTasks')
      BY EmptySeq
    <3> QED BY <1>5, <1>6, <1>7, <3>1, <3>2 DEF TaskTypes
  <2>2. PcTypes'
    BY <1>1, <1>2, <1>4, <1>7, PcsKept
  <2>3. pc'[Game] = "begin" /\ \A w \in Workers : pc'[w] = pc[w]
    BY <1>1, <1>7, SaveAssumption DEF PcTypes, Saver!Threads
  <2>4. Joined'
    BY <1>2, <1>3, <1>4, <1>7, <2>1, <2>3, Quiet, StaysQuiet DEF Joining
  <2>5. Saved'
    BY <1>2, <1>4, <1>7, Quiet, AllSaved DEF Saved
  <2> QED BY <1>2, <1>3, <2>1, <2>2, <2>4, <2>5, SaveInvFrom
<1>8. CASE /\ plan.async
           /\ queue' = Append(queue, [kind |-> "all", object |-> 0,
                                      at |-> clock + 1, by |-> Nobody])
           /\ UNCHANGED pc
  <2> DEFINE e == [kind |-> "all", object |-> 0, at |-> clock + 1, by |-> Nobody]
  <2>1. e \in Saver!Tasks' /\ e.kind = "all"
    BY <1>5, SaveAssumption DEF Saver!Tasks
  <2> HIDE DEF e
  <2>2. queue' = Append(queue, e)
    BY <1>8 DEF e
  <2>3. TaskTypes'
    BY <1>1, <1>2, <1>5, <1>6, <2>1, <2>2, QueueAppends DEF TaskTypes
  <2>4. PcTypes'
    BY <1>1, <1>2, <1>8 DEF PcTypes
  <2> QED BY <1>2, <1>3, <1>8, <2>3, <2>4, SaveInvFrom
<1> QED BY <1>7, <1>8 DEF Saver!ScheduleAll, Saver!Goto

-----------------------------------------------------------------------------
(* A step of a save, or of what saves one after the other: the queue stays. *)
LEMMA EraseTypes ==
    ASSUME TaskTypes, NEW t \in Saver!Threads, Saver!Erase(t),
           UNCHANGED <<owner, clock, queue, m_scheduledAt>>
    PROVE  TaskTypes'
  BY TasksKept DEF Saver!Erase

(* A thread that waits for others has none left when its futures are ready. *)
LEMMA WorkersDone ==
    ASSUME Joined, queue = <<>>, \A w \in Workers : taskOf[w] # Game
    PROVE  \A w \in Workers : pc[w] = "idle"
  BY DEF Joined

(* Thread t saves, without asynchronous saves: it is the game, and no       *)
(* worker has a task, or a worker, and the game makes tasks or waits.       *)
LEMMA WorkerOrGame ==
    ASSUME SaveInv, ~plan.async, NEW t \in Saver!Threads, pc[t] # "idle"
    PROVE  \/ t = Game
           \/ /\ t \in Workers /\ t # Game /\ pc[Game] \in Joining
              /\ pc[t] \in {"each"} \cup Working
  BY SaveAssumption DEF SaveInv, Joined, Saver!Threads

(* In the middle of a save nothing that Joined is about changes.            *)
LEMMA JoinedKept ==
    ASSUME Joined, PcTypes, NEW t \in Saver!Threads, pc[t] \in Working,
           NEW label \in {"each", "lock", "read", "write"},
           pc' = [pc EXCEPT ![t] = label],
           doing' = doing \/ doing' = [doing EXCEPT ![t] = 0],
           UNCHANGED <<clock, queue, rest, taskOf>>,
           Saver!OnlineObjects' = Saver!OnlineObjects
    PROVE  Joined'
<1>1. JoinedTasks' = JoinedTasks
  BY DEF JoinedTasks, Saver!Tasks
<1>2. \A w \in Workers : w \in Saver!Threads
  BY DEF Saver!Threads
<1>3. \A w \in Workers : /\ pc'[w] \in {"idle", "each"} \cup Working
                         /\ (pc'[w] = "idle" <=> pc[w] = "idle")
                         /\ doing'[w] \in {0, doing[w]}
  BY <1>2 DEF Joined, PcTypes, Working
<1>4. Game \in Saver!Threads
  BY DEF Saver!Threads
<1>5. /\ pc'[Game] \in {"idle", "begin", "await"} => pc[Game] = pc'[Game]
      /\ pc'[Game] \notin Joining => pc[Game] \notin Joining
  BY <1>4 DEF PcTypes, Working, Joining
<1> QED BY <1>1, <1>3, <1>5 DEF Joined

LEMMA TakePlayerLockSave ==
    ASSUME SaveInv, NEW t \in Saver!Threads, Saver!TakePlayerLock(t)
    PROVE  SaveInv'
<1>1. CharTypes /\ TaskTypes /\ PcTypes /\ HeldTypes
  BY DEF SaveInv, SaveTypes
<1>2. /\ pc[t] = "lock" /\ playerLock' = [playerLock EXCEPT ![doing[t]] = t]
      /\ pc' = [pc EXCEPT ![t] = "read"] /\ Saver!Erase(t)
      /\ UNCHANGED <<plan, gains, table, progress, owner, data, released, online,
            clock, queue, m_scheduledAt, doing, copy, rest, taskOf>>
  BY DEF Saver!TakePlayerLock, Saver!Goto, Saver!memory, Saver!counts, Saver!history
<1>3. CharTypes' /\ Saver!OnlineObjects' = Saver!OnlineObjects
  BY <1>1, <1>2, CharsKept
<1>4. TaskTypes' /\ PcTypes'
  BY <1>1, <1>2, OnlineAre, EraseTypes, PcsKept DEF Working
<1>5. HeldTypes'
  BY <1>1, <1>2 DEF HeldTypes
<1>6. ASSUME ~plan.async
      PROVE  Joined' /\ Saved'
  <2>1. Joined'
    BY <1>1, <1>2, <1>3, <1>6, JoinedKept DEF SaveInv, Working
  <2>2. pc'[Game] = "write" => pc[Game] = "write"
    BY <1>1, <1>2 DEF PcTypes, Saver!Threads
  <2> QED BY <1>2, <1>3, <1>6, <2>1, <2>2 DEF SaveInv, Saved, Leaving
<1> QED BY <1>2, <1>3, <1>4, <1>5, <1>6, SaveInvFrom

LEMMA ReadPlayerSave ==
    ASSUME SaveInv, NEW t \in Saver!Threads, Saver!ReadPlayer(t)
    PROVE  SaveInv'
<1>1. CharTypes /\ TaskTypes /\ PcTypes /\ HeldTypes
  BY DEF SaveInv, SaveTypes
<1>2. /\ pc[t] = "read" /\ copy' = [copy EXCEPT ![t] = data[doing[t]]]
      /\ pc' = [pc EXCEPT ![t] = "write"] /\ Saver!Erase(t)
      /\ UNCHANGED <<plan, gains, table, progress, owner, data, released, online,
            clock, queue, m_scheduledAt, playerLock, doing, rest, taskOf>>
  BY DEF Saver!ReadPlayer, Saver!Goto, Saver!memory, Saver!counts, Saver!history
<1>3. CharTypes' /\ Saver!OnlineObjects' = Saver!OnlineObjects
  BY <1>1, <1>2, CharsKept
<1>4. TaskTypes' /\ PcTypes'
  BY <1>1, <1>2, OnlineAre, EraseTypes, PcsKept DEF Working
<1>5. HeldTypes'
  <2>1. doing[t] \in 1..Len(data)
    BY <1>1, <1>2, OnlineAre DEF PcTypes, Working, CharTypes
  <2>2. data[doing[t]] \in SUBSET (1..MaxProgress)
    BY <1>1, <2>1, ElementOfSeq DEF CharTypes
  <2> QED BY <1>1, <1>2, <2>2 DEF HeldTypes
<1>6. ASSUME ~plan.async
      PROVE  Joined' /\ Saved'
  <2>1. Joined'
    BY <1>1, <1>2, <1>3, <1>6, JoinedKept DEF SaveInv, Working
  <2>2. copy'[Game] = data[doing[Game]] \/ (copy'[Game] = copy[Game] /\ pc'[Game] = pc[Game])
    BY <1>1, <1>2 DEF PcTypes, HeldTypes, Saver!Threads
  <2> QED BY <1>2, <1>3, <1>6, <2>1, <2>2 DEF SaveInv, Saved, Leaving
<1> QED BY <1>2, <1>3, <1>4, <1>5, <1>6, SaveInvFrom

(* The last step of a save: what it has read is in the table.               *)
LEMMA WritePlayerSave ==
    ASSUME SaveInv, NEW t \in Saver!Threads, Saver!WritePlayer(t)
    PROVE  SaveInv'
<1> DEFINE o == doing[t]
<1>1. CharTypes /\ TaskTypes /\ PcTypes /\ HeldTypes /\ Game \in Saver!Threads
  BY DEF SaveInv, SaveTypes, Saver!Threads
<1>2. /\ pc[t] = "write" /\ table' = [table EXCEPT ![owner[o]] = copy[t]]
      /\ copy' = [copy EXCEPT ![t] = {}]
      /\ playerLock' = [playerLock EXCEPT ![o] = Nobody]
      /\ doing' = [doing EXCEPT ![t] = 0]
      /\ pc' = [pc EXCEPT ![t] = "each"] /\ Saver!Erase(t)
      /\ UNCHANGED <<plan, gains, progress, owner, data, released, online,
            clock, queue, m_scheduledAt, rest, taskOf>>
  BY DEF Saver!WritePlayer, Saver!Goto, Saver!Forgets, Saver!memory, Saver!counts, Saver!history
<1>3. CharTypes' /\ Saver!OnlineObjects' = Saver!OnlineObjects
  <2>1. table' \in [Players -> SUBSET (1..MaxProgress)]
    BY <1>1, <1>2 DEF CharTypes, HeldTypes
  <2> QED BY <1>1, <1>2, <2>1 DEF CharTypes, Saver!OnlineObjects
<1>4. TaskTypes' /\ PcTypes'
  BY <1>1, <1>2, OnlineAre, EraseTypes, PcsKept DEF Working
<1>5. HeldTypes'
  BY <1>1, <1>2 DEF HeldTypes
<1>6. ASSUME ~plan.async
      PROVE  Joined' /\ Saved'
  <2>1. Joined /\ Saved
    BY <1>6 DEF SaveInv
  <2>2. Joined'
    BY <1>1, <1>2, <1>3, <2>1, JoinedKept DEF Working
  <2>3. t = Game \/ (t \in Workers /\ doing[Game] = 0 /\ o \in Saver!OnlineObjects)
    BY <1>1, <1>2, <1>6, <2>1, WorkerOrGame DEF Joined, PcTypes, Working, Joining
  <2>4. doing'[Game] = 0
    BY <1>1, <1>2, <2>3 DEF PcTypes
  <2>5. o \in 1..Len(owner) /\ owner[o] \in Players
    BY <1>1, <1>2, OnlineAre, ElementOfSeq DEF PcTypes, Working, CharTypes
  <2>6. ASSUME NEW q \in Players, online[q] = 0
        PROVE  table'[q] = progress[q]
    <3>1. CASE o \in Saver!OnlineObjects
      <4>1. owner[o] # q
        BY <1>1, <2>6, <3>1, OnlineAre
      <4>2. table'[q] = table[q]
        BY <1>1, <1>2, <4>1 DEF CharTypes
      <4>3. ~Leaving(doing[Game])
        BY <2>3, <3>1 DEF Leaving
      <4> QED BY <2>1, <2>6, <4>2, <4>3 DEF Saved
    <3>2. CASE o \notin Saver!OnlineObjects
      <4>1. t = Game /\ Leaving(o) /\ copy[t] = progress[owner[o]]
        BY <1>2, <2>1, <2>3, <2>5, <3>2 DEF Saved, Leaving
      <4>2. CASE q = owner[o]
        BY <1>1, <1>2, <4>1, <4>2 DEF CharTypes
      <4>3. CASE q # owner[o]
        <5>1. table'[q] = table[q]
          BY <1>1, <1>2, <4>3 DEF CharTypes
        <5> QED BY <2>1, <2>6, <4>1, <4>3, <5>1 DEF Saved
      <4> QED BY <4>2, <4>3
    <3> QED BY <3>1, <3>2
  <2> QED BY <1>2, <2>2, <2>4, <2>6 DEF Saved
<1> QED BY <1>2, <1>3, <1>4, <1>5, <1>6, SaveInvFrom

(* Whom a saveAll saves: the players online.                                *)
LEMMA BeginSave ==
    ASSUME SaveInv, NEW t \in Saver!Threads, Saver!Begin(t)
    PROVE  SaveInv'
<1>1. CharTypes /\ TaskTypes /\ PcTypes /\ HeldTypes /\ Len(owner) \in Nat
  BY OnlineAre DEF SaveInv, SaveTypes
<1>2. /\ pc[t] = "begin" /\ rest' = [rest EXCEPT ![t] = Saver!OnlineObjects]
      /\ pc' = [pc EXCEPT ![t] = IF Saver!InParallel THEN "submit" ELSE "each"]
      /\ UNCHANGED <<plan, gains, table, progress, owner, data, released, online,
            clock, queue, m_playerMap, m_scheduledAt, playerLock, doing, copy, taskOf>>
  BY DEF Saver!Begin, Saver!Goto, Saver!memory, Saver!manager, Saver!counts, Saver!history
<1>3. CharTypes' /\ TaskTypes' /\ Saver!OnlineObjects' = Saver!OnlineObjects
  BY <1>1, <1>2, CharsKept, TasksKept
<1>4. PcTypes'
  <2>1. pc[t] \notin Working
    BY <1>2 DEF Working
  <2>2. \E label \in {"submit", "each"} : pc' = [pc EXCEPT ![t] = label]
    BY <1>2
  <2> QED BY <1>1, <1>2, <2>1, <2>2, PcsKept
<1>5. HeldTypes'
  BY <1>1, <1>2, OnlineAre DEF HeldTypes
<1>6. ASSUME ~plan.async
      PROVE  Joined' /\ Saved'
  <2>1. t = Game /\ pc[Game] \notin Joining
    BY <1>2, <1>6, WorkerOrGame DEF Working, Joining
  <2>2. /\ queue = <<>> /\ Joined /\ Saved /\ doing[Game] = 0
        /\ \A w \in Workers : /\ w # Game /\ w \in Saver!Threads /\ pc[w] = "idle"
                              /\ rest[w] = {} /\ doing[w] = 0 /\ taskOf[w] = Nobody
    BY <1>2, <1>6, <2>1, Quiet, SaveAssumption DEF Saver!Threads
  <2>3. \A w \in Workers : pc'[w] = "idle" /\ rest'[w] = {}
    BY <1>1, <1>2, <2>1, <2>2 DEF PcTypes, HeldTypes
  <2>4. pc'[Game] \in {"submit", "each"} /\ rest'[Game] = Saver!OnlineObjects'
    BY <1>1, <1>2, <1>3, <2>1 DEF PcTypes, HeldTypes
  <2>5. Joined'
    BY <1>2, <2>2, <2>3, <2>4, EmptySeq DEF Joined, Joining
  <2>6. Saved'
    BY <1>2, <2>2 DEF Saved, Leaving
  <2> QED BY <2>5, <2>6
<1> QED BY <1>2, <1>3, <1>4, <1>5, <1>6, SaveInvFrom

(* A task for one of them, and after the last the wait.                     *)
LEMMA SubmitSave ==
    ASSUME SaveInv, NEW t \in Saver!Threads, Saver!Submit(t)
    PROVE  SaveInv'
<1>1. CharTypes /\ TaskTypes /\ PcTypes /\ HeldTypes /\ Len(owner) \in Nat
  BY OnlineAre DEF SaveInv, SaveTypes
<1>2. PICK o \in rest[t] :
        /\ queue' = Append(queue, [kind |-> "one", object |-> o, at |-> 0, by |-> t])
        /\ rest' = [rest EXCEPT ![t] = @ \ {o}]
        /\ pc' = [pc EXCEPT ![t] = IF rest[t] = {o} THEN "await" ELSE "submit"]
  BY DEF Saver!Submit, Saver!Goto, Saver!Awaits
<1>3. /\ pc[t] = "submit"
      /\ UNCHANGED <<plan, gains, table, progress, owner, data, released, online,
            clock, m_playerMap, m_scheduledAt, playerLock, doing, copy, taskOf>>
  BY DEF Saver!Submit, Saver!memory, Saver!counts, Saver!history
<1>4. CharTypes' /\ Saver!OnlineObjects' = Saver!OnlineObjects
      /\ SaveTasks' = SaveTasks /\ JoinedTasks' = JoinedTasks
  BY <1>1, <1>3, CharsKept DEF SaveTasks, JoinedTasks, Saver!Tasks
<1> DEFINE e == [kind |-> "one", object |-> o, at |-> 0, by |-> t]
<1>5. o \in 1..Len(owner) /\ e \in SaveTasks
  <2>1. o \in 1..Len(owner)
    BY <1>1, <1>2 DEF HeldTypes
  <2>2. o \in 0..MaxSessions /\ 0 \in 0..clock
    BY <1>1, <2>1, SaveAssumption DEF CharTypes, TaskTypes
  <2>3. e \in Saver!Tasks
    BY <2>2 DEF Saver!Tasks
  <2> QED BY <2>1, <2>3 DEF SaveTasks
<1>6. e.kind = "one" /\ e.by = t /\ e.object = o
  OBVIOUS
<1> HIDE DEF e
<1>7. queue' = Append(queue, e)
  BY <1>2 DEF e
<1>8. TaskTypes'
  <2>1. queue' \in Seq(SaveTasks)
    BY <1>1, <1>5, <1>7, AppendProperties DEF TaskTypes
  <2> QED BY <1>1, <1>3, <1>4, <2>1 DEF TaskTypes
<1>9. PcTypes'
  <2>1. pc[t] \notin Working
    BY <1>3 DEF Working
  <2>2. \E label \in {"submit", "await"} : pc' = [pc EXCEPT ![t] = label]
    BY <1>2
  <2> QED BY <1>1, <1>3, <2>1, <2>2, PcsKept
<1>10. HeldTypes'
  BY <1>1, <1>2, <1>3 DEF HeldTypes
<1>11. ASSUME ~plan.async
       PROVE  Joined' /\ Saved'
  <2>1. t = Game /\ Joined /\ Saved
    BY <1>3, <1>11, WorkerOrGame DEF SaveInv, Working
  <2>2. o \in Saver!OnlineObjects
    BY <1>2, <2>1 DEF Joined
  <2>3. e \in JoinedTasks
    BY <1>5, <1>6, <2>1, <2>2 DEF JoinedTasks, SaveTasks
  <2>4. queue' \in Seq(JoinedTasks)
    BY <1>7, <2>1, <2>3, AppendProperties DEF Joined
  <2>5. \A w \in Workers : /\ w # Game /\ w \in Saver!Threads
                           /\ pc'[w] = pc[w] /\ rest'[w] = rest[w]
    BY <1>1, <1>2, <2>1, SaveAssumption DEF PcTypes, HeldTypes, Saver!Threads
  <2>6. /\ pc'[Game] \in Joining /\ rest'[Game] \subseteq Saver!OnlineObjects
        /\ pc'[Game] \in {"idle", "begin", "await"} => rest'[Game] = {}
    BY <1>1, <1>2, <2>1 DEF PcTypes, HeldTypes, Joined, Joining
  <2>7. Joined'
    BY <1>3, <1>4, <2>1, <2>4, <2>5, <2>6 DEF Joined
  <2>8. doing[Game] = 0
    BY <1>1, <1>3, <2>1 DEF PcTypes, Working
  <2> QED BY <1>3, <2>1, <2>7, <2>8 DEF Saved, Leaving
<1> QED BY <1>3, <1>4, <1>8, <1>9, <1>10, <1>11, SaveInvFrom

(* The next of those that are saved one after the other, or the end.        *)
LEMMA EachSave ==
    ASSUME SaveInv, NEW t \in Saver!Threads, Saver!Each(t)
    PROVE  SaveInv'
<1>1. CharTypes /\ TaskTypes /\ PcTypes /\ HeldTypes /\ Len(owner) \in Nat
  BY OnlineAre DEF SaveInv, SaveTypes
<1>2. /\ pc[t] = "each"
      /\ UNCHANGED <<plan, gains, table, progress, owner, data, released, online,
            clock, queue, m_playerMap, m_scheduledAt, playerLock, copy>>
  BY DEF Saver!Each, Saver!memory, Saver!manager, Saver!counts, Saver!history
<1>3. CharTypes' /\ TaskTypes' /\ Saver!OnlineObjects' = Saver!OnlineObjects
  BY <1>1, <1>2, CharsKept, TasksKept
<1>4. pc[t] \notin Working
  BY <1>2 DEF Working
<1>5. ASSUME ~plan.async, t = Game
      PROVE  /\ queue' = <<>> /\ doing[Game] = 0 /\ rest[Game] \subseteq Saver!OnlineObjects
             /\ \A q \in Players : online[q] = 0 => table[q] = progress[q]
             /\ \A w \in Workers : w # t /\ w \in Saver!Threads /\ pc[w] = "idle" /\ rest[w] = {}
                                   /\ doing[w] = 0 /\ taskOf[w] = Nobody
  <2>1. Joined /\ Saved /\ queue = <<>>
        /\ \A w \in Workers : pc[w] = "idle" /\ rest[w] = {} /\ doing[w] = 0 /\ taskOf[w] = Nobody
    BY <1>2, <1>5, Quiet DEF Joining
  <2>2. doing[Game] = 0
    BY <1>1, <1>4, <1>5 DEF PcTypes
  <2> QED BY <1>2, <1>5, <2>1, <2>2, SaveAssumption DEF Joined, Saved, Leaving, Saver!Threads
<1>6. CASE /\ rest[t] = {} /\ pc' = [pc EXCEPT ![t] = "idle"]
           /\ taskOf' = [taskOf EXCEPT ![t] = Nobody] /\ UNCHANGED <<doing, rest>>
  <2>1. PcTypes'
    BY <1>1, <1>2, <1>4, <1>6, PcsKept
  <2>2. HeldTypes'
    BY <1>1, <1>2, <1>6 DEF HeldTypes
  <2>3. ASSUME ~plan.async
        PROVE  Joined' /\ Saved'
    <3>1. CASE t = Game
      <4>1. \A w \in Workers : /\ pc'[w] = "idle" /\ rest'[w] = {} /\ doing'[w] = 0
                               /\ taskOf'[w] = Nobody
        BY <1>1, <1>5, <1>6, <2>3, <3>1 DEF PcTypes, HeldTypes
      <4>2. pc'[Game] = "idle" /\ rest'[Game] = {}
        BY <1>1, <1>6, <3>1 DEF PcTypes
      <4>3. Joined'
        BY <1>5, <2>3, <3>1, <4>1, <4>2, StaysQuiet DEF Joining
      <4> QED BY <1>2, <1>5, <1>6, <2>3, <3>1, <4>3 DEF Saved
    <3>2. CASE t \in Workers /\ t # Game /\ pc[Game] \in Joining
      <4>1. Joined /\ Saved
        BY <2>3 DEF SaveInv
      <4>2. JoinedTasks' = JoinedTasks
        BY <1>2, <1>3 DEF JoinedTasks, Saver!Tasks
      <4>3. pc'[Game] = pc[Game] /\ pc'[t] = "idle" /\ taskOf'[t] = Nobody /\ doing[t] = 0
        BY <1>1, <1>4, <1>6, <3>2 DEF PcTypes, HeldTypes, Saver!Threads
      <4>4. \A w \in Workers : w # t => pc'[w] = pc[w] /\ taskOf'[w] = taskOf[w]
        BY <1>1, <1>6 DEF PcTypes, HeldTypes, Saver!Threads
      <4>5. Joined'
        BY <1>2, <1>3, <1>6, <3>2, <4>1, <4>2, <4>3, <4>4 DEF Joined
      <4> QED BY <1>2, <1>3, <1>6, <4>1, <4>3, <4>5 DEF Saved, Leaving
    <3> QED BY <1>2, <2>3, <3>1, <3>2, WorkerOrGame
  <2> QED BY <1>2, <1>3, <2>1, <2>2, <2>3, SaveInvFrom
<1>7. ASSUME NEW o \in rest[t], rest' = [rest EXCEPT ![t] = @ \ {o}], Saver!GoSave(t, o),
             UNCHANGED taskOf
      PROVE  SaveInv'
  <2>1. o \in 1..Len(owner)
    BY <1>1, <1>7 DEF HeldTypes
  <2>2. PcTypes'
    BY <1>1, <1>2, <1>7, <2>1, PcsKept
  <2>3. HeldTypes'
    BY <1>1, <1>2, <1>7 DEF HeldTypes
  <2>4. ASSUME ~plan.async
        PROVE  Joined' /\ Saved'
    <3>1. t = Game
      BY <1>2, <1>7, <2>4, WorkerOrGame DEF SaveInv, Joined
    <3>2. \A w \in Workers : /\ pc'[w] = "idle" /\ rest'[w] = {} /\ doing'[w] = 0
                             /\ taskOf'[w] = Nobody
      BY <1>1, <1>5, <1>7, <2>4, <3>1 DEF PcTypes, HeldTypes, Saver!GoSave, Saver!Goto
    <3>3. pc'[Game] = "lock" /\ doing'[Game] = o
      BY <1>1, <1>7, <3>1 DEF PcTypes, Saver!GoSave, Saver!Goto
    <3>4. rest'[Game] \subseteq Saver!OnlineObjects /\ o \in Saver!OnlineObjects
      BY <1>1, <1>5, <1>7, <2>4, <3>1 DEF HeldTypes
    <3>5. Joined'
      BY <1>3, <1>5, <2>4, <3>1, <3>2, <3>3, <3>4, StaysQuiet DEF Joining
    <3> QED BY <1>2, <1>3, <1>5, <2>4, <3>1, <3>3, <3>4, <3>5 DEF Saved
  <2> QED BY <1>2, <1>3, <2>2, <2>3, <2>4, SaveInvFrom
<1> QED BY <1>6, <1>7 DEF Saver!Each, Saver!Goto

(* The futures are ready: no worker is at a save of the game any more.      *)
LEMMA AwaitedSave ==
    ASSUME SaveInv, NEW t \in Saver!Threads, Saver!Awaited(t)
    PROVE  SaveInv'
<1>1. CharTypes /\ TaskTypes /\ PcTypes /\ HeldTypes /\ Len(owner) \in Nat
  BY OnlineAre DEF SaveInv, SaveTypes
<1>2. /\ pc[t] = "await" /\ pc' = [pc EXCEPT ![t] = "idle"]
      /\ \A i \in DOMAIN queue : queue[i].by # t
      /\ \A w \in Workers : taskOf[w] # t
      /\ UNCHANGED <<plan, gains, table, progress, owner, data, released, online,
            clock, queue, m_playerMap, m_scheduledAt, playerLock, doing, copy, rest, taskOf>>
  BY DEF Saver!Awaited, Saver!Goto, Saver!memory, Saver!manager, Saver!counts, Saver!history
<1>3. CharTypes' /\ TaskTypes' /\ HeldTypes' /\ Saver!OnlineObjects' = Saver!OnlineObjects
  BY <1>1, <1>2, CharsKept, TasksKept, HeldKept
<1>4. PcTypes'
  BY <1>1, <1>2, PcsKept DEF Working
<1>5. ASSUME ~plan.async
      PROVE  Joined' /\ Saved'
  <2>1. Joined /\ Saved /\ t = Game
    BY <1>2, <1>5, WorkerOrGame DEF SaveInv, Working
  <2>2. queue = <<>>
    <3>1. ASSUME queue # <<>> PROVE FALSE
      <4>1. Len(queue) \in Nat \ {0}
        BY <2>1, <3>1, EmptySeq DEF Joined
      <4>2. 1 \in DOMAIN queue /\ queue[1] \in JoinedTasks
        BY <2>1, <4>1, ElementOfSeq, LenProperties DEF Joined
      <4> QED BY <1>2, <2>1, <4>2 DEF JoinedTasks
    <3> QED BY <3>1
  <2>3. \A w \in Workers : w # Game /\ w \in Saver!Threads /\ pc[w] = "idle"
                           /\ rest[w] = {} /\ doing[w] = 0 /\ taskOf[w] = Nobody
    BY <1>1, <1>2, <2>1, SaveAssumption DEF Joined, Saver!Threads, PcTypes, Working
  <2>4. pc'[Game] = "idle" /\ rest[Game] = {} /\ doing[Game] = 0
        /\ \A w \in Workers : pc'[w] = "idle"
    BY <1>1, <1>2, <2>1, <2>3 DEF PcTypes, Working, Joined
  <2>5. Joined'
    BY <1>2, <2>2, <2>3, <2>4, StaysQuiet DEF Joining
  <2> QED BY <1>2, <2>1, <2>4, <2>5 DEF Saved, Leaving
<1> QED BY <1>2, <1>3, <1>4, <1>5, SaveInvFrom

-----------------------------------------------------------------------------
(* A worker takes a task.                                                   *)
LEMMA TakeSave ==
    ASSUME SaveInv, NEW w \in Workers, Saver!Take(w)
    PROVE  SaveInv'
<1> DEFINE task == Head(queue)
<1>1. CharTypes /\ TaskTypes /\ PcTypes /\ HeldTypes /\ Len(owner) \in Nat
      /\ w \in Saver!Threads /\ w # Game /\ w # Nobody
  BY OnlineAre, SaveAssumption DEF SaveInv, SaveTypes, Saver!Threads
<1>2. /\ pc[w] = "idle" /\ queue # <<>> /\ queue' = Tail(queue)
      /\ UNCHANGED <<plan, gains, table, progress, owner, data, released, online,
            clock, m_playerMap, m_scheduledAt, playerLock, copy, rest>>
  BY DEF Saver!Take, Saver!memory, Saver!counts, Saver!history
<1>3. CharTypes' /\ Saver!OnlineObjects' = Saver!OnlineObjects
      /\ SaveTasks' = SaveTasks /\ JoinedTasks' = JoinedTasks
  BY <1>1, <1>2, CharsKept DEF SaveTasks, JoinedTasks, Saver!Tasks
<1>4. task \in SaveTasks /\ Tail(queue) \in Seq(SaveTasks) /\ pc[w] \notin Working
  BY <1>1, <1>2, HeadTailProperties DEF TaskTypes, Working
<1>5. queue' \in Seq(SaveTasks) => TaskTypes'
  BY <1>1, <1>2, <1>3 DEF TaskTypes
<1>6. ~plan.async => /\ Joined /\ Saved /\ pc[Game] \in Joining /\ task \in JoinedTasks
                     /\ Tail(queue) \in Seq(JoinedTasks)
  BY <1>2, HeadTailProperties DEF SaveInv, Joined
<1> HIDE DEF task
<1>7. CASE task.kind = "all"
  <2>1. plan.async
    BY <1>6, <1>7 DEF JoinedTasks
  <2>2. UNCHANGED <<doing, taskOf>>
    BY <1>7 DEF Saver!Take, task
  <2>3. PcTypes'
    <3>1. CASE pc' = [pc EXCEPT ![w] = "begin"]
      BY <1>1, <1>2, <1>4, <2>2, <3>1, PcsKept
    <3>2. CASE UNCHANGED pc
      BY <1>1, <1>2, <2>2, <3>2 DEF PcTypes
    <3> QED BY <1>7, <3>1, <3>2 DEF Saver!Take, Saver!Goto, task
  <2>4. HeldTypes'
    BY <1>1, <1>2, <2>2, HeldKept
  <2> QED BY <1>2, <1>3, <1>4, <1>5, <2>1, <2>3, <2>4, SaveInvFrom
<1>8. CASE task.kind = "player"
  <2>1. plan.async
    BY <1>6, <1>8 DEF JoinedTasks
  <2>2. UNCHANGED taskOf /\ (Saver!GoSave(w, task.object) \/ UNCHANGED <<pc, doing>>)
    BY <1>8 DEF Saver!Take, task
  <2>3. task.object \in 1..Len(owner)
    BY <1>4, <1>8 DEF SaveTasks
  <2>4. PcTypes'
    <3>1. CASE Saver!GoSave(w, task.object)
      BY <1>1, <1>2, <2>3, <3>1, PcsKept
    <3>2. CASE UNCHANGED <<pc, doing>>
      BY <1>1, <1>2, <3>2 DEF PcTypes
    <3> QED BY <2>2, <3>1, <3>2
  <2>5. HeldTypes'
    BY <1>1, <1>2, <2>2, HeldKept
  <2> QED BY <1>2, <1>3, <1>4, <1>5, <2>1, <2>2, <2>4, <2>5, SaveInvFrom
<1>9. CASE task.kind = "one"
  <2>1. /\ Saver!GoSave(w, task.object)
        /\ taskOf' = [taskOf EXCEPT ![w] = task.by]
    BY <1>9 DEF Saver!Take, task
  <2>2. task.object \in 1..Len(owner) /\ task.by \in Saver!Threads \cup {Nobody}
    BY <1>4, <1>9 DEF SaveTasks, Saver!Tasks
  <2>3. PcTypes'
    BY <1>1, <1>2, <2>1, <2>2, PcsKept
  <2>4. HeldTypes'
    BY <1>1, <1>2, <2>1, <2>2 DEF HeldTypes
  <2>5. ASSUME ~plan.async
        PROVE  Joined' /\ Saved'
    <3>1. /\ Joined /\ Saved /\ pc[Game] \in Joining
          /\ task.by = Game /\ task.object \in Saver!OnlineObjects
      BY <1>6, <2>5 DEF JoinedTasks
    <3>2. queue' \in Seq(JoinedTasks')
      BY <1>2, <1>3, <1>6, <2>5
    <3>3. /\ pc'[w] = "lock" /\ taskOf'[w] = Game /\ doing'[w] = task.object
          /\ pc'[Game] = pc[Game] /\ doing'[Game] = doing[Game]
      BY <1>1, <2>1, <3>1 DEF PcTypes, HeldTypes, Saver!GoSave, Saver!Goto, Saver!Threads
    <3>4. \A v \in Workers : v # w =>
            pc'[v] = pc[v] /\ taskOf'[v] = taskOf[v] /\ doing'[v] = doing[v]
      BY <1>1, <2>1 DEF PcTypes, HeldTypes, Saver!GoSave, Saver!Goto, Saver!Threads
    <3>5. Joined'
      BY <1>2, <1>3, <2>1, <3>1, <3>2, <3>3, <3>4 DEF Joined, Working
    <3>6. Saved'
      BY <1>2, <1>3, <3>1, <3>3 DEF Saved, Leaving
    <3> QED BY <3>5, <3>6
  <2> QED BY <1>2, <1>3, <1>4, <1>5, <2>1, <2>3, <2>4, <2>5, SaveInvFrom
<1> QED BY <1>7, <1>8, <1>9 DEF Saver!Take, task

-----------------------------------------------------------------------------
(* Nothing but the released objects changes, or nothing at all.             *)
LEMMA RestSave ==
    ASSUME SaveInv, released' \subseteq 1..Len(owner),
           UNCHANGED <<plan, gains, table, progress, owner, data, online, clock, queue,
             m_playerMap, m_scheduledAt, playerLock, pc, doing, copy, rest, taskOf>>
    PROVE  SaveInv'
<1>1. CharTypes /\ TaskTypes /\ PcTypes /\ HeldTypes
  BY DEF SaveInv, SaveTypes
<1>2. CharTypes' /\ Saver!OnlineObjects' = Saver!OnlineObjects
  BY <1>1 DEF CharTypes, Saver!OnlineObjects
<1>3. TaskTypes' /\ PcTypes' /\ HeldTypes'
  BY <1>1, TasksKept, HeldKept DEF PcTypes
<1>4. JoinedTasks' = JoinedTasks
  BY <1>2 DEF JoinedTasks, Saver!Tasks
<1>5. ~plan.async => Joined' /\ Saved'
  BY <1>2, <1>4 DEF SaveInv, Joined, Saved, Leaving
<1> QED BY <1>2, <1>3, <1>5, SaveInvFrom

LEMMA StepSave == SaveInv /\ [Saver!Next]_(Saver!vars) => SaveInv'
<1> SUFFICES ASSUME SaveInv, [Saver!Next]_(Saver!vars) PROVE SaveInv'
  OBVIOUS
<1>1. CharTypes
  BY DEF SaveInv, SaveTypes
<1>2. CASE UNCHANGED Saver!vars
  <2>1. UNCHANGED <<plan, gains, table, progress, owner, data, released, online, clock,
          queue, m_playerMap, m_scheduledAt, playerLock, pc, doing, copy, rest, taskOf>>
    BY <1>2 DEF Saver!vars, Saver!memory, Saver!manager, Saver!threads, Saver!counts,
       Saver!history
  <2>2. released' \subseteq 1..Len(owner)
    BY <1>1, <2>1 DEF CharTypes
  <2> QED BY <2>1, <2>2, RestSave
<1>3. ASSUME NEW o \in Saver!Made, Saver!Release(o)
      PROVE  SaveInv'
  <2>1. UNCHANGED <<plan, gains, table, progress, owner, data, online, clock,
          queue, m_playerMap, m_scheduledAt, playerLock, pc, doing, copy, rest, taskOf>>
    BY <1>3 DEF Saver!Release, Saver!manager, Saver!threads, Saver!counts, Saver!history
  <2>2. released' \subseteq 1..Len(owner)
    BY <1>1, <1>3 DEF CharTypes, Saver!Release, Saver!Made
  <2> QED BY <2>1, <2>2, RestSave
<1>4. CASE Saver!Plays
  BY <1>4, ScheduleAllSave, LoginSave, ChangeSave, RequestSave, LogoutSave DEF Saver!Plays
<1>5. ASSUME NEW t \in Saver!Threads, Saver!Goes(t)
      PROVE  SaveInv'
  <2>1. CASE Saver!Saves(t)
    BY <2>1, TakePlayerLockSave, ReadPlayerSave, WritePlayerSave, BeginSave, SubmitSave,
       EachSave, AwaitedSave
       DEF Saver!Saves
  <2>2. CASE t \in plan.workers /\ Saver!Take(t)
    <3>1. plan.workers \subseteq Workers
      BY <1>1, SaveAssumption DEF CharTypes
    <3> QED BY <2>2, <3>1, TakeSave
  <2> QED BY <1>5, <2>1, <2>2 DEF Saver!Goes
<1> QED BY <1>2, <1>3, <1>4, <1>5 DEF Saver!Next

(* A step of the whole is a step of the saves or leaves them as they are.   *)
LEMMA StepsOfSaves ==
    SaveInv /\ [MCNext]_<<part, vars, mindVars, saveVars>> => [Saver!Next]_(Saver!vars)
<1> SUFFICES ASSUME SaveInv, [MCNext]_<<part, vars, mindVars, saveVars>>
             PROVE  [Saver!Next]_(Saver!vars)
  OBVIOUS
<1>1. UNCHANGED saveVars => UNCHANGED Saver!vars
  BY DEF saveVars, Saver!vars, Saver!memory, Saver!manager, Saver!threads, Saver!counts,
     Saver!history
<1>2. CASE SavesNext
  <2>1. plan.workers \subseteq Workers
    BY SaveAssumption DEF SaveInv, SaveTypes, CharTypes
  <2>2. Saver!Plays \/ (\E t \in Saver!Threads : Saver!Goes(t))
        \/ (\E o \in Saver!Made : Saver!Release(o))
    BY <1>2, <2>1 DEF SavesNext, Saver!Plays, Saver!Goes, Saver!Saves, Saver!Threads,
       Saver!Made
  <2> QED BY <2>2 DEF Saver!Next
<1>3. CASE FollowNext \/ ThinkNext \/ UNCHANGED <<part, vars, mindVars, saveVars>>
  BY <1>1, <1>3 DEF FollowNext, Follows, ThinkNext, Thinks
<1> QED BY <1>2, <1>3 DEF MCNext

(* With saves on the dispatcher thread, whoever logs in finds all it had    *)
(* when it left, whatever else is saved at the time and by whom.            *)
THEOREM LoginsLoadAll == MCSpec => []LoginLoadsAll
<1>1. MCInit => SaveInv
  BY InitSave DEF MCInit
<1>2. SaveInv /\ [MCNext]_<<part, vars, mindVars, saveVars>> => SaveInv'
  BY StepsOfSaves, StepSave
<1> QED BY <1>1, <1>2, SaveInvLoads, PTL DEF MCSpec
==============================================================================
