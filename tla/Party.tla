------------------------------- MODULE Party -------------------------------
(***************************************************************************)
(* Parties of players (src/creatures/players/grouping/party.cpp), what      *)
(* players ask for (src/game/game.cpp, playerInviteToParty to               *)
(* playerEnableSharedPartyExperience), and what a step, a fight or a logout *)
(* does to them (src/creatures/players/player.cpp).                         *)
(*                                                                         *)
(* Everything runs on the dispatcher thread, so an action is a whole call;  *)
(* calls that call each other are operators on a record of the state.       *)
(* Scripts may refuse: a refused invitation, join or leave changes nothing; *)
(* a refusal that comes when a part is done is a choice of the action.      *)
(* Levels and the mantra are left out; of distance, who is far from whom.   *)
(***************************************************************************)
EXTENDS Naturals, Sequences, FiniteSetsExt, SequencesExt

CONSTANTS
    Players, Nobody,  \* a player that returns is another one
    MaxParties,       \* bound: how many parties are created
    MaxSteps,         \* bound: how often players come near, go off or idle
    MaxRefusals       \* bound: how often a script refuses (those of data/ never do)

VARIABLES
    society,   \* the parties and the players' side of them
    far,       \* pairs of players that are too far from each other
    idle,      \* players that have not fought for two minutes
    gone,      \* players that have logged out
    created, steps, refusals

vars == <<society, far, idle, gone, created, steps, refusals>>

-----------------------------------------------------------------------------
Parties == 1..MaxParties
None == 0

Init ==
    /\ society =
         [m_party |-> [p \in Players |-> None],
          invitePartyList |-> [p \in Players |-> {}],
          m_leader |-> [k \in Parties |-> Nobody],
          memberList |-> [k \in Parties |-> <<>>],
          inviteList |-> [k \in Parties |-> {}],
          sharedExpActive |-> [k \in Parties |-> FALSE],
          sharedExpEnabled |-> [k \in Parties |-> FALSE]]
    /\ far = {} /\ idle = Players /\ gone = {}
    /\ created = 0 /\ steps = 0 /\ refusals = 0

(* m_leader is a weak pointer: it is lost with a player that is gone.       *)
Leader(s, k) == IF k = None \/ s.m_leader[k] \in gone THEN Nobody ELSE s.m_leader[k]
Members(s, k) == Range(s.memberList[k])
Empty(s, k) == s.memberList[k] = <<>> /\ s.inviteList[k] = {}
IsInviting(s, p, q) ==
    Leader(s, s.m_party[p]) = p /\ q \in s.inviteList[s.m_party[p]]

-----------------------------------------------------------------------------
(* getSharedExperienceStatus: nobody is far from the leader or idle.        *)
SharedExperienceStatus(s, k, away, resting) ==
    LET leader == Leader(s, k)
    IN  /\ leader # Nobody /\ s.memberList[k] # <<>>
        /\ \A p \in Members(s, k) \cup {leader} :
             {leader, p} \notin away /\ p \notin resting

UpdateIn(s, k, away, resting) ==
    IF s.sharedExpActive[k]
    THEN [s EXCEPT !.sharedExpEnabled[k] = SharedExperienceStatus(s, k, away, resting)]
    ELSE s

UpdateSharedExperience(s, k) == UpdateIn(s, k, far, idle)

(* The party of the leader and of every member is reset, and the invitation *)
(* of everybody who is invited.                                             *)
MutDisband(s, k, refused) ==
    IF refused THEN s
    ELSE LET out == {Leader(s, k)} \cup Members(s, k)
         IN  [s EXCEPT
                !.m_leader[k] = Nobody,
                !.m_party = [p \in Players |-> IF p \in out THEN None ELSE @[p]],
                !.inviteList[k] = {}, !.memberList[k] = <<>>]
Disband(s, k, refused) ==
    IF refused THEN s
    ELSE LET out == {Leader(s, k)} \cup Members(s, k)
         IN  [s EXCEPT
                !.m_leader[k] = Nobody,
                !.m_party = [p \in Players |-> IF p \in out THEN None ELSE @[p]],
                !.invitePartyList = [p \in Players |-> @[p] \ {k}],
                !.inviteList[k] = {}, !.memberList[k] = <<>>]

(* std::erase of a member.  It is a fold, for the prover has no definition  *)
(* of SelectSeq.                                                            *)
Erase(list, p) ==
    FoldLeft(LAMBDA kept, q : IF q = p THEN kept ELSE Append(kept, q), <<>>, list)

PassPartyLeadership(s, k, p) ==
    IF s.m_party[p] # k \/ p \notin Members(s, k) \/ Leader(s, k) \in {p, Nobody} THEN s
    ELSE UpdateSharedExperience(
           [s EXCEPT !.m_leader[k] = p,
                     !.memberList[k] = <<Leader(s, k)>> \o Erase(@, p)], k)

(* leaveParty: the leader passes the leadership on before it goes, unless   *)
(* only one would be left, or nobody.                                       *)
MissingLeader(s, k, p) ==
    /\ Leader(s, k) = p
    /\ \/ Len(s.memberList[k]) = 0
       \/ Len(s.memberList[k]) = 1 /\ s.inviteList[k] = {}

LeaveParty(s, k, p, refused) ==
    LET leads == Leader(s, k) = p
        missing == MissingLeader(s, k, p)
        passed == IF leads /\ ~missing
                  THEN PassPartyLeadership(s, k, Head(s.memberList[k])) ELSE s
        left == UpdateSharedExperience(
                  [passed EXCEPT !.memberList[k] = Erase(@, p), !.m_party[p] = None], k)
    IN  IF Leader(s, k) = Nobody \/ (~leads /\ p \notin Members(s, k)) THEN s
        ELSE IF missing \/ Empty(left, k) THEN Disband(left, k, refused) ELSE left

RemoveInvite(s, k, p, refused) ==
    LET removed == [s EXCEPT !.inviteList[k] = @ \ {p}, !.invitePartyList[p] = @ \ {k}]
    IN  IF Leader(s, k) = Nobody \/ p \notin s.inviteList[k] THEN s
        ELSE IF Empty(removed, k) THEN Disband(removed, k, refused) ELSE removed

-----------------------------------------------------------------------------
(* A script refuses to disband a party, or to let go who logs out.          *)
Refuses(refused) ==
    refusals' = refusals + (IF refused THEN 1 ELSE 0) /\ refusals' <= MaxRefusals

(* playerInviteToParty; who has no party leads a new one.                   *)
Invite(p, q) ==
    LET k == IF society.m_party[p] = None THEN created + 1 ELSE society.m_party[p]
    IN  /\ {p, q} \cap gone = {} /\ p # q
        /\ ~IsInviting(society, q, p) /\ society.m_party[q] = None
        /\ \/ society.m_party[p] = None /\ created < MaxParties /\ created' = k
           \/ /\ Leader(society, society.m_party[p]) = p
              /\ q \notin society.inviteList[k] /\ UNCHANGED created
        /\ society' = [society EXCEPT
                !.m_party[p] = k, !.m_leader[k] = p,
                !.inviteList[k] = @ \cup {q}, !.invitePartyList[q] = @ \cup {k}]
        /\ UNCHANGED <<far, idle, gone, steps, refusals>>

(* Only the invitation to this party is taken off the player's list.        *)
Join(p, leader) ==
    LET k == society.m_party[leader]
    IN  /\ p \notin gone /\ IsInviting(society, leader, p)
        /\ society.m_party[p] = None
        /\ society' = UpdateSharedExperience(
             [society EXCEPT
                !.inviteList[k] = @ \ {p}, !.invitePartyList[p] = @ \ {k},
                !.memberList[k] = Append(@, p), !.m_party[p] = k], k)
        /\ UNCHANGED <<far, idle, gone, created, steps, refusals>>

Revoke(leader, q, refused) ==
    /\ leader \notin gone /\ IsInviting(society, leader, q)
    /\ Refuses(refused)
    /\ society' = RemoveInvite(society, society.m_party[leader], q, refused)
    /\ UNCHANGED <<far, idle, gone, created, steps>>

PassLeadership(p, q) ==
    LET k == society.m_party[p]
    IN  /\ p \notin gone /\ k # None /\ Leader(society, k) = p
        /\ q # p /\ society.m_party[q] = k
        /\ society' = PassPartyLeadership(society, k, q)
        /\ UNCHANGED <<far, idle, gone, created, steps, refusals>>

Leave(p, refused) ==
    /\ p \notin gone /\ society.m_party[p] # None
    /\ Refuses(refused)
    /\ society' = LeaveParty(society, society.m_party[p], p, refused)
    /\ UNCHANGED <<far, idle, gone, created, steps>>

(* setSharedExperience; what was enabled before is kept when it ends.       *)
SetSharedExperience(p) ==
    LET k == society.m_party[p]
    IN  /\ p \notin gone /\ k # None /\ Leader(society, k) = p
        /\ society' = UpdateSharedExperience(
             [society EXCEPT !.sharedExpActive[k] = ~@], k)
        /\ UNCHANGED <<far, idle, gone, created, steps, refusals>>

-----------------------------------------------------------------------------
(* onCreatureMove: a step brings players near each other, or apart.         *)
Within(p, pairs) ==
    IF society.m_party[p] = None THEN society
    ELSE UpdateIn(society, society.m_party[p], pairs, idle)

Walk(p, q) ==
    /\ p \notin gone /\ p # q
    /\ steps < MaxSteps /\ steps' = steps + 1
    /\ far' = SymDiff(far, {{p, q}})
    /\ society' = Within(p, far')
    /\ UNCHANGED <<idle, gone, created, refusals>>

(* updatePlayerTicks: a fight counts for two minutes, whose end is not      *)
(* noticed before something else happens.                                   *)
Fight(p) ==
    /\ p \notin gone /\ society.m_party[p] # None /\ p \in idle
    /\ idle' = idle \ {p}
    /\ society' = UpdateIn(society, society.m_party[p], far, idle')
    /\ UNCHANGED <<far, gone, created, steps, refusals>>

TicksEnd(p) ==
    /\ p \notin idle
    /\ steps < MaxSteps /\ steps' = steps + 1
    /\ idle' = idle \cup {p}
    /\ UNCHANGED <<society, far, gone, created, refusals>>

(* onRemoveCreature, on logout: the party is left, whatever the event says, *)
(* but not when the callback of a script refuses; and then every invitation *)
(* is cleared, which may leave the party that invited with nobody.          *)
ClearInvitations(s, p, refused) ==
    FoldSet(LAMBDA k, x : RemoveInvite(x, k, p, refused), s, s.invitePartyList[p])

Logout(p, stays, refused) ==
    LET k == society.m_party[p]
        left == IF k = None \/ stays THEN society ELSE LeaveParty(society, k, p, refused)
        cleared == ClearInvitations(left, p, refused)
    IN  /\ p \notin gone /\ gone' = gone \cup {p}
        /\ Refuses(stays \/ refused)
        /\ society' = [cleared EXCEPT !.invitePartyList[p] = {}]
        /\ UNCHANGED <<far, idle, created, steps>>

Next ==
    \E p \in Players :
        \/ \E q \in Players :
             \/ Invite(p, q) \/ Join(p, q) \/ PassLeadership(p, q) \/ Walk(p, q)
             \/ \E refused \in BOOLEAN : Revoke(p, q, refused)
        \/ \E refused \in BOOLEAN :
             \/ Leave(p, refused)
             \/ \E stays \in BOOLEAN : Logout(p, stays, refused)
        \/ SetSharedExperience(p) \/ Fight(p) \/ TicksEnd(p)

Spec == Init /\ [][Next]_vars

-----------------------------------------------------------------------------
TypeOK ==
    /\ society.m_party \in [Players -> Parties \cup {None}]
    /\ society.invitePartyList \in [Players -> SUBSET Parties]
    /\ society.m_leader \in [Parties -> Players \cup {Nobody}]
    /\ society.memberList \in [Parties -> Seq(Players)]
    /\ society.inviteList \in [Parties -> SUBSET Players]
    /\ gone \subseteq Players /\ idle \subseteq Players
    /\ created \in 0..MaxParties /\ refusals \in 0..MaxRefusals

(* Whatever was joined, left, passed on and disbanded, the parties know     *)
(* their players and the players their parties, nobody is in two of them or *)
(* twice in one, and a party whose last member and last invitation are gone *)
(* is gone.  It is so unless a script refused in the middle of a call.      *)
MembersAgree ==
    refusals = 0 =>
        \A k \in Parties :
            LET members == society.memberList[k]
                leader == society.m_leader[k]
            IN  /\ \A p \in Players :
                     society.m_party[p] = k <=> p = leader \/ p \in Range(members)
                /\ Len(members) = Cardinality(Range(members) \ {leader})
                /\ leader = Nobody <=> Empty(society, k)

(* An invitation is on the list of the party and on the player's, or on     *)
(* neither, and no member is invited; this too unless a script refused.     *)
InvitesAgree ==
    refusals = 0 =>
        \A k \in Parties :
            /\ society.inviteList[k] = {p \in Players : k \in society.invitePartyList[p]}
            /\ society.inviteList[k] \cap Members(society, k) = {}

(* Experience is shared only with members who are near their leader, though *)
(* members walk, join and leave and the leader changes; that somebody has   *)
(* stopped fighting may go unnoticed.                                       *)
SharedFairly ==
    refusals = 0 =>
        \A k \in Parties :
            society.sharedExpActive[k] /\ society.sharedExpEnabled[k] =>
                LET leader == Leader(society, k)
                IN  \/ leader = Nobody
                    \/ SharedExperienceStatus(society, k, far, {})
=============================================================================
