---------------------------- MODULE SocialGraph ----------------------------
(***************************************************************************)
(* The follow and party relations between connections                      *)
(* (src/src/network/social.rs, SocialState): what apply() does, under the  *)
(* lock, for any token and any argument.                                   *)
(*                                                                         *)
(* This is the abstract view: the follower and member lists are sets, so   *)
(* "the first member" is any member.  SocialLists keeps the lists and      *)
(* implements this module.  PartyRace adds who asks for which operation,   *)
(* and when: the scripts, the connections and their removal.               *)
(***************************************************************************)
EXTENDS Naturals, FiniteSets

CONSTANTS
    Conn,       \* connection tokens; a token is never used for a second connection
    None,       \* "no key in the map"
    Mob,        \* combat target names
    MaxParty    \* MAX_PARTY_SIZE, leader included

ASSUME SocialAssumption ==
    /\ None \notin Conn
    /\ IsFiniteSet(Conn)
    /\ MaxParty \in Nat \ {0}

VARIABLES
    followTarget,   \* follow_target
    followers,      \* followers, without the order
    partyLeader,    \* party_leader; a leader maps to itself
    partyMembers,   \* party_members of a leader, without the order
    combatTargets   \* combat_targets

relations == <<followTarget, followers, partyLeader, partyMembers, combatTargets>>

TypeOK ==
    /\ followTarget \in [Conn -> Conn \cup {None}]
    /\ followers \in [Conn -> SUBSET Conn]
    /\ partyLeader \in [Conn -> Conn \cup {None}]
    /\ partyMembers \in [Conn -> SUBSET Conn]
    /\ combatTargets \in [Conn -> SUBSET Mob]

Init ==
    /\ followTarget = [c \in Conn |-> None]
    /\ followers = [c \in Conn |-> {}]
    /\ partyLeader = [c \in Conn |-> None]
    /\ partyMembers = [c \in Conn |-> {}]
    /\ combatTargets = [c \in Conn |-> {}]

-----------------------------------------------------------------------------
(* The operations of SocialState.                                          *)

\* follow(): leave the old target's list, then join the new one.
Follow(a, t) ==
    /\ followTarget' = [followTarget EXCEPT ![a] = t]
    /\ followers' = [c \in Conn |->
            IF c = t THEN followers[c] \cup {a}
            ELSE IF c = followTarget[a] THEN followers[c] \ {a}
            ELSE followers[c]]
    /\ UNCHANGED <<partyLeader, partyMembers, combatTargets>>

\* stop_following()
StopFollowing(a) ==
    /\ followTarget' = [followTarget EXCEPT ![a] = None]
    /\ followers' = [c \in Conn |->
            IF c = followTarget[a] THEN followers[c] \ {a} ELSE followers[c]]
    /\ UNCHANGED <<partyLeader, partyMembers, combatTargets>>

\* The leader entry when the members in gone leave the party of l; the party
\* is dissolved when nobody remains.
LeaderWithout(l, gone) ==
    [c \in Conn |->
        IF c \in gone THEN None
        ELSE IF c = l /\ partyMembers[l] \subseteq gone THEN None
        ELSE partyLeader[c]]

\* leave_party_member(): a is dropped from the leader's two lists, whatever
\* connection a follows.
LeaveParty(a) ==
    LET l == partyLeader[a] IN
    /\ l \notin {None, a}
    /\ followTarget' = [followTarget EXCEPT ![a] = None]
    /\ followers' = [followers EXCEPT ![l] = @ \ {a}]
    /\ partyLeader' = LeaderWithout(l, {a})
    /\ partyMembers' = [partyMembers EXCEPT ![l] = @ \ {a}]
    /\ combatTargets' = [combatTargets EXCEPT ![a] = {}]

\* (mutant) the leader itself is not excluded
Admissible_LeaderToo(l, requested) ==
    {m \in requested : followTarget[m] = l /\ partyLeader[m] = None}

\* add_party_members(): of those requested, the first ones that follow l and
\* have no party enter, as long as there is room.
Admissible(l, requested) ==
    {m \in requested : followTarget[m] = l /\ partyLeader[m] = None /\ m # l}

\* (mutant) the limit forgets to count the leader
AddPartyMembers_LeaderNotCounted(l, requested) ==
    \E admitted \in SUBSET Admissible(l, requested) :
        LET members == partyMembers[l] \cup admitted IN
        /\ admitted # {} => Cardinality(members) <= MaxParty
        /\ admitted # Admissible(l, requested) => Cardinality(members) >= MaxParty
        /\ partyLeader' = [c \in Conn |-> IF c \in admitted \cup {l} THEN l ELSE partyLeader[c]]
        /\ partyMembers' = [partyMembers EXCEPT ![l] = members]
        /\ UNCHANGED <<followTarget, followers, combatTargets>>

AddPartyMembers(l, requested) ==
    \E admitted \in SUBSET Admissible(l, requested) :
        LET members == partyMembers[l] \cup admitted IN
        /\ admitted # {} => Cardinality(members) < MaxParty
        /\ admitted # Admissible(l, requested) => Cardinality(members) + 1 >= MaxParty
        /\ partyLeader' = [c \in Conn |-> IF c \in admitted \cup {l} THEN l ELSE partyLeader[c]]
        /\ partyMembers' = [partyMembers EXCEPT ![l] = members]
        /\ UNCHANGED <<followTarget, followers, combatTargets>>

\* (mutant) the expelled keep their leader
RemoveFollowers_KeepLeader(l, requested) ==
    LET removed == requested \cap followers[l] IN
    /\ followTarget' = [c \in Conn |-> IF c \in removed THEN None ELSE followTarget[c]]
    /\ followers' = [followers EXCEPT ![l] = @ \ removed]
    /\ combatTargets' = [c \in Conn |-> IF c \in removed THEN {} ELSE combatTargets[c]]
    /\ partyMembers' = [partyMembers EXCEPT ![l] = @ \ removed]
    /\ UNCHANGED partyLeader

\* remove_followers(): those requested that are in the follower list of l lose
\* their target, whoever it is, and their place in the party of l.
RemoveFollowers(l, requested) ==
    LET removed  == requested \cap followers[l]
        expelled == removed \cap partyMembers[l]
    IN
    /\ followTarget' = [c \in Conn |-> IF c \in removed THEN None ELSE followTarget[c]]
    /\ followers' = [followers EXCEPT ![l] = @ \ removed]
    /\ combatTargets' = [c \in Conn |-> IF c \in removed THEN {} ELSE combatTargets[c]]
    /\ partyMembers' = [partyMembers EXCEPT ![l] = @ \ expelled]
    /\ partyLeader' =
            [c \in Conn |->
                IF c \in expelled THEN None
                ELSE IF c = l /\ partyLeader[l] = l /\ partyMembers[l] \subseteq expelled THEN None
                ELSE partyLeader[c]]

\* SetPartyCombatTargets, and SetCombatTargets with one owner: refused as a
\* whole when an owner is neither a nor a member of a's party.
SetCombatTargets(a, owners, targets) ==
    /\ combatTargets' =
            IF owners \subseteq {a} \cup partyMembers[a]
            THEN [c \in Conn |-> IF c \in owners THEN targets ELSE combatTargets[c]]
            ELSE combatTargets
    /\ UNCHANGED <<followTarget, followers, partyLeader, partyMembers>>

\* (mutant) the own list is left to those who stop following
Unfollow_KeepList(a, lists) ==
    LET cut == {a} \cup lists[a] IN
    /\ followTarget' = [c \in Conn |-> IF c \in cut THEN None ELSE followTarget[c]]
    /\ followers' = [c \in Conn |-> {f \in lists[c] : ~(f \in cut /\ followTarget[f] = c)}]

\* delFollow() and delFollower() of a, from the follower lists in lists:
\* everybody in a's list stops following its own actual target.
Unfollow(a, lists) ==
    LET cut == {a} \cup lists[a] IN
    /\ followTarget' = [c \in Conn |-> IF c \in cut THEN None ELSE followTarget[c]]
    /\ followers' = [c \in Conn |->
            IF c = a THEN {} ELSE {f \in lists[c] : ~(f \in cut /\ followTarget[f] = c)}]

\* (mutant) only the heir is told about the new leader
PassLead_HeirOnly(a, heir) ==
    LET rest == partyMembers[a] \ {heir} IN
    /\ partyLeader[a] = a
    /\ partyLeader' = [partyLeader EXCEPT ![a] = None,
                                          ![heir] = IF rest = {} THEN None ELSE heir]
    /\ partyMembers' = [partyMembers EXCEPT ![heir] = rest, ![a] = {}]
    /\ Unfollow(a, [followers EXCEPT ![heir] = followers[a] \ {heir}])

\* A leader with members: the first becomes the leader of the rest, and its
\* follower list is overwritten by a copy of a's.  With no rest the party ends.
PassLead(a, heir) ==
    LET rest == partyMembers[a] \ {heir} IN
    /\ partyLeader[a] = a
    /\ partyLeader' = [c \in Conn |->
            IF c = a THEN None
            ELSE IF c \in partyMembers[a] THEN (IF rest = {} THEN None ELSE heir)
            ELSE partyLeader[c]]
    /\ partyMembers' = [partyMembers EXCEPT ![heir] = rest, ![a] = {}]
    /\ Unfollow(a, [followers EXCEPT ![heir] = followers[a] \ {heir}])

\* A member: the party goes on without it, or ends.
QuitParty(a) ==
    /\ partyLeader[a] \notin {None, a}
    /\ partyLeader' = LeaderWithout(partyLeader[a], {a})
    /\ partyMembers' = [partyMembers EXCEPT ![partyLeader[a]] = @ \ {a}, ![a] = {}]
    /\ Unfollow(a, followers)

\* A leader without members, or a connection without party.
LeaveAlone(a) ==
    /\ partyLeader[a] = None \/ (partyLeader[a] = a /\ partyMembers[a] = {})
    /\ partyLeader' = [partyLeader EXCEPT ![a] = None]
    /\ partyMembers' = [partyMembers EXCEPT ![a] = {}]
    /\ Unfollow(a, followers)

\* disconnect(): the succession of the party, then delFollow and delFollower.
Disconnect(a) ==
    /\ \/ \E heir \in partyMembers[a] : PassLead(a, heir)
       \/ QuitParty(a)
       \/ LeaveAlone(a)
    /\ combatTargets' = [combatTargets EXCEPT ![a] = {}]

-----------------------------------------------------------------------------
\* apply(): one action for the token a, under the lock of SocialState.  Nothing
\* asks whether the token is still mapped or what a script saw.
Operation(a) ==
    \/ \E t \in Conn : Follow(a, t)
    \/ StopFollowing(a)
    \/ LeaveParty(a)
    \/ \E requested \in SUBSET Conn : AddPartyMembers(a, requested)
    \/ \E requested \in SUBSET Conn : RemoveFollowers(a, requested)
    \/ \E owners \in SUBSET Conn, targets \in SUBSET Mob : SetCombatTargets(a, owners, targets)
    \/ Disconnect(a)

Next == \E a \in Conn : Operation(a)

Spec == Init /\ [][Next]_relations

-----------------------------------------------------------------------------
(* Properties of the maps under any sequence of operations                 *)

\* MAX_PARTY_SIZE holds through additions, successions and departures.
PartySizeBound ==
    \A l \in Conn : Cardinality(partyMembers[l]) < MaxParty

\* Whatever was requested, nobody is a member of a party of its own:
\* add_party_members() tests the token again under the lock.
NobodyLeadsItselfAsMember == \A c \in Conn : c \notin partyMembers[c]
=============================================================================
