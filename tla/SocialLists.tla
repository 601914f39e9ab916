---------------------------- MODULE SocialLists ----------------------------
(***************************************************************************)
(* SocialState with its ordered lists, each function of                    *)
(* src/src/network/social.rs an operator from relations to relations.      *)
(* Order decides who inherits a party and who of a request still fits.     *)
(* SocialGraph, with sets for lists, is the specification it implements.   *)
(***************************************************************************)
EXTENDS Naturals, SequencesExt

CONSTANTS
    Conn, None, Mob, MaxParty,  \* as in SocialGraph
    MaxRequest                  \* a bound: the connections one request names

ASSUME ListsAssumption ==
    /\ None \notin Conn
    /\ MaxParty \in Nat \ {0}
    /\ MaxRequest \in Nat

VARIABLE rel        \* the five maps; a missing list is the empty one

NoRelation ==
    [follow    |-> [c \in Conn |-> None],
     followers |-> [c \in Conn |-> <<>>],
     leader    |-> [c \in Conn |-> None],
     members   |-> [c \in Conn |-> <<>>],
     targets   |-> [c \in Conn |-> {}]]

-----------------------------------------------------------------------------

StopFollowing(r, a) ==
    IF r.follow[a] = None THEN r
    ELSE [r EXCEPT !.follow[a] = None, !.followers[r.follow[a]] = RemoveFirst(@, a)]

\* (mutant) appended without looking for it
Follow_Append(r, a, t) ==
    LET stopped == StopFollowing(r, a) IN
    [stopped EXCEPT !.follow[a] = t, !.followers[t] = Append(@, a)]

Follow(r, a, t) ==
    LET stopped == StopFollowing(r, a) IN
    [stopped EXCEPT !.follow[a] = t,
                    !.followers[t] = IF Contains(@, a) THEN @ ELSE Append(@, a)]

\* A leader whose member list has become empty no longer leads.
DissolveIfEmpty(r, l) ==
    IF r.members[l] = <<>> THEN [r EXCEPT !.leader[l] = None] ELSE r

LeaveParty(r, a) ==
    LET l == r.leader[a]
        left == [r EXCEPT !.follow[a]    = None,
                          !.followers[l] = RemoveFirst(@, a),
                          !.leader[a]    = None,
                          !.targets[a]   = {},
                          !.members[l]   = RemoveFirst(@, a)]
    IN  IF l \in {None, a} THEN r ELSE DissolveIfEmpty(left, l)

\* (mutant) a connection with a party can be taken into another
AddMember_Poach(r, l, m) ==
    IF Len(r.members[l]) + 1 >= MaxParty \/ r.follow[m] # l THEN r
    ELSE [r EXCEPT !.leader[m] = l,
                   !.members[l] = IF Contains(@, m) THEN @ ELSE Append(@, m)]

\* One turn of the loop; nobody enters after the one that filled the party.
AddMember(r, l, m) ==
    IF Len(r.members[l]) + 1 >= MaxParty \/ r.follow[m] # l \/ r.leader[m] # None THEN r
    ELSE [r EXCEPT !.leader[m] = l,
                   !.members[l] = IF Contains(@, m) THEN @ ELSE Append(@, m)]

AddPartyMembers(r, l, requested) ==
    LET after[i \in 0..Len(requested)] ==
            IF i = 0 THEN [r EXCEPT !.leader[l] = l]
            ELSE AddMember(after[i - 1], l, requested[i])
    IN  after[Len(requested)]

RemoveFollower(r, l, m) ==
    IF ~Contains(r.followers[l], m) THEN r
    ELSE LET cut == [r EXCEPT !.follow[m] = None,
                              !.targets[m] = {},
                              !.followers[l] = RemoveFirst(@, m)]
         IN  IF Contains(r.members[l], m)
             THEN [cut EXCEPT !.leader[m] = None, !.members[l] = RemoveFirst(@, m)]
             ELSE cut

\* The turns of the loop in remove_followers().
RemoveEach(r, l, requested) ==
    LET after[i \in 0..Len(requested)] ==
            IF i = 0 THEN r ELSE RemoveFollower(after[i - 1], l, requested[i])
    IN  after[Len(requested)]

RemoveFollowers(r, l, requested) ==
    LET removed == RemoveEach(r, l, requested)
    IN  IF removed.leader[l] = l THEN DissolveIfEmpty(removed, l) ELSE removed

\* The first member inherits the others and a copy of the follower list.
Succeed(r, a) ==
    LET members == r.members[a]
        heir == Head(members)
        rest == RemoveFirst(members, heir)
        leader == IF rest = <<>> THEN None ELSE heir
    IN  [r EXCEPT !.leader = [c \in Conn |->
                                 IF c = heir THEN leader
                                 ELSE IF Contains(members, c) THEN heir
                                 ELSE @[c]],
                  !.members[heir] = rest,
                  !.followers[heir] = RemoveFirst(r.followers[a], heir)]

QuitParty(r, a) ==
    LET l == r.leader[a] IN
    DissolveIfEmpty([r EXCEPT !.members[l] = RemoveFirst(@, a),
                              !.leader[a] = None, !.targets[a] = {}], l)

\* delFollower(): each in a copy of the list stops following whom it follows.
FreeEach(r, list) ==
    LET after[i \in 0..Len(list)] ==
            IF i = 0 THEN r ELSE StopFollowing(after[i - 1], list[i])
    IN  after[Len(list)]

Disconnect(r, a) ==
    LET party == IF r.leader[a] = None THEN r
                 ELSE IF r.leader[a] # a THEN QuitParty(r, a)
                 ELSE IF r.members[a] # <<>> THEN Succeed(r, a)
                 ELSE r
        alone == StopFollowing(party, a)
        freed == FreeEach(alone, alone.followers[a])
    IN  [freed EXCEPT !.follow[a] = None, !.followers[a] = <<>>, !.leader[a] = None,
                      !.members[a] = <<>>, !.targets[a] = {}]

SetCombatTargets(r, a, owners, targets) ==
    IF \E o \in owners : o # a /\ ~Contains(r.members[a], o) THEN r
    ELSE [r EXCEPT !.targets = [c \in Conn |-> IF c \in owners THEN targets ELSE @[c]]]

-----------------------------------------------------------------------------
Init == rel = NoRelation

\* What a script can request: a list of connections, none of them twice
\* (validated_ids), of at most MaxRequest.
Requests ==
    {list \in UNION {[1..n -> Conn] : n \in 0..MaxRequest} : IsInjective(list)}

\* apply(): one action for the token a, whatever a script has seen.
Operation(a) ==
    \/ \E t \in Conn : rel' = Follow(rel, a, t)
    \/ rel' = StopFollowing(rel, a)
    \/ rel' = LeaveParty(rel, a)
    \/ \E requested \in Requests : rel' = AddPartyMembers(rel, a, requested)
    \/ \E requested \in Requests : rel' = RemoveFollowers(rel, a, requested)
    \/ \E owners \in SUBSET Conn, targets \in SUBSET Mob :
          rel' = SetCombatTargets(rel, a, owners, targets)
    \/ rel' = Disconnect(rel, a)

Next == \E a \in Conn : Operation(a)

Spec == Init /\ [][Next]_rel

-----------------------------------------------------------------------------
\* The lists never hold a connection twice: Python's lists did not either, and
\* a removal takes out one occurrence only.
NoDuplicates ==
    \A c \in Conn : IsInjective(rel.followers[c]) /\ IsInjective(rel.members[c])

\* With the lists read as sets, every step of the code is a step of SocialGraph.
Graph == INSTANCE SocialGraph WITH
    followTarget  <- rel.follow,
    followers     <- [c \in Conn |-> ToSet(rel.followers[c])],
    partyLeader   <- rel.leader,
    partyMembers  <- [c \in Conn |-> ToSet(rel.members[c])],
    combatTargets <- rel.targets

ImplementsGraph == Graph!Spec
=============================================================================
