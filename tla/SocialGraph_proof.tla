-------------------------- MODULE SocialGraph_proof --------------------------
(***************************************************************************)
(* Proofs about SocialGraph, for every set of connections, every set of    *)
(* targets and every party size, under any sequence of operations; and     *)
(* about PartyRace, for every number of commands decided on snapshots that *)
(* are stale when they are applied, and removals at any point.             *)
(***************************************************************************)
EXTENDS PartyRace, FiniteSetTheorems, TLAPS

\* Each map holds connections (or None) for connections, whatever is applied.
LEMMA OperationTyped ==
    ASSUME TypeOK, NEW a \in Conn, Operation(a)
    PROVE  TypeOK'
<1> USE DEF TypeOK
<1>1. CASE Disconnect(a)
  BY <1>1 DEF Disconnect, PassLead, QuitParty, LeaveAlone, Unfollow, LeaderWithout
<1>2. CASE LeaveParty(a)
  BY <1>2 DEF LeaveParty, LeaderWithout
<1>3. ASSUME NEW ms \in SUBSET Conn, AddPartyMembers(a, ms) PROVE TypeOK'
  BY <1>3 DEF AddPartyMembers, Admissible
<1>4. ASSUME NEW R \in SUBSET Conn, RemoveFollowers(a, R) PROVE TypeOK'
  BY <1>4 DEF RemoveFollowers
<1>5. CASE StopFollowing(a) \/ \E t \in Conn : Follow(a, t)
  BY <1>5 DEF StopFollowing, Follow
<1>6. ASSUME NEW owners \in SUBSET Conn, NEW targets \in SUBSET Mob,
             SetCombatTargets(a, owners, targets)
      PROVE  TypeOK'
  BY <1>6 DEF SetCombatTargets
<1>7. QED
  BY <1>1, <1>2, <1>3, <1>4, <1>5, <1>6 DEF Operation

\* The type invariant of the five maps.
LEMMA SocialTyping == Spec => []TypeOK
<1>1. Init => TypeOK
  BY DEF Init, TypeOK
<1>2. TypeOK /\ [Next]_relations => TypeOK'
  <2>1. ASSUME TypeOK, UNCHANGED relations PROVE TypeOK'
    BY <2>1 DEF TypeOK, relations
  <2>2. QED
    BY <2>1, OperationTyped DEF Next
<1>3. QED
  BY <1>1, <1>2, PTL DEF Spec

-----------------------------------------------------------------------------
(* What no sequence of operations breaks.                                  *)

LEMMA NotOwnMember ==
    ASSUME TypeOK, NobodyLeadsItselfAsMember, NEW a \in Conn, Operation(a)
    PROVE  NobodyLeadsItselfAsMember'
<1> USE DEF TypeOK, NobodyLeadsItselfAsMember
<1>1. CASE Disconnect(a)
  <2>1. ASSUME NEW heir \in partyMembers[a], PassLead(a, heir)
        PROVE  NobodyLeadsItselfAsMember'
    BY <2>1 DEF PassLead
  <2>2. CASE QuitParty(a) \/ LeaveAlone(a)
    BY <2>2 DEF QuitParty, LeaveAlone
  <2>3. QED
    BY <1>1, <2>1, <2>2 DEF Disconnect
<1>2. ASSUME NEW ms \in SUBSET Conn, AddPartyMembers(a, ms)
      PROVE  NobodyLeadsItselfAsMember'
  <2>1. PICK admitted \in SUBSET Admissible(a, ms) :
          partyMembers' = [partyMembers EXCEPT ![a] = partyMembers[a] \cup admitted]
    BY <1>2 DEF AddPartyMembers
  <2>2. a \notin admitted
    BY <2>1 DEF Admissible
  <2>3. QED
    BY <2>1, <2>2
<1>3. CASE LeaveParty(a) \/ \E R \in SUBSET Conn : RemoveFollowers(a, R)
  BY <1>3 DEF LeaveParty, RemoveFollowers
<1>4. CASE UNCHANGED partyMembers
  BY <1>4
<1>5. QED
  BY <1>1, <1>2, <1>3, <1>4 DEF Operation, Follow, StopFollowing, SetCombatTargets

\* Two leaders that add each other, a member added by the command of a
\* connection that has meanwhile joined it: whatever is requested, nobody is
\* listed as a member of its own party, because add_party_members() tests the
\* token again under its lock and a succession strikes the heir from the list
\* it inherits.
THEOREM NoPartyOfItself == Spec => []NobodyLeadsItselfAsMember
<1>1. Init => NobodyLeadsItselfAsMember
  BY DEF Init, NobodyLeadsItselfAsMember
<1>2. TypeOK /\ NobodyLeadsItselfAsMember /\ [Next]_relations => NobodyLeadsItselfAsMember'
  <2>1. ASSUME NobodyLeadsItselfAsMember, UNCHANGED relations PROVE NobodyLeadsItselfAsMember'
    BY <2>1 DEF NobodyLeadsItselfAsMember, relations
  <2>2. QED
    BY <2>1, NotOwnMember DEF Next
<1>3. QED
  BY <1>1, <1>2, SocialTyping, PTL DEF Spec

(* No party grows over the limit.                                          *)

\* A party inside one that keeps the limit keeps it.
LEMMA SmallerParty ==
    ASSUME NEW S, NEW T \in SUBSET Conn, S \subseteq T, Cardinality(T) < MaxParty
    PROVE  Cardinality(S) < MaxParty
<1>1. IsFiniteSet(T)
  BY SocialAssumption, FS_Subset
<1>2. IsFiniteSet(S) /\ Cardinality(S) <= Cardinality(T)
  BY <1>1, FS_Subset
<1>3. Cardinality(S) \in Nat /\ Cardinality(T) \in Nat
  BY <1>1, <1>2, FS_CardinalityType
<1>4. QED
  BY <1>2, <1>3, SocialAssumption

\* A step after which every party is inside an earlier one keeps the limit.
LEMMA SizeInside ==
    ASSUME TypeOK, PartySizeBound,
           \A l \in Conn : \E k \in Conn : partyMembers'[l] \subseteq partyMembers[k]
    PROVE  PartySizeBound'
BY SmallerParty DEF TypeOK, PartySizeBound

\* leave_party_member() and remove_followers() only take members away.
LEMMA SizeLeaving ==
    ASSUME TypeOK, PartySizeBound, NEW a \in Conn, NEW R \in SUBSET Conn,
           LeaveParty(a) \/ RemoveFollowers(a, R)
    PROVE  PartySizeBound'
<1>1. \A l \in Conn : partyMembers'[l] \subseteq partyMembers[l]
  BY DEF LeaveParty, RemoveFollowers, TypeOK
<1>2. QED
  BY <1>1, SizeInside

\* add_party_members() counts before each member it lets in, and with nobody
\* to let in it changes no list.
LEMMA SizeAdding ==
    ASSUME TypeOK, PartySizeBound, NEW a \in Conn, NEW ms, AddPartyMembers(a, ms)
    PROVE  PartySizeBound'
<1> USE DEF TypeOK
<1>1. PICK admitted \in SUBSET Admissible(a, ms) :
        /\ admitted # {} => Cardinality(partyMembers[a] \cup admitted) < MaxParty
        /\ partyMembers' = [partyMembers EXCEPT ![a] = partyMembers[a] \cup admitted]
  BY DEF AddPartyMembers
<1>2. partyMembers[a] \cup {} = partyMembers[a]
  OBVIOUS
<1>3. Cardinality(partyMembers[a] \cup admitted) < MaxParty
  BY <1>1, <1>2 DEF PartySizeBound
<1>4. QED
  BY <1>1, <1>3 DEF PartySizeBound

\* disconnect(): the heir's party is what remains of the leader's.
LEMMA SizeDisconnecting ==
    ASSUME TypeOK, PartySizeBound, NEW a \in Conn, Disconnect(a)
    PROVE  PartySizeBound'
<1> USE DEF TypeOK
<1>1. ASSUME NEW heir \in partyMembers[a], PassLead(a, heir), NEW l \in Conn
      PROVE  partyMembers'[l] \subseteq partyMembers[l] \/ partyMembers'[l] \subseteq partyMembers[a]
  BY <1>1 DEF PassLead
<1>2. ASSUME QuitParty(a) \/ LeaveAlone(a), NEW l \in Conn
      PROVE  partyMembers'[l] \subseteq partyMembers[l]
  BY <1>2 DEF QuitParty, LeaveAlone
<1>3. \A l \in Conn : \E k \in Conn : partyMembers'[l] \subseteq partyMembers[k]
  BY <1>1, <1>2 DEF Disconnect
<1>4. QED
  BY <1>3, SizeInside

LEMMA SizeKept ==
    ASSUME TypeOK, PartySizeBound, NEW a \in Conn, Operation(a)
    PROVE  PartySizeBound'
<1>1. CASE Disconnect(a)
  BY <1>1, SizeDisconnecting
<1>2. ASSUME NEW ms \in SUBSET Conn, AddPartyMembers(a, ms) PROVE PartySizeBound'
  BY <1>2, SizeAdding
<1>3. ASSUME NEW R \in SUBSET Conn, RemoveFollowers(a, R) PROVE PartySizeBound'
  BY <1>3, SizeLeaving
<1>4. CASE LeaveParty(a)
  <2>1. {} \in SUBSET Conn
    OBVIOUS
  <2>2. QED
    BY <1>4, <2>1, SizeLeaving
<1>5. CASE UNCHANGED partyMembers
  BY <1>5 DEF PartySizeBound
<1>6. QED
  BY <1>1, <1>2, <1>3, <1>4, <1>5 DEF Operation, Follow, StopFollowing, SetCombatTargets

\* Whatever MAX_PARTY_SIZE is, no sequence of operations, however stale the
\* decisions behind them, makes a party of more connections, leader included:
\* the limit is counted where a member enters.
THEOREM PartySize == Spec => []PartySizeBound
<1>1. Init => PartySizeBound
  BY SocialAssumption, FS_EmptySet DEF Init, PartySizeBound
<1>2. TypeOK /\ PartySizeBound /\ [Next]_relations => PartySizeBound'
  <2>1. ASSUME PartySizeBound, UNCHANGED relations PROVE PartySizeBound'
    BY <2>1 DEF PartySizeBound, relations
  <2>2. QED
    BY <2>1, SizeKept DEF Next
<1>3. QED
  BY <1>1, <1>2, SocialTyping, PTL DEF Spec

-----------------------------------------------------------------------------
(* Commands and removals are sequences of operations.                      *)

\* What a waiting request holds, and that nobody is in it who never connected.
RequestsOK ==
    /\ status \in [Conn -> Status]
    /\ requested = [c \in Conn |-> requested[c]]
    /\ \A c \in Conn :
        /\ requested[c] # Nothing => status[c] # "new"
        /\ requested[c].kind = "follow" =>
             requested[c].target \in Conn /\ status[requested[c].target] # "new"
        /\ requested[c].kind \in {"add_party_members", "remove_followers"}
             => requested[c].members \in SUBSET Conn
        /\ requested[c].kind = "set_targets" =>
             requested[c].owners \in SUBSET Conn /\ requested[c].targets \in SUBSET Mob

\* A request enters with its parameters and leaves when it is applied.
LEMMA RequestsKept ==
    ASSUME RequestsOK, [RaceNext]_raceVars
    PROVE  RequestsOK'
<1> USE DEF RequestsOK
<1>1. ASSUME NEW a \in Conn, NEW action, Request(a, action), status[a] = "live",
             action.kind = "follow" => action.target \in Conn /\ status[action.target] # "new",
             action.kind \in {"add_party_members", "remove_followers"}
               => action.members \in SUBSET Conn,
             action.kind = "set_targets"
               => action.owners \in SUBSET Conn /\ action.targets \in SUBSET Mob
      PROVE  RequestsOK'
  BY <1>1 DEF Request
<1>2. ASSUME NEW a \in Conn, Decide(a) PROVE RequestsOK'
  <2>1. ASSUME NEW t \in Conn, MayFollow(a, t), Request(a, [kind |-> "follow", target |-> t])
        PROVE  RequestsOK'
    <3>1. status[a] = "live" /\ status[t] # "new"
      BY <2>1 DEF MayFollow, Live, Present
    <3>2. QED
      BY <1>1, <2>1, <3>1
  <2>2. ASSUME MayStopFollowing(a), Request(a, [kind |-> "stop_following"]) PROVE RequestsOK'
    BY <1>1, <2>2 DEF MayStopFollowing, Live
  <2>3. ASSUME MayLeaveParty(a), Request(a, [kind |-> "leave_party"]) PROVE RequestsOK'
    BY <1>1, <2>3 DEF MayLeaveParty, Live
  <2>4. ASSUME NEW ms \in SUBSET Conn, MayAddMembers(a, ms),
               Request(a, [kind |-> "add_party_members", members |-> ms])
        PROVE  RequestsOK'
    <3>1. status[a] = "live"
      BY <2>4 DEF MayAddMembers, Live
    <3>2. QED
      BY <1>1, <2>4, <3>1
  <2>5. ASSUME NEW R \in SUBSET Conn, MayRemoveFollowers(a, R),
               Request(a, [kind |-> "remove_followers", members |-> R])
        PROVE  RequestsOK'
    <3>1. status[a] = "live"
      BY <2>5 DEF MayRemoveFollowers, Live
    <3>2. QED
      BY <1>1, <2>5, <3>1
  <2>6. ASSUME NEW owners \in SUBSET Conn, NEW targets \in SUBSET Mob, MaySetTargets(a, owners),
               Request(a, [kind |-> "set_targets", owners |-> owners, targets |-> targets])
        PROVE  RequestsOK'
    <3>1. status[a] = "live"
      BY <2>6 DEF MaySetTargets, Live
    <3>2. QED
      BY <1>1, <2>6, <3>1
  <2>7. QED
    BY <1>2, <2>1, <2>2, <2>3, <2>4, <2>5, <2>6 DEF Decide
<1>3. Nothing.kind = "none"
  BY DEF Nothing
<1>4. ASSUME NEW a \in Conn, Apply(a) PROVE RequestsOK'
  <2>1. requested' = [requested EXCEPT ![a] = Nothing] /\ status' = status
    BY <1>4 DEF Apply
  <2>2. QED
    BY <1>3, <2>1
<1>5. ASSUME NEW a \in Conn, NEW s \in Status \ {"new"}, status' = [status EXCEPT ![a] = s],
             requested' = requested
      PROVE  RequestsOK'
  BY <1>5
<1>6. ASSUME NEW a \in Conn, Leave(a) PROVE RequestsOK'
  <2>1. status' = [status EXCEPT ![a] = "leaving"] /\ "leaving" \in Status \ {"new"}
    BY <1>6 DEF Leave, Status
  <2>2. CASE requested' = requested
    BY <1>5, <2>1, <2>2
  <2>3. CASE requested' = [requested EXCEPT ![a] = [kind |-> "disconnect"]]
    BY <2>1, <2>3
  <2>4. QED
    BY <1>6, <2>2, <2>3 DEF Leave
<1>7. ASSUME NEW a \in Conn, Connect(a) \/ Unmap(a) \/ CleanUp(a) PROVE RequestsOK'
  BY <1>5, <1>7 DEF Connect, Unmap, CleanUp, Status
<1>8. CASE UNCHANGED raceVars
  BY <1>8 DEF raceVars
<1>9. QED
  BY <1>2, <1>4, <1>6, <1>7, <1>8 DEF RaceNext

\* What each step of a race does to the relations.
LEMMA RaceStep ==
    ASSUME RequestsOK, [RaceNext]_raceVars
    PROVE  \/ \E a \in Conn : Apply(a) \/ CleanUp(a)
           \/ UNCHANGED relations
<1>1. ASSUME NEW a \in Conn, Decide(a) PROVE UNCHANGED relations
  BY <1>1 DEF Decide, Request
<1>2. ASSUME NEW a \in Conn, Connect(a) \/ Leave(a) \/ Unmap(a) PROVE UNCHANGED relations
  BY <1>2 DEF Connect, Leave, Unmap
<1>3. QED
  BY <1>1, <1>2 DEF RaceNext, raceVars

LEMMA AppliedIsOperation ==
    ASSUME RequestsOK, NEW a \in Conn, Apply(a) \/ CleanUp(a)
    PROVE  Operation(a) \/ UNCHANGED relations
<1>1. CASE CleanUp(a)
  BY <1>1 DEF CleanUp, Operation
<1>2. CASE Apply(a)
  BY <1>2 DEF Apply, Perform, RequestsOK, Operation
<1>3. QED
  BY <1>1, <1>2

\* Whatever is decided when, and whoever is removed meanwhile: to the maps a
\* race is a sequence of operations of SocialState, so what holds under every
\* such sequence (PartySize, NoPartyOfItself) holds of every race.
THEOREM RacesAreOperations == RaceSpec => Spec
<1>1. RaceInit => Init /\ RequestsOK
  BY DEF RaceInit, RequestsOK, Status, Nothing
<1>2. RequestsOK /\ [RaceNext]_raceVars => RequestsOK' /\ [Next]_relations
  BY RequestsKept, RaceStep, AppliedIsOperation DEF Next
<1>3. QED
  BY <1>1, <1>2, PTL DEF RaceSpec, Spec

LEMMA RaceTyping == RaceSpec => [](TypeOK /\ RequestsOK)
<1>1. RaceInit => RequestsOK
  BY DEF RaceInit, RequestsOK, Status, Nothing
<1>2. RequestsOK /\ [RaceNext]_raceVars => RequestsOK'
  BY RequestsKept
<1>3. QED
  BY <1>1, <1>2, RacesAreOperations, SocialTyping, PTL DEF RaceSpec

-----------------------------------------------------------------------------
(* Which operations keep the two copies of the party relation.             *)

LEMMA DisconnectAgrees ==
    ASSUME TypeOK, PartyAgrees, NEW a \in Conn, Disconnect(a)
    PROVE  PartyAgrees'
<1> USE SocialAssumption DEF TypeOK, PartyAgrees
<1>1. ASSUME NEW heir \in partyMembers[a], PassLead(a, heir) PROVE PartyAgrees'
  <2>1. partyMembers[heir] = {} /\ heir # a /\ heir \in Conn
    BY <1>1 DEF PassLead
  <2>2. QED
    BY <1>1, <2>1 DEF PassLead
<1>2. CASE QuitParty(a)
  BY <1>2 DEF QuitParty, LeaderWithout
<1>3. CASE LeaveAlone(a)
  BY <1>3 DEF LeaveAlone
<1>4. QED
  BY <1>1, <1>2, <1>3 DEF Disconnect

LEMMA LeavingAgrees ==
    ASSUME TypeOK, PartyAgrees, NEW a \in Conn, LeaveParty(a)
    PROVE  PartyAgrees'
BY SocialAssumption DEF TypeOK, PartyAgrees, LeaveParty, LeaderWithout

LEMMA RemovingAgrees ==
    ASSUME TypeOK, PartyAgrees, NEW a \in Conn, NEW R \in SUBSET Conn, RemoveFollowers(a, R)
    PROVE  PartyAgrees'
BY SocialAssumption DEF TypeOK, PartyAgrees, RemoveFollowers

\* An addition does if its leader is free or leads when it is applied.
LEMMA AddingAgrees ==
    ASSUME TypeOK, PartyAgrees, NEW a \in Conn, NEW ms \in SUBSET Conn, AddPartyMembers(a, ms),
           partyLeader[a] \in {None, a}
    PROVE  PartyAgrees'
<1> USE SocialAssumption DEF TypeOK, PartyAgrees
<1>1. PICK admitted \in SUBSET Admissible(a, ms) :
        /\ partyLeader' =
              [c \in Conn |-> IF c \in admitted \cup {a} THEN a ELSE partyLeader[c]]
        /\ partyMembers' = [partyMembers EXCEPT ![a] = partyMembers[a] \cup admitted]
  BY DEF AddPartyMembers
<1>2. \A m \in admitted : m \in Conn /\ m # a /\ partyLeader[m] = None
  BY DEF Admissible
<1>3. QED
  BY <1>1, <1>2

LEMMA AppliedAgrees ==
    ASSUME TypeOK, RequestsOK, PartyAgrees, NEW a \in Conn, Apply(a), ~TakenInMeanwhile(a)
    PROVE  PartyAgrees'
<1>1. ASSUME UNCHANGED <<partyLeader, partyMembers>> PROVE PartyAgrees'
  BY <1>1 DEF PartyAgrees
<1>2. CASE requested[a].kind = "add_party_members" /\ AddPartyMembers(a, requested[a].members)
  <2>1. requested[a].members \in SUBSET Conn /\ partyLeader[a] \in {None, a}
    BY <1>2 DEF RequestsOK, TakenInMeanwhile
  <2>2. QED
    BY <1>2, <2>1, AddingAgrees
<1>3. CASE requested[a].kind = "remove_followers" /\ RemoveFollowers(a, requested[a].members)
  <2>1. requested[a].members \in SUBSET Conn
    BY <1>3 DEF RequestsOK
  <2>2. QED
    BY <1>3, <2>1, RemovingAgrees
<1>4. CASE LeaveParty(a)
  BY <1>4, LeavingAgrees
<1>5. CASE Disconnect(a)
  BY <1>5, DisconnectAgrees
<1>6. QED
  BY <1>1, <1>2, <1>3, <1>4, <1>5
  DEF Apply, Perform, Follow, StopFollowing, SetCombatTargets, relations

\* For any number of connections and waiting commands, the member lists and
\* the leader pointers part only when a 무리 is applied whose actor another
\* party has taken in since it was decided.
THEOREM OnlyLateAdditionsDisagree == RaceSpec => AgreementLostOnlyLate
<1>1. ASSUME TypeOK, RequestsOK, PartyAgrees, [RaceNext]_raceVars, ~PartyAgrees'
      PROVE  \E a \in Conn : TakenInMeanwhile(a) /\ Applies(a)
  <2>1. CASE UNCHANGED relations
    BY <1>1, <2>1 DEF PartyAgrees, relations
  <2>2. ASSUME NEW a \in Conn, CleanUp(a) PROVE PartyAgrees'
    BY <1>1, <2>2, DisconnectAgrees DEF CleanUp
  <2>3. ASSUME NEW a \in Conn, Apply(a) PROVE TakenInMeanwhile(a) /\ Applies(a)
    <3>1. TakenInMeanwhile(a)
      BY <1>1, <2>3, AppliedAgrees
    <3>2. Applies(a)
      BY <1>1, <2>3 DEF Apply, Applies, RequestsOK
    <3>3. QED
      BY <3>1, <3>2
  <2>4. QED
    BY <1>1, <2>1, <2>2, <2>3, RaceStep
<1>2. QED
  BY <1>1, RaceTyping, PTL DEF RaceSpec, AgreementLostOnlyLate

-----------------------------------------------------------------------------
(* Who is gone stays without relations.                                    *)

\* Nobody in gone has a key in any map.
Clear(gone) == \A c \in gone : NoRelations(c)

\* disconnect() clears its actor and brings nobody else back.
LEMMA DisconnectClears ==
    ASSUME TypeOK, PartyAgrees, NEW gone \in SUBSET Conn, Clear(gone),
           NEW a \in Conn, Disconnect(a)
    PROVE  Clear(gone \cup {a})'
<1> USE SocialAssumption DEF TypeOK, Clear, NoRelations
<1> DEFINE G == gone \cup {a}
<1>1. ASSUME NEW lists \in [Conn -> SUBSET Conn], Unfollow(a, lists),
             NEW c \in G, c # a => lists[c] = {}
      PROVE  followTarget'[c] = None /\ followers'[c] = {}
  BY <1>1 DEF Unfollow
<1>2. ASSUME NEW heir \in partyMembers[a], PassLead(a, heir) PROVE Clear(G)'
  <2>1. heir # a /\ heir \in Conn /\ heir \notin gone
    BY <1>2 DEF PartyAgrees
  <2> DEFINE lists == [followers EXCEPT ![heir] = followers[a] \ {heir}]
  <2>2. lists \in [Conn -> SUBSET Conn]
    BY <2>1
  <2>3. \A c \in G : followTarget'[c] = None /\ followers'[c] = {}
    <3>1. Unfollow(a, lists)
      BY <1>2 DEF PassLead
    <3>2. \A c \in G : c # a => lists[c] = {}
      BY <2>1
    <3> HIDE DEF lists
    <3>3. QED
      BY <1>1, <2>2, <3>1, <3>2
  <2>4. \A c \in G : partyLeader'[c] = None /\ partyMembers'[c] = {} /\ combatTargets'[c] = {}
    BY <1>2, <2>1 DEF PassLead, PartyAgrees, Disconnect
  <2>5. QED
    BY <2>3, <2>4
<1>3. CASE QuitParty(a) \/ LeaveAlone(a)
  <2>1. \A c \in G : followTarget'[c] = None /\ followers'[c] = {}
    BY <1>1, <1>3 DEF QuitParty, LeaveAlone
  <2>2. \A c \in G : partyLeader'[c] = None /\ partyMembers'[c] = {} /\ combatTargets'[c] = {}
    BY <1>3 DEF QuitParty, LeaveAlone, LeaderWithout, PartyAgrees, Disconnect
  <2>3. QED
    BY <2>1, <2>2
<1>4. QED
  BY <1>2, <1>3 DEF Disconnect

\* The other operations bring nobody back either, if their actor is there and,
\* for a follow, the one followed.
LEMMA AppliedClears ==
    ASSUME TypeOK, RequestsOK, PartyAgrees, NEW gone \in SUBSET Conn, Clear(gone),
           NEW a \in Conn \ gone, Apply(a),
           requested[a].kind = "follow" => requested[a].target \notin gone
    PROVE  Clear(gone)'
<1> USE SocialAssumption DEF TypeOK, Clear, NoRelations
<1> DEFINE action == requested[a]
<1>1. CASE action.kind = "follow" /\ Follow(a, action.target)
  BY <1>1 DEF Follow
<1>2. CASE StopFollowing(a)
  BY <1>2 DEF StopFollowing
<1>3. CASE LeaveParty(a)
  BY <1>3 DEF LeaveParty, LeaderWithout
<1>4. ASSUME NEW ms \in SUBSET Conn, AddPartyMembers(a, ms) PROVE Clear(gone)'
  <2>1. PICK admitted \in SUBSET Admissible(a, ms) :
          /\ partyLeader' =
                [c \in Conn |-> IF c \in admitted \cup {a} THEN a ELSE partyLeader[c]]
          /\ partyMembers' = [partyMembers EXCEPT ![a] = partyMembers[a] \cup admitted]
          /\ UNCHANGED <<followTarget, followers, combatTargets>>
    BY <1>4 DEF AddPartyMembers
  <2>2. admitted \cap gone = {}
    BY DEF Admissible
  <2>3. QED
    BY <2>1, <2>2
<1>5. ASSUME NEW R \in SUBSET Conn, RemoveFollowers(a, R) PROVE Clear(gone)'
  BY <1>5 DEF RemoveFollowers
<1>6. ASSUME NEW owners \in SUBSET Conn, NEW targets \in SUBSET Mob,
             SetCombatTargets(a, owners, targets)
      PROVE  Clear(gone)'
  <2>1. partyMembers[a] \cap gone = {}
    BY DEF PartyAgrees
  <2>2. QED
    BY <1>6, <2>1 DEF SetCombatTargets
<1>7. CASE Disconnect(a)
  BY <1>7, DisconnectClears
<1>8. CASE UNCHANGED relations
  BY <1>8 DEF relations
<1>9. QED
  BY <1>1, <1>2, <1>3, <1>4, <1>5, <1>6, <1>7, <1>8 DEF Apply, Perform, RequestsOK

\* For any number of connections: a token that was cleaned up has a key again
\* only after a request decided before, by itself or to follow it.
THEOREM OnlyLateRequestsReturn == RaceSpec => RelationsReturnOnlyLate
<1> DEFINE Absent == {c \in Conn : status[c] \in {"new", "gone"}}
<1>1. AbsentHasNoRelations <=> Clear(Absent)
  BY DEF AbsentHasNoRelations, Clear
<1>2. AbsentHasNoRelations' <=> Clear(Absent)'
  BY DEF AbsentHasNoRelations, Clear, NoRelations
<1>3. ASSUME TypeOK, RequestsOK, PartyAgrees, Clear(Absent), [RaceNext]_raceVars,
             ~ \E a \in Conn : OutlivesItsSubject(a) /\ Applies(a)
      PROVE  Clear(Absent)'
  <2> PICK gone \in SUBSET Conn : gone = Absent
    OBVIOUS
  <2>1. ASSUME NEW a \in Conn, CleanUp(a) PROVE Clear(Absent)'
    <3>1. Clear(gone) /\ Disconnect(a)
      BY <1>3, <2>1 DEF CleanUp
    <3>2. Clear(gone \cup {a})'
      BY <1>3, <3>1, DisconnectClears
    <3>3. Absent' \subseteq gone \cup {a}
      BY <1>3, <2>1 DEF CleanUp, RequestsOK
    <3>4. QED
      BY <3>2, <3>3 DEF Clear
  <2>2. ASSUME NEW a \in Conn, Apply(a) PROVE Clear(Absent)'
    <3>1. Applies(a) /\ ~OutlivesItsSubject(a)
      BY <1>3, <2>2 DEF Apply, Applies, RequestsOK
    <3>2. a \in Conn \ gone /\ (requested[a].kind = "follow" => requested[a].target \notin gone)
      BY <1>3, <2>2, <3>1 DEF OutlivesItsSubject, RequestsOK, Apply, Idle
    <3>3. Clear(gone)
      BY <1>3
    <3>4. Clear(gone)'
      BY <1>3, <2>2, <3>2, <3>3, AppliedClears
    <3>5. Absent' = gone
      BY <2>2 DEF Apply
    <3>6. QED
      BY <3>4, <3>5 DEF Clear
  <2>3. ASSUME UNCHANGED relations, Absent' \subseteq Absent PROVE Clear(Absent)'
    BY <1>3, <2>3 DEF Clear, NoRelations, relations
  <2>4. ASSUME NEW a \in Conn, Connect(a) \/ Decide(a) \/ Leave(a) \/ Unmap(a)
        PROVE  Clear(Absent)'
    <3>1. UNCHANGED relations
      BY <2>4 DEF Connect, Decide, Request, Leave, Unmap
    <3>2. Absent' \subseteq Absent
      BY <1>3, <2>4 DEF Connect, Decide, Request, Leave, Unmap, RequestsOK
    <3>3. QED
      BY <2>3, <3>1, <3>2
  <2>5. CASE UNCHANGED raceVars
    BY <2>3, <2>5 DEF raceVars
  <2>6. QED
    BY <1>3, <2>1, <2>2, <2>4, <2>5 DEF RaceNext
<1> HIDE DEF Absent
<1>4. TypeOK /\ RequestsOK /\ [RaceNext]_raceVars
        => [(PartyAgrees /\ AbsentHasNoRelations /\ ~AbsentHasNoRelations')
              => \E a \in Conn : OutlivesItsSubject(a) /\ Applies(a)]_raceVars
  BY <1>1, <1>2, <1>3
<1>5. QED
  BY <1>4, RaceTyping, PTL DEF RaceSpec, RelationsReturnOnlyLate

-----------------------------------------------------------------------------
\* The succession never splits a party whose copies agree: whoever the heir is
\* and whatever waits to be applied, all who stay have the same leader.
THEOREM SuccessionTogether == RaceSpec => SuccessionKeepsParty
<1>1. ASSUME TypeOK, RequestsOK, PartyAgrees, [RaceNext]_raceVars,
             NEW x \in Conn, NEW y \in Conn, NEW d \in Conn \ {x, y}, Departs(d),
             partyLeader[x] # None, partyLeader[x] = partyLeader[y]
      PROVE  partyLeader'[x] = partyLeader'[y]
  <2>1. Disconnect(d) \/ UNCHANGED relations
    <3>1. ASSUME NEW a \in Conn, Apply(a) PROVE Disconnect(d)
      <4>1. requested' = [requested EXCEPT ![a] = Nothing] /\ status' = status
        BY <3>1 DEF Apply
      <4>2. requested[d].kind = "disconnect" /\ d = a
        BY <1>1, <4>1 DEF Departs, Applies, Idle, RequestsOK
      <4>3. QED
        BY <3>1, <4>2 DEF Apply, Perform
    <3>2. ASSUME NEW a \in Conn, CleanUp(a) PROVE Disconnect(d)
      <4>1. status' = [status EXCEPT ![a] = "gone"] /\ requested' = requested
        BY <3>2 DEF CleanUp
      <4>2. d = a
        BY <1>1, <4>1 DEF Departs, Applies, Idle, RequestsOK
      <4>3. QED
        BY <3>2, <4>2 DEF CleanUp
    <3>3. QED
      BY <1>1, <3>1, <3>2, RaceStep
  <2>2. CASE UNCHANGED relations
    BY <1>1, <2>2 DEF relations
  <2>3. CASE Disconnect(d)
    <3> USE SocialAssumption DEF TypeOK, PartyAgrees
    <3>1. ASSUME NEW heir \in partyMembers[d], PassLead(d, heir)
          PROVE  partyLeader'[x] = partyLeader'[y]
      BY <1>1, <3>1 DEF PassLead
    <3>2. CASE QuitParty(d)
      BY <1>1, <3>2 DEF QuitParty, LeaderWithout
    <3>3. CASE LeaveAlone(d)
      BY <1>1, <3>3 DEF LeaveAlone
    <3>4. QED
      BY <2>3, <3>1, <3>2, <3>3 DEF Disconnect
  <2>4. QED
    BY <2>1, <2>2, <2>3
<1>2. TypeOK /\ RequestsOK /\ [RaceNext]_raceVars
        => [PartyAgrees => \A x, y \in Conn : StayTogether(x, y)]_raceVars
  BY <1>1 DEF StayTogether
<1>3. QED
  BY <1>2, RaceTyping, PTL DEF RaceSpec, SuccessionKeepsParty
=============================================================================
