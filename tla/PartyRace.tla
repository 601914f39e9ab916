----------------------------- MODULE PartyRace -----------------------------
(***************************************************************************)
(* The party commands of several connections, and their logouts, over the  *)
(* operations of SocialState.  A command's script decides on a snapshot of *)
(* the relations (client.rs, install_party_context); the action it         *)
(* requests is applied after the client lock is released                   *)
(* (apply_party_requests), when other tasks may have applied theirs, and   *)
(* whatever has become of its actor.  A removed client is unmapped under   *)
(* one lock and its relations are cleared under another.                   *)
(***************************************************************************)
EXTENDS SocialGraph

CONSTANT MaxCommands    \* a bound: the commands decided in one behaviour

VARIABLES
    status,     \* where the connection is in its life
    requested,  \* the action a connection's task has decided and not applied
    decided     \* how many commands were decided

raceVars == <<status, relations, requested, decided>>

Status == {"new", "live", "leaving", "unmapped", "gone"}

Nothing == [kind |-> "none"]

RaceInit ==
    /\ Init
    /\ status = [c \in Conn |-> "new"]
    /\ requested = [c \in Conn |-> Nothing]
    /\ decided = 0

Live == {c \in Conn : status[c] = "live"}

\* A connection the broadcaster still maps: others can find it in the room.
Present == {c \in Conn : status[c] \in {"live", "leaving"}}

Idle(a) == requested[a] = Nothing

-----------------------------------------------------------------------------
(* What each script decides from the relations it sees.                    *)

MayFollow(a, t)          == a \in Live /\ t \in Present
MayStopFollowing(a)      == a \in Live /\ partyLeader[a] = None /\ followTarget[a] # None
MayLeaveParty(a)         == a \in Live /\ partyLeader[a] \notin {None, a}
MayAddMembers(l, ms)     == /\ l \in Live /\ partyLeader[l] \in {None, l}
                            /\ ms \subseteq Admissible(l, followers[l]) \cap Present
                            /\ ms # {} => Cardinality(partyMembers[l]) + Cardinality(ms) < MaxParty
MayRemoveFollowers(l, R) == l \in Live /\ R \subseteq followers[l] /\ R # {}
MaySetTargets(a, owners) == a \in Live /\ partyLeader[a] = a /\ owners \subseteq {a} \cup partyMembers[a]

\* store_action()
Request(a, action) ==
    /\ Idle(a)
    /\ decided < MaxCommands
    /\ decided' = decided + 1
    /\ requested' = [requested EXCEPT ![a] = action]
    /\ UNCHANGED <<status, relations>>

\* 따라, 무리, 무리제외, comm, 무리합, 방어지정: the action the script chose.
Decide(a) ==
    \/ \E t \in Conn : MayFollow(a, t) /\ Request(a, [kind |-> "follow", target |-> t])
    \/ MayStopFollowing(a) /\ Request(a, [kind |-> "stop_following"])
    \/ MayLeaveParty(a) /\ Request(a, [kind |-> "leave_party"])
    \/ \E ms \in SUBSET Conn :
         MayAddMembers(a, ms) /\ Request(a, [kind |-> "add_party_members", members |-> ms])
    \/ \E R \in SUBSET Conn :
         MayRemoveFollowers(a, R) /\ Request(a, [kind |-> "remove_followers", members |-> R])
    \/ \E owners \in SUBSET Conn, targets \in SUBSET Mob :
         /\ MaySetTargets(a, owners)
         /\ Request(a, [kind |-> "set_targets", owners |-> owners, targets |-> targets])

\* apply_social_action(): nothing is checked again but what the operation checks.
Perform(a, action) ==
    \/ action.kind = "follow" /\ Follow(a, action.target)
    \/ action.kind = "stop_following" /\ StopFollowing(a)
    \/ action.kind = "leave_party" /\ LeaveParty(a)
    \/ action.kind = "leave_party" /\ partyLeader[a] \in {None, a} /\ UNCHANGED relations
    \/ action.kind = "add_party_members" /\ AddPartyMembers(a, action.members)
    \/ action.kind = "remove_followers" /\ RemoveFollowers(a, action.members)
    \/ action.kind = "set_targets" /\ SetCombatTargets(a, action.owners, action.targets)
    \/ action.kind = "disconnect" /\ Disconnect(a)

Apply(a) ==
    /\ ~Idle(a)
    /\ Perform(a, requested[a])
    /\ requested' = [requested EXCEPT ![a] = Nothing]
    /\ UNCHANGED <<status, decided>>

-----------------------------------------------------------------------------
(* A connection's life.                                                    *)

Connect(a) ==
    /\ status[a] = "new"
    /\ status' = [status EXCEPT ![a] = "live"]
    /\ UNCHANGED <<relations, requested, decided>>

\* has_relations()
NoRelations(c) ==
    /\ followTarget[c] = None
    /\ followers[c] = {}
    /\ partyLeader[c] = None
    /\ partyMembers[c] = {}
    /\ combatTargets[c] = {}

\* leave_party_on_disconnect(): the task logs out between two commands, and
\* has a Disconnect to apply if it saw relations.  It stays mapped meanwhile.
Leave(a) ==
    /\ status[a] = "live" /\ Idle(a)
    /\ status' = [status EXCEPT ![a] = "leaving"]
    /\ requested' =
         IF NoRelations(a) THEN requested
         ELSE [requested EXCEPT ![a] = [kind |-> "disconnect"]]
    /\ UNCHANGED <<relations, decided>>

\* remove_client(), by the task itself or by any whose send to it failed: the
\* client leaves the map under one lock ...
Unmap(a) ==
    /\ a \in Present
    /\ status' = [status EXCEPT ![a] = "unmapped"]
    /\ UNCHANGED <<relations, requested, decided>>

\* ... and its relations are cleared under another.
CleanUp(a) ==
    /\ status[a] = "unmapped"
    /\ status' = [status EXCEPT ![a] = "gone"]
    /\ Disconnect(a)
    /\ UNCHANGED <<requested, decided>>

RaceNext ==
    \E a \in Conn : Connect(a) \/ Decide(a) \/ Apply(a) \/ Leave(a) \/ Unmap(a) \/ CleanUp(a)

RaceSpec == RaceInit /\ [][RaceNext]_raceVars

-----------------------------------------------------------------------------
(* Properties                                                              *)

\* The leader's member list and the members' leader pointers are two copies of
\* one relation: m is listed by l exactly when m points to l, and whoever
\* lists a member leads.
PartyAgrees ==
    /\ \A l, m \in Conn : m \in partyMembers[l] <=> (partyLeader[m] = l /\ m # l)
    /\ \A m \in Conn : partyLeader[m] # None => partyLeader[partyLeader[m]] = partyLeader[m]

\* The step in which a applies what it requested.
Applies(a) == ~Idle(a) /\ requested'[a] = Nothing

\* a asked for members when it led or was free, and has become a member of
\* another party since.
TakenInMeanwhile(a) ==
    requested[a].kind = "add_party_members" /\ partyLeader[a] \notin {None, a}

\* The two copies may part in one way only, although every command is applied
\* to relations its script has not seen: by the 무리 of a connection that
\* another party has taken in since it was decided.  Late departures,
\* expulsions, successions and logouts all edit both copies.
AgreementLostOnlyLate ==
    [][PartyAgrees /\ ~PartyAgrees' => \E a \in Conn : TakenInMeanwhile(a) /\ Applies(a)]_raceVars

\* Before login and after its cleanup a token has no key in any map.
AbsentHasNoRelations ==
    \A c \in Conn : status[c] \in {"new", "gone"} => NoRelations(c)

\* a applies a request after its own cleanup, or follows somebody cleaned up.
OutlivesItsSubject(a) ==
    status[a] = "gone"
    \/ (requested[a].kind = "follow" /\ status[requested[a].target] = "gone")

\* A token that was cleaned up gets no key again, except by a request that was
\* decided before the cleanup and names it as actor or as the followed one; a
\* late addition, expulsion, order to fight or succession brings nobody back.
RelationsReturnOnlyLate ==
    [][(PartyAgrees /\ AbsentHasNoRelations /\ ~AbsentHasNoRelations')
         => \E a \in Conn : OutlivesItsSubject(a) /\ Applies(a)]_raceVars

\* a's Disconnect is applied, by its logout or by its cleanup.
Departs(a) ==
    \/ requested[a].kind = "disconnect" /\ Applies(a)
    \/ status[a] = "unmapped" /\ status'[a] = "gone"

\* Two connections that share a leader and stay when somebody departs share
\* one afterwards, or are both without party.
StayTogether(x, y) ==
    (/\ \E a \in Conn \ {x, y} : Departs(a)
     /\ partyLeader[x] # None /\ partyLeader[x] = partyLeader[y])
    => partyLeader'[x] = partyLeader'[y]

\* A departure never splits a party whose two copies agree, at whatever point
\* of the other connections' commands it comes.
SuccessionKeepsParty == [][PartyAgrees => \A x, y \in Conn : StayTogether(x, y)]_raceVars

\* "leaders map to themselves" (social.rs, party_leader): whoever is somebody's
\* leader has itself as leader.
LeadersMapToThemselves ==
    \A m \in Conn : partyLeader[m] # None => partyLeader[partyLeader[m]] = partyLeader[m]
=============================================================================
