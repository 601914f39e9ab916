-------------------------------- MODULE Soul --------------------------------
(***************************************************************************)
(* Souls: one connection that owns several characters.                     *)
(*                                                                         *)
(* Client.soul lists the characters (bodies) of a connection; one of them  *)
(* is Client.player, the others stand in the world as summoned users       *)
(* without a socket.  They are made at login and by an attach, change      *)
(* places with the active one by a switch, follow it when it walks, are    *)
(* gathered by every tick, and are taken out when the connection ends.     *)
(*                                                                         *)
(* A command and a cleanup take the lock of the clients and the lock of    *)
(* the world one after the other; each section is an action here.  What a  *)
(* body carries is left out, and so is a file that cannot be read.  The    *)
(* party of a client (SocialGraph) is a number the attach is given.        *)
(***************************************************************************)
EXTENDS Naturals, Sequences, FiniteSets, SequencesExt

CONSTANTS Conn,        \* connections, reused when their cleanup is over
          Names,       \* characters
          Mains,       \* those somebody logs in as
          Rooms,
          Saved,       \* the companions of a main in its soul file so far
          Start,       \* the room a login leads to
          MaxParty,    \* MAX_PARTY_SIZE, also MAX_SOUL_BODIES
          NoName, NoRoom, NoConn

ASSUME SoulAssumption ==
  /\ NoName \notin Names /\ NoRoom \notin Rooms /\ NoConn \notin Conn
  /\ IsFiniteSet(Conn)
  /\ Mains \subseteq Names /\ Start \in Rooms
  /\ Saved \in [Mains -> SUBSET Names]
  /\ MaxParty \in Nat

VARIABLES
  player,              \* the active body of a client
  main,                \* Soul.main_body
  members,             \* Soul.members, the active one among them
  roster,              \* data/soul/<main>.json
  standing,            \* summoned_users: where the bodies of a name stand
  pos,                 \* player_positions
  bound,               \* player_clients: name -> connection
  former,              \* the name a client has still to give up in bound
  attach,              \* an attach that was checked: the character
  march,               \* companions that still follow their walker
  over,                \* a removed client whose bodies are still in the world
  anchors              \* soul_formation_anchors of the running tick

soul   == <<player, main, members, roster>>
world  == <<standing, pos>>
index  == <<bound, former>>
rest   == <<attach, march, over, anchors>>
vars   == <<soul, world, index, rest>>

NoMarch  == [names |-> {}, room |-> NoRoom]
NotOver  == [name |-> NoName, names |-> {}]

TypeOK ==
  /\ player \in [Conn -> Names \cup {NoName}]
  /\ main \in [Conn -> Mains \cup {NoName}]
  /\ members \in [Conn -> SUBSET Names]
  /\ roster \in [Mains -> SUBSET Names]
  /\ standing \in [Names -> Seq(Rooms)]
  /\ pos \in [Names -> Rooms \cup {NoRoom}]
  /\ bound \in [Names -> Conn \cup {NoConn}]
  /\ former \in [Conn -> Names \cup {NoName}]
  /\ attach \in [Conn -> Names \cup {NoName}]
  /\ march \in [Conn -> [names : SUBSET Names, room : Rooms \cup {NoRoom}]]
  /\ over \in [Conn -> [name : Names \cup {NoName}, names : SUBSET Names]]
  /\ anchors \subseteq [active : Names, main : Mains, names : SUBSET Names]

Init ==
  /\ player = [c \in Conn |-> NoName]
  /\ main = [c \in Conn |-> NoName]
  /\ members = [c \in Conn |-> {}]
  /\ roster = [n \in Mains |-> Saved[n] \cup {n}]
  /\ standing = [n \in Names |-> <<>>]
  /\ pos = [n \in Names |-> NoRoom]
  /\ bound = [n \in Names |-> NoConn]
  /\ former = [c \in Conn |-> NoName]
  /\ attach = [c \in Conn |-> NoName]
  /\ march = [c \in Conn |-> NoMarch]
  /\ over = [c \in Conn |-> NotOver]
  /\ anchors = {}

-----------------------------------------------------------------------------
(* Helpers *)

Playing(c)    == player[c] # NoName
Active(n)     == \E c \in Conn : player[c] = n
Stands(n)     == standing[n] # <<>>
Inactive(c)   == members[c] \ {player[c]}
Formation(c)  == [active |-> player[c], main |-> main[c], names |-> Inactive(c)]

(* The command of a client is over when all its sections are. *)
Ready(c) == Playing(c) /\ former[c] = NoName /\ attach[c] = NoName
                       /\ march[c] = NoMarch

(* move_summoned_users_to moves every body that has one of the names. *)
Moved(st, S, r) == [n \in Names |->
  IF n \in S THEN [i \in DOMAIN st[n] |-> r] ELSE st[n]]

(* find_addr_by_player_name *)
Find(n) == IF bound[n] # NoConn /\ player[bound[n]] = n THEN bound[n] ELSE NoConn

-----------------------------------------------------------------------------
(* Login *)

(* restore_soul_companions: those of the roster that neither play nor      *)
(* stand are loaded and placed beside the main character.                  *)
Restored(n, S) ==
  [m \in Names |-> IF m \in S \ {n} /\ pos[m] = NoRoom /\ ~Stands(m)
                   THEN Append(standing[m], Start) ELSE standing[m]]

(* A login as n: refused (kick or no) while n is the active body of a      *)
(* client; a standing n is not looked for.                                 *)
Login(c, n) ==
  /\ ~Playing(c) /\ over[c] = NotOver /\ march[c] = NoMarch
  /\ ~Active(n)
  /\ player' = [player EXCEPT ![c] = n]
  /\ main' = [main EXCEPT ![c] = n]
  /\ members' = [members EXCEPT ![c] = roster[n]]
  /\ pos' = [pos EXCEPT ![n] = Start]
  /\ standing' = Restored(n, roster[n])
  /\ former' = [former EXCEPT ![c] = n]
  /\ UNCHANGED <<roster, bound, rest>>

(* bind_player_name, rebind_active_body_name: after the lock was given     *)
(* back the name index follows the client.                                 *)
Rebind(c) ==
  /\ former[c] # NoName
  /\ LET freed == IF bound[former[c]] = c
                  THEN [bound EXCEPT ![former[c]] = NoConn] ELSE bound
     IN bound' = IF Playing(c) THEN [freed EXCEPT ![player[c]] = c] ELSE freed
  /\ former' = [former EXCEPT ![c] = NoName]
  /\ UNCHANGED <<soul, world, rest>>

-----------------------------------------------------------------------------
(* Attach *)

(* The target is no active body.  (A request for a member of the soul, which *)
(* comes to nothing, is left out.)                                          *)
AttachCheck(c, n) ==
  /\ Ready(c) /\ ~Active(n) /\ n \notin members[c]
  /\ attach' = [attach EXCEPT ![c] = n]
  /\ UNCHANGED <<soul, world, index, march, over, anchors>>

(* (mutant) The character is summoned before the roster accepts it. *)
AttachAdd_SummonFirst(c) ==
  /\ attach[c] # NoName
  /\ attach' = [attach EXCEPT ![c] = NoName]
  /\ \E size \in 0..(MaxParty - 1) :
     LET n == attach[c]
         room == IF Playing(c) THEN pos[player[c]] ELSE NoRoom
         joins == /\ room # NoRoom
                  /\ Cardinality(members[c]) + size < MaxParty
     IN /\ members' = IF joins THEN [members EXCEPT ![c] = @ \cup {n}] ELSE members
        /\ roster' = IF joins THEN [roster EXCEPT ![main[c]] = members'[c]] ELSE roster
        /\ standing' = IF room # NoRoom
                       THEN [standing EXCEPT ![n] = Append(@, room)] ELSE standing
  /\ UNCHANGED <<player, main, pos, index, march, over, anchors>>

(* Under the lock: a place in the soul and in the party must be left, then *)
(* the loaded body is summoned beside the active one.                      *)
AttachAdd(c) ==
  /\ attach[c] # NoName
  /\ attach' = [attach EXCEPT ![c] = NoName]
  /\ \E size \in 0..(MaxParty - 1) :
     LET n == attach[c]
         room == IF Playing(c) THEN pos[player[c]] ELSE NoRoom
         joins == /\ room # NoRoom
                  /\ Cardinality(members[c]) + size < MaxParty
     IN /\ members' = IF joins THEN [members EXCEPT ![c] = @ \cup {n}] ELSE members
        /\ roster' = IF joins THEN [roster EXCEPT ![main[c]] = members'[c]] ELSE roster
        /\ standing' = IF joins THEN [standing EXCEPT ![n] = Append(@, room)] ELSE standing
  /\ UNCHANGED <<player, main, pos, index, march, over, anchors>>

-----------------------------------------------------------------------------
(* Switch *)

(* Where the switch takes place: a position that is lost is taken from the *)
(* body that becomes active.                                               *)
SwitchRoom(old, n) == IF pos[old] # NoRoom THEN pos[old] ELSE Head(standing[n])

(* (mutant) The position of the former body is kept. *)
Places_Kept(old, n, anchor) == [pos EXCEPT ![n] = anchor]

(* The position goes over to the body that becomes active. *)
Places(old, n, anchor) == [pos EXCEPT ![old] = NoRoom, ![n] = anchor]

(* switch_client_soul_body: the first body of that name in the world is    *)
(* taken, the active one is saved and left in its place.                   *)
Switch(c, n) ==
  /\ Ready(c) /\ n \in Inactive(c) /\ Stands(n)
  /\ LET old == player[c]
         anchor == SwitchRoom(old, n)
         swapped == [standing EXCEPT ![n] = Tail(@), ![old] = Append(@, anchor)]
     IN /\ standing' = Moved(swapped, members[c] \ {old}, anchor)
        /\ pos' = Places(old, n, anchor)
        /\ former' = [former EXCEPT ![c] = old]
  /\ player' = [player EXCEPT ![c] = n]
  /\ roster' = [roster EXCEPT ![main[c]] = members[c]]
  /\ UNCHANGED <<main, members, bound, rest>>

-----------------------------------------------------------------------------
(* Walking and the tick *)

(* The active body walks ... *)
Walk(c, r) ==
  /\ Ready(c) /\ pos[player[c]] \notin {NoRoom, r}
  /\ pos' = [pos EXCEPT ![player[c]] = r]
  /\ march' = [march EXCEPT ![c] = [names |-> Inactive(c), room |-> r]]
  /\ UNCHANGED <<soul, standing, index, attach, over, anchors>>

(* ... and its companions follow, when the world is locked once more. *)
Follow(c) ==
  /\ march[c] # NoMarch
  /\ standing' = Moved(standing, march[c].names, march[c].room)
  /\ march' = [march EXCEPT ![c] = NoMarch]
  /\ UNCHANGED <<soul, pos, index, attach, over, anchors>>

(* Summoned without its companions. *)
Summon(c, r) ==
  /\ Ready(c) /\ pos[player[c]] \notin {NoRoom, r}
  /\ pos' = [pos EXCEPT ![player[c]] = r]
  /\ UNCHANGED <<soul, standing, index, rest>>

(* tick_at notes under the lock of the clients who belongs together ... *)
TickStart ==
  /\ anchors = {} /\ \E c \in Conn : Playing(c)
  /\ anchors' = {Formation(c) : c \in {d \in Conn : Playing(d)}}
  /\ UNCHANGED <<soul, world, index, attach, march, over>>

(* (mutant) The active character is the anchor, not the main one. *)
Anchor_Active(st, a) == pos[a.active]

(* Where the companions of a are gathered: with the main character. *)
Anchor(st, a) == IF a.main = a.active THEN pos[a.active]
                 ELSE IF st[a.main] # <<>> THEN Head(st[a.main]) ELSE NoRoom

(* One formation is gathered, if its anchor has a place. *)
GatherOne(st, a) == IF Anchor(st, a) = NoRoom THEN st
                    ELSE Moved(st, a.names, Anchor(st, a))

(* Where the bodies stand when the formations were gathered in this order. *)
Gathered(order) ==
  LET after[i \in 0..Len(order)] ==
        IF i = 0 THEN standing ELSE GatherOne(after[i - 1], order[i])
  IN after[Len(order)]

(* ... and gathers them under the lock of the world, soul after soul. *)
Gather ==
  /\ anchors # {}
  /\ anchors' = {}
  /\ \E order \in SetToSeqs(anchors) : standing' = Gathered(order)
  /\ UNCHANGED <<soul, pos, index, attach, march, over>>

-----------------------------------------------------------------------------
(* Leaving *)

(* remove_client takes the client out, with its entry in the index ... *)
Leave(c) ==
  /\ Playing(c)
  /\ player' = [player EXCEPT ![c] = NoName]
  /\ main' = [main EXCEPT ![c] = NoName]
  /\ members' = [members EXCEPT ![c] = {}]
  /\ over' = [over EXCEPT ![c] = [name |-> player[c], names |-> Inactive(c)]]
  /\ attach' = [attach EXCEPT ![c] = NoName]
  /\ bound' = IF bound[player[c]] = c THEN [bound EXCEPT ![player[c]] = NoConn] ELSE bound
  /\ UNCHANGED <<roster, world, former, march, anchors>>

(* ... then saves its companions and takes them out of the world ... *)
Dissolve(c) ==
  /\ over[c].names # {}
  /\ standing' = [n \in Names |->
       IF n \in over[c].names /\ Stands(n) THEN Tail(standing[n]) ELSE standing[n]]
  /\ over' = [over EXCEPT ![c].names = {}]
  /\ UNCHANGED <<soul, pos, index, attach, march, anchors>>

(* ... and the connection task gives up the position and saves the body,   *)
(* unless a newer session plays it.                                        *)
CleanUp(c) ==
  /\ over[c].name # NoName /\ over[c].names = {}
  /\ pos' = IF Find(over[c].name) = NoConn
            THEN [pos EXCEPT ![over[c].name] = NoRoom] ELSE pos
  /\ over' = [over EXCEPT ![c] = NotOver]
  /\ UNCHANGED <<soul, standing, index, attach, march, anchors>>

-----------------------------------------------------------------------------

Command(c) == \/ \E n \in Names : AttachCheck(c, n) \/ Switch(c, n)
              \/ \E r \in Rooms : Walk(c, r) \/ Summon(c, r)
              \/ AttachAdd(c) \/ Follow(c) \/ Rebind(c)

Connection(c) == \/ \E n \in Mains : Login(c, n)
                 \/ Leave(c) \/ Dissolve(c) \/ CleanUp(c)

Tick == TickStart \/ Gather

Next == Tick \/ \E c \in Conn : Command(c) \/ Connection(c)

Spec == Init /\ [][Next]_vars

-----------------------------------------------------------------------------
(* Properties *)

(* Every body that stands in the world belongs to a connection that will   *)
(* take it out again: whatever was attached, switched and removed in       *)
(* between, nobody stands there for ever.                                  *)
Owners(n) == {c \in Conn : n \in Inactive(c) \cup over[c].names}
NobodyAbandoned == \A n \in Names : Len(standing[n]) <= Cardinality(Owners(n))

(* A position belongs to an active body, or to one whose cleanup is to     *)
(* come: a switch leaves no ghost in the room lists.                       *)
NoGhostPosition == \A n \in Names :
  pos[n] # NoRoom => Active(n) \/ \E c \in Conn : over[c].name = n

(* docs/SOUL_BODY_FORMATION.md: the tick brings the companions back to     *)
(* where the main character is, whoever is active, also when a switch or a *)
(* walk came between its two sections; souls that share characters aside.  *)
Bodies(a)   == {a.active} \cup a.names
Shared(a)   == \E b \in anchors \ {a} : Bodies(a) \cap Bodies(b) # {}
MainPlaced(c) == IF main[c] = player[c] THEN pos[main[c]] # NoRoom ELSE Stands(main[c])
MainRoom(c) == IF main[c] = player[c] THEN pos'[main[c]] ELSE Head(standing'[main[c]])
Gathers == [][
  anchors # {} /\ anchors' = {} =>
    \A c \in Conn :
      /\ Playing(c) /\ Formation(c) \in anchors /\ ~Shared(Formation(c))
      /\ MainPlaced(c)
      => \A n \in Inactive(c) : \A i \in DOMAIN standing'[n] :
           standing'[n][i] = MainRoom(c) ]_vars

=============================================================================
