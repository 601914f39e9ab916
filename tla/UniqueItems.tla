---------------------------- MODULE UniqueItems ----------------------------
(***************************************************************************)
(* One unique item (단일아이템, 기연) and what the registry of unique items  *)
(* (oneitem.rs) says of it.  The item is an object in a body, in a corpse, *)
(* on the floor of a room or in a box; the registry keeps one entry for    *)
(* it: who has it, who dropped it (버림), who put it away (보관).           *)
(*                                                                         *)
(* Each command moves the object and tells the registry, which writes its  *)
(* file at once.  Boxes are written at once too, bodies when something     *)
(* saves them; floors and corpses are lost when the server stops.          *)
(***************************************************************************)
EXTENDS Integers, FiniteSets, FiniteSetsExt

CONSTANTS Players,
          Mobs,        \* mob instances that may leave the item when they die
          MaxCopies    \* bound: objects of the item that exist at a time

ASSUME UniqueItemsAssumption == MaxCopies \in Nat

VARIABLES
  online,              \* players in the game
  dead,                \* mobs that lie as a corpse
  copies,              \* objects of the item in each place
  file,                \* objects of the item in the user file of a player
  entry                \* the entry of OneitemState.attr

itemVars == <<online, dead, copies, file, entry>>

Body(p)   == <<"body", p>>      \* the body, or the character when offline
Corpse(m) == <<"corpse", m>>
Floor     == <<"floor">>
Box       == <<"box">>

Lasting == {Body(p) : p \in Players} \cup {Box}
Passing == {Corpse(m) : m \in Mobs} \cup {Floor}
Places  == Lasting \cup Passing

NoEntry     == [state |-> "none"]
Have(p)     == [state |-> "have", who |-> p]
Dropped(p)  == [state |-> "dropped", who |-> p]
Kept(p)     == [state |-> "kept", who |-> p]
Entries     == {NoEntry} \cup UNION {{Have(p), Dropped(p), Kept(p)} :
                                      p \in Players}

ItemTypeOK ==
  /\ online \subseteq Players /\ dead \subseteq Mobs
  /\ copies \in [Places -> Nat]
  /\ file \in [Players -> Nat]
  /\ entry \in Entries

ItemInit ==
  /\ online = {} /\ dead = {}
  /\ copies = [x \in Places |-> 0]
  /\ file = [p \in Players |-> 0]
  /\ entry = NoEntry

-----------------------------------------------------------------------------
(* Helpers *)

Copies == MapThenSumSet(LAMBDA x : copies[x], Places)

Move(x, y) ==
  /\ copies[x] > 0
  /\ copies' = [copies EXCEPT ![x] = @ - 1, ![y] = @ + 1]

Lose(x) == copies[x] > 0 /\ copies' = [copies EXCEPT ![x] = @ - 1]

(* (mutant) A body takes whatever it is given. *)
CanAccept_Always(p) == p \in online

(* can_accept_object: a body takes no second object of a unique item. *)
CanAccept(p) == p \in online /\ copies[Body(p)] = 0

(* save_body_to_json, after the body of p changed *)
Saved(p) == file' = [file EXCEPT ![p] = copies'[Body(p)]]

-----------------------------------------------------------------------------
(* Sessions *)

(* A body is loaded from the user file. *)
Login(p) ==
  /\ p \notin online
  /\ online' = online \cup {p}
  /\ copies' = [copies EXCEPT ![Body(p)] = file[p]]
  /\ UNCHANGED <<dead, file, entry>>

(* 저장, the periodic save, and the saves of commands that change others *)
Save(p) ==
  /\ p \in online
  /\ file' = [file EXCEPT ![p] = copies[Body(p)]]
  /\ UNCHANGED <<online, dead, copies, entry>>

(* The end of a connection saves the body. *)
Logout(p) ==
  /\ p \in online
  /\ online' = online \ {p}
  /\ file' = [file EXCEPT ![p] = copies[Body(p)]]
  /\ UNCHANGED <<dead, copies, entry>>

-----------------------------------------------------------------------------
(* Where the item comes from *)

(* 생성: an administrator makes the item, if the registry knows of none; a  *)
(* number of 0 writes the entry only.                                      *)
Create(p) ==
  /\ CanAccept(p)
  /\ entry = NoEntry
  /\ Copies < MaxCopies
  /\ \E n \in 0..1 : copies' = [copies EXCEPT ![Body(p)] = n]
  /\ entry' = Have(p)
  /\ UNCHANGED <<online, dead, file>>

(* An event gives the item.  Only the body it is given to is looked at, and *)
(* the entry is overwritten; whether to ask the registry is left to the    *)
(* text of the event.                                                      *)
Grant(p) ==
  /\ CanAccept(p)
  /\ Copies < MaxCopies
  /\ copies' = [copies EXCEPT ![Body(p)] = 1]
  /\ entry' = Have(p)
  /\ UNCHANGED <<online, dead, file>>

(* award_mob_death, generate_mob_corpse_items: a mob leaves the item, or   *)
(* does not; the registry is asked and not told.                           *)
Kill(m) ==
  /\ m \notin dead
  /\ dead' = dead \cup {m}
  /\ \/ UNCHANGED copies
     \/ /\ copies[Corpse(m)] = 0 /\ entry = NoEntry
        /\ Copies < MaxCopies
        /\ copies' = [copies EXCEPT ![Corpse(m)] = 1]
  /\ UNCHANGED <<online, file, entry>>

(* A corpse is looted, by its slayer at the reward or by a search. *)
Loot(p, m) ==
  /\ m \in dead /\ CanAccept(p)
  /\ Move(Corpse(m), Body(p))
  /\ entry' = Have(p)
  /\ UNCHANGED <<online, dead, file>>

(* The corpse is gone: what it has falls to the floor, untold; or its mob  *)
(* comes back.                                                             *)
Decay(m) ==
  /\ m \in dead
  /\ Move(Corpse(m), Floor)
  /\ UNCHANGED <<online, dead, file, entry>>

Respawn(m) ==
  /\ m \in dead /\ copies[Corpse(m)] = 0
  /\ dead' = dead \ {m}
  /\ UNCHANGED <<online, copies, file, entry>>

-----------------------------------------------------------------------------
(* What players do with it *)

(* 주워: the object is taken from the floor and the body saved. *)
PickUp(p) ==
  /\ CanAccept(p)
  /\ Move(Floor, Body(p))
  /\ entry' = Have(p)
  /\ Saved(p)
  /\ UNCHANGED <<online, dead>>

(* 버려: in a room full of objects the item is destroyed. *)
Drop(p) ==
  /\ p \in online
  /\ \/ Move(Body(p), Floor) /\ entry' = Dropped(p)
     \/ Lose(Body(p)) /\ entry' = NoEntry
  /\ UNCHANGED <<online, dead, file>>

(* death_drop_all: the registry is told of a drop also in a full room. *)
Die(p) ==
  /\ p \in online
  /\ Move(Body(p), Floor) \/ Lose(Body(p))
  /\ entry' = Dropped(p)
  /\ UNCHANGED <<online, dead, file>>

(* 줘; both bodies are saved by steps of their own (Save). *)
Give(p, q) ==
  /\ p # q /\ p \in online /\ CanAccept(q)
  /\ Move(Body(p), Body(q))
  /\ entry' = Have(q)
  /\ UNCHANGED <<online, dead, file>>

(* 넣어, 꺼내: the box is written at once, the body is not.                 *)
Put(p) ==
  /\ p \in online
  /\ Move(Body(p), Box)
  /\ entry' = Kept(p)
  /\ UNCHANGED <<online, dead, file>>

(* All objects that were asked for leave the box, and the body takes one.  *)
Take(p) ==
  /\ CanAccept(p)
  /\ \E n \in 1..copies[Box] :
       copies' = [copies EXCEPT ![Box] = @ - n, ![Body(p)] = 1]
  /\ entry' = Have(p)
  /\ UNCHANGED <<online, dead, file>>

(* The item is sold, broken or taken apart. *)
Destroy(p) ==
  /\ p \in online
  /\ Lose(Body(p))
  /\ entry' = NoEntry
  /\ Saved(p)
  /\ UNCHANGED <<online, dead>>

(* An event takes it away, del_item_from_body: the registry is not told. *)
Consume(p) ==
  /\ p \in online
  /\ Lose(Body(p))
  /\ UNCHANGED <<online, dead, file, entry>>

(* 기연정리: an administrator takes it from a character that stays away.     *)
Reclaim(p) ==
  /\ p \notin online /\ entry = Have(p)
  /\ Lose(Body(p))
  /\ entry' = NoEntry
  /\ Saved(p)
  /\ UNCHANGED <<online, dead>>

(* expire_floor_items_at *)
Expire ==
  /\ Lose(Floor)
  /\ entry' = NoEntry
  /\ UNCHANGED <<online, dead, file>>

-----------------------------------------------------------------------------
(* The server stops and starts again *)

(* (mutant) The entry of what is put away is forgotten instead. *)
Loaded_NotKept == IF entry.state = "kept" THEN NoEntry ELSE entry

(* OneitemState.load leaves out the entry of what lay on a floor. *)
Loaded == IF entry.state = "dropped" THEN NoEntry ELSE entry

AllSaved == \A p \in online : file[p] = copies[Body(p)]

(* A shutdown, for which every connection is ended and saved, or a crash.  *)
Restart ==
  /\ online' = {} /\ dead' = {}
  /\ copies' = [x \in Places |-> IF x \in Passing THEN 0
                                ELSE IF x = Box THEN copies[x]
                                ELSE file[x[2]]]
  /\ Copies' <= MaxCopies
  /\ entry' = Loaded
  /\ UNCHANGED file

-----------------------------------------------------------------------------

Session(p) == Login(p) \/ Save(p) \/ Logout(p)
Command(p) == \/ Create(p) \/ Grant(p) \/ PickUp(p) \/ Drop(p) \/ Die(p)
              \/ Put(p) \/ Take(p) \/ Destroy(p) \/ Consume(p) \/ Reclaim(p)
              \/ \E q \in Players : Give(p, q)
              \/ \E m \in Mobs : Loot(p, m)
World      == \/ Expire \/ Restart
              \/ \E m \in Mobs : Kill(m) \/ Decay(m) \/ Respawn(m)

ItemNext == World \/ \E p \in Players : Session(p) \/ Command(p)

ItemSpec == ItemInit /\ [][ItemNext]_itemVars

-----------------------------------------------------------------------------
(* Properties *)

(* README.md:56: a unique item is always managed as unique, so there is one *)
(* object of it at most.  (The code does not keep this: see UniqueItems_one.) *)
OneCopy == \A x, y \in Places :
  copies[x] > 0 /\ copies[y] > 0 => x = y /\ copies[x] = 1

(* The entry tells where an object is that is not in a corpse. *)
Recorded ==
  /\ \A p \in Players : copies[Body(p)] > 0 => entry = Have(p)
  /\ copies[Floor] > 0 => entry.state = "dropped"
  /\ copies[Box] > 0 => entry.state = "kept"

InACorpse == \E m \in Mobs : copies[Corpse(m)] > 0

Exists == \E x \in Places : copies[x] > 0

(* What makes a second object or a wrong entry is one of three things: a    *)
(* corpse that has the item, which the registry does not know; an event     *)
(* that gives the item while there is one; a body that was not saved when   *)
(* the server stopped.  Nothing else does, neither another command, a       *)
(* death, an expiry, a kill, a logout nor a restart (oneitem.rs, do_drop to *)
(* load): from one object with a true entry each step leads to the same.    *)
NothingElseDoubles == [][
  /\ OneCopy /\ Recorded
  /\ ~InACorpse
  /\ Exists => ~ \E p \in Players : Grant(p)
  /\ Restart => AllSaved
  => OneCopy' /\ Recorded' ]_itemVars

(* Whatever duplicates there are, no body comes to hold two: every way     *)
(* into a body, also by the user file, keeps can_accept_object.            *)
NoBodyHoldsTwo ==
  \A p \in Players : copies[Body(p)] <= 1 /\ file[p] <= 1
=============================================================================
