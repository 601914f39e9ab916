------------------------------- MODULE Combat -------------------------------
(***************************************************************************)
(* Fights of players with mobs: attack, flight, the one-second combat      *)
(* round, death and its sequence, rewards, corpses and respawn.            *)
(*                                                                         *)
(* A fight is kept twice.  The player's Body remembers whom it fights by   *)
(* instance id and by template key (temp attributes), the mob remembers    *)
(* its opponents by name (MobInstance.targets).  Commands, the tick and    *)
(* the room updates each change one or both sides.  The two lists of a     *)
(* body need not agree: a thrown weapon that kills takes away a key that   *)
(* other opponents share, and a body without ids fights by its keys.       *)
(*                                                                         *)
(* The tick (game_loop.rs, tick_at) holds Broadcaster.clients from its     *)
(* first player to the last reward, so no command runs in between; the     *)
(* world is locked for each player separately.  phase says where it is.    *)
(*                                                                         *)
(* Hit points are abstracted to "did the blow kill"; a skill may strike    *)
(* any of the player's opponents.  Fights between players are in Pvp.      *)
(***************************************************************************)
EXTENDS Integers, Sequences, FiniteSets, SequencesExt

CONSTANTS Players,     \* characters
          Mobs,        \* mob instances (instance_id)
          Rooms,
          NoRoom,      \* a character that is not in the game
          Temple,      \* the room of the dead, 낙양성:7
          Leader,      \* leads the party all players are in
          MaxPaid,     \* how many are paid for one death (MAX_PARTY_SIZE)
          KeyOf,       \* template (mob_key) of an instance
          Kind,        \* combat_type of an instance: 1 attacks, 2 joins in
          Origin,      \* room an instance respawns in
          Moving,      \* instances whose template has move rooms
          TempleStep,  \* step of the death sequence that moves the body (3)
          LastStep     \* last step of the death sequence (9)

ASSUME CombatAssumption ==
  /\ IsFiniteSet(Mobs)
  /\ NoRoom \notin Rooms /\ Temple \in Rooms
  /\ Leader \in Players
  /\ MaxPaid \in Nat \ {0}
  /\ Kind \in [Mobs -> 0..2]
  /\ Origin \in [Mobs -> Rooms]
  /\ TempleStep \in Nat /\ LastStep \in Nat

VARIABLES
  phase,               \* "open": commands run; "tick": the fighters' rounds
  todo,                \* players the running tick has still to update
  room,                \* player_positions
  act,                 \* Body.act
  ids,                 \* _combat_target_instance_ids, in the order of joining
  keys,                \* _combat_target_ids with _attack_target_key
                       \* (target_ids); their order is left out
  step,                \* Body.step_death
  alive,               \* MobInstance.alive
  mobAct,              \* MobInstance.act: 0 stands, 1 fights, 2 corpse
  targets,             \* MobInstance.targets
  mobRoom,             \* where the instance is
  rewards,             \* pending_rewards of the running tick
  queued,              \* ADMIN_MOB_REWARDS: deaths outside of a tick
  call                 \* the group attack that is being carried out

body    == <<room, act, ids, keys, step>>
mobs    == <<alive, mobAct, targets, mobRoom>>
tick    == <<phase, todo>>
owed    == <<rewards, queued>>
vars    == <<tick, body, mobs, owed, call>>

Keys   == {KeyOf[m] : m \in Mobs}
NoCall == [busy |-> FALSE, pending |-> {}, told |-> {}, ids |-> <<>>, keys |-> {}]
Calls  == [busy : BOOLEAN,            \* the task of the leader is in the command
           pending : SUBSET Players,  \* bodies still to be written
           told : SUBSET Players,     \* bodies written, whose mobs are not told
           ids : Seq(Mobs), keys : SUBSET Keys]
Reward == [mob : Mobs, by : Players, targets : SUBSET Players,
           room : Rooms]

MobsTypeOK == /\ alive \in [Mobs -> BOOLEAN]
              /\ mobAct \in [Mobs -> 0..2]
              /\ targets \in [Mobs -> SUBSET Players]
              /\ mobRoom \in [Mobs -> Rooms]
BodyTypeOK == /\ room \in [Players -> Rooms \cup {NoRoom}]
              /\ act \in [Players -> {"stand", "fight", "death", "rest"}]
              /\ ids \in [Players -> Seq(Mobs)]
              /\ keys \in [Players -> SUBSET Keys]
              /\ step \in [Players -> 0..LastStep]
TickTypeOK == /\ phase \in {"open", "tick"}
              /\ todo \subseteq Players
              /\ rewards \subseteq Reward /\ queued \subseteq Reward
TypeOK == MobsTypeOK /\ BodyTypeOK /\ TickTypeOK /\ call \in Calls

Init ==
  /\ phase = "open" /\ todo = {}
  /\ room = [p \in Players |-> NoRoom]
  /\ act = [p \in Players |-> "stand"]
  /\ ids = [p \in Players |-> <<>>]
  /\ keys = [p \in Players |-> {}]
  /\ step = [p \in Players |-> 0]
  /\ alive = [m \in Mobs |-> TRUE]
  /\ mobAct = [m \in Mobs |-> 0]
  /\ targets = [m \in Mobs |-> {}]
  /\ mobRoom = Origin
  /\ rewards = {} /\ queued = {}
  /\ call = NoCall

-----------------------------------------------------------------------------
(* Helpers *)

Online(p)  == room[p] # NoRoom
MobsIn(r)  == {m \in Mobs : mobRoom[m] = r}
Here(p)    == phase = "open" /\ Online(p)

(* A command of p: its task does one after the other. *)
Command(p) == Here(p) /\ ~(p = Leader /\ call.busy)

(* The living mobs at rest in r that join a fight there (combat_type 1, 2). *)
Joining(r) == {m \in MobsIn(r) : alive[m] /\ mobAct[m] = 0 /\ Kind[m] \in {1, 2}}

(* (mutant) The departing player stays on the lists. *)
Without_Kept(S, p) == targets

(* The target lists when the mobs of S take p as an opponent, or lose it *)
With(S, p)    == [m \in Mobs |-> IF m \in S THEN targets[m] \cup {p} ELSE targets[m]]
Without(S, p) == [m \in Mobs |-> IF m \in S THEN targets[m] \ {p} ELSE targets[m]]

(* (mutant) A mob that lost its last opponent goes on fighting. *)
Calmed_Never(S, p) == mobAct

(* ... and what the mobs do then: one that fought p alone comes to rest. *)
Calmed(S, p) == [m \in Mobs |->
  IF m \in S /\ mobAct[m] = 1 /\ targets[m] \subseteq {p} THEN 0 ELSE mobAct[m]]

(* p fights the mobs of S: those it does not remember yet come after was,  *)
(* in the order of the room but for the one of led, which is the first.    *)
Remember(p, was, wasKeys, S, led) ==
  /\ \E s \in SetToSeqs(S \ ToSet(was)) :
       /\ led \cap ToSet(s) # {} => Head(s) \in led
       /\ ids' = [ids EXCEPT ![p] = was \o s]
  /\ keys' = [keys EXCEPT ![p] = wasKeys \cup {KeyOf[m] : m \in S}]

(* The list s without the mobs that are gone, in its order *)
KeepsOrder(t, s) == \A i, j \in DOMAIN t : i < j =>
  \E k, l \in DOMAIN s : k < l /\ s[k] = t[i] /\ s[l] = t[j]
Rest(s, gone) == {t \in SetToSeqs(ToSet(s) \ gone) : KeepsOrder(t, s)}

-----------------------------------------------------------------------------
(* Commands and connections *)

(* Entering the game with a fresh body; nothing attacks a player at login. *)
Login(p, r) ==
  /\ phase = "open" /\ ~Online(p)
  /\ room' = [room EXCEPT ![p] = r]
  /\ UNCHANGED <<tick, act, ids, keys, step, mobs, owed, call>>

(* A connection is lost: the body and its position go, and no mob is told. *)
(* Its token is not found any more by a group attack under way.            *)
Disconnect(p) ==
  /\ Here(p)
  /\ room' = [room EXCEPT ![p] = NoRoom]
  /\ act' = [act EXCEPT ![p] = "stand"]
  /\ step' = [step EXCEPT ![p] = 0]
  /\ ids' = [ids EXCEPT ![p] = <<>>]
  /\ keys' = [keys EXCEPT ![p] = {}]
  /\ call' = [call EXCEPT !.pending = @ \ {p}, !.busy = @ /\ p # Leader]
  /\ UNCHANGED <<tick, mobs, owed>>

(* 쳐 on the mob m, start_attack: p and m fight, and the mobs at rest that *)
(* help m join in, in the order of the room.  A player that remembers an   *)
(* opponent is refused.                                                    *)
Attack(p, m) ==
  /\ Command(p) /\ act[p] # "death"
  /\ keys[p] = {}
  /\ alive[m] /\ mobRoom[m] = room[p]
  /\ LET joining == Joining(room[p]) \ {m}
     IN /\ Remember(p, ids[p], {}, joining \cup {m}, {m})
        /\ targets' = With(joining \cup {m}, p)
        /\ mobAct' = [n \in Mobs |-> IF n \in joining \cup {m} THEN 1 ELSE mobAct[n]]
  /\ act' = [act EXCEPT ![p] = "fight"]
  /\ UNCHANGED <<tick, room, step, alive, mobRoom, owed, call>>

(* p arrives in r remembering the opponents was, the mobs having the       *)
(* target lists ts and doing as.  start_entry_aggression: if one of those  *)
(* at rest attacks strangers (combat_type 1), p fights all that join in.   *)
Arrive(p, r, was, wasKeys, ts, as) ==
  LET joining == {m \in MobsIn(r) : alive[m] /\ as[m] = 0 /\ Kind[m] \in {1, 2}}
      hostile == \E m \in joining : Kind[m] = 1
  IN /\ room' = [room EXCEPT ![p] = r]
     /\ Remember(p, was, wasKeys, IF hostile THEN joining ELSE {}, {})
     /\ act' = [act EXCEPT ![p] = IF hostile THEN "fight" ELSE "stand"]
     /\ targets' = [m \in Mobs |->
          IF hostile /\ m \in joining THEN ts[m] \cup {p} ELSE ts[m]]
     /\ mobAct' = [m \in Mobs |-> IF hostile /\ m \in joining THEN 1 ELSE as[m]]
     /\ UNCHANGED <<tick, step, alive, mobRoom, owed, call>>

(* 시전 on the mob m, apply_combat: refused to a player that rests or      *)
(* fights others, and when m fights others only.  A new opponent is met as *)
(* by 쳐, and added to those p remembers; a dead caster fights again.      *)
Cast(p, m) ==
  /\ Command(p) /\ act[p] \in {"stand", "death"}
  /\ alive[m] /\ mobRoom[m] = room[p]
  /\ targets[m] # {} => p \in targets[m]
  /\ LET new == IF m \in ToSet(ids[p]) THEN {} ELSE Joining(room[p]) \cup {m}
     IN /\ Remember(p, ids[p], keys[p], new, {m})
        /\ targets' = With(new, p)
        /\ mobAct' = [n \in Mobs |-> IF n \in new THEN 1 ELSE mobAct[n]]
  /\ act' = [act EXCEPT ![p] = "fight"]
  /\ UNCHANGED <<tick, room, step, alive, mobRoom, owed, call>>

(* Walking: refused in a fight and at rest.  A dead body walks too, but    *)
(* nothing attacks it (start_entry_aggression).                            *)
Walk(p, r) ==
  /\ Command(p) /\ act[p] = "stand" /\ r # room[p]
  /\ Arrive(p, r, ids[p], keys[p], targets, mobAct)

WalkDead(p, r) ==
  /\ Command(p) /\ act[p] = "death" /\ r # room[p]
  /\ room' = [room EXCEPT ![p] = r]
  /\ UNCHANGED <<tick, act, ids, keys, step, mobs, owed, call>>

(* 도망, attempt_flee that succeeds: clear_fight_for_move frees the mobs of *)
(* the room p leaves.  It needs a mob of the template p fights in there.   *)
Flee(p, r) ==
  /\ Command(p) /\ act[p] = "fight" /\ r # room[p]
  /\ \E m \in MobsIn(room[p]) : KeyOf[m] \in keys[p]
  /\ LET here == MobsIn(room[p])
     IN Arrive(p, r, <<>>, {}, Without(here, p), Calmed(here, p))

(* A summons: clear_summon_combat frees every mob of p, also a dead p      *)
(* stands afterwards.                                                      *)
Summon(p, r) ==
  /\ Here(p) /\ r # room[p]
  /\ Arrive(p, r, <<>>, {}, Without(Mobs, p), Calmed(Mobs, p))

(* award_mob_death: the reward of a mob that was alive, as it is settled   *)
(* when all fighters of a tick had their round                             *)
RewardOf(m, p) == [mob |-> m, by |-> p, targets |-> targets[m],
                   room |-> mobRoom[m]]

(* 투척, a thrown weapon that kills m; one that does not is 쳐, or nothing. *)
(* In a fight it is thrown at an opponent, else it begins the fight as 쳐   *)
(* does.  The death is queued for the next tick.  The body loses m and the *)
(* key of m, also when another opponent shares it, and stands when both    *)
(* lists are empty.  A bound: no two unsettled deaths of a mob by throws.  *)
ThrowKill(p, m) ==
  /\ Command(p) /\ act[p] # "death"
  /\ alive[m] /\ mobRoom[m] = room[p]
  /\ \A r \in queued : r.mob # m
  /\ IF act[p] = "fight" THEN m \in ToSet(ids[p]) ELSE keys[p] = {}
  /\ LET begins  == act[p] # "fight"
         joining == IF begins THEN Joining(room[p]) \ {m} ELSE {}
         left    == (keys[p] \cup {KeyOf[n] : n \in joining}) \ {KeyOf[m]}
     IN /\ \E rest \in Rest(ids[p], {m}), s \in SetToSeqs(joining \ ToSet(ids[p])) :
             /\ ids' = [ids EXCEPT ![p] = rest \o s]
             /\ act' = [act EXCEPT ![p] =
                          IF left = {} /\ rest \o s = <<>> THEN "stand" ELSE "fight"]
        /\ keys' = [keys EXCEPT ![p] = left]
        /\ targets' = [With(joining, p) EXCEPT ![m] = {}]
        /\ mobAct' = [n \in Mobs |-> IF n = m THEN 2 ELSE IF n \in joining THEN 1 ELSE mobAct[n]]
        /\ queued' = queued \cup
             {[RewardOf(m, p) EXCEPT !.targets = IF begins THEN @ \cup {p} ELSE @]}
  /\ alive' = [alive EXCEPT ![m] = FALSE]
  /\ UNCHANGED <<tick, room, step, mobRoom, rewards, call>>

(* 일어나: a resting player stands up. *)
StandUp(p) ==
  /\ Command(p) /\ act[p] = "rest"
  /\ act' = [act EXCEPT ![p] = "stand"]
  /\ UNCHANGED <<tick, room, ids, keys, step, mobs, owed, call>>

-----------------------------------------------------------------------------
(* 무리합, the group attack: everybody of the party that does not fight     *)
(* yet takes over the opponents of one that does.  The command of the      *)
(* leader looks at the party while it holds the clients; what it decided   *)
(* is carried out afterwards, one lock after the other.  A bound: one      *)
(* group attack at a time, though a leader that comes back could give the  *)
(* next before the first is through.                                       *)

(* The command takes the opponents of p, the leader or a member, for the   *)
(* leader and for those that do not fight, wherever they are ...           *)
GroupAttack(p) ==
  /\ call = NoCall
  /\ Command(Leader) /\ Online(p) /\ act[p] = "fight"
  /\ act[Leader] = "fight" => p = Leader
  /\ call' = [busy |-> TRUE, told |-> {}, ids |-> ids[p], keys |-> keys[p],
              pending |-> {q \in Players : Online(q) /\ (q = Leader \/ act[q] # "fight")}]
  /\ UNCHANGED <<tick, body, mobs, owed>>

(* ... apply_party_requests writes them into one body after the other, the *)
(* leader's first, whatever that does by now (the template it attacked     *)
(* last is a key of its own and may stay) ...                              *)
WriteBody(q) ==
  /\ phase = "open" /\ q \in call.pending
  /\ Leader \in call.pending => q = Leader
  /\ ids' = [ids EXCEPT ![q] = call.ids]
  /\ \E last \in SUBSET keys[q] :
       /\ Cardinality(last) <= 1
       /\ keys' = [keys EXCEPT ![q] = call.keys \cup last]
  /\ act' = [act EXCEPT ![q] = "fight"]
  /\ call' = [call EXCEPT !.pending = @ \ {q}, !.told = @ \cup {q}]
  /\ UNCHANGED <<tick, room, step, mobs, owed>>

(* ... and, under the lock of the world alone, link_party_player_to_mobs   *)
(* turns those of the mobs that are in the room of a member against it.    *)
GroupLinks ==
  /\ call # NoCall /\ call.pending = {}
  /\ LET foes(m) == {q \in call.told : m \in ToSet(call.ids) /\ room[q] = mobRoom[m]}
     IN /\ targets' = [m \in Mobs |-> targets[m] \cup foes(m)]
        /\ mobAct' = [m \in Mobs |-> IF foes(m) # {} THEN 1 ELSE mobAct[m]]
  /\ call' = NoCall
  /\ UNCHANGED <<tick, body, alive, mobRoom, owed>>

-----------------------------------------------------------------------------
(* The tick *)

(* tick_at takes the clients; it will update each of them. *)
TickStart ==
  /\ phase = "open"
  /\ phase' = "tick"
  /\ todo' = {p \in Players : Online(p)}
  /\ UNCHANGED <<body, mobs, owed, call>>

Updating(p) == phase = "tick" /\ p \in todo
Done(p) == phase' = phase /\ todo' = todo \ {p}

(* A player that stands or rests: nothing of the fight changes. *)
Idle(p) ==
  /\ Updating(p) /\ act[p] \in {"stand", "rest"}
  /\ Done(p)
  /\ UNCHANGED <<body, mobs, owed, call>>

(* advance_death: one step of the death sequence.  One step moves the body *)
(* to the temple, the last one turns death into rest.                      *)
Dying(p) ==
  /\ Updating(p) /\ act[p] = "death"
  /\ Done(p)
  /\ room' = [room EXCEPT ![p] = IF step[p] = TempleStep THEN Temple ELSE @]
  /\ step' = [step EXCEPT ![p] = IF @ < LastStep THEN @ + 1 ELSE 0]
  /\ act' = [act EXCEPT ![p] = IF step[p] = LastStep THEN "rest" ELSE @]
  /\ UNCHANGED <<ids, keys, mobs, owed, call>>

(* The mob the round of p is about: the first opponent, or, for a player   *)
(* that has keys only, the first mob of its first template, dead or alive. *)
Firsts(p) == IF ids[p] # <<>> THEN {Head(ids[p])} \cap MobsIn(room[p])
             ELSE {m \in MobsIn(room[p]) : KeyOf[m] \in keys[p]}

(* process_combat_tick, early return: there is no such mob in the room of  *)
(* p, which stands up and keeps its lists.                                 *)
LostFoe(p) ==
  /\ Updating(p) /\ act[p] = "fight"
  /\ \/ keys[p] = {}
     \/ ids[p] # <<>> /\ Firsts(p) = {}
     \/ ids[p] = <<>> /\ \E k \in keys[p] : \A m \in MobsIn(room[p]) : KeyOf[m] # k
  /\ Done(p)
  /\ act' = [act EXCEPT ![p] = "stand"]
  /\ UNCHANGED <<room, ids, keys, step, mobs, owed, call>>

(* Opponents of p in its room that are alive, and those that strike at p:  *)
(* the ones that list p and whose template p remembers.                    *)
Foes(p)     == {m \in MobsIn(room[p]) : alive[m] /\
                  IF ids[p] # <<>> THEN m \in ToSet(ids[p]) ELSE KeyOf[m] \in keys[p]}
Strikers(p) == {m \in Foes(p) : p \in targets[m] /\ KeyOf[m] \in keys[p]}

(* (mutant) A corpse that stays first in the list is awarded once more. *)
Awarded_Corpse(p, slain) ==
  rewards' = rewards \cup {RewardOf(m, p) :
                             m \in slain \cup {n \in Firsts(p) : ~alive[n]}}

(* award_mob_death returns at once for a mob that is dead already: only    *)
(* those slain in this round are awarded.                                  *)
Awarded(p, slain) == rewards' = rewards \cup {RewardOf(m, p) : m \in slain}

(* (mutant) The next on the list need not be alive. *)
Foremost_Dead(s, S) == IF s = <<>> THEN {} ELSE {Head(s)}

(* The first of the list s that is in S, if any *)
Foremost(s, S) == {s[i] : i \in {i \in DOMAIN s : s[i] \in S /\
                                   \A j \in 1..(i - 1) : s[j] \notin S}}

(* The body of p after its round *)
Fights(p, left, leftKeys) == /\ act' = [act EXCEPT ![p] = "fight"]
                             /\ ids' = [ids EXCEPT ![p] = left]
                             /\ keys' = [keys EXCEPT ![p] = leftKeys]
Stands(p) == /\ act' = [act EXCEPT ![p] = "stand"]
             /\ ids' = [ids EXCEPT ![p] = <<>>]
             /\ keys' = [keys EXCEPT ![p] = {}]

(* The round of a player with a list: the fallen leave it.  When over, the *)
(* next on it that lives and is here is fought, or the fight is over.      *)
GoesOnById(p, fallen, over) ==
  \E left \in Rest(ids[p], fallen) :
    LET next == Foremost(left, Foes(p) \ fallen)
    IN \/ ~over /\ Fights(p, left, keys[p])
       \/ over /\ next # {} /\ Fights(p, left, keys[p] \cup {KeyOf[m] : m \in next})
       \/ over /\ next = {} /\ Stands(p)

(* ... and of one that has keys only: the keys of the fallen leave it, and *)
(* a mob of the key that is first then is fought, if one lives here.       *)
GoesOnByKey(p, f, fallen, over) ==
  LET left   == keys[p] \ {KeyOf[m] : m \in fallen}
      living == {KeyOf[m] : m \in Foes(p) \ fallen}
  IN \/ ~over /\ KeyOf[f] \in left /\ Fights(p, <<>>, left)
     \/ over /\ left \cap living # {} /\ Fights(p, <<>>, left)
     \/ over /\ (left = {} \/ left \ living # {}) /\ Stands(p)

(* A round p survives: p hurts some of its opponents.  When the first one  *)
(* is dead at the end, by p or by somebody else, its fight is over.        *)
Round(p) ==
  /\ Updating(p) /\ act[p] = "fight" /\ keys[p] # {}
  /\ Done(p)
  /\ \E f \in Firsts(p), slain \in SUBSET Foes(p) :
       LET over == ~alive[f] \/ f \in slain
           fallen == IF over THEN slain \cup {f} ELSE slain
       IN /\ Awarded(p, slain)
          /\ alive' = [m \in Mobs |-> alive[m] /\ m \notin slain]
          /\ targets' = [m \in Mobs |-> IF m \in fallen THEN {} ELSE targets[m]]
          /\ mobAct' = [m \in Mobs |-> IF m \in fallen THEN 2 ELSE mobAct[m]]
          /\ \/ ids[p] # <<>> /\ GoesOnById(p, fallen, over)
             \/ ids[p] = <<>> /\ GoesOnByKey(p, f, fallen, over)
  /\ UNCHANGED <<room, step, mobRoom, queued, call>>

(* A round in which a striker kills p: p does not strike.  It is dead and  *)
(* no mob of the room fights it any more; but when the first opponent was  *)
(* a corpse already, its removal takes the player out of death again.      *)
Killed(p) ==
  /\ Updating(p) /\ act[p] = "fight" /\ keys[p] # {}
  /\ Strikers(p) # {}
  /\ Done(p)
  /\ \E f \in Firsts(p) :
       LET corpse == IF alive[f] THEN {} ELSE {f}
           here == MobsIn(room[p])
       IN /\ targets' = [m \in Mobs |-> IF m \in corpse THEN {} ELSE Without(here, p)[m]]
          /\ mobAct' = [m \in Mobs |-> IF m \in corpse THEN 2 ELSE Calmed(here, p)[m]]
          /\ act' = [act EXCEPT ![p] = IF corpse = {} THEN "death" ELSE "stand"]
  /\ step' = [step EXCEPT ![p] = 0]
  /\ ids' = [ids EXCEPT ![p] = <<>>]
  /\ keys' = [keys EXCEPT ![p] = {}]
  /\ UNCHANGED <<room, alive, mobRoom, owed, call>>

(* At most MAX_PARTY_SIZE of some players, the first ones in an order that *)
(* is left out                                                             *)
Taken(S) == IF Cardinality(S) <= MaxPaid THEN {S} ELSE kSubset(MaxPaid, S)

(* (mutant) The limit is applied before one looks who is there. *)
Payees_TakenFirst(r) == {{q \in S : room[q] = r.room} : S \in Taken(r.targets)}

(* Whom a reward pays: of the opponents the mob had when it died as many   *)
(* of those that are in its room now, if they hurt it.                     *)
Payees(r) == Taken({q \in r.targets : room[q] = r.room})

(* When all players had their turn, the tick claims the queued rewards of  *)
(* which an opponent is in the game, and settles all it has.               *)
Settle ==
  /\ phase = "tick" /\ todo = {}
  /\ phase' = "open"
  /\ rewards' = {}
  /\ queued' = {r \in queued : ~\E q \in r.targets : Online(q)}
  /\ UNCHANGED <<todo, body, mobs, call>>

-----------------------------------------------------------------------------
(* Updates of the rooms players are in, after the clients are released;    *)
(* the temple is also updated when a dead body is moved there.             *)

Updated(r) == \/ phase = "open" /\ \E p \in Players : room[p] = r
              \/ phase = "tick" /\ r = Temple
                 /\ \E p \in todo : act[p] = "death" /\ step[p] = TempleStep

(* respawn and return_respawned_to_origins.  A corpse lies for seconds: a  *)
(* mob killed in this tick does not come back in it.                       *)
Respawn(m) ==
  /\ Updated(mobRoom[m])
  /\ ~alive[m] /\ \A r \in rewards : r.mob # m
  /\ alive' = [alive EXCEPT ![m] = TRUE]
  /\ mobAct' = [mobAct EXCEPT ![m] = 0]
  /\ targets' = [targets EXCEPT ![m] = {}]
  /\ mobRoom' = [mobRoom EXCEPT ![m] = Origin[m]]
  /\ UNCHANGED <<tick, body, owed, call>>

(* update_moving_mobs, move_instance: a living mob at rest changes rooms. *)
Wander(m, r) ==
  /\ m \in Moving
  /\ phase = "open" /\ \E p \in Players : Online(p)
  /\ alive[m] /\ mobAct[m] = 0 /\ r # mobRoom[m]
  /\ mobRoom' = [mobRoom EXCEPT ![m] = r]
  /\ UNCHANGED <<tick, body, alive, mobAct, targets, owed, call>>

-----------------------------------------------------------------------------

PlayerStep(p) ==
  \/ \E r \in Rooms : Login(p, r) \/ Walk(p, r) \/ WalkDead(p, r)
                      \/ Flee(p, r) \/ Summon(p, r)
  \/ \E m \in Mobs : Attack(p, m) \/ Cast(p, m) \/ ThrowKill(p, m)
  \/ Disconnect(p) \/ StandUp(p) \/ GroupAttack(p) \/ WriteBody(p)

TickPlayer(p) == Idle(p) \/ Dying(p) \/ LostFoe(p) \/ Round(p) \/ Killed(p)

RoomUpdate(m) == \/ Respawn(m) \/ \E r \in Rooms : Wander(m, r)

Next == \/ \E p \in Players : PlayerStep(p) \/ TickPlayer(p)
        \/ \E m \in Mobs : RoomUpdate(m)
        \/ GroupLinks \/ TickStart \/ Settle

Spec == Init /\ [][Next]_vars

-----------------------------------------------------------------------------
(* Properties *)

(* A living mob is in act 1 exactly while it has opponents: whoever takes  *)
(* the last one away (flight, summons, a death, a respawn) also lets the   *)
(* mob rest, so that it can be attacked, join in or wander again.          *)
FightingMobHasOpponents ==
  \A m \in Mobs : alive[m] => (mobAct[m] = 1 <=> targets[m] # {})

(* Whatever became of its opponents (thrown at, slain by others, gone with *)
(* a group attack's list that fits another room), a player that has had    *)
(* its turn fights somebody that lives and is there, or does not fight.    *)
NobodyFightsTheDead == [][
  \A p \in Players : p \in todo /\ p \notin todo' /\ act'[p] = "fight" =>
    \E m \in Mobs : /\ alive'[m] /\ mobRoom'[m] = room'[p]
                    /\ m \in ToSet(ids'[p]) \/ KeyOf[m] \in keys'[p] ]_vars

(* When the rewards are settled, a slayer that was an opponent of its mob  *)
(* is paid, unless as many others as can be come before it: nothing of the *)
(* same tick moved it away from the corpse.                                *)
SlayerIsPaid ==
  phase = "tick" /\ todo = {} =>
    \A r \in rewards : r.by \in r.targets =>
      \A S \in Payees(r) : r.by \in S \/ Cardinality(S) = MaxPaid

(* clear_dead_player_from_mobs: whoever dies in a fight is forgotten by    *)
(* every mob of the room and fights nobody.                                *)
DeathFrees == [][
  \A p \in Players : act[p] = "fight" /\ act'[p] = "death" =>
    /\ \A m \in MobsIn(room[p]) : p \notin targets'[m]
    /\ ids'[p] = <<>> /\ keys'[p] = {} ]_vars

(* Each death is rewarded once, also when two players strike at the mob in *)
(* the same tick or one throws at it before, and a death of the tick       *)
(* before the mob lives again: Combat implements MobLife.                  *)
Deaths(R) == {<<r.mob, r.by>> : r \in R}
Life == INSTANCE MobLife WITH living <- {m \in Mobs : alive[m]},
                              owed <- Deaths(rewards), late <- Deaths(queued)
MobsLive == Life!Spec

(* A lethal blow is the player's death (game_loop.rs:4157 asserts it after *)
(* the tick); the code fails to when the first opponent is a corpse.       *)
LethalHitKills == [][\A p \in Players : Killed(p) => act'[p] = "death"]_vars

=============================================================================
