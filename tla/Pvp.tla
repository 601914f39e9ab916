-------------------------------- MODULE Pvp --------------------------------
(***************************************************************************)
(* Fights between players.                                                 *)
(*                                                                         *)
(* Each fighter's Body names the other one in the temp attribute           *)
(* _pvp_target.  A command (쳐, 시전) sets both ends at once; flight,       *)
(* summons, a lost connection or a death may take one end away, and        *)
(* process_pvp_ticks (game_loop.rs) repairs what is left before it lets    *)
(* the pairs strike.  It runs in the tick after the rounds against mobs,   *)
(* under the same lock of Broadcaster.clients.                             *)
(*                                                                         *)
(* Of the fights with mobs (Combat) only "remembers an opponent" is kept,  *)
(* of blows only "would kill".                                             *)
(***************************************************************************)
CONSTANTS Players, Rooms, Nobody, NoRoom

ASSUME PvpAssumption == Nobody \notin Players /\ NoRoom \notin Rooms

VARIABLES
  phase,               \* where the tick is
  todo,                \* mob rounds, then pairs, the tick has still to do
  duel,                \* the pair that struck and whose damage is not applied
  blows,               \* those of it whose damage kills the other one
  room,                \* player_positions; NoRoom is not in the game
  leaving,             \* Client.disconnect_requested
  act,                 \* Body.act
  mob,                 \* the body remembers a mob (_combat_target_ids)
  pvp                  \* _pvp_target

body == <<act, mob, pvp>>
tick == <<phase, todo, duel, blows>>
vars == <<tick, room, leaving, body>>

Pairs == {d \in SUBSET Players : \E p, q \in d : p # q /\ d = {p, q}}

TypeOK ==
  /\ phase \in {"open", "mobs", "pairs"}
  /\ todo \subseteq Players \cup Pairs
  /\ duel \in SUBSET Players /\ blows \subseteq duel
  /\ room \in [Players -> Rooms \cup {NoRoom}]
  /\ leaving \in [Players -> BOOLEAN]
  /\ act \in [Players -> {"stand", "rest", "fight", "death"}]
  /\ mob \in [Players -> BOOLEAN]
  /\ pvp \in [Players -> Players \cup {Nobody}]

Init ==
  /\ phase = "open" /\ todo = {} /\ duel = {} /\ blows = {}
  /\ room = [p \in Players |-> NoRoom]
  /\ leaving = [p \in Players |-> FALSE]
  /\ act = [p \in Players |-> "stand"]
  /\ mob = [p \in Players |-> FALSE]
  /\ pvp = [p \in Players |-> Nobody]

-----------------------------------------------------------------------------
(* Helpers *)

Online(p)   == room[p] # NoRoom
Command(p)  == phase = "open" /\ Online(p)
Here(p, q)  == Online(p) /\ room[p] = room[q]
Linked(p)   == pvp[p] # Nobody

(* The players process_pvp_ticks looks at *)
Counts(p)   == Online(p) /\ ~leaving[p]
Mutual(p)   == pvp[p] \in Players /\ pvp[pvp[p]] = p
Duels       == {d \in Pairs : \A p, q \in d : p # q => Counts(p) /\ pvp[p] = q}
Orphans     == {p \in Players : Counts(p) /\ Linked(p)
                                /\ \A d \in Duels : p \notin d}

(* clear_pvp_target of the players of S: one that remembers no mob stands. *)
Released(S) ==
  /\ pvp' = [p \in Players |-> IF p \in S THEN Nobody ELSE pvp[p]]
  /\ act' = [p \in Players |->
       IF p \in S /\ act[p] = "fight" /\ ~mob[p] THEN "stand" ELSE act[p]]
  /\ UNCHANGED mob

-----------------------------------------------------------------------------
(* Connections *)

Login(p, r) ==
  /\ phase = "open" /\ ~Online(p)
  /\ room' = [room EXCEPT ![p] = r]
  /\ UNCHANGED <<tick, leaving, body>>

(* The game loop, or a kick, asks the connection to end; the body stays. *)
AskLeave(p) ==
  /\ phase = "open" /\ Online(p) /\ ~leaving[p]
  /\ leaving' = [leaving EXCEPT ![p] = TRUE]
  /\ UNCHANGED <<tick, room, body>>

(* The client is removed with its body; nobody else's body is touched. *)
Disconnect(p) ==
  /\ phase = "open" /\ Online(p)
  /\ room' = [room EXCEPT ![p] = NoRoom]
  /\ leaving' = [leaving EXCEPT ![p] = FALSE]
  /\ act' = [act EXCEPT ![p] = "stand"]
  /\ mob' = [mob EXCEPT ![p] = FALSE]
  /\ pvp' = [pvp EXCEPT ![p] = Nobody]
  /\ UNCHANGED tick

-----------------------------------------------------------------------------
(* Commands *)

(* (mutant) The link of the target is not looked at. *)
Free_Any(q, p) == act[q] # "death" /\ ~mob[q]

(* Whom start_pvp_attack and apply_combat accept: not dead, and in no      *)
(* fight but one with p.                                                   *)
Free(q, p) == act[q] # "death" /\ pvp[q] \in {p, Nobody} /\ ~mob[q]

(* Both ends are set under the one lock of the clients. *)
Engage(p, q) ==
  /\ pvp' = [pvp EXCEPT ![p] = q, ![q] = p]
  /\ act' = [act EXCEPT ![p] = "fight", ![q] = "fight"]
  /\ UNCHANGED <<tick, room, leaving, mob>>

(* 쳐: the attacker is in no fight and not dead, the target does not rest. *)
Attack(p, q) ==
  /\ Command(p) /\ Here(p, q) /\ p # q
  /\ act[p] # "death"
  /\ ~Linked(p) /\ ~mob[p]
  /\ act[q] # "rest" /\ Free(q, p)
  /\ Engage(p, q)

(* 시전: a fighting caster reaches only its present opponent; one that does *)
(* not fight may still remember a mob.  A dead caster is not refused.      *)
Cast(p, q) ==
  /\ Command(p) /\ Here(p, q) /\ p # q
  /\ act[p] # "rest"
  /\ act[p] = "fight" => pvp[p] = q
  /\ Free(q, p)
  /\ Engage(p, q)

(* A fight with a mob begins for a player that does not fight: by command, *)
(* aggression or group attack, the last one also for a dead player.        *)
MeetMob(p) ==
  /\ phase = "open" /\ Online(p) /\ act[p] # "fight"
  /\ act' = [act EXCEPT ![p] = "fight"]
  /\ \E remembers \in BOOLEAN : mob' = [mob EXCEPT ![p] = remembers]
  /\ UNCHANGED <<tick, room, leaving, pvp>>

(* 도망: the opponent, if it is in the room and fights back, is released    *)
(* and p leaves; hostile says whether a mob attacks it where it arrives.   *)
Flee(p, r) ==
  /\ Command(p) /\ act[p] = "fight" /\ r # room[p]
  /\ mob[p] \/ \E q \in Players : pvp[p] = q /\ Here(q, p)
  /\ \E hostile \in BOOLEAN :
       LET freed == {q \in Players : pvp[p] = q /\ Here(q, p) /\ pvp[q] = p}
       IN /\ pvp' = [q \in Players |-> IF q \in freed \cup {p} THEN Nobody ELSE pvp[q]]
          /\ act' = [q \in Players |->
               IF q = p THEN (IF hostile THEN "fight" ELSE "stand")
               ELSE IF q \in freed /\ act[q] = "fight" /\ ~mob[q] THEN "stand"
               ELSE act[q]]
          /\ mob' = [mob EXCEPT ![p] = hostile]
  /\ room' = [room EXCEPT ![p] = r]
  /\ UNCHANGED <<tick, leaving>>

(* (mutant) A fight does not keep a player in the room. *)
Walk_Fighting(p, r) ==
  /\ Command(p) /\ act[p] # "rest" /\ r # room[p]
  /\ room' = [room EXCEPT ![p] = r]
  /\ UNCHANGED <<tick, leaving, body>>

(* A player that neither fights nor rests walks, be it dead. *)
Walk(p, r) ==
  /\ Command(p) /\ act[p] \in {"stand", "death"} /\ r # room[p]
  /\ room' = [room EXCEPT ![p] = r]
  /\ UNCHANGED <<tick, leaving, body>>

(* (mutant) A summons forgets to clear the link. *)
Summon_KeepLink(p, r) ==
  /\ phase = "open" /\ Online(p) /\ r # room[p]
  /\ room' = [room EXCEPT ![p] = r]
  /\ mob' = [mob EXCEPT ![p] = FALSE]
  /\ act' = [act EXCEPT ![p] = "stand"]
  /\ UNCHANGED <<tick, leaving, pvp>>

(* clear_summon_combat: only p's own end is cleared; its opponent is left  *)
(* to the next tick.                                                       *)
Summon(p, r) ==
  /\ phase = "open" /\ Online(p) /\ r # room[p]
  /\ room' = [room EXCEPT ![p] = r]
  /\ pvp' = [pvp EXCEPT ![p] = Nobody]
  /\ mob' = [mob EXCEPT ![p] = FALSE]
  /\ act' = [act EXCEPT ![p] = "stand"]
  /\ UNCHANGED <<tick, leaving>>

(* 쉬어 and 일어나 *)
Rest(p) ==
  /\ Command(p)
  /\ \/ act[p] = "stand" /\ act' = [act EXCEPT ![p] = "rest"]
     \/ act[p] = "rest" /\ act' = [act EXCEPT ![p] = "stand"]
  /\ UNCHANGED <<tick, room, leaving, mob, pvp>>

-----------------------------------------------------------------------------
(* The tick *)

TickStart ==
  /\ phase = "open"
  /\ phase' = "mobs"
  /\ todo' = {p \in Players : Counts(p)}
  /\ UNCHANGED <<duel, blows, room, leaving, body>>

(* What the tick does to p before the duels: a dead player may come to the *)
(* end of its death, one that fights mobs only may go on, win, lose sight  *)
(* of them, or die.                                                        *)
Update(p) ==
  /\ phase = "mobs" /\ p \in todo
  /\ todo' = todo \ {p}
  /\ \/ UNCHANGED <<act, mob>>
     \/ /\ act[p] = "death"
        /\ act' = [act EXCEPT ![p] = "rest"]
        /\ UNCHANGED mob
     \/ /\ act[p] = "fight" /\ ~Linked(p)
        /\ act' = [act EXCEPT ![p] = "stand"]
        /\ \E remembers \in BOOLEAN :
             /\ remembers => mob[p]
             /\ mob' = [mob EXCEPT ![p] = remembers]
     \/ /\ act[p] = "fight" /\ ~Linked(p) /\ mob[p]
        /\ act' = [act EXCEPT ![p] = "death"]
        /\ mob' = [mob EXCEPT ![p] = FALSE]
  /\ UNCHANGED <<phase, duel, blows, room, leaving, pvp>>

(* (mutant) A link to somebody who left is kept. *)
Sort_KeepGhosts ==
  /\ phase = "mobs" /\ todo = {}
  /\ phase' = "pairs"
  /\ todo' = Duels
  /\ Released({p \in Orphans : Counts(pvp[p])})
  /\ UNCHANGED <<duel, blows, room, leaving>>

(* process_pvp_ticks looks at all links, then clears those that are not    *)
(* returned or lead to somebody who is not there.                          *)
Sort ==
  /\ phase = "mobs" /\ todo = {}
  /\ phase' = "pairs"
  /\ todo' = Duels
  /\ Released(Orphans)
  /\ UNCHANGED <<duel, blows, room, leaving>>

(* The pairs strike: both blows are computed from the bodies as they were  *)
(* when the tick began ...  (A pair in two rooms or with a dead member     *)
(* would be released instead; LinksMutual says that there is none.)        *)
Strike(d) ==
  /\ phase = "pairs" /\ duel = {} /\ d \in todo
  /\ todo' = todo \ {d}
  /\ duel' = d
  /\ blows' \in SUBSET d
  /\ UNCHANGED <<phase, room, leaving, body>>

(* ... and apply_simultaneous_pvp_damage applies them: whoever is struck   *)
(* down dies, and a death ends the duel for both.                          *)
Dies(p) == p \in duel /\ \E q \in duel \ {p} : q \in blows

Apply ==
  /\ duel # {}
  /\ duel' = {} /\ blows' = {}
  /\ LET ended == IF blows = {} THEN {} ELSE duel
     IN /\ pvp' = [p \in Players |-> IF p \in ended THEN Nobody ELSE pvp[p]]
        /\ act' = [p \in Players |->
             IF Dies(p) THEN "death"
             ELSE IF p \in ended /\ act[p] = "fight" /\ ~mob[p] THEN "stand"
             ELSE act[p]]
  /\ UNCHANGED <<phase, todo, room, leaving, mob>>

TickEnd ==
  /\ phase = "pairs" /\ todo = {} /\ duel = {}
  /\ phase' = "open"
  /\ UNCHANGED <<todo, duel, blows, room, leaving, body>>

-----------------------------------------------------------------------------

Connection(p) == (\E r \in Rooms : Login(p, r)) \/ AskLeave(p) \/ Disconnect(p)

GameCommand(p) == \/ \E q \in Players : Attack(p, q) \/ Cast(p, q)
                  \/ \E r \in Rooms : Flee(p, r) \/ Walk(p, r) \/ Summon(p, r)
                  \/ MeetMob(p) \/ Rest(p)

Tick == \/ TickStart \/ Sort \/ Apply \/ TickEnd
        \/ \E p \in Players : Update(p)
        \/ \E d \in Pairs : Strike(d)

Next == Tick \/ \E p \in Players : Connection(p) \/ GameCommand(p)

(* The game loop ticks on, and each tick comes to its end. *)
Spec == Init /\ [][Next]_vars /\ WF_vars(Tick)

-----------------------------------------------------------------------------
(* Properties *)

(* A body with an opponent fights: nothing that ends a fight forgets the   *)
(* link, so a standing player is never struck by process_pvp_ticks.        *)
LinkMeansFight == \A p \in Players : Linked(p) => act[p] = "fight"

(* Once the tick has sorted the links, every one of a player that counts   *)
(* is returned by one that counts, is in the same room and alive, until    *)
(* the duels are done: what flight, summons, deaths and lost connections   *)
(* left behind is repaired, and nobody is struck from another room.        *)
LinksMutual ==
  phase = "pairs" =>
    \A p \in Players : Counts(p) /\ Linked(p) =>
       LET q == pvp[p]
       IN Counts(q) /\ pvp[q] = p /\ room[q] = room[p] /\ act[q] = "fight"

(* A duel is never taken over by a third player: while both ends name each *)
(* other, neither end is made to name somebody else.                       *)
NoTakeover == [][
  \A p \in Players : Mutual(p) => pvp'[p] \in {pvp[p], Nobody} ]_vars

(* Nobody that stays fights a ghost for ever: a link that is not returned  *)
(* goes away, by repair or because the other one attacks.                  *)
Haunted(p) == Counts(p) /\ Linked(p) /\ ~Mutual(p)
GhostsEnd  == \A p \in Players : Haunted(p) ~> ~Haunted(p)

=============================================================================
