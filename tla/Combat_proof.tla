---------------------------- MODULE Combat_proof ----------------------------
(***************************************************************************)
(* Proofs about the fights with mobs (Combat).                             *)
(*                                                                         *)
(* IInv is the inductive invariant: that a mob fights exactly while it has *)
(* opponents is inductive with the types.  The rewards need more: the      *)
(* slayer of each has had its round (the tick moves nobody twice) and none *)
(* is left when commands run again.                                        *)
(***************************************************************************)
EXTENDS Combat, ExpShares, FiniteSetTheorems, SequenceTheorems,
        WellFoundedInduction, TLAPS

(* The templates of some mobs *)
KeysOf(S) == {KeyOf[m] : m \in S}

SlayersStay == /\ phase = "open" => rewards = {} /\ todo = {}
               /\ \A r \in rewards : r.by \notin todo /\ room[r.by] = r.room

IInv == TypeOK /\ FightingMobHasOpponents /\ SlayersStay

-----------------------------------------------------------------------------
(* Lemmas about the lists of opponents *)

(* An enumeration of some mobs lists all of them and no others. *)
LEMMA Enumeration ==
  ASSUME NEW S \in SUBSET Mobs, NEW s \in SetToSeqs(S)
  PROVE  s \in Seq(Mobs) /\ ToSet(s) = S
  <1> DEFINE n == Cardinality(S)
             D == 1..n
             T == {s[i] : i \in D}
  <1>1. IsFiniteSet(S)
    BY CombatAssumption, FS_Subset
  <1>2. n \in Nat
    BY <1>1, FS_CardinalityType
  <1>3. s \in [D -> S] /\ \A i, j \in D : i # j => s[i] # s[j]
    BY DEF SetToSeqs
  <1> HIDE DEF n
  <1>4. s \in Seq(Mobs) /\ DOMAIN s = D
    BY <1>2, <1>3
  <1>5. s \in Bijection(D, T)
    <2>1. s \in [D -> T]
      BY <1>3
    <2>2. s \in Injection(D, T)
      BY <1>3, <2>1 DEF Injection, IsInjective
    <2>3. s \in Surjection(D, T)
      BY <2>1 DEF Surjection
    <2> QED
      BY <2>2, <2>3 DEF Bijection
  <1>6. IsFiniteSet(D) /\ Cardinality(D) = n
    BY <1>2, FS_Interval
  <1>7. ExistsBijection(D, T)
    BY <1>5 DEF ExistsBijection
  <1>8. Cardinality(T) = n
    BY <1>6, <1>7, FS_Bijection
  <1>9. T \in SUBSET S
    BY <1>3
  <1>10. T = S
    BY <1>1, <1>8, <1>9, FS_Subset DEF n
  <1> QED
    BY <1>4, <1>10 DEF ToSet

(* What is left of a list, and what has been appended to it *)
LEMMA RestTyped ==
  ASSUME NEW s \in Seq(Mobs), NEW gone, NEW t \in Rest(s, gone)
  PROVE  t \in Seq(Mobs) /\ ToSet(t) = ToSet(s) \ gone
  <1>1. ToSet(s) \ gone \in SUBSET Mobs
    BY DEF ToSet
  <1>2. t \in SetToSeqs(ToSet(s) \ gone)
    BY DEF Rest
  <1> QED
    BY <1>1, <1>2, Enumeration

(* Remembering opponents keeps the types of both lists. *)
LEMMA Remembered ==
  ASSUME BodyTypeOK, NEW p \in Players, NEW was \in Seq(Mobs),
         NEW wasKeys \in SUBSET Keys, NEW S \in SUBSET Mobs, NEW led,
         Remember(p, was, wasKeys, S, led)
  PROVE  ids' \in [Players -> Seq(Mobs)] /\ keys' \in [Players -> SUBSET Keys]
  <1>1. PICK s \in SetToSeqs(S \ ToSet(was)) : ids' = [ids EXCEPT ![p] = was \o s]
    BY DEF Remember
  <1>2. s \in Seq(Mobs)
    BY <1>1, Enumeration
  <1>3. was \o s \in Seq(Mobs)
    BY <1>2
  <1>4. wasKeys \cup KeysOf(S) \in SUBSET Keys
    BY DEF Keys, KeysOf
  <1>5. keys' = [keys EXCEPT ![p] = wasKeys \cup KeysOf(S)]
    BY DEF Remember, KeysOf
  <1> QED
    BY <1>1, <1>3, <1>4, <1>5 DEF BodyTypeOK

-----------------------------------------------------------------------------
(* The two sides of a fight *)

(* What the mobs are in a state *)
MobsAgree(ts, acts) == \A m \in Mobs : alive[m] => (acts[m] = 1 <=> ts[m] # {})

(* A player that leaves the lists of some mobs leaves none of them in a    *)
(* fight without opponents.                                                *)
LEMMA Leaving ==
  ASSUME MobsTypeOK, FightingMobHasOpponents, NEW p \in Players, NEW S \in SUBSET Mobs
  PROVE  /\ Without(S, p) \in [Mobs -> SUBSET Players]
         /\ Calmed(S, p) \in [Mobs -> 0..2]
         /\ MobsAgree(Without(S, p), Calmed(S, p))
  BY DEF MobsTypeOK, FightingMobHasOpponents, Without, Calmed, MobsAgree

(* What 쳐, 시전 and an arrival have in common: beside the opponents it     *)
(* remembers (was, wasKeys) p takes on the mobs of S, which had the lists  *)
(* ts and did acts; it fights then, or it stands.                            *)
Meets(p, was, wasKeys, S, led, ts, acts, fights) ==
  /\ Remember(p, was, wasKeys, S, led)
  /\ act' = [act EXCEPT ![p] = IF fights THEN "fight" ELSE "stand"]
  /\ targets' = [m \in Mobs |-> IF m \in S THEN ts[m] \cup {p} ELSE ts[m]]
  /\ mobAct' = [m \in Mobs |-> IF m \in S THEN 1 ELSE acts[m]]
  /\ room' \in [Players -> Rooms \cup {NoRoom}]
  /\ UNCHANGED <<phase, todo, step, alive, mobRoom, rewards, queued, call>>

LEMMA MeetsStep ==
  ASSUME IInv, phase = "open", NEW p \in Players,
         NEW was \in Seq(Mobs), NEW wasKeys \in SUBSET Keys,
         NEW S \in SUBSET Mobs, NEW led,
         NEW ts \in [Mobs -> SUBSET Players], NEW acts \in [Mobs -> 0..2],
         MobsAgree(ts, acts), NEW fights \in BOOLEAN,
         Meets(p, was, wasKeys, S, led, ts, acts, fights)
  PROVE  IInv'
  <1>1. /\ Remember(p, was, wasKeys, S, led)
        /\ act' = [act EXCEPT ![p] = IF fights THEN "fight" ELSE "stand"]
        /\ targets' = [m \in Mobs |-> IF m \in S THEN ts[m] \cup {p} ELSE ts[m]]
        /\ mobAct' = [m \in Mobs |-> IF m \in S THEN 1 ELSE acts[m]]
        /\ room' \in [Players -> Rooms \cup {NoRoom}]
        /\ UNCHANGED <<phase, todo, step, alive, mobRoom, rewards, queued, call>>
    BY DEF Meets
  <1>2. MobsTypeOK /\ BodyTypeOK /\ TickTypeOK /\ call \in Calls
    BY DEF IInv, TypeOK
  <1>3. ids' \in [Players -> Seq(Mobs)] /\ keys' \in [Players -> SUBSET Keys]
    BY <1>1, <1>2, Remembered
  <1>4. MobsTypeOK'
    <2>1. targets' \in [Mobs -> SUBSET Players]
      BY <1>1
    <2>2. mobAct' \in [Mobs -> 0..2]
      <3>1. \A m \in Mobs : (IF m \in S THEN 1 ELSE acts[m]) \in 0..2
        OBVIOUS
      <3> QED
        BY ONLY <3>1, <1>1
    <2> QED
      BY <1>1, <1>2, <2>1, <2>2 DEF MobsTypeOK
  <1>5. BodyTypeOK'
    <2>1. (IF fights THEN "fight" ELSE "stand") \in {"stand", "fight", "death", "rest"}
      OBVIOUS
    <2>2. act' \in [Players -> {"stand", "fight", "death", "rest"}]
      BY <1>1, <1>2, <2>1 DEF BodyTypeOK
    <2> QED
      BY <1>1, <1>2, <1>3, <2>2 DEF BodyTypeOK
  <1>6. TickTypeOK' /\ (call \in Calls)'
    BY <1>1, <1>2 DEF TickTypeOK
  <1>7. FightingMobHasOpponents'
    BY <1>1 DEF MobsAgree, FightingMobHasOpponents
  <1>8. SlayersStay'
    BY <1>1 DEF SlayersStay, IInv
  <1> QED
    BY <1>4, <1>5, <1>6, <1>7, <1>8 DEF IInv, TypeOK

(* What the invariant says of one body and of the mobs, as MeetsStep asks it *)
LEMMA Before ==
  ASSUME IInv, NEW p \in Players
  PROVE  /\ ids[p] \in Seq(Mobs) /\ keys[p] \in SUBSET Keys
         /\ targets \in [Mobs -> SUBSET Players] /\ mobAct \in [Mobs -> 0..2]
         /\ MobsAgree(targets, mobAct)
         /\ room \in [Players -> Rooms \cup {NoRoom}]
  BY DEF IInv, TypeOK, BodyTypeOK, MobsTypeOK, MobsAgree, FightingMobHasOpponents

(* An arrival, whoever attacks: both sides learn of it. *)
LEMMA ArriveStep ==
  ASSUME IInv, phase = "open", NEW p \in Players, NEW r \in Rooms,
         NEW was \in Seq(Mobs), NEW wasKeys \in SUBSET Keys,
         NEW ts \in [Mobs -> SUBSET Players], NEW acts \in [Mobs -> 0..2],
         MobsAgree(ts, acts), Arrive(p, r, was, wasKeys, ts, acts)
  PROVE  IInv'
  <1> DEFINE joining == {m \in MobsIn(r) : alive[m] /\ acts[m] = 0 /\ Kind[m] \in {1, 2}}
             hostile == \E m \in joining : Kind[m] = 1
             new == IF hostile THEN joining ELSE {}
  <1>1. new \in SUBSET Mobs /\ hostile \in BOOLEAN
    BY DEF MobsIn
  <1>2. room' \in [Players -> Rooms \cup {NoRoom}]
    BY DEF Arrive, IInv, TypeOK, BodyTypeOK
  <1>3. Meets(p, was, wasKeys, new, {}, ts, acts, hostile)
    BY <1>2 DEF Arrive, Meets, tick, owed
  <1> HIDE DEF new, hostile
  <1> QED
    BY <1>1, <1>3, MeetsStep

-----------------------------------------------------------------------------
(* Commands and connections *)

(* 쳐 *)
LEMMA AttackStep ==
  ASSUME IInv, NEW p \in Players, NEW m \in Mobs, Attack(p, m)
  PROVE  IInv'
  <1> DEFINE new == (Joining(room[p]) \ {m}) \cup {m}
  <1>1. new \in SUBSET Mobs
    BY DEF Joining, MobsIn
  <1>2. Meets(p, ids[p], {}, new, {m}, targets, mobAct, TRUE)
    BY Before DEF Attack, Meets, tick, owed, With
  <1>3. phase = "open" /\ {} \in SUBSET Keys
    BY DEF Attack, Command, Here
  <1> HIDE DEF new
  <1> QED
    BY <1>1, <1>2, <1>3, Before, MeetsStep

(* 시전 *)
LEMMA CastStep ==
  ASSUME IInv, NEW p \in Players, NEW m \in Mobs, Cast(p, m)
  PROVE  IInv'
  <1> DEFINE new == IF m \in ToSet(ids[p]) THEN {} ELSE Joining(room[p]) \cup {m}
  <1>1. new \in SUBSET Mobs
    BY DEF Joining, MobsIn
  <1>2. Meets(p, ids[p], keys[p], new, {m}, targets, mobAct, TRUE)
    BY Before DEF Cast, Meets, tick, owed, With
  <1>3. phase = "open"
    BY DEF Cast, Command, Here
  <1> HIDE DEF new
  <1> QED
    BY <1>1, <1>2, <1>3, Before, MeetsStep

(* Walking, 도망 and a summons *)
LEMMA MoveStep ==
  ASSUME IInv, NEW p \in Players, NEW r \in Rooms,
         Walk(p, r) \/ Flee(p, r) \/ Summon(p, r)
  PROVE  IInv'
  <1>0. MobsTypeOK /\ FightingMobHasOpponents
    BY DEF IInv, TypeOK
  <1>1. phase = "open"
    BY DEF Walk, Flee, Summon, Command, Here
  <1>2. CASE Walk(p, r)
    BY <1>1, <1>2, Before, ArriveStep DEF Walk
  <1>3. <<>> \in Seq(Mobs) /\ {} \in SUBSET Keys
    OBVIOUS
  <1>4. CASE Flee(p, r)
    <2>1. MobsIn(room[p]) \in SUBSET Mobs
      BY DEF MobsIn
    <2> QED
      BY <1>0, <1>1, <1>3, <1>4, <2>1, Leaving, ArriveStep DEF Flee
  <1>5. CASE Summon(p, r)
    <2>1. Mobs \in SUBSET Mobs
      OBVIOUS
    <2> QED
      BY <1>0, <1>1, <1>3, <1>5, <2>1, Leaving, ArriveStep DEF Summon
  <1> QED
    BY <1>2, <1>4, <1>5

(* 투척: the mobs that join in have an opponent, the one that dies is no    *)
(* living mob any more, and its reward names it.                           *)
LEMMA ThrowKillStep ==
  ASSUME IInv, NEW p \in Players, NEW m \in Mobs, ThrowKill(p, m)
  PROVE  IInv'
  <1> DEFINE begins == act[p] # "fight"
             joining == IF begins THEN Joining(room[p]) \ {m} ELSE {}
             left == (keys[p] \cup {KeyOf[n] : n \in joining}) \ {KeyOf[m]}
             reward == [RewardOf(m, p) EXCEPT !.targets = IF begins THEN @ \cup {p} ELSE @]
  <1>1. PICK rest \in Rest(ids[p], {m}), s \in SetToSeqs(joining \ ToSet(ids[p])) :
             /\ ids' = [ids EXCEPT ![p] = rest \o s]
             /\ act' = [act EXCEPT ![p] =
                          IF left = {} /\ rest \o s = <<>> THEN "stand" ELSE "fight"]
    BY DEF ThrowKill
  <1>2. /\ phase = "open" /\ keys' = [keys EXCEPT ![p] = left]
        /\ targets' = [With(joining, p) EXCEPT ![m] = {}]
        /\ mobAct' = [n \in Mobs |-> IF n = m THEN 2 ELSE IF n \in joining THEN 1 ELSE mobAct[n]]
        /\ queued' = queued \cup {reward}
        /\ alive' = [alive EXCEPT ![m] = FALSE]
        /\ UNCHANGED <<phase, todo, room, step, mobRoom, rewards, call>>
    BY DEF ThrowKill, Command, Here, tick
  <1>3. joining \in SUBSET Mobs
    BY DEF Joining, MobsIn
  <1>4. MobsTypeOK /\ BodyTypeOK /\ TickTypeOK /\ call \in Calls
    BY DEF IInv, TypeOK
  <1>5. left \in SUBSET Keys
    <2>1. keys[p] \in SUBSET Keys
      BY Before
    <2> QED
      BY <1>3, <2>1 DEF Keys
  <1>6. reward \in Reward
    <2>1. targets[m] \in SUBSET Players /\ mobRoom[m] \in Rooms
      BY <1>4 DEF MobsTypeOK
    <2>2. reward = [mob |-> m, by |-> p, room |-> mobRoom[m],
                    targets |-> IF begins THEN targets[m] \cup {p} ELSE targets[m]]
      <3> HIDE DEF begins
      <3> QED
        BY DEF RewardOf
    <2>3. (IF begins THEN targets[m] \cup {p} ELSE targets[m]) \in SUBSET Players
      BY <2>1
    <2> HIDE DEF reward, begins
    <2> QED
      BY <2>1, <2>2, <2>3 DEF Reward
  <1> HIDE DEF joining, left, reward
  <1>7. rest \o s \in Seq(Mobs)
    <2>1. ids[p] \in Seq(Mobs)
      BY Before
    <2>2. rest \in Seq(Mobs)
      BY <2>1, RestTyped
    <2>3. joining \ ToSet(ids[p]) \in SUBSET Mobs
      BY <1>3
    <2>4. s \in Seq(Mobs)
      BY <2>3, Enumeration
    <2> QED
      BY <2>2, <2>4
  <1>8. With(joining, p) \in [Mobs -> SUBSET Players]
    BY <1>4 DEF With, MobsTypeOK
  <1>9. MobsTypeOK'
    <2>1. alive' \in [Mobs -> BOOLEAN] /\ targets' \in [Mobs -> SUBSET Players]
      BY <1>2, <1>4, <1>8 DEF MobsTypeOK
    <2>2. \A n \in Mobs : (IF n = m THEN 2 ELSE IF n \in joining THEN 1 ELSE mobAct[n]) \in 0..2
      BY <1>4 DEF MobsTypeOK
    <2>3. mobAct' \in [Mobs -> 0..2]
      BY <1>2, <2>2
    <2> QED
      BY <1>2, <1>4, <2>1, <2>3 DEF MobsTypeOK
  <1>10. BodyTypeOK'
    <2> DEFINE a == IF left = {} /\ rest \o s = <<>> THEN "stand" ELSE "fight"
    <2>1. a \in {"stand", "fight", "death", "rest"}
      OBVIOUS
    <2>2. act' = [act EXCEPT ![p] = a]
      BY <1>1
    <2> HIDE DEF a
    <2>3. act' \in [Players -> {"stand", "fight", "death", "rest"}]
      BY <1>4, <2>1, <2>2 DEF BodyTypeOK
    <2>4. ids' \in [Players -> Seq(Mobs)] /\ keys' \in [Players -> SUBSET Keys]
      BY <1>1, <1>2, <1>4, <1>5, <1>7 DEF BodyTypeOK
    <2> QED
      BY <1>2, <1>4, <2>3, <2>4 DEF BodyTypeOK
  <1>11. TickTypeOK' /\ (call \in Calls)'
    BY <1>2, <1>4, <1>6 DEF TickTypeOK
  <1>12. FightingMobHasOpponents'
    <2> SUFFICES ASSUME NEW n \in Mobs, alive'[n] PROVE mobAct'[n] = 1 <=> targets'[n] # {}
      BY DEF FightingMobHasOpponents
    <2>1. n # m /\ alive[n]
      BY <1>2, <1>4 DEF MobsTypeOK
    <2>2. targets'[n] = With(joining, p)[n]
      BY <1>2, <1>8, <2>1
    <2>3. targets'[n] = IF n \in joining THEN targets[n] \cup {p} ELSE targets[n]
      BY <2>2 DEF With
    <2>4. mobAct'[n] = IF n \in joining THEN 1 ELSE mobAct[n]
      BY <1>2, <2>1
    <2>5. mobAct[n] = 1 <=> targets[n] # {}
      BY <2>1 DEF IInv, FightingMobHasOpponents
    <2> QED
      BY <2>3, <2>4, <2>5
  <1>13. SlayersStay'
    BY <1>2 DEF SlayersStay, IInv
  <1> QED
    BY <1>9, <1>10, <1>11, <1>12, <1>13 DEF IInv, TypeOK

(* Commands that change no opponent: nobody attacks at login, a lost body  *)
(* is forgotten on its own side, a dead one walks past everybody.          *)
LEMMA QuietStep ==
  ASSUME IInv, NEW p \in Players, NEW r \in Rooms,
         Login(p, r) \/ Disconnect(p) \/ WalkDead(p, r) \/ StandUp(p)
  PROVE  IInv'
  <1>1. /\ phase = "open" /\ rewards = {} /\ rewards' = {} /\ todo = {}
        /\ UNCHANGED <<phase, todo, alive, mobAct, targets, mobRoom, queued>>
    BY DEF Login, Disconnect, WalkDead, StandUp, Command, Here, mobs, tick, owed, IInv,
           SlayersStay
  <1>2. MobsTypeOK /\ BodyTypeOK /\ TickTypeOK /\ call \in Calls
    BY DEF IInv, TypeOK
  <1>3. MobsTypeOK' /\ TickTypeOK'
    BY <1>1, <1>2 DEF MobsTypeOK, TickTypeOK
  <1>4. (call \in Calls)'
    <2>1. \/ call' = call
          \/ call' = [call EXCEPT !.pending = @ \ {p}, !.busy = @ /\ p # Leader]
      BY DEF Login, Disconnect, WalkDead, StandUp
    <2>2. (call.busy /\ p # Leader) \in BOOLEAN /\ call.pending \ {p} \in SUBSET Players
      BY <1>2 DEF Calls
    <2> QED
      BY <1>2, <2>1, <2>2 DEF Calls
  <1>5. BodyTypeOK'
    <2>1. 0 \in 0..LastStep /\ <<>> \in Seq(Mobs)
      BY CombatAssumption
    <2>2. UNCHANGED step \/ step' = [step EXCEPT ![p] = 0]
      BY DEF Login, Disconnect, WalkDead, StandUp
    <2>3. step' \in [Players -> 0..LastStep]
      BY <1>2, <2>1, <2>2 DEF BodyTypeOK
    <2>4. /\ UNCHANGED ids \/ ids' = [ids EXCEPT ![p] = <<>>]
          /\ UNCHANGED keys \/ keys' = [keys EXCEPT ![p] = {}]
      BY DEF Login, Disconnect, WalkDead, StandUp
    <2>5. /\ ids' \in [Players -> Seq(Mobs)]
          /\ keys' \in [Players -> SUBSET Keys]
      BY <1>2, <2>1, <2>4 DEF BodyTypeOK
    <2>6. /\ room' \in [Players -> Rooms \cup {NoRoom}]
          /\ act' \in [Players -> {"stand", "fight", "death", "rest"}]
      BY <1>2 DEF BodyTypeOK, Login, Disconnect, WalkDead, StandUp
    <2> QED
      BY <2>3, <2>5, <2>6 DEF BodyTypeOK
  <1>6. FightingMobHasOpponents' /\ SlayersStay'
    BY <1>1 DEF FightingMobHasOpponents, SlayersStay, IInv
  <1> QED
    BY <1>3, <1>4, <1>5, <1>6 DEF IInv, TypeOK

(* 무리합: the command only decides ... *)
LEMMA GroupAttackStep ==
  ASSUME IInv, NEW p \in Players, GroupAttack(p)
  PROVE  IInv'
  <1> DEFINE S == {q \in Players : Online(q) /\ (q = Leader \/ act[q] # "fight")}
  <1>1. /\ call' = [busy |-> TRUE, told |-> {}, ids |-> ids[p], keys |-> keys[p], pending |-> S]
        /\ UNCHANGED <<phase, todo, room, act, ids, keys, step, alive, mobAct, targets,
                       mobRoom, rewards, queued>>
    BY DEF GroupAttack, tick, body, mobs, owed
  <1>2. S \in SUBSET Players
    OBVIOUS
  <1> HIDE DEF S
  <1>3. call' \in Calls
    BY <1>1, <1>2, Before DEF Calls
  <1> QED
    BY <1>1, <1>3 DEF IInv, TypeOK, MobsTypeOK, BodyTypeOK, TickTypeOK,
                      FightingMobHasOpponents, SlayersStay

(* ... a body is written later, whatever it does by then ... *)
LEMMA WriteBodyStep ==
  ASSUME IInv, NEW q \in Players, WriteBody(q)
  PROVE  IInv'
  <1>1. MobsTypeOK /\ BodyTypeOK /\ TickTypeOK /\ call \in Calls
    BY DEF IInv, TypeOK
  <1>2. /\ ids' = [ids EXCEPT ![q] = call.ids]
        /\ act' = [act EXCEPT ![q] = "fight"]
        /\ call' = [call EXCEPT !.pending = @ \ {q}, !.told = @ \cup {q}]
        /\ UNCHANGED <<phase, todo, room, step, alive, mobAct, targets, mobRoom, rewards,
                       queued>>
    BY DEF WriteBody, tick, mobs, owed
  <1>3. PICK last \in SUBSET keys[q] : keys' = [keys EXCEPT ![q] = call.keys \cup last]
    BY DEF WriteBody
  <1>4. call.ids \in Seq(Mobs) /\ call.keys \cup last \in SUBSET Keys
    BY <1>1, Before DEF Calls
  <1>5. ids' \in [Players -> Seq(Mobs)] /\ keys' \in [Players -> SUBSET Keys]
    BY <1>1, <1>2, <1>3, <1>4 DEF BodyTypeOK
  <1>6. act' \in [Players -> {"stand", "fight", "death", "rest"}]
    BY <1>1, <1>2 DEF BodyTypeOK
  <1>7. (call \in Calls)'
    BY <1>1, <1>2 DEF Calls
  <1> QED
    BY <1>1, <1>2, <1>5, <1>6, <1>7 DEF IInv, TypeOK, MobsTypeOK, BodyTypeOK, TickTypeOK,
                                    FightingMobHasOpponents, SlayersStay

(* ... and the mobs are told at last, in whatever room they are by then. *)
LEMMA GroupLinksStep ==
  ASSUME IInv, GroupLinks
  PROVE  IInv'
  <1> DEFINE foes(m) == {q \in call.told : m \in ToSet(call.ids) /\ room[q] = mobRoom[m]}
  <1>1. /\ targets' = [m \in Mobs |-> targets[m] \cup foes(m)]
        /\ mobAct' = [m \in Mobs |-> IF foes(m) # {} THEN 1 ELSE mobAct[m]]
        /\ call' = NoCall
        /\ UNCHANGED <<phase, todo, room, act, ids, keys, step, alive, mobRoom, rewards, queued>>
    BY DEF GroupLinks, tick, body, owed
  <1>2. MobsTypeOK /\ BodyTypeOK /\ TickTypeOK /\ call \in Calls
    BY DEF IInv, TypeOK
  <1>3. \A m \in Mobs : foes(m) \subseteq Players
    BY <1>2 DEF Calls
  <1> HIDE DEF foes
  <1>4. MobsTypeOK'
    BY <1>1, <1>2, <1>3 DEF MobsTypeOK
  <1>5. BodyTypeOK' /\ TickTypeOK'
    BY <1>1, <1>2 DEF BodyTypeOK, TickTypeOK
  <1>6. call' \in Calls
    BY <1>1 DEF Calls, NoCall
  <1>7. FightingMobHasOpponents' /\ SlayersStay'
    BY <1>1 DEF FightingMobHasOpponents, SlayersStay, IInv
  <1> QED
    BY <1>4, <1>5, <1>6, <1>7 DEF IInv, TypeOK

-----------------------------------------------------------------------------
(* The tick *)

(* A player's part of the tick, as far as the rewards go: its turn is over *)
(* and it was the only one that may have moved, unless it slew.            *)
LEMMA TurnOver ==
  ASSUME IInv, NEW p \in Players, Updating(p), Done(p), rewards' = rewards,
         \A q \in Players \ {p} : room'[q] = room[q]
  PROVE  SlayersStay'
  <1>1. \A r \in rewards : r.by \in Players
    BY DEF IInv, TypeOK, TickTypeOK, Reward
  <1> QED
    BY <1>1 DEF Updating, Done, SlayersStay, IInv

(* A turn in which nobody strikes *)
LEMMA PeacefulTurn ==
  ASSUME IInv, NEW p \in Players, Idle(p) \/ Dying(p) \/ LostFoe(p)
  PROVE  IInv'
  <1>1. /\ Updating(p) /\ Done(p)
        /\ UNCHANGED <<ids, keys, alive, mobAct, targets, mobRoom, rewards, queued, call>>
    BY DEF Idle, Dying, LostFoe, mobs, body, owed
  <1>2. MobsTypeOK /\ BodyTypeOK /\ TickTypeOK /\ call \in Calls
    BY DEF IInv, TypeOK
  <1>3. MobsTypeOK' /\ TickTypeOK' /\ (call \in Calls)'
    BY <1>1, <1>2 DEF MobsTypeOK, TickTypeOK, Done
  <1>4. BodyTypeOK'
    <2>1. CASE Dying(p)
      BY <1>1, <1>2, <2>1, CombatAssumption DEF BodyTypeOK, Dying
    <2>2. CASE Idle(p) \/ LostFoe(p)
      BY <1>1, <1>2, <2>2 DEF BodyTypeOK, Idle, LostFoe, body
    <2> QED
      BY <2>1, <2>2
  <1>5. \A q \in Players \ {p} : room'[q] = room[q]
    BY <1>2 DEF BodyTypeOK, Idle, Dying, LostFoe, body
  <1>6. FightingMobHasOpponents'
    BY <1>1 DEF FightingMobHasOpponents, IInv
  <1>7. SlayersStay'
    BY <1>1, <1>5, TurnOver
  <1> QED
    BY <1>3, <1>4, <1>6, <1>7 DEF IInv, TypeOK

(* The mobs a round is about are mobs of the room. *)
LEMMA RoundMobs ==
  ASSUME IInv, NEW p \in Players
  PROVE  Firsts(p) \subseteq MobsIn(room[p]) /\ Foes(p) \subseteq MobsIn(room[p])
         /\ MobsIn(room[p]) \subseteq Mobs
  BY DEF Firsts, Foes, MobsIn

(* What a round that p survives does, with its witnesses: the mob it is    *)
(* about and those that die                                                *)
Over(f, slain)   == ~alive[f] \/ f \in slain
Fallen(f, slain) == IF Over(f, slain) THEN slain \cup {f} ELSE slain
GoesOn(p, f, slain) ==
  \/ ids[p] # <<>> /\ GoesOnById(p, Fallen(f, slain), Over(f, slain))
  \/ ids[p] = <<>> /\ GoesOnByKey(p, f, Fallen(f, slain), Over(f, slain))
RoundWith(p, f, slain) ==
  /\ Awarded(p, slain)
  /\ alive' = [m \in Mobs |-> alive[m] /\ m \notin slain]
  /\ targets' = [m \in Mobs |-> IF m \in Fallen(f, slain) THEN {} ELSE targets[m]]
  /\ mobAct' = [m \in Mobs |-> IF m \in Fallen(f, slain) THEN 2 ELSE mobAct[m]]
  /\ GoesOn(p, f, slain)

LEMMA RoundWitness ==
  ASSUME NEW p \in Players, Round(p)
  PROVE  \E f \in Firsts(p), slain \in SUBSET Foes(p) : RoundWith(p, f, slain)
  <1>1. PICK f \in Firsts(p), slain \in SUBSET Foes(p) :
       LET over == ~alive[f] \/ f \in slain
           fallen == IF over THEN slain \cup {f} ELSE slain
       IN /\ Awarded(p, slain)
          /\ alive' = [m \in Mobs |-> alive[m] /\ m \notin slain]
          /\ targets' = [m \in Mobs |-> IF m \in fallen THEN {} ELSE targets[m]]
          /\ mobAct' = [m \in Mobs |-> IF m \in fallen THEN 2 ELSE mobAct[m]]
          /\ \/ ids[p] # <<>> /\ GoesOnById(p, fallen, over)
             \/ ids[p] = <<>> /\ GoesOnByKey(p, f, fallen, over)
    BY DEF Round
  <1>2. RoundWith(p, f, slain)
    BY <1>1 DEF RoundWith, GoesOn, Fallen, Over
  <1> QED
    BY <1>2

(* The body after its round: it stands with empty lists, or fights with    *)
(* lists of mobs and keys.                                                 *)
LEMMA RoundBody ==
  ASSUME IInv, NEW p \in Players, NEW f \in Firsts(p), NEW slain \in SUBSET Foes(p),
         GoesOn(p, f, slain)
  PROVE  \/ Stands(p)
         \/ \E left \in Seq(Mobs), leftKeys \in SUBSET Keys : Fights(p, left, leftKeys)
  <1>1. ids[p] \in Seq(Mobs) /\ keys[p] \in SUBSET Keys /\ <<>> \in Seq(Mobs)
    BY Before
  <1> DEFINE fallen == Fallen(f, slain)
             over == Over(f, slain)
  <1>2. CASE GoesOnById(p, fallen, over)
    <2>1. PICK left \in Rest(ids[p], fallen) :
             \/ Fights(p, left, keys[p])
             \/ Fights(p, left, keys[p] \cup
                          {KeyOf[m] : m \in Foremost(left, Foes(p) \ fallen)})
             \/ Stands(p)
      BY <1>2 DEF GoesOnById
    <2>2. left \in Seq(Mobs)
      BY <1>1, RestTyped
    <2>3. Foremost(left, Foes(p) \ fallen) \subseteq Mobs
      BY RoundMobs DEF Foremost
    <2>4. {KeyOf[m] : m \in Foremost(left, Foes(p) \ fallen)} \subseteq Keys
      BY <2>3 DEF Keys
    <2> QED
      BY <1>1, <2>1, <2>2, <2>4
  <1>3. CASE GoesOnByKey(p, f, fallen, over)
    <2>1. PICK left : /\ left = keys[p] \ {KeyOf[m] : m \in fallen}
                      /\ Fights(p, <<>>, left) \/ Stands(p)
      BY <1>3 DEF GoesOnByKey
    <2>2. left \in SUBSET Keys
      BY <1>1, <2>1
    <2> QED
      BY <1>1, <2>1, <2>2
  <1> QED
    BY <1>2, <1>3 DEF GoesOn

(* A round keeps the types of the bodies, and no corpse has opponents. *)
LEMMA RoundStep ==
  ASSUME IInv, NEW p \in Players, Round(p)
  PROVE  IInv'
  <1>1. Updating(p) /\ Done(p) /\ UNCHANGED <<room, step, mobRoom, queued, call>>
    BY DEF Round
  <1>2. PICK f \in Firsts(p), slain \in SUBSET Foes(p) : RoundWith(p, f, slain)
    BY RoundWitness
  <1> DEFINE fallen == Fallen(f, slain)
  <1>3. /\ rewards' = rewards \cup {RewardOf(m, p) : m \in slain}
        /\ alive' = [m \in Mobs |-> alive[m] /\ m \notin slain]
        /\ targets' = [m \in Mobs |-> IF m \in fallen THEN {} ELSE targets[m]]
        /\ mobAct' = [m \in Mobs |-> IF m \in fallen THEN 2 ELSE mobAct[m]]
        /\ GoesOn(p, f, slain)
    BY <1>2 DEF RoundWith, Awarded
  <1>4. MobsTypeOK /\ BodyTypeOK /\ TickTypeOK /\ call \in Calls
    BY DEF IInv, TypeOK
  <1>5. \A m \in slain : m \in Mobs /\ mobRoom[m] = room[p]
    BY RoundMobs DEF MobsIn
  <1>6. \A m \in Mobs : m \in fallen => ~alive'[m]
    <2>1. \A m \in fallen : m \in slain \/ ~alive[m]
      BY DEF Fallen, Over
    <2> QED
      BY <1>3, <2>1
  <1> HIDE DEF fallen
  <1>7. MobsTypeOK'
    <2>1. alive' \in [Mobs -> BOOLEAN] /\ targets' \in [Mobs -> SUBSET Players]
      BY <1>3, <1>4 DEF MobsTypeOK
    <2>2. \A m \in Mobs : (IF m \in fallen THEN 2 ELSE mobAct[m]) \in 0..2
      BY <1>4 DEF MobsTypeOK
    <2>3. mobAct' \in [Mobs -> 0..2]
      BY <1>3, <2>2
    <2> QED
      BY <1>1, <1>4, <2>1, <2>3 DEF MobsTypeOK
  <1>8. BodyTypeOK'
    <2>1. \/ Stands(p)
          \/ \E left \in Seq(Mobs), leftKeys \in SUBSET Keys : Fights(p, left, leftKeys)
      BY <1>3, RoundBody
    <2>2. PICK a \in {"stand", "fight"}, left \in Seq(Mobs), leftKeys \in SUBSET Keys :
              /\ act' = [act EXCEPT ![p] = a]
              /\ ids' = [ids EXCEPT ![p] = left]
              /\ keys' = [keys EXCEPT ![p] = leftKeys]
      <3>1. CASE Stands(p)
        <4>1. "stand" \in {"stand", "fight"} /\ <<>> \in Seq(Mobs) /\ {} \in SUBSET Keys
          OBVIOUS
        <4> QED
          BY <3>1, <4>1 DEF Stands
      <3>2. CASE \E left \in Seq(Mobs), leftKeys \in SUBSET Keys : Fights(p, left, leftKeys)
        BY <3>2 DEF Fights
      <3> QED
        BY <2>1, <3>1, <3>2
    <2>3. act' \in [Players -> {"stand", "fight", "death", "rest"}]
      BY <1>4, <2>2 DEF BodyTypeOK
    <2>4. ids' \in [Players -> Seq(Mobs)] /\ keys' \in [Players -> SUBSET Keys]
      BY <1>4, <2>2 DEF BodyTypeOK
    <2> QED
      BY <1>1, <1>4, <2>3, <2>4 DEF BodyTypeOK
  <1>9. rewards' \subseteq Reward /\ SlayersStay'
    <2>1. ASSUME NEW m \in slain
          PROVE  /\ RewardOf(m, p) \in Reward
                 /\ RewardOf(m, p).by = p /\ RewardOf(m, p).room = room[p]
      BY <1>4, <1>5 DEF RewardOf, Reward, MobsTypeOK
    <2>2. phase' = "tick" /\ todo' = todo \ {p}
      BY <1>1 DEF Updating, Done
    <2> QED
      BY <1>1, <1>3, <1>4, <2>1, <2>2 DEF SlayersStay, IInv, TickTypeOK
  <1>10. TickTypeOK' /\ (call \in Calls)'
    BY <1>1, <1>4, <1>9 DEF TickTypeOK, Done
  <1>11. FightingMobHasOpponents'
    BY <1>3, <1>6 DEF FightingMobHasOpponents, IInv
  <1> QED
    BY <1>7, <1>8, <1>9, <1>10, <1>11 DEF IInv, TypeOK

(* A round that kills p: it leaves the lists of the mobs of its room. *)
LEMMA KilledStep ==
  ASSUME IInv, NEW p \in Players, Killed(p)
  PROVE  IInv'
  <1> DEFINE here == MobsIn(room[p])
  <1>1. /\ Updating(p) /\ Done(p)
        /\ step' = [step EXCEPT ![p] = 0]
        /\ ids' = [ids EXCEPT ![p] = <<>>]
        /\ keys' = [keys EXCEPT ![p] = {}]
        /\ UNCHANGED <<room, alive, mobRoom, rewards, queued, call>>
    BY DEF Killed, owed
  <1>2. PICK corpse \in SUBSET Mobs :
        /\ \A m \in corpse : ~alive[m]
        /\ targets' = [m \in Mobs |-> IF m \in corpse THEN {} ELSE Without(here, p)[m]]
        /\ mobAct' = [m \in Mobs |-> IF m \in corpse THEN 2 ELSE Calmed(here, p)[m]]
        /\ act' = [act EXCEPT ![p] = IF corpse = {} THEN "death" ELSE "stand"]
    <2>1. PICK f \in Firsts(p) :
            LET corpse == IF alive[f] THEN {} ELSE {f}
            IN /\ targets' = [m \in Mobs |-> IF m \in corpse THEN {} ELSE Without(here, p)[m]]
               /\ mobAct' = [m \in Mobs |-> IF m \in corpse THEN 2 ELSE Calmed(here, p)[m]]
               /\ act' = [act EXCEPT ![p] = IF corpse = {} THEN "death" ELSE "stand"]
      BY DEF Killed
    <2>2. f \in Mobs
      BY RoundMobs
    <2>3. CASE alive[f]
      <3> WITNESS {} \in SUBSET Mobs
      <3> QED
        BY <2>1, <2>3
    <2>4. CASE ~alive[f]
      <3> {f} \in SUBSET Mobs
        BY <2>2
      <3> WITNESS {f} \in SUBSET Mobs
      <3> QED
        BY <2>1, <2>4
    <2> QED
      BY <2>3, <2>4
  <1>3. MobsTypeOK /\ BodyTypeOK /\ TickTypeOK /\ call \in Calls
    BY DEF IInv, TypeOK
  <1>4. /\ Without(here, p) \in [Mobs -> SUBSET Players]
        /\ Calmed(here, p) \in [Mobs -> 0..2]
        /\ MobsAgree(Without(here, p), Calmed(here, p))
    <2>1. here \in SUBSET Mobs
      BY DEF MobsIn
    <2> QED
      BY <1>3, <2>1, Leaving DEF IInv
  <1> HIDE DEF here
  <1>5. MobsTypeOK'
    BY <1>1, <1>2, <1>3, <1>4 DEF MobsTypeOK
  <1>6. BodyTypeOK'
    <2>1. 0 \in 0..LastStep /\ <<>> \in Seq(Mobs)
      BY CombatAssumption
    <2> QED
      BY <1>1, <1>2, <1>3, <2>1 DEF BodyTypeOK
  <1>7. TickTypeOK' /\ (call \in Calls)'
    BY <1>1, <1>3 DEF TickTypeOK, Done
  <1>8. FightingMobHasOpponents'
    BY <1>1, <1>2, <1>4 DEF FightingMobHasOpponents, MobsAgree
  <1>9. SlayersStay'
    BY <1>1, TurnOver
  <1> QED
    BY <1>5, <1>6, <1>7, <1>8, <1>9 DEF IInv, TypeOK

(* The tick begins, or settles the rewards. *)
LEMMA TickEdge ==
  ASSUME IInv, TickStart \/ Settle
  PROVE  IInv'
  <1>1. /\ rewards' = {} /\ queued' \subseteq queued
        /\ todo' \subseteq Players /\ phase' \in {"open", "tick"}
        /\ phase' = "open" => todo' = {}
        /\ UNCHANGED <<room, act, ids, keys, step, alive, mobAct, targets, mobRoom, call>>
    BY DEF TickStart, Settle, body, mobs, owed, IInv, SlayersStay, TypeOK, TickTypeOK
  <1>2. MobsTypeOK' /\ BodyTypeOK' /\ TickTypeOK' /\ (call \in Calls)'
    BY <1>1 DEF IInv, TypeOK, MobsTypeOK, BodyTypeOK, TickTypeOK
  <1> QED
    BY <1>1, <1>2 DEF IInv, TypeOK, FightingMobHasOpponents, SlayersStay

(* A mob comes back without opponents, or changes rooms at rest. *)
LEMMA RoomUpdateStep ==
  ASSUME IInv, NEW m \in Mobs, RoomUpdate(m)
  PROVE  IInv'
  <1>1. /\ \/ alive' = alive /\ mobAct' = mobAct /\ targets' = targets
           \/ /\ alive' = [alive EXCEPT ![m] = TRUE]
              /\ mobAct' = [mobAct EXCEPT ![m] = 0]
              /\ targets' = [targets EXCEPT ![m] = {}]
        /\ UNCHANGED <<phase, todo, room, act, ids, keys, step, rewards, queued, call>>
    BY DEF RoomUpdate, Respawn, Wander, tick, body, owed
  <1>2. MobsTypeOK /\ BodyTypeOK /\ TickTypeOK /\ call \in Calls
    BY DEF IInv, TypeOK
  <1>3. mobRoom' \in [Mobs -> Rooms]
    BY <1>2, CombatAssumption DEF MobsTypeOK, RoomUpdate, Respawn, Wander
  <1>4. MobsTypeOK'
    <2>1. alive' \in [Mobs -> BOOLEAN] /\ targets' \in [Mobs -> SUBSET Players]
      BY <1>1, <1>2 DEF MobsTypeOK
    <2>2. mobAct' \in [Mobs -> 0..2]
      <3>1. 0 \in 0..2
        OBVIOUS
      <3> QED
        BY <1>1, <1>2, <3>1 DEF MobsTypeOK
    <2> QED
      BY <1>3, <2>1, <2>2 DEF MobsTypeOK
  <1>5. BodyTypeOK' /\ TickTypeOK' /\ (call \in Calls)'
    BY <1>1, <1>2 DEF BodyTypeOK, TickTypeOK
  <1>6. FightingMobHasOpponents'
    BY <1>1, <1>2 DEF FightingMobHasOpponents, IInv, MobsTypeOK
  <1>7. SlayersStay'
    BY <1>1 DEF SlayersStay, IInv
  <1> QED
    BY <1>4, <1>5, <1>6, <1>7 DEF IInv, TypeOK

-----------------------------------------------------------------------------
(* The inductive invariant *)

(* At the start nobody fights and every mob lives where it belongs. *)
LEMMA Beginning == Init => IInv
  <1> SUFFICES ASSUME Init PROVE IInv
    OBVIOUS
  <1> USE DEF Init
  <1>1. 0 \in 0..LastStep /\ <<>> \in Seq(Mobs) /\ 0 \in 0..2
    BY CombatAssumption
  <1>2. MobsTypeOK /\ BodyTypeOK /\ TickTypeOK
    BY <1>1, CombatAssumption DEF MobsTypeOK, BodyTypeOK, TickTypeOK
  <1>3. call \in Calls
    BY <1>1 DEF Calls, NoCall
  <1> QED
    BY <1>2, <1>3 DEF IInv, TypeOK, FightingMobHasOpponents, SlayersStay

(* IInv is inductive. *)
LEMMA Induction == IInv /\ [Next]_vars => IInv'
  <1> SUFFICES ASSUME IInv, [Next]_vars PROVE IInv'
    OBVIOUS
  <1>1. ASSUME NEW p \in Players, PlayerStep(p) PROVE IInv'
    <2>1. CASE \E r \in Rooms : Walk(p, r) \/ Flee(p, r) \/ Summon(p, r)
      BY <2>1, MoveStep
    <2>2. CASE \/ Disconnect(p) \/ StandUp(p)
               \/ \E r \in Rooms : Login(p, r) \/ WalkDead(p, r)
      BY <2>2, QuietStep, CombatAssumption
    <2>3. CASE \E m \in Mobs : Attack(p, m) \/ Cast(p, m) \/ ThrowKill(p, m)
      BY <2>3, AttackStep, CastStep, ThrowKillStep
    <2>4. CASE GroupAttack(p) \/ WriteBody(p)
      BY <2>4, GroupAttackStep, WriteBodyStep
    <2> QED
      BY <1>1, <2>1, <2>2, <2>3, <2>4 DEF PlayerStep
  <1>2. ASSUME NEW p \in Players, TickPlayer(p) PROVE IInv'
    BY <1>2, PeacefulTurn, RoundStep, KilledStep DEF TickPlayer
  <1>3. ASSUME NEW m \in Mobs, RoomUpdate(m) PROVE IInv'
    BY <1>3, RoomUpdateStep
  <1>4. CASE GroupLinks \/ TickStart \/ Settle
    BY <1>4, GroupLinksStep, TickEdge
  <1>5. CASE UNCHANGED vars
    BY <1>5 DEF vars, tick, body, mobs, owed, IInv, TypeOK, MobsTypeOK, BodyTypeOK,
                TickTypeOK, FightingMobHasOpponents, SlayersStay
  <1> QED
    BY <1>1, <1>2, <1>3, <1>4, <1>5 DEF Next

(* IInv holds in every reachable state. *)
LEMMA Invariance == Spec => []IInv
  BY Beginning, Induction, PTL DEF Spec

-----------------------------------------------------------------------------
(* Theorems *)

(* The variables keep their types: rewards name players, mobs and rooms,   *)
(* lists of opponents hold mobs only.                                      *)
THEOREM TypeCorrect == Spec => []TypeOK
  BY Invariance, PTL DEF IInv

(* A living mob fights exactly while it has opponents. *)
THEOREM MobsFightSomebody == Spec => []FightingMobHasOpponents
  BY Invariance, PTL DEF IInv

(* The slayer of a mob is paid when the rewards are settled, unless the    *)
(* limit was reached without it: it stands where the reward looks for it.  *)
THEOREM SlayersArePaid == Spec => []SlayerIsPaid
  <1>1. ASSUME IInv PROVE SlayerIsPaid
    <2> SUFFICES ASSUME NEW r \in rewards, r.by \in r.targets, NEW S \in Payees(r)
                 PROVE  r.by \in S \/ Cardinality(S) = MaxPaid
      BY DEF SlayerIsPaid
    <2> DEFINE present == {q \in r.targets : room[q] = r.room}
    <2>1. r.by \in present
      BY <1>1 DEF IInv, SlayersStay
    <2>2. S \in Taken(present)
      BY DEF Payees
    <2> HIDE DEF present
    <2> QED
      BY <2>1, <2>2 DEF Taken, kSubset
  <1> QED
    BY <1>1, Invariance, PTL

(* A body that fights on after its round has somebody to fight. *)
LEMMA RoundLeavesFoe ==
  ASSUME IInv, NEW p \in Players, Round(p), act'[p] = "fight"
  PROVE  \E m \in Mobs : /\ alive'[m] /\ mobRoom'[m] = room'[p]
                         /\ m \in ToSet(ids'[p]) \/ KeyOf[m] \in keys'[p]
  <1>1. UNCHANGED <<room, mobRoom>>
    BY DEF Round
  <1>2. PICK f \in Firsts(p), slain \in SUBSET Foes(p) : RoundWith(p, f, slain)
    BY RoundWitness
  <1> DEFINE over == Over(f, slain)
             fallen == Fallen(f, slain)
  <1>3. BodyTypeOK
    BY DEF IInv, TypeOK
  <1>4. alive' = [m \in Mobs |-> alive[m] /\ m \notin slain] /\ GoesOn(p, f, slain)
    BY <1>2 DEF RoundWith
  <1>5. ~Stands(p)
    BY <1>3 DEF Stands, BodyTypeOK
  <1>6. ASSUME NEW left, NEW leftKeys, Fights(p, left, leftKeys)
        PROVE  ids'[p] = left /\ keys'[p] = leftKeys
    BY <1>3, <1>6 DEF Fights, BodyTypeOK
  <1>7. /\ f \in Mobs /\ mobRoom[f] = room[p]
        /\ ~over => alive'[f] /\ f \notin fallen
    BY <1>4, RoundMobs DEF MobsIn, Over, Fallen
  <1>8. \A m \in Foes(p) \ fallen : m \in Mobs /\ alive'[m] /\ mobRoom[m] = room[p]
    <2>1. \A m \in Foes(p) : m \in Mobs /\ alive[m] /\ mobRoom[m] = room[p]
      BY DEF Foes, MobsIn
    <2>2. slain \subseteq fallen
      BY DEF Fallen
    <2> QED
      BY <1>4, <2>1, <2>2
  <1>9. CASE ids[p] # <<>> /\ GoesOnById(p, fallen, over)
    <2>1. PICK left \in Rest(ids[p], fallen) :
            \/ ~over /\ Fights(p, left, keys[p])
            \/ /\ Foremost(left, Foes(p) \ fallen) # {}
               /\ \E leftKeys : Fights(p, left, leftKeys)
      BY <1>5, <1>9 DEF GoesOnById
    <2>2. ids[p] \in Seq(Mobs)
      BY Before
    <2>3. ToSet(left) = ToSet(ids[p]) \ fallen /\ left \in Seq(Mobs)
      BY <2>2, RestTyped
    <2>4. CASE ~over /\ Fights(p, left, keys[p])
      <3>1. f = Head(ids[p])
        BY <1>9 DEF Firsts
      <3>2. Head(ids[p]) = ids[p][1] /\ 1 \in DOMAIN ids[p]
        BY <1>9, <2>2
      <3>3. f \in ToSet(ids[p])
        BY <3>1, <3>2 DEF ToSet
      <3>4. ids'[p] = left
        BY <1>6, <2>4
      <3>5. f \in ToSet(ids'[p])
        BY <1>7, <2>3, <2>4, <3>3, <3>4
      <3> QED
        BY <1>1, <1>7, <2>4, <3>5
    <2>5. CASE /\ Foremost(left, Foes(p) \ fallen) # {}
               /\ \E leftKeys : Fights(p, left, leftKeys)
      <3>1. ids'[p] = left
        BY <1>6, <2>5
      <3>2. PICK i \in DOMAIN left : left[i] \in Foes(p) \ fallen
        BY <2>5 DEF Foremost
      <3>3. left[i] \in ToSet(left)
        BY DEF ToSet
      <3> QED
        BY <1>1, <1>8, <3>1, <3>2, <3>3
    <2> QED
      BY <2>1, <2>4, <2>5
  <1>10. CASE GoesOnByKey(p, f, fallen, over)
    <2> DEFINE left == keys[p] \ {KeyOf[m] : m \in fallen}
               living == {KeyOf[m] : m \in Foes(p) \ fallen}
    <2>1. \/ ~over /\ KeyOf[f] \in left /\ Fights(p, <<>>, left)
          \/ left \cap living # {} /\ Fights(p, <<>>, left)
      BY <1>5, <1>10 DEF GoesOnByKey
    <2>2. keys'[p] = left
      BY <1>6, <2>1
    <2>3. CASE ~over /\ KeyOf[f] \in left
      BY <1>1, <1>7, <2>2, <2>3
    <2>4. CASE left \cap living # {}
      <3>1. PICK m \in Foes(p) \ fallen : KeyOf[m] \in left
        BY <2>4
      <3> QED
        BY <1>1, <1>8, <2>2, <3>1
    <2> QED
      BY <2>1, <2>3, <2>4
  <1> QED
    BY <1>4, <1>9, <1>10 DEF GoesOn

(* A player that has had its turn fights somebody that lives and is there: *)
(* only a round leaves it in a fight.                                      *)
THEOREM FightsAreWithTheLiving == Spec => NobodyFightsTheDead
  <1>1. IInv /\ [Next]_vars =>
          [\A p \in Players : p \in todo /\ p \notin todo' /\ act'[p] = "fight" =>
             \E m \in Mobs : /\ alive'[m] /\ mobRoom'[m] = room'[p]
                             /\ m \in ToSet(ids'[p]) \/ KeyOf[m] \in keys'[p]]_vars
    <2> SUFFICES ASSUME IInv, Next, NEW p \in Players,
                        p \in todo, p \notin todo', act'[p] = "fight"
                 PROVE  \E m \in Mobs : /\ alive'[m] /\ mobRoom'[m] = room'[p]
                                        /\ m \in ToSet(ids'[p]) \/ KeyOf[m] \in keys'[p]
      OBVIOUS
    <2>1. BodyTypeOK /\ phase # "open" /\ todo' # todo
      BY DEF IInv, TypeOK, SlayersStay
    <2>2. ~\E q \in Players : PlayerStep(q)
      <3>1. ASSUME NEW q \in Players, PlayerStep(q) PROVE phase = "open"
        BY <3>1 DEF PlayerStep, Login, Walk, WalkDead, Flee, Summon, Attack, Cast, ThrowKill,
                    Disconnect, StandUp, GroupAttack, WriteBody, Command, Here
      <3> QED
        BY <2>1, <3>1
    <2>3. ~((\E m \in Mobs : RoomUpdate(m)) \/ GroupLinks \/ TickStart \/ Settle)
      BY <2>1 DEF RoomUpdate, Respawn, Wander, GroupLinks, TickStart, Settle, tick
    <2>4. PICK q \in Players : TickPlayer(q)
      BY <2>2, <2>3 DEF Next
    <2>5. q = p
      <3>1. Done(q)
        BY <2>4 DEF TickPlayer, Idle, Dying, LostFoe, Round, Killed
      <3> QED
        BY <3>1 DEF Done
    <2>6. ~(Idle(p) \/ Dying(p) \/ LostFoe(p))
      BY <2>1 DEF BodyTypeOK, Idle, Dying, LostFoe, body
    <2>7. ~Killed(p)
      <3>1. ASSUME Killed(p) PROVE FALSE
        <4>1. \E a \in {"death", "stand"} : act' = [act EXCEPT ![p] = a]
          BY <3>1 DEF Killed
        <4> QED
          BY <2>1, <4>1 DEF BodyTypeOK
      <3> QED
        BY <3>1
    <2>8. Round(p)
      BY <2>4, <2>5, <2>6, <2>7 DEF TickPlayer
    <2> QED
      BY <2>8, RoundLeavesFoe
  <1> QED
    BY <1>1, Invariance, PTL DEF Spec, NobodyFightsTheDead

(* Only a deadly round kills, and whoever it kills has left the lists of   *)
(* every mob of the room and fights nobody.                                *)
THEOREM DeathsFree == Spec => DeathFrees
  <1>1. IInv /\ [Next]_vars =>
          [\A p \in Players : act[p] = "fight" /\ act'[p] = "death" =>
             /\ \A m \in MobsIn(room[p]) : p \notin targets'[m]
             /\ ids'[p] = <<>> /\ keys'[p] = {}]_vars
    <2> SUFFICES ASSUME IInv, Next, NEW p \in Players,
                        act[p] = "fight", act'[p] = "death"
                 PROVE  /\ \A m \in MobsIn(room[p]) : p \notin targets'[m]
                        /\ ids'[p] = <<>> /\ keys'[p] = {}
      OBVIOUS
    <2>1. MobsTypeOK /\ BodyTypeOK
      BY DEF IInv, TypeOK
    <2>2. ~\E q \in Players : PlayerStep(q)
      <3>1. ASSUME NEW q \in Players, NEW r \in Rooms,
                   Login(q, r) \/ Walk(q, r) \/ WalkDead(q, r) \/ Flee(q, r) \/ Summon(q, r)
            PROVE FALSE
        BY <2>1, <3>1 DEF BodyTypeOK, Login, Walk, WalkDead, Flee, Summon, Arrive
      <3>2. ASSUME NEW q \in Players, NEW m \in Mobs, Attack(q, m) \/ Cast(q, m)
            PROVE FALSE
        BY <2>1, <3>2 DEF BodyTypeOK, Attack, Cast
      <3>3. ASSUME NEW q \in Players, NEW m \in Mobs, ThrowKill(q, m) PROVE FALSE
        <4>1. \E a \in {"fight", "stand"} : act' = [act EXCEPT ![q] = a]
          BY <3>3 DEF ThrowKill
        <4> QED
          BY <2>1, <4>1 DEF BodyTypeOK
      <3>4. ASSUME NEW q \in Players,
                   Disconnect(q) \/ StandUp(q) \/ GroupAttack(q) \/ WriteBody(q)
            PROVE FALSE
        BY <2>1, <3>4 DEF BodyTypeOK, Disconnect, StandUp, GroupAttack, WriteBody, body
      <3> QED
        BY <3>1, <3>2, <3>3, <3>4 DEF PlayerStep
    <2>3. ~\E q \in Players : Idle(q) \/ Dying(q) \/ LostFoe(q) \/ Round(q)
      <3>1. ASSUME NEW q \in Players, Idle(q) \/ Dying(q) \/ LostFoe(q) PROVE FALSE
        BY <2>1, <3>1 DEF BodyTypeOK, Idle, Dying, LostFoe, body
      <3>2. ASSUME NEW q \in Players, Round(q) PROVE FALSE
        <4>1. PICK f \in Firsts(q), slain \in SUBSET Foes(q) : RoundWith(q, f, slain)
          BY <3>2, RoundWitness
        <4>2. \/ Stands(q)
              \/ \E left \in Seq(Mobs), leftKeys \in SUBSET Keys : Fights(q, left, leftKeys)
          BY <4>1, RoundBody DEF RoundWith
        <4>3. \E a \in {"fight", "stand"} : act' = [act EXCEPT ![q] = a]
          BY <4>2 DEF Stands, Fights
        <4> QED
          BY <2>1, <4>3 DEF BodyTypeOK
      <3> QED
        BY <3>1, <3>2
    <2>4. ~((\E m \in Mobs : RoomUpdate(m)) \/ GroupLinks \/ TickStart \/ Settle)
      BY DEF RoomUpdate, Respawn, Wander, GroupLinks, TickStart, Settle, body
    <2>5. PICK q \in Players : Killed(q)
      BY <2>2, <2>3, <2>4 DEF Next, TickPlayer
    <2>6. q = p
      <3>1. \E a \in {"death", "stand"} : act' = [act EXCEPT ![q] = a]
        BY <2>5 DEF Killed
      <3> QED
        BY <2>1, <3>1 DEF BodyTypeOK
    <2>7. ids'[p] = <<>> /\ keys'[p] = {}
      BY <2>1, <2>5, <2>6 DEF Killed, BodyTypeOK
    <2>8. ASSUME NEW m \in MobsIn(room[p]) PROVE p \notin targets'[m]
      <3>1. m \in Mobs
        BY DEF MobsIn
      <3>2. targets'[m] \in {{}, Without(MobsIn(room[p]), p)[m]}
        <4>1. PICK f \in Firsts(p) :
                targets' = [n \in Mobs |-> IF n \in (IF alive[f] THEN {} ELSE {f}) THEN {}
                                           ELSE Without(MobsIn(room[p]), p)[n]]
          BY <2>5, <2>6 DEF Killed
        <4> QED
          BY <3>1, <4>1
      <3>3. Without(MobsIn(room[p]), p)[m] = targets[m] \ {p}
        BY <3>1 DEF Without
      <3> QED
        BY <3>2, <3>3
    <2> QED
      BY <2>7, <2>8
  <1> QED
    BY <1>1, Invariance, PTL DEF Spec, DeathFrees

(* Combat implements MobLife: every step slays, settles, lets a mob come   *)
(* back, or changes nothing of what a player sees of its life.             *)
THEOREM MobsLiveOnce == Spec => MobsLive
  <1>1. Init => Life!Init
    BY DEF Init, Life!Init, Deaths
  <1>2. IInv /\ [Next]_vars => [Life!Next]_(Life!vars)
    <2> SUFFICES ASSUME IInv, [Next]_vars PROVE [Life!Next]_(Life!vars)
      OBVIOUS
    <2> USE DEF Life!vars
    <2>1. ASSUME UNCHANGED <<alive, rewards, queued>> PROVE [Life!Next]_(Life!vars)
      BY <2>1
    <2>2. ASSUME NEW p \in Players, PlayerStep(p), ~\E m \in Mobs : ThrowKill(p, m)
          PROVE UNCHANGED <<alive, rewards, queued>>
      BY <2>2 DEF PlayerStep, Login, Walk, WalkDead, Flee, Summon, Arrive, Attack, Cast,
                  Disconnect, StandUp, GroupAttack, WriteBody, mobs, owed
    <2>3. ASSUME NEW p \in Players, Idle(p) \/ Dying(p) \/ LostFoe(p) \/ Killed(p)
          PROVE UNCHANGED <<alive, rewards, queued>>
      BY <2>3 DEF Idle, Dying, LostFoe, Killed, mobs, owed
    <2>4. CASE GroupLinks \/ TickStart \/ \E m \in Mobs, r \in Rooms : Wander(m, r)
      <3>1. UNCHANGED <<alive, rewards, queued>>
        BY <2>4 DEF GroupLinks, TickStart, Wander, mobs, owed
      <3> QED
        BY <2>1, <3>1
    <2>5. ASSUME NEW p \in Players, Round(p) PROVE Life!Next
      <3>1. PICK f \in Firsts(p), slain \in SUBSET Foes(p) : RoundWith(p, f, slain)
        BY <2>5, RoundWitness
      <3>2. /\ alive' = [m \in Mobs |-> alive[m] /\ m \notin slain]
            /\ rewards' = rewards \cup {RewardOf(m, p) : m \in slain}
            /\ queued' = queued
        BY <2>5, <3>1 DEF RoundWith, Awarded, Round
      <3>3. slain \subseteq {m \in Mobs : alive[m]}
        BY DEF Foes, MobsIn
      <3>4. {m \in Mobs : alive'[m]} = {m \in Mobs : alive[m]} \ slain
        BY <3>2
      <3>5. Deaths(rewards') = Deaths(rewards) \cup {<<m, p>> : m \in slain}
        <4>1. \A m \in slain : RewardOf(m, p).mob = m /\ RewardOf(m, p).by = p
          BY DEF RewardOf
        <4>2. \A r \in rewards' :
                r \in rewards \/ \E m \in slain : r.mob = m /\ r.by = p
          BY <3>2, <4>1
        <4>3. \A m \in slain : RewardOf(m, p) \in rewards'
          BY <3>2
        <4>4. rewards \subseteq rewards'
          BY <3>2
        <4> QED
          BY <4>1, <4>2, <4>3, <4>4 DEF Deaths
      <3>6. Life!Slay
        BY <3>2, <3>3, <3>4, <3>5 DEF Life!Slay
      <3> QED
        BY <3>6 DEF Life!Next
    <2>6. ASSUME NEW p \in Players, NEW m \in Mobs, ThrowKill(p, m) PROVE Life!Next
      <3> DEFINE reward == [RewardOf(m, p) EXCEPT !.targets =
                              IF act[p] # "fight" THEN @ \cup {p} ELSE @]
      <3>1. /\ alive[m] /\ alive' = [alive EXCEPT ![m] = FALSE]
            /\ rewards' = rewards /\ queued' = queued \cup {reward}
        BY <2>6 DEF ThrowKill
      <3>2. {n \in Mobs : alive'[n]} = {n \in Mobs : alive[n]} \ {m}
        BY <3>1 DEF IInv, TypeOK, MobsTypeOK
      <3>3. reward.mob = m /\ reward.by = p
        BY DEF RewardOf
      <3> HIDE DEF reward
      <3>4. Deaths(queued') = Deaths(queued) \cup {<<m, p>>}
        BY <3>1, <3>3 DEF Deaths
      <3>5. Life!SlayLate
        BY <3>1, <3>2, <3>4 DEF Life!SlayLate
      <3> QED
        BY <3>5 DEF Life!Next
    <2>7. CASE Settle
      <3>1. rewards' = {} /\ alive' = alive /\ queued' \subseteq queued
        BY <2>7 DEF Settle, mobs
      <3>2. Life!Settle
        BY <3>1 DEF Life!Settle, Deaths
      <3> QED
        BY <3>2 DEF Life!Next
    <2>8. ASSUME NEW m \in Mobs, Respawn(m) PROVE Life!Next
      <3>1. /\ ~alive[m] /\ \A r \in rewards : r.mob # m
            /\ alive' = [alive EXCEPT ![m] = TRUE]
            /\ rewards' = rewards /\ queued' = queued
        BY <2>8 DEF Respawn, owed
      <3>2. {n \in Mobs : alive'[n]} = {n \in Mobs : alive[n]} \cup {m}
        BY <3>1 DEF IInv, TypeOK, MobsTypeOK
      <3>3. \A p \in Players : <<m, p>> \notin Deaths(rewards)
        BY <3>1 DEF Deaths
      <3>4. Life!Rise
        BY <3>1, <3>2, <3>3 DEF Life!Rise
      <3> QED
        BY <3>4 DEF Life!Next
    <2>9. CASE UNCHANGED vars
      BY <2>1, <2>9 DEF vars, mobs, owed
    <2> QED
      BY <2>1, <2>2, <2>3, <2>4, <2>5, <2>6, <2>7, <2>8, <2>9
         DEF Next, TickPlayer, RoomUpdate
  <1> QED
    BY <1>1, <1>2, Invariance, PTL DEF Spec, MobsLive, Life!Spec

-----------------------------------------------------------------------------
(***************************************************************************)
(* The reward of a kill (ExpShares)                                        *)
(*                                                                         *)
(* Sum and Contributors are recursive functions over a list.  That they    *)
(* are what their equations say is shown by building their stages one turn *)
(* of the loop after the other (StagesExist); a fact about all stages then *)
(* follows turn by turn (TurnByTurn).  SharesAddUp compares A times the    *)
(* partial sum of the shares with P times that of the weights: each share  *)
(* leaves the two less than A apart.  Each part of a weight grows with the *)
(* level and the damage through its rounding and its clamps, so that the   *)
(* weight and the share do.                                                *)
(***************************************************************************)

\* What holds of 0 and of the successor of each number for which it holds
\* holds of every number (for a set of numbers, since a theorem cannot be
\* given an operator).
LEMMA NaturalsUp ==
  ASSUME NEW S, 0 \in S, \A n \in Nat : n \in S => n + 1 \in S
  PROVE  Nat \subseteq S
<1> DEFINE Less == {p \in Nat \X Nat : p[1] < p[2]}
           Missing == Nat \ S
<1> SUFFICES ASSUME Missing # {} PROVE FALSE
  OBVIOUS
<1>1. \A x, y \in Nat : <<y, x>> \in Less <=> y < x
  OBVIOUS
<1>2. IsWellFoundedOn(Less, Nat)
  BY NatLessThanWellFounded DEF OpToRel
<1>3. Missing \subseteq Nat
  OBVIOUS
<1> HIDE DEF Less
<1>4. PICK x \in Missing : \A y \in Missing : <<y, x>> \notin Less
  <2> HIDE DEF Missing
  <2>1. QED
    BY <1>2, <1>3, WFMin
<1>5. x \in Nat /\ x # 0 /\ x \notin S
  OBVIOUS
<1>6. x - 1 \in Nat /\ x - 1 < x /\ x = (x - 1) + 1
  BY <1>5
<1>7. x - 1 \in Missing
  BY <1>5, <1>6
<1>8. QED
  BY <1>1, <1>4, <1>5, <1>6, <1>7

\* What holds before a loop and is kept by each of its n turns, for the turns
\* in a set.
LEMMA TurnByTurn ==
  ASSUME NEW n \in Nat, NEW S, 0 \in S, \A i \in 1..n : i - 1 \in S => i \in S
  PROVE  0..n \subseteq S
<1> DEFINE T == {k \in Nat : k <= n => k \in S}
<1>1. 0 \in T
  OBVIOUS
<1>2. ASSUME NEW k \in Nat, k \in T PROVE k + 1 \in T
  <2> SUFFICES ASSUME k + 1 <= n PROVE k + 1 \in S
    OBVIOUS
  <2>1. k \in S /\ k + 1 \in 1..n /\ (k + 1) - 1 = k
    BY <1>2
  <2>2. QED
    BY <2>1
<1> HIDE DEF T
<1>3. Nat \subseteq T
  BY <1>1, <1>2, NaturalsUp
<1>4. QED
  BY <1>3 DEF T

\* What the n turns of a loop do to a state.
Loops(X, n) == [1..n -> [X -> X]]

\* A loop of n turns goes through n + 1 states: there is a function with the
\* equations of its stages.
LEMMA StagesExist ==
  ASSUME NEW X, NEW x \in X, NEW n \in Nat, NEW turn \in Loops(X, n)
  PROVE  \E g : /\ g \in [0..n -> X] /\ g[0] = x
                /\ \A i \in 1..n : g[i] = turn[i][g[i - 1]]
<1> USE DEF Loops
<1> DEFINE Good(g, k) == /\ g \in [0..k -> X]
                         /\ g[0] = x
                         /\ \A i \in 1..k : g[i] = turn[i][g[i - 1]]
           S == {k \in 0..n : \E g : Good(g, k)}
<1>1. 0 \in S
  <2>1. Good([i \in 0..0 |-> x], 0)
    OBVIOUS
  <2> HIDE DEF Good
  <2>2. QED
    BY <2>1
<1>2. ASSUME NEW m \in 1..n, m - 1 \in S PROVE m \in S
  <2>1. PICK g : Good(g, m - 1)
    BY <1>2
  <2> DEFINE new == turn[m][g[m - 1]]
             h == [i \in 0..m |-> IF i = m THEN new ELSE g[i]]
  <2>2. g \in [0..(m - 1) -> X] /\ g[0] = x /\ \A i \in 1..(m - 1) : g[i] = turn[i][g[i - 1]]
    BY <2>1
  <2>3. g[m - 1] \in X /\ turn[m] \in [X -> X]
    BY <2>2
  <2>4. new \in X
    BY <2>3
  <2>5. h \in [0..m -> X]
    <3> HIDE DEF new
    <3>1. QED
      BY <2>2, <2>4
  <2>6. h[0] = x
    BY <2>2
  <2>7. ASSUME NEW i \in 1..m PROVE h[i] = turn[i][h[i - 1]]
    <3>1. i - 1 \in 0..m /\ i - 1 # m /\ h[i - 1] = g[i - 1]
      OBVIOUS
    <3>2. CASE i = m
      BY <3>1, <3>2
    <3>3. CASE i # m
      <4>1. i \in 1..(m - 1) /\ h[i] = g[i]
        BY <3>3
      <4>2. QED
        BY <2>2, <3>1, <4>1
    <3>4. QED
      BY <3>2, <3>3
  <2> HIDE DEF h
  <2>8. Good(h, m)
    BY <2>5, <2>6, <2>7
  <2>9. QED
    BY <2>8
<1>3. n \in S
  <2> HIDE DEF S
  <2>1. 0..n \subseteq S
    BY <1>1, <1>2, TurnByTurn
  <2>2. QED
    BY <2>1
<1>4. QED
  BY <1>3

-----------------------------------------------------------------------------
(* Sums and choices over a list *)

\* The partial sums of a list.
Sums(g, list) ==
  /\ g \in [0..Len(list) -> Nat]
  /\ g[0] = 0
  /\ \A i \in 1..Len(list) : g[i] = g[i - 1] + list[i]

\* Sum is the last of the partial sums.
LEMMA SumDefined ==
  ASSUME NEW list \in Seq(Nat)
  PROVE  \E g : Sums(g, list) /\ Sum(list) = g[Len(list)]
<1> DEFINE n == Len(list)
           X == Nat
           turn == [i \in 1..n |-> [x \in X |-> x + list[i]]]
           Equation(g) == g = [i \in 0..n |-> IF i = 0 THEN 0 ELSE g[i - 1] + list[i]]
           upTo == CHOOSE g : Equation(g)
<1>1. n \in Nat /\ 0 \in X
  OBVIOUS
<1>2. \A i \in 1..n : list[i] \in Nat
  OBVIOUS
<1>3. turn \in Loops(X, n)
  BY <1>2 DEF Loops
<1>4. \A i \in 1..n, x \in X : turn[i][x] = x + list[i]
  OBVIOUS
<1> HIDE DEF turn, n, upTo, Equation, X
<1>5. PICK g : g \in [0..n -> X] /\ g[0] = 0 /\ \A i \in 1..n : g[i] = turn[i][g[i - 1]]
  BY <1>1, <1>3, StagesExist
<1>6. \A i \in 1..n : i - 1 \in 0..n /\ g[i - 1] \in X
  BY <1>1, <1>5
<1>7. Equation(g)
  <2>1. ASSUME NEW i \in 0..n
        PROVE  g[i] = IF i = 0 THEN 0 ELSE g[i - 1] + list[i]
    <3>1. CASE i = 0
      BY <1>5, <3>1
    <3>2. CASE i # 0
      <4>1. i \in 1..n
        BY <1>1, <3>2
      <4>2. QED
        BY <1>4, <1>5, <1>6, <3>2, <4>1
    <3>3. QED
      BY <3>1, <3>2
  <2>2. QED
    BY <1>5, <2>1 DEF Equation
<1>8. Equation(upTo)
  BY <1>7 DEF upTo
<1>9. Sum(list) = upTo[n]
  BY DEF Sum, Equation, upTo, n
<1>10. upTo[0] = 0 /\ \A i \in 1..n : upTo[i] = upTo[i - 1] + list[i]
  BY <1>1, <1>8 DEF Equation
<1>11. 0..n \subseteq {i \in 0..n : upTo[i] \in Nat}
  <2> DEFINE S == {i \in 0..n : upTo[i] \in Nat}
  <2>0. ASSUME NEW i \in 1..n, i - 1 \in S PROVE i \in S
    <3>1. upTo[i - 1] \in Nat
      BY <2>0
    <3>2. upTo[i - 1] + list[i] \in Nat
      BY <1>2, <3>1
    <3>3. upTo[i] \in Nat
      BY <1>10, <3>2
    <3>4. QED
      BY <1>1, <3>3
  <2>1. 0 \in S /\ \A i \in 1..n : i - 1 \in S => i \in S
    BY <1>1, <1>10, <2>0
  <2> HIDE DEF S
  <2>2. 0..n \subseteq S
    BY <1>1, <2>1, TurnByTurn
  <2>3. QED
    BY <2>2 DEF S
<1>12. upTo \in [0..n -> Nat]
  BY <1>8, <1>11 DEF Equation
<1>13. QED
  BY <1>9, <1>10, <1>12 DEF Sums, n

\* What a target of the mob is.
Target == [level : Nat, damage : Nat]

\* One target: a contributor if it did some damage.
Filtered(s, t) == IF t.damage > 0 THEN Append(s, t) ELSE s

\* The contributors among some targets are targets.
LEMMA ContributorsTyped ==
  ASSUME NEW list \in Seq(Target)
  PROVE  Contributors(list) \in Seq(Target)
<1> DEFINE n == Len(list)
           X == Seq(Target)
           turn == [i \in 1..n |-> [q \in X |-> Filtered(q, list[i])]]
           Equation(g) == g = [i \in 0..n |-> IF i = 0 THEN <<>> ELSE Filtered(g[i - 1], list[i])]
           among == CHOOSE g : Equation(g)
<1>1. n \in Nat /\ n \in 0..n /\ <<>> \in X
  OBVIOUS
<1>2. ASSUME NEW i \in 1..n, NEW q \in X PROVE Filtered(q, list[i]) \in X
  <2>1. list[i] \in Target
    OBVIOUS
  <2>2. QED
    BY <2>1 DEF Filtered
<1>3. turn \in Loops(X, n)
  BY <1>2 DEF Loops
<1>4. \A i \in 1..n, q \in X : turn[i][q] = Filtered(q, list[i])
  OBVIOUS
<1> HIDE DEF turn, n, among, Equation, X
<1>5. PICK g : g \in [0..n -> X] /\ g[0] = <<>> /\ \A i \in 1..n : g[i] = turn[i][g[i - 1]]
  BY <1>1, <1>3, StagesExist
<1>6. \A i \in 1..n : i - 1 \in 0..n /\ g[i - 1] \in X
  BY <1>1, <1>5
<1>7. Equation(g)
  BY <1>1, <1>4, <1>5, <1>6 DEF Equation
<1>8. Equation(among)
  BY <1>7 DEF among
<1>9. Contributors(list) = among[n]
  BY DEF Contributors, Equation, among, n, Filtered
<1>10. among[0] = <<>> /\ \A i \in 1..n : among[i] = Filtered(among[i - 1], list[i])
  BY <1>1, <1>8 DEF Equation
<1> DEFINE S == {i \in 0..n : among[i] \in X}
<1>11. 0 \in S /\ \A i \in 1..n : i - 1 \in S => i \in S
  BY <1>1, <1>2, <1>10
<1> HIDE DEF S
<1>12. 0..n \subseteq S
  BY <1>1, <1>11, TurnByTurn
<1>13. QED
  BY <1>1, <1>9, <1>12 DEF S, X

-----------------------------------------------------------------------------
(* Quotients *)

\* Rounding down takes away less than one.
LEMMA RoundsDown ==
  ASSUME NEW x \in Nat, NEW d \in Nat, d > 0
  PROVE  x \div d \in Nat /\ d * (x \div d) <= x /\ x < d * (x \div d) + d
  OBVIOUS

\* A larger number over a smaller one gives no smaller quotient.
LEMMA QuotientGrows ==
  ASSUME NEW x \in Nat, NEW y \in Nat, NEW d \in Nat, NEW e \in Nat,
         x <= y, e <= d, e > 0
  PROVE  x \div d <= y \div e
<1> DEFINE p == x \div d
           q == y \div e
<1>1. p \in Nat /\ d * p <= x /\ x < d * p + d
  BY RoundsDown
<1>2. q \in Nat /\ e * q <= y /\ y < e * q + e
  BY RoundsDown
<1> HIDE DEF p, q
<1>3. SUFFICES ASSUME p >= q + 1 PROVE FALSE
  BY <1>1, <1>2 DEF p, q
<1>4. e * p >= e * (q + 1)
  BY <1>1, <1>2, <1>3
<1>5. d * p >= e * p
  BY <1>1
<1>6. e * (q + 1) = e * q + e
  BY <1>2
<1>7. QED
  BY <1>1, <1>2, <1>4, <1>5, <1>6

\* The shares of a pool add up to it but for less than one point each: P is the
\* pool, A what the weights add up to.
LEMMA SharesAddUp ==
  ASSUME NEW P \in Nat, NEW weights \in Seq(Nat), NEW shares \in Seq(Nat),
         NEW A \in Nat, A > 0, Sum(weights) = A, Len(weights) > 0,
         Len(shares) = Len(weights),
         \A i \in 1..Len(weights) : shares[i] = (P * weights[i]) \div A
  PROVE  Sum(shares) <= P /\ P < Sum(shares) + Len(weights)
<1> DEFINE n == Len(weights)
<1>1. PICK w : Sums(w, weights) /\ A = w[n]
  BY SumDefined
<1>2. PICK s : Sums(s, shares) /\ Sum(shares) = s[n]
  BY SumDefined
<1>3. n \in Nat /\ n \in 0..n
  OBVIOUS
<1>4. /\ w \in [0..n -> Nat] /\ w[0] = 0 /\ \A i \in 1..n : w[i] = w[i - 1] + weights[i]
      /\ s \in [0..n -> Nat] /\ s[0] = 0 /\ \A i \in 1..n : s[i] = s[i - 1] + shares[i]
  BY <1>1, <1>2 DEF Sums
<1>5. \A i \in 1..n : weights[i] \in Nat /\ shares[i] \in Nat
  OBVIOUS
<1> HIDE DEF n
<1> DEFINE S == {i \in 0..n : A * s[i] <= P * w[i] /\ P * w[i] <= A * s[i] + i * (A - 1)}
<1>6. 0 \in S
  BY <1>3, <1>4
<1>7. ASSUME NEW i \in 1..n, i - 1 \in S PROVE i \in S
  <2>1. i - 1 \in 0..n /\ i \in 0..n /\ i \in Nat /\ i - 1 \in Nat
    BY <1>3
  <2> DEFINE a == s[i - 1]
             b == w[i - 1]
             c == weights[i]
             d == shares[i]
  <2>2. a \in Nat /\ b \in Nat /\ c \in Nat /\ d \in Nat
    BY <1>4, <1>5, <2>1
  <2>3. A * d <= P * c /\ P * c <= A * d + (A - 1)
    <3>0. d = (P * c) \div A
      BY DEF n
    <3>1. P * c \in Nat /\ d = (P * c) \div A
      <4> HIDE DEF c, d
      <4>1. QED
        BY <2>2, <3>0
    <3> HIDE DEF c, d
    <3>2. A * ((P * c) \div A) <= P * c /\ P * c < A * ((P * c) \div A) + A
      BY <3>1, RoundsDown
    <3>3. QED
      BY <2>2, <3>1, <3>2
  <2>4. A * a <= P * b /\ P * b <= A * a + (i - 1) * (A - 1)
    BY <1>7
  <2>5. s[i] = a + d /\ w[i] = b + c
    BY <1>4
  <2> HIDE DEF a, b, c, d
  <2>6. A * (a + d) = A * a + A * d /\ P * (b + c) = P * b + P * c
    BY <2>2
  <2>7. i * (A - 1) = (i - 1) * (A - 1) + (A - 1)
    BY <2>1
  <2>8. A * (a + d) <= P * (b + c) /\ P * (b + c) <= A * (a + d) + i * (A - 1)
    <3> DEFINE u == A * a
               v == A * d
               x == P * b
               y == P * c
               z == (i - 1) * (A - 1)
    <3>1. u \in Int /\ v \in Int /\ x \in Int /\ y \in Int /\ z \in Int
      BY <2>1, <2>2
    <3>2. v <= y /\ y <= v + (A - 1) /\ u <= x /\ x <= u + z
      BY <2>3, <2>4
    <3>3. A * (a + d) = u + v /\ P * (b + c) = x + y /\ i * (A - 1) = z + (A - 1)
      BY <2>6, <2>7
    <3> HIDE DEF u, v, x, y, z
    <3>4. u + v <= x + y /\ x + y <= (u + v) + (z + (A - 1))
      BY <3>1, <3>2
    <3>5. QED
      BY <3>3, <3>4
  <2>9. QED
    BY <2>1, <2>5, <2>8
<1> HIDE DEF S
<1>8. 0..n \subseteq S
  BY <1>3, <1>6, <1>7, TurnByTurn
<1>9. A * s[n] <= P * A /\ P * A <= A * s[n] + n * (A - 1)
  BY <1>1, <1>3, <1>8 DEF S, n
<1>10. s[n] \in Nat /\ n > 0
  BY <1>3, <1>4 DEF n
<1> DEFINE t == s[n]
<1> HIDE DEF t
<1>11. t \in Nat /\ A * t <= P * A /\ P * A <= A * t + n * (A - 1)
  BY <1>9, <1>10 DEF t
<1>12. t <= P
  <2> SUFFICES ASSUME t >= P + 1 PROVE FALSE
    BY <1>11
  <2>1. A * t >= A * (P + 1) /\ A * (P + 1) = P * A + A
    BY <1>11
  <2>2. QED
    BY <1>11, <2>1
<1>13. P < t + n
  <2> SUFFICES ASSUME P >= t + n PROVE FALSE
    BY <1>3, <1>11
  <2>1. P * A >= (t + n) * A /\ (t + n) * A = A * t + n * A
    BY <1>3, <1>11
  <2>2. n * (A - 1) = n * A - n
    BY <1>3
  <2> DEFINE x == P * A
             y == A * t
             z == n * A
  <2>3. /\ x \in Int /\ y \in Int /\ z \in Int
        /\ x >= y + z /\ x <= y + (z - n)
    BY <1>3, <1>11, <2>1, <2>2
  <2> HIDE DEF x, y, z
  <2>4. QED
    BY <1>3, <1>10, <2>3
<1>14. QED
  BY <1>2, <1>12, <1>13 DEF t, n


-----------------------------------------------------------------------------
(* The parts of a weight, and that each of them grows *)

LEMMA ProductGrows ==
  ASSUME NEW a \in Nat, NEW b \in Nat, NEW c \in Nat, NEW d \in Nat, a <= b, c <= d
  PROVE  a * c \in Nat /\ a * c <= b * d
<1>1. a * c <= b * c
  OBVIOUS
<1>2. b * c <= b * d
  OBVIOUS
<1>3. a * c \in Nat /\ b * c \in Nat /\ b * d \in Nat
  OBVIOUS
<1> DEFINE x == a * c
           y == b * c
           z == b * d
<1> HIDE DEF x, y, z
<1>4. x \in Nat /\ x <= z
  BY <1>1, <1>2, <1>3 DEF x, y, z
<1>5. QED
  BY <1>4 DEF x, z

LEMMA ScaleGrows ==
  ASSUME NEW a \in Nat, NEW b \in Nat, NEW p \in Nat, NEW q \in Nat, a <= b, p <= q
  PROVE  Scale(a, p) \in Nat /\ Scale(a, p) <= Scale(b, q)
<1> DEFINE x == a * p
           y == b * q
<1>1. x \in Nat /\ y \in Nat /\ x <= y
  BY ProductGrows
<1>2. Scale(a, p) = x \div 1000 /\ Scale(b, q) = y \div 1000
  BY DEF Scale
<1> HIDE DEF x, y
<1>3. x \div 1000 \in Nat /\ x \div 1000 <= y \div 1000
  BY <1>1, RoundsDown, QuotientGrows
<1>4. QED
  BY <1>2, <1>3

LEMMA PermilleGrows ==
  ASSUME NEW x \in Nat, NEW y \in Nat, NEW d \in Nat, NEW e \in Nat,
         x <= y, e <= d, e > 0
  PROVE  Permille(x, d) \in Nat /\ Permille(x, d) <= Permille(y, e)
<1> DEFINE u == x * 1000
           v == y * 1000
<1>1. u \in Nat /\ v \in Nat /\ u <= v /\ d > 0
  OBVIOUS
<1>2. Permille(x, d) = u \div d /\ Permille(y, e) = v \div e
  BY DEF Permille
<1> HIDE DEF u, v
<1>3. u \div d \in Nat
  BY <1>1, RoundsDown
<1>4. u \div d <= v \div e
  BY <1>1, QuotientGrows
<1>5. QED
  BY <1>2, <1>3, <1>4

\* The nearer to the level of the mob from below, the more.
LEMMA ChallengeGrows ==
  ASSUME mobLevel \in Nat, NEW l \in Nat, NEW m \in Nat, l <= m
  PROVE  Challenge(l) \in Nat /\ Challenge(l) <= Challenge(m)
<1> DEFINE gap(k) == mobLevel - k
           quarter(k) == k \div 4
           near(k) == AtLeast(quarter(k), 20)
           part(k) == Clamp(Permille(near(k), gap(k)), 10, 1000)
<1>1. gap(l) \in Int /\ gap(m) \in Int /\ gap(m) <= gap(l)
  OBVIOUS
<1>2. quarter(l) \in Nat /\ quarter(m) \in Nat /\ quarter(l) <= quarter(m)
  BY RoundsDown, QuotientGrows
<1>3. near(l) \in Nat /\ near(m) \in Nat /\ near(l) <= near(m) /\ near(l) >= 20 /\ near(m) >= 20
  <2> HIDE DEF quarter
  <2>1. QED
    BY <1>2 DEF AtLeast
<1>4. \A k \in {l, m} : Challenge(k) = IF gap(k) > near(k) THEN part(k) ELSE 1000
  BY DEF Challenge
<1> HIDE DEF gap, near, quarter
<1>5. ASSUME NEW k \in {l, m}, gap(k) > near(k) PROVE part(k) \in 10..1000
  <2>1. gap(k) \in Nat /\ gap(k) > 0 /\ near(k) \in Nat
    BY <1>1, <1>3, <1>5
  <2>2. Permille(near(k), gap(k)) \in Nat
    BY <2>1, PermilleGrows
  <2> DEFINE p == Permille(near(k), gap(k))
  <2> HIDE DEF p
  <2>3. p \in Int
    BY <2>2 DEF p
  <2>4. Clamp(p, 10, 1000) \in 10..1000
    BY <2>3 DEF Clamp, AtLeast, AtMost
  <2>5. QED
    BY <2>4 DEF p
<1>6. ASSUME gap(l) > near(l), gap(m) > near(m) PROVE part(l) <= part(m)
  <2>1. /\ gap(l) \in Nat /\ gap(m) \in Nat /\ gap(m) > 0
        /\ gap(l) > 0 /\ near(l) \in Nat /\ near(m) \in Nat
    BY <1>1, <1>3, <1>6
  <2>2. /\ Permille(near(l), gap(l)) \in Nat
        /\ Permille(near(l), gap(l)) <= Permille(near(m), gap(m))
    BY <1>1, <1>3, <2>1, PermilleGrows
  <2>3. Permille(near(m), gap(m)) \in Nat
    BY <2>1, PermilleGrows
  <2> DEFINE p == Permille(near(l), gap(l))
             q == Permille(near(m), gap(m))
  <2> HIDE DEF p, q
  <2>4. p \in Int /\ q \in Int /\ p <= q
    BY <2>2, <2>3 DEF p, q
  <2>5. Clamp(p, 10, 1000) <= Clamp(q, 10, 1000)
    BY <2>4 DEF Clamp, AtLeast, AtMost
  <2>6. QED
    BY <2>5 DEF p, q
<1> HIDE DEF part
<1>7. gap(m) > near(m) => gap(l) > near(l)
  BY <1>1, <1>3
<1>8. QED
  BY <1>4, <1>5, <1>6, <1>7

LEMMA KeptByGrows ==
  ASSUME NEW c \in Nat, NEW d \in Nat, c <= d
  PROVE  KeptBy(c) \in Nat /\ KeptBy(c) <= KeptBy(d)
<1>1. KeptBy(c) = (IF c < 50 THEN Permille(c, 50) ELSE 1000)
      /\ KeptBy(d) = (IF d < 50 THEN Permille(d, 50) ELSE 1000)
  BY DEF KeptBy
<1>2. /\ Permille(c, 50) \in Nat
      /\ Permille(c, 50) <= Permille(d, 50)
      /\ c < 50 => Permille(c, 50) <= Permille(50, 50)
  BY PermilleGrows
<1>3. Permille(50, 50) = 1000
  BY DEF Permille
<1>4. QED
  BY <1>1, <1>2, <1>3

-----------------------------------------------------------------------------
(* The weight of one member *)

\* How well the level of a member fits that of the highest one and the mob's.
Fit(l, top) ==
  LET level == AtLeast(l, 1)
      ratio == Clamp(Permille(level + 50, top + 50), 1, 1000)
  IN  Clamp(Scale(Scale(ratio, ratio), Challenge(level)), 1, 1000)

\* Its part of the damage.
Part(d, damage) == Clamp(Permille(d, damage), 1, 1000)

\* What the two of them weigh.
Weighed(fit, part) ==
  AtLeast(Scale(Scale(fit, 250 + Scale(750, part)), KeptBy(part)), 1)

LEMMA FitGrows ==
  ASSUME mobLevel \in Nat, NEW top \in Nat, NEW l \in Nat, NEW m \in Nat, l <= m
  PROVE  Fit(l, top) \in Nat /\ Fit(l, top) <= Fit(m, top)
<1> DEFINE level(k) == AtLeast(k, 1)
           over(k) == Permille(level(k) + 50, top + 50)
           ratio(k) == Clamp(over(k), 1, 1000)
           square(k) == Scale(ratio(k), ratio(k))
           chance(k) == Challenge(level(k))
           product(k) == Scale(square(k), chance(k))
<1>0. \A k \in {l, m} : Fit(k, top) = Clamp(product(k), 1, 1000)
  BY DEF Fit
<1>1. level(l) \in Nat /\ level(m) \in Nat /\ level(l) <= level(m)
  BY DEF AtLeast
<1> HIDE DEF level
<1>2. over(l) \in Nat /\ over(m) \in Nat /\ over(l) <= over(m)
  <2>1. /\ level(l) + 50 \in Nat /\ level(m) + 50 \in Nat
        /\ level(l) + 50 <= level(m) + 50 /\ top + 50 \in Nat /\ top + 50 > 0
    BY <1>1
  <2>2. QED
    BY <2>1, PermilleGrows
<1> HIDE DEF over
<1>3. ratio(l) \in Nat /\ ratio(m) \in Nat /\ ratio(l) <= ratio(m)
  <2> DEFINE x == over(l)
             y == over(m)
  <2> HIDE DEF x, y
  <2>1. x \in Nat /\ y \in Nat /\ x <= y
    BY <1>2 DEF x, y
  <2>2. /\ Clamp(x, 1, 1000) \in Nat /\ Clamp(y, 1, 1000) \in Nat
        /\ Clamp(x, 1, 1000) <= Clamp(y, 1, 1000)
    BY <2>1 DEF Clamp, AtLeast, AtMost
  <2>3. QED
    BY <2>2 DEF x, y
<1> HIDE DEF ratio
<1>4. square(l) \in Nat /\ square(m) \in Nat /\ square(l) <= square(m)
  BY <1>3, ScaleGrows
<1>5. chance(l) \in Nat /\ chance(m) \in Nat /\ chance(l) <= chance(m)
  BY <1>1, ChallengeGrows
<1> HIDE DEF square, chance
<1>6. product(l) \in Nat /\ product(m) \in Nat /\ product(l) <= product(m)
  BY <1>4, <1>5, ScaleGrows
<1> HIDE DEF product
<1>7. Clamp(product(l), 1, 1000) \in Nat /\ Clamp(product(l), 1, 1000) <= Clamp(product(m), 1, 1000)
  BY <1>6 DEF Clamp, AtLeast, AtMost
<1>8. QED
  BY <1>0, <1>7

LEMMA PartGrows ==
  ASSUME NEW damage \in Nat, damage > 0, NEW c \in Nat, NEW d \in Nat, c <= d
  PROVE  Part(c, damage) \in Nat /\ Part(c, damage) <= Part(d, damage)
<1> DEFINE p == Permille(c, damage)
           q == Permille(d, damage)
<1>1. p \in Nat /\ q \in Nat /\ p <= q
  BY PermilleGrows
<1>2. Part(c, damage) = Clamp(p, 1, 1000) /\ Part(d, damage) = Clamp(q, 1, 1000)
  BY DEF Part
<1> HIDE DEF p, q
<1>3. QED
  BY <1>1, <1>2 DEF Clamp, AtLeast, AtMost

LEMMA WeighedGrows ==
  ASSUME NEW f \in Nat, NEW g \in Nat, f <= g, NEW c \in Nat, NEW d \in Nat, c <= d
  PROVE  Weighed(f, c) \in Nat /\ Weighed(f, c) >= 1 /\ Weighed(f, c) <= Weighed(g, d)
<1> DEFINE p(k) == Scale(750, k)
           w(h, k) == Scale(h, 250 + p(k))
           v(h, k) == Scale(w(h, k), KeptBy(k))
<1>0. Weighed(f, c) = AtLeast(v(f, c), 1) /\ Weighed(g, d) = AtLeast(v(g, d), 1)
  BY DEF Weighed
<1>1. p(c) \in Nat /\ p(d) \in Nat /\ p(c) <= p(d)
  BY ScaleGrows
<1> HIDE DEF p
<1>2. 250 + p(c) \in Nat /\ 250 + p(d) \in Nat /\ 250 + p(c) <= 250 + p(d)
  BY <1>1
<1>3. w(f, c) \in Nat /\ w(g, d) \in Nat /\ w(f, c) <= w(g, d)
  <2> DEFINE x == 250 + p(c)
             y == 250 + p(d)
  <2> HIDE DEF x, y
  <2>1. x \in Nat /\ y \in Nat /\ x <= y
    BY <1>2 DEF x, y
  <2>2. Scale(f, x) \in Nat /\ Scale(g, y) \in Nat /\ Scale(f, x) <= Scale(g, y)
    BY <2>1, ScaleGrows
  <2>3. QED
    BY <2>2 DEF x, y
<1> HIDE DEF w
<1>4. KeptBy(c) \in Nat /\ KeptBy(d) \in Nat /\ KeptBy(c) <= KeptBy(d)
  BY KeptByGrows
<1>5. v(f, c) \in Nat /\ v(g, d) \in Nat /\ v(f, c) <= v(g, d)
  BY <1>3, <1>4, ScaleGrows
<1> HIDE DEF v
<1>6. QED
  BY <1>0, <1>5 DEF AtLeast

-----------------------------------------------------------------------------
(* The weights of a party *)

\* The highest level of a party is one of its levels.
LEMMA HighestLevel ==
  ASSUME NEW party \in Seq(Target), party # <<>>
  PROVE  Max({m.level : m \in ToSet(party)}) \in Nat
<1> DEFINE n == Len(party)
           level(i) == party[i].level
           S == {i \in 0..n : i = 0 \/ \E k \in 1..i : \A j \in 1..i : level(j) <= level(k)}
           all == {m.level : m \in ToSet(party)}
<1>1. n \in Nat /\ n > 0 /\ n \in 0..n
  OBVIOUS
<1>2. ASSUME NEW i \in 1..n PROVE level(i) \in Nat
  <2>1. party[i] \in Target
    OBVIOUS
  <2>2. QED
    BY <2>1 DEF Target
<1>3. all = {level(i) : i \in 1..n}
  BY DEF ToSet
<1> HIDE DEF n, level
<1>4. ASSUME NEW i \in 1..n, i - 1 \in S PROVE i \in S
  <2>0. i \in 0..n /\ i \in 1..i /\ i \in Nat
    BY <1>1
  <2>1. CASE i = 1
    <3>1. \A j \in 1..i : level(j) <= level(i)
      BY <1>2, <2>0, <2>1
    <3>2. QED
      BY <2>0, <3>1
  <2>2. CASE i # 1
    <3>1. PICK k \in 1..(i - 1) : \A j \in 1..(i - 1) : level(j) <= level(k)
      BY <1>4, <2>2
    <3>2. k \in 1..i /\ k \in 1..n
      BY <1>1, <2>0
    <3>3. \A j \in 1..i : (j = i \/ j \in 1..(i - 1)) /\ j \in 1..n
      BY <1>1, <2>0
    <3>4. CASE level(i) <= level(k)
      <4>1. \A j \in 1..i : level(j) <= level(k)
        BY <3>1, <3>3, <3>4
      <4>2. QED
        BY <2>0, <3>2, <4>1
    <3>5. CASE ~(level(i) <= level(k))
      <4>1. level(k) <= level(i) /\ level(k) \in Nat /\ level(i) \in Nat
        BY <1>2, <3>2, <3>5
      <4>2. \A j \in 1..i : level(j) <= level(i)
        BY <1>2, <3>1, <3>3, <4>1
      <4>3. QED
        BY <2>0, <4>2
    <3>6. QED
      BY <3>4, <3>5
  <2>3. QED
    BY <2>1, <2>2
<1>5. 0 \in S
  BY <1>1
<1> HIDE DEF S
<1>6. n \in S
  <2>1. 0..n \subseteq S
    BY <1>1, <1>4, <1>5, TurnByTurn
  <2>2. QED
    BY <1>1, <2>1
<1>7. PICK k \in 1..n : \A j \in 1..n : level(j) <= level(k)
  BY <1>1, <1>6 DEF S
<1>8. \E x \in all : \A y \in all : x >= y
  <2>1. level(k) \in all
    BY <1>3
  <2>2. \A y \in all : level(k) >= y
    BY <1>2, <1>3, <1>7
  <2>3. QED
    BY <2>1, <2>2
<1> HIDE DEF all
<1>9. Max(all) \in all
  BY <1>8 DEF Max
<1>10. Max(all) \in Nat
  BY <1>2, <1>3, <1>9
<1>11. QED
  BY <1>10 DEF all

\* What a party weighs: positive numbers, and never less for who is neither
\* lower in level nor in damage.
Ordered(party, weights) ==
  /\ DOMAIN weights = 1..Len(party)
  /\ \A i \in 1..Len(party) : weights[i].weight \in Nat /\ weights[i].weight >= 1
  /\ \A i, j \in 1..Len(party) :
        party[i].level <= party[j].level /\ party[i].damage <= party[j].damage
           => weights[i].weight <= weights[j].weight

LEMMA WeightsOrdered ==
  ASSUME mobLevel \in Nat, NEW party \in Seq(Target), party # <<>>
  PROVE  Ordered(party, Weights(party))
<1> DEFINE n == Len(party)
           W == Weights(party)
           highest == Max({m.level : m \in ToSet(party)})
           top == AtLeast(highest, 1)
           done == [i \in DOMAIN party |-> party[i].damage]
           damage == AtLeast(Sum(done), 1)
           fit(i) == Fit(party[i].level, top)
           part(i) == Part(party[i].damage, damage)
<1>1. DOMAIN party = 1..n /\ n \in Nat
  OBVIOUS
<1>2. ASSUME NEW i \in 1..n PROVE party[i].level \in Nat /\ party[i].damage \in Nat
  <2>1. party[i] \in Target
    OBVIOUS
  <2>2. QED
    BY <2>1 DEF Target
<1>3. top \in Nat
  <2>1. highest \in Nat
    BY HighestLevel
  <2> HIDE DEF highest
  <2>2. QED
    BY <2>1 DEF AtLeast
<1>4. damage \in Nat /\ damage > 0
  <2>1. done \in Seq(Nat)
    BY <1>2
  <2> HIDE DEF done
  <2>2. PICK g : Sums(g, done) /\ Sum(done) = g[Len(done)]
    BY <2>1, SumDefined
  <2>3. Len(done) \in Nat
    BY <2>1
  <2>4. Sum(done) \in Nat
    BY <2>2, <2>3 DEF Sums
  <2>5. QED
    BY <2>4 DEF AtLeast
<1>5. DOMAIN W = 1..n
  BY <1>1 DEF Weights
<1>6. ASSUME NEW i \in 1..n PROVE W[i].weight = Weighed(fit(i), part(i))
  <2> HIDE DEF n
  <2>1. i \in DOMAIN party
    BY <1>1
  <2>2. QED
    BY <2>1 DEF Weights, Fit, Part, Weighed
<1> HIDE DEF W, top, damage, n
<1>7. ASSUME NEW i \in 1..n
      PROVE  /\ fit(i) \in Nat /\ part(i) \in Nat
             /\ W[i].weight \in Nat /\ W[i].weight >= 1
  <2> DEFINE l == party[i].level
             d == party[i].damage
  <2>0. l \in Nat /\ d \in Nat /\ fit(i) = Fit(l, top) /\ part(i) = Part(d, damage)
    BY <1>2
  <2> HIDE DEF l, d
  <2>1. l <= l /\ d <= d
    BY <2>0
  <2>2. Fit(l, top) \in Nat /\ Part(d, damage) \in Nat
    BY <1>3, <1>4, <2>0, <2>1, FitGrows, PartGrows
  <2>3. fit(i) \in Nat /\ part(i) \in Nat
    BY <2>0, <2>2
  <2>4. Weighed(fit(i), part(i)) \in Nat /\ Weighed(fit(i), part(i)) >= 1
    <3> DEFINE f == fit(i)
               c == part(i)
    <3> HIDE DEF f, c
    <3>1. f \in Nat /\ c \in Nat /\ f <= f /\ c <= c
      <4>1. f \in Nat /\ c \in Nat
        BY <2>3 DEF f, c
      <4>2. QED
        BY <4>1
    <3>2. Weighed(f, c) \in Nat /\ Weighed(f, c) >= 1
      BY <3>1, WeighedGrows
    <3>3. QED
      BY <3>2 DEF f, c
  <2>5. QED
    BY <1>6, <2>3, <2>4
<1>8. ASSUME NEW i \in 1..n, NEW j \in 1..n,
             party[i].level <= party[j].level, party[i].damage <= party[j].damage
      PROVE  W[i].weight <= W[j].weight
  <2>1. fit(i) <= fit(j)
    BY <1>2, <1>3, <1>8, FitGrows
  <2>2. part(i) <= part(j)
    BY <1>2, <1>4, <1>8, PartGrows
  <2>3. /\ fit(i) \in Nat /\ part(i) \in Nat /\ fit(j) \in Nat /\ part(j) \in Nat
        /\ W[i].weight = Weighed(fit(i), part(i))
        /\ W[j].weight = Weighed(fit(j), part(j))
    BY <1>6, <1>7
  <2> HIDE DEF fit, part
  <2>4. Weighed(fit(i), part(i)) <= Weighed(fit(j), part(j))
    BY <2>1, <2>2, <2>3, WeighedGrows
  <2>5. QED
    BY <2>3, <2>4
<1>9. QED
  BY <1>5, <1>7, <1>8 DEF Ordered, n, W

-----------------------------------------------------------------------------
(* The reward *)

LEMMA PoolTyped ==
  ASSUME NEW n \in Nat, NEW weights, DOMAIN weights = 1..n, NEW reward \in Nat
  PROVE  Pool(reward, weights) \in Nat
<1> DEFINE S == {i \in DOMAIN weights : weights[i].cooperates}
           c == Cardinality(S)
           b == Clamp(c - 1, 0, 3)
           x == reward * (100 + 10 * b)
<1>1. S \subseteq 1..n
  OBVIOUS
<1> HIDE DEF S
<1>2. c \in Nat
  <2>1. IsFiniteSet(1..n)
    BY FS_Interval
  <2>2. IsFiniteSet(S)
    BY <1>1, <2>1, FS_Subset
  <2>3. QED
    BY <2>2, FS_CardinalityType
<1> HIDE DEF c
<1>3. b \in Nat
  BY <1>2 DEF Clamp, AtLeast, AtMost
<1>4. Bonus(weights) = 10 * b
  BY DEF Bonus, S, c
<1> HIDE DEF b
<1>5. x \in Nat /\ Pool(reward, weights) = x \div 100
  BY <1>3, <1>4 DEF Pool
<1> HIDE DEF x
<1>6. QED
  BY <1>5, RoundsDown

\* The shares of a pool by weights: they add up to the pool but for less than
\* one point each, and a larger weight never gets less.
Fair(pool, weights, shares, n) ==
  /\ Sum(shares) <= pool
  /\ pool < Sum(shares) + n
  /\ \A i, j \in 1..n : weights[i].weight <= weights[j].weight => shares[i] <= shares[j]

LEMMA DivideFair ==
  ASSUME NEW n \in Nat, n > 0, NEW weights, NEW pool \in Nat, DOMAIN weights = 1..n,
         \A i \in 1..n : weights[i].weight \in Nat /\ weights[i].weight >= 1
  PROVE  Fair(pool, weights, Divide(pool, weights), n)
<1> DEFINE list == [i \in DOMAIN weights |-> weights[i].weight]
           all == AtLeast(Sum(list), 1)
           shares == Divide(pool, weights)
<1>1. list \in Seq(Nat) /\ Len(list) = n /\ \A i \in 1..n : list[i] = weights[i].weight
  OBVIOUS
<1>2. shares = [i \in 1..n |-> (pool * weights[i].weight) \div all]
  BY DEF Divide
<1> HIDE DEF list, shares
<1>3. Sum(list) \in Nat /\ Sum(list) >= 1
  <2>1. PICK g : Sums(g, list) /\ Sum(list) = g[Len(list)]
    BY <1>1, SumDefined
  <2>2. g \in [0..n -> Nat] /\ n \in 1..n /\ n - 1 \in 0..n /\ g[n] = g[n - 1] + list[n]
    BY <1>1, <2>1 DEF Sums
  <2>3. g[n - 1] \in Nat /\ list[n] \in Nat /\ list[n] >= 1
    BY <1>1, <2>2
  <2>4. QED
    BY <1>1, <2>1, <2>2, <2>3
<1>4. all = Sum(list) /\ all \in Nat /\ all > 0
  BY <1>3 DEF AtLeast
<1> HIDE DEF all
<1>5. ASSUME NEW i \in 1..n
      PROVE  /\ shares[i] = (pool * list[i]) \div all
             /\ pool * list[i] \in Nat
             /\ shares[i] \in Nat
  <2>1. shares[i] = (pool * list[i]) \div all /\ list[i] \in Nat
    BY <1>1, <1>2
  <2>2. pool * list[i] \in Nat
    BY <2>1
  <2> DEFINE x == pool * list[i]
  <2> HIDE DEF x
  <2>3. x \div all \in Nat
    BY <1>4, <2>2, RoundsDown DEF x
  <2>4. QED
    BY <2>1, <2>2, <2>3 DEF x
<1>6. shares \in Seq(Nat) /\ Len(shares) = n
  BY <1>2, <1>5
<1>7. Sum(shares) <= pool /\ pool < Sum(shares) + n
  BY <1>1, <1>4, <1>5, <1>6, SharesAddUp
<1>8. ASSUME NEW i \in 1..n, NEW j \in 1..n, weights[i].weight <= weights[j].weight
      PROVE  shares[i] <= shares[j]
  <2>1. list[i] \in Nat /\ list[j] \in Nat /\ list[i] <= list[j]
    BY <1>1, <1>8
  <2>2. pool * list[i] <= pool * list[j]
    BY <2>1, ProductGrows
  <2> DEFINE x == pool * list[i]
             y == pool * list[j]
  <2>3. x \in Nat /\ y \in Nat /\ x <= y /\ shares[i] = x \div all /\ shares[j] = y \div all
    BY <1>5, <2>2
  <2> HIDE DEF x, y
  <2>4. all <= all /\ all \in Nat /\ all > 0
    BY <1>4
  <2>5. x \div all <= y \div all
    BY <2>3, <2>4, QuotientGrows
  <2>6. QED
    BY <2>3, <2>5
<1>9. QED
  BY <1>7, <1>8 DEF Fair, shares

-----------------------------------------------------------------------------
(* The contributors of a kill *)

\* The killed mob and those it turned against.
SharesTypeOK == mobLevel \in MobLevels /\ roomTargets \in Seq([level : Levels, damage : Damages])

LEMMA SharesTyped == SharesSpec => []SharesTypeOK
<1>1. SharesInit => SharesTypeOK
  BY DEF SharesInit, SharesTypeOK
<1>2. ASSUME SharesTypeOK, [AddTarget]_shareVars PROVE SharesTypeOK'
  <2>1. CASE AddTarget
    <3>1. PICK l \in Levels, d \in Damages :
             roomTargets' = Append(roomTargets, [level |-> l, damage |-> d])
      BY <2>1 DEF AddTarget
    <3>2. [level |-> l, damage |-> d] \in [level : Levels, damage : Damages]
      OBVIOUS
    <3>3. QED
      BY <1>2, <2>1, <3>1, <3>2 DEF AddTarget, SharesTypeOK
  <2>2. CASE UNCHANGED shareVars
    BY <1>2, <2>2 DEF SharesTypeOK, shareVars
  <2>3. QED
    BY <1>2, <2>1, <2>2
<1>3. QED
  BY <1>1, <1>2, PTL DEF SharesSpec

LEMMA MembersTyped ==
  ASSUME SharesTypeOK
  PROVE  mobLevel \in Nat /\ Members \in Seq(Target)
<1> DEFINE n == Len(roomTargets)
           k == AtMost(n, MaxParty)
           hurt == Contributors(SameRoomTargets)
           h == AtMost(Len(hurt), MaxParty)
<1>1. mobLevel \in Nat
  BY ShareBounds DEF SharesTypeOK
<1>2. roomTargets \in Seq(Target)
  <2>1. [level : Levels, damage : Damages] \subseteq Target
    BY ShareBounds DEF Target
  <2> DEFINE U == [level : Levels, damage : Damages]
  <2>2. roomTargets \in Seq(U) /\ U \subseteq Target
    BY <2>1 DEF SharesTypeOK
  <2> HIDE DEF U
  <2>3. QED
    BY <2>2
<1>3. k \in Nat /\ k <= n /\ MaxParty \in Nat
  BY <1>2, ShareBounds DEF AtMost
<1>4. SameRoomTargets \in Seq(Target)
  BY <1>2, <1>3, SubSeqProperties DEF SameRoomTargets
<1>5. hurt \in Seq(Target)
  BY <1>4, ContributorsTyped
<1>6. Members = SubSeq(hurt, 1, h)
  BY DEF Members
<1> HIDE DEF hurt
<1>7. h \in Nat /\ h <= Len(hurt)
  BY <1>3, <1>5 DEF AtMost
<1> HIDE DEF h
<1>8. SubSeq(hurt, 1, h) \in Seq(Target)
  BY <1>5, <1>7, SubSeqProperties
<1>9. QED
  BY <1>1, <1>6, <1>8

\* What a reward is divided into, for the contributors of a kill.
LEMMA KillShared ==
  ASSUME SharesTypeOK, Members # <<>>, NEW reward \in Rewards
  PROVE  LET W == Weights(Members)
         IN  /\ Ordered(Members, W)
             /\ Fair(Pool(reward, W), W, Divide(Pool(reward, W), W), Len(Members))
<1> DEFINE party == Members
           n == Len(party)
           W == Weights(party)
           pool == Pool(reward, W)
<1>1. mobLevel \in Nat /\ party \in Seq(Target) /\ reward \in Nat
  BY MembersTyped, ShareBounds
<1>2. Ordered(party, W)
  <2> HIDE DEF party
  <2>1. party # <<>>
    BY DEF party
  <2>2. QED
    BY <1>1, <2>1, WeightsOrdered
<1> HIDE DEF party, W
<1>3. n \in Nat /\ n > 0
  BY <1>1 DEF party
<1>4. DOMAIN W = 1..n /\ \A i \in 1..n : W[i].weight \in Nat /\ W[i].weight >= 1
  BY <1>2 DEF Ordered
<1> HIDE DEF n
<1>5. pool \in Nat
  BY <1>1, <1>3, <1>4, PoolTyped
<1> HIDE DEF pool
<1>6. Fair(pool, W, Divide(pool, W), n)
  BY <1>3, <1>4, <1>5, DivideFair
<1>7. QED
  BY <1>2, <1>6 DEF party, n, W, pool

\* The shares of a kill never add up to more than the pool, and less than one
\* point of it is lost for each contributor.
THEOREM SharesFill == SharesSpec => []SharesFillPool
<1>1. ASSUME SharesTypeOK PROVE SharesFillPool
  <2>1. ASSUME Members # <<>>, NEW reward \in Rewards
        PROVE  LET pool == Pool(reward, Weights(Members))
                   paid == Sum(Divide(pool, Weights(Members)))
               IN  paid <= pool /\ pool < paid + Len(Members)
    BY <1>1, <2>1, KillShared DEF Fair
  <2>2. QED
    BY <2>1 DEF SharesFillPool
<1>2. QED
  BY <1>1, SharesTyped, PTL

\* Who is neither lower in level nor in damage than another contributor never
\* gets a smaller share.
THEOREM BetterShare == SharesSpec => []BetterGetsMore
<1>1. ASSUME SharesTypeOK PROVE BetterGetsMore
  <2> DEFINE party == Members
             W == Weights(party)
             share(reward) == Divide(Pool(reward, W), W)
  <2>1. party \in Seq(Target)
    BY <1>1, MembersTyped
  <2>2. ASSUME NEW reward \in Rewards, NEW i \in DOMAIN party, NEW j \in DOMAIN party,
               party[i].level <= party[j].level, party[i].damage <= party[j].damage
        PROVE  share(reward)[i] <= share(reward)[j]
    <3>1. party # <<>>
      BY <2>2
    <3>2. /\ Ordered(party, W)
          /\ Fair(Pool(reward, W), W, share(reward), Len(party))
      BY <1>1, <3>1, KillShared
    <3> HIDE DEF party, W, share
    <3>3. i \in 1..Len(party) /\ j \in 1..Len(party)
      BY <2>1
    <3>4. W[i].weight <= W[j].weight
      BY <2>2, <3>2, <3>3 DEF Ordered
    <3>5. QED
      BY <3>2, <3>3, <3>4 DEF Fair
  <2>3. QED
    BY <2>2 DEF BetterGetsMore
<1>2. QED
  BY <1>1, SharesTyped, PTL
=============================================================================
