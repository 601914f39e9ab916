----------------------------- MODULE Pvp_proof -----------------------------
(***************************************************************************)
(* Proofs about the fights between players (Pvp).                          *)
(*                                                                         *)
(* IInv is the inductive invariant.  Two players that name each other are  *)
(* in the same room: that is what makes the room of LinksMutual hold, and  *)
(* it needs that a linked body fights (a fight keeps it from walking) and  *)
(* that a body out of the game names nobody.  While the tick lets the      *)
(* pairs strike, the pairs that are left, and the one that struck, are     *)
(* still duels.                                                            *)
(***************************************************************************)
EXTENDS Pvp, TLAPS

Together == \A p \in Players : Mutual(p) => room[pvp[p]] = room[p]

OfflineClean == \A p \in Players : ~Online(p) => ~Linked(p)

InTick == /\ duel # {} => phase = "pairs" /\ duel \in Duels /\ duel \notin todo
          /\ phase = "pairs" => todo \subseteq Duels

IInv == TypeOK /\ LinkMeansFight /\ LinksMutual /\ Together /\ OfflineClean /\ InTick

-----------------------------------------------------------------------------
(* Lemmas about pairs *)

(* The members of a duel name each other, and there are two of them: where *)
(* one is, the other is whom it names.                                     *)
LEMMA DuelIsMutual ==
  ASSUME NEW d \in Duels, NEW p \in d
  PROVE  /\ p \in Players /\ pvp[p] \in Players /\ pvp[pvp[p]] = p
         /\ pvp[p] # p /\ d = {p, pvp[p]} /\ Counts(p) /\ Counts(pvp[p])
  <1>1. PICK a \in d, b \in d : a # b /\ d = {a, b}
    BY DEF Duels, Pairs
  <1>2. /\ a \in Players /\ b \in Players
        /\ pvp[a] = b /\ pvp[b] = a /\ Counts(a) /\ Counts(b)
    BY <1>1 DEF Duels, Pairs
  <1> QED
    BY <1>1, <1>2

(* Two players that count and name each other are a duel. *)
LEMMA MutualIsDuel ==
  ASSUME NEW p \in Players, NEW q \in Players, p # q,
         pvp[p] = q, pvp[q] = p, Counts(p), Counts(q)
  PROVE  {p, q} \in Duels
  BY DEF Duels, Pairs

(* Nobody is in two duels. *)
LEMMA DuelsDisjoint ==
  ASSUME NEW d \in Duels, NEW e \in Duels, d # e
  PROVE  d \cap e = {}
  <1> SUFFICES ASSUME NEW p \in d, p \in e PROVE d = e
    OBVIOUS
  <1>1. d = {p, pvp[p]}
    BY DuelIsMutual
  <1>2. e = {p, pvp[p]}
    BY DuelIsMutual
  <1> QED
    BY <1>1, <1>2

-----------------------------------------------------------------------------
(* Type correctness *)

(* Every step keeps the types. *)
LEMMA TypeStep == TypeOK /\ [Next]_vars => TypeOK'
  <1> SUFFICES ASSUME TypeOK, [Next]_vars PROVE TypeOK'
    OBVIOUS
  <1> USE DEF TypeOK, body, tick
  <1>1. ASSUME NEW p \in Players, Connection(p) PROVE TypeOK'
    BY <1>1 DEF Connection, Login, AskLeave, Disconnect, Online
  <1>2. ASSUME NEW p \in Players, NEW q \in Players, Attack(p, q) \/ Cast(p, q)
        PROVE TypeOK'
    BY <1>2 DEF Attack, Cast, Engage
  <1>3. ASSUME NEW p \in Players, NEW r \in Rooms, Flee(p, r) PROVE TypeOK'
    BY <1>3 DEF Flee
  <1>4. ASSUME NEW p \in Players, NEW r \in Rooms, Walk(p, r) \/ Summon(p, r)
        PROVE TypeOK'
    BY <1>4 DEF Walk, Summon
  <1>5. ASSUME NEW p \in Players, MeetMob(p) \/ Rest(p) PROVE TypeOK'
    BY <1>5 DEF MeetMob, Rest
  <1>6. CASE TickStart \/ TickEnd
    BY <1>6 DEF TickStart, TickEnd
  <1>7. CASE Sort
    BY <1>7 DEF Sort, Released, Duels
  <1>8. CASE Apply
    BY <1>8 DEF Apply
  <1>9. ASSUME NEW p \in Players, Update(p) PROVE TypeOK'
    <2>1. /\ todo' \subseteq todo
          /\ \E a \in {"stand", "rest", "death"} :
               act' = act \/ act' = [act EXCEPT ![p] = a]
          /\ \E b \in BOOLEAN : mob' = mob \/ mob' = [mob EXCEPT ![p] = b]
      BY <1>9 DEF Update
    <2>2. UNCHANGED <<phase, duel, blows, room, leaving, pvp>>
      BY <1>9 DEF Update
    <2> QED
      BY <2>1, <2>2
  <1>10. ASSUME NEW d \in Pairs, Strike(d) PROVE TypeOK'
    BY <1>10 DEF Strike, Pairs
  <1>11. CASE UNCHANGED vars
    BY <1>11 DEF vars
  <1> QED
    BY <1>1, <1>2, <1>3, <1>4, <1>5, <1>6, <1>7, <1>8, <1>9, <1>10, <1>11
       DEF Next, Tick, GameCommand

(* The variables keep their types. *)
THEOREM TypeCorrect == Spec => []TypeOK
  <1>1. Init => TypeOK
    BY DEF Init, TypeOK
  <1> QED
    BY <1>1, TypeStep, PTL DEF Spec

-----------------------------------------------------------------------------
(* The inductive invariant *)

(* A linked body fights, and one that is out of the game is not linked. *)
LEMMA LinkStep ==
  TypeOK /\ LinkMeansFight /\ OfflineClean /\ InTick /\ [Next]_vars
    => LinkMeansFight' /\ OfflineClean'
  <1> SUFFICES ASSUME TypeOK, LinkMeansFight, OfflineClean, InTick, [Next]_vars
               PROVE  LinkMeansFight' /\ OfflineClean'
    OBVIOUS
  <1> USE DEF TypeOK, LinkMeansFight, OfflineClean, Linked, Online, body, tick
  <1>1. ASSUME NEW p \in Players, Connection(p)
        PROVE LinkMeansFight' /\ OfflineClean'
    BY <1>1, PvpAssumption DEF Connection, Login, AskLeave, Disconnect
  <1>2. ASSUME NEW p \in Players, NEW q \in Players, Attack(p, q) \/ Cast(p, q)
        PROVE LinkMeansFight' /\ OfflineClean'
    BY <1>2 DEF Attack, Cast, Engage, Command, Here
  <1>3. ASSUME NEW p \in Players, NEW r \in Rooms, Flee(p, r)
        PROVE LinkMeansFight' /\ OfflineClean'
    BY <1>3, PvpAssumption DEF Flee, Command
  <1>4. ASSUME NEW p \in Players, NEW r \in Rooms, Walk(p, r) \/ Summon(p, r)
        PROVE LinkMeansFight' /\ OfflineClean'
    BY <1>4, PvpAssumption DEF Walk, Summon, Command
  <1>5. ASSUME NEW p \in Players, MeetMob(p) \/ Rest(p)
        PROVE LinkMeansFight' /\ OfflineClean'
    BY <1>5 DEF MeetMob, Rest
  <1>6. CASE TickStart \/ TickEnd
    BY <1>6 DEF TickStart, TickEnd
  <1>7. CASE Sort
    BY <1>7 DEF Sort, Released
  <1>8. CASE Apply
    BY <1>8 DEF Apply, Dies
  <1>9. ASSUME NEW p \in Players, Update(p) PROVE LinkMeansFight' /\ OfflineClean'
    BY <1>9 DEF Update
  <1>10. ASSUME NEW d \in Pairs, Strike(d) PROVE LinkMeansFight' /\ OfflineClean'
    BY <1>10 DEF Strike
  <1>11. CASE UNCHANGED vars
    BY <1>11 DEF vars
  <1> QED
    BY <1>1, <1>2, <1>3, <1>4, <1>5, <1>6, <1>7, <1>8, <1>9, <1>10, <1>11
       DEF Next, Tick, GameCommand

(* Two players that name each other stay in one room. *)
LEMMA TogetherStep ==
  TypeOK /\ LinkMeansFight /\ OfflineClean /\ Together /\ [Next]_vars => Together'
  <1> SUFFICES ASSUME TypeOK, LinkMeansFight, OfflineClean, Together, [Next]_vars
               PROVE  Together'
    OBVIOUS
  <1> USE DEF TypeOK, Together, Mutual, body, tick
  <1>1. ASSUME NEW p \in Players, Connection(p) PROVE Together'
    BY <1>1, PvpAssumption
       DEF Connection, Login, AskLeave, Disconnect, OfflineClean, Linked, Online
  <1>2. ASSUME NEW p \in Players, NEW q \in Players, Attack(p, q) \/ Cast(p, q)
        PROVE Together'
    BY <1>2 DEF Attack, Cast, Engage, Here
  <1>3. ASSUME NEW p \in Players, NEW r \in Rooms, Flee(p, r) PROVE Together'
    BY <1>3, PvpAssumption DEF Flee
  <1>4. ASSUME NEW p \in Players, NEW r \in Rooms, Walk(p, r) PROVE Together'
    <2>1. pvp[p] = Nobody
      BY <1>4 DEF Walk, LinkMeansFight, Linked
    <2> QED
      BY <1>4, <2>1, PvpAssumption DEF Walk
  <1>5. ASSUME NEW p \in Players, NEW r \in Rooms, Summon(p, r) PROVE Together'
    BY <1>5, PvpAssumption DEF Summon
  <1>6. ASSUME NEW p \in Players, MeetMob(p) \/ Rest(p) PROVE Together'
    BY <1>6 DEF MeetMob, Rest
  <1>7. CASE TickStart \/ TickEnd
    BY <1>7 DEF TickStart, TickEnd
  <1>8. CASE Sort
    BY <1>8, PvpAssumption DEF Sort, Released
  <1>9. CASE Apply
    BY <1>9, PvpAssumption DEF Apply
  <1>10. ASSUME NEW p \in Players, Update(p) PROVE Together'
    BY <1>10 DEF Update
  <1>11. ASSUME NEW d \in Pairs, Strike(d) PROVE Together'
    BY <1>11 DEF Strike
  <1>12. CASE UNCHANGED vars
    BY <1>12 DEF vars
  <1> QED
    BY <1>1, <1>2, <1>3, <1>4, <1>5, <1>6, <1>7, <1>8, <1>9, <1>10, <1>11, <1>12
       DEF Next, Tick, GameCommand

(* Outside of the duels nothing is said about the links. *)
LEMMA Elsewhere ==
  InTick /\ phase # "pairs" /\ phase' # "pairs" /\ UNCHANGED duel
    => InTick' /\ LinksMutual'
  BY DEF InTick, LinksMutual

(* The sorting of the links leaves the duels, and those only. *)
LEMMA SortStep ==
  ASSUME TypeOK, LinkMeansFight, OfflineClean, Together, InTick, Sort
  PROVE  InTick' /\ LinksMutual'
  <1> USE DEF TypeOK
  <1>1. /\ todo' = Duels /\ duel = {} /\ duel' = {} /\ phase' = "pairs"
        /\ UNCHANGED <<room, leaving>>
    BY DEF Sort, InTick
  <1>2. \A p \in Players : pvp'[p] = IF p \in Orphans THEN Nobody ELSE pvp[p]
    BY DEF Sort, Released
  <1>3. \A d \in Duels : d \in Duels'
    <2> SUFFICES ASSUME NEW d \in Duels PROVE d \in Duels'
      OBVIOUS
    <2>1. \A p \in d : p \in Players /\ pvp'[p] = pvp[p]
      BY <1>2 DEF Orphans, Duels, Pairs
    <2> QED
      BY <1>1, <2>1 DEF Duels, Pairs, Counts, Online
  <1>4. LinksMutual'
    <2> SUFFICES ASSUME NEW p \in Players, Counts(p), pvp'[p] # Nobody
                 PROVE  LET q == pvp'[p]
                        IN /\ Counts(q) /\ pvp'[q] = p /\ room[q] = room[p]
                           /\ act'[q] = "fight"
      BY <1>1 DEF LinksMutual, Counts, Online, Linked
    <2>1. p \notin Orphans /\ pvp'[p] = pvp[p]
      BY <1>2
    <2>2. PICK d \in Duels : p \in d
      BY <2>1 DEF Orphans, Linked
    <2>3. /\ pvp[p] \in Players /\ pvp[pvp[p]] = p /\ Counts(pvp[p])
          /\ pvp[p] \in d
      BY <2>2, DuelIsMutual
    <2>4. pvp'[pvp[p]] = p /\ pvp[p] \notin Orphans
      BY <1>2, <2>3 DEF Orphans
    <2>5. room[pvp[p]] = room[p]
      BY <2>3 DEF Together, Mutual
    <2>6. act[pvp[p]] = "fight"
      BY <2>3, PvpAssumption DEF LinkMeansFight, Linked
    <2>7. act'[pvp[p]] = "fight"
      BY <2>3, <2>4, <2>6 DEF Sort, Released
    <2> QED
      BY <2>1, <2>3, <2>4, <2>5, <2>7
  <1> QED
    BY <1>1, <1>3, <1>4 DEF InTick

(* The strike takes one duel from those left; no link changes. *)
LEMMA StrikeStep ==
  ASSUME TypeOK, LinksMutual, InTick, NEW d \in Pairs, Strike(d)
  PROVE  InTick' /\ LinksMutual'
  <1>1. /\ phase = "pairs" /\ d \in Duels /\ d \in todo
        /\ todo' = todo \ {d} /\ duel' = d
        /\ UNCHANGED <<phase, room, leaving, act, mob, pvp>>
    BY DEF Strike, InTick, body
  <1>2. Duels' = Duels
    BY <1>1 DEF Duels, Counts, Online
  <1>3. InTick'
    BY <1>1, <1>2 DEF InTick
  <1>4. LinksMutual'
    BY <1>1 DEF LinksMutual, Counts, Online, Linked
  <1> QED
    BY <1>3, <1>4

(* The damage ends one duel at most, for both of its members; the others   *)
(* have no member in common with it.                                       *)
LEMMA ApplyStep ==
  ASSUME TypeOK, LinkMeansFight, LinksMutual, InTick, Apply
  PROVE  InTick' /\ LinksMutual'
  <1> USE DEF TypeOK
  <1>1. /\ phase = "pairs" /\ phase' = "pairs" /\ duel' = {} /\ todo' = todo
        /\ todo \subseteq Duels /\ duel \in Duels /\ duel \notin todo
        /\ UNCHANGED <<room, leaving>>
    BY DEF Apply, InTick
  <1>2. \A p \in Players : pvp'[p] = IF p \in duel /\ blows # {}
                                    THEN Nobody ELSE pvp[p]
    BY DEF Apply
  <1>3. \A p \in Players \ duel : act'[p] = act[p]
    BY DEF Apply, Dies
  <1>4. blows = {} => act' = act
    BY DEF Apply, Dies
  <1>5. InTick'
    <2> SUFFICES ASSUME NEW d \in todo PROVE d \in Duels'
      BY <1>1 DEF InTick
    <2>1. d \in Duels /\ d \cap duel = {}
      BY <1>1, DuelsDisjoint
    <2>2. \A p \in d : p \in Players /\ pvp'[p] = pvp[p]
      BY <1>2, <2>1 DEF Duels, Pairs
    <2> QED
      BY <1>1, <2>1, <2>2 DEF Duels, Pairs, Counts, Online
  <1>6. LinksMutual'
    <2> SUFFICES ASSUME NEW p \in Players, Counts(p), pvp'[p] # Nobody
                 PROVE  LET q == pvp'[p]
                        IN /\ Counts(q) /\ pvp'[q] = p /\ room[q] = room[p]
                           /\ act'[q] = "fight"
      BY <1>1 DEF LinksMutual, Counts, Online, Linked
    <2>1. pvp'[p] = pvp[p] /\ (p \notin duel \/ blows = {})
      BY <1>2
    <2>2. /\ pvp[p] \in Players /\ Counts(pvp[p]) /\ pvp[pvp[p]] = p
          /\ room[pvp[p]] = room[p] /\ act[pvp[p]] = "fight"
      BY <1>1, <2>1 DEF LinksMutual, Linked
    <2>3. pvp[p] \notin duel \/ blows = {}
      BY <1>1, <2>1, <2>2, DuelIsMutual
    <2> QED
      BY <1>2, <1>3, <1>4, <2>1, <2>2, <2>3
  <1> QED
    BY <1>5, <1>6

(* IInv is inductive. *)
LEMMA Induction == IInv /\ [Next]_vars => IInv'
  <1> SUFFICES ASSUME IInv, [Next]_vars PROVE IInv'
    OBVIOUS
  <1> USE DEF IInv
  <1>1. TypeOK' /\ LinkMeansFight' /\ OfflineClean' /\ Together'
    BY TypeStep, LinkStep, TogetherStep
  <1>2. ASSUME NEW p \in Players, Connection(p) \/ GameCommand(p)
        PROVE InTick' /\ LinksMutual'
    <2>1. phase = "open" /\ UNCHANGED <<phase, duel>>
      BY <1>2 DEF Connection, Login, AskLeave, Disconnect, GameCommand, Attack, Cast,
                  Engage, Flee, Walk, Summon, MeetMob, Rest, Command, tick
    <2> QED
      BY <2>1, Elsewhere
  <1>3. CASE TickStart \/ TickEnd
    <2>1. phase' # "pairs" /\ duel' = {}
      BY <1>3 DEF TickStart, TickEnd, InTick
    <2> QED
      BY <1>1, <2>1 DEF InTick, LinksMutual
  <1>4. ASSUME NEW p \in Players, Update(p) PROVE InTick' /\ LinksMutual'
    BY <1>4, Elsewhere DEF Update
  <1>5. CASE UNCHANGED vars
    <2>1. UNCHANGED <<phase, todo, duel, blows, room, leaving, act, mob, pvp>>
      BY <1>5 DEF vars, tick, body
    <2>2. Duels' = Duels
      BY <2>1 DEF Duels, Counts, Online
    <2> QED
      BY <1>1, <2>1, <2>2 DEF InTick, LinksMutual, Counts, Online, Linked
  <1> QED
    BY <1>1, <1>2, <1>3, <1>4, <1>5, SortStep, StrikeStep, ApplyStep DEF Next, Tick

(* Initially nobody fights. *)
LEMMA Beginning == Init => IInv
  BY PvpAssumption DEF Init, IInv, TypeOK, LinkMeansFight, LinksMutual, Together,
                       OfflineClean, InTick, Mutual, Linked

(* The inductive invariant holds in every reachable state. *)
LEMMA Invariance == Spec => []IInv
  BY Beginning, Induction, PTL DEF Spec

-----------------------------------------------------------------------------
(* Theorems *)

(* A body that names an opponent fights: neither flight, summons, death,   *)
(* disconnection nor the tick leaves a link on a body that stands.         *)
THEOREM LinkedFight == Spec => []LinkMeansFight
  BY Invariance, PTL DEF IInv

(* From the sorting of the links to the end of the tick every link of a    *)
(* player that counts is returned, in the same room, by one that fights.   *)
THEOREM SortedLinks == Spec => []LinksMutual
  BY Invariance, PTL DEF IInv

(* A duel is not taken over by a third player. *)
THEOREM TakeoverFree == Spec => NoTakeover
  <1>1. IInv /\ [Next]_vars =>
          [\A p \in Players : Mutual(p) => pvp'[p] \in {pvp[p], Nobody}]_vars
    <2> SUFFICES ASSUME IInv, Next, NEW p \in Players, Mutual(p)
                 PROVE  pvp'[p] \in {pvp[p], Nobody}
      OBVIOUS
    <2> USE DEF IInv, TypeOK, body, Mutual
    <2>1. ASSUME NEW a \in Players, NEW q \in Players, Attack(a, q) \/ Cast(a, q)
          PROVE pvp'[p] \in {pvp[p], Nobody}
      <3>1. pvp' = [pvp EXCEPT ![a] = q, ![q] = a] /\ pvp[q] \in {a, Nobody}
        BY <2>1 DEF Attack, Cast, Engage, Free
      <3>2. pvp[a] \in {q, Nobody}
        BY <2>1 DEF Attack, Cast, Linked, LinkMeansFight
      <3> QED
        BY <3>1, <3>2, PvpAssumption
    <2>2. ASSUME NEW a \in Players, Connection(a) PROVE pvp'[p] \in {pvp[p], Nobody}
      BY <2>2 DEF Connection, Login, AskLeave, Disconnect
    <2>3. ASSUME NEW a \in Players, NEW r \in Rooms, Flee(a, r) \/ Walk(a, r) \/ Summon(a, r)
          PROVE pvp'[p] \in {pvp[p], Nobody}
      BY <2>3 DEF Flee, Walk, Summon
    <2>4. ASSUME NEW a \in Players, MeetMob(a) \/ Rest(a) \/ Update(a)
          PROVE pvp'[p] \in {pvp[p], Nobody}
      BY <2>4 DEF MeetMob, Rest, Update
    <2>5. CASE TickStart \/ TickEnd \/ Sort \/ Apply
      BY <2>5 DEF TickStart, TickEnd, Sort, Released, Apply
    <2>6. ASSUME NEW d \in Pairs, Strike(d) PROVE pvp'[p] \in {pvp[p], Nobody}
      BY <2>6 DEF Strike
    <2> QED
      BY <2>1, <2>2, <2>3, <2>4, <2>5, <2>6 DEF Next, Tick, GameCommand
  <1> QED
    BY <1>1, Invariance, PTL DEF Spec, NoTakeover

=============================================================================
