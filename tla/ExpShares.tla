------------------------------ MODULE ExpShares ------------------------------
(***************************************************************************)
(* party_experience_shares of server/game_loop.rs: the experience of a     *)
(* killed mob is divided among at most MaxParty characters who hurt it, by *)
(* their damage and by how near their level is to the highest one.  The    *)
(* steps of the machine only put together the inputs: the targets of the   *)
(* mob that stood in the room, in order, with the damage each of them did. *)
(*                                                                         *)
(* The saturating products of the program stay below 2^63 for every level  *)
(* and damage below 2^53 and are plain products here; the reward that      *)
(* calculate_exp_reward_for_level draws is an input.                       *)
(***************************************************************************)
EXTENDS Integers, Sequences, SequencesExt

CONSTANTS
    Levels,      \* levels of characters
    MobLevels,   \* levels of mobs
    Damages,     \* damage of one character, 0 for a target that did none
    Rewards,     \* rewards that may be drawn
    MaxParty,    \* MAX_PARTY_SIZE
    MaxTargets   \* bound: targets of the mob

ASSUME ShareBounds ==
    /\ Levels \subseteq Nat /\ MobLevels \subseteq Nat /\ Damages \subseteq Nat
    /\ Rewards \subseteq Nat \ {0}
    /\ MaxParty \in Nat \ {0} /\ MaxTargets \in Nat

VARIABLES
    mobLevel,   \* level of the killed mob
    roomTargets \* sequence of [level, damage]

shareVars == <<mobLevel, roomTargets>>

SharesInit ==
    /\ mobLevel \in MobLevels
    /\ roomTargets = <<>>

(* One more target of the mob. *)
AddTarget ==
    /\ Len(roomTargets) < MaxTargets
    /\ \E l \in Levels, d \in Damages :
          roomTargets' = Append(roomTargets, [level |-> l, damage |-> d])
    /\ UNCHANGED mobLevel

SharesSpec == SharesInit /\ [][AddTarget]_shareVars

-----------------------------------------------------------------------------
(* The division *)

AtMost(n, max) == IF n > max THEN max ELSE n
AtLeast(n, min) == IF n < min THEN min ELSE n
Clamp(n, min, max) == AtLeast(AtMost(n, max), min)

(* Quotients in thousandths, and thousandths of a number. *)
Permille(n, whole) == (n * 1000) \div whole
Scale(n, permille) == (n * permille) \div 1000

(* Who the reward is made out to: the first MaxParty targets. *)
SameRoomTargets == SubSeq(roomTargets, 1, AtMost(Len(roomTargets), MaxParty))

(* The contributors among them, who did some damage, in their order. *)
Contributors(list) ==
    LET among[i \in 0..Len(list)] ==
            IF i = 0 THEN <<>>
            ELSE IF list[i].damage > 0 THEN Append(among[i - 1], list[i])
            ELSE among[i - 1]
    IN  among[Len(list)]

Members ==
    LET hurt == Contributors(SameRoomTargets)
    IN  SubSeq(hurt, 1, AtMost(Len(hurt), MaxParty))

Sum(list) ==
    LET upTo[i \in 0..Len(list)] == IF i = 0 THEN 0 ELSE upTo[i - 1] + list[i]
    IN  upTo[Len(list)]

(* How far a character of this level is from the mob, in thousandths. *)
Challenge(level) ==
    LET gap == mobLevel - level
        reasonable == AtLeast(level \div 4, 20)
    IN  IF gap > reasonable
        THEN Clamp(Permille(reasonable, gap), 10, 1000)
        ELSE 1000

(* What a character that did less than a twentieth of the damage keeps. *)
KeptBy_Swapped(contribution) ==    \* (mutant) the quotient upside down
    IF contribution > 50 THEN Permille(50, contribution) ELSE 1000
KeptBy(contribution) ==
    IF contribution < 50 THEN Permille(contribution, 50) ELSE 1000

(* The weight of each member of a party, in thousandths. *)
Weights(party) ==
    LET maxLevel == AtLeast(Max({m.level : m \in ToSet(party)}), 1)
        damage == AtLeast(Sum([i \in DOMAIN party |-> party[i].damage]), 1)
    IN  [i \in DOMAIN party |->
            LET level == AtLeast(party[i].level, 1)
                ratio == Clamp(Permille(level + 50, maxLevel + 50), 1, 1000)
                compatibility == Clamp(Scale(Scale(ratio, ratio), Challenge(level)), 1, 1000)
                contribution == Clamp(Permille(party[i].damage, damage), 1, 1000)
                participation == 250 + Scale(750, contribution)
                whole == Scale(compatibility, participation)
            IN  [weight |-> AtLeast(Scale(whole, KeptBy(contribution)), 1),
                 cooperates |-> compatibility >= 700 /\ contribution >= 100]]

(* Ten percent for each cooperating member beyond the first. *)
Bonus(weights) ==
    10 * Clamp(Cardinality({i \in DOMAIN weights : weights[i].cooperates}) - 1, 0, 3)
Pool(reward, weights) == (reward * (100 + Bonus(weights))) \div 100

(* The experience of each contributor. *)
Divide_RoundsUp(pool, weights) ==   \* (mutant) rounded up
    LET all == AtLeast(Sum([i \in DOMAIN weights |-> weights[i].weight]), 1)
    IN  [i \in DOMAIN weights |-> (pool * weights[i].weight + all - 1) \div all]
Divide(pool, weights) ==
    LET all == AtLeast(Sum([i \in DOMAIN weights |-> weights[i].weight]), 1)
    IN  [i \in DOMAIN weights |-> (pool * weights[i].weight) \div all]

-----------------------------------------------------------------------------
(* Properties *)

(* The shares of a kill never add up to more than the pool, and the        *)
(* rounding of the program keeps back less than one point for each of them *)
(* (party_experience_shares).                                              *)
SharesFillPool ==
    LET party == Members
        weights == Weights(party)
    IN  party # <<>> =>
            \A reward \in Rewards :
                LET pool == Pool(reward, weights)
                    paid == Sum(Divide(pool, weights))
                IN  paid <= pool /\ pool < paid + Len(party)

(* "Damage participation controls most of the share" and a low level only  *)
(* lowers it: who is neither below another contributor in level nor in     *)
(* damage never gets less than it, through all the roundings and clamps.   *)
BetterGetsMore ==
    LET party == Members
        weights == Weights(party)
    IN  \A reward \in Rewards :
            LET share == Divide(Pool(reward, weights), weights) IN
            \A i, j \in DOMAIN party :
                party[i].level <= party[j].level /\ party[i].damage <= party[j].damage
                    => share[i] <= share[j]
=============================================================================
