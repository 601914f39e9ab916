------------------------------ MODULE MobLife ------------------------------
(***************************************************************************)
(* What combat promises about a mob, in the words of a player: it lives,   *)
(* somebody slays it, the death is owed exactly one reward, at once or     *)
(* late, and a reward owed at once is settled before the mob comes back.   *)
(* Combat implements this.                                                 *)
(***************************************************************************)

CONSTANTS Players, Mobs

VARIABLES living,      \* mobs that are alive
          owed,        \* deaths in a tick, not settled: <<mob, slayer>>
          late         \* deaths by a throw, kept until an opponent is there

vars == <<living, owed, late>>

Init == living = Mobs /\ owed = {} /\ late = {}

(* Players slay some of the living mobs, each mob by one of them. *)
Slay == \E p \in Players, dead \in SUBSET living :
          /\ living' = living \ dead
          /\ owed' = owed \cup {<<m, p>> : m \in dead}
          /\ UNCHANGED late

SlayLate == \E p \in Players, m \in living :
              /\ living' = living \ {m}
              /\ late' = late \cup {<<m, p>>}
              /\ UNCHANGED owed

(* Every death of the tick is settled, at once, and late ones with it. *)
Settle == owed' = {} /\ late' \subseteq late /\ UNCHANGED living

(* A mob comes back; by then its death in a tick is settled. *)
Rise == \E m \in Mobs \ living :
          /\ \A p \in Players : <<m, p>> \notin owed
          /\ living' = living \cup {m}
          /\ UNCHANGED <<owed, late>>

Next == Slay \/ SlayLate \/ Settle \/ Rise

Spec == Init /\ [][Next]_vars

=============================================================================
