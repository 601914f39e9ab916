------------------------------ MODULE MCCombat ------------------------------
(* Small instances of Combat for TLC. *)
EXTENDS Combat

CONSTANTS p1, p2, m1, m2, temple, field, k1, k2

(* Two mobs of one template, or of two: m1 attacks whoever comes, m2 only  *)
(* helps.                                                                  *)
MCOneKey  == (m1 :> k1) @@ (m2 :> k1)
MCTwoKeys == (m1 :> k1) @@ (m2 :> k2)
MCKind    == (m1 :> 1) @@ (m2 :> 2)
MCOrigin  == (m1 :> field) @@ (m2 :> field)

(* Bounds: one unsettled death by a throw, and while it waits every mob is *)
(* where it belongs.  While a group attack is carried out no death by a    *)
(* throw waits, no mob is away, and one body or mob at most is dead.       *)
FewAtOnce ==
  /\ Cardinality(queued) <= 1
  /\ queued # {} => \A m \in Mobs : mobRoom[m] = Origin[m]
  /\ call # NoCall =>
       /\ queued = {}
       /\ \A m \in Mobs : mobRoom[m] = Origin[m]
       /\ Cardinality({p \in Players : act[p] = "death"} \cup {m \in Mobs : ~alive[m]}) <= 1
=============================================================================
