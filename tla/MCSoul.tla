------------------------------- MODULE MCSoul -------------------------------
(* Instances of Soul for TLC. *)
EXTENDS Soul, TLC

CONSTANTS a, x, y

(* x stood beside a in an earlier session, y may be attached in this one. *)
MCSaved == a :> {x}

(* Connections are interchangeable. *)
Symmetry == Permutations(Conn)
=============================================================================
