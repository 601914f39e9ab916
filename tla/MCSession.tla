----------------------------- MODULE MCSession -----------------------------
(* Instances of Session for TLC. *)
EXTENDS Session, TLC

(* Connections are interchangeable; used only where no liveness is checked. *)
Symmetry == Permutations(Conn)
=============================================================================
