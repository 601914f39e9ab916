----------------------------- MODULE MCCallOut -----------------------------
(* Instances of CallOut for TLC. *)
EXTENDS CallOut, TLC

(* Ids, targets and functions are interchangeable where only safety counts. *)
Symmetry == Permutations(Id) \cup Permutations(Target) \cup Permutations(Function)
=============================================================================
