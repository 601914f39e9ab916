----------------------------- MODULE Algorithms -----------------------------
(***************************************************************************)
(* The two algorithms of the server that are checked over bounded inputs,  *)
(* side by side in one run: a behaviour feeds either the codec of a        *)
(* connection (LineCodec) or the division of a reward (ExpShares).         *)
(***************************************************************************)
EXTENDS LineCodec, ExpShares

vars == <<codecVars, shareVars>>

(* The input one of the two has before it gets any. *)
NoTargets == mobLevel = 0 /\ roomTargets = <<>>

Init == CodecInit /\ (NoTargets \/ SharesInit)

Feed == NoTargets /\ CodecNext /\ UNCHANGED shareVars
Reward == ~NoTargets /\ AddTarget /\ UNCHANGED codecVars

Next == Feed \/ Reward

Spec == Init /\ [][Next]_vars
=============================================================================
