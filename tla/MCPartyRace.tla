---------------------------- MODULE MCPartyRace ----------------------------
(* Instances of PartyRace for TLC.                                         *)
EXTENDS PartyRace, TLC

ConnSymmetry == Permutations(Conn)
=============================================================================
