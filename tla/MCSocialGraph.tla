--------------------------- MODULE MCSocialGraph ---------------------------
(* Instances of SocialGraph for TLC.  Connections are interchangeable.     *)
EXTENDS SocialGraph, FiniteSetsExt, TLC

ConnSymmetry == Permutations(Conn)

\* A bound: how many places the follower lists hold together.
CONSTANT MaxFollowing

FewFollowers ==
    MapThenSumSet(LAMBDA c : Cardinality(followers[c]), Conn) <= MaxFollowing
=============================================================================
