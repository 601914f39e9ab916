--------------------------- MODULE MCSocialLists ---------------------------
(* Instances of SocialLists for TLC.                                       *)
EXTENDS SocialLists, TLC

ConnSymmetry == Permutations(Conn)

\* Bounds: how many places the follower lists hold, and all lists together.
CONSTANTS MaxFollowing, MaxPlaces

Places(lists) == FoldFunction(LAMBDA list, n : Len(list) + n, 0, lists)

FewPlaces ==
    /\ Places(rel.followers) <= MaxFollowing
    /\ Places(rel.followers) + Places(rel.members) <= MaxPlaces
=============================================================================
