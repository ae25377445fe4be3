--------------------------- MODULE SkampiOffsetMC ---------------------------
(* A pair that measures three times, once with the roles swapped.           *)
EXTENDS SkampiOffset

MCSkew == [p \in Rank |-> 2 * p]
MCRefs == <<0, 1, 0>>
=============================================================================
