------------------------- MODULE MCCollectionAccess -------------------------
(***************************************************************************)
(* Instances of CollectionAccess for TLC: a public collection, and one of  *)
(* the first of two communities.                                           *)
(***************************************************************************)
EXTENDS CollectionAccess, TLC

CONSTANTS open, ours, A

Communities == [c \in {open, ours} |-> IF c = ours THEN A ELSE NoCommunity]

EitherRequest == Permutations(Proc)

=============================================================================
