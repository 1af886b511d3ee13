------------------------ MODULE MCIndexTransactions -------------------------
(***************************************************************************)
(* Instances of IndexTransactions for TLC: two papers of one chunk each.   *)
(***************************************************************************)
EXTENDS IndexTransactions, TLC

CONSTANTS c1, c2, f1, f2

PaperPerChunk == [c \in {c1, c2} |-> IF c = c1 THEN f1 ELSE f2]

EitherCall == Permutations(Call)

=============================================================================
