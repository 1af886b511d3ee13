-------------------------- MODULE MCOperatorScripts -------------------------
(***************************************************************************)
(* One PDF of two versions that replace each other, with an image that one *)
(* version has and the other has not, and two methods to convert it with.  *)
(* The scripts treat every file by itself; only the exit code is about all *)
(* of them.                                                                *)
(***************************************************************************)
EXTENDS OperatorScripts, TLC

CONSTANTS p1, i1

MCFile == {p1}
MCChunksOf == [v \in Version |-> IF v = 1 THEN <<{i1}, {}, {}>> ELSE <<{}, {}>>]
MCImagesOf == [v \in Version |-> IF v = 1 THEN {i1} ELSE {}]

=============================================================================
