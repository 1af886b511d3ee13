--------------------------- MODULE MCIngestWorker ---------------------------
(***************************************************************************)
(* Instances of IngestWorker for TLC.  Two contents of a paper: the second *)
(* extracts fewer chunks than the first, as a corrected PDF or a changed   *)
(* parser does.                                                            *)
(***************************************************************************)
EXTENDS IngestWorker, TLC

CONSTANTS j1, j2, p1, r1, c1, c2, v1, v2, w1, w2

OnePaper == [j \in Job |-> p1]
OneRun == [p \in Paper |-> r1]

FirstOrBoth == [p \in Paper |-> [v \in Version |->
                  IF v = v1 THEN {c1, c2} ELSE {c1}]]
OwnChunk == [p \in Paper |-> [v \in Version |-> {c1}]]

Symmetry == Permutations(Worker) \cup Permutations(Empty)

=============================================================================
