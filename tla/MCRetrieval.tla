----------------------------- MODULE MCRetrieval -----------------------------
(***************************************************************************)
(* An instance of Retrieval for TLC: a question with two sub-questions, of *)
(* which one is as near as the question, and a question of another paper.  *)
(* Only the first sub-question is too long for a single chunk.             *)
(***************************************************************************)
EXTENDS Retrieval

CONSTANTS declared, structural

Chunks == 1..4
Parents == <<0, 1, 1, 0>>
Papers == {{1, 2, 3}, {4}}
Similarities == <<1, 2, 1, 0>>
Lengths == <<16, 60, 20, 8>>
Fields == {declared, structural}
StructuralFields == {structural}
Matching == [f \in Fields |-> IF f = declared THEN {1, 2, 4} ELSE {1, 2, 3}]
Limits == {1, 3, 4}

=============================================================================
