---------------------------- MODULE MCStudyGraph ----------------------------
(***************************************************************************)
(* Instances of StudyGraph for TLC: three chunks, of which the third is an *)
(* id a model makes up from the first, and which no search returns.        *)
(***************************************************************************)
EXTENDS StudyGraph

CONSTANTS a, b, a_i

Prefixes == {<<a, a_i>>}

=============================================================================
