---------------------------- MODULE PaperFolder -----------------------------
(***************************************************************************)
(* The folder of exam PDFs that the operator's scripts work on.  A file    *)
(* may be replaced by another version, also by one that it has been before *)
(* (a correction that is taken back); its bytes, and so the key of its     *)
(* blob, are told apart by the version.                                    *)
(***************************************************************************)
EXTENDS Naturals

CONSTANTS File, MaxVersion      \* bound: versions of a file

Version == 1..MaxVersion

ASSUME FolderAssumption == MaxVersion \in Nat \ {0}

VARIABLE pdf        \* the version each file has

FolderInit == pdf = [f \in File |-> 1]

Replace(f) == \E v \in Version \ {pdf[f]} : pdf' = [pdf EXCEPT ![f] = v]

=============================================================================
