--------------------------- MODULE OperatorScripts --------------------------
(***************************************************************************)
(* The operator's shell: on one folder of PDFs the scripts are run, one at *)
(* a time, and between runs a PDF may be replaced by another version.      *)
(***************************************************************************)
EXTENDS ConvertPapers, SubmitPapers, IndexPapers

VARIABLE adrift     \* history: papers replaced since their upload was torn

vars == <<pdf, convertVars, submitVars, indexVars, adrift>>

Idle == stage = "idle" /\ step = "idle" /\ phase = "idle"

Init == FolderInit /\ ConvertInit /\ SubmitInit /\ IndexInit /\ adrift = {}

(* Recorded with every step; no step depends on it.                        *)
NoteDrift ==
    adrift' = {f \in File : Torn(f)' /\ (f \in adrift \/ pdf'[f] # pdf[f])}

(* The exit code of ingest_papers is gone once something else was run.     *)
Elsewhere ==
    /\ code' = NoCode
    /\ UNCHANGED <<step, action, result, staged, sent, trouble>>

Convert ==
    /\ \/ ConvertStep
       \/ Idle /\ (Start \/ Misconfigured \/ Exchange)
    /\ Elsewhere
    /\ UNCHANGED <<pdf, indexVars>>
    /\ NoteDrift

Submit ==
    /\ \/ SubmitStep
       \/ Idle /\ PlanActions
    /\ UNCHANGED <<pdf, convertVars, indexVars, adrift>>

Index ==
    /\ \/ IndexStep
       \/ Idle /\ ReadOutput
    /\ Elsewhere
    /\ UNCHANGED <<pdf, convertVars, adrift>>

(* What the last runs have reported was about the old version.             *)
ReplacePdf ==
    /\ Idle
    /\ \E f \in File : Replace(f)
    /\ exit' = Running
    /\ UNCHANGED <<stage, flags, plan, fresh, batchOk, failed, todo, output,
                   store, indexVars>>
    /\ Elsewhere
    /\ NoteDrift

Next == Convert \/ Submit \/ Index \/ ReplacePdf

Spec == Init /\ [][Next]_vars

(* After a strict run that ends with 0 the stored manifest is the local    *)
(* one, whatever runs were killed or failed half way, unless the PDF was   *)
(* replaced after an upload was cut off between the two manifests: then    *)
(* the classification, which compares the local one with the PDF and asks  *)
(* the storage only whether there is one, may reuse a manifest and content *)
(* of another version, namely when the PDF is put back to what it was.     *)
StoredMeansCurrent ==
    exit = 0 /\ flags.strict =>
        \A f \in File \ adrift : store[f].manifest = TheOutput(f).manifest

(* What the exit code of convert_papers says: after 0 of a strict run the  *)
(* papers are stored, under manifests of the PDFs there are now unless one *)
(* was replaced at the wrong moment, and after a forced one in any case.   *)
ExitTellsTruth == UploadedMeansStored /\ StoredMeansCurrent /\ ForcedMeansFresh

(* What search returns of an indexed paper hangs together: a chunk was     *)
(* embedded as what it is, and its figures can be fetched.                 *)
IndexedAsWritten == OwnVector /\ FiguresStored

=============================================================================
