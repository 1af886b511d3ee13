---------------------------- MODULE ConvertPapers ---------------------------
(***************************************************************************)
(* scripts/convert_papers.py: PDFs to MinerU output, and the output to     *)
(* object storage.  A run plans, has MinerU convert a batch, sorts out     *)
(* what came of it, and uploads paper by paper, the manifests last.  It    *)
(* may be killed between any two of these, and run again with other flags. *)
(*                                                                         *)
(* MinerU and the object storage are external: MinerU may write the output *)
(* of any of its PDFs whatever it returns, a put may fail, and the storage *)
(* may be exchanged for an empty one.                                      *)
(***************************************************************************)
EXTENDS PaperFolder, FiniteSets

CONSTANTS Method,       \* MinerU's methods; each has a folder of its own
          Name,         \* names of images
          ImagesOf      \* the images each version of a file has

ASSUME ConvertAssumption ==
    /\ ImagesOf \in [Version -> SUBSET Name]
    /\ IsFiniteSet(Method)

(* The output of a method: the version it was made from, the images in its *)
(* folder, and the local manifest beside it.  MinerU clears nothing.       *)
Manifest == [pdf : Version, names : SUBSET Name]
NoManifest == [pdf |-> 0, names |-> {}]
NoOutput == [of |-> 0, names |-> {}, manifest |-> NoManifest]
Empty == [blobs |-> {}, content |-> 0, names |-> {}, manifest |-> NoManifest]

Flags == [strict : BOOLEAN, force : BOOLEAN]
UploadStep == {"blob", "content", "images", "manifest", "local"}

VARIABLES
    stage,      \* what the script is at
    flags,      \* its arguments; the method is chosen where it is used
    plan,       \* per file: "convert", "upload" or "skip"
    fresh,      \* outputs MinerU wrote in this run
    batchOk,    \* MinerU returned success
    failed,     \* files without (fresh) output, or that could not be uploaded
    todo,       \* upload candidates that are left
    exit,       \* the exit code of the last run, unless it was killed
    output,     \* per file and method: what is in the output folder
    store       \* per file: what is in the object storage

runVars == <<stage, flags, plan, fresh, batchOk, failed, todo, exit>>
convertVars == <<stage, flags, plan, fresh, batchOk, failed, todo, exit,
                 output, store>>

Running == 2        \* no exit code yet

NoFlags == [strict |-> FALSE, force |-> FALSE]
NoPlan == [f \in File |-> "skip"]

ConvertInit ==
    /\ stage = "idle"
    /\ flags = NoFlags
    /\ plan = NoPlan
    /\ fresh = {} /\ batchOk = TRUE /\ failed = {} /\ todo = {}
    /\ exit = Running
    /\ output = [f \in File |-> [m \in Method |-> NoOutput]]
    /\ store = [f \in File |-> Empty]

-----------------------------------------------------------------------------
(* Planning.                                                               *)

Methods(f) == {m \in Method : output[f][m].of # 0}
TheOutput(f) == output[f][CHOOSE m \in Methods(f) : TRUE]

(* _manifest_storage_objects_exist                                         *)
Stored(f, manifest) ==
    /\ manifest.pdf \in store[f].blobs
    /\ manifest.names \subseteq store[f].names
    /\ store[f].content # 0
    /\ store[f].manifest # NoManifest

(* Bytes are not compared: what is stored is reused.                       *)
Classify_IgnoresPdf(f, answers) ==
    IF \/ Cardinality(Methods(f)) # 1
       \/ TheOutput(f).manifest = NoManifest
       \/ TheOutput(f).manifest.names # TheOutput(f).names
    THEN "upload"
    ELSE IF answers /\ Stored(f, TheOutput(f).manifest) THEN "reuse"
    ELSE "upload"

(* _classify_artifact_manifest_reuse: no output or several, no manifest, a *)
(* manifest of other artifacts, other PDF bytes, objects that are missing  *)
(* or that the storage does not answer for.                                *)
Classify(f, answers) ==
    IF \/ Cardinality(Methods(f)) # 1
       \/ TheOutput(f).manifest = NoManifest
       \/ TheOutput(f).manifest.names # TheOutput(f).names
    THEN "upload"
    ELSE IF TheOutput(f).manifest.pdf # pdf[f] THEN "convert"
    ELSE IF answers /\ Stored(f, TheOutput(f).manifest) THEN "reuse"
    ELSE "upload"

PlanOf(f, arguments, answers) ==
    IF arguments.force \/ Methods(f) = {} THEN "convert"
    ELSE IF ~arguments.strict THEN "skip"
    ELSE IF Classify(f, answers) = "reuse" THEN "skip"
    ELSE Classify(f, answers)

Start ==
    /\ stage = "idle"
    /\ flags' \in Flags
    /\ \E unanswered \in SUBSET File :
           plan' = [f \in File |-> PlanOf(f, flags', f \notin unanswered)]
    /\ stage' = "mineru"
    /\ fresh' = {} /\ batchOk' = TRUE /\ failed' = {} /\ todo' = {}
    /\ exit' = Running
    /\ UNCHANGED <<output, store>>

(* A strict run does not start without a storage configuration.            *)
Misconfigured ==
    /\ stage = "idle"
    /\ flags' \in {a \in Flags : a.strict}
    /\ exit' = 1
    /\ UNCHANGED <<stage, plan, fresh, batchOk, failed, todo, output, store>>

(* The process is gone, and what it knew.                                  *)
Ends ==
    /\ stage' = "idle"
    /\ plan' = NoPlan
    /\ fresh' = {} /\ batchOk' = TRUE /\ failed' = {} /\ todo' = {}

Planned(what) == {f \in File : plan[f] = what}

-----------------------------------------------------------------------------
(* Conversion.                                                             *)

Converted(f, o) ==
    [o EXCEPT !.of = pdf[f], !.names = @ \cup ImagesOf[pdf[f]]]

RunMineru ==
    /\ stage = "mineru"
    /\ \E written \in SUBSET Planned("convert"), method \in Method, ok \in BOOLEAN :
          /\ output' = [f \in File |-> IF f \in written
                           THEN [output[f] EXCEPT ![method] = Converted(f, @)]
                           ELSE output[f]]
          /\ fresh' = written \X {method}
          /\ batchOk' = (ok \/ Planned("convert") = {})
    /\ stage' = "collect"
    /\ UNCHANGED <<flags, plan, failed, todo, exit, store>>

(* content_list_refreshed_since_snapshot                                   *)
Refreshed(f, method) == <<f, method>> \in fresh

(* What was to be converted needs an output, of any method, and a strict   *)
(* forced run needs that one to be new.                                    *)
Collect ==
    /\ stage = "collect"
    /\ \E found \in [File -> Method] :
          /\ \A f \in File : Methods(f) # {} => found[f] \in Methods(f)
          /\ failed' = {f \in Planned("convert") :
                \/ Methods(f) = {}
                \/ flags.strict /\ flags.force /\ ~Refreshed(f, found[f])}
    /\ todo' = (Planned("convert") \ failed') \cup Planned("upload")
    /\ stage' = "blob"
    /\ UNCHANGED <<flags, plan, fresh, batchOk, exit, output, store>>

-----------------------------------------------------------------------------
(* Upload: one paper after the other.                                      *)

Current == CHOOSE f \in todo : TRUE
NextStep == [blob |-> "content", content |-> "images", images |-> "manifest",
             manifest |-> "local", local |-> "blob"]

(* The manifest a completed upload leaves, in the storage and beside the   *)
(* output.                                                                 *)
NewManifest(f) == [pdf |-> pdf[f], names |-> TheOutput(f).names]

Put(f) ==
    CASE stage = "blob"     -> [store EXCEPT ![f].blobs = @ \cup {pdf[f]}]
      [] stage = "content"  -> [store EXCEPT ![f].content = TheOutput(f).of]
      [] stage = "images"   -> [store EXCEPT ![f].names =
                                    @ \cup TheOutput(f).names]
      [] stage = "manifest" -> [store EXCEPT ![f].manifest = NewManifest(f)]
      [] stage = "local"    -> store

(* A paper with outputs of several methods cannot be uploaded.             *)
Upload ==
    /\ stage \in UploadStep
    /\ todo # {}
    /\ Cardinality(Methods(Current)) = 1
    /\ store' = Put(Current)
    /\ IF stage = "local"
       THEN /\ output' = [output EXCEPT ![Current] =
                 [m \in Method |-> IF m \in Methods(Current)
                     THEN [@[m] EXCEPT !.manifest = NewManifest(Current)]
                     ELSE @[m]]]
            /\ todo' = todo \ {Current}
       ELSE UNCHANGED <<output, todo>>
    /\ stage' = NextStep[stage]
    /\ UNCHANGED <<flags, plan, fresh, batchOk, failed, exit>>

(* It, a put that fails, or a manifest that cannot be written: on with the *)
(* next paper.                                                             *)
UploadFails ==
    /\ stage \in UploadStep
    /\ todo # {}
    /\ failed' = failed \cup {Current}
    /\ todo' = todo \ {Current}
    /\ stage' = "blob"
    /\ UNCHANGED <<flags, plan, fresh, batchOk, exit, output, store>>

(* A run that is not strict reports success, whatever failed.              *)
Finish ==
    /\ stage = "blob"
    /\ todo = {}
    /\ exit' = IF flags.strict /\ (failed # {} \/ (flags.force /\ ~batchOk))
               THEN 1 ELSE 0
    /\ Ends
    /\ UNCHANGED <<flags, output, store>>

(* Without storage a run that is not strict leaves the outputs in place.   *)
SkipUpload ==
    /\ stage = "blob"
    /\ todo # {}
    /\ ~flags.strict
    /\ todo' = {}
    /\ UNCHANGED <<stage, flags, plan, fresh, batchOk, failed, exit, output,
                   store>>

Killed ==
    /\ stage # "idle"
    /\ Ends
    /\ flags' = NoFlags
    /\ UNCHANGED <<exit, output, store>>

(* Another bucket, or a bucket that was emptied.                           *)
Exchange ==
    /\ stage = "idle"
    /\ store' = [f \in File |-> Empty]
    /\ exit' = Running
    /\ UNCHANGED <<stage, flags, plan, fresh, batchOk, failed, todo, output>>

ConvertStep ==
    \/ RunMineru \/ Collect \/ Upload \/ UploadFails \/ Finish
    \/ SkipUpload \/ Killed

-----------------------------------------------------------------------------
(* Properties.                                                             *)

(* The storage has a manifest that is beside no output of the paper: an    *)
(* upload has not come, or did not come, from the one to the other.        *)
Torn(f) ==
    /\ store[f].manifest # NoManifest
    /\ \A m \in Methods(f) : output[f][m].manifest # store[f].manifest

(* A strict run that ends with 0 leaves every paper with one output, whose *)
(* manifest is of the PDF as it is now; all that this manifest names is    *)
(* stored, and all that the stored one names, although most of this was    *)
(* found rather than done, left over from runs that failed or were killed. *)
UploadedMeansStored ==
    exit = 0 /\ flags.strict =>
        \A f \in File :
            /\ Cardinality(Methods(f)) = 1
            /\ TheOutput(f).manifest.pdf = pdf[f]
            /\ Stored(f, TheOutput(f).manifest)
            /\ Stored(f, store[f].manifest)

(* After a forced strict run the stored content list and the stored        *)
(* manifest are the PDF's own: no output of another version passes for the *)
(* new one when MinerU fails, and nothing torn is left.                    *)
ForcedMeansFresh ==
    exit = 0 /\ flags.strict /\ flags.force =>
        \A f \in File :
            /\ store[f].content = pdf[f]
            /\ store[f].manifest = TheOutput(f).manifest

=============================================================================
