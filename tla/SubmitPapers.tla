---------------------------- MODULE SubmitPapers ----------------------------
(***************************************************************************)
(* scripts/ingest_papers.py: stage every PDF in object storage and enqueue *)
(* a job for it.  What is staged already is skipped, unless forced.        *)
(*                                                                         *)
(* A put or an enqueue that raises may have had its effect, and the script *)
(* may be killed between the two.                                          *)
(***************************************************************************)
EXTENDS PaperFolder

VARIABLES
    step,       \* "idle", "stage" or "enqueue"
    action,     \* per file: "submit", "skip" or "other" (not asked for)
    result,     \* per file: "enqueued", "skipped", "failed" or "none"
    code,       \* the exit code of the last run
    staged,     \* files stored under source-pdfs/
    sent,       \* files a message was ever sent for
    trouble     \* history: files a run failed at, or was killed at

submitVars == <<step, action, result, code, staged, sent, trouble>>

NoCode == 2

SubmitInit ==
    /\ step = "idle"
    /\ action = [f \in File |-> "other"]
    /\ result = [f \in File |-> "none"]
    /\ code = NoCode
    /\ staged = {}
    /\ sent = {}
    /\ trouble = {}

(* plan_actions, of all files or of those named by --only.                 *)
PlanActions ==
    /\ step = "idle"
    /\ \E only \in SUBSET File \ {{}}, force \in BOOLEAN :
          action' = [f \in File |->
              CASE f \notin only -> "other"
                [] f \in only /\ (force \/ f \notin staged) -> "submit"
                [] OTHER -> "skip"]
    /\ result' = [f \in File |-> IF action'[f] = "skip" THEN "skipped" ELSE "none"]
    /\ step' = "stage"
    /\ code' = NoCode
    /\ UNCHANGED <<staged, sent, trouble>>

Left == {f \in File : action[f] = "submit" /\ result[f] = "none"}
InHand == CHOOSE f \in Left : TRUE

PutFile ==
    /\ step = "stage"
    /\ Left # {}
    /\ staged' = staged \cup {InHand}
    /\ step' = "enqueue"
    /\ UNCHANGED <<action, result, code, sent, trouble>>

Enqueue ==
    /\ step = "enqueue"
    /\ sent' = sent \cup {InHand}
    /\ result' = [result EXCEPT ![InHand] = "enqueued"]
    /\ step' = "stage"
    /\ UNCHANGED <<action, code, staged, trouble>>

(* Failures are isolated, but forgotten.                                   *)
SubmitFails_Quietly ==
    /\ \/ step = "stage" /\ Left # {}
       \/ step = "enqueue"
    /\ \/ UNCHANGED <<staged, sent>>
       \/ /\ step = "stage"
          /\ staged' = staged \cup {InHand}
          /\ UNCHANGED sent
    /\ result' = [result EXCEPT ![InHand] = "skipped"]
    /\ step' = "stage"
    /\ UNCHANGED <<action, code, trouble>>

(* Either call raises; the batch goes on.                                  *)
SubmitFails ==
    /\ \/ step = "stage" /\ Left # {}
       \/ step = "enqueue"
    /\ \/ UNCHANGED <<staged, sent>>
       \/ /\ step = "stage"
          /\ staged' = staged \cup {InHand}
          /\ UNCHANGED sent
       \/ /\ step = "enqueue"
          /\ sent' = sent \cup {InHand}
          /\ UNCHANGED staged
    /\ result' = [result EXCEPT ![InHand] = "failed"]
    /\ trouble' = trouble \cup {InHand}
    /\ step' = "stage"
    /\ UNCHANGED <<action, code>>

Report ==
    /\ step = "stage"
    /\ Left = {}
    /\ code' = IF \E f \in File : result[f] = "failed" THEN 1 ELSE 0
    /\ step' = "idle"
    /\ action' = [f \in File |-> "other"]
    /\ result' = [f \in File |-> "none"]
    /\ UNCHANGED <<staged, sent, trouble>>

SubmitKilled ==
    /\ step # "idle"
    /\ trouble' = trouble \cup {f \in Left : f = InHand}
    /\ step' = "idle"
    /\ action' = [f \in File |-> "other"]
    /\ result' = [f \in File |-> "none"]
    /\ UNCHANGED <<code, staged, sent>>

SubmitStep == PutFile \/ Enqueue \/ SubmitFails \/ Report \/ SubmitKilled

-----------------------------------------------------------------------------
(* Properties.                                                             *)

(* A message is only ever about a paper that is staged, "even if the batch *)
(* dies midway", and a paper that is staged but for which no message was   *)
(* sent is in hand or was in hand when a run failed or was killed: skipping*)
(* forgets no paper that went through.                                     *)
StagedAndSent ==
    /\ sent \subseteq staged
    /\ \A f \in staged \ sent :
           f \in trouble \/ (step = "enqueue" /\ f = InHand)

=============================================================================
