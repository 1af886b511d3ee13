---------------------------- MODULE StudyPromise ----------------------------
(***************************************************************************)
(* What a study request promises to the student (POST /study): at most two *)
(* searches, then exactly one outcome, which is final.  An answer cites    *)
(* chunks of the last search that found any; a failed generation still     *)
(* shows some of them; without a search there is nothing to show.  Plans,  *)
(* graders, budgets and retries are not visible here.                      *)
(***************************************************************************)
EXTENDS Naturals

CONSTANTS Chunk, Pending

VARIABLES
    evidence,     \* what the last successful search returned
    searches,
    outcome       \* [kind, sources] once the request is over

promiseVars == <<evidence, searches, outcome>>

Ends(kind, sources) ==
    /\ outcome = Pending
    /\ outcome' = [kind |-> kind, sources |-> sources]
    /\ UNCHANGED <<evidence, searches>>

Init ==
    /\ evidence = {}
    /\ searches = 0
    /\ outcome = Pending

Search ==
    /\ outcome = Pending
    /\ searches < 2
    /\ searches' = searches + 1
    /\ UNCHANGED outcome

SearchFinds == Search /\ \E found \in (SUBSET Chunk) \ {{}} : evidence' = found

SearchInVain == Search /\ UNCHANGED evidence

(* A filter the collection does not know ends the request with an error. *)
SearchRejected ==
    /\ outcome = Pending
    /\ searches < 2
    /\ searches' = searches + 1
    /\ outcome' = [kind |-> "error", sources |-> {}]
    /\ UNCHANGED evidence

Answer == evidence # {} /\ \E cited \in SUBSET evidence : Ends("answer", cited)

Degrade == \E shown \in (SUBSET evidence) \ {{}} : Ends("degraded", shown)

Abstain == searches > 0 /\ Ends("abstain", {})

Redirect == searches = 0 /\ Ends("redirect", {})

GiveUp == Ends("error", {})

Next ==
    \/ SearchFinds \/ SearchInVain \/ SearchRejected
    \/ Answer \/ Degrade \/ Abstain \/ Redirect \/ GiveUp

Spec == Init /\ [][Next]_promiseVars

=============================================================================
