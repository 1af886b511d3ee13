----------------------------- MODULE StudyGraph -----------------------------
(***************************************************************************)
(* One study request in the graph of src/study/graph.py:                   *)
(*                                                                         *)
(*   plan -> retrieve -> grade -> pack -> generate -> validate -> respond  *)
(*                                                                         *)
(* with a detour over reflect to a second retrieve when the grader rejects *)
(* everything, and a short cut to respond from every node that fails.  A   *)
(* node returns a partial update that is merged into the state before the  *)
(* router of the next edge reads it, so a field keeps the value of an      *)
(* earlier pass until some node writes it again.                           *)
(*                                                                         *)
(* The handler in src/main.py wraps the graph in a timeout with the same   *)
(* absolute deadline that the graph budgets its second pass against.       *)
(***************************************************************************)
EXTENDS Naturals, FiniteSets

CONSTANTS
    Chunk,        \* chunk ids, those a model makes up included
    Extends,      \* pairs <<v, c>> where c is v followed by "(...": see Resolve
    MaxRepairs,   \* settings.generation.schema_repair_retries
    Shown,        \* how many results a failed answer shows, 10 in the code
    NoChunk,      \* no chunk id
    NoResponse

ASSUME StudyAssumption ==
    /\ Extends \subseteq Chunk \X Chunk
    /\ MaxRepairs \in Nat
    /\ Shown \in Nat \ {0}
    /\ NoChunk \notin Chunk

VARIABLES
    enabled,      \* settings.reflection.enabled, the kill switch
    node,         \* the node about to run
    state,        \* StudyGraphState, and the attempts of a running generate
    budget,       \* what is left until the deadline
    calls,        \* history: how often each service was called
    verdict,      \* history: what the grader accepted in this pass, if it did judge
    rejected      \* history: all that the grader has rejected

vars == <<enabled, node, state, budget, calls, verdict, rejected>>

(* A field of chunks that is still None. *)
NoChunks == {NoChunk}

Final == {"end", "raised", "cancelled"}
Node == {"plan", "direct_response", "retrieve", "grade", "reflect", "pack",
         "generate", "validate", "respond"} \cup Final

(* Ample is at least requery_min_remaining_seconds, and without a deadline *)
(* always; spent is past the deadline.                                     *)
Budget == {"ample", "short", "spent"}

DraftStatus == {"ok", "partial", "insufficient_evidence"}
AnswerStatus == DraftStatus \cup {"generation_failed", "retrieval_failed",
                                  "no_corpus_answer"}
RetrievalStatus == {"ok", "empty", "error", "skipped", "low_relevance"}
Service == {"retrieve", "grade", "reflect", "generate"}

(* Bound: the history of calls counts no further than this. *)
Many == MaxRepairs + 3

(* What a response tells about its retrieval and its generation. *)
Response == [status : AnswerStatus, retrieval : RetrievalStatus,
             sources : SUBSET Chunk, graded : BOOLEAN, requery : BOOLEAN,
             attempts : 0..(MaxRepairs + 1)]

ASSUME ResponseAssumption == NoResponse \notin Response

State == [intent : {"retrieval", "direct_response"},
          results : SUBSET Chunk,
          graded : (SUBSET Chunk) \cup {NoChunks},
          judged : BOOLEAN,           \* reflection_graded
          requeries : 0..1,           \* requery_count
          reformulated : BOOLEAN,     \* requery_semantic is not None
          seen : SUBSET Chunk,
          context : SUBSET Chunk,     \* retrieval_metadata.context_chunk_ids
          attempts : 0..(MaxRepairs + 1), \* attempt_count
          draft : [status : DraftStatus, cited : SUBSET Chunk],
          response : Response \cup {NoResponse}]

TypeOK ==
    /\ enabled \in BOOLEAN
    /\ node \in Node
    /\ state \in State
    /\ budget \in Budget
    /\ calls \in [Service -> 0..Many]
    /\ verdict \in (SUBSET Chunk) \cup {NoChunks}
    /\ rejected \subseteq Chunk

Init ==
    /\ enabled \in BOOLEAN
    /\ node = "plan"
    /\ state = [intent |-> "retrieval", results |-> {}, graded |-> NoChunks,
                judged |-> FALSE, requeries |-> 0, reformulated |-> FALSE,
                seen |-> {}, context |-> {}, attempts |-> 0,
                draft |-> [status |-> "ok", cited |-> {}],
                response |-> NoResponse]
    /\ budget = "ample"
    /\ calls = [s \in Service |-> 0]
    /\ verdict = NoChunks
    /\ rejected = {}

-----------------------------------------------------------------------------
(* Routers.                                                                *)

RouteAfterPlan(s) == IF s.intent = "retrieval" THEN "retrieve" ELSE "direct_response"

OrRespond(s, next) == IF s.response # NoResponse THEN "respond" ELSE next

RouteAfterGrade(s) ==
    OrRespond(s, IF s.graded # NoChunks THEN "pack"
                 ELSE IF ~s.reformulated THEN "reflect"
                 ELSE "pack")

(* A node has run: its update is merged, then the router reads the state.  *)
Ran(s, next) == state' = s /\ node' = next

Calls(s) == calls' = [calls EXCEPT ![s] = IF @ < Many THEN @ + 1 ELSE @]

Judges(accepted) ==
    /\ verdict' = accepted
    /\ rejected' = rejected \cup (state.results \ accepted)

-----------------------------------------------------------------------------
(* Responses.                                                              *)

(* _empty_response as retrieve calls it: the reflection fields default. *)
EmptyResponse(status, retrieval) ==
    [status |-> status, retrieval |-> retrieval, sources |-> {},
     graded |-> FALSE, requery |-> FALSE, attempts |-> 0]

ReflectionAbstain(s) ==
    [status |-> "insufficient_evidence", retrieval |-> "low_relevance",
     sources |-> {}, graded |-> TRUE, requery |-> s.requeries > 0, attempts |-> 0]

(* _fallback_sources: the context, or the first results if there is none. *)
FallbackSources(results, context) ==
    IF context # {} THEN {context \cap results}
    ELSE {shown \in SUBSET results :
            IF Cardinality(results) <= Shown THEN shown = results
            ELSE Cardinality(shown) = Shown}

GenerationFailed(s, attempts) ==
    {[status |-> "generation_failed", retrieval |-> "ok", sources |-> shown,
      graded |-> s.judged, requery |-> s.requeries > 0, attempts |-> attempts] :
        shown \in FallbackSources(s.results, s.context)}

-----------------------------------------------------------------------------
(* plan, direct_response and retrieve.                                     *)

(* Whatever the planner raises, the fallback plan retrieves. *)
Plan ==
    /\ node = "plan"
    /\ \E intent \in {"retrieval", "direct_response"} :
         LET s == [state EXCEPT !.intent = intent]
         IN Ran(s, RouteAfterPlan(s))
    /\ UNCHANGED <<enabled, budget, calls, verdict, rejected>>

DirectResponse ==
    /\ node = "direct_response"
    /\ Ran([state EXCEPT !.response = EmptyResponse("no_corpus_answer", "skipped")],
           "respond")
    /\ UNCHANGED <<enabled, budget, calls, verdict, rejected>>

(* Nothing of an earlier pass is cleared but what this update overwrites. *)
RetrieveFinds ==
    /\ node = "retrieve"
    /\ Calls("retrieve")
    /\ \E found \in (SUBSET Chunk) \ {{}} :
         LET s == [state EXCEPT !.results = found]
         IN Ran(s, OrRespond(s, "grade"))
    /\ verdict' = NoChunks
    /\ UNCHANGED <<enabled, budget, rejected>>

RetrieveEmpty ==
    /\ node = "retrieve"
    /\ Calls("retrieve")
    /\ LET s == [state EXCEPT !.response =
                   EmptyResponse("insufficient_evidence", "empty")]
       IN Ran(s, OrRespond(s, "grade"))
    /\ UNCHANGED <<enabled, budget, verdict, rejected>>

RetrieveFails ==
    /\ node = "retrieve"
    /\ Calls("retrieve")
    /\ LET s == [state EXCEPT !.response = EmptyResponse("retrieval_failed", "error")]
       IN Ran(s, OrRespond(s, "grade"))
    /\ UNCHANGED <<enabled, budget, verdict, rejected>>

(* InvalidMetadataFilterError is the handler's to answer, with a 422. *)
RetrieveRaises ==
    /\ node = "retrieve"
    /\ Calls("retrieve")
    /\ Ran(state, "raised")
    /\ UNCHANGED <<enabled, budget, verdict, rejected>>

-----------------------------------------------------------------------------
(* grade and reflect.                                                      *)

GradeDisabled ==
    /\ node = "grade"
    /\ ~enabled
    /\ LET s == [state EXCEPT !.graded = state.results, !.judged = FALSE]
       IN Ran(s, RouteAfterGrade(s))
    /\ UNCHANGED <<enabled, budget, calls, verdict, rejected>>

NothingNew == state.requeries = 1 /\ state.results \subseteq state.seen

(* No grader call is spent on a second pass that found nothing unseen. *)
GradeNothingNew ==
    /\ node = "grade"
    /\ enabled
    /\ NothingNew
    /\ LET s == [state EXCEPT !.response = ReflectionAbstain(state)]
       IN Ran(s, RouteAfterGrade(s))
    /\ UNCHANGED <<enabled, budget, calls, verdict, rejected>>

GradeFails_KeepsJudged ==
    /\ node = "grade"
    /\ enabled /\ ~NothingNew
    /\ Calls("grade")
    /\ LET s == [state EXCEPT !.graded = state.results]
       IN Ran(s, RouteAfterGrade(s))
    /\ UNCHANGED <<enabled, budget, verdict, rejected>>

GradeFails_Abstains ==
    /\ node = "grade"
    /\ enabled /\ ~NothingNew
    /\ Calls("grade")
    /\ LET s == [state EXCEPT !.response = ReflectionAbstain(state)]
       IN Ran(s, RouteAfterGrade(s))
    /\ UNCHANGED <<enabled, budget, verdict, rejected>>

(* A timeout, malformed output or a provider error accepts everything. *)
GradeFails ==
    /\ node = "grade"
    /\ enabled /\ ~NothingNew
    /\ Calls("grade")
    /\ LET s == [state EXCEPT !.graded = state.results, !.judged = FALSE]
       IN Ran(s, RouteAfterGrade(s))
    /\ UNCHANGED <<enabled, budget, verdict, rejected>>

(* Ids the grader makes up are dropped before they count as accepted. *)
GradeAccepts ==
    /\ node = "grade"
    /\ enabled /\ ~NothingNew
    /\ Calls("grade")
    /\ \E accepted \in (SUBSET state.results) \ {{}} :
         /\ Judges(accepted)
         /\ LET s == [state EXCEPT !.graded = accepted, !.judged = TRUE]
            IN Ran(s, RouteAfterGrade(s))
    /\ UNCHANGED <<enabled, budget>>

(* The budget is read again after the grader's answer. *)
CanRequery == state.requeries = 0 /\ budget = "ample"

GradeRejectsAll ==
    /\ node = "grade"
    /\ enabled /\ ~NothingNew
    /\ Calls("grade")
    /\ Judges({})
    /\ LET s == IF CanRequery
                THEN [state EXCEPT !.requeries = 1, !.judged = TRUE,
                                   !.seen = state.results]
                ELSE [state EXCEPT !.response = ReflectionAbstain(state)]
       IN Ran(s, RouteAfterGrade(s))
    /\ UNCHANGED <<enabled, budget>>

ReflectTooLate ==
    /\ node = "reflect"
    /\ budget # "ample"
    /\ LET s == [state EXCEPT !.response = ReflectionAbstain(state)]
       IN Ran(s, OrRespond(s, "retrieve"))
    /\ UNCHANGED <<enabled, budget, calls, verdict, rejected>>

(* It failed, declined, or only repeated the original query. *)
ReflectGivesUp ==
    /\ node = "reflect"
    /\ budget = "ample"
    /\ Calls("reflect")
    /\ LET s == [state EXCEPT !.response = ReflectionAbstain(state)]
       IN Ran(s, OrRespond(s, "retrieve"))
    /\ UNCHANGED <<enabled, budget, verdict, rejected>>

Reformulate_Forgets ==
    /\ node = "reflect"
    /\ budget = "ample"
    /\ Calls("reflect")
    /\ LET s == [state EXCEPT !.reformulated = FALSE, !.requeries = 0]
       IN Ran(s, OrRespond(s, "retrieve"))
    /\ UNCHANGED <<enabled, budget, verdict, rejected>>

Reformulate ==
    /\ node = "reflect"
    /\ budget = "ample"
    /\ Calls("reflect")
    /\ LET s == [state EXCEPT !.reformulated = TRUE]
       IN Ran(s, OrRespond(s, "retrieve"))
    /\ UNCHANGED <<enabled, budget, verdict, rejected>>

-----------------------------------------------------------------------------
(* pack and generate.                                                      *)

Ranked_AllResults == state.results

Ranked == IF state.graded # NoChunks THEN state.graded ELSE state.results

(* dedupe_parent_child and pack_chunks keep some of the ranked chunks. *)
Pack ==
    /\ node = "pack"
    /\ \E context \in (SUBSET Ranked) \ {{}} :
         LET s == [state EXCEPT !.context = context, !.attempts = 1]
         IN Ran(s, OrRespond(s, "generate"))
    /\ UNCHANGED <<enabled, budget, calls, verdict, rejected>>

(* It raised (context_build_failed) or nothing fits (context_pack_failed). *)
PackFails ==
    /\ node = "pack"
    /\ \E response \in GenerationFailed([state EXCEPT !.context = {}], 0) :
         LET s == [state EXCEPT !.context = {}, !.response = response]
         IN Ran(s, OrRespond(s, "generate"))
    /\ UNCHANGED <<enabled, budget, calls, verdict, rejected>>

(* The model answers in the schema, at the first attempt or in a repair. *)
Draft ==
    /\ node = "generate"
    /\ Calls("generate")
    /\ \E status \in DraftStatus, cited \in SUBSET Chunk :
         LET s == [state EXCEPT !.draft = [status |-> status, cited |-> cited]]
         IN Ran(s, OrRespond(s, "validate"))
    /\ UNCHANGED <<enabled, budget, verdict, rejected>>

RepairsLeft_OneTooMany == state.attempts <= MaxRepairs + 1

RepairsLeft == state.attempts <= MaxRepairs

DraftMalformed ==
    /\ node = "generate"
    /\ Calls("generate")
    /\ \/ /\ RepairsLeft
          /\ Ran([state EXCEPT !.attempts = @ + 1], "generate")
       \/ /\ ~RepairsLeft
          /\ \E response \in GenerationFailed(state, state.attempts) :
               LET s == [state EXCEPT !.response = response]
               IN Ran(s, OrRespond(s, "validate"))
    /\ UNCHANGED <<enabled, budget, verdict, rejected>>

(* A provider error, or the deadline of all attempts together. *)
GenerateFails ==
    /\ node = "generate"
    /\ Calls("generate")
    /\ \E response \in GenerationFailed(state, state.attempts) :
         LET s == [state EXCEPT !.response = response]
         IN Ran(s, OrRespond(s, "validate"))
    /\ UNCHANGED <<enabled, budget, verdict, rejected>>

-----------------------------------------------------------------------------
(* validate and respond.                                                   *)

(* _normalize_chunk_id: the id itself, or the one context id it extends. *)
Resolve(c, context) ==
    LET extended == {v \in context : <<v, c>> \in Extends} IN
    IF c \in context THEN {c}
    ELSE IF \E v \in extended : extended = {v} THEN extended
    ELSE {}

Validate ==
    LET kept == UNION {Resolve(c, state.context) : c \in state.draft.cited}
        drops == \E c \in state.draft.cited : Resolve(c, state.context) = {}
    IN
    /\ node = "validate"
    /\ \E response \in
         IF drops /\ kept = {}
         THEN GenerationFailed(state, state.attempts)
         ELSE {[status |-> IF drops THEN "partial" ELSE state.draft.status,
                retrieval |-> "ok", sources |-> kept \cap state.results,
                graded |-> state.judged, requery |-> state.requeries > 0,
                attempts |-> state.attempts]} :
         Ran([state EXCEPT !.response = response], "respond")
    /\ UNCHANGED <<enabled, budget, calls, verdict, rejected>>

(* The one place a response is logged and handed to the handler. *)
Respond ==
    /\ node = "respond"
    /\ Ran(state, "end")
    /\ UNCHANGED <<enabled, budget, calls, verdict, rejected>>

-----------------------------------------------------------------------------
(* Time.                                                                   *)

Tick ==
    /\ node \notin Final
    /\ \/ budget = "ample" /\ budget' = "short"
       \/ budget = "short" /\ budget' = "spent"
    /\ UNCHANGED <<enabled, node, state, calls, verdict, rejected>>

(* The handler's asyncio.timeout_at: a 504 whatever the graph has so far. *)
Cancel ==
    /\ node \notin Final
    /\ budget = "spent"
    /\ Ran(state, "cancelled")
    /\ UNCHANGED <<enabled, budget, calls, verdict, rejected>>

GraphStep ==
    \/ Plan \/ DirectResponse
    \/ RetrieveFinds \/ RetrieveEmpty \/ RetrieveFails \/ RetrieveRaises
    \/ GradeDisabled \/ GradeNothingNew \/ GradeFails \/ GradeAccepts
    \/ GradeRejectsAll
    \/ ReflectTooLate \/ ReflectGivesUp \/ Reformulate
    \/ Pack \/ PackFails \/ Draft \/ DraftMalformed \/ GenerateFails
    \/ Validate \/ Respond

Next == GraphStep \/ Tick \/ Cancel

Spec == Init /\ [][Next]_vars

(* Every node comes back: each call it awaits has a timeout of its own. *)
FairSpec == Spec /\ WF_vars(GraphStep)

-----------------------------------------------------------------------------
(* Safety.                                                                 *)

Answered == state.response # NoResponse /\ state.response.attempts > 0
                /\ state.response.status # "generation_failed"

(* The sources of an answer come from one pass: they were packed into the  *)
(* context the model saw, were found by the last search, and the grader    *)
(* accepted them if it judged that search.  Nothing of a rejected first    *)
(* pass, and no id the model made up, reaches the student.                 *)
AnswerGrounded ==
    Answered =>
        /\ state.response.sources \subseteq state.context \cap state.results
        /\ verdict # NoChunks => state.response.sources \subseteq verdict

(* low_relevance blames the grader's judgement, so it takes one: every     *)
(* chunk of the last search was rejected, in this pass or the one before.  *)
(* A grader that is down never makes the service abstain.                  *)
AbstentionEarned ==
    /\ state.response # NoResponse
    /\ state.response.retrieval = "low_relevance"
    => state.results \subseteq rejected

(* Evaluations read reflection_graded as "this context was judged": it is  *)
(* reported with a context only if the grader judged that very pass, not   *)
(* left over from the pass before.                                         *)
GradedMeansJudged ==
    /\ state.response # NoResponse
    /\ state.response.retrieval = "ok"
    => (state.response.graded <=> verdict # NoChunks)

(* The detour is taken once: two searches, two judgements, one             *)
(* reformulation, and one answer with its repairs, whatever the services   *)
(* return.                                                                 *)
CallsBounded ==
    /\ calls["retrieve"] <= 2 /\ calls["grade"] <= 2 /\ calls["reflect"] <= 1
    /\ calls["generate"] <= MaxRepairs + 1

(* The last branch of _route_after_grade is a safety net ("unreachable:    *)
(* 2nd-pass grade always sets a signal"): pack is never entered without    *)
(* chunks that grade chose or let pass.                                    *)
SafetyNetUnused == node = "pack" => state.graded # NoChunks

(* "Generation failed; showing retrieved sources only." shows some.        *)
FailureShowsSources ==
    /\ state.response # NoResponse
    /\ state.response.status = "generation_failed"
    => state.response.sources # {}

(* A response is the last thing a request computes: once a node has built  *)
(* one, only respond runs, and no later node replaces it.                  *)
ResponseIsFinal ==
    [][state.response # NoResponse =>
        state' = state /\ calls' = calls /\ node' \in Final]_<<node, state, calls>>

(* Every request ends, with a response, an error or the timeout.           *)
EveryRequestEnds == <>(node \in Final)

-----------------------------------------------------------------------------
(* The promise this implements.                                            *)

KindOf(response) ==
    CASE response.status = "generation_failed" -> "degraded"
      [] response.retrieval = "skipped" -> "redirect"
      [] response.attempts > 0 /\ response.status # "generation_failed" -> "answer"
      [] response.retrieval \in {"empty", "error", "low_relevance"} -> "abstain"

OutcomeOf ==
    CASE node = "end" -> [kind |-> KindOf(state.response),
                          sources |-> state.response.sources]
      [] node \in {"raised", "cancelled"} -> [kind |-> "error", sources |-> {}]
      [] OTHER -> NoResponse

Promise == INSTANCE StudyPromise WITH
    Pending <- NoResponse,
    evidence <- state.results,
    searches <- calls["retrieve"],
    outcome <- OutcomeOf

(* Every step of the graph is a step of the promise or shows nothing.      *)
KeepsPromise == Promise!Spec

=============================================================================
