-------------------------- MODULE StudyGraphProofs --------------------------
(***************************************************************************)
(* Proofs about StudyGraph for every set of chunks, every outcome of the   *)
(* services and every number of repairs.  The safety properties speak of   *)
(* the response only; what makes them inductive is what holds of the state *)
(* at each node before there is one, which the three parts of IInv state.  *)
(***************************************************************************)
EXTENDS StudyGraph, FiniteSetTheorems, TLAPS

BeforeGrade == {"plan", "direct_response", "retrieve", "grade", "reflect"}
WithEvidence == {"grade", "reflect", "pack", "generate", "validate"}

(* Where a request is in its one detour, and what it has called so far. *)
CallsInv ==
    /\ CallsBounded
    /\ node \in {"plan", "direct_response"} =>
         calls["retrieve"] = 0 /\ calls["grade"] = 0 /\ state.requeries = 0
    /\ state.reformulated => state.requeries = 1
    /\ node \in {"retrieve", "grade"} => (state.requeries = 1 => state.reformulated)
    /\ node = "reflect" => ~state.reformulated /\ state.requeries = 1
    /\ ~state.reformulated /\ node \notin {"respond"} \cup Final =>
         calls["reflect"] = 0
    /\ node = "retrieve" =>
         /\ calls["retrieve"] <= state.requeries
         /\ calls["grade"] <= state.requeries
    /\ node = "grade" =>
         /\ calls["retrieve"] <= state.requeries + 1
         /\ calls["grade"] <= state.requeries
    /\ node = "reflect" => calls["retrieve"] <= 1 /\ calls["grade"] <= 1
    /\ node \in WithEvidence => calls["retrieve"] > 0
    /\ node \in BeforeGrade \cup {"pack"} => calls["generate"] = 0
    /\ node = "generate" =>
         state.attempts > 0 /\ calls["generate"] < state.attempts
    /\ node = "validate" => state.attempts > 0

(* Which chunks a node works on, and what the grader said of them. *)
EvidenceInv ==
    /\ node \in WithEvidence => state.results # {}
    /\ node \in BeforeGrade => state.graded = NoChunks
    /\ node = "grade" => verdict = NoChunks
    /\ state.seen \subseteq rejected
    /\ node = "reflect" => state.results \subseteq rejected
    /\ node \in {"pack", "generate", "validate"} =>
         /\ state.graded # NoChunks
         /\ state.graded \subseteq state.results
         /\ state.judged <=> verdict # NoChunks
         /\ verdict # NoChunks => state.graded = verdict
    /\ node \in {"generate", "validate"} =>
         state.context # {} /\ state.context \subseteq state.graded

(* A response and the search it is about. *)
ResponseFits(r) ==
    \/ /\ r.retrieval = "skipped" /\ r.status = "no_corpus_answer"
       /\ r.sources = {} /\ r.attempts = 0
       /\ calls["retrieve"] = 0
    \/ /\ r.retrieval \in {"empty", "error", "low_relevance"}
       /\ r.status \in {"insufficient_evidence", "retrieval_failed"}
       /\ r.sources = {} /\ r.attempts = 0
       /\ calls["retrieve"] > 0
       /\ r.retrieval = "low_relevance" => state.results \subseteq rejected
    \/ /\ r.retrieval = "ok" /\ r.status = "generation_failed"
       /\ r.sources # {} /\ r.sources \subseteq state.results
       /\ r.graded <=> verdict # NoChunks
    \/ /\ r.retrieval = "ok" /\ r.status \in DraftStatus /\ r.attempts > 0
       /\ state.results # {}
       /\ r.sources \subseteq state.context \cap state.results
       /\ verdict # NoChunks => r.sources \subseteq verdict
       /\ r.graded <=> verdict # NoChunks

ResponseInv ==
    /\ node \in {"respond", "end"} => state.response # NoResponse
    /\ state.response # NoResponse =>
         node \in {"respond"} \cup Final /\ ResponseFits(state.response)

IInv == TypeOK /\ CallsInv /\ EvidenceInv /\ ResponseInv

-----------------------------------------------------------------------------
(* The responses the nodes build.                                          *)

LEMMA EmptyTyped ==
  ASSUME NEW status \in AnswerStatus, NEW retrieval \in RetrievalStatus
  PROVE  EmptyResponse(status, retrieval) \in Response
  BY StudyAssumption DEF EmptyResponse, Response

LEMMA AbstainTyped ==
  ASSUME NEW s \in State
  PROVE  ReflectionAbstain(s) \in Response
  BY StudyAssumption
     DEF ReflectionAbstain, Response, State, AnswerStatus, DraftStatus, RetrievalStatus

(* What a failed answer shows was retrieved, and is something. *)
LEMMA FallbackShows ==
  ASSUME NEW results \in SUBSET Chunk, NEW context \in SUBSET Chunk,
         NEW shown \in FallbackSources(results, context)
  PROVE  /\ shown \subseteq results
         /\ results # {} /\ context \subseteq results => shown # {}
<1>1. CASE context # {}
  BY <1>1 DEF FallbackSources
<1>2. CASE context = {}
  <2>1. shown \subseteq results
    BY <1>2 DEF FallbackSources
  <2>2. ASSUME results # {} PROVE shown # {}
    <3>1. Cardinality({}) = 0
      BY FS_EmptySet
    <3> QED
      BY <1>2, <2>2, <3>1, StudyAssumption DEF FallbackSources
  <2> QED BY <2>1, <2>2
<1> QED BY <1>1, <1>2

LEMMA FailedTyped ==
  ASSUME NEW s \in State, NEW n \in 0..(MaxRepairs + 1),
         NEW r \in GenerationFailed(s, n)
  PROVE  /\ r \in Response
         /\ r.status = "generation_failed" /\ r.retrieval = "ok"
         /\ r.graded = s.judged
         /\ r.sources \subseteq s.results
         /\ s.results # {} /\ s.context \subseteq s.results => r.sources # {}
<1>1. PICK shown \in FallbackSources(s.results, s.context) :
        r = [status |-> "generation_failed", retrieval |-> "ok", sources |-> shown,
             graded |-> s.judged, requery |-> s.requeries > 0, attempts |-> n]
  BY DEF GenerationFailed
<1>2. s.results \in SUBSET Chunk /\ s.context \in SUBSET Chunk
  BY DEF State
<1>3. /\ shown \subseteq s.results
      /\ s.results # {} /\ s.context \subseteq s.results => shown # {}
  BY <1>2, FallbackShows
<1> QED
  BY <1>1, <1>2, <1>3 DEF Response, State, AnswerStatus, RetrievalStatus

-----------------------------------------------------------------------------

LEMMA InitIInv == Init => IInv
<1> SUFFICES ASSUME Init PROVE IInv
  OBVIOUS
<1>1. TypeOK
  BY StudyAssumption
     DEF Init, TypeOK, Node, Budget, Service, Many, State, DraftStatus
<1>2. CallsInv
  BY StudyAssumption
     DEF Init, CallsInv, CallsBounded, Final, WithEvidence, BeforeGrade, Service
<1>3. EvidenceInv
  BY DEF Init, EvidenceInv, WithEvidence, BeforeGrade
<1>4. ResponseInv
  BY DEF Init, ResponseInv
<1> QED BY <1>1, <1>2, <1>3, <1>4 DEF IInv

-----------------------------------------------------------------------------
(* Types.                                                                  *)

LEMMA TypeStep == TypeOK /\ [Next]_vars => TypeOK'
<1> SUFFICES ASSUME TypeOK, [Next]_vars PROVE TypeOK'
  OBVIOUS
<1> USE DEF TypeOK, Node, Final, Ran, OrRespond
<1>1. ASSUME NEW s \in Service, Calls(s) PROVE calls' \in [Service -> 0..Many]
  BY <1>1, StudyAssumption DEF Calls, Many
<1>2. \A s \in Service : s \in {"retrieve", "grade", "reflect", "generate"}
  BY DEF Service
<1>3. CASE Plan
  BY <1>3 DEF Plan, RouteAfterPlan, State
<1>4. CASE DirectResponse
  <2>1. EmptyResponse("no_corpus_answer", "skipped") \in Response
    BY EmptyTyped DEF AnswerStatus, RetrievalStatus
  <2> QED BY <1>4, <2>1 DEF DirectResponse, State
<1>5. CASE RetrieveFinds
  BY <1>1, <1>5 DEF RetrieveFinds, State, Service
<1>6. CASE RetrieveEmpty \/ RetrieveFails
  <2>1. /\ EmptyResponse("insufficient_evidence", "empty") \in Response
        /\ EmptyResponse("retrieval_failed", "error") \in Response
    BY EmptyTyped DEF AnswerStatus, DraftStatus, RetrievalStatus
  <2> QED BY <1>1, <1>6, <2>1 DEF RetrieveEmpty, RetrieveFails, State, Service
<1>7. CASE RetrieveRaises
  BY <1>1, <1>7 DEF RetrieveRaises, Service
<1>8. CASE GradeDisabled \/ GradeFails \/ GradeAccepts
  <2>1. ASSUME NEW g \in SUBSET state.results, NEW b \in BOOLEAN
        PROVE  [state EXCEPT !.graded = g, !.judged = b] \in State
    BY DEF State
  <2>2. state' \in State
    BY <1>8, <2>1 DEF GradeDisabled, GradeFails, GradeAccepts
  <2>3. calls' \in [Service -> 0..Many]
    BY <1>1, <1>8 DEF GradeDisabled, GradeFails, GradeAccepts, Service
  <2>4. verdict' \in (SUBSET Chunk) \cup {NoChunks} /\ rejected' \subseteq Chunk
    <3>1. CASE GradeDisabled
      BY <3>1 DEF GradeDisabled
    <3>2. CASE GradeFails
      BY <3>2 DEF GradeFails
    <3>3. CASE GradeAccepts
      <4>1. state.results \in SUBSET Chunk
        BY DEF State
      <4>2. PICK accepted \in SUBSET state.results : Judges(accepted)
        BY <3>3 DEF GradeAccepts
      <4> QED BY <4>1, <4>2 DEF Judges
    <3> QED BY <1>8, <3>1, <3>2, <3>3
  <2> QED
    BY <1>8, <2>2, <2>3, <2>4
       DEF GradeDisabled, GradeFails, GradeAccepts, RouteAfterGrade
<1>9. CASE GradeNothingNew \/ GradeRejectsAll
  <2>1. ReflectionAbstain(state) \in Response
    BY AbstainTyped
  <2>2. state' \in State
    <3>1. [state EXCEPT !.response = ReflectionAbstain(state)] \in State
      BY <2>1 DEF State
    <3>2. [state EXCEPT !.requeries = 1, !.judged = TRUE, !.seen = state.results]
             \in State
      <4>1. state.results \in SUBSET Chunk /\ 1 \in 0..1 /\ TRUE \in BOOLEAN
        BY DEF State
      <4> QED BY <4>1 DEF State
    <3> QED BY <1>9, <3>1, <3>2 DEF GradeNothingNew, GradeRejectsAll
  <2>3. calls' \in [Service -> 0..Many]
    BY <1>1, <1>9 DEF GradeNothingNew, GradeRejectsAll, Service
  <2>4. verdict' \in (SUBSET Chunk) \cup {NoChunks} /\ rejected' \subseteq Chunk
    BY <1>9 DEF GradeNothingNew, GradeRejectsAll, Judges, State
  <2> QED
    BY <1>9, <2>2, <2>3, <2>4 DEF GradeNothingNew, GradeRejectsAll, RouteAfterGrade
<1>10. CASE ReflectTooLate \/ ReflectGivesUp \/ Reformulate
  <2>1. ReflectionAbstain(state) \in Response
    BY AbstainTyped
  <2> QED
    BY <1>1, <1>10, <2>1 DEF ReflectTooLate, ReflectGivesUp, Reformulate, State, Service
<1>11. CASE Pack
  <2>1. Ranked \in (SUBSET Chunk)
    BY DEF Ranked, State
  <2>2. ASSUME NEW context \in SUBSET Ranked
        PROVE  [state EXCEPT !.context = context, !.attempts = 1] \in State
    <3>1. context \in SUBSET Chunk /\ 1 \in 0..(MaxRepairs + 1)
      BY <2>1, StudyAssumption
    <3> QED BY <3>1 DEF State
  <2> QED BY <1>11, <2>2 DEF Pack
<1>12. CASE PackFails
  <2>1. [state EXCEPT !.context = {}] \in State /\ 0 \in 0..(MaxRepairs + 1)
    BY StudyAssumption DEF State
  <2>2. PICK r \in GenerationFailed([state EXCEPT !.context = {}], 0) :
          state' = [state EXCEPT !.context = {}, !.response = r]
    BY <1>12 DEF PackFails
  <2>3. r \in Response
    BY <2>1, FailedTyped
  <2> QED BY <1>12, <2>2, <2>3 DEF PackFails, State
<1>13. CASE Draft
  BY <1>1, <1>13 DEF Draft, State, Service
<1>14. CASE DraftMalformed \/ GenerateFails
  <2>1. state.attempts \in 0..(MaxRepairs + 1)
    BY DEF State
  <2>2. \A r \in GenerationFailed(state, state.attempts) :
          [state EXCEPT !.response = r] \in State
    BY <2>1, FailedTyped DEF State
  <2>3. RepairsLeft => [state EXCEPT !.attempts = @ + 1] \in State
    BY StudyAssumption DEF RepairsLeft, State
  <2>4. state' \in State
    BY <1>14, <2>2, <2>3 DEF DraftMalformed, GenerateFails
  <2>5. calls' \in [Service -> 0..Many]
    BY <1>1, <1>14 DEF DraftMalformed, GenerateFails, Service
  <2> QED BY <1>14, <2>4, <2>5 DEF DraftMalformed, GenerateFails
<1>15. CASE Validate
  <2>1. state.attempts \in 0..(MaxRepairs + 1)
    BY DEF State
  <2>2. \A r \in GenerationFailed(state, state.attempts) : r \in Response
    BY <2>1, FailedTyped
  <2>3. ASSUME NEW kept, NEW drops \in BOOLEAN
        PROVE [status |-> IF drops THEN "partial" ELSE state.draft.status,
               retrieval |-> "ok", sources |-> kept \cap state.results,
               graded |-> state.judged, requery |-> state.requeries > 0,
               attempts |-> state.attempts] \in Response
    BY StudyAssumption DEF Response, State, AnswerStatus, DraftStatus, RetrievalStatus
  <2>4. PICK r \in Response : state' = [state EXCEPT !.response = r]
    BY <1>15, <2>2, <2>3 DEF Validate
  <2> QED BY <1>15, <2>4 DEF Validate, State
<1>16. CASE Respond \/ Tick \/ Cancel \/ UNCHANGED vars
  BY <1>16 DEF Respond, Tick, Cancel, vars, Budget
<1> QED
  BY <1>3, <1>4, <1>5, <1>6, <1>7, <1>8, <1>9, <1>10, <1>11, <1>12, <1>13, <1>14,
     <1>15, <1>16 DEF Next, GraphStep

-----------------------------------------------------------------------------
(* The detour and its calls.                                               *)

LEMMA CallsStep == IInv /\ [Next]_vars => CallsInv'
<1> SUFFICES ASSUME TypeOK, CallsInv, EvidenceInv, ResponseInv, [Next]_vars
             PROVE  CallsInv'
  BY DEF IInv
<1>0. /\ \A s \in Service : calls[s] \in 0..Many /\ calls[s] \in Int
      /\ state.attempts \in Nat /\ state.requeries \in {0, 1}
      /\ MaxRepairs \in Nat /\ NoChunks \notin SUBSET Chunk
  BY StudyAssumption DEF TypeOK, Many, State, NoChunks
<1>1. ASSUME NEW s \in Service, Calls(s)
      PROVE  /\ calls'[s] <= calls[s] + 1
             /\ calls[s] <= MaxRepairs + 2 => calls'[s] = calls[s] + 1
             /\ \A x \in Service \ {s} : calls'[x] = calls[x]
             /\ calls'[s] \in Int /\ calls'[s] > 0
  BY <1>0, <1>1, StudyAssumption DEF Calls, Many, TypeOK
<1> USE DEF Ran, OrRespond, BeforeGrade, WithEvidence, Final, Service
<1>2. CASE Plan \/ DirectResponse
  BY <1>0, <1>2 DEF Plan, DirectResponse, RouteAfterPlan, CallsInv, CallsBounded, TypeOK, State
<1>3. CASE RetrieveFinds \/ RetrieveEmpty \/ RetrieveFails \/ RetrieveRaises
  <2>1. Calls("retrieve") /\ node = "retrieve"
    BY <1>3 DEF RetrieveFinds, RetrieveEmpty, RetrieveFails, RetrieveRaises
  <2>2. /\ calls'["retrieve"] <= calls["retrieve"] + 1 /\ calls'["retrieve"] > 0
        /\ calls'["grade"] = calls["grade"] /\ calls'["reflect"] = calls["reflect"]
        /\ calls'["generate"] = calls["generate"] /\ calls'["retrieve"] \in Int
    BY <1>1, <2>1
  <2>3. /\ node' \in {"grade", "respond", "raised"}
        /\ state'.requeries = state.requeries
        /\ state'.reformulated = state.reformulated
    BY <1>3 DEF RetrieveFinds, RetrieveEmpty, RetrieveFails, RetrieveRaises, TypeOK, State
  <2> QED
    BY <1>0, <2>1, <2>2, <2>3 DEF CallsInv, CallsBounded
<1>4. CASE GradeDisabled \/ GradeNothingNew
  <2>1. /\ node' \in {"pack", "respond"} /\ node = "grade" /\ calls' = calls
        /\ state'.requeries = state.requeries
        /\ state'.reformulated = state.reformulated
    BY <1>0, <1>4, AbstainTyped, ResponseAssumption
       DEF GradeDisabled, GradeNothingNew, RouteAfterGrade, TypeOK, State
  <2> QED
    BY <1>0, <2>1 DEF CallsInv, CallsBounded
<1>5. CASE GradeFails \/ GradeAccepts \/ GradeRejectsAll
  <2>1. Calls("grade") /\ node = "grade"
    BY <1>5 DEF GradeFails, GradeAccepts, GradeRejectsAll
  <2>2. /\ calls'["grade"] <= calls["grade"] + 1 /\ calls'["grade"] \in Int
        /\ calls'["retrieve"] = calls["retrieve"]
        /\ calls'["reflect"] = calls["reflect"]
        /\ calls'["generate"] = calls["generate"]
    BY <1>1, <2>1
  <2>3. /\ state'.reformulated = state.reformulated
        /\ \/ node' \in {"pack", "respond"} /\ state'.requeries = state.requeries
           \/ /\ node' = "reflect" /\ state.requeries = 0
              /\ state'.requeries = 1 /\ ~state.reformulated
    <3>1. CASE GradeFails \/ GradeAccepts
      <4>1. CASE GradeFails
        BY <1>0, <4>1 DEF GradeFails, RouteAfterGrade, TypeOK, State
      <4>2. CASE GradeAccepts
        <5>1. PICK accepted \in SUBSET state.results :
                LET s == [state EXCEPT !.graded = accepted, !.judged = TRUE]
                IN  Ran(s, RouteAfterGrade(s))
          BY <4>2 DEF GradeAccepts
        <5>2. /\ state' = [state EXCEPT !.graded = accepted, !.judged = TRUE]
              /\ node' = RouteAfterGrade(state')
          BY <5>1 DEF Ran
        <5>3. accepted # NoChunks /\ state \in State
          BY <5>1, StudyAssumption DEF NoChunks, TypeOK, State
        <5> QED BY <1>0, <5>2, <5>3 DEF RouteAfterGrade, State
      <4> QED BY <3>1, <4>1, <4>2
    <3>2. CASE GradeRejectsAll
      <4>1. CASE CanRequery
        <5>1. ~state.reformulated /\ state.response = NoResponse
          BY <2>1, <4>1 DEF CanRequery, CallsInv, ResponseInv
        <5>2. state.graded = NoChunks
          BY <2>1 DEF EvidenceInv
        <5> QED BY <3>2, <4>1, <5>1, <5>2
                   DEF GradeRejectsAll, CanRequery, RouteAfterGrade, TypeOK, State
      <4>2. CASE ~CanRequery
        BY <3>2, <4>2, AbstainTyped, ResponseAssumption
           DEF GradeRejectsAll, RouteAfterGrade, TypeOK, State
      <4> QED BY <4>1, <4>2
    <3> QED BY <1>5, <3>1, <3>2
  <2> QED
    BY <1>0, <2>1, <2>2, <2>3 DEF CallsInv, CallsBounded
<1>6. CASE ReflectTooLate \/ ReflectGivesUp \/ Reformulate
  <2>1. /\ node = "reflect" /\ state'.requeries = state.requeries
        /\ \/ node' = "respond" /\ state'.reformulated = state.reformulated
           \/ node' = "retrieve" /\ state'.reformulated /\ Calls("reflect")
        /\ Calls("reflect") \/ calls' = calls
    <3>1. node = "reflect" /\ state.response = NoResponse
      BY <1>6 DEF ReflectTooLate, ReflectGivesUp, Reformulate, ResponseInv
    <3> QED
      BY <1>6, <3>1, AbstainTyped, ResponseAssumption
         DEF ReflectTooLate, ReflectGivesUp, Reformulate, TypeOK, State
  <2>2. Calls("reflect") =>
        /\ calls'["reflect"] <= calls["reflect"] + 1 /\ calls'["reflect"] \in Int
        /\ calls'["retrieve"] = calls["retrieve"]
        /\ calls'["grade"] = calls["grade"]
        /\ calls'["generate"] = calls["generate"]
    BY <1>1
  <2> QED
    BY <1>0, <2>1, <2>2 DEF CallsInv, CallsBounded
<1>7. CASE Pack \/ PackFails
  <2>1. /\ node = "pack" /\ calls' = calls /\ state'.requeries = state.requeries
        /\ state'.reformulated = state.reformulated
        /\ \/ node' = "respond"
           \/ node' = "generate" /\ state'.attempts = 1
    <3>1. CASE Pack
      BY <3>1 DEF Pack, ResponseInv, TypeOK, State
    <3>2. CASE PackFails
      <4>1. [state EXCEPT !.context = {}] \in State /\ 0 \in 0..(MaxRepairs + 1)
        BY StudyAssumption DEF TypeOK, State
      <4>2. PICK r \in GenerationFailed([state EXCEPT !.context = {}], 0) :
              /\ state' = [state EXCEPT !.context = {}, !.response = r]
              /\ node' = IF state'.response # NoResponse THEN "respond" ELSE "generate"
              /\ node = "pack" /\ calls' = calls
        BY <3>2 DEF PackFails
      <4>3. r \in Response
        BY <4>1, FailedTyped
      <4> QED BY <4>2, <4>3, ResponseAssumption DEF TypeOK, State
    <3> QED BY <1>7, <3>1, <3>2
  <2> QED
    BY <1>0, <2>1 DEF CallsInv, CallsBounded
<1>8. CASE Draft \/ DraftMalformed \/ GenerateFails
  <2>1. Calls("generate") /\ node = "generate"
    BY <1>8 DEF Draft, DraftMalformed, GenerateFails
  <2>2. /\ calls'["generate"] <= calls["generate"] + 1 /\ calls'["generate"] \in Int
        /\ calls'["retrieve"] = calls["retrieve"]
        /\ calls'["reflect"] = calls["reflect"]
        /\ calls'["grade"] = calls["grade"]
    BY <1>1, <2>1
  <2>3. /\ state'.requeries = state.requeries
        /\ state'.reformulated = state.reformulated
        /\ \/ node' \in {"respond", "validate"} /\ state'.attempts = state.attempts
           \/ node' = "generate" /\ state'.attempts = state.attempts + 1
    BY <1>8 DEF Draft, DraftMalformed, GenerateFails, TypeOK, State
  <2>4. state.attempts <= MaxRepairs + 1
    BY StudyAssumption DEF TypeOK, State
  <2> QED
    BY <1>0, <2>1, <2>2, <2>3, <2>4 DEF CallsInv, CallsBounded
<1>9. CASE Validate \/ Respond \/ Tick \/ Cancel \/ UNCHANGED vars
  <2>1. /\ calls' = calls /\ state'.requeries = state.requeries
        /\ state'.reformulated = state.reformulated
        /\ state'.attempts = state.attempts
        /\ node' = node \/ node' \in {"respond", "end", "cancelled"}
    BY <1>9 DEF Validate, Respond, Tick, Cancel, vars, TypeOK, State
  <2> QED
    BY <1>0, <2>1 DEF CallsInv, CallsBounded
<1> QED
  BY <1>2, <1>3, <1>4, <1>5, <1>6, <1>7, <1>8, <1>9 DEF Next, GraphStep

-----------------------------------------------------------------------------
(* The evidence a node works on.                                           *)

LEMMA EvidenceStep == IInv /\ [Next]_vars => EvidenceInv'
<1> SUFFICES ASSUME TypeOK, CallsInv, EvidenceInv, ResponseInv, [Next]_vars
             PROVE  EvidenceInv'
  BY DEF IInv
<1>0. NoChunks \notin SUBSET Chunk /\ state \in State
  BY StudyAssumption DEF TypeOK, NoChunks
<1> USE DEF Ran, OrRespond, BeforeGrade, WithEvidence, Final
<1>1. CASE Plan \/ DirectResponse
  BY <1>0, <1>1 DEF Plan, DirectResponse, RouteAfterPlan, EvidenceInv, State
<1>2. CASE RetrieveFinds
  BY <1>0, <1>2 DEF RetrieveFinds, EvidenceInv, State
<1>3. CASE RetrieveEmpty \/ RetrieveFails \/ RetrieveRaises
  <2>1. /\ node' \in {"respond", "raised"} /\ verdict' = verdict /\ rejected' = rejected
        /\ state'.seen = state.seen
    BY <1>0, <1>3, EmptyTyped, ResponseAssumption
       DEF RetrieveEmpty, RetrieveFails, RetrieveRaises, State, AnswerStatus,
           DraftStatus, RetrievalStatus
  <2> QED BY <2>1 DEF EvidenceInv
<1>4. CASE GradeDisabled \/ GradeFails
  <2>1. /\ node = "grade" /\ node' \in {"pack", "respond"}
        /\ verdict' = verdict /\ rejected' = rejected
        /\ state'.seen = state.seen /\ state'.results = state.results
        /\ state'.graded = state.results /\ state'.judged = FALSE
    BY <1>0, <1>4 DEF GradeDisabled, GradeFails, RouteAfterGrade, State
  <2>2. state.results \in SUBSET Chunk
    BY <1>0 DEF State
  <2> QED BY <1>0, <2>1, <2>2 DEF EvidenceInv
<1>5. CASE GradeAccepts
  <2>1. /\ node = "grade" /\ node' \in {"pack", "respond"}
        /\ rejected \subseteq rejected'
        /\ state'.seen = state.seen /\ state'.results = state.results
        /\ verdict' \in SUBSET state.results
        /\ state'.graded = verdict' /\ state'.judged = TRUE
    BY <1>0, <1>5 DEF GradeAccepts, Judges, RouteAfterGrade, State
  <2>2. state.results \in SUBSET Chunk
    BY <1>0 DEF State
  <2> QED BY <1>0, <2>1, <2>2 DEF EvidenceInv
<1>6. CASE GradeNothingNew
  <2>1. node' = "respond" /\ state'.seen = state.seen /\ rejected' = rejected
    BY <1>0, <1>6, AbstainTyped, ResponseAssumption
       DEF GradeNothingNew, RouteAfterGrade, State
  <2> QED BY <2>1 DEF EvidenceInv
<1>7. CASE GradeRejectsAll
  <2>1. /\ node = "grade" /\ state.response = NoResponse /\ state.graded = NoChunks
        /\ state.results # {}
    BY <1>7 DEF GradeRejectsAll, ResponseInv, EvidenceInv
  <2>2. rejected' = rejected \cup state.results
    BY <1>7 DEF GradeRejectsAll, Judges
  <2>3. CASE CanRequery
    <3>1. ~state.reformulated
      BY <2>3 DEF CanRequery, CallsInv
    <3>2. /\ node' = "reflect" /\ state'.seen = state.results
          /\ state'.results = state.results /\ state'.graded = NoChunks
      BY <1>0, <1>7, <2>1, <2>3, <3>1 DEF GradeRejectsAll, RouteAfterGrade, State
    <3> QED BY <2>1, <2>2, <3>2 DEF EvidenceInv
  <2>4. CASE ~CanRequery
    <3>1. node' = "respond" /\ state'.seen = state.seen
      BY <1>0, <1>7, <2>4, AbstainTyped, ResponseAssumption
         DEF GradeRejectsAll, RouteAfterGrade, State
    <3> QED BY <2>2, <3>1 DEF EvidenceInv
  <2> QED BY <2>3, <2>4
<1>8. CASE ReflectTooLate \/ ReflectGivesUp \/ Reformulate
  <2>1. /\ node = "reflect" /\ node' \in {"retrieve", "respond"}
        /\ state'.seen = state.seen /\ rejected' = rejected
        /\ state'.graded = state.graded
    BY <1>0, <1>8 DEF ReflectTooLate, ReflectGivesUp, Reformulate, State
  <2> QED BY <2>1 DEF EvidenceInv
<1>9. CASE Pack
  <2>1. /\ node = "pack" /\ node' \in {"generate", "respond"}
        /\ state'.seen = state.seen /\ rejected' = rejected /\ verdict' = verdict
        /\ state'.graded = state.graded /\ state'.results = state.results
        /\ state'.judged = state.judged
        /\ state'.context # {} /\ state'.context \subseteq Ranked
    BY <1>0, <1>9 DEF Pack, State
  <2> QED BY <2>1 DEF EvidenceInv, Ranked
<1>10. CASE PackFails
  <2>1. [state EXCEPT !.context = {}] \in State /\ 0 \in 0..(MaxRepairs + 1)
    BY <1>0, StudyAssumption DEF State
  <2>2. PICK r \in GenerationFailed([state EXCEPT !.context = {}], 0) :
          /\ state' = [state EXCEPT !.context = {}, !.response = r]
          /\ node' = IF state'.response # NoResponse THEN "respond" ELSE "generate"
          /\ rejected' = rejected
    BY <1>10 DEF PackFails
  <2>3. r \in Response
    BY <2>1, FailedTyped
  <2>4. node' = "respond" /\ state'.seen = state.seen
    BY <1>0, <2>2, <2>3, ResponseAssumption DEF State
  <2> QED BY <2>2, <2>4 DEF EvidenceInv
<1>11. CASE Draft \/ DraftMalformed \/ GenerateFails
  <2>1. /\ node = "generate" /\ node' \in {"generate", "validate", "respond"}
        /\ state'.seen = state.seen /\ rejected' = rejected /\ verdict' = verdict
        /\ state'.graded = state.graded /\ state'.results = state.results
        /\ state'.judged = state.judged /\ state'.context = state.context
    BY <1>0, <1>11 DEF Draft, DraftMalformed, GenerateFails, State
  <2> QED BY <2>1 DEF EvidenceInv
<1>12. CASE Validate
  <2>1. node' = "respond" /\ state'.seen = state.seen /\ rejected' = rejected
    BY <1>0, <1>12 DEF Validate, State
  <2> QED BY <2>1 DEF EvidenceInv
<1>13. CASE Respond \/ Tick \/ Cancel \/ UNCHANGED vars
  BY <1>13 DEF Respond, Tick, Cancel, vars, EvidenceInv
<1> QED
  BY <1>1, <1>2, <1>3, <1>4, <1>5, <1>6, <1>7, <1>8, <1>9, <1>10, <1>11, <1>12,
     <1>13 DEF Next, GraphStep

-----------------------------------------------------------------------------
(* The response that is built from it.                                     *)

LEMMA ResponseStep == IInv /\ [Next]_vars => ResponseInv'
<1> SUFFICES ASSUME TypeOK, CallsInv, EvidenceInv, ResponseInv, [Next]_vars
             PROVE  ResponseInv'
  BY DEF IInv
<1>0. NoResponse \notin Response /\ state \in State
  BY ResponseAssumption DEF TypeOK
<1>a. node \notin {"respond"} \cup Final => state.response = NoResponse
  BY DEF ResponseInv
<1> USE DEF Ran, OrRespond, Final
(* No response yet. *)
<1>1. ASSUME state'.response = NoResponse, node' \notin {"respond", "end"}
      PROVE  ResponseInv'
  BY <1>1 DEF ResponseInv
(* A response is there, and respond is next. *)
<1>2. ASSUME node' = "respond", state'.response # NoResponse,
             ResponseFits(state.response)'
      PROVE  ResponseInv'
  BY <1>2 DEF ResponseInv
<1>3. CASE Plan
  <2>1. state'.response = NoResponse /\ node' \in {"retrieve", "direct_response"}
    BY <1>0, <1>a, <1>3 DEF Plan, RouteAfterPlan, State
  <2> QED BY <1>1, <2>1
<1>4. CASE DirectResponse
  <2> DEFINE r == EmptyResponse("no_corpus_answer", "skipped")
  <2>1. r \in Response
    BY EmptyTyped DEF AnswerStatus, RetrievalStatus
  <2>2. state'.response = r /\ node' = "respond" /\ calls' = calls /\ node = "direct_response"
    BY <1>0, <1>4 DEF DirectResponse, State
  <2>3. calls["retrieve"] = 0
    BY <2>2 DEF CallsInv
  <2>4. ResponseFits(state.response)'
    BY <2>2, <2>3 DEF ResponseFits, EmptyResponse
  <2> QED BY <1>0, <1>2, <2>1, <2>2, <2>4
<1>5. CASE RetrieveFinds
  <2>1. state'.response = NoResponse /\ node' = "grade"
    BY <1>0, <1>a, <1>5 DEF RetrieveFinds, State
  <2> QED BY <1>1, <2>1
<1>6. CASE RetrieveEmpty \/ RetrieveFails
  <2>1. PICK status \in {"insufficient_evidence", "retrieval_failed"},
             retrieval \in {"empty", "error"} :
          /\ state' = [state EXCEPT !.response = EmptyResponse(status, retrieval)]
          /\ node' = IF state'.response # NoResponse THEN "respond" ELSE "grade"
          /\ Calls("retrieve")
    BY <1>6 DEF RetrieveEmpty, RetrieveFails
  <2>2. EmptyResponse(status, retrieval) \in Response
    BY EmptyTyped DEF AnswerStatus, DraftStatus, RetrievalStatus
  <2>3. state'.response = EmptyResponse(status, retrieval) /\ node' = "respond"
    BY <1>0, <2>1, <2>2 DEF State
  <2>4. calls'["retrieve"] > 0
    BY <2>1, StudyAssumption DEF Calls, TypeOK, Service, Many
  <2>5. ResponseFits(state.response)'
    BY <2>1, <2>3, <2>4 DEF ResponseFits, EmptyResponse
  <2> QED BY <1>0, <1>2, <2>2, <2>3, <2>5
<1>7. CASE RetrieveRaises
  <2>1. state' = state /\ node' = "raised" /\ node = "retrieve"
    BY <1>7 DEF RetrieveRaises
  <2> QED BY <1>1, <1>a, <2>1
<1>8. CASE GradeDisabled \/ GradeFails \/ GradeAccepts
  <2>1. state'.response = NoResponse /\ node' \in {"pack", "reflect"}
    BY <1>0, <1>a, <1>8 DEF GradeDisabled, GradeFails, GradeAccepts, RouteAfterGrade, State
  <2> QED BY <1>1, <2>1
<1>9. ASSUME state' = [state EXCEPT !.response = ReflectionAbstain(state)],
             node' = "respond", calls' = calls \/ Calls("reflect") \/ Calls("grade"),
             calls["retrieve"] > 0, state.results \subseteq rejected'
      PROVE  ResponseInv'
  <2>1. ReflectionAbstain(state) \in Response
    BY <1>0, AbstainTyped
  <2>2. state'.response = ReflectionAbstain(state) /\ state'.results = state.results
    BY <1>0, <1>9 DEF State
  <2>3. calls'["retrieve"] > 0
    BY <1>9 DEF Calls, TypeOK, Service
  <2>4. ResponseFits(state.response)'
    BY <1>9, <2>2, <2>3 DEF ResponseFits, ReflectionAbstain
  <2> QED BY <1>0, <1>2, <1>9, <2>1, <2>2, <2>4
<1>10. CASE GradeNothingNew
  <2>1. node = "grade" /\ state.results \subseteq rejected /\ calls["retrieve"] > 0
    BY <1>10 DEF GradeNothingNew, NothingNew, EvidenceInv, CallsInv, WithEvidence
  <2>2. node' = "respond"
    BY <1>0, <1>10, AbstainTyped DEF GradeNothingNew, RouteAfterGrade, State
  <2> QED BY <1>9, <1>10, <2>1, <2>2 DEF GradeNothingNew
<1>11. CASE GradeRejectsAll
  <2>1. node = "grade" /\ state.results \subseteq rejected' /\ calls["retrieve"] > 0
    BY <1>11 DEF GradeRejectsAll, Judges, CallsInv, WithEvidence
  <2>2. CASE CanRequery
    <3>1. state'.response = NoResponse /\ node' \in {"pack", "reflect"}
      BY <1>0, <1>a, <1>11, <2>1, <2>2 DEF GradeRejectsAll, RouteAfterGrade, State
    <3> QED BY <1>1, <3>1
  <2>3. CASE ~CanRequery
    <3>1. node' = "respond"
      BY <1>0, <1>11, <2>3, AbstainTyped DEF GradeRejectsAll, RouteAfterGrade, State
    <3> QED BY <1>9, <1>11, <2>1, <2>3, <3>1 DEF GradeRejectsAll
  <2> QED BY <2>2, <2>3
<1>12. CASE ReflectTooLate \/ ReflectGivesUp
  <2>1. node = "reflect" /\ state.results \subseteq rejected' /\ calls["retrieve"] > 0
    BY <1>12 DEF ReflectTooLate, ReflectGivesUp, EvidenceInv, CallsInv, WithEvidence
  <2>2. node' = "respond"
    BY <1>0, <1>12, AbstainTyped DEF ReflectTooLate, ReflectGivesUp, State
  <2> QED BY <1>9, <1>12, <2>1, <2>2 DEF ReflectTooLate, ReflectGivesUp
<1>13. CASE Reformulate
  <2>1. state'.response = NoResponse /\ node' = "retrieve"
    BY <1>0, <1>a, <1>13 DEF Reformulate, State
  <2> QED BY <1>1, <2>1
<1>14. CASE Pack
  <2>1. state'.response = NoResponse /\ node' = "generate"
    BY <1>0, <1>a, <1>14 DEF Pack, State
  <2> QED BY <1>1, <2>1
(* A failed generation shows what the last search found. *)
<1>15. ASSUME NEW s \in State, NEW k \in 0..(MaxRepairs + 1),
              NEW r \in GenerationFailed(s, k),
              s.results = state.results, s.judged = state.judged,
              s.context \subseteq state.results,
              node \in {"pack", "generate", "validate"},
              state' = [s EXCEPT !.response = r], node' = "respond",
              verdict' = verdict
       PROVE  ResponseInv'
  <2>1. /\ r \in Response /\ r.status = "generation_failed" /\ r.retrieval = "ok"
        /\ r.graded = state.judged /\ r.sources \subseteq state.results
        /\ state.results # {} => r.sources # {}
    BY <1>15, FailedTyped
  <2>2. state'.response = r /\ state'.results = state.results
    BY <1>15 DEF State
  <2>3. state.results # {} /\ (state.judged <=> verdict # NoChunks)
    BY <1>15 DEF EvidenceInv, WithEvidence
  <2>4. ResponseFits(state.response)'
    BY <1>15, <2>1, <2>2, <2>3 DEF ResponseFits
  <2> QED BY <1>0, <1>2, <1>15, <2>1, <2>2, <2>4
<1>16. CASE PackFails
  <2> DEFINE s == [state EXCEPT !.context = {}]
  <2>1. /\ s \in State /\ 0 \in 0..(MaxRepairs + 1) /\ s.results = state.results
        /\ s.judged = state.judged /\ s.context = {}
    BY <1>0, StudyAssumption DEF State
  <2>2. PICK r \in GenerationFailed(s, 0) :
          /\ state' = [state EXCEPT !.context = {}, !.response = r]
          /\ node' = IF state'.response # NoResponse THEN "respond" ELSE "generate"
          /\ verdict' = verdict /\ node = "pack"
    BY <1>16 DEF PackFails
  <2>3. r \in Response
    BY <2>1, FailedTyped
  <2>4. state' = [s EXCEPT !.response = r] /\ node' = "respond"
    BY <1>0, <2>2, <2>3 DEF State
  <2> HIDE DEF s
  <2> QED BY <1>15, <2>1, <2>2, <2>4
<1>17. CASE Draft
  <2>1. state'.response = NoResponse /\ node' = "validate"
    BY <1>0, <1>a, <1>17 DEF Draft, State
  <2> QED BY <1>1, <2>1
<1>18. CASE DraftMalformed \/ GenerateFails
  <2>1. /\ state.attempts \in 0..(MaxRepairs + 1) /\ node = "generate"
        /\ state.context \subseteq state.results
    BY <1>0, <1>18 DEF DraftMalformed, GenerateFails, State, EvidenceInv
  <2>2. CASE state' = [state EXCEPT !.attempts = @ + 1] /\ node' = "generate"
    BY <1>0, <1>1, <1>a, <2>1, <2>2 DEF State
  <2>3. ASSUME NEW r \in GenerationFailed(state, state.attempts),
               state' = [state EXCEPT !.response = r],
               node' = IF state'.response # NoResponse THEN "respond" ELSE "validate",
               verdict' = verdict
        PROVE  ResponseInv'
    <3>1. r \in Response
      BY <1>0, <2>1, FailedTyped
    <3>2. node' = "respond"
      BY <1>0, <2>3, <3>1 DEF State
    <3> QED BY <1>0, <1>15, <2>1, <2>3, <3>2
  <2> QED BY <1>18, <2>2, <2>3 DEF DraftMalformed, GenerateFails
<1>19. CASE Validate
  <2> DEFINE kept == UNION {Resolve(c, state.context) : c \in state.draft.cited}
             drops == \E c \in state.draft.cited : Resolve(c, state.context) = {}
             answer == [status |-> IF drops THEN "partial" ELSE state.draft.status,
                        retrieval |-> "ok", sources |-> kept \cap state.results,
                        graded |-> state.judged, requery |-> state.requeries > 0,
                        attempts |-> state.attempts]
  <2>1. /\ node = "validate" /\ node' = "respond" /\ verdict' = verdict
        /\ state.attempts \in 0..(MaxRepairs + 1)
        /\ state.context \subseteq state.results
    BY <1>0, <1>19 DEF Validate, State, EvidenceInv
  <2>2. ASSUME NEW r \in GenerationFailed(state, state.attempts),
               state' = [state EXCEPT !.response = r]
        PROVE  ResponseInv'
    BY <1>0, <1>15, <2>1, <2>2
  <2>3. ASSUME state' = [state EXCEPT !.response = answer]
        PROVE  ResponseInv'
    <3>1. kept \subseteq state.context
      BY DEF Resolve
    <3>2. /\ state.context \subseteq state.graded /\ state.results # {}
          /\ state.attempts > 0 /\ (state.judged <=> verdict # NoChunks)
          /\ verdict # NoChunks => state.graded = verdict
      BY <2>1 DEF EvidenceInv, CallsInv, WithEvidence
    <3>3. answer \in Response
      BY <1>0, StudyAssumption
         DEF Response, State, AnswerStatus, DraftStatus, RetrievalStatus
    <3>4. /\ state'.response = answer /\ state'.results = state.results
          /\ state'.context = state.context
      BY <1>0, <2>3 DEF State
    <3>5. /\ answer.retrieval = "ok" /\ answer.status \in DraftStatus
          /\ answer.attempts = state.attempts /\ answer.graded = state.judged
          /\ answer.sources = kept \cap state.results
      BY <1>0 DEF State, DraftStatus
    <3> HIDE DEF kept, drops, answer
    <3>6. ResponseFits(state.response)'
      BY <2>1, <3>1, <3>2, <3>4, <3>5 DEF ResponseFits
    <3> QED BY <1>0, <1>2, <2>1, <3>3, <3>4, <3>6
  <2> QED BY <1>19, <2>2, <2>3 DEF Validate
<1>20. CASE Respond \/ Tick \/ Cancel \/ UNCHANGED vars
  <2>1. /\ state' = state /\ calls' = calls /\ verdict' = verdict
        /\ rejected' = rejected
        /\ \/ node' = node \/ node' = "cancelled"
           \/ node = "respond" /\ node' = "end"
    BY <1>20 DEF Respond, Tick, Cancel, vars
  <2>2. ResponseFits(state.response)' <=> ResponseFits(state.response)
    BY <2>1 DEF ResponseFits
  <2> QED BY <2>1, <2>2 DEF ResponseInv
<1> QED
  BY <1>3, <1>4, <1>5, <1>6, <1>7, <1>8, <1>10, <1>11, <1>12, <1>13, <1>14, <1>16,
     <1>17, <1>18, <1>19, <1>20 DEF Next, GraphStep

-----------------------------------------------------------------------------
(* Theorems.                                                               *)

LEMMA StepIInv == IInv /\ [Next]_vars => IInv'
  BY TypeStep, CallsStep, EvidenceStep, ResponseStep DEF IInv

(* The inductive invariant. *)
THEOREM Invariance == Spec => []IInv
<1>1. Init => IInv
  BY InitIInv
<1>2. IInv /\ [Next]_vars => IInv'
  BY StepIInv
<1> QED BY <1>1, <1>2, PTL DEF Spec

(* Types, the bounds of attempts and re-queries included. *)
THEOREM TypeCorrect == Spec => []TypeOK
<1>1. IInv => TypeOK
  BY DEF IInv
<1> QED BY <1>1, Invariance, PTL

(* An answer cites packed, retrieved and accepted chunks of one pass. *)
THEOREM AnswerSafety == Spec => []AnswerGrounded
<1>1. IInv => AnswerGrounded
  BY DEF IInv, ResponseInv, ResponseFits, AnswerGrounded, Answered, DraftStatus
<1> QED BY <1>1, Invariance, PTL

(* low_relevance is reported only of results the grader rejected. *)
THEOREM AbstentionSafety == Spec => []AbstentionEarned
<1>1. IInv => AbstentionEarned
  BY DEF IInv, ResponseInv, ResponseFits, AbstentionEarned
<1> QED BY <1>1, Invariance, PTL

(* reflection_graded is reported exactly of a context that was judged. *)
THEOREM GradedSafety == Spec => []GradedMeansJudged
<1>1. IInv => GradedMeansJudged
  BY DEF IInv, ResponseInv, ResponseFits, GradedMeansJudged
<1> QED BY <1>1, Invariance, PTL

(* One detour, and one answer with its repairs. *)
THEOREM CallsSafety == Spec => []CallsBounded
<1>1. IInv => CallsBounded
  BY DEF IInv, CallsInv
<1> QED BY <1>1, Invariance, PTL

(* The last branch of _route_after_grade is never taken. *)
THEOREM SafetyNetSafety == Spec => []SafetyNetUnused
<1>1. IInv => SafetyNetUnused
  BY DEF IInv, EvidenceInv, SafetyNetUnused
<1> QED BY <1>1, Invariance, PTL

(* A failed generation shows retrieved sources. *)
THEOREM FailureSafety == Spec => []FailureShowsSources
<1>1. IInv => FailureShowsSources
  BY DEF IInv, ResponseInv, ResponseFits, FailureShowsSources, DraftStatus
<1> QED BY <1>1, Invariance, PTL

(* Once there is a response, it is what the request ends with. *)
THEOREM FinalSafety == Spec => ResponseIsFinal
<1>1. IInv /\ [Next]_vars =>
        [state.response # NoResponse =>
           state' = state /\ calls' = calls /\ node' \in Final]_<<node, state, calls>>
  <2> SUFFICES ASSUME IInv, [Next]_vars, state.response # NoResponse,
                      UNCHANGED <<node, state, calls>> => FALSE
               PROVE  state' = state /\ calls' = calls /\ node' \in Final
    OBVIOUS
  <2>1. node \in {"respond", "end", "raised", "cancelled"}
    BY DEF IInv, ResponseInv, Final
  <2>2. Respond \/ Tick \/ Cancel \/ UNCHANGED vars
    BY <2>1 DEF Next, GraphStep, Plan, DirectResponse, RetrieveFinds, RetrieveEmpty,
                RetrieveFails, RetrieveRaises, GradeDisabled, GradeNothingNew,
                GradeFails, GradeAccepts, GradeRejectsAll, ReflectTooLate,
                ReflectGivesUp, Reformulate, Pack, PackFails, Draft, DraftMalformed,
                GenerateFails, Validate
  <2> QED BY <2>2 DEF Respond, Tick, Cancel, vars, Ran, Final
<1> QED BY <1>1, Invariance, PTL DEF Spec, ResponseIsFinal

-----------------------------------------------------------------------------
(* The promise.                                                            *)

LEMMA InitPromise == Init => Promise!Init
  BY DEF Init, Promise!Init, OutcomeOf, Service

(* Nothing the promise shows has changed. *)
LEMMA Hidden ==
  ASSUME state'.results = state.results, calls'["retrieve"] = calls["retrieve"],
         node \notin Final, node' \notin Final
  PROVE  UNCHANGED Promise!promiseVars
  BY DEF Promise!promiseVars, OutcomeOf, Final

LEMMA StepPromise == IInv /\ [Next]_vars => [Promise!Next]_(Promise!promiseVars)
<1> SUFFICES ASSUME IInv, [Next]_vars PROVE [Promise!Next]_(Promise!promiseVars)
  OBVIOUS
<1>0. /\ state \in State /\ calls \in [Service -> 0..Many]
      /\ Service = {"retrieve", "grade", "reflect", "generate"}
      /\ MaxRepairs \in Nat /\ Many = MaxRepairs + 3
      /\ \A s \in Service : calls[s] \in Nat
  BY StudyAssumption DEF IInv, TypeOK, Service, Many
<1> USE DEF Ran
<1>1. node \notin Final => OutcomeOf = NoResponse
  BY DEF OutcomeOf, Final
<1>2. ASSUME node = "retrieve", Calls("retrieve")
      PROVE  calls["retrieve"] < 2 /\ calls'["retrieve"] = calls["retrieve"] + 1
  <2>1. calls["retrieve"] <= 1
    BY <1>0, <1>2 DEF IInv, CallsInv, TypeOK, State
  <2> QED BY <1>0, <1>2, <2>1 DEF Calls
<1>3. CASE RetrieveFinds
  <2>1. /\ node = "retrieve" /\ Calls("retrieve") /\ node' \in {"grade", "respond"}
        /\ state'.results \in (SUBSET Chunk) \ {{}}
    BY <1>0, <1>3 DEF RetrieveFinds, OrRespond, State
  <2>2. OutcomeOf = NoResponse /\ OutcomeOf' = NoResponse
    BY <2>1 DEF OutcomeOf
  <2> QED
    BY <1>2, <2>1, <2>2 DEF Promise!Next, Promise!SearchFinds, Promise!Search
<1>4. CASE RetrieveEmpty \/ RetrieveFails
  <2>1. /\ node = "retrieve" /\ Calls("retrieve") /\ node' \in {"grade", "respond"}
        /\ state'.results = state.results
    BY <1>0, <1>4 DEF RetrieveEmpty, RetrieveFails, OrRespond, State
  <2>2. OutcomeOf = NoResponse /\ OutcomeOf' = NoResponse
    BY <2>1 DEF OutcomeOf
  <2> QED
    BY <1>2, <2>1, <2>2 DEF Promise!Next, Promise!SearchInVain, Promise!Search
<1>5. CASE RetrieveRaises
  <2>1. node = "retrieve" /\ Calls("retrieve") /\ node' = "raised" /\ state' = state
    BY <1>5 DEF RetrieveRaises
  <2>2. OutcomeOf = NoResponse /\ OutcomeOf' = [kind |-> "error", sources |-> {}]
    BY <2>1 DEF OutcomeOf
  <2> QED BY <1>2, <2>1, <2>2 DEF Promise!Next, Promise!SearchRejected
<1>6. CASE Plan \/ DirectResponse \/ ReflectTooLate
  <2>1. /\ node \notin Final /\ node' \notin Final /\ calls' = calls
        /\ state'.results = state.results
    BY <1>0, <1>6 DEF Plan, DirectResponse, ReflectTooLate, RouteAfterPlan, OrRespond,
                      Final, State
  <2> QED BY <2>1, Hidden
<1>7. CASE GradeDisabled \/ GradeNothingNew \/ GradeFails \/ GradeAccepts
             \/ GradeRejectsAll
  <2>1. node \notin Final /\ node' \notin Final /\ state'.results = state.results
    BY <1>0, <1>7 DEF GradeDisabled, GradeNothingNew, GradeFails, GradeAccepts,
                      GradeRejectsAll, RouteAfterGrade, OrRespond, Final, State
  <2>2. calls' = calls \/ Calls("grade")
    BY <1>7 DEF GradeDisabled, GradeNothingNew, GradeFails, GradeAccepts,
                GradeRejectsAll
  <2>3. calls'["retrieve"] = calls["retrieve"]
    BY <1>0, <2>2 DEF Calls
  <2> QED BY <2>1, <2>3, Hidden
<1>8. CASE ReflectGivesUp \/ Reformulate
  <2>1. node \notin Final /\ node' \notin Final /\ state'.results = state.results
    BY <1>0, <1>8 DEF ReflectGivesUp, Reformulate, OrRespond, Final, State
  <2>2. calls'["retrieve"] = calls["retrieve"]
    BY <1>0, <1>8 DEF ReflectGivesUp, Reformulate, Calls
  <2> QED BY <2>1, <2>2, Hidden
<1>9. CASE Pack \/ PackFails \/ Validate
  <2>1. /\ node \notin Final /\ node' \notin Final /\ calls' = calls
        /\ state'.results = state.results
    BY <1>0, <1>9 DEF Pack, PackFails, Validate, OrRespond, Final, State
  <2> QED BY <2>1, Hidden
<1>10. CASE Draft \/ DraftMalformed \/ GenerateFails
  <2>1. node \notin Final /\ node' \notin Final /\ state'.results = state.results
    BY <1>0, <1>10 DEF Draft, DraftMalformed, GenerateFails, OrRespond, Final, State
  <2>2. calls'["retrieve"] = calls["retrieve"]
    BY <1>0, <1>10 DEF Draft, DraftMalformed, GenerateFails, Calls
  <2> QED BY <2>1, <2>2, Hidden
<1>11. CASE Respond
  <2> DEFINE r == state.response
  <2>1. /\ OutcomeOf = NoResponse
        /\ OutcomeOf' = [kind |-> KindOf(r), sources |-> r.sources]
        /\ state' = state /\ calls' = calls
    BY <1>11 DEF Respond, OutcomeOf, KindOf
  <2>2. ResponseFits(r)
    BY <1>11 DEF Respond, IInv, ResponseInv
  <2>3. CASE r.retrieval = "skipped"
    <3>1. KindOf(r) = "redirect" /\ r.sources = {} /\ calls["retrieve"] = 0
      BY <2>2, <2>3 DEF ResponseFits, KindOf, DraftStatus
    <3> QED BY <2>1, <3>1 DEF Promise!Next, Promise!Redirect, Promise!Ends
  <2>4. CASE r.retrieval \in {"empty", "error", "low_relevance"}
    <3>1. KindOf(r) = "abstain" /\ r.sources = {} /\ calls["retrieve"] > 0
      BY <2>2, <2>4 DEF ResponseFits, KindOf, DraftStatus
    <3> QED BY <2>1, <3>1 DEF Promise!Next, Promise!Abstain, Promise!Ends
  <2>5. CASE r.retrieval = "ok" /\ r.status = "generation_failed"
    <3>1. KindOf(r) = "degraded" /\ r.sources \in (SUBSET state.results) \ {{}}
      BY <2>2, <2>5 DEF ResponseFits, KindOf, DraftStatus
    <3> QED BY <2>1, <3>1 DEF Promise!Next, Promise!Degrade, Promise!Ends
  <2>6. CASE r.retrieval = "ok" /\ r.status # "generation_failed"
    <3>1. /\ KindOf(r) = "answer" /\ state.results # {}
          /\ r.sources \in SUBSET state.results
      BY <2>2, <2>6 DEF ResponseFits, KindOf, DraftStatus
    <3> QED BY <2>1, <3>1 DEF Promise!Next, Promise!Answer, Promise!Ends
  <2> QED BY <2>2, <2>3, <2>4, <2>5, <2>6 DEF ResponseFits
<1>12. CASE Cancel
  <2>1. /\ OutcomeOf = NoResponse
        /\ OutcomeOf' = [kind |-> "error", sources |-> {}]
        /\ state' = state /\ calls' = calls
    BY <1>1, <1>12 DEF Cancel, OutcomeOf
  <2> QED BY <2>1 DEF Promise!Next, Promise!GiveUp, Promise!Ends
<1>13. CASE Tick \/ UNCHANGED vars
  <2>1. node' = node /\ state' = state /\ calls' = calls
    BY <1>13 DEF Tick, vars
  <2> QED BY <2>1 DEF Promise!promiseVars, OutcomeOf, KindOf
<1> QED
  BY <1>3, <1>4, <1>5, <1>6, <1>7, <1>8, <1>9, <1>10, <1>11, <1>12, <1>13
     DEF Next, GraphStep

(* The graph implements the promise: two searches at most, one outcome,    *)
(* which is final and rests on what was found.                             *)
THEOREM Implements == Spec => KeepsPromise
<1>1. Init => Promise!Init
  BY InitPromise
<1>2. IInv /\ [Next]_vars => [Promise!Next]_(Promise!promiseVars)
  BY StepPromise
<1> QED BY <1>1, <1>2, Invariance, PTL DEF Spec, KeepsPromise, Promise!Spec

-----------------------------------------------------------------------------
(* A bound on the steps of a request.  The graph has two cycles, the       *)
(* detour over reflect and the repairs, and the clock runs beside it.      *)

NodesLeft ==
    CASE node \in Final -> 0
      [] node = "respond" -> 1
      [] node \in {"direct_response", "validate"} -> 2
      [] node = "generate" -> MaxRepairs + 4 - state.attempts
      [] node = "pack" -> MaxRepairs + 4
      [] node = "grade" -> MaxRepairs + (IF state.reformulated THEN 5 ELSE 8)
      [] node = "retrieve" -> MaxRepairs + (IF state.reformulated THEN 6 ELSE 9)
      [] node = "reflect" -> MaxRepairs + 7
      [] node = "plan" -> MaxRepairs + 10

TicksLeft ==
    CASE budget = "ample" -> 2 [] budget = "short" -> 1 [] budget = "spent" -> 0

StepsLeft == NodesLeft + TicksLeft

(* Every step uses one up, so that a request, whatever the services answer,*)
(* is over after at most MaxRepairs + 12 steps, ticks included.            *)
StepsBounded ==
    /\ [](StepsLeft \in 0..(MaxRepairs + 12))
    /\ [][StepsLeft' < StepsLeft]_vars

StepsInv ==
    /\ NodesLeft \in 0..(MaxRepairs + 10)
    /\ TicksLeft \in 0..2
    /\ node \notin Final => NodesLeft > 0

LEMMA StepsTyped ==
  ASSUME TypeOK
  PROVE  StepsInv
<1>1. state.attempts \in 0..(MaxRepairs + 1) /\ state.reformulated \in BOOLEAN
  BY DEF TypeOK, State
<1>2. NodesLeft \in 0..(MaxRepairs + 10) /\ (node \notin Final => NodesLeft > 0)
  <2>1. CASE node = "generate"
    <3>1. NodesLeft = MaxRepairs + 4 - state.attempts
      BY <2>1 DEF Final, NodesLeft
    <3> QED  BY <1>1, <3>1, StudyAssumption
  <2>2. CASE node \in {"grade", "retrieve", "pack", "reflect", "plan"}
    <3>1. \E n \in {4, 5, 6, 7, 8, 9, 10} : NodesLeft = MaxRepairs + n
      BY <1>1, <2>2 DEF Final, NodesLeft
    <3> QED  BY <3>1, StudyAssumption
  <2>3. CASE node \in {"respond", "direct_response", "validate"}
    <3>1. NodesLeft \in {1, 2}
      BY <2>3 DEF Final, NodesLeft
    <3> QED  BY <3>1, StudyAssumption
  <2>4. CASE node \in Final
    <3>1. NodesLeft = 0
      BY <2>4 DEF Final, NodesLeft
    <3> QED  BY <2>4, <3>1, StudyAssumption
  <2> QED  BY <2>1, <2>2, <2>3, <2>4 DEF TypeOK, Node
<1>3. TicksLeft \in 0..2
  BY DEF TypeOK, Budget, TicksLeft
<1> QED  BY <1>2, <1>3 DEF StepsInv

(* An update with a response goes to respond, from wherever it is made.    *)
LEMMA Shortcut ==
  ASSUME TypeOK, NEW s, NEW next, s.response # NoResponse, Ran(s, OrRespond(s, next)),
         node \notin Final \cup {"respond"}
  PROVE  NodesLeft' < NodesLeft
<1>1. NodesLeft' = 1
  BY DEF Ran, OrRespond, NodesLeft, Final
<1>2. state.attempts \in 0..(MaxRepairs + 1) /\ state.reformulated \in BOOLEAN
  BY DEF TypeOK, State
<1>3. NodesLeft > 1
  BY <1>2, StudyAssumption DEF TypeOK, Node, Final, NodesLeft
<1>4. NodesLeft \in Nat
  BY StepsTyped, StudyAssumption DEF StepsInv
<1> QED  BY <1>1, <1>3, <1>4

(* Every node hands over to one with less to do.                           *)
LEMMA GraphAdvances ==
  ASSUME TypeOK, TypeOK', GraphStep
  PROVE  NodesLeft' < NodesLeft
<1> USE StudyAssumption
<1>1. /\ state \in State /\ state' \in State
      /\ state.attempts \in 0..(MaxRepairs + 1) /\ state'.attempts \in 0..(MaxRepairs + 1)
      /\ state.reformulated \in BOOLEAN /\ state'.reformulated \in BOOLEAN
  BY DEF TypeOK, State
<1>2. CASE Plan \/ DirectResponse
  BY <1>1, <1>2 DEF Plan, DirectResponse, Ran, RouteAfterPlan, NodesLeft, Final
<1>3. CASE RetrieveFinds
  <2>1. PICK found \in (SUBSET Chunk) \ {{}} :
          LET s == [state EXCEPT !.results = found] IN Ran(s, OrRespond(s, "grade"))
    BY <1>3 DEF RetrieveFinds
  <2>2. state'.reformulated = state.reformulated /\ node' \in {"grade", "respond"}
    BY <1>1, <2>1 DEF Ran, OrRespond, State
  <2> QED  BY <1>1, <1>3, <2>2 DEF RetrieveFinds, NodesLeft, Final
<1>4. CASE RetrieveEmpty \/ RetrieveFails
  <2>1. state'.reformulated = state.reformulated /\ node' \in {"grade", "respond"}
    BY <1>1, <1>4 DEF RetrieveEmpty, RetrieveFails, Ran, OrRespond, State
  <2> QED  BY <1>1, <1>4, <2>1 DEF RetrieveEmpty, RetrieveFails, NodesLeft, Final
<1>5. CASE RetrieveRaises
  BY <1>1, <1>5 DEF RetrieveRaises, Ran, NodesLeft, Final
<1>6. CASE \/ GradeDisabled \/ GradeNothingNew \/ GradeFails \/ GradeAccepts
           \/ GradeRejectsAll
  <2>1. node = "grade" /\ state'.reformulated = state.reformulated
    BY <1>1, <1>6 DEF GradeDisabled, GradeNothingNew, GradeFails, GradeAccepts,
                      GradeRejectsAll, Ran, State
  <2>2. node' = RouteAfterGrade(state')
    BY <1>6 DEF GradeDisabled, GradeNothingNew, GradeFails, GradeAccepts,
                GradeRejectsAll, Ran
  <2>3. \/ node' \in {"respond", "pack"}
        \/ node' = "reflect" /\ ~state.reformulated
    BY <2>1, <2>2 DEF RouteAfterGrade, OrRespond
  <2> QED  BY <1>1, <2>1, <2>3 DEF NodesLeft, Final
<1>7. CASE ReflectTooLate \/ ReflectGivesUp \/ Reformulate
  <2>1. /\ node = "reflect"
        /\ \/ node' = "respond"
           \/ node' = "retrieve" /\ state'.reformulated
    BY <1>1, <1>7, AbstainTyped, ResponseAssumption
       DEF ReflectTooLate, ReflectGivesUp, Reformulate, Ran, OrRespond, State
  <2> QED  BY <1>1, <2>1 DEF NodesLeft, Final
<1>8. CASE Pack
  <2>1. PICK context \in (SUBSET Ranked) \ {{}} :
          LET s == [state EXCEPT !.context = context, !.attempts = 1]
          IN Ran(s, OrRespond(s, "generate"))
    BY <1>8 DEF Pack
  <2>2. state'.attempts = 1 /\ node' \in {"generate", "respond"}
    BY <1>1, <2>1 DEF Ran, OrRespond, State
  <2> QED  BY <1>1, <1>8, <2>2 DEF Pack, NodesLeft, Final
<1>9. CASE PackFails
  <2>1. PICK s \in State : s.response \in Response /\ Ran(s, OrRespond(s, "generate"))
    <3>1. [state EXCEPT !.context = {}] \in State /\ 0 \in 0..(MaxRepairs + 1)
      BY <1>1 DEF State
    <3>2. PICK response \in GenerationFailed([state EXCEPT !.context = {}], 0) :
            LET s == [state EXCEPT !.context = {}, !.response = response]
            IN Ran(s, OrRespond(s, "generate"))
      BY <1>9 DEF PackFails
    <3>3. response \in Response
      BY <3>1, <3>2, FailedTyped
    <3> QED  BY <1>1, <3>2, <3>3 DEF State
  <2> QED  BY <1>9, <2>1, Shortcut, ResponseAssumption DEF PackFails, Final
<1>10. CASE Draft
  <2>1. node = "generate" /\ node' \in {"validate", "respond"}
    BY <1>10 DEF Draft, Ran, OrRespond
  <2> QED  BY <1>1, <2>1 DEF NodesLeft, Final
<1>11. ASSUME node = "generate",
              NEW response \in GenerationFailed(state, state.attempts),
              LET s == [state EXCEPT !.response = response]
              IN Ran(s, OrRespond(s, "validate"))
       PROVE  NodesLeft' < NodesLeft
  <2>1. response \in Response
    BY <1>1, <1>11, FailedTyped
  <2>2. node' = "respond"
    BY <1>1, <1>11, <2>1, ResponseAssumption DEF Ran, OrRespond, State
  <2> QED  BY <1>1, <1>11, <2>2 DEF NodesLeft, Final
<1>12. CASE DraftMalformed
  <2>1. CASE RepairsLeft /\ Ran([state EXCEPT !.attempts = @ + 1], "generate")
    <3>1. node = "generate" /\ node' = "generate" /\ state'.attempts = state.attempts + 1
      BY <1>1, <1>12, <2>1 DEF DraftMalformed, Ran, State
    <3> QED  BY <1>1, <3>1 DEF NodesLeft, Final
  <2> QED  BY <1>11, <1>12, <2>1 DEF DraftMalformed
<1>13. CASE GenerateFails
  BY <1>11, <1>13 DEF GenerateFails
<1>14. CASE Validate \/ Respond
  <2>1. \/ node = "validate" /\ node' = "respond"
        \/ node = "respond" /\ node' = "end"
    BY <1>14 DEF Validate, Respond, Ran
  <2> QED  BY <1>1, <2>1 DEF NodesLeft, Final
<1> QED
  BY <1>2, <1>3, <1>4, <1>5, <1>6, <1>7, <1>8, <1>9, <1>10, <1>12, <1>13, <1>14
     DEF GraphStep

LEMMA SumsFall ==
  ASSUME NEW m \in Nat, NEW n \in Nat, NEW k \in Nat, NEW l \in Nat,
         m <= n, k <= l, m < n \/ k < l
  PROVE  m + k < n + l
  OBVIOUS

(* A request takes a bounded number of steps: neither the detour, nor the  *)
(* repairs, nor both together run on, and EveryRequestEnds rests on no     *)
(* more than that some node returns.                                       *)
THEOREM StepsRunOut == Spec => StepsBounded
<1>1. IInv => StepsInv /\ StepsLeft \in 0..(MaxRepairs + 12)
  BY StepsTyped, StudyAssumption DEF IInv, StepsInv, StepsLeft
<1>2. IInv /\ IInv' /\ StepsInv /\ StepsInv' /\ [Next]_vars
        => [StepsLeft' < StepsLeft]_vars
  <2> SUFFICES ASSUME IInv, IInv', StepsInv, StepsInv', Next PROVE StepsLeft' < StepsLeft
    OBVIOUS
  <2>1. TypeOK /\ TypeOK'
    BY DEF IInv
  <2>2. /\ NodesLeft \in Nat /\ NodesLeft' \in Nat
        /\ TicksLeft \in Nat /\ TicksLeft' \in Nat
        /\ node \notin Final => NodesLeft > 0
    BY StudyAssumption DEF StepsInv
  <2> StepsLeft = NodesLeft + TicksLeft /\ StepsLeft' = NodesLeft' + TicksLeft'
    BY DEF StepsLeft
  <2>3. CASE GraphStep
    <3>1. NodesLeft' < NodesLeft
      BY <2>1, <2>3, GraphAdvances
    <3>2. budget' = budget
      BY <2>3 DEF GraphStep, Plan, DirectResponse, RetrieveFinds, RetrieveEmpty,
                  RetrieveFails, RetrieveRaises, GradeDisabled, GradeNothingNew,
                  GradeFails, GradeAccepts, GradeRejectsAll, ReflectTooLate,
                  ReflectGivesUp, Reformulate, Pack, PackFails, Draft, DraftMalformed,
                  GenerateFails, Validate, Respond
    <3>3. TicksLeft' = TicksLeft
      BY <3>2 DEF TicksLeft
    <3>4. NodesLeft' <= NodesLeft /\ TicksLeft' <= TicksLeft
      BY <2>2, <3>1, <3>3
    <3> QED  BY <2>2, <3>1, <3>4, SumsFall
  <2>4. CASE Tick
    <3>1. NodesLeft' = NodesLeft
      BY <2>4 DEF Tick, NodesLeft
    <3>2. TicksLeft' < TicksLeft
      BY <2>4 DEF Tick, TicksLeft
    <3>3. NodesLeft' <= NodesLeft /\ TicksLeft' <= TicksLeft
      BY <2>2, <3>1, <3>2
    <3> QED  BY <2>2, <3>2, <3>3, SumsFall
  <2>5. CASE Cancel
    <3>1. NodesLeft' = 0 /\ NodesLeft > 0
      BY <2>2, <2>5 DEF Cancel, Ran, NodesLeft, Final
    <3>2. TicksLeft' = TicksLeft
      BY <2>5 DEF Cancel, TicksLeft
    <3> QED  BY <2>2, <3>1, <3>2
  <2> QED  BY <2>3, <2>4, <2>5 DEF Next
<1> QED  BY <1>1, <1>2, Invariance, PTL DEF Spec, StepsBounded

=============================================================================
