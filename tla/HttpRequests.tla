---------------------------- MODULE HttpRequests ----------------------------
(***************************************************************************)
(* The HTTP service: the operations a client may call (src/src/main.py),   *)
(* on one event loop.  A handler runs without interruption from one await  *)
(* to the next, so each action is such a stretch: the awaits are the       *)
(* request body, the two calls of the rate limiter and the study service.  *)
(* Three things race them: the limiter's own timeout, the deadline of a    *)
(* study (one timer in the handler, one in the middleware around it), and  *)
(* other requests that spend the same allowance.                           *)
(*                                                                         *)
(* The rate limiter's backend counts the hits of a sliding window; it is   *)
(* a library over Redis and is modelled by what rate_limit.py asks of it.  *)
(***************************************************************************)
EXTENDS Naturals, FiniteSets

CONSTANTS Request,      \* the requests clients send
          Caller,       \* what is known of who sends it
          Unknown,      \* an address or a user nobody knows
          Limit         \* hits a window admits per policy and identity

Endpoint == {"search", "study", "chunk_detail", "collections"}
Costly == {"search", "study"}
NoEndpoint == "none"

ASSUME RequestAssumption ==
    /\ DOMAIN Caller = Request
    /\ Limit \in Nat
    /\ IsFiniteSet(Request)

(* Who is charged: the signed-in user, else the address the proxy names,   *)
(* else the peer's address, else one identity all strangers share.         *)
Identity(r) ==
    CASE Caller[r].user # Unknown -> <<"user", Caller[r].user>>
      [] Caller[r].user = Unknown /\ Caller[r].proxy # Unknown
           -> <<"ip", Caller[r].proxy>>
      [] OTHER -> <<"ip", Caller[r].host>>

(* Search and study have a policy, and a count, each.                      *)
Buckets == {<<e, Identity(r)>> : e \in Costly, r \in Request}

(* The outcomes of the usage log with the status each of them stands for.  *)
StudyOutcome == {"ok", "no_corpus_answer", "reflection_abstained",
                 "generation_failed", "retrieval_failed"}
Refusal == {403, 404, 422}
StatusOf(o) ==
    CASE o \in StudyOutcome -> 200
      [] o = "forbidden" -> 403
      [] o = "not_found" -> 404
      [] o = "request_too_large" -> 413
      [] o = "invalid_request" -> 422
      [] o = "rate_limited" -> 429
      [] o = "internal_error" -> 500
      [] o = "service_unavailable" -> 503
      [] o = "timeout" -> 504
Outcome == StudyOutcome \cup
    {"forbidden", "not_found", "request_too_large", "invalid_request",
     "rate_limited", "internal_error", "service_unavailable", "timeout"}
NoOutcome == "none"
OutcomeOf(status) ==
    CASE status = 403 -> "forbidden"
      [] status = 404 -> "not_found"
      [] status = 422 -> "invalid_request"
      [] status = 429 -> "rate_limited"
      [] status = 503 -> "service_unavailable"
      [] status = 504 -> "timeout"

NoReply == 0
BodyError == 400        \* the framework's own answer
Status == {StatusOf(o) : o \in Outcome} \cup {BodyError}

(* "returning" and "raising" lie between the handler's end and the         *)
(* middleware's: the response, or an exception nobody expects, is on its   *)
(* way through the middleware.                                             *)
Place == {"new", "body", "hit", "stats", "serving", "returning", "raising",
          "answered"}
Waiting == {"body", "hit", "stats", "serving"}

VARIABLES
    endpoint,   \* the operation each request names
    at,         \* where the request is
    reply,      \* the status chosen for it
    late,       \* the study requests whose deadline has passed
    allowed,    \* the limiter's answer to the hit
    counted,    \* per bucket: the requests whose hits the window still counts
    charged,    \* history: the requests the backend has admitted
    served,     \* history: the requests that reached search or study
    attempted,  \* usage_log_attempted
    inserts,    \* rows of the usage log written for the request
    outcome     \* the outcome of the latest of them

handlerVars == <<endpoint, at, reply>>
limitVars == <<allowed, counted, charged>>
logVars == <<attempted, inserts, outcome>>
vars == <<endpoint, at, reply, late, allowed, counted, charged, served,
          attempted, inserts, outcome>>

TypeOK ==
    /\ endpoint \in [Request -> Endpoint \cup {NoEndpoint}]
    /\ at \in [Request -> Place]
    /\ reply \in [Request -> Status \cup {NoReply}]
    /\ late \in SUBSET {r \in Request : endpoint[r] = "study"}
    /\ allowed \in SUBSET Request
    /\ counted \in [Buckets -> SUBSET Request]
    /\ charged \in SUBSET Request
    /\ served \in SUBSET Request
    /\ attempted \in SUBSET Request
    /\ inserts \in [Request -> Nat]
    /\ outcome \in [Request -> Outcome \cup {NoOutcome}]

Init ==
    /\ endpoint = [r \in Request |-> NoEndpoint]
    /\ at = [r \in Request |-> "new"]
    /\ reply = [r \in Request |-> NoReply]
    /\ late = {}
    /\ allowed = {}
    /\ counted = [b \in Buckets |-> {}]
    /\ charged = {}
    /\ served = {}
    /\ attempted = {}
    /\ inserts = [r \in Request |-> 0]
    /\ outcome = [r \in Request |-> NoOutcome]

-----------------------------------------------------------------------------
(* Operators of the actions.                                               *)

Bucket(r) == <<endpoint[r], Identity(r)>>

Insert(r, o) ==
    /\ inserts' = [inserts EXCEPT ![r] = @ + 1]
    /\ outcome' = [outcome EXCEPT ![r] = o]

(* _log_usage_best_effort: the flag is set first, and the request goes on  *)
(* when the row cannot be written.                                         *)
Log(r, o) ==
    IF r \in attempted
    THEN UNCHANGED logVars
    ELSE /\ attempted' = attempted \cup {r}
         /\ Insert(r, o) \/ UNCHANGED <<inserts, outcome>>

(* The handler is done with the request; the middleware is not.            *)
Return(r, status) ==
    /\ at' = [at EXCEPT ![r] = "returning"]
    /\ reply' = [reply EXCEPT ![r] = status]
    /\ UNCHANGED endpoint

LogAndReturn(r, o) == Log(r, o) /\ Return(r, StatusOf(o))

Answer(r, status) ==
    /\ at' = [at EXCEPT ![r] = "answered"]
    /\ reply' = [reply EXCEPT ![r] = status]

Goto(r, place) ==
    /\ at' = [at EXCEPT ![r] = place]
    /\ UNCHANGED <<endpoint, reply, logVars>>

(* The backend counts a hit when the window has room for it.               *)
Charge(r) ==
    LET room == Cardinality(counted[Bucket(r)]) < Limit
    IN  /\ allowed' = IF room THEN allowed \cup {r} ELSE allowed
        /\ charged' = IF room THEN charged \cup {r} ELSE charged
        /\ counted' = IF room
                      THEN [counted EXCEPT ![Bucket(r)] = @ \cup {r}]
                      ELSE counted

(* A hit whose answer nobody waits for any more may have been counted.     *)
MayCharge(r) ==
    \/ at[r] = "hit" /\ Charge(r)
    \/ UNCHANGED limitVars

-----------------------------------------------------------------------------
(* The middleware before the handler, and the body.                        *)

(* A declared length over the limit is refused before anything is read.    *)
Arrive(r) ==
    /\ at[r] = "new"
    /\ \E e \in Endpoint : endpoint' = [endpoint EXCEPT ![r] = e]
    /\ \/ /\ at' = [at EXCEPT ![r] = "body"]
          /\ UNCHANGED <<reply, logVars>>
       \/ Log(r, "request_too_large") /\ Answer(r, 413)
    /\ UNCHANGED <<late, limitVars, served>>

(* The body turns out longer than the limit while it is read: the          *)
(* exception reaches the middleware, or the framework, which reads the     *)
(* body, has made an answer of its own of it.                              *)
BodyTooLarge(r) ==
    /\ at[r] = "body"
    /\ endpoint[r] \in Costly
    /\ \/ Log(r, "request_too_large") /\ Answer(r, 413) /\ UNCHANGED endpoint
       \/ Return(r, BodyError) /\ UNCHANGED logVars
    /\ UNCHANGED <<late, limitVars, served>>

(* The refusals of the checks a handler makes before it awaits anything.   *)
CheckRefusals(e) ==
    CASE e = "search" -> {403, 404, 422, 503}
      [] e = "study" -> {403, 404, 422, 503}
      [] e = "chunk_detail" -> {403, 404, 503}
      [] e = "collections" -> {403}

(* A body that does not fit the schema; no access, no collection, a query, *)
(* limit or filter out of range; a service or a limiter not configured.    *)
Refuse(r) ==
    /\ at[r] = "body"
    /\ \E status \in CheckRefusals(endpoint[r]) :
           LogAndReturn(r, OutcomeOf(status))
    /\ UNCHANGED <<late, limitVars, served>>

(* chunk_detail and the listings read the database and answer at once.     *)
Read(r) ==
    /\ at[r] = "body"
    /\ endpoint[r] \notin Costly
    /\ LogAndReturn(r, "ok")
    /\ UNCHANGED <<late, limitVars, served>>

(* The checks pass and the limiter is asked.                               *)
Admit(r) ==
    /\ at[r] = "body"
    /\ endpoint[r] \in Costly
    /\ Goto(r, "hit")
    /\ UNCHANGED <<late, limitVars, served>>

-----------------------------------------------------------------------------
(* The rate limiter.                                                       *)

(* The count alone, read before the hit, admits two that see the same one. *)
Hit_ReadsFirst(r) ==
    /\ at[r] = "hit"
    /\ Goto(r, "stats")
    /\ allowed' = IF Cardinality(counted[Bucket(r)]) < Limit
                  THEN allowed \cup {r} ELSE allowed
    /\ UNCHANGED <<late, counted, charged, served>>

Hit(r) ==
    /\ at[r] = "hit"
    /\ Goto(r, "stats")
    /\ Charge(r)
    /\ UNCHANGED <<late, served>>

(* No timeout around the check: the backend may keep the request for ever. *)
LimiterFails_NoTimeout(r) ==
    /\ at[r] = "stats"
    /\ MayCharge(r)
    /\ LogAndReturn(r, "service_unavailable")
    /\ UNCHANGED <<late, served>>

(* The backend fails or takes too long, in either of its two calls.        *)
LimiterFails(r) ==
    /\ at[r] \in {"hit", "stats"}
    /\ MayCharge(r)
    /\ LogAndReturn(r, "service_unavailable")
    /\ UNCHANGED <<late, served>>

(* Denied: the row is written before the exception, whose handler then     *)
(* finds the attempt made.                                                 *)
Deny(r) ==
    /\ at[r] = "stats"
    /\ r \notin allowed
    /\ LogAndReturn(r, "rate_limited")
    /\ UNCHANGED <<late, limitVars, served>>

(* The search itself does not await: it ends in the step it starts in.     *)
Search(r) ==
    /\ at[r] = "stats"
    /\ r \in allowed
    /\ endpoint[r] = "search"
    /\ served' = served \cup {r}
    /\ \/ LogAndReturn(r, "ok")
       \/ \E status \in {404, 422} : LogAndReturn(r, OutcomeOf(status))
       \/ Goto(r, "raising")
    /\ UNCHANGED <<late, limitVars>>

Study(r) ==
    /\ at[r] = "stats"
    /\ r \in allowed
    /\ endpoint[r] = "study"
    /\ Goto(r, "serving")
    /\ served' = served \cup {r}
    /\ UNCHANGED <<late, limitVars>>

-----------------------------------------------------------------------------
(* Answers.                                                                *)

(* _study_outcome, or a lookup that fails inside retrieval.                *)
StudyAnswers(r) ==
    /\ at[r] = "serving"
    /\ \/ \E o \in StudyOutcome : LogAndReturn(r, o)
       \/ \E status \in {404, 422} : LogAndReturn(r, OutcomeOf(status))
    /\ UNCHANGED <<late, limitVars, served>>

(* An exception no handler expects, from the checks or the study service.  *)
Crash(r) ==
    /\ at[r] \in {"body", "serving"}
    /\ Goto(r, "raising")
    /\ UNCHANGED <<late, limitVars, served>>

(* The response passes the middleware.                                     *)
Finish(r) ==
    /\ at[r] = "returning"
    /\ Goto(r, "answered")
    /\ UNCHANGED <<late, limitVars, served>>

(* unexpected_exception_handler, outside the middleware.                   *)
Unexpected_NotLogged(r) ==
    /\ at[r] = "raising"
    /\ Answer(r, 500)
    /\ UNCHANGED <<endpoint, late, limitVars, served, logVars>>

Unexpected(r) ==
    /\ at[r] = "raising"
    /\ Log(r, "internal_error")
    /\ Answer(r, 500)
    /\ UNCHANGED <<endpoint, late, limitVars, served>>

-----------------------------------------------------------------------------
(* The deadline of a study.                                                *)

(* It passes while the request waits.  Whatever ends the wait in the same  *)
(* round of the loop runs before the timers do; the model lets more of the *)
(* handler run than one round can.                                         *)
Expire(r) ==
    /\ endpoint[r] = "study"
    /\ at[r] \in Waiting
    /\ r \notin late
    /\ late' = late \cup {r}
    /\ UNCHANGED <<handlerVars, limitVars, served, logVars>>

(* The handler's timer, asyncio.timeout_at.  No service is taken to raise a *)
(* TimeoutError of its own, which the handler would take for its timer's.  *)
HandlerTimeout(r) ==
    /\ r \in late
    /\ at[r] \in {"hit", "stats", "serving"}
    /\ MayCharge(r)
    /\ LogAndReturn(r, "timeout")
    /\ UNCHANGED <<late, served>>

(* The middleware's timer: what the handler has decided is lost.           *)
MiddlewareTimeout(r) ==
    /\ r \in late
    /\ at[r] \in {"body", "returning", "raising"}
    /\ Log(r, "timeout")
    /\ Answer(r, 504)
    /\ UNCHANGED <<endpoint, late, limitVars, served>>

(* The window slides on and forgets hits.                                  *)
Slide(b) ==
    /\ \E kept \in SUBSET counted[b] :
           kept # counted[b] /\ counted' = [counted EXCEPT ![b] = kept]
    /\ UNCHANGED <<handlerVars, late, allowed, charged, served, logVars>>

-----------------------------------------------------------------------------

HandlerStep(r) ==
    \/ Arrive(r) \/ BodyTooLarge(r) \/ Refuse(r) \/ Read(r) \/ Admit(r)
    \/ Hit(r) \/ LimiterFails(r) \/ Deny(r) \/ Search(r) \/ Study(r)
    \/ StudyAnswers(r) \/ Crash(r) \/ Finish(r) \/ Unexpected(r)
    \/ HandlerTimeout(r) \/ MiddlewareTimeout(r)

Next ==
    \/ \E r \in Request : HandlerStep(r) \/ Expire(r)
    \/ \E b \in Buckets : Slide(b)

(* The loop runs what is ready and its timers go off.  Nothing makes a     *)
(* client send its body, the backend answer or the study service return.   *)
Fairness ==
    \A r \in Request :
        /\ WF_vars(LimiterFails(r))
        /\ WF_vars(Expire(r))
        /\ WF_vars(HandlerTimeout(r))
        /\ WF_vars(Finish(r) \/ Unexpected(r) \/ MiddlewareTimeout(r))

Spec == Init /\ [][Next]_vars
FairSpec == Spec /\ Fairness

-----------------------------------------------------------------------------
(* Properties.                                                             *)

(* No search or study that costs money runs without a hit the backend      *)
(* admitted, and of those the window still counts no more than the limit   *)
(* have run, however requests of one identity interleave, time out and     *)
(* fail between the limiter's two calls.                                   *)
NoFreeService ==
    /\ served \subseteq charged
    /\ \A b \in Buckets : Cardinality(served \cap counted[b]) <= Limit

(* A request has at most one row in the usage log, although the limiter,   *)
(* the handler, the middleware and two exception handlers may each log it. *)
OneRow == \A r \in Request : inserts[r] <= 1

(* Every answered operation was offered to the usage log, except when the  *)
(* framework answered for a body it could not read.                        *)
EveryAnswerLogged ==
    \A r \in Request :
        at[r] = "answered" /\ reply[r] # BodyError => r \in attempted

(* The row tells what the client was told.  The one exception: a study     *)
(* past its deadline may be answered with 504 after the handler has logged *)
(* how it ended, and the row keeps that.                                   *)
RowTellsAnswer ==
    \A r \in Request :
        at[r] = "answered" /\ inserts[r] # 0
        => \/ reply[r] = StatusOf(outcome[r])
           \/ reply[r] = 504 /\ r \in late

(* The usage log is honest: the three above.                               *)
UsageLogHonest == OneRow /\ EveryAnswerLogged /\ RowTellsAnswer

(* Once it is past the body every operation is answered, and a study in    *)
(* any case, although the limiter's backend and the study service may      *)
(* never return.                                                           *)
Answered ==
    \A r \in Request :
        (\/ at[r] \notin {"new", "body"}
         \/ at[r] = "body" /\ endpoint[r] = "study")
        ~> at[r] = "answered"

=============================================================================
