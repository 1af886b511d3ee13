----------------------------- MODULE HttpProofs -----------------------------
(***************************************************************************)
(* Proofs about the HTTP service, for any requests, callers and limit.     *)
(* LogInv says, place by place, what the usage log already knows of a      *)
(* request; LimitInv relates the hits a window counts to the requests that *)
(* were let through.                                                       *)
(***************************************************************************)
EXTENDS HttpRequests, FiniteSetTheorems, TLAPS

Open == {"new", "body", "hit", "stats", "serving", "raising"}

(* Nothing is logged before the handler has decided; what it logged is     *)
(* what it decided; only a late study is answered otherwise.               *)
LogOf(r) ==
    /\ inserts[r] \in 0..1
    /\ r \notin attempted => inserts[r] = 0
    /\ at[r] \in Open => r \notin attempted
    /\ at[r] \in {"returning", "answered"} /\ reply[r] # BodyError
         => r \in attempted
    /\ at[r] = "returning" /\ inserts[r] # 0 => reply[r] = StatusOf(outcome[r])
    /\ at[r] = "answered" /\ inserts[r] # 0
         => \/ reply[r] = StatusOf(outcome[r])
            \/ reply[r] = 504 /\ r \in late

LogInv == \A r \in Request : LogOf(r)

(* A request names its operation, and only two kinds reach the limiter.    *)
PlaceOf(r) ==
    /\ at[r] # "new" => endpoint[r] \in Endpoint
    /\ at[r] = "hit" => endpoint[r] \in Costly
    /\ at[r] = "new" => r \notin late

PlaceInv == \A r \in Request : PlaceOf(r)

(* A request the limiter let through is one the backend admitted, and no   *)
(* window counts more hits than the limit.                                 *)
LimitInv ==
    /\ allowed \subseteq charged
    /\ served \subseteq charged
    /\ \A b \in Buckets : /\ IsFiniteSet(counted[b])
                          /\ Cardinality(counted[b]) <= Limit

IInv == TypeOK /\ PlaceInv /\ LogInv /\ LimitInv

-----------------------------------------------------------------------------

LEMMA StatusTyped ==
    /\ \A o \in Outcome : StatusOf(o) \in Status /\ StatusOf(o) # BodyError
    /\ {BodyError, 413, 500, 504} \subseteq Status
    /\ StatusOf("request_too_large") = 413
    /\ StatusOf("internal_error") = 500
    /\ StatusOf("timeout") = 504
<1>1. /\ StatusOf("request_too_large") = 413
      /\ StatusOf("internal_error") = 500
      /\ StatusOf("timeout") = 504
  BY DEF StatusOf, StudyOutcome
<1>2. \A o \in Outcome : StatusOf(o) # BodyError
  BY DEF StatusOf, Outcome, StudyOutcome, BodyError
<1> HIDE DEF BodyError
<1>3. \A o \in Outcome : StatusOf(o) \in Status
  BY DEF Status
<1>4. {413, 500, 504} \subseteq Status
  <2>1. {"request_too_large", "internal_error", "timeout"} \subseteq Outcome
    BY DEF Outcome
  <2> QED BY <1>1, <1>3, <2>1
<1>5. BodyError \in Status
  BY DEF Status
<1> QED BY <1>1, <1>2, <1>3, <1>4, <1>5

LEMMA OutcomeTyped ==
    /\ \A status \in {403, 404, 422, 503} : OutcomeOf(status) \in Outcome
    /\ \A e \in Endpoint : CheckRefusals(e) \subseteq {403, 404, 422, 503}
    /\ StudyOutcome \subseteq Outcome
<1>1. \A status \in {403, 404, 422, 503} : OutcomeOf(status) \in Outcome
  BY DEF OutcomeOf, Outcome
<1>2. \A e \in Endpoint : CheckRefusals(e) \subseteq {403, 404, 422, 503}
  BY DEF CheckRefusals, Endpoint
<1> QED BY <1>1, <1>2 DEF Outcome

(* What a call of the logger may do.                                       *)
LEMMA LogEffect ==
    ASSUME TypeOK, NEW r \in Request, NEW o \in Outcome, Log(r, o)
    PROVE  /\ attempted' = attempted \cup {r}
           /\ inserts' \in [Request -> Nat]
           /\ outcome' \in [Request -> Outcome \cup {NoOutcome}]
           /\ \A q \in Request \ {r} :
                  inserts'[q] = inserts[q] /\ outcome'[q] = outcome[q]
           /\ \/ inserts'[r] = inserts[r] /\ outcome'[r] = outcome[r]
              \/ /\ r \notin attempted
                 /\ inserts'[r] = inserts[r] + 1 /\ outcome'[r] = o
<1> USE DEF TypeOK
<1>1. CASE r \in attempted
  BY <1>1 DEF Log, logVars
<1>2. CASE r \notin attempted /\ Insert(r, o) /\ attempted' = attempted \cup {r}
  BY <1>2 DEF Insert
<1>3. CASE UNCHANGED <<inserts, outcome>> /\ attempted' = attempted \cup {r}
  BY <1>3
<1> QED BY <1>1, <1>2, <1>3 DEF Log

(* The ways a step of a handler concerns the log and the reply.            *)
Moves(r) ==
    /\ at[r] \in Open
    /\ \E place \in Open : at' = [at EXCEPT ![r] = place]
    /\ UNCHANGED <<reply, logVars, late>>

Decides(r) ==
    /\ at[r] \in Open
    /\ \E o \in Outcome : LogAndReturn(r, o)
    /\ UNCHANGED late

Refuses(r) ==
    /\ at[r] \in Open
    /\ \E o \in Outcome : Log(r, o) /\ Answer(r, StatusOf(o))
    /\ UNCHANGED late

BodyFails(r) ==
    /\ at[r] \in Open
    /\ Return(r, BodyError)
    /\ UNCHANGED <<logVars, late>>

Finishes(r) ==
    /\ at[r] = "returning"
    /\ at' = [at EXCEPT ![r] = "answered"]
    /\ UNCHANGED <<reply, logVars, late>>

Overtakes(r) ==
    /\ at[r] = "returning" /\ r \in late
    /\ Log(r, "timeout") /\ Answer(r, 504)
    /\ UNCHANGED late

LEMMA StepKinds ==
    ASSUME TypeOK, PlaceInv, NEW r \in Request, HandlerStep(r)
    PROVE  \/ Moves(r) \/ Decides(r) \/ Refuses(r) \/ BodyFails(r)
           \/ Finishes(r) \/ Overtakes(r)
<1> USE DEF Open
<1>1. CASE Arrive(r) \/ BodyTooLarge(r)
  <2>1. "request_too_large" \in Outcome
    BY DEF Outcome
  <2>2. CASE Arrive(r)
    <3>1. CASE Log(r, "request_too_large") /\ Answer(r, 413)
      BY <2>1, <2>2, <3>1, StatusTyped DEF Arrive, Refuses
    <3>2. CASE at' = [at EXCEPT ![r] = "body"] /\ UNCHANGED <<reply, logVars>>
      BY <2>2, <3>2 DEF Arrive, Moves
    <3> QED BY <2>2, <3>1, <3>2 DEF Arrive
  <2>3. CASE BodyTooLarge(r)
    <3>1. CASE Log(r, "request_too_large") /\ Answer(r, 413)
      BY <2>1, <2>3, <3>1, StatusTyped DEF BodyTooLarge, Refuses
    <3>2. CASE Return(r, BodyError) /\ UNCHANGED logVars
      BY <2>3, <3>2 DEF BodyTooLarge, BodyFails
    <3> QED BY <2>3, <3>1, <3>2 DEF BodyTooLarge
  <2> QED BY <1>1, <2>2, <2>3
<1>2. CASE Refuse(r)
  <2>1. PICK status \in CheckRefusals(endpoint[r]) : LogAndReturn(r, OutcomeOf(status))
    BY <1>2 DEF Refuse
  <2>2. at[r] = "body" /\ endpoint[r] \in Endpoint
    BY <1>2 DEF Refuse, PlaceInv, PlaceOf
  <2>3. OutcomeOf(status) \in Outcome
    BY <2>1, <2>2, OutcomeTyped
  <2> QED BY <1>2, <2>1, <2>2, <2>3 DEF Refuse, Decides
<1>3. CASE Read(r)
  <2>1. "ok" \in Outcome
    BY DEF Outcome, StudyOutcome
  <2> QED BY <1>3, <2>1 DEF Read, Decides
<1>4. CASE Admit(r) \/ Hit(r) \/ Study(r) \/ Crash(r)
  <2>1. CASE Admit(r)
    BY <2>1 DEF Admit, Goto, Moves
  <2>2. CASE Hit(r)
    BY <2>2 DEF Hit, Goto, Moves
  <2>3. CASE Study(r)
    BY <2>3 DEF Study, Goto, Moves
  <2>4. CASE Crash(r)
    BY <2>4 DEF Crash, Goto, Moves
  <2> QED BY <1>4, <2>1, <2>2, <2>3, <2>4
<1>5. CASE LimiterFails(r) \/ Deny(r) \/ HandlerTimeout(r)
  <2>1. {"service_unavailable", "rate_limited", "timeout"} \subseteq Outcome
    BY DEF Outcome
  <2> QED BY <1>5, <2>1 DEF LimiterFails, Deny, HandlerTimeout, Decides
<1>6. CASE Search(r)
  <2>1. "ok" \in Outcome /\ \A status \in {404, 422} : OutcomeOf(status) \in Outcome
    BY OutcomeTyped DEF Outcome, StudyOutcome
  <2>2. CASE LogAndReturn(r, "ok")
    BY <1>6, <2>1, <2>2 DEF Search, Decides
  <2>3. CASE \E status \in {404, 422} : LogAndReturn(r, OutcomeOf(status))
    BY <1>6, <2>1, <2>3 DEF Search, Decides
  <2>4. CASE Goto(r, "raising")
    BY <1>6, <2>4 DEF Search, Goto, Moves
  <2> QED BY <1>6, <2>2, <2>3, <2>4 DEF Search
<1>7. CASE StudyAnswers(r)
  <2>1. \A status \in {404, 422} : OutcomeOf(status) \in Outcome
    BY OutcomeTyped
  <2>2. CASE \E o \in StudyOutcome : LogAndReturn(r, o)
    BY <1>7, <2>2, OutcomeTyped DEF StudyAnswers, Decides
  <2>3. CASE \E status \in {404, 422} : LogAndReturn(r, OutcomeOf(status))
    BY <1>7, <2>1, <2>3 DEF StudyAnswers, Decides
  <2> QED BY <1>7, <2>2, <2>3 DEF StudyAnswers
<1>8. CASE Finish(r)
  BY <1>8 DEF Finish, Goto, Finishes
<1>9. CASE Unexpected(r)
  <2>1. "internal_error" \in Outcome
    BY DEF Outcome
  <2> QED BY <1>9, <2>1, StatusTyped DEF Unexpected, Refuses
<1>10. CASE MiddlewareTimeout(r)
  <2>1. "timeout" \in Outcome
    BY DEF Outcome
  <2>2. CASE at[r] \in {"body", "raising"}
    BY <1>10, <2>1, <2>2, StatusTyped DEF MiddlewareTimeout, Refuses
  <2>3. CASE at[r] = "returning"
    BY <1>10, <2>3 DEF MiddlewareTimeout, Overtakes
  <2> QED BY <1>10, <2>2, <2>3 DEF MiddlewareTimeout
<1> QED
  BY <1>1, <1>2, <1>3, <1>4, <1>5, <1>6, <1>7, <1>8, <1>9, <1>10 DEF HandlerStep

-----------------------------------------------------------------------------
(* The log.                                                                *)

LEMMA LogStep == TypeOK /\ PlaceInv /\ LogInv /\ [Next]_vars => LogInv'
<1> SUFFICES ASSUME TypeOK, PlaceInv, LogInv, [Next]_vars, NEW q \in Request
             PROVE  LogOf(q)'
  BY DEF LogInv
<1> LogOf(q)
  BY DEF LogInv
<1> BodyError \in Status
  BY StatusTyped
<1>1. CASE UNCHANGED <<at, reply, logVars>> /\ late \subseteq late'
  BY <1>1 DEF LogOf, logVars
<1>2. ASSUME NEW r \in Request, HandlerStep(r) PROVE LogOf(q)'
  <2>1. CASE Moves(r)
    <3>1. /\ reply'[q] = reply[q] /\ inserts' = inserts /\ outcome' = outcome
          /\ attempted' = attempted /\ late' = late
          /\ at'[q] = at[q] \/ (at[q] \in Open /\ at'[q] \in Open)
      BY <2>1 DEF Moves, TypeOK, logVars
    <3> QED BY <3>1 DEF LogOf, Open
  <2>2. CASE Decides(r)
    <3>1. PICK o \in Outcome : LogAndReturn(r, o)
      BY <2>2 DEF Decides
    <3>2. Log(r, o) /\ Return(r, StatusOf(o)) /\ at[r] \in Open /\ late' = late
      BY <2>2, <3>1 DEF Decides, LogAndReturn
    <3>3. CASE q = r
      <4>1. at'[r] = "returning" /\ reply'[r] = StatusOf(o)
        BY <3>2 DEF Return, TypeOK
      <4>2. r \in attempted' /\ inserts[r] = 0
            /\ \/ inserts'[r] = 0
               \/ inserts'[r] = 1 /\ outcome'[r] = o
        BY <3>2, <3>3, LogEffect DEF LogOf
      <4> QED BY <3>3, <4>1, <4>2 DEF LogOf, Open
    <3>4. CASE q # r
      <4>1. at'[q] = at[q] /\ reply'[q] = reply[q]
        BY <3>2, <3>4 DEF Return, TypeOK
      <4>2. inserts'[q] = inserts[q] /\ outcome'[q] = outcome[q]
            /\ (q \in attempted' <=> q \in attempted)
        BY <3>2, <3>4, LogEffect
      <4> QED BY <3>2, <4>1, <4>2 DEF LogOf
    <3> QED BY <3>3, <3>4
  <2>3. CASE Refuses(r)
    <3>1. PICK o \in Outcome : Log(r, o) /\ Answer(r, StatusOf(o))
      BY <2>3 DEF Refuses
    <3>2. at[r] \in Open /\ late' = late
      BY <2>3 DEF Refuses
    <3>3. CASE q = r
      <4>1. at'[r] = "answered" /\ reply'[r] = StatusOf(o)
        BY <3>1 DEF Answer, TypeOK
      <4>2. r \in attempted' /\ inserts[r] = 0
            /\ \/ inserts'[r] = 0
               \/ inserts'[r] = 1 /\ outcome'[r] = o
        BY <3>1, <3>2, <3>3, LogEffect DEF LogOf
      <4> QED BY <3>3, <4>1, <4>2 DEF LogOf, Open
    <3>4. CASE q # r
      <4>1. at'[q] = at[q] /\ reply'[q] = reply[q]
        BY <3>1, <3>4 DEF Answer, TypeOK
      <4>2. inserts'[q] = inserts[q] /\ outcome'[q] = outcome[q]
            /\ (q \in attempted' <=> q \in attempted)
        BY <3>1, <3>4, LogEffect
      <4> QED BY <3>2, <4>1, <4>2 DEF LogOf
    <3> QED BY <3>3, <3>4
  <2>4. CASE BodyFails(r)
    <3>1. /\ inserts' = inserts /\ outcome' = outcome /\ attempted' = attempted
          /\ late' = late /\ at[r] \in Open
          /\ at'[r] = "returning" /\ reply'[r] = BodyError
          /\ q # r => at'[q] = at[q] /\ reply'[q] = reply[q]
      BY <2>4 DEF BodyFails, Return, TypeOK, logVars
    <3> QED BY <3>1 DEF LogOf, Open
  <2>5. CASE Finishes(r)
    <3>1. /\ inserts' = inserts /\ outcome' = outcome /\ attempted' = attempted
          /\ late' = late /\ reply' = reply
          /\ at[r] = "returning" /\ at'[r] = "answered"
          /\ q # r => at'[q] = at[q]
      BY <2>5 DEF Finishes, TypeOK, logVars
    <3> QED BY <3>1 DEF LogOf, Open
  <2>6. CASE Overtakes(r)
    <3>1. /\ Log(r, "timeout") /\ Answer(r, 504) /\ at[r] = "returning"
          /\ r \in late /\ late' = late /\ "timeout" \in Outcome
      BY <2>6 DEF Overtakes, Outcome
    <3>2. CASE q = r
      <4>1. at'[r] = "answered" /\ reply'[r] = 504
        BY <3>1 DEF Answer, TypeOK
      <4>2. r \in attempted'
            /\ \/ inserts'[r] = inserts[r] /\ outcome'[r] = outcome[r]
               \/ r \notin attempted /\ inserts'[r] = inserts[r] + 1
        BY <3>1, LogEffect
      <4>3. inserts'[r] \in 0..1
        BY <3>2, <4>2 DEF LogOf
      <4> QED BY <3>1, <3>2, <4>1, <4>2, <4>3 DEF LogOf, Open
    <3>3. CASE q # r
      <4>1. at'[q] = at[q] /\ reply'[q] = reply[q]
        BY <3>1, <3>3 DEF Answer, TypeOK
      <4>2. inserts'[q] = inserts[q] /\ outcome'[q] = outcome[q]
            /\ (q \in attempted' <=> q \in attempted)
        BY <3>1, <3>3, LogEffect
      <4> QED BY <3>1, <4>1, <4>2 DEF LogOf
    <3> QED BY <3>2, <3>3
  <2> QED BY <1>2, <2>1, <2>2, <2>3, <2>4, <2>5, <2>6, StepKinds
<1>3. CASE \E r \in Request : Expire(r)
  BY <1>1, <1>3 DEF Expire, handlerVars, logVars
<1>4. CASE \E b \in Buckets : Slide(b)
  BY <1>1, <1>4 DEF Slide, handlerVars, logVars
<1>5. CASE UNCHANGED vars
  BY <1>1, <1>5 DEF vars, logVars
<1> QED BY <1>2, <1>3, <1>4, <1>5 DEF Next

-----------------------------------------------------------------------------
(* The limiter.                                                            *)

(* What a step of a handler does to the window and the service.            *)
LimitKept == UNCHANGED <<limitVars, served>>
Spends(r) == Charge(r) /\ UNCHANGED served
Serves(r) ==
    /\ r \in allowed
    /\ served' = served \cup {r}
    /\ UNCHANGED limitVars

LEMMA LimitKinds ==
    ASSUME NEW r \in Request, HandlerStep(r)
    PROVE  LimitKept \/ Spends(r) \/ Serves(r)
<1>1. CASE LimiterFails(r) \/ HandlerTimeout(r) \/ Hit(r)
  <2>1. MayCharge(r) \/ Charge(r)
    BY <1>1 DEF LimiterFails, HandlerTimeout, Hit
  <2>2. UNCHANGED served
    BY <1>1 DEF LimiterFails, HandlerTimeout, Hit
  <2> QED BY <2>1, <2>2 DEF MayCharge, Spends, LimitKept
<1>2. CASE Search(r) \/ Study(r)
  BY <1>2 DEF Search, Study, Serves
<1>3. CASE \/ Arrive(r) \/ BodyTooLarge(r) \/ Refuse(r) \/ Read(r) \/ Admit(r)
           \/ Deny(r)
  BY <1>3 DEF Arrive, BodyTooLarge, Refuse, Read, Admit, Deny, LimitKept
<1>4. CASE \/ StudyAnswers(r) \/ Crash(r) \/ Finish(r) \/ Unexpected(r)
           \/ MiddlewareTimeout(r)
  BY <1>4 DEF StudyAnswers, Crash, Finish, Unexpected, MiddlewareTimeout, LimitKept
<1> QED BY <1>1, <1>2, <1>3, <1>4 DEF HandlerStep

LEMMA ChargeTyped ==
    ASSUME TypeOK, NEW r \in Request, Bucket(r) \in Buckets, Charge(r)
    PROVE  /\ allowed' \in SUBSET Request /\ charged' \in SUBSET Request
           /\ counted' \in [Buckets -> SUBSET Request]
<1> HIDE DEF Bucket, Buckets
<1>1. CASE Cardinality(counted[Bucket(r)]) < Limit
  <2>1. counted' = [counted EXCEPT ![Bucket(r)] = @ \cup {r}]
        /\ allowed' = allowed \cup {r} /\ charged' = charged \cup {r}
    BY <1>1 DEF Charge
  <2> QED BY <2>1 DEF TypeOK
<1>2. CASE ~(Cardinality(counted[Bucket(r)]) < Limit)
  BY <1>2 DEF Charge, TypeOK
<1> QED BY <1>1, <1>2

(* A charge is made for a search or a study, so its bucket is counted.     *)
LEMMA ChargesCostly ==
    ASSUME TypeOK, PlaceInv, NEW r \in Request, HandlerStep(r)
    PROVE  LimitKept \/ (Spends(r) /\ Bucket(r) \in Buckets) \/ Serves(r)
<1>1. CASE at[r] = "hit"
  <2>1. Bucket(r) \in Buckets
    BY <1>1 DEF PlaceInv, PlaceOf, Bucket, Buckets
  <2> QED BY <2>1, LimitKinds
<1>2. CASE at[r] # "hit"
  <2>1. CASE LimiterFails(r) \/ HandlerTimeout(r)
    BY <1>2, <2>1 DEF LimiterFails, HandlerTimeout, MayCharge, LimitKept
  <2>2. CASE Search(r) \/ Study(r)
    BY <2>2 DEF Search, Study, Serves
  <2>3. CASE \/ Arrive(r) \/ BodyTooLarge(r) \/ Refuse(r) \/ Read(r) \/ Admit(r)
             \/ Deny(r)
    BY <2>3 DEF Arrive, BodyTooLarge, Refuse, Read, Admit, Deny, LimitKept
  <2>4. CASE \/ StudyAnswers(r) \/ Crash(r) \/ Finish(r) \/ Unexpected(r)
             \/ MiddlewareTimeout(r)
    BY <2>4 DEF StudyAnswers, Crash, Finish, Unexpected, MiddlewareTimeout, LimitKept
  <2>5. ~Hit(r)
    BY <1>2 DEF Hit
  <2> QED BY <2>1, <2>2, <2>3, <2>4, <2>5 DEF HandlerStep
<1> QED BY <1>1, <1>2

LEMMA LimitStep == TypeOK /\ PlaceInv /\ LimitInv /\ [Next]_vars => LimitInv'
<1> SUFFICES ASSUME TypeOK, PlaceInv, LimitInv, [Next]_vars PROVE LimitInv'
  OBVIOUS
<1>1. CASE LimitKept
  BY <1>1 DEF LimitKept, limitVars, LimitInv
<1>2. ASSUME NEW r \in Request, HandlerStep(r) PROVE LimitInv'
  <2>1. CASE Spends(r) /\ Bucket(r) \in Buckets
    <3> DEFINE k == Bucket(r)
    <3>1. CASE Cardinality(counted[k]) < Limit
      <4>1. /\ counted' = [counted EXCEPT ![k] = @ \cup {r}]
            /\ allowed' = allowed \cup {r} /\ charged' = charged \cup {r}
            /\ served' = served
        BY <2>1, <3>1 DEF Spends, Charge
      <4>2. k \in Buckets
        BY <2>1
      <4> HIDE DEF k
      <4>3. IsFiniteSet(counted[k]) /\ Cardinality(counted[k]) \in Nat
        BY <4>2, FS_CardinalityType DEF LimitInv
      <4>4. /\ IsFiniteSet(counted[k] \cup {r})
            /\ Cardinality(counted[k] \cup {r}) <= Cardinality(counted[k]) + 1
        BY <4>3, FS_AddElement
      <4>5. Cardinality(counted[k] \cup {r}) \in Nat
        BY <4>4, FS_CardinalityType
      <4>6. Cardinality(counted[k] \cup {r}) <= Limit
        BY <3>1, <4>3, <4>4, <4>5, RequestAssumption DEF k
      <4>7. /\ counted'[k] = counted[k] \cup {r}
            /\ \A b \in Buckets : b # k => counted'[b] = counted[b]
        BY <4>1, <4>2 DEF TypeOK
      <4>8. \A b \in Buckets : IsFiniteSet(counted'[b])
                               /\ Cardinality(counted'[b]) <= Limit
        <5> SUFFICES ASSUME NEW b \in Buckets
                     PROVE  IsFiniteSet(counted'[b]) /\ Cardinality(counted'[b]) <= Limit
          OBVIOUS
        <5>1. CASE b = k
          BY <4>4, <4>6, <4>7, <5>1
        <5>2. CASE b # k
          BY <4>7, <5>2 DEF LimitInv
        <5> QED BY <5>1, <5>2
      <4> QED BY <4>1, <4>8 DEF LimitInv
    <3>2. CASE ~(Cardinality(counted[k]) < Limit)
      BY <1>1, <2>1, <3>2 DEF Spends, Charge, LimitKept, limitVars
    <3> QED BY <3>1, <3>2
  <2>2. CASE Serves(r)
    BY <2>2 DEF Serves, limitVars, LimitInv
  <2> QED BY <1>1, <1>2, <2>1, <2>2, ChargesCostly
<1>3. CASE \E r \in Request : Expire(r)
  BY <1>1, <1>3 DEF Expire, LimitKept
<1>4. ASSUME NEW b \in Buckets, Slide(b) PROVE LimitInv'
  <2>1. PICK kept \in SUBSET counted[b] : counted' = [counted EXCEPT ![b] = kept]
    BY <1>4 DEF Slide
  <2>2. IsFiniteSet(counted[b]) /\ Cardinality(counted[b]) \in Nat
    BY FS_CardinalityType DEF LimitInv
  <2>3. IsFiniteSet(kept) /\ Cardinality(kept) <= Cardinality(counted[b])
    BY <2>2, FS_Subset
  <2>4. Cardinality(kept) \in Nat /\ Cardinality(counted[b]) <= Limit
    BY <2>3, FS_CardinalityType DEF LimitInv
  <2>5. IsFiniteSet(kept) /\ Cardinality(kept) <= Limit
    BY <2>2, <2>3, <2>4, RequestAssumption
  <2>6. counted'[b] = kept /\ \A d \in Buckets : d # b => counted'[d] = counted[d]
    BY <2>1 DEF TypeOK
  <2>7. \A d \in Buckets : IsFiniteSet(counted'[d]) /\ Cardinality(counted'[d]) <= Limit
    BY <2>5, <2>6 DEF LimitInv
  <2> QED BY <1>4, <2>7 DEF Slide, LimitInv
<1>5. CASE UNCHANGED vars
  BY <1>1, <1>5 DEF vars, LimitKept, limitVars
<1> QED BY <1>2, <1>3, <1>4, <1>5 DEF Next

-----------------------------------------------------------------------------
(* Types.                                                                  *)

LEMMA SameEndpoint ==
    ASSUME NEW r \in Request, HandlerStep(r), ~Arrive(r)
    PROVE  /\ endpoint' = endpoint /\ at[r] # "new"
           /\ \E place \in Place : /\ at' = [at EXCEPT ![r] = place]
                                   /\ place = "hit" => endpoint[r] \in Costly
                                   /\ place # "new"
<1> USE DEF Return, Answer, Goto, LogAndReturn, Place
<1>1. CASE BodyTooLarge(r) \/ Refuse(r) \/ Read(r) \/ Admit(r)
  BY <1>1 DEF BodyTooLarge, Refuse, Read, Admit
<1>2. CASE Hit(r) \/ LimiterFails(r) \/ Deny(r) \/ Study(r)
  BY <1>2 DEF Hit, LimiterFails, Deny, Study
<1>3. CASE Search(r) \/ StudyAnswers(r)
  BY <1>3 DEF Search, StudyAnswers
<1>4. CASE Crash(r) \/ Finish(r) \/ Unexpected(r)
  BY <1>4 DEF Crash, Finish, Unexpected
<1>5. CASE HandlerTimeout(r) \/ MiddlewareTimeout(r)
  BY <1>5 DEF HandlerTimeout, MiddlewareTimeout
<1> QED BY <1>1, <1>2, <1>3, <1>4, <1>5 DEF HandlerStep

LEMMA LateKept ==
    ASSUME NEW r \in Request, HandlerStep(r)
    PROVE  late' = late
<1>1. CASE \/ Arrive(r) \/ BodyTooLarge(r) \/ Refuse(r) \/ Read(r) \/ Admit(r)
           \/ Hit(r) \/ LimiterFails(r) \/ Deny(r)
  BY <1>1 DEF Arrive, BodyTooLarge, Refuse, Read, Admit, Hit, LimiterFails, Deny
<1>2. CASE \/ Search(r) \/ Study(r) \/ StudyAnswers(r) \/ Crash(r) \/ Finish(r)
           \/ Unexpected(r) \/ HandlerTimeout(r) \/ MiddlewareTimeout(r)
  BY <1>2 DEF Search, Study, StudyAnswers, Crash, Finish, Unexpected,
              HandlerTimeout, MiddlewareTimeout
<1> QED BY <1>1, <1>2 DEF HandlerStep

LEMMA PlaceStep == TypeOK /\ PlaceInv /\ [Next]_vars => PlaceInv'
<1> SUFFICES ASSUME TypeOK, PlaceInv, [Next]_vars, NEW q \in Request
             PROVE  PlaceOf(q)'
  BY DEF PlaceInv
<1> USE DEF PlaceOf
<1> PlaceOf(q)
  BY DEF PlaceInv
<1>1. CASE UNCHANGED <<endpoint, at>> /\ (at[q] = "new" => q \notin late')
  BY <1>1
<1>2. ASSUME NEW r \in Request, HandlerStep(r) PROVE PlaceOf(q)'
  <2>1. CASE Arrive(r)
    <3>1. CASE q = r
      BY <2>1, <3>1, LateKept, <1>2 DEF Arrive, Answer, TypeOK
    <3>2. CASE q # r
      BY <2>1, <3>2, LateKept, <1>2 DEF Arrive, Answer, TypeOK
    <3> QED BY <3>1, <3>2
  <2>2. CASE ~Arrive(r)
    BY <1>2, <2>2, SameEndpoint, LateKept DEF TypeOK, PlaceInv, Costly, Endpoint
  <2> QED BY <2>1, <2>2
<1>3. CASE \E r \in Request : Expire(r)
  BY <1>1, <1>3 DEF Expire, handlerVars, Waiting
<1>4. CASE \E b \in Buckets : Slide(b)
  BY <1>1, <1>4 DEF Slide, handlerVars
<1>5. CASE UNCHANGED vars
  BY <1>1, <1>5 DEF vars
<1> QED BY <1>2, <1>3, <1>4, <1>5 DEF Next

LogTypeOK ==
    /\ at \in [Request -> Place]
    /\ reply \in [Request -> Status \cup {NoReply}]
    /\ attempted \in SUBSET Request
    /\ inserts \in [Request -> Nat]
    /\ outcome \in [Request -> Outcome \cup {NoOutcome}]

LEMMA LogTyped ==
    ASSUME TypeOK, PlaceInv, NEW r \in Request, HandlerStep(r)
    PROVE  LogTypeOK'
<1> USE DEF TypeOK, LogTypeOK
<1>1. BodyError \in Status /\ 504 \in Status
      /\ \A o \in Outcome : StatusOf(o) \in Status
  BY StatusTyped
<1>2. {"returning", "answered"} \subseteq Place /\ Open \subseteq Place
  BY DEF Open, Place
<1> HIDE DEF Place, Status, Outcome, BodyError, NoReply, NoOutcome
<1>3. CASE Moves(r)
  BY <1>2, <1>3 DEF Moves, logVars
<1>4. CASE Decides(r)
  <2>1. PICK o \in Outcome : Log(r, o) /\ Return(r, StatusOf(o))
    BY <1>4 DEF Decides, LogAndReturn
  <2>2. at' \in [Request -> Place] /\ reply' \in [Request -> Status \cup {NoReply}]
    BY <1>1, <1>2, <2>1 DEF Return
  <2> QED BY <2>1, <2>2, LogEffect
<1>5. CASE Refuses(r)
  <2>1. PICK o \in Outcome : Log(r, o) /\ Answer(r, StatusOf(o))
    BY <1>5 DEF Refuses
  <2>2. at' \in [Request -> Place] /\ reply' \in [Request -> Status \cup {NoReply}]
    BY <1>1, <1>2, <2>1 DEF Answer
  <2> QED BY <2>1, <2>2, LogEffect
<1>6. CASE BodyFails(r)
  BY <1>1, <1>2, <1>6 DEF BodyFails, Return, logVars
<1>7. CASE Finishes(r)
  BY <1>2, <1>7 DEF Finishes, logVars
<1>8. CASE Overtakes(r)
  <2>1. "timeout" \in Outcome
    BY DEF Outcome
  <2>2. at' \in [Request -> Place] /\ reply' \in [Request -> Status \cup {NoReply}]
    BY <1>1, <1>2, <1>8 DEF Overtakes, Answer
  <2> QED BY <1>8, <2>1, <2>2, LogEffect DEF Overtakes
<1> QED BY <1>3, <1>4, <1>5, <1>6, <1>7, <1>8, StepKinds

LimitTypeOK ==
    /\ counted \in [Buckets -> SUBSET Request]
    /\ allowed \in SUBSET Request
    /\ charged \in SUBSET Request
    /\ served \in SUBSET Request

LEMMA TypeStep == TypeOK /\ PlaceInv /\ [Next]_vars => TypeOK'
<1> SUFFICES ASSUME TypeOK, PlaceInv, [Next]_vars PROVE TypeOK'
  OBVIOUS
<1>1. ASSUME NEW r \in Request, HandlerStep(r) PROVE TypeOK'
  <2>1. LogTypeOK'
    BY <1>1, LogTyped
  <2>2. LimitTypeOK'
    <3>1. CASE LimitKept
      BY <3>1 DEF LimitKept, LimitTypeOK, limitVars, TypeOK
    <3>2. CASE Spends(r) /\ Bucket(r) \in Buckets
      BY <3>2, ChargeTyped DEF Spends, LimitTypeOK, TypeOK
    <3>3. CASE Serves(r)
      BY <3>3 DEF Serves, LimitTypeOK, limitVars, TypeOK
    <3> QED BY <1>1, <3>1, <3>2, <3>3, ChargesCostly
  <2>3. late' = late
    BY <1>1, LateKept
  <2>4. /\ endpoint' \in [Request -> Endpoint \cup {NoEndpoint}]
        /\ \A q \in late : endpoint'[q] = "study"
    <3>1. CASE Arrive(r)
      <4>1. PICK e \in Endpoint : endpoint' = [endpoint EXCEPT ![r] = e]
        BY <3>1 DEF Arrive
      <4>2. r \notin late
        BY <3>1 DEF Arrive, PlaceInv, PlaceOf
      <4> QED BY <4>1, <4>2 DEF TypeOK
    <3>2. CASE ~Arrive(r)
      BY <1>1, <3>2, SameEndpoint DEF TypeOK
    <3> QED BY <3>1, <3>2
  <2> QED BY <2>1, <2>2, <2>3, <2>4 DEF LogTypeOK, LimitTypeOK, TypeOK
<1>2. CASE \E r \in Request : Expire(r)
  BY <1>2 DEF Expire, handlerVars, limitVars, logVars, TypeOK
<1>3. CASE \E b \in Buckets : Slide(b)
  BY <1>3 DEF Slide, handlerVars, logVars, TypeOK
<1>4. CASE UNCHANGED vars
  BY <1>4 DEF vars, TypeOK
<1> QED BY <1>1, <1>2, <1>3, <1>4 DEF Next

-----------------------------------------------------------------------------
(* The theorems.                                                           *)

LEMMA Inductive == Spec => []IInv
<1>1. Init => IInv
  <2> SUFFICES ASSUME Init PROVE IInv
    OBVIOUS
  <2>1. TypeOK
    BY DEF Init, TypeOK, Place
  <2>2. PlaceInv
    BY DEF Init, PlaceInv, PlaceOf
  <2>3. LogInv
    BY DEF Init, LogInv, LogOf, Open
  <2>4. LimitInv
    BY FS_EmptySet, RequestAssumption DEF Init, LimitInv
  <2> QED BY <2>1, <2>2, <2>3, <2>4 DEF IInv
<1>2. IInv /\ [Next]_vars => IInv'
  BY TypeStep, PlaceStep, LogStep, LimitStep DEF IInv
<1> QED BY <1>1, <1>2, PTL DEF Spec

(* Every variable keeps its type.                                          *)
THEOREM TypeCorrect == Spec => []TypeOK
<1>1. IInv => TypeOK
  BY DEF IInv
<1> QED BY <1>1, Inductive, PTL

(* No search or study runs without a hit the limiter's backend admitted,   *)
(* and no more of them than the limit among the hits a window counts.      *)
THEOREM ServiceIsPaidFor == Spec => []NoFreeService
<1>1. IInv => NoFreeService
  <2> SUFFICES ASSUME IInv, NEW b \in Buckets
               PROVE  Cardinality(served \cap counted[b]) <= Limit
    BY DEF NoFreeService, IInv, LimitInv
  <2>1. IsFiniteSet(counted[b]) /\ Cardinality(counted[b]) <= Limit
    BY DEF IInv, LimitInv
  <2>2. served \cap counted[b] \subseteq counted[b]
    OBVIOUS
  <2>3. /\ IsFiniteSet(served \cap counted[b])
        /\ Cardinality(served \cap counted[b]) <= Cardinality(counted[b])
    BY <2>1, <2>2, FS_Subset
  <2>4. Cardinality(served \cap counted[b]) \in Nat /\ Cardinality(counted[b]) \in Nat
    BY <2>1, <2>3, FS_CardinalityType
  <2> QED BY <2>1, <2>3, <2>4, RequestAssumption
<1> QED BY <1>1, Inductive, PTL

(* No request has two rows in the usage log.                               *)
THEOREM LoggedOnce == Spec => []OneRow
<1>1. IInv => OneRow
  BY DEF IInv, LogInv, LogOf, OneRow
<1> QED BY <1>1, Inductive, PTL

(* No operation is answered without the usage log having been tried.       *)
THEOREM AnswersAreLogged == Spec => []EveryAnswerLogged
<1>1. IInv => EveryAnswerLogged
  BY DEF IInv, LogInv, LogOf, EveryAnswerLogged
<1> QED BY <1>1, Inductive, PTL

(* A row tells what the client was told, but for a study past its deadline.*)
THEOREM RowsAreTrue == Spec => []RowTellsAnswer
<1>1. IInv => RowTellsAnswer
  BY DEF IInv, LogInv, LogOf, RowTellsAnswer
<1> QED BY <1>1, Inductive, PTL

(* The usage log is honest: one row at most, none forgotten, none untrue.  *)
THEOREM UsageLogSafety == Spec => []UsageLogHonest
<1> QED
  BY LoggedOnce, AnswersAreLogged, RowsAreTrue, PTL DEF UsageLogHonest

-----------------------------------------------------------------------------
(* A bound on the steps of a request.                                      *)

(* How many steps a request may still take from a place. *)
Ahead(place) ==
    CASE place = "new" -> 6 [] place = "body" -> 5 [] place = "hit" -> 4
      [] place = "stats" -> 3 [] place = "serving" -> 2
      [] place \in {"returning", "raising"} -> 1 [] place = "answered" -> 0

StepsLeft(r) == Ahead(at[r]) + (IF r \in late THEN 0 ELSE 1)

(* What a request is, has been told and has left in the usage log. *)
Kept(q) ==
    /\ endpoint'[q] = endpoint[q] /\ at'[q] = at[q] /\ reply'[q] = reply[q]
    /\ inserts'[q] = inserts[q] /\ outcome'[q] = outcome[q]
    /\ q \in late' <=> q \in late
    /\ q \in attempted' <=> q \in attempted
    /\ q \in served' <=> q \in served

Advances(r) ==
    \/ Kept(r)
    \/ StepsLeft(r)' < StepsLeft(r) /\ \A q \in Request \ {r} : Kept(q)

LEMMA HandlerAdvances ==
    ASSUME TypeOK, NEW r \in Request, HandlerStep(r)
    PROVE  \E place \in Place : /\ at' = [at EXCEPT ![r] = place]
                                /\ Ahead(place) < Ahead(at[r])
<1> USE DEF Return, Answer, Goto, LogAndReturn, Place, Ahead
<1>1. CASE Arrive(r)
  BY <1>1 DEF Arrive
<1>2. CASE BodyTooLarge(r) \/ Refuse(r) \/ Read(r) \/ Admit(r)
  BY <1>2 DEF BodyTooLarge, Refuse, Read, Admit
<1>3. CASE Hit(r) \/ LimiterFails(r) \/ Deny(r) \/ Study(r)
  BY <1>3 DEF Hit, LimiterFails, Deny, Study
<1>4. CASE Search(r) \/ StudyAnswers(r)
  BY <1>4 DEF Search, StudyAnswers
<1>5. CASE Crash(r) \/ Finish(r) \/ Unexpected(r)
  BY <1>5 DEF Crash, Finish, Unexpected
<1>6. CASE HandlerTimeout(r) \/ MiddlewareTimeout(r)
  BY <1>6 DEF HandlerTimeout, MiddlewareTimeout
<1> QED BY <1>1, <1>2, <1>3, <1>4, <1>5, <1>6 DEF HandlerStep

(* Of the other requests a step changes nothing but what the limiter has   *)
(* left for them.                                                          *)
LEMMA OthersKept ==
    ASSUME TypeOK, NEW r \in Request, NEW q \in Request \ {r}, HandlerStep(r)
    PROVE  Kept(q)
<1>1. at'[q] = at[q]
  BY HandlerAdvances DEF TypeOK
<1>2. late' = late
  BY LateKept
<1>3. endpoint'[q] = endpoint[q]
  <2>1. CASE Arrive(r)
    BY <2>1 DEF Arrive, TypeOK
  <2> QED BY <2>1, SameEndpoint
<1>4. q \in served' <=> q \in served
  <2>1. CASE \/ Arrive(r) \/ BodyTooLarge(r) \/ Refuse(r) \/ Read(r) \/ Admit(r)
             \/ Hit(r) \/ LimiterFails(r) \/ Deny(r)
    BY <2>1 DEF Arrive, BodyTooLarge, Refuse, Read, Admit, Hit, LimiterFails, Deny
  <2>2. CASE \/ Search(r) \/ Study(r) \/ StudyAnswers(r) \/ Crash(r) \/ Finish(r)
             \/ Unexpected(r) \/ HandlerTimeout(r) \/ MiddlewareTimeout(r)
    BY <2>2 DEF Search, Study, StudyAnswers, Crash, Finish, Unexpected,
                HandlerTimeout, MiddlewareTimeout
  <2> QED BY <2>1, <2>2 DEF HandlerStep
<1>5. /\ reply'[q] = reply[q] /\ inserts'[q] = inserts[q] /\ outcome'[q] = outcome[q]
      /\ q \in attempted' <=> q \in attempted
  <2> USE DEF TypeOK, Log, Insert, Return, Answer, Goto, LogAndReturn, logVars
  <2>1. CASE Arrive(r) \/ BodyTooLarge(r)
    BY <2>1 DEF Arrive, BodyTooLarge
  <2>2. CASE Refuse(r) \/ Read(r) \/ Admit(r) \/ Hit(r)
    BY <2>2 DEF Refuse, Read, Admit, Hit
  <2>3. CASE LimiterFails(r) \/ Deny(r) \/ Study(r) \/ Crash(r) \/ Finish(r)
    BY <2>3 DEF LimiterFails, Deny, Study, Crash, Finish
  <2>4. CASE Search(r) \/ StudyAnswers(r)
    BY <2>4 DEF Search, StudyAnswers
  <2>5. CASE Unexpected(r) \/ HandlerTimeout(r) \/ MiddlewareTimeout(r)
    BY <2>5 DEF Unexpected, HandlerTimeout, MiddlewareTimeout
  <2> QED BY <2>1, <2>2, <2>3, <2>4, <2>5 DEF HandlerStep
<1> QED BY <1>1, <1>2, <1>3, <1>4, <1>5 DEF Kept

(* A step is of one request at most and brings that one nearer to its      *)
(* answer, of which it is never more than seven steps away; nobody else's  *)
(* place, answer, deadline or row changes.                                 *)
THEOREM RequestsAdvance ==
    Spec => /\ [](\A r \in Request : StepsLeft(r) \in 0..7)
            /\ [][\A r \in Request : Advances(r)]_vars
<1>1. ASSUME TypeOK, NEW r \in Request, HandlerStep(r)
      PROVE  \A q \in Request : Advances(q)
  <2>1. PICK place \in Place : at' = [at EXCEPT ![r] = place]
                               /\ Ahead(place) < Ahead(at[r])
    BY <1>1, HandlerAdvances
  <2>2. late' = late
    BY <1>1, LateKept
  <2>3. StepsLeft(r)' < StepsLeft(r)
    <3>1. at[r] \in Place /\ at'[r] = place
      BY <1>1, <2>1 DEF TypeOK
    <3>2. Ahead(place) \in Nat /\ Ahead(at[r]) \in Nat
      BY <3>1 DEF Ahead, Place
    <3> QED BY <2>1, <2>2, <3>1, <3>2 DEF StepsLeft
  <2>4. \A q \in Request \ {r} : Kept(q)
    BY <1>1, OthersKept
  <2> QED BY <2>3, <2>4 DEF Advances
<1>2. ASSUME TypeOK, NEW r \in Request, Expire(r)
      PROVE  \A q \in Request : Advances(q)
  <2>1. /\ UNCHANGED <<endpoint, at, reply, inserts, outcome, attempted, served>>
        /\ late' = late \cup {r} /\ r \notin late
    BY <1>2 DEF Expire, handlerVars, logVars
  <2>2. StepsLeft(r)' < StepsLeft(r)
    <3>1. Ahead(at[r]) \in Nat
      BY <1>2 DEF TypeOK, Ahead, Place
    <3> QED BY <2>1, <3>1 DEF StepsLeft
  <2>3. \A q \in Request \ {r} : Kept(q)
    BY <2>1 DEF Kept
  <2> QED BY <2>2, <2>3 DEF Advances
<1>3. ASSUME NEW b \in Buckets, Slide(b)
      PROVE  \A q \in Request : Advances(q)
  BY <1>3 DEF Slide, handlerVars, logVars, Kept, Advances
<1>4. TypeOK /\ [Next]_vars => [\A r \in Request : Advances(r)]_vars
  BY <1>1, <1>2, <1>3 DEF Next
<1>5. TypeOK => \A r \in Request : StepsLeft(r) \in 0..7
  <2> SUFFICES ASSUME TypeOK, NEW r \in Request PROVE StepsLeft(r) \in 0..7
    OBVIOUS
  <2>1. Ahead(at[r]) \in 0..6
    BY DEF TypeOK, Ahead, Place
  <2> QED BY <2>1 DEF StepsLeft
<1> QED BY <1>4, <1>5, TypeCorrect, PTL DEF Spec

=============================================================================
