---------------------------- MODULE IngestPromise ----------------------------
(***************************************************************************)
(* What asynchronous ingestion promises to whoever submits a job           *)
(* (POST /admin/ingest, README "Ingestion"): a job that was sent is owed   *)
(* until a worker acknowledges it or it is buried in the dead-letter       *)
(* queue; it is acknowledged only after some delivery applied it; and the  *)
(* index changes only by whole upserts, each of the chunks of one          *)
(* conversion of one paper.  Queue, workers, crashes and the object store  *)
(* are not visible here.                                                   *)
(***************************************************************************)
CONSTANTS
    Job, Paper, Version, Chunk,
    PaperOf,      \* [Job -> Paper]
    ChunksOf,     \* [Paper -> [Version -> SUBSET Chunk]]
    NotApplied,   \* no delivery of the job has been applied
    Empty         \* outcomes of deliveries that had nothing to index

VARIABLES phase, rows, applied

promiseVars == <<phase, rows, applied>>

NoRow == <<>>

Upsert(p, v) ==
    [c \in Chunk |-> IF c \in ChunksOf[p][v] THEN <<p, v>> ELSE rows[c]]

Init ==
    /\ phase = [j \in Job |-> "unsent"]
    /\ rows = [c \in Chunk |-> NoRow]
    /\ applied = [j \in Job |-> NotApplied]

Send(j) ==
    /\ phase[j] = "unsent"
    /\ phase' = [phase EXCEPT ![j] = "owed"]
    /\ UNCHANGED <<rows, applied>>

(* Duplicate deliveries apply a job again, even after it was acknowledged. *)
Apply(j, v) ==
    /\ phase[j] # "unsent"
    /\ rows' = Upsert(PaperOf[j], v)
    /\ applied' = [applied EXCEPT ![j] = v]
    /\ UNCHANGED phase

ApplyNothing(j) ==
    /\ phase[j] # "unsent"
    /\ applied[j] = NotApplied
    /\ \E why \in Empty : applied' = [applied EXCEPT ![j] = why]
    /\ UNCHANGED <<phase, rows>>

Acknowledge(j) ==
    /\ phase[j] = "owed"
    /\ applied[j] # NotApplied
    /\ phase' = [phase EXCEPT ![j] = "acknowledged"]
    /\ UNCHANGED <<rows, applied>>

Bury(j) ==
    /\ phase[j] = "owed"
    /\ phase' = [phase EXCEPT ![j] = "dead"]
    /\ UNCHANGED <<rows, applied>>

Next == \E j \in Job :
    \/ Send(j)
    \/ \E v \in Version : Apply(j, v)
    \/ ApplyNothing(j)
    \/ Acknowledge(j)
    \/ Bury(j)

Spec == Init /\ [][Next]_promiseVars

=============================================================================
