---------------------------- MODULE IngestWorker ----------------------------
(***************************************************************************)
(* Asynchronous ingestion end to end: POST /admin/ingest (src/main.py),    *)
(* the queue (JobQueue), the worker loop (src/worker/runner.py) and the    *)
(* job handler (src/worker/handler.py), which fetches the PDF from the     *)
(* object store, converts it, uploads the artifacts in a fixed order with  *)
(* the manifest last, and indexes the chunks in one database transaction   *)
(* before it creates the metadata indexes in another.                      *)
(*                                                                         *)
(* Several workers may be up at once: a rolling deployment starts the new  *)
(* task before it stops the old one, and a job longer than the visibility  *)
(* timeout is handed out again while its first delivery still runs.        *)
(***************************************************************************)
EXTENDS JobQueue, Sequences, FiniteSets

CONSTANTS
    Worker,       \* worker processes
    Malformed,    \* messages whose body is no valid IngestJobMessage
    Paper,        \* papers: a collection and a PDF file name
    Version,      \* contents a paper's PDF object may have
    RunId,        \* artifact namespaces, artifacts/mineru/<run id>/
    Chunk,        \* chunk rows: a collection and a chunk_id
    PaperOf,      \* [Job -> Paper]: the paper a job names
    RunOf,        \* [Paper -> RunId]: conversion_run_id_from_stem
    ChunksOf,     \* [Paper -> [Version -> SUBSET Chunk]]: what a run extracts
    NoJob, NotApplied,
    NoQuestions, ParserRaised, \* why a run may have no chunks to index
    MaxFaults     \* bound: deliveries that may meet a fault

ASSUME WorkerAssumption ==
    /\ Malformed \subseteq Job
    /\ NoJob \notin Job
    /\ {NotApplied, NoQuestions, ParserRaised} \cap Version = {}
    /\ NotApplied \notin {NoQuestions, ParserRaised}
    /\ PaperOf \in [Job -> Paper]
    /\ RunOf \in [Paper -> RunId]
    /\ ChunksOf \in [Paper -> [Version -> SUBSET Chunk]]
    /\ MaxFaults \in Nat

VARIABLES
    reply,        \* the submitter's answer: none, accepted or unavailable
    pdf,          \* the object store's source PDF of each paper
    objects,      \* uploaded artifacts: kind, run id -> the conversions stored
    rows,         \* the committed chunk rows, with the conversion they are of
    pc,           \* each worker's place in run_worker and the handler
    job, receipt, \* the delivery a worker is on
    version,      \* the PDF content that delivery fetched
    puts,         \* how many upload stages that delivery has finished
    stop,         \* run_worker's stop_event
    done,         \* history: what a delivery of the job has applied
    fault         \* history: the deliveries that met a fault

localVars == <<pc, job, receipt, version, puts>>
vars == <<status, receives, reply, pdf, objects, rows, pc, job, receipt,
          version, puts, stop, done, fault>>

Busy == {"fetch", "convert", "upload", "parse", "index", "ddl", "ack"}
Place == Busy \cup {"off", "loop", "receive"}

(* storage/conversion.py puts the objects of a paper in this order.  The   *)
(* source PDF and the images are named by their content, so a put adds an  *)
(* object; the other keys are fixed per run id, so a put replaces it.      *)
UploadOrder_ManifestFirst == <<"manifest", "blob", "content_list", "markdown", "images">>
UploadOrder == <<"blob", "content_list", "markdown", "images", "manifest">>
Kind == {"blob", "content_list", "markdown", "images", "manifest"}
ContentAddressed == {"blob", "images"}

Empty == {NoQuestions, ParserRaised}
Conversion == Paper \X Version
NoRow == <<>>

(* The conversion a worker's delivery is producing. *)
Converted(w) == <<PaperOf[job[w]], version[w]>>
Delivery(w) == <<job[w], receipt[w]>>
Held(d) == \E w \in Worker : pc[w] \in Busy /\ Delivery(w) = d

(* Bound: a fault hits a delivery already hit, or one more of MaxFaults. *)
MayFault(d) == d \in fault \/ Cardinality(fault) < MaxFaults

TypeOK ==
    /\ QueueTypeOK
    /\ reply \in [Job -> {"none", "accepted", "unavailable"}]
    /\ pdf \in [Paper -> Version]
    /\ objects \in [Kind -> [RunId -> SUBSET Conversion]]
    /\ rows \in [Chunk -> Conversion \cup {NoRow}]
    /\ pc \in [Worker -> Place]
    /\ job \in [Worker -> Job \cup {NoJob}]
    /\ receipt \in [Worker -> 0..MaxReceive]
    /\ version \in [Worker -> Version \cup {NotApplied}]
    /\ puts \in [Worker -> 0..Len(UploadOrder)]
    /\ stop \in [Worker -> BOOLEAN]
    /\ done \in [Job -> Version \cup Empty \cup {NotApplied}]
    /\ fault \subseteq Job \X (1..MaxReceive)

Init ==
    /\ QueueInit
    /\ reply = [j \in Job |-> "none"]
    /\ pdf \in [Paper -> Version]
    /\ objects = [k \in Kind |-> [r \in RunId |-> {}]]
    /\ rows = [c \in Chunk |-> NoRow]
    /\ pc = [w \in Worker |-> "off"]
    /\ job = [w \in Worker |-> NoJob]
    /\ receipt = [w \in Worker |-> 0]
    /\ version = [w \in Worker |-> NotApplied]
    /\ puts = [w \in Worker |-> 0]
    /\ stop = [w \in Worker |-> FALSE]
    /\ done = [j \in Job |-> NotApplied]
    /\ fault = {}

-----------------------------------------------------------------------------
(* Submitters and the operator.                                            *)

(* admin_ingest past its checks: the 202 answer follows the enqueue.  When *)
(* the enqueue raises, the 503 leaves open whether SQS took the message.   *)
Submit(j) ==
    /\ j \notin Malformed
    /\ reply[j] = "none"
    /\ \/ Enqueue(j) /\ reply' = [reply EXCEPT ![j] = "accepted"]
       \/ Enqueue(j) /\ reply' = [reply EXCEPT ![j] = "unavailable"]
       \/ UNCHANGED queueVars /\ reply' = [reply EXCEPT ![j] = "unavailable"]
    /\ UNCHANGED <<pdf, objects, rows, localVars, stop, done, fault>>

(* A message from another producer whose body fails validation. *)
SendMalformed(j) ==
    /\ j \in Malformed
    /\ Enqueue(j)
    /\ UNCHANGED <<reply, pdf, objects, rows, localVars, stop, done, fault>>

(* The operator stores a corrected PDF under the same object key. *)
ReplacePdf(p) ==
    /\ \E v \in Version \ {pdf[p]} : pdf' = [pdf EXCEPT ![p] = v]
    /\ UNCHANGED <<queueVars, reply, objects, rows, localVars, stop, done, fault>>

(* The visibility timeout passes, whether or not a worker is still on it.  *)
ExpireVisibility(j) ==
    LET d == <<j, receives[j]>> IN
    /\ ShowAgain(j)
    /\ \/ Held(d) /\ MayFault(d) /\ fault' = fault \cup {d}
       \/ ~Held(d) /\ UNCHANGED fault
    /\ UNCHANGED <<reply, pdf, objects, rows, localVars, stop, done>>

-----------------------------------------------------------------------------
(* The worker process: run_worker's loop.                                  *)

Goto(w, place) == pc' = [pc EXCEPT ![w] = place]

Take(w, j, n) ==
    /\ job' = [job EXCEPT ![w] = j]
    /\ receipt' = [receipt EXCEPT ![w] = n]
    /\ UNCHANGED <<version, puts>>

(* The delivery is over and its temporary workspace is gone. *)
Release(w) ==
    /\ job' = [job EXCEPT ![w] = NoJob]
    /\ receipt' = [receipt EXCEPT ![w] = 0]
    /\ version' = [version EXCEPT ![w] = NotApplied]
    /\ puts' = [puts EXCEPT ![w] = 0]

(* Autoscaling keeps a task up while messages are queued or in flight. *)
Start(w) ==
    /\ pc[w] = "off"
    /\ \E j \in Job : status[j] \in {"visible", "inflight"}
    /\ Goto(w, "loop")
    /\ stop' = [stop EXCEPT ![w] = FALSE]
    /\ UNCHANGED <<queueVars, reply, pdf, objects, rows, job, receipt, version,
                   puts, done, fault>>

(* install_sigterm_handler: the signal only sets the event. *)
Sigterm(w) ==
    /\ pc[w] # "off"
    /\ ~stop[w]
    /\ stop' = [stop EXCEPT ![w] = TRUE]
    /\ UNCHANGED <<queueVars, reply, pdf, objects, rows, localVars, done, fault>>

(* while not stop.is_set(): the event is looked at between jobs only. *)
LeaveLoop(w) ==
    /\ pc[w] = "loop"
    /\ stop[w]
    /\ Goto(w, "off")
    /\ UNCHANGED <<queueVars, reply, pdf, objects, rows, job, receipt, version,
                   puts, stop, done, fault>>

EnterReceive_IgnoresStop(w) ==
    /\ pc[w] = "loop"
    /\ Goto(w, "receive")
    /\ UNCHANGED <<queueVars, reply, pdf, objects, rows, job, receipt, version,
                   puts, stop, done, fault>>

EnterReceive(w) ==
    /\ pc[w] = "loop"
    /\ ~stop[w]
    /\ Goto(w, "receive")
    /\ UNCHANGED <<queueVars, reply, pdf, objects, rows, job, receipt, version,
                   puts, stop, done, fault>>

EmptyReceive(w) ==
    /\ pc[w] = "receive"
    /\ Goto(w, "loop")
    /\ UNCHANGED <<queueVars, reply, pdf, objects, rows, job, receipt, version,
                   puts, stop, done, fault>>

Receive_StopDropsJob(w, j) ==
    /\ pc[w] = "receive"
    /\ HandOut(j)
    /\ \/ /\ j \in Malformed \/ stop[w]
          /\ Goto(w, "loop")
          /\ UNCHANGED <<job, receipt, version, puts>>
       \/ /\ j \notin Malformed /\ ~stop[w]
          /\ Goto(w, "fetch")
          /\ Take(w, j, receives[j] + 1)
    /\ UNCHANGED <<reply, pdf, objects, rows, stop, done, fault>>

Receive_RequeuesPoison(w, j) ==
    /\ pc[w] = "receive"
    /\ \/ /\ j \in Malformed
          /\ status[j] = "visible"
          /\ Goto(w, "loop")
          /\ UNCHANGED <<queueVars, job, receipt, version, puts>>
       \/ /\ j \notin Malformed
          /\ HandOut(j)
          /\ Goto(w, "fetch")
          /\ Take(w, j, receives[j] + 1)
    /\ UNCHANGED <<reply, pdf, objects, rows, stop, done, fault>>

(* A malformed body raises IngestJobDecodeError: logged and left alone. *)
Receive(w, j) ==
    /\ pc[w] = "receive"
    /\ HandOut(j)
    /\ \/ /\ j \in Malformed
          /\ Goto(w, "loop")
          /\ UNCHANGED <<job, receipt, version, puts>>
       \/ /\ j \notin Malformed
          /\ Goto(w, "fetch")
          /\ Take(w, j, receives[j] + 1)
    /\ UNCHANGED <<reply, pdf, objects, rows, stop, done, fault>>

(* The broker hands a message out but the call raises at the worker: only  *)
(* the decode error is caught, so the exception ends the process.          *)
ReceiveLost(w, j) ==
    LET d == <<j, receives[j] + 1>> IN
    /\ pc[w] = "receive"
    /\ HandOut(j)
    /\ MayFault(d)
    /\ fault' = fault \cup {d}
    /\ Goto(w, "off")
    /\ UNCHANGED <<reply, pdf, objects, rows, job, receipt, version, puts, stop,
                   done>>

(* A receive call makes the broker bury a message that has had its strikes. *)
DeadLetter(w, j) ==
    /\ pc[w] = "receive"
    /\ Redrive(j)
    /\ UNCHANGED <<reply, pdf, objects, rows, localVars, stop, done, fault>>

(* SIGKILL after the stop grace period, out of memory, a lost host. *)
Kill(w) ==
    /\ pc[w] # "off"
    /\ IF pc[w] \in Busy
       THEN MayFault(Delivery(w)) /\ fault' = fault \cup {Delivery(w)}
       ELSE UNCHANGED fault
    /\ Goto(w, "off")
    /\ Release(w)
    /\ UNCHANGED <<queueVars, reply, pdf, objects, rows, stop, done>>

-----------------------------------------------------------------------------
(* The job handler, one action per effect.                                 *)

(* Any step but the delete may raise: logged and left for redelivery. *)
Fail(w) ==
    /\ pc[w] \in Busy \ {"ack"}
    /\ MayFault(Delivery(w))
    /\ fault' = fault \cup {Delivery(w)}
    /\ Goto(w, "loop")
    /\ Release(w)
    /\ UNCHANGED <<queueVars, reply, pdf, objects, rows, stop, done>>

Fetch(w) ==
    /\ pc[w] = "fetch"
    /\ version' = [version EXCEPT ![w] = pdf[PaperOf[job[w]]]]
    /\ Goto(w, "convert")
    /\ UNCHANGED <<queueVars, reply, pdf, objects, rows, job, receipt, puts,
                   stop, done, fault>>

(* MinerU writes into the delivery's workspace; the artifacts are found. *)
Convert(w) ==
    /\ pc[w] = "convert"
    /\ Goto(w, "upload")
    /\ UNCHANGED <<queueVars, reply, pdf, objects, rows, job, receipt, version,
                   puts, stop, done, fault>>

Stored(k, r, m) ==
    [objects EXCEPT ![k][r] = (IF k \in ContentAddressed THEN @ ELSE {}) \cup {m}]

UploadNext(w) ==
    LET n == puts[w] + 1 IN
    /\ pc[w] = "upload"
    /\ objects' = Stored(UploadOrder[n], RunOf[PaperOf[job[w]]], Converted(w))
    /\ puts' = [puts EXCEPT ![w] = n]
    /\ Goto(w, IF n = Len(UploadOrder) THEN "parse" ELSE "upload")
    /\ UNCHANGED <<queueVars, reply, pdf, rows, job, receipt, version, stop, done,
                   fault>>

(* run_pipeline yields chunks, and manifest, media, schema and embedding   *)
(* checks pass.                                                            *)
ParseChunks(w) ==
    /\ pc[w] = "parse"
    /\ Goto(w, "index")
    /\ UNCHANGED <<queueVars, reply, pdf, objects, rows, job, receipt, version,
                   puts, stop, done, fault>>

(* The paper has no questions, or the parser raised, which run_pipeline    *)
(* catches: with no chunks index_collection_postgres warns and returns as  *)
(* if it had worked.                                                       *)
ParseNothing(w) ==
    /\ pc[w] = "parse"
    /\ \E why \in Empty :
          done' = [done EXCEPT ![job[w]] = IF @ = NotApplied THEN why ELSE @]
    /\ Goto(w, "ack")
    /\ UNCHANGED <<queueVars, reply, pdf, objects, rows, job, receipt, version,
                   puts, stop, fault>>

Upsert_ReplacesPaper(p, v) ==
    [c \in Chunk |-> IF c \in ChunksOf[p][v] THEN <<p, v>>
                     ELSE IF rows[c] # NoRow /\ rows[c][1] = p THEN NoRow
                     ELSE rows[c]]

(* Rows of the chunk ids of this run are deleted and inserted again; rows  *)
(* of other chunk ids stay, also those of an earlier run of this paper.    *)
Upsert(p, v) ==
    [c \in Chunk |-> IF c \in ChunksOf[p][v] THEN <<p, v>> ELSE rows[c]]

IndexChunks_CommitsDeletes(w) ==
    LET mine == ChunksOf[PaperOf[job[w]]][version[w]] IN
    /\ pc[w] = "index"
    /\ IF \E c \in mine : rows[c] # NoRow
       THEN /\ rows' = [c \in Chunk |-> IF c \in mine THEN NoRow ELSE rows[c]]
            /\ UNCHANGED <<done, pc>>
       ELSE /\ rows' = Upsert(PaperOf[job[w]], version[w])
            /\ done' = [done EXCEPT ![job[w]] = version[w]]
            /\ Goto(w, "ddl")
    /\ UNCHANGED <<queueVars, reply, pdf, objects, job, receipt, version, puts,
                   stop, fault>>

(* index_chunks commits. *)
IndexChunks(w) ==
    /\ pc[w] = "index"
    /\ rows' = Upsert(PaperOf[job[w]], version[w])
    /\ done' = [done EXCEPT ![job[w]] = version[w]]
    /\ Goto(w, "ddl")
    /\ UNCHANGED <<queueVars, reply, pdf, objects, job, receipt, version, puts,
                   stop, fault>>

EnsureIndexes(w) ==
    /\ pc[w] = "ddl"
    /\ Goto(w, "ack")
    /\ UNCHANGED <<queueVars, reply, pdf, objects, rows, job, receipt, version,
                   puts, stop, done, fault>>

Ack_NeverDeletes(w) ==
    /\ pc[w] = "ack"
    /\ Goto(w, "loop")
    /\ Release(w)
    /\ UNCHANGED <<queueVars, reply, pdf, objects, rows, stop, done, fault>>

(* queue.delete; its failure is logged and redelivery runs the job again.  *)
Ack(w) ==
    /\ pc[w] = "ack"
    /\ \/ Delete(job[w], receipt[w]) /\ UNCHANGED fault
       \/ /\ UNCHANGED queueVars
          /\ MayFault(Delivery(w))
          /\ fault' = fault \cup {Delivery(w)}
    /\ Goto(w, "loop")
    /\ Release(w)
    /\ UNCHANGED <<reply, pdf, objects, rows, stop, done>>

-----------------------------------------------------------------------------

JobStep(w) ==
    \/ Fetch(w) \/ Convert(w) \/ UploadNext(w) \/ ParseChunks(w)
    \/ ParseNothing(w) \/ IndexChunks(w) \/ EnsureIndexes(w) \/ Ack(w)

WorkerNext(w) ==
    \/ Start(w) \/ Sigterm(w) \/ LeaveLoop(w) \/ EnterReceive(w)
    \/ EmptyReceive(w) \/ Kill(w)
    \/ \E j \in Job : Receive(w, j) \/ ReceiveLost(w, j) \/ DeadLetter(w, j)
    \/ Fail(w) \/ JobStep(w)

Next ==
    \/ \E j \in Job : Submit(j) \/ SendMalformed(j) \/ ExpireVisibility(j)
    \/ \E p \in Paper : ReplacePdf(p)
    \/ \E w \in Worker : WorkerNext(w)

Spec == Init /\ [][Next]_vars

(* A live worker keeps running and MinerU returns; the visibility timeout  *)
(* passes; ECS starts the task the autoscaling asks for.  Stops and        *)
(* crashes may hit a worker again and again, but not every worker before   *)
(* its first receive call, and the broker does not pass a waiting message  *)
(* over forever.                                                           *)
Fairness ==
    /\ \A w \in Worker :
        /\ WF_vars(Start(w)) /\ WF_vars(LeaveLoop(w)) /\ WF_vars(EmptyReceive(w))
        /\ WF_vars(JobStep(w))
        /\ SF_vars(EnterReceive(w))
    /\ \A j \in Job :
        /\ WF_vars(ExpireVisibility(j))
        /\ SF_vars(\E w \in Worker : Receive(w, j))
        /\ SF_vars(\E w \in Worker : DeadLetter(w, j))

FairSpec == Spec /\ Fairness

-----------------------------------------------------------------------------
(* Safety.                                                                 *)

(* A message the worker deleted had been applied: some delivery of it      *)
(* committed its chunks, or found nothing to index.  No crash, stale       *)
(* receipt or duplicate delivery acknowledges a job that was not run       *)
(* (runner.py deletes only after handle returned).                         *)
AckedMeansApplied ==
    \A j \in Job : status[j] = "deleted" => done[j] # NotApplied

(* What a job committed stays searchable: as long as nobody recreates the  *)
(* collection, every chunk row the job wrote is there, in this or a later  *)
(* content, whatever other deliveries do to the same or other papers.      *)
AppliedStaysSearchable ==
    \A j \in Job : done[j] \in Version =>
        \A c \in ChunksOf[PaperOf[j]][done[j]] : rows[c] # NoRow

(* Every committed row's media references name objects that are stored:    *)
(* the handler uploads all artifacts before it indexes, also when two jobs *)
(* share an artifact namespace and overwrite each other's fixed keys.      *)
MediaResolvable ==
    \A c \in Chunk : rows[c] # NoRow =>
        rows[c] \in objects["images"][RunOf[rows[c][1]]]

(* A stored manifest never names an object that is missing: it is the last *)
(* put, so a delivery that dies half way leaves no manifest of its own.    *)
ManifestComplete ==
    \A r \in RunId : \A m \in objects["manifest"][r] :
        /\ m \in objects["blob"][r]
        /\ m \in objects["images"][r]
        /\ objects["content_list"][r] # {}

(* Both: readers of rows and of manifests find what they name, at every    *)
(* moment of an upload and whoever else writes into the namespace.         *)
ArtifactsIntact == MediaResolvable /\ ManifestComplete

(* No delivery of a well-formed job is dropped silently: while a message   *)
(* is in flight, a worker is on that very delivery or it met a fault that  *)
(* redelivery will repair.  A stop request, in particular, never makes a   *)
(* worker drop a message it has just received.                             *)
NoDeliveryVanishes ==
    \A j \in Job \ Malformed : status[j] = "inflight" =>
        LET d == <<j, receives[j]>> IN Held(d) \/ d \in fault

(* A well-formed job is buried only after maxReceiveCount deliveries, each *)
(* of which met a fault of its own ("three strikes", README.md).           *)
DeadLettersEarned ==
    \A j \in Job \ Malformed : status[j] = "dead" =>
        \A n \in 1..MaxReceive : <<j, n>> \in fault

(* A 202 answer is kept: the message reached the queue, and a job nobody   *)
(* applied is still there or was buried for inspection.                    *)
AcceptedIsKept ==
    \A j \in Job : reply[j] = "accepted" =>
        status[j] \in IF done[j] = NotApplied THEN {"visible", "inflight", "dead"}
                      ELSE Status \ {"unsent"}

-----------------------------------------------------------------------------
(* Liveness.                                                               *)

(* Every job that was sent, malformed ones included, is acknowledged or    *)
(* buried in the end: redelivery never goes on forever.                    *)
EverySentJobSettles ==
    \A j \in Job : status[j] # "unsent" ~> status[j] \in {"deleted", "dead"}

(* An accepted job is acknowledged in the end, unless each of the          *)
(* maxReceiveCount deliveries it is allowed meets a fault.                 *)
FewFaultsMeansAcked ==
    \A j \in Job : reply[j] = "accepted" ~>
      status[j] = "deleted" \/ \A n \in 1..MaxReceive : <<j, n>> \in fault

(* A worker that was asked to stop does so after its current job.          *)
SigtermStops == \A w \in Worker : stop[w] ~> pc[w] = "off"

-----------------------------------------------------------------------------
(* The promise this implements.                                            *)

PhaseOf(s) == CASE s \in {"visible", "inflight"} -> "owed"
                [] s = "deleted" -> "acknowledged"
                [] s \in {"unsent", "dead"} -> s

Promise == INSTANCE IngestPromise WITH
    phase <- [j \in Job |-> PhaseOf(status[j])],
    applied <- done

(* Every step of queue, workers and stores is a step of the promise or     *)
(* changes nothing it shows.                                               *)
KeepsPromise == Promise!Spec

-----------------------------------------------------------------------------
(* What the documentation says.                                            *)

(* README.md:103-105: "failed or malformed messages are never deleted by   *)
(* the worker and land in the dead-letter queue": the first run of a       *)
(* deleted message that went through did not have its parser raise.        *)
FailedNeverDeleted ==
    \A j \in Job : status[j] = "deleted" => done[j] # ParserRaised

=============================================================================
