------------------------- MODULE IngestWorkerProofs -------------------------
(***************************************************************************)
(* Proofs about IngestWorker for every number of jobs, workers, papers,    *)
(* contents and receives.  The safety invariants are not inductive: what   *)
(* makes an acknowledgement, a commit or a manifest safe is how far the    *)
(* worker has come with its delivery, which Progress states.               *)
(***************************************************************************)
EXTENDS IngestWorker, TLAPS

(* What a worker's place in the handler says about its delivery and about  *)
(* the objects that delivery has stored.                                   *)
Progress(w) ==
    /\ pc[w] \in Busy =>
        /\ job[w] \in Job \ Malformed
        /\ receipt[w] \in 1..receives[job[w]]
        /\ status[job[w]] # "unsent"
    /\ pc[w] \in Busy \ {"fetch"} => version[w] \in Version
    /\ pc[w] \in (Place \ Busy) \cup {"fetch", "convert"} => puts[w] = 0
    /\ pc[w] = "upload" => puts[w] < 5
    /\ pc[w] \in {"parse", "index"} => puts[w] = 5
    /\ pc[w] \in {"ddl", "ack"} => done[job[w]] # NotApplied

StoredSoFar(w) ==
    pc[w] \in {"upload", "parse", "index"} =>
        LET r == RunOf[PaperOf[job[w]]] IN
        /\ puts[w] >= 1 => Converted(w) \in objects["blob"][r]
        /\ puts[w] >= 2 => objects["content_list"][r] # {}
        /\ puts[w] >= 4 => Converted(w) \in objects["images"][r]

WorkerInv == \A w \in Worker : Progress(w)

StoreInv ==
    /\ \A w \in Worker : StoredSoFar(w)
    /\ ManifestComplete
    /\ MediaResolvable

AppliedInv ==
    /\ AckedMeansApplied
    /\ AppliedStaysSearchable
    /\ \A j \in Job : reply[j] = "accepted" => status[j] # "unsent"

(* Every delivery handed out is the current one, or met a fault, or its    *)
(* message is gone; and messages are buried at the limit only.             *)
DeliveryInv ==
    /\ NoDeliveryVanishes
    /\ \A j \in Job \ Malformed : status[j] # "deleted" =>
        \A n \in 1..receives[j] :
            n < receives[j] \/ status[j] # "inflight" => <<j, n>> \in fault
    /\ \A j \in Job : status[j] = "dead" => receives[j] = MaxReceive

-----------------------------------------------------------------------------

LEMMA TypeInit == Init => TypeOK /\ WorkerInv
  BY QueueAssumption, WorkerAssumption
     DEF Init, QueueInit, TypeOK, QueueTypeOK, Status, Place, Busy, Kind, NoRow,
         UploadOrder, WorkerInv, Progress

LEMMA TypeStep == TypeOK /\ WorkerInv /\ [Next]_vars => TypeOK'
<1> SUFFICES ASSUME TypeOK, WorkerInv, [Next]_vars PROVE TypeOK'
  OBVIOUS
<1> USE DEF TypeOK, QueueTypeOK, Status, Place, Busy, Goto
<1>1. ASSUME NEW j \in Job, Submit(j) \/ SendMalformed(j) PROVE TypeOK'
  <2>1. QueueTypeOK' /\ reply' \in [Job -> {"none", "accepted", "unavailable"}]
    BY <1>1 DEF Submit, SendMalformed, Enqueue, queueVars
  <2> QED
    BY <1>1, <2>1 DEF Submit, SendMalformed, localVars
<1>2. ASSUME NEW j \in Job, ExpireVisibility(j) PROVE TypeOK'
  <2>1. Held(<<j, receives[j]>>) => <<j, receives[j]>> \in Job \X (1..MaxReceive)
    BY DEF Held, Delivery, WorkerInv, Progress
  <2> QED
    BY <1>2, <2>1 DEF ExpireVisibility, ShowAgain, localVars
<1>3. ASSUME NEW p \in Paper, ReplacePdf(p) PROVE TypeOK'
  BY <1>3 DEF ReplacePdf, queueVars, localVars
<1>4. ASSUME NEW w \in Worker, WorkerNext(w) PROVE TypeOK'
  <2>1. CASE Start(w) \/ Sigterm(w) \/ LeaveLoop(w) \/ EnterReceive(w) \/ EmptyReceive(w)
    BY <2>1 DEF Start, Sigterm, LeaveLoop, EnterReceive, EmptyReceive, queueVars,
                localVars
  <2>2. ASSUME NEW j \in Job, Receive(w, j) \/ ReceiveLost(w, j) PROVE TypeOK'
    <3> HandOut(j)
      BY <2>2 DEF Receive, ReceiveLost
    <3>1. QueueTypeOK' /\ receives[j] + 1 \in 1..MaxReceive
      BY QueueAssumption DEF HandOut
    <3>2. CASE Receive(w, j)
      <4>1. CASE j \in Malformed
        BY <3>1, <3>2, <4>1 DEF Receive
      <4>2. CASE j \notin Malformed
        <5>1. Goto(w, "fetch") /\ Take(w, j, receives[j] + 1)
          BY <3>2, <4>2 DEF Receive
        <5>2. job' \in [Worker -> Job \cup {NoJob}] /\ receipt' \in [Worker -> 0..MaxReceive]
          BY <3>1, <5>1, QueueAssumption DEF Take
        <5> QED
          BY <3>1, <3>2, <5>1, <5>2 DEF Receive, Take
      <4> QED BY <4>1, <4>2
    <3>3. CASE ReceiveLost(w, j)
      BY <3>1, <3>3 DEF ReceiveLost
    <3> QED
      BY <2>2, <3>2, <3>3
  <2>3. ASSUME NEW j \in Job, DeadLetter(w, j) PROVE TypeOK'
    BY <2>3 DEF DeadLetter, Redrive, localVars
  <2>4. CASE Kill(w) \/ Fail(w)
    <3>1. pc[w] \in Busy => Delivery(w) \in Job \X (1..MaxReceive)
      BY DEF Delivery, WorkerInv, Progress
    <3>2. fault' \subseteq Job \X (1..MaxReceive)
      BY <2>4, <3>1 DEF Kill, Fail
    <3>3. /\ job' \in [Worker -> Job \cup {NoJob}]
          /\ receipt' \in [Worker -> 0..MaxReceive]
          /\ version' \in [Worker -> Version \cup {NotApplied}]
          /\ puts' \in [Worker -> 0..Len(UploadOrder)]
      <4> Release(w) /\ Len(UploadOrder) = 5
        BY <2>4 DEF Kill, Fail, UploadOrder
      <4> QED BY QueueAssumption DEF Release
    <3> QED
      BY <2>4, <3>2, <3>3 DEF Kill, Fail, queueVars
  <2>5. CASE Fetch(w)
    <3>1. job[w] \in Job
      BY <2>5 DEF Fetch, WorkerInv, Progress
    <3> QED
      BY <2>5, <3>1, WorkerAssumption DEF Fetch, queueVars
  <2>6. CASE Convert(w) \/ ParseChunks(w) \/ EnsureIndexes(w)
    BY <2>6 DEF Convert, ParseChunks, EnsureIndexes, queueVars
  <2>7. CASE UploadNext(w)
    <3>1. job[w] \in Job /\ version[w] \in Version /\ puts[w] \in 0..4
      BY <2>7 DEF UploadNext, WorkerInv, Progress, UploadOrder
    <3>2. /\ RunOf[PaperOf[job[w]]] \in RunId
          /\ Converted(w) \in Conversion
          /\ puts[w] + 1 \in 1..5
      BY <3>1, WorkerAssumption DEF Converted, Conversion
    <3>3. UploadOrder[puts[w] + 1] \in Kind /\ Len(UploadOrder) = 5
      BY <3>2 DEF UploadOrder, Kind
    <3>4. objects' \in [Kind -> [RunId -> SUBSET Conversion]]
      BY <2>7, <3>2, <3>3 DEF UploadNext, Stored
    <3>5. puts' \in [Worker -> 0..Len(UploadOrder)] /\ pc' \in [Worker -> Place]
      BY <2>7, <3>2, <3>3 DEF UploadNext
    <3> QED
      BY <2>7, <3>4, <3>5 DEF UploadNext, queueVars
  <2>8. CASE ParseNothing(w)
    <3>1. job[w] \in Job
      BY <2>8 DEF ParseNothing, WorkerInv, Progress
    <3> QED
      BY <2>8, <3>1 DEF ParseNothing, queueVars
  <2>9. CASE IndexChunks(w)
    <3>1. job[w] \in Job /\ version[w] \in Version
      BY <2>9 DEF IndexChunks, WorkerInv, Progress
    <3>2. rows' \in [Chunk -> Conversion \cup {NoRow}]
      BY <2>9, <3>1, WorkerAssumption DEF IndexChunks, Upsert, Conversion
    <3> QED
      BY <2>9, <3>1, <3>2 DEF IndexChunks, queueVars
  <2>10. CASE Ack(w)
    <3>1. Delivery(w) \in Job \X (1..MaxReceive) /\ job[w] \in Job
      BY <2>10 DEF Ack, Delivery, WorkerInv, Progress
    <3>2. QueueTypeOK' /\ fault' \subseteq Job \X (1..MaxReceive)
      BY <2>10, <3>1 DEF Ack, Delete, queueVars
    <3>3. /\ job' \in [Worker -> Job \cup {NoJob}]
          /\ receipt' \in [Worker -> 0..MaxReceive]
          /\ version' \in [Worker -> Version \cup {NotApplied}]
          /\ puts' \in [Worker -> 0..Len(UploadOrder)]
      <4> Release(w) /\ Len(UploadOrder) = 5
        BY <2>10 DEF Ack, UploadOrder
      <4> QED BY QueueAssumption DEF Release
    <3> QED
      BY <2>10, <3>2, <3>3 DEF Ack
  <2> QED
    BY <1>4, <2>1, <2>2, <2>3, <2>4, <2>5, <2>6, <2>7, <2>8, <2>9, <2>10
       DEF WorkerNext, JobStep
<1>5. CASE UNCHANGED vars
  BY <1>5 DEF vars
<1> QED
  BY <1>1, <1>2, <1>3, <1>4, <1>5 DEF Next

(* A delivery moves only by a step of its own worker. *)
Unmoved(w) ==
    /\ pc'[w] = pc[w] /\ job'[w] = job[w] /\ receipt'[w] = receipt[w]
    /\ version'[w] = version[w] /\ puts'[w] = puts[w]

LEMMA Locality ==
    ASSUME TypeOK, [Next]_vars, NEW v \in Worker
    PROVE  WorkerNext(v) \/ Unmoved(v)
<1>1. ASSUME NEW w \in Worker, w # v, WorkerNext(w) PROVE Unmoved(v)
  <2> USE DEF TypeOK, Unmoved, Goto, localVars
  <2>1. CASE Start(w) \/ Sigterm(w) \/ LeaveLoop(w) \/ EnterReceive(w) \/ EmptyReceive(w)
    BY <1>1, <2>1 DEF Start, Sigterm, LeaveLoop, EnterReceive, EmptyReceive
  <2>2. ASSUME NEW j \in Job, Receive(w, j) \/ ReceiveLost(w, j) \/ DeadLetter(w, j)
        PROVE  Unmoved(v)
    BY <1>1, <2>2 DEF Receive, ReceiveLost, DeadLetter, Take
  <2>3. CASE Kill(w) \/ Fail(w) \/ Ack(w)
    BY <1>1, <2>3 DEF Kill, Fail, Ack, Release
  <2>4. CASE Fetch(w) \/ Convert(w) \/ ParseChunks(w) \/ EnsureIndexes(w)
    BY <1>1, <2>4 DEF Fetch, Convert, ParseChunks, EnsureIndexes
  <2>5. CASE UploadNext(w) \/ ParseNothing(w) \/ IndexChunks(w)
    BY <1>1, <2>5 DEF UploadNext, ParseNothing, IndexChunks
  <2> QED
    BY <1>1, <2>1, <2>2, <2>3, <2>4, <2>5 DEF WorkerNext, JobStep
<1>2. ASSUME NEW j \in Job, Submit(j) \/ SendMalformed(j) \/ ExpireVisibility(j)
      PROVE  Unmoved(v)
  BY <1>2 DEF Submit, SendMalformed, ExpireVisibility, localVars, Unmoved
<1>3. ASSUME NEW p \in Paper, ReplacePdf(p) PROVE Unmoved(v)
  BY <1>3 DEF ReplacePdf, localVars, Unmoved
<1>4. CASE UNCHANGED vars
  BY <1>4 DEF vars, Unmoved
<1> QED
  BY <1>1, <1>2, <1>3, <1>4 DEF Next

(* The queue changes only by its own operations. *)
QueueStep ==
    \/ UNCHANGED queueVars
    \/ \E j \in Job : Enqueue(j) \/ HandOut(j) \/ Redrive(j) \/ ShowAgain(j)
    \/ \E w \in Worker : Ack(w) /\ Delete(job[w], receipt[w])

LEMMA QueueMoves == ASSUME [Next]_vars PROVE QueueStep
<1>1. ASSUME NEW w \in Worker, WorkerNext(w) PROVE QueueStep
  <2>1. CASE Start(w) \/ Sigterm(w) \/ LeaveLoop(w) \/ EnterReceive(w) \/ EmptyReceive(w)
    BY <2>1 DEF Start, Sigterm, LeaveLoop, EnterReceive, EmptyReceive, QueueStep
  <2>2. ASSUME NEW j \in Job, Receive(w, j) \/ ReceiveLost(w, j) \/ DeadLetter(w, j)
        PROVE  QueueStep
    BY <2>2 DEF Receive, ReceiveLost, DeadLetter, QueueStep
  <2>3. CASE Kill(w) \/ Fail(w)
    BY <2>3 DEF Kill, Fail, QueueStep
  <2>4. CASE Ack(w)
    <3>1. Delete(job[w], receipt[w]) \/ UNCHANGED queueVars
      BY <2>4 DEF Ack
    <3> QED BY <2>4, <3>1 DEF QueueStep
  <2>5. CASE Fetch(w) \/ Convert(w) \/ ParseChunks(w) \/ EnsureIndexes(w)
    BY <2>5 DEF Fetch, Convert, ParseChunks, EnsureIndexes, QueueStep
  <2>6. CASE UploadNext(w) \/ ParseNothing(w) \/ IndexChunks(w)
    BY <2>6 DEF UploadNext, ParseNothing, IndexChunks, QueueStep
  <2> QED
    BY <1>1, <2>1, <2>2, <2>3, <2>4, <2>5, <2>6 DEF WorkerNext, JobStep
<1>2. ASSUME NEW j \in Job, Submit(j) \/ SendMalformed(j) \/ ExpireVisibility(j)
      PROVE  QueueStep
  BY <1>2 DEF Submit, SendMalformed, ExpireVisibility, QueueStep
<1>3. ASSUME NEW p \in Paper, ReplacePdf(p) PROVE QueueStep
  BY <1>3 DEF ReplacePdf, QueueStep
<1>4. CASE UNCHANGED vars
  BY <1>4 DEF vars, QueueStep, queueVars
<1> QED
  BY <1>1, <1>2, <1>3, <1>4 DEF Next

(* Receives only grow, and a sent message stays sent. *)
LEMMA QueueMonotone ==
    ASSUME TypeOK, QueueStep, NEW j \in Job
    PROVE  /\ receives'[j] >= receives[j]
           /\ status[j] # "unsent" => status'[j] # "unsent"
<1> USE DEF TypeOK, QueueTypeOK
<1>1. CASE UNCHANGED queueVars
  BY <1>1 DEF queueVars
<1>2. ASSUME NEW i \in Job, Enqueue(i) \/ HandOut(i) \/ Redrive(i) \/ ShowAgain(i)
      PROVE  /\ receives'[j] >= receives[j]
             /\ status[j] # "unsent" => status'[j] # "unsent"
  <2>1. Enqueue(i) => receives' = receives /\ status' = [status EXCEPT ![i] = "visible"]
    BY DEF Enqueue
  <2>2. HandOut(i) => /\ receives' = [receives EXCEPT ![i] = @ + 1]
                      /\ status' = [status EXCEPT ![i] = "inflight"]
    BY DEF HandOut
  <2>3. Redrive(i) => receives' = receives /\ status' = [status EXCEPT ![i] = "dead"]
    BY DEF Redrive
  <2>4. ShowAgain(i) => receives' = receives /\ status' = [status EXCEPT ![i] = "visible"]
    BY DEF ShowAgain
  <2>5. receives[j] \in Nat /\ receives[i] \in Nat
    BY QueueAssumption
  <2>6. CASE Enqueue(i)
    BY <2>1, <2>5, <2>6
  <2>7. CASE HandOut(i)
    BY <2>2, <2>5, <2>7
  <2>8. CASE Redrive(i)
    BY <2>3, <2>5, <2>8
  <2>9. CASE ShowAgain(i)
    BY <2>4, <2>5, <2>9
  <2> QED
    BY <1>2, <2>6, <2>7, <2>8, <2>9
<1>3. ASSUME NEW w \in Worker, Delete(job[w], receipt[w])
      PROVE  /\ receives'[j] >= receives[j]
             /\ status[j] # "unsent" => status'[j] # "unsent"
  BY <1>3 DEF Delete
<1> QED
  BY <1>1, <1>2, <1>3 DEF QueueStep

(* What was applied stays applied: done never falls back. *)
LEMMA DoneMonotone ==
    ASSUME TypeOK, WorkerInv, [Next]_vars, NEW j \in Job
    PROVE  done[j] # NotApplied => done'[j] # NotApplied
<1> USE DEF TypeOK
<1>1. ASSUME NEW w \in Worker, WorkerNext(w)
      PROVE  done[j] # NotApplied => done'[j] # NotApplied
  <2>1. CASE UNCHANGED done
    BY <2>1
  <2>2. CASE ParseNothing(w)
    BY <2>2, WorkerAssumption DEF ParseNothing, Empty
  <2>3. CASE IndexChunks(w)
    <3>1. version[w] \in Version
      BY <2>3 DEF IndexChunks, WorkerInv, Progress, Busy
    <3> QED
      BY <2>3, <3>1, WorkerAssumption DEF IndexChunks
  <2> QED
    BY <1>1, <2>1, <2>2, <2>3
       DEF WorkerNext, JobStep, Start, Sigterm, LeaveLoop, EnterReceive,
           EmptyReceive, Kill, Receive, ReceiveLost, DeadLetter, Fail, Fetch,
           Convert, UploadNext, ParseChunks, EnsureIndexes, Ack
<1>2. CASE UNCHANGED done
  BY <1>2
<1> QED
  BY <1>1, <1>2 DEF Next, vars, Submit, SendMalformed, ExpireVisibility, ReplacePdf

-----------------------------------------------------------------------------

LEMMA ProgressStep == TypeOK /\ WorkerInv /\ [Next]_vars => WorkerInv'
<1> SUFFICES ASSUME TypeOK, WorkerInv, [Next]_vars, NEW v \in Worker
             PROVE  Progress(v)'
  BY DEF WorkerInv
<1> Progress(v)
  BY DEF WorkerInv
<1> TypeOK'
  BY TypeStep
<1>1. \A j \in Job : /\ receives'[j] >= receives[j]
                     /\ status[j] # "unsent" => status'[j] # "unsent"
                     /\ done[j] # NotApplied => done'[j] # NotApplied
  BY QueueMoves, QueueMonotone, DoneMonotone
<1>2. CASE Unmoved(v)
  <2>1. job[v] \in Job => receives'[job[v]] \in Nat /\ receives[job[v]] \in Nat
    BY QueueAssumption DEF TypeOK, QueueTypeOK
  <2> QED
    BY <1>1, <1>2, <2>1 DEF Unmoved, Progress, Busy, Place
<1>3. CASE WorkerNext(v)
  <2> USE DEF TypeOK, Goto, Busy, Place, Progress
  <2>1. CASE Start(v) \/ LeaveLoop(v) \/ EnterReceive(v) \/ EmptyReceive(v)
    BY <2>1 DEF Start, LeaveLoop, EnterReceive, EmptyReceive
  <2>2. CASE Sigterm(v) \/ (\E j \in Job : DeadLetter(v, j))
    BY <2>2, <1>2 DEF Sigterm, DeadLetter, localVars, Unmoved
  <2>3. ASSUME NEW j \in Job, Receive(v, j) PROVE Progress(v)'
    <3>1. CASE j \in Malformed
      BY <2>3, <3>1 DEF Receive
    <3>2. CASE j \notin Malformed
      <4>1. HandOut(j) /\ Goto(v, "fetch") /\ Take(v, j, receives[j] + 1)
        BY <2>3, <3>2 DEF Receive
      <4>2. receives[j] \in Nat /\ receives'[j] = receives[j] + 1 /\ status'[j] = "inflight"
        BY <4>1, QueueAssumption DEF HandOut, QueueTypeOK
      <4>3. /\ pc'[v] = "fetch" /\ job'[v] = j /\ receipt'[v] = receives[j] + 1
            /\ puts'[v] = puts[v]
        BY <4>1 DEF Take
      <4>4. puts[v] = 0
        BY <2>3 DEF Receive
      <4> QED
        BY <3>2, <4>2, <4>3, <4>4
    <3> QED BY <3>1, <3>2
  <2>4. CASE Kill(v) \/ Fail(v) \/ Ack(v) \/ (\E j \in Job : ReceiveLost(v, j))
    <3> SUFFICES pc'[v] \in {"off", "loop"} /\ puts'[v] = 0
      OBVIOUS
    <3>1. CASE Kill(v)
      <4>1. Goto(v, "off") /\ Release(v)
        BY <3>1 DEF Kill
      <4> QED BY <4>1 DEF Release
    <3>2. CASE Fail(v)
      BY <3>2 DEF Fail, Release
    <3>3. CASE Ack(v)
      <4>1. Goto(v, "loop") /\ Release(v)
        BY <3>3 DEF Ack
      <4> QED BY <4>1 DEF Release
    <3>4. ASSUME NEW j \in Job, ReceiveLost(v, j)
          PROVE  pc'[v] = "off" /\ puts'[v] = 0
      BY <3>4 DEF ReceiveLost
    <3> QED BY <2>4, <3>1, <3>2, <3>3, <3>4
  <2>5. ASSUME pc[v] \in Busy, job'[v] = job[v], receipt'[v] = receipt[v]
        PROVE  /\ job'[v] \in Job \ Malformed
               /\ receipt'[v] \in 1..receives'[job'[v]]
               /\ status'[job'[v]] # "unsent"
    <3>1. receives'[job[v]] \in Nat /\ receives[job[v]] \in Nat
      BY <2>5, QueueAssumption DEF QueueTypeOK
    <3> QED BY <1>1, <2>5, <3>1
  <2>6. CASE Fetch(v)
    BY <2>5, <2>6, WorkerAssumption DEF Fetch
  <2>7. CASE Convert(v)
    BY <2>5, <2>7 DEF Convert
  <2>8. CASE UploadNext(v)
    BY <2>5, <2>8 DEF UploadNext, UploadOrder
  <2>9. CASE ParseChunks(v)
    BY <2>5, <2>9 DEF ParseChunks
  <2>10. CASE ParseNothing(v)
    BY <2>5, <2>10, WorkerAssumption DEF ParseNothing, Empty
  <2>11. CASE IndexChunks(v)
    BY <2>5, <2>11, WorkerAssumption DEF IndexChunks
  <2>12. CASE EnsureIndexes(v)
    BY <2>5, <2>12 DEF EnsureIndexes
  <2> QED
    BY <1>3, <2>1, <2>2, <2>3, <2>4, <2>6, <2>7, <2>8, <2>9, <2>10, <2>11, <2>12
       DEF WorkerNext, JobStep
<1> QED
  BY <1>2, <1>3, Locality
-----------------------------------------------------------------------------

(* Only an upload writes objects. *)
LEMMA ObjectsMove ==
    ASSUME [Next]_vars
    PROVE  objects' = objects \/ \E w \in Worker : UploadNext(w)
BY DEF Next, WorkerNext, JobStep, vars, Submit, SendMalformed, ExpireVisibility,
       ReplacePdf, Start, Sigterm, LeaveLoop, EnterReceive, EmptyReceive, Kill,
       Receive, ReceiveLost, DeadLetter, Fail, Fetch, Convert, ParseChunks,
       ParseNothing, IndexChunks, EnsureIndexes, Ack

(* Only a commit of chunks writes rows. *)
LEMMA RowsMove ==
    ASSUME [Next]_vars
    PROVE  rows' = rows \/ \E w \in Worker : IndexChunks(w)
BY DEF Next, WorkerNext, JobStep, vars, Submit, SendMalformed, ExpireVisibility,
       ReplacePdf, Start, Sigterm, LeaveLoop, EnterReceive, EmptyReceive, Kill,
       Receive, ReceiveLost, DeadLetter, Fail, Fetch, Convert, UploadNext,
       ParseChunks, ParseNothing, EnsureIndexes, Ack

(* An upload stage stores one object of the worker's own conversion. *)
LEMMA UploadStores ==
    ASSUME TypeOK, WorkerInv, NEW w \in Worker, UploadNext(w)
    PROVE  /\ job[w] \in Job /\ PaperOf[job[w]] \in Paper
           /\ RunOf[PaperOf[job[w]]] \in RunId
           /\ Converted(w) \in Conversion
           /\ puts[w] \in 0..4
           /\ UploadOrder[puts[w] + 1] \in Kind
           /\ objects' = Stored(UploadOrder[puts[w] + 1],
                                RunOf[PaperOf[job[w]]], Converted(w))
<1>1. job[w] \in Job /\ version[w] \in Version /\ puts[w] \in 0..4
  BY DEF UploadNext, WorkerInv, Progress, TypeOK, Busy, UploadOrder
<1>2. /\ PaperOf[job[w]] \in Paper /\ RunOf[PaperOf[job[w]]] \in RunId
      /\ Converted(w) \in Conversion
  BY <1>1, WorkerAssumption DEF Converted, Conversion
<1>3. UploadOrder[puts[w] + 1] \in Kind
  BY <1>1 DEF UploadOrder, Kind
<1> QED
  BY <1>1, <1>2, <1>3 DEF UploadNext

(* Blobs and images are only added; a content list, once stored, may be    *)
(* replaced but never goes away.                                           *)
LEMMA ObjectsGrow ==
    ASSUME TypeOK, WorkerInv, [Next]_vars, NEW r \in RunId
    PROVE  /\ objects["blob"][r] \subseteq objects'["blob"][r]
           /\ objects["images"][r] \subseteq objects'["images"][r]
           /\ objects["content_list"][r] # {} => objects'["content_list"][r] # {}
<1>1. CASE objects' = objects
  BY <1>1
<1>2. ASSUME NEW w \in Worker, UploadNext(w)
      PROVE  /\ objects["blob"][r] \subseteq objects'["blob"][r]
             /\ objects["images"][r] \subseteq objects'["images"][r]
             /\ objects["content_list"][r] # {} => objects'["content_list"][r] # {}
  <2> DEFINE k == UploadOrder[puts[w] + 1]
             q == RunOf[PaperOf[job[w]]]
             m == Converted(w)
  <2>1. /\ q \in RunId /\ k \in Kind
        /\ objects' = Stored(k, q, m)
    BY <1>2, UploadStores
  <2> HIDE DEF k, q, m
  <2>2. \A x \in Kind : objects'[x][r] =
            IF x = k /\ r = q
            THEN (IF k \in ContentAddressed THEN objects[x][r] ELSE {}) \cup {m}
            ELSE objects[x][r]
    BY <2>1 DEF Stored, TypeOK
  <2> QED
    BY <2>2 DEF Kind, ContentAddressed
<1> QED
  BY <1>1, <1>2, ObjectsMove

LEMMA StoreStep ==
    TypeOK /\ WorkerInv /\ StoreInv /\ [Next]_vars => StoreInv'
<1> SUFFICES ASSUME TypeOK, WorkerInv, StoreInv, [Next]_vars PROVE StoreInv'
  OBVIOUS
<1> TypeOK' /\ WorkerInv'
  BY TypeStep, ProgressStep
<1>1. ASSUME NEW v \in Worker PROVE StoredSoFar(v)'
  <2> StoredSoFar(v)
    BY DEF StoreInv
  <2>1. CASE pc'[v] \notin {"upload", "parse", "index"}
    BY <2>1 DEF StoredSoFar
  <2>2. CASE /\ pc'[v] \in {"upload", "parse", "index"}
             /\ pc[v] \in {"upload", "parse", "index"}
             /\ job'[v] = job[v] /\ version'[v] = version[v] /\ puts'[v] = puts[v]
    <3>1. RunOf[PaperOf[job[v]]] \in RunId
      BY <2>2, WorkerAssumption DEF WorkerInv, Progress, Busy
    <3> QED
      BY <2>2, <3>1, ObjectsGrow DEF StoredSoFar, Converted
  <2>3. CASE Unmoved(v)
    BY <2>1, <2>2, <2>3 DEF Unmoved
  <2>4. CASE Convert(v)
    <3>1. pc'[v] = "upload" /\ puts'[v] = 0
      BY <2>4 DEF Convert, TypeOK, Goto, WorkerInv, Progress, Place, Busy
    <3> QED BY <3>1 DEF StoredSoFar
  <2>5. CASE UploadNext(v)
    <3> DEFINE q == RunOf[PaperOf[job[v]]]
    <3>1. /\ q \in RunId /\ puts[v] \in 0..4
          /\ objects' = Stored(UploadOrder[puts[v] + 1], q, Converted(v))
      BY <2>5, UploadStores
    <3>2. /\ puts'[v] = puts[v] + 1 /\ job'[v] = job[v] /\ version'[v] = version[v]
          /\ pc[v] = "upload"
      BY <2>5 DEF UploadNext, TypeOK
    <3>3. /\ puts[v] = 0 => Converted(v) \in objects'["blob"][q]
          /\ puts[v] = 1 => objects'["content_list"][q] # {}
          /\ puts[v] = 3 => Converted(v) \in objects'["images"][q]
      <4>1. ASSUME NEW k \in Kind, k = UploadOrder[puts[v] + 1]
            PROVE  Converted(v) \in objects'[k][q]
        BY <3>1, <4>1 DEF Stored, TypeOK
      <4>2. /\ puts[v] = 0 => UploadOrder[puts[v] + 1] = "blob"
            /\ puts[v] = 1 => UploadOrder[puts[v] + 1] = "content_list"
            /\ puts[v] = 3 => UploadOrder[puts[v] + 1] = "images"
        BY DEF UploadOrder
      <4> QED BY <4>1, <4>2 DEF Kind
    <3>4. /\ puts[v] >= 1 => Converted(v) \in objects'["blob"][q]
          /\ puts[v] >= 2 => objects'["content_list"][q] # {}
          /\ puts[v] >= 4 => Converted(v) \in objects'["images"][q]
      BY <3>1, <3>2, ObjectsGrow DEF StoredSoFar
    <3>5. Converted(v)' = Converted(v)
      BY <3>2 DEF Converted
    <3>6. /\ puts'[v] >= 1 => Converted(v) \in objects'["blob"][q]
          /\ puts'[v] >= 2 => objects'["content_list"][q] # {}
          /\ puts'[v] >= 4 => Converted(v) \in objects'["images"][q]
      <4> HIDE DEF q
      <4> QED BY <3>1, <3>2, <3>3, <3>4
    <3> QED
      BY <3>2, <3>5, <3>6 DEF StoredSoFar
  <2>6. CASE ParseChunks(v)
    BY <2>2, <2>6 DEF ParseChunks, TypeOK, Goto, Place, Busy
  <2>7. CASE WorkerNext(v) /\ ~Convert(v) /\ ~UploadNext(v) /\ ~ParseChunks(v)
    <3>1. CASE Start(v) \/ LeaveLoop(v) \/ EnterReceive(v) \/ EmptyReceive(v)
      BY <2>1, <3>1 DEF Start, LeaveLoop, EnterReceive, EmptyReceive, TypeOK, Goto
    <3>2. CASE Sigterm(v)
      BY <2>3, <3>2 DEF Sigterm, localVars, Unmoved
    <3>3. ASSUME NEW j \in Job, Receive(v, j) \/ ReceiveLost(v, j) PROVE StoredSoFar(v)'
      BY <2>1, <3>3 DEF Receive, ReceiveLost, TypeOK, Goto
    <3>4. ASSUME NEW j \in Job, DeadLetter(v, j) PROVE StoredSoFar(v)'
      BY <2>3, <3>4 DEF DeadLetter, localVars, Unmoved
    <3>5. CASE Kill(v) \/ Fail(v) \/ Ack(v)
      BY <2>1, <3>5 DEF Kill, Fail, Ack, TypeOK, Goto
    <3>6. CASE Fetch(v) \/ ParseNothing(v) \/ IndexChunks(v) \/ EnsureIndexes(v)
      BY <2>1, <3>6 DEF Fetch, ParseNothing, IndexChunks, EnsureIndexes, TypeOK, Goto
    <3> QED
      BY <2>7, <3>1, <3>2, <3>3, <3>4, <3>5, <3>6 DEF WorkerNext, JobStep
  <2> QED
    BY <2>3, <2>4, <2>5, <2>6, <2>7, Locality
<1>2. ManifestComplete'
  <2> SUFFICES ASSUME NEW r \in RunId, NEW m \in objects'["manifest"][r]
               PROVE  /\ m \in objects'["blob"][r]
                      /\ m \in objects'["images"][r]
                      /\ objects'["content_list"][r] # {}
    BY DEF ManifestComplete
  <2>1. CASE m \in objects["manifest"][r]
    BY <2>1, ObjectsGrow DEF StoreInv, ManifestComplete
  <2>2. CASE m \notin objects["manifest"][r]
    <3>1. PICK w \in Worker : UploadNext(w)
      BY <2>2, ObjectsMove
    <3>2. /\ RunOf[PaperOf[job[w]]] \in RunId /\ puts[w] \in 0..4
          /\ UploadOrder[puts[w] + 1] \in Kind
          /\ objects' = Stored(UploadOrder[puts[w] + 1],
                               RunOf[PaperOf[job[w]]], Converted(w))
      BY <3>1, UploadStores
    <3>3. /\ UploadOrder[puts[w] + 1] = "manifest"
          /\ r = RunOf[PaperOf[job[w]]]
          /\ m = Converted(w)
      <4> DEFINE k == UploadOrder[puts[w] + 1]
                 q == RunOf[PaperOf[job[w]]]
                 c == Converted(w)
      <4> HIDE DEF k, q, c
      <4>1. k # "manifest" \/ r # q => objects'["manifest"][r] = objects["manifest"][r]
        BY <3>2 DEF Stored, TypeOK, Kind, k, q, c
      <4>2. k = "manifest" /\ r = q => objects'["manifest"][r] = {c}
        BY <3>2 DEF Stored, TypeOK, Kind, ContentAddressed, k, q, c
      <4> QED BY <2>2, <4>1, <4>2 DEF k, q, c
    <3>4. puts[w] = 4
      BY <3>2, <3>3 DEF UploadOrder
    <3>5. pc[w] = "upload" /\ StoredSoFar(w)
      BY <3>1 DEF UploadNext, StoreInv
    <3> QED
      BY <3>3, <3>4, <3>5, ObjectsGrow DEF StoredSoFar
  <2> QED BY <2>1, <2>2
<1>3. MediaResolvable'
  <2> SUFFICES ASSUME NEW c \in Chunk, rows'[c] # NoRow
               PROVE  rows'[c] \in objects'["images"][RunOf[rows'[c][1]]]
    BY DEF MediaResolvable
  <2>1. CASE rows'[c] = rows[c]
    <3>1. RunOf[rows[c][1]] \in RunId
      BY <2>1, WorkerAssumption DEF TypeOK, Conversion
    <3> QED
      BY <2>1, <3>1, ObjectsGrow DEF StoreInv, MediaResolvable
  <2>2. CASE rows'[c] # rows[c]
    <3>1. PICK w \in Worker : IndexChunks(w)
      BY <2>2, RowsMove
    <3>2. job[w] \in Job /\ PaperOf[job[w]] \in Paper /\ RunOf[PaperOf[job[w]]] \in RunId
      BY <3>1, WorkerAssumption DEF IndexChunks, WorkerInv, Progress, Busy
    <3>3. rows'[c] = Converted(w)
      BY <2>2, <3>1 DEF IndexChunks, Upsert, Converted
    <3>4. Converted(w) \in objects["images"][RunOf[PaperOf[job[w]]]]
      BY <3>1 DEF IndexChunks, StoreInv, StoredSoFar, WorkerInv, Progress
    <3> QED
      BY <3>2, <3>3, <3>4, ObjectsGrow DEF Converted
  <2> QED BY <2>1, <2>2
<1> QED
  BY <1>1, <1>2, <1>3 DEF StoreInv
-----------------------------------------------------------------------------

(* A commit stores the rows of its own job, and no other. *)
LEMMA CommitOf ==
    ASSUME TypeOK, WorkerInv, NEW w \in Worker, IndexChunks(w)
    PROVE  /\ job[w] \in Job \ Malformed /\ version[w] \in Version
           /\ status[job[w]] # "unsent"
           /\ rows' = Upsert(PaperOf[job[w]], version[w])
           /\ done' = [done EXCEPT ![job[w]] = version[w]]
           /\ UNCHANGED <<queueVars, reply>>
BY DEF IndexChunks, WorkerInv, Progress, Busy

(* A row that was committed is replaced at most, never removed. *)
LEMMA RowsKept ==
    ASSUME TypeOK, WorkerInv, [Next]_vars, NEW c \in Chunk, rows[c] # NoRow
    PROVE  rows'[c] # NoRow
<1>1. CASE rows' = rows
  BY <1>1
<1>2. ASSUME NEW w \in Worker, IndexChunks(w) PROVE rows'[c] # NoRow
  <2>1. rows' = Upsert(PaperOf[job[w]], version[w])
    BY <1>2, CommitOf
  <2>2. <<PaperOf[job[w]], version[w]>> # <<>>
    OBVIOUS
  <2> QED
    BY <2>1, <2>2 DEF Upsert, NoRow
<1> QED
  BY <1>1, <1>2, RowsMove

(* Only a finished handler changes what is known to be applied. *)
LEMMA DoneMoves ==
    ASSUME [Next]_vars
    PROVE  \/ done' = done
           \/ \E w \in Worker : IndexChunks(w)
           \/ \E w \in Worker : ParseNothing(w)
BY DEF Next, WorkerNext, JobStep, vars, Submit, SendMalformed, ExpireVisibility,
       ReplacePdf, Start, Sigterm, LeaveLoop, EnterReceive, EmptyReceive, Kill,
       Receive, ReceiveLost, DeadLetter, Fail, Fetch, Convert, UploadNext,
       ParseChunks, EnsureIndexes, Ack

LEMMA ReplyMoves ==
    ASSUME [Next]_vars
    PROVE  reply' = reply \/ \E j \in Job : Submit(j)
BY DEF Next, WorkerNext, JobStep, vars, SendMalformed, ExpireVisibility,
       ReplacePdf, Start, Sigterm, LeaveLoop, EnterReceive, EmptyReceive, Kill,
       Receive, ReceiveLost, DeadLetter, Fail, Fetch, Convert, UploadNext,
       ParseChunks, ParseNothing, IndexChunks, EnsureIndexes, Ack

LEMMA AppliedStep ==
    TypeOK /\ WorkerInv /\ AppliedInv /\ [Next]_vars => AppliedInv'
<1> SUFFICES ASSUME TypeOK, WorkerInv, AppliedInv, [Next]_vars PROVE AppliedInv'
  OBVIOUS
<1>1. AckedMeansApplied'
  <2> SUFFICES ASSUME NEW j \in Job, status'[j] = "deleted"
               PROVE  done'[j] # NotApplied
    BY DEF AckedMeansApplied
  <2>1. done[j] # NotApplied
    <3>1. CASE status[j] = "deleted"
      BY <3>1 DEF AppliedInv, AckedMeansApplied
    <3>2. CASE status[j] # "deleted"
      <4>1. PICK w \in Worker : Ack(w) /\ Delete(job[w], receipt[w])
        <5>1. ASSUME NEW i \in Job, Enqueue(i) \/ HandOut(i) \/ Redrive(i) \/ ShowAgain(i)
              PROVE  FALSE
          BY <3>2, <5>1 DEF Enqueue, HandOut, Redrive, ShowAgain, TypeOK, QueueTypeOK
        <5> QED
          BY <3>2, <5>1, QueueMoves DEF QueueStep, queueVars
      <4>2. j = job[w]
        BY <3>2, <4>1 DEF Delete, TypeOK, QueueTypeOK
      <4> QED
        BY <4>1, <4>2 DEF Ack, WorkerInv, Progress
    <3> QED BY <3>1, <3>2
  <2> QED
    BY <2>1, DoneMonotone
<1>2. AppliedStaysSearchable'
  <2> SUFFICES ASSUME NEW j \in Job, done'[j] \in Version,
                      NEW c \in ChunksOf[PaperOf[j]][done'[j]]
               PROVE  rows'[c] # NoRow
    BY DEF AppliedStaysSearchable
  <2>1. c \in Chunk
    BY WorkerAssumption
  <2>2. CASE done'[j] = done[j]
    BY <2>1, <2>2, RowsKept DEF AppliedInv, AppliedStaysSearchable
  <2>3. CASE done'[j] # done[j]
    <3>1. ~ \E w \in Worker : ParseNothing(w)
      BY <2>3, WorkerAssumption DEF ParseNothing, TypeOK, Empty
    <3>2. PICK w \in Worker : IndexChunks(w)
      BY <2>3, <3>1, DoneMoves
    <3>3. /\ rows' = Upsert(PaperOf[job[w]], version[w])
          /\ done' = [done EXCEPT ![job[w]] = version[w]]
      BY <3>2, CommitOf
    <3>4. job[w] = j /\ done'[j] = version[w]
      BY <2>3, <3>3 DEF TypeOK
    <3>5. <<PaperOf[job[w]], version[w]>> # <<>>
      OBVIOUS
    <3> QED
      BY <2>1, <3>3, <3>4, <3>5 DEF Upsert, NoRow
  <2> QED BY <2>2, <2>3
<1>3. ASSUME NEW j \in Job, reply'[j] = "accepted" PROVE status'[j] # "unsent"
  <2>1. CASE reply[j] = "accepted"
    BY <2>1, QueueMoves, QueueMonotone DEF AppliedInv
  <2>2. CASE reply[j] # "accepted"
    <3>1. PICK i \in Job : Submit(i)
      BY <1>3, <2>2, ReplyMoves
    <3>2. i = j
      BY <1>3, <2>2, <3>1 DEF Submit, TypeOK
    <3>3. Enqueue(j)
      BY <1>3, <2>2, <3>1, <3>2 DEF Submit, TypeOK
    <3> QED
      BY <3>3 DEF Enqueue, TypeOK, QueueTypeOK
  <2> QED BY <2>1, <2>2
<1> QED
  BY <1>1, <1>2, <1>3 DEF AppliedInv

-----------------------------------------------------------------------------

(* A fault is never forgotten. *)
LEMMA FaultMonotone == ASSUME [Next]_vars PROVE fault \subseteq fault'
BY DEF Next, WorkerNext, JobStep, vars, Submit, SendMalformed, ExpireVisibility,
       ReplacePdf, Start, Sigterm, LeaveLoop, EnterReceive, EmptyReceive, Kill,
       Receive, ReceiveLost, DeadLetter, Fail, Fetch, Convert, UploadNext,
       ParseChunks, ParseNothing, IndexChunks, EnsureIndexes, Ack

(* A worker lets go of a delivery only by a fault or by its delete call. *)
LEMMA LetGo ==
    ASSUME TypeOK, WorkerInv, [Next]_vars, NEW d, Held(d)
    PROVE  \/ Held(d)'
           \/ d \in fault'
           \/ \E w \in Worker : Ack(w) /\ Delivery(w) = d /\ Delete(job[w], receipt[w])
<1>1. PICK w \in Worker : pc[w] \in Busy /\ Delivery(w) = d
  BY DEF Held
<1>2. CASE pc'[w] \in Busy /\ job'[w] = job[w] /\ receipt'[w] = receipt[w]
  BY <1>1, <1>2 DEF Held, Delivery
<1>3. CASE Unmoved(w)
  BY <1>1, <1>2, <1>3 DEF Unmoved
<1>4. CASE WorkerNext(w)
  <2> USE DEF TypeOK, Goto, Busy, Place
  <2>1. CASE Sigterm(w) \/ \E j \in Job : DeadLetter(w, j)
    BY <1>1, <1>2, <2>1 DEF Sigterm, DeadLetter, localVars
  <2>2. CASE Kill(w) \/ Fail(w)
    BY <1>1, <2>2 DEF Kill, Fail
  <2>3. CASE Fetch(w) \/ Convert(w) \/ ParseChunks(w) \/ ParseNothing(w)
             \/ IndexChunks(w) \/ EnsureIndexes(w)
    BY <1>2, <2>3 DEF Fetch, Convert, ParseChunks, ParseNothing, IndexChunks,
                      EnsureIndexes
  <2>4. CASE UploadNext(w)
    BY <1>2, <2>4 DEF UploadNext
  <2>5. CASE Ack(w)
    BY <1>1, <2>5 DEF Ack
  <2>6. CASE Start(w) \/ LeaveLoop(w) \/ EnterReceive(w) \/ EmptyReceive(w)
             \/ \E j \in Job : Receive(w, j) \/ ReceiveLost(w, j)
    BY <1>1, <2>6 DEF Start, LeaveLoop, EnterReceive, EmptyReceive, Receive, ReceiveLost
  <2> QED
    BY <1>4, <2>1, <2>2, <2>3, <2>4, <2>5, <2>6 DEF WorkerNext, JobStep
<1> QED
  BY <1>3, <1>4, Locality
(* What may happen to one message. *)
Still(j) == status'[j] = status[j] /\ receives'[j] = receives[j]
Sent(j) == status[j] = "unsent" /\ status'[j] = "visible" /\ receives'[j] = receives[j]
Lost(j) == \E w \in Worker : Receive(w, j) \/ ReceiveLost(w, j)
Acked(j) ==
    /\ \E w \in Worker : Ack(w) /\ job[w] = j
    /\ status[j] \in {"visible", "inflight"}
    /\ status'[j] = "deleted" /\ receives'[j] = receives[j]

LEMMA MessageMoves ==
    ASSUME TypeOK, [Next]_vars, NEW j \in Job
    PROVE  Still(j) \/ Sent(j) \/ Lost(j) \/ Redrive(j) \/ ExpireVisibility(j) \/ Acked(j)
<1> DEFINE Moved == \/ Still(j) \/ Sent(j) \/ Lost(j) \/ Redrive(j)
                    \/ ExpireVisibility(j) \/ Acked(j)
<1> USE DEF TypeOK, QueueTypeOK
<1>1. ASSUME UNCHANGED queueVars PROVE Moved
  BY <1>1 DEF queueVars, Still
<1>2. ASSUME NEW i \in Job, Submit(i) \/ SendMalformed(i) PROVE Moved
  <2>1. UNCHANGED queueVars \/ Enqueue(i)
    BY <1>2 DEF Submit, SendMalformed
  <2> QED
    BY <1>1, <2>1 DEF Enqueue, Still, Sent
<1>3. ASSUME NEW i \in Job, ExpireVisibility(i) PROVE Moved
  BY <1>3 DEF ExpireVisibility, ShowAgain, Still
<1>4. ASSUME NEW w \in Worker, NEW i \in Job, Receive(w, i) \/ ReceiveLost(w, i)
      PROVE  Moved
  BY <1>4 DEF Receive, ReceiveLost, HandOut, Still, Lost
<1>5. ASSUME NEW w \in Worker, NEW i \in Job, DeadLetter(w, i) PROVE Moved
  BY <1>5 DEF DeadLetter, Redrive, Still
<1>6. ASSUME NEW w \in Worker, Ack(w) PROVE Moved
  <2>1. CASE Delete(job[w], receipt[w])
    BY <1>6, <2>1 DEF Delete, Still, Acked
  <2> QED
    BY <1>1, <1>6, <2>1 DEF Ack
<1> QED
  <2>1. ASSUME NEW w \in Worker, WorkerNext(w) PROVE Moved
    <3>1. \/ UNCHANGED queueVars
          \/ Ack(w)
          \/ \E i \in Job : Receive(w, i) \/ ReceiveLost(w, i) \/ DeadLetter(w, i)
      BY <2>1 DEF WorkerNext, JobStep, Start, Sigterm, LeaveLoop, EnterReceive,
                  EmptyReceive, Kill, Fail, Fetch, Convert, UploadNext,
                  ParseChunks, ParseNothing, IndexChunks, EnsureIndexes
    <3> HIDE DEF Moved
    <3> QED BY <1>1, <1>4, <1>5, <1>6, <3>1
  <2> HIDE DEF Moved
  <2>2. Moved
    BY <1>1, <1>2, <1>3, <2>1 DEF Next, vars, queueVars, ReplacePdf
  <2> QED BY <2>2 DEF Moved

LEMMA DeliveryStep ==
    TypeOK /\ WorkerInv /\ DeliveryInv /\ [Next]_vars => DeliveryInv'
<1> SUFFICES ASSUME TypeOK, WorkerInv, DeliveryInv, [Next]_vars PROVE DeliveryInv'
  OBVIOUS
<1> TypeOK'
  BY TypeStep
<1>1. NoDeliveryVanishes'
  <2> SUFFICES ASSUME NEW j \in Job \ Malformed, status'[j] = "inflight"
               PROVE  Held(<<j, receives[j]>>)' \/ <<j, receives'[j]>> \in fault'
    BY DEF NoDeliveryVanishes
  <2>1. CASE Lost(j)
    <3>1. PICK w \in Worker : Receive(w, j) \/ ReceiveLost(w, j)
      BY <2>1 DEF Lost
    <3>2. receives'[j] = receives[j] + 1
      BY <3>1 DEF Receive, ReceiveLost, HandOut, TypeOK, QueueTypeOK
    <3>3. CASE Receive(w, j)
      <4>1. Goto(w, "fetch") /\ Take(w, j, receives[j] + 1)
        BY <3>3 DEF Receive
      <4>2. pc'[w] = "fetch" /\ job'[w] = j /\ receipt'[w] = receives'[j]
        BY <3>2, <4>1 DEF Goto, Take, TypeOK
      <4> QED BY <4>2 DEF Held, Delivery, Busy
    <3>4. CASE ReceiveLost(w, j)
      BY <3>2, <3>4 DEF ReceiveLost
    <3> QED BY <3>1, <3>3, <3>4
  <2>2. CASE Still(j)
    <3> PICK n : n = receives[j]
      OBVIOUS
    <3> DEFINE d == <<j, n>>
    <3>1. Held(d) \/ d \in fault
      BY <2>2 DEF Still, DeliveryInv, NoDeliveryVanishes
    <3>2. ASSUME NEW w \in Worker, Ack(w), Delivery(w) = d, Delete(job[w], receipt[w])
          PROVE  FALSE
      <4>1. job[w] = j /\ receipt[w] = receives[j]
        BY <3>2 DEF Delivery
      <4> QED
        BY <2>2, <3>2, <4>1 DEF Still, Delete, Current, TypeOK, QueueTypeOK
    <3>3. Held(d)' \/ d \in fault'
      BY <3>1, <3>2, LetGo, FaultMonotone
    <3> QED
      BY <2>2, <3>3 DEF Still, Held
  <2>3. ~Sent(j) /\ ~Redrive(j) /\ ~ExpireVisibility(j) /\ ~Acked(j)
    BY DEF Sent, Redrive, ExpireVisibility, ShowAgain, Acked, TypeOK, QueueTypeOK
  <2> QED
    BY <2>1, <2>2, <2>3, MessageMoves
<1>2. ASSUME NEW j \in Job \ Malformed, status'[j] # "deleted",
             NEW n \in 1..receives'[j], n < receives'[j] \/ status'[j] # "inflight"
      PROVE  <<j, n>> \in fault'
  <2>1. receives[j] \in Nat /\ receives'[j] \in Nat
    BY QueueAssumption DEF TypeOK, QueueTypeOK
  <2>2. \A m \in 1..receives[j] :
            status[j] # "deleted" /\ (m < receives[j] \/ status[j] # "inflight")
                => <<j, m>> \in fault'
    BY FaultMonotone DEF DeliveryInv
  <2>3. CASE Still(j)
    BY <1>2, <2>2, <2>3 DEF Still
  <2>4. CASE Sent(j) \/ Redrive(j)
    BY <1>2, <2>2, <2>4 DEF Sent, Redrive
  <2>5. CASE Lost(j)
    <3>1. HandOut(j)
      BY <2>5 DEF Lost, Receive, ReceiveLost
    <3>2. /\ status[j] = "visible" /\ status'[j] = "inflight"
          /\ receives'[j] = receives[j] + 1
      BY <3>1 DEF HandOut, TypeOK, QueueTypeOK
    <3>3. n \in 1..receives[j]
      BY <1>2, <2>1, <3>2
    <3> QED BY <2>2, <3>2, <3>3
  <2>6. CASE ExpireVisibility(j)
    <3>1. status[j] = "inflight" /\ receives'[j] = receives[j]
      BY <2>6 DEF ExpireVisibility, ShowAgain
    <3>2. CASE n < receives[j]
      BY <2>2, <3>1, <3>2
    <3>3. CASE n = receives[j]
      BY <2>6, <3>1, <3>3 DEF ExpireVisibility, DeliveryInv, NoDeliveryVanishes
    <3> QED BY <2>1, <3>1, <3>2, <3>3
  <2>7. ~Acked(j)
    BY <1>2 DEF Acked
  <2> QED
    BY <2>3, <2>4, <2>5, <2>6, <2>7, MessageMoves
<1>3. ASSUME NEW j \in Job, status'[j] = "dead" PROVE receives'[j] = MaxReceive
  <2>1. CASE Still(j)
    BY <1>3, <2>1 DEF Still, DeliveryInv
  <2>2. CASE Redrive(j)
    BY <2>2 DEF Redrive
  <2>3. ~Sent(j) /\ ~Lost(j) /\ ~ExpireVisibility(j) /\ ~Acked(j)
    BY <1>3 DEF Sent, Lost, Receive, ReceiveLost, HandOut, ExpireVisibility,
                ShowAgain, Acked, TypeOK, QueueTypeOK
  <2> QED
    BY <2>1, <2>2, <2>3, MessageMoves
<1> QED
  BY <1>1, <1>2, <1>3 DEF DeliveryInv

-----------------------------------------------------------------------------

IInv == TypeOK /\ WorkerInv /\ StoreInv /\ AppliedInv /\ DeliveryInv

LEMMA InitIInv == Init => IInv
<1> SUFFICES ASSUME Init PROVE IInv
  OBVIOUS
<1>1. TypeOK /\ WorkerInv
  BY TypeInit
<1>2. StoreInv
  BY DEF Init, StoreInv, StoredSoFar, ManifestComplete, MediaResolvable, Kind
<1>3. AppliedInv
  BY WorkerAssumption
     DEF Init, QueueInit, AppliedInv, AckedMeansApplied, AppliedStaysSearchable
<1>4. DeliveryInv
  BY DEF Init, QueueInit, DeliveryInv, NoDeliveryVanishes
<1> QED
  BY <1>1, <1>2, <1>3, <1>4 DEF IInv

LEMMA StepIInv == IInv /\ [Next]_vars => IInv'
  BY TypeStep, ProgressStep, StoreStep, AppliedStep, DeliveryStep DEF IInv

(* The inductive invariant holds in every reachable state. *)
THEOREM Invariance == Spec => []IInv
  BY InitIInv, StepIInv, PTL DEF Spec

(* Types, for every instance: in particular no message is handed out more  *)
(* than maxReceiveCount times and no upload stage is run beyond the last.  *)
THEOREM TypeCorrect == Spec => []TypeOK
<1>1. IInv => TypeOK
  BY DEF IInv
<1> QED
  BY <1>1, Invariance, PTL

(* A deleted message was applied: run_worker deletes after handle only. *)
THEOREM AckSafety == Spec => []AckedMeansApplied
<1>1. IInv => AckedMeansApplied
  BY DEF IInv, AppliedInv
<1> QED
  BY <1>1, Invariance, PTL

(* No redelivery or concurrent delivery removes a row a job committed. *)
THEOREM SearchableSafety == Spec => []AppliedStaysSearchable
<1>1. IInv => AppliedStaysSearchable
  BY DEF IInv, AppliedInv
<1> QED
  BY <1>1, Invariance, PTL

(* A 202 answer of admin_ingest is kept. *)
THEOREM AcceptedSafety == Spec => []AcceptedIsKept
<1>1. IInv => AcceptedIsKept
  BY DEF IInv, AppliedInv, AckedMeansApplied, AcceptedIsKept, TypeOK, QueueTypeOK,
         Status
<1> QED
  BY <1>1, Invariance, PTL

(* Every committed row's images are stored. *)
THEOREM MediaSafety == Spec => []MediaResolvable
<1>1. IInv => MediaResolvable
  BY DEF IInv, StoreInv
<1> QED
  BY <1>1, Invariance, PTL

(* A stored manifest names stored objects only, also in a shared namespace. *)
THEOREM ManifestSafety == Spec => []ManifestComplete
<1>1. IInv => ManifestComplete
  BY DEF IInv, StoreInv
<1> QED
  BY <1>1, Invariance, PTL

(* Readers of the object store find what rows and manifests refer to,      *)
(* however many papers and collections share an artifact namespace.        *)
THEOREM ArtifactSafety == Spec => []ArtifactsIntact
BY MediaSafety, ManifestSafety, PTL DEF ArtifactsIntact

(* A delivery in flight is being worked on, or a fault explains it. *)
THEOREM DeliverySafety == Spec => []NoDeliveryVanishes
<1>1. IInv => NoDeliveryVanishes
  BY DEF IInv, DeliveryInv
<1> QED
  BY <1>1, Invariance, PTL

(* A well-formed job is buried after MaxReceive faults, one per delivery. *)
THEOREM DeadLetterSafety == Spec => []DeadLettersEarned
<1>1. IInv => DeadLettersEarned
  BY DEF IInv, DeliveryInv, DeadLettersEarned
<1> QED
  BY <1>1, Invariance, PTL
-----------------------------------------------------------------------------

LEMMA InitPromise == Init => Promise!Init
  BY DEF Init, QueueInit, Promise!Init, PhaseOf, NoRow, Promise!NoRow

(* A step that leaves the promise's variables alone. *)
LEMMA PromiseStutter ==
    ASSUME UNCHANGED <<rows, done>>, \A j \in Job : PhaseOf(status'[j]) = PhaseOf(status[j])
    PROVE  UNCHANGED Promise!promiseVars
BY DEF Promise!promiseVars

(* A step that moves one message on and touches nothing else shown. *)
LEMMA PromiseMoves ==
    ASSUME TypeOK, NEW j \in Job, UNCHANGED <<rows, done>>,
           NEW s \in Status, status' = [status EXCEPT ![j] = s],
           \/ status[j] = "unsent" /\ s = "visible"
           \/ status[j] \in {"visible", "inflight"} /\ s = "dead"
           \/ status[j] \in {"visible", "inflight"} /\ s = "deleted" /\ done[j] # NotApplied
           \/ status[j] \in {"visible", "inflight"} /\ s \in {"visible", "inflight"}
    PROVE  [Promise!Next]_(Promise!promiseVars)
<1> DEFINE Shown == [i \in Job |-> PhaseOf(status[i])]
<1>1. [i \in Job |-> PhaseOf(status'[i])] = [Shown EXCEPT ![j] = PhaseOf(s)]
  BY DEF TypeOK, QueueTypeOK
<1>2. Shown[j] = PhaseOf(status[j])
  OBVIOUS
<1>3. /\ PhaseOf("unsent") = "unsent" /\ PhaseOf("visible") = "owed"
      /\ PhaseOf("inflight") = "owed" /\ PhaseOf("dead") = "dead"
      /\ PhaseOf("deleted") = "acknowledged"
  BY DEF PhaseOf
<1>4. CASE status[j] = "unsent" /\ s = "visible"
  <2>1. Promise!Send(j)
    BY <1>1, <1>2, <1>3, <1>4 DEF Promise!Send
  <2> QED BY <2>1 DEF Promise!Next
<1>5. CASE status[j] \in {"visible", "inflight"} /\ s = "dead"
  <2>1. Promise!Bury(j)
    BY <1>1, <1>2, <1>3, <1>5 DEF Promise!Bury
  <2> QED BY <2>1 DEF Promise!Next
<1>6. CASE status[j] \in {"visible", "inflight"} /\ s = "deleted" /\ done[j] # NotApplied
  <2>1. Promise!Acknowledge(j)
    BY <1>1, <1>2, <1>3, <1>6 DEF Promise!Acknowledge
  <2> QED BY <2>1 DEF Promise!Next
<1>7. CASE status[j] \in {"visible", "inflight"} /\ s \in {"visible", "inflight"}
  <2>1. \A i \in Job : PhaseOf(status'[i]) = PhaseOf(status[i])
    BY <1>3, <1>7 DEF TypeOK, QueueTypeOK
  <2> QED BY <2>1, PromiseStutter
<1> QED
  BY <1>4, <1>5, <1>6, <1>7

LEMMA StepPromise == IInv /\ [Next]_vars => [Promise!Next]_(Promise!promiseVars)
<1> SUFFICES ASSUME IInv, [Next]_vars PROVE [Promise!Next]_(Promise!promiseVars)
  OBVIOUS
<1> TypeOK /\ WorkerInv
  BY DEF IInv
<1>1. ASSUME UNCHANGED <<rows, done>>, UNCHANGED status
      PROVE  [Promise!Next]_(Promise!promiseVars)
  BY <1>1, PromiseStutter
<1>2. ASSUME NEW j \in Job, UNCHANGED <<rows, done>>,
             Enqueue(j) \/ HandOut(j) \/ Redrive(j) \/ ShowAgain(j)
      PROVE  [Promise!Next]_(Promise!promiseVars)
  <2>1. CASE Enqueue(j)
    BY <1>2, <2>1, PromiseMoves DEF Enqueue, Status
  <2>2. CASE HandOut(j)
    BY <1>2, <2>2, PromiseMoves DEF HandOut, Status
  <2>3. CASE Redrive(j)
    BY <1>2, <2>3, PromiseMoves DEF Redrive, Status
  <2>4. CASE ShowAgain(j)
    BY <1>2, <2>4, PromiseMoves DEF ShowAgain, Status
  <2> QED BY <1>2, <2>1, <2>2, <2>3, <2>4
<1>3. ASSUME NEW w \in Worker, WorkerNext(w) PROVE [Promise!Next]_(Promise!promiseVars)
  <2>1. CASE Start(w) \/ Sigterm(w) \/ LeaveLoop(w) \/ EnterReceive(w)
             \/ EmptyReceive(w) \/ Kill(w) \/ Fail(w) \/ Fetch(w) \/ Convert(w)
             \/ UploadNext(w) \/ ParseChunks(w) \/ EnsureIndexes(w)
    BY <1>1, <2>1 DEF Start, Sigterm, LeaveLoop, EnterReceive, EmptyReceive, Kill,
                      Fail, Fetch, Convert, UploadNext, ParseChunks, EnsureIndexes,
                      queueVars
  <2>2. ASSUME NEW j \in Job, Receive(w, j) \/ ReceiveLost(w, j) \/ DeadLetter(w, j)
        PROVE  [Promise!Next]_(Promise!promiseVars)
    BY <1>2, <2>2 DEF Receive, ReceiveLost, DeadLetter
  <2>3. CASE ParseNothing(w)
    <3>1. /\ job[w] \in Job /\ status[job[w]] # "unsent" /\ UNCHANGED <<rows, queueVars>>
          /\ \E why \in Empty :
                done' = [done EXCEPT ![job[w]] = IF @ = NotApplied THEN why ELSE @]
      BY <2>3 DEF ParseNothing, WorkerInv, Progress, Busy
    <3>2. CASE done[job[w]] = NotApplied
      <4>1. PhaseOf(status[job[w]]) # "unsent"
        BY <3>1 DEF PhaseOf, TypeOK, QueueTypeOK, Status
      <4>2. Promise!ApplyNothing(job[w])
        BY <3>1, <3>2, <4>1 DEF Promise!ApplyNothing, queueVars, TypeOK
      <4> QED BY <3>1, <4>2 DEF Promise!Next
    <3>3. CASE done[job[w]] # NotApplied
      <4>1. done' = done
        BY <3>1, <3>3 DEF TypeOK
      <4> QED BY <1>1, <3>1, <4>1 DEF queueVars
    <3> QED BY <3>2, <3>3
  <2>4. CASE IndexChunks(w)
    <3>1. /\ job[w] \in Job /\ version[w] \in Version /\ status[job[w]] # "unsent"
          /\ rows' = Upsert(PaperOf[job[w]], version[w])
          /\ done' = [done EXCEPT ![job[w]] = version[w]]
          /\ UNCHANGED queueVars
      BY <2>4, CommitOf
    <3>2. PhaseOf(status[job[w]]) # "unsent"
      BY <3>1 DEF PhaseOf, TypeOK, QueueTypeOK, Status
    <3>3. Promise!Apply(job[w], version[w])
      BY <3>1, <3>2 DEF Promise!Apply, Promise!Upsert, Upsert, queueVars
    <3> QED BY <3>1, <3>3 DEF Promise!Next
  <2>5. CASE Ack(w)
    <3>1. /\ job[w] \in Job /\ done[job[w]] # NotApplied /\ UNCHANGED <<rows, done>>
          /\ \/ Delete(job[w], receipt[w])
             \/ UNCHANGED status
      BY <2>5 DEF Ack, WorkerInv, Progress, Busy, queueVars
    <3>2. CASE /\ status[job[w]] \in {"visible", "inflight"}
               /\ status' = [status EXCEPT ![job[w]] = "deleted"]
      BY <3>1, <3>2, PromiseMoves DEF Status
    <3> QED BY <1>1, <3>1, <3>2 DEF Delete
  <2> QED
    BY <1>3, <2>1, <2>2, <2>3, <2>4, <2>5 DEF WorkerNext, JobStep
<1>4. ASSUME NEW j \in Job, Submit(j) \/ SendMalformed(j) \/ ExpireVisibility(j)
      PROVE  [Promise!Next]_(Promise!promiseVars)
  BY <1>1, <1>2, <1>4 DEF Submit, SendMalformed, ExpireVisibility, queueVars
<1>5. ASSUME NEW p \in Paper, ReplacePdf(p) PROVE [Promise!Next]_(Promise!promiseVars)
  BY <1>1, <1>5 DEF ReplacePdf, queueVars
<1>6. CASE UNCHANGED vars
  BY <1>1, <1>6 DEF vars
<1> QED
  BY <1>3, <1>4, <1>5, <1>6 DEF Next

(* Queue, workers and stores implement the promise: whatever crashes,      *)
(* duplicates and stale receipts do, the index changes by whole upserts    *)
(* and a job is acknowledged only after it was applied.                    *)
THEOREM Implements == Spec => KeepsPromise
<1>1. Init => Promise!Init
  BY InitPromise
<1>2. IInv /\ [Next]_vars => [Promise!Next]_(Promise!promiseVars)
  BY StepPromise
<1> QED
  BY <1>1, <1>2, Invariance, PTL DEF Spec, KeepsPromise, Promise!Spec

-----------------------------------------------------------------------------
(* Bounds on what is left of a message and of a worker that is to stop.    *)

(* How often a message may still move: two moves per delivery. *)
MovesLeft(j) ==
    CASE status[j] = "unsent" -> 2 * MaxReceive + 2
      [] status[j] = "inflight" -> 2 * (MaxReceive - receives[j]) + 2
      [] status[j] = "visible" -> 2 * (MaxReceive - receives[j]) + 1
      [] status[j] \in {"deleted", "dead"} -> 0

MessageAdvances(j) ==
    \/ status'[j] = status[j] /\ receives'[j] = receives[j]
    \/ MovesLeft(j)' < MovesLeft(j)

(* A message settles after at most MaxReceive deliveries, whatever becomes *)
(* of each: redelivery cannot go on for ever.                              *)
THEOREM DeliveriesRunOut ==
    Spec => /\ [](\A j \in Job : MovesLeft(j) \in 0..(2 * MaxReceive + 2))
            /\ [][\A j \in Job : MessageAdvances(j)]_vars
<1>1. ASSUME TypeOK, QueueStep, NEW j \in Job
      PROVE  MessageAdvances(j)
  <2> USE DEF TypeOK, QueueTypeOK, Status
  <2>1. /\ receives[j] \in Nat /\ MaxReceive \in Nat /\ receives[j] <= MaxReceive
        /\ MaxReceive - receives[j] \in Nat
    BY <1>1, QueueAssumption
  <2>2. ASSUME NEW i \in Job, i # j,
               Enqueue(i) \/ HandOut(i) \/ Redrive(i) \/ ShowAgain(i)
        PROVE  MessageAdvances(j)
    BY <1>1, <2>2 DEF Enqueue, HandOut, Redrive, ShowAgain, MessageAdvances
  <2>3. CASE Enqueue(j)
    <3>1. /\ status[j] = "unsent" /\ status'[j] = "visible" /\ receives'[j] = receives[j]
      BY <1>1, <2>3 DEF Enqueue
    <3> QED  BY <2>1, <3>1 DEF MessageAdvances, MovesLeft
  <2>4. CASE HandOut(j)
    <3>1. /\ status[j] = "visible" /\ status'[j] = "inflight"
          /\ receives'[j] = receives[j] + 1
      BY <1>1, <2>4 DEF HandOut
    <3>2. MovesLeft(j) = 2 * (MaxReceive - receives[j]) + 1
      BY <3>1 DEF MovesLeft
    <3>3. MovesLeft(j)' = 2 * (MaxReceive - (receives[j] + 1)) + 2
      BY <3>1 DEF MovesLeft
    <3> QED  BY <2>1, <3>2, <3>3 DEF MessageAdvances
  <2>5. CASE Redrive(j)
    <3>1. status[j] = "visible" /\ status'[j] = "dead"
      BY <1>1, <2>5 DEF Redrive
    <3> QED  BY <2>1, <3>1 DEF MessageAdvances, MovesLeft
  <2>6. CASE ShowAgain(j)
    <3>1. /\ status[j] = "inflight" /\ status'[j] = "visible"
          /\ receives'[j] = receives[j]
      BY <1>1, <2>6 DEF ShowAgain
    <3> QED  BY <2>1, <3>1 DEF MessageAdvances, MovesLeft
  <2>7. ASSUME NEW w \in Worker, Delete(job[w], receipt[w])
        PROVE  MessageAdvances(j)
    <3>1. receives' = receives
      BY <2>7 DEF Delete
    <3>2. CASE status'[j] = status[j]
      BY <3>1, <3>2 DEF MessageAdvances
    <3>3. CASE status[j] \in {"visible", "inflight"} /\ status'[j] = "deleted"
      BY <2>1, <3>1, <3>3 DEF MessageAdvances, MovesLeft
    <3> QED  BY <1>1, <2>7, <3>2, <3>3 DEF Delete
  <2>8. CASE UNCHANGED queueVars
    BY <2>8 DEF queueVars, MessageAdvances
  <2> QED  BY <1>1, <2>2, <2>3, <2>4, <2>5, <2>6, <2>7, <2>8 DEF QueueStep
<1>2. TypeOK /\ [Next]_vars => [\A j \in Job : MessageAdvances(j)]_vars
  BY <1>1, QueueMoves
<1>3. TypeOK => \A j \in Job : MovesLeft(j) \in 0..(2 * MaxReceive + 2)
  <2> SUFFICES ASSUME TypeOK, NEW j \in Job
               PROVE  MovesLeft(j) \in 0..(2 * MaxReceive + 2)
    OBVIOUS
  <2>1. receives[j] \in 0..MaxReceive /\ MaxReceive \in Nat
    BY QueueAssumption DEF TypeOK, QueueTypeOK
  <2>2. CASE status[j] \in {"unsent", "deleted", "dead"}
    BY <2>1, <2>2 DEF MovesLeft
  <2>3. CASE status[j] = "inflight"
    BY <2>1, <2>3 DEF MovesLeft
  <2>4. CASE status[j] = "visible"
    BY <2>1, <2>4 DEF MovesLeft
  <2> QED  BY <2>2, <2>3, <2>4 DEF TypeOK, QueueTypeOK, Status
<1> QED  BY <1>2, <1>3, TypeCorrect, PTL DEF Spec

(* How many steps a worker may take before it looks at the stop event. *)
Ahead(w) ==
    CASE pc[w] = "off" -> 0 [] pc[w] = "loop" -> 1 [] pc[w] = "ack" -> 2
      [] pc[w] = "ddl" -> 3 [] pc[w] = "index" -> 4 [] pc[w] = "parse" -> 5
      [] pc[w] = "upload" -> 11 - puts[w] [] pc[w] = "convert" -> 12
      [] pc[w] = "fetch" -> 13 [] pc[w] = "receive" -> 14

Stops(w) ==
    stop[w] /\ pc[w] # "off" =>
        stop'[w] /\ (Unmoved(w) \/ Ahead(w)' < Ahead(w))

LEMMA StopKept ==
    ASSUME TypeOK, [Next]_vars, NEW v \in Worker, stop[v], pc[v] # "off"
    PROVE  stop'[v]
<1> USE DEF TypeOK
<1>1. ASSUME NEW w \in Worker, WorkerNext(w)
      PROVE  stop'[v]
  <2>1. CASE Start(w) \/ Sigterm(w)
    BY <2>1 DEF Start, Sigterm
  <2>2. CASE UNCHANGED stop
    BY <2>2
  <2> QED
    BY <1>1, <2>1, <2>2
       DEF WorkerNext, JobStep, LeaveLoop, EnterReceive, EmptyReceive, Kill, Receive,
           ReceiveLost, DeadLetter, Fail, Fetch, Convert, UploadNext, ParseChunks,
           ParseNothing, IndexChunks, EnsureIndexes, Ack
<1>2. CASE UNCHANGED stop
  BY <1>2
<1> QED
  BY <1>1, <1>2 DEF Next, vars, Submit, SendMalformed, ExpireVisibility, ReplacePdf

LEMMA AheadTyped ==
    ASSUME TypeOK, WorkerInv, NEW w \in Worker
    PROVE  Ahead(w) \in 0..14 /\ (pc[w] # "off" => Ahead(w) > 0)
<1> USE DEF TypeOK
<1>1. CASE pc[w] = "upload"
  <2>1. puts[w] \in 0..5
    BY DEF UploadOrder
  <2> QED  BY <1>1, <2>1 DEF Ahead
<1>2. CASE pc[w] # "upload"
  BY <1>2 DEF Ahead, Place, Busy
<1> QED  BY <1>1, <1>2

LEMMA StopAdvances ==
    ASSUME TypeOK, WorkerInv, NEW w \in Worker, WorkerNext(w), stop[w], pc[w] # "off"
    PROVE  Unmoved(w) \/ Ahead(w)' < Ahead(w)
<1> USE DEF TypeOK, Goto
<1>1. /\ puts[w] \in 0..5
      /\ pc[w] = "upload" => puts[w] < 5
  BY DEF WorkerInv, Progress, UploadOrder
<1>2. pc[w] # "off" => Ahead(w) \in 1..14
  BY AheadTyped
<1>3. CASE pc'[w] = "off"
  <2>1. Ahead(w)' = 0
    BY <1>3 DEF Ahead
  <2> QED  BY <1>2, <2>1
<1>4. ASSUME pc'[w] = "loop", pc[w] \in Busy \cup {"receive"}
      PROVE  Ahead(w)' < Ahead(w)
  <2>1. Ahead(w)' = 1
    BY <1>4 DEF Ahead
  <2>2. Ahead(w) > 1
    BY <1>1, <1>4 DEF Ahead, Busy
  <2> QED  BY <1>2, <2>1, <2>2
<1>5. CASE Start(w) \/ EnterReceive(w)
  BY <1>5 DEF Start, EnterReceive
<1>6. CASE Sigterm(w)
  BY <1>6 DEF Sigterm, localVars, Unmoved
<1>7. CASE LeaveLoop(w) \/ Kill(w)
  BY <1>3, <1>7 DEF LeaveLoop, Kill
<1>8. CASE EmptyReceive(w) \/ Fail(w) \/ Ack(w)
  BY <1>4, <1>8 DEF EmptyReceive, Fail, Ack, Busy
<1>9. ASSUME NEW j \in Job, Receive(w, j) \/ ReceiveLost(w, j) \/ DeadLetter(w, j)
      PROVE  Unmoved(w) \/ Ahead(w)' < Ahead(w)
  <2>1. CASE DeadLetter(w, j)
    BY <2>1 DEF DeadLetter, localVars, Unmoved
  <2>2. CASE ReceiveLost(w, j)
    BY <1>3, <2>2 DEF ReceiveLost
  <2>3. CASE Receive(w, j)
    <3>1. pc[w] = "receive" /\ pc'[w] \in {"loop", "fetch"}
      BY <2>3 DEF Receive
    <3> QED  BY <1>4, <3>1 DEF Ahead
  <2> QED  BY <1>9, <2>1, <2>2, <2>3
<1>10. CASE Fetch(w)
  BY <1>10 DEF Fetch, Ahead
<1>11. CASE Convert(w)
  <2>1. pc[w] = "convert" /\ pc'[w] = "upload" /\ puts'[w] = puts[w] /\ puts[w] = 0
    BY <1>11 DEF Convert, WorkerInv, Progress
  <2> QED  BY <2>1 DEF Ahead
<1>12. CASE UploadNext(w)
  <2>1. pc[w] = "upload" /\ puts'[w] = puts[w] + 1 /\ pc'[w] \in {"upload", "parse"}
    BY <1>12 DEF UploadNext
  <2>2. CASE pc'[w] = "upload"
    BY <1>1, <2>1, <2>2 DEF Ahead
  <2>3. CASE pc'[w] = "parse"
    BY <1>1, <2>1, <2>3 DEF Ahead
  <2> QED  BY <2>1, <2>2, <2>3
<1>13. CASE ParseChunks(w) \/ ParseNothing(w) \/ IndexChunks(w) \/ EnsureIndexes(w)
  BY <1>13 DEF ParseChunks, ParseNothing, IndexChunks, EnsureIndexes, Ahead
<1> QED
  BY <1>5, <1>6, <1>7, <1>8, <1>9, <1>10, <1>11, <1>12, <1>13 DEF WorkerNext, JobStep

(* A worker that was asked to stop ends the job it is on, or one it is     *)
(* about to receive, and takes no other: it is off after at most 14 moves. *)
THEOREM StopsAfterJob ==
    Spec => /\ [](\A w \in Worker : Ahead(w) \in 0..14)
            /\ [][\A w \in Worker : Stops(w)]_vars
<1>1. ASSUME IInv, [Next]_vars, NEW w \in Worker
      PROVE  Stops(w)
  BY <1>1, Locality, StopKept, StopAdvances DEF IInv, Stops
<1>2. IInv /\ [Next]_vars => [\A w \in Worker : Stops(w)]_vars
  BY <1>1
<1>3. IInv => \A w \in Worker : Ahead(w) \in 0..14
  BY AheadTyped DEF IInv
<1> QED  BY <1>2, <1>3, Invariance, PTL DEF Spec

=============================================================================
