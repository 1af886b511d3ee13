--------------------------- MODULE OperatorProofs ---------------------------
(***************************************************************************)
(* What ingest_papers and index_chunks_postgres leave behind, for any      *)
(* folder, any number of runs and whatever convert_papers does in between. *)
(***************************************************************************)
EXTENDS OperatorScripts, FiniteSetTheorems, TLAPS

-----------------------------------------------------------------------------
(* What ingest_papers stages and sends.                                    *)

(* Between its put and its message a paper is in hand, and staged.         *)
HandInv == step = "enqueue" => Left # {} /\ InHand \in staged

IInv == StagedAndSent /\ HandInv

LEMMA InHandIsLeft == Left # {} => InHand \in Left
BY DEF InHand

(* Who neither stages nor sends nor starts a run changes nothing.          *)
LEMMA Frame ==
    ASSUME IInv, UNCHANGED <<step, action, result, staged, sent, trouble>>
    PROVE  IInv'
BY DEF IInv, StagedAndSent, HandInv, Left, InHand

LEMMA PutStep ==
    ASSUME IInv, PutFile
    PROVE  IInv'
<1>1. Left' = Left /\ InHand' = InHand
  BY DEF PutFile, Left, InHand
<1>2. StagedAndSent'
  BY <1>1 DEF IInv, StagedAndSent, PutFile
<1>3. HandInv'
  BY <1>1 DEF HandInv, PutFile
<1> QED BY <1>2, <1>3 DEF IInv

LEMMA EnqueueStep ==
    ASSUME IInv, Enqueue
    PROVE  IInv'
<1>1. InHand \in staged
  BY DEF IInv, HandInv, Enqueue
<1>2. StagedAndSent'
  BY <1>1 DEF IInv, StagedAndSent, Enqueue
<1>3. HandInv'
  BY DEF HandInv, Enqueue
<1> QED BY <1>2, <1>3 DEF IInv

(* Whatever a failed call has done, the paper in hand is recorded.         *)
LEMMA FailStep ==
    ASSUME IInv, SubmitFails
    PROVE  IInv'
<1>1. step' = "stage" /\ trouble' = trouble \cup {InHand}
  BY DEF SubmitFails
<1>2. HandInv'
  BY <1>1 DEF HandInv
<1>3. \/ UNCHANGED <<staged, sent>>
      \/ staged' = staged \cup {InHand} /\ UNCHANGED sent
      \/ InHand \in staged /\ sent' = sent \cup {InHand} /\ UNCHANGED staged
  BY DEF SubmitFails, IInv, HandInv
<1>4. StagedAndSent'
  BY <1>1, <1>3 DEF IInv, StagedAndSent
<1> QED BY <1>2, <1>4 DEF IInv

(* A killed run had its last paper in hand.                                *)
LEMMA KilledStep ==
    ASSUME IInv, SubmitKilled
    PROVE  IInv'
<1>1. step' = "idle" /\ UNCHANGED <<staged, sent>>
  BY DEF SubmitKilled
<1>2. HandInv'
  BY <1>1 DEF HandInv
<1>3. \A f : step = "enqueue" /\ f = InHand => f \in trouble'
  BY InHandIsLeft DEF SubmitKilled, IInv, HandInv
<1>4. trouble \subseteq trouble'
  BY DEF SubmitKilled
<1>5. StagedAndSent'
  BY <1>1, <1>3, <1>4 DEF IInv, StagedAndSent
<1> QED BY <1>2, <1>5 DEF IInv

(* A run that starts or reports stages and sends nothing.                  *)
LEMMA PlanStep ==
    ASSUME IInv, PlanActions \/ Report
    PROVE  IInv'
<1>1. /\ step # "enqueue" /\ step' # "enqueue"
      /\ UNCHANGED <<staged, sent, trouble>>
  BY DEF PlanActions, Report
<1> QED BY <1>1 DEF IInv, StagedAndSent, HandInv

LEMMA Inductive == IInv /\ [Next]_vars => IInv'
<1> SUFFICES ASSUME IInv, [Next]_vars PROVE IInv'
  OBVIOUS
<1>1. CASE Convert
  BY <1>1, Frame DEF Convert, Elsewhere
<1>2. CASE Submit
  BY <1>2, PutStep, EnqueueStep, FailStep, KilledStep, PlanStep
     DEF Submit, SubmitStep
<1>3. CASE Index
  BY <1>3, Frame DEF Index, Elsewhere
<1>4. CASE ReplacePdf
  BY <1>4, Frame DEF ReplacePdf, Elsewhere
<1>5. CASE UNCHANGED vars
  BY <1>5, Frame DEF vars, submitVars
<1> QED BY <1>1, <1>2, <1>3, <1>4, <1>5 DEF Next

(* However often the scripts run, fail and are killed: a message is only   *)
(* about a staged paper, and a staged paper without one is in hand or was  *)
(* when a run failed or was killed.                                        *)
THEOREM SubmissionSafety == Spec => []StagedAndSent
<1>1. Init => IInv
  BY DEF Init, SubmitInit, IInv, StagedAndSent, HandInv
<1>2. IInv => StagedAndSent
  BY DEF IInv
<1> QED BY <1>1, <1>2, Inductive, PTL DEF Spec

-----------------------------------------------------------------------------
(* What index_chunks_postgres pairs: chunks and vectors.                   *)

Output == [of : 0..MaxVersion, names : SUBSET Name,
           manifest : [pdf : 0..MaxVersion, names : SUBSET Name]]

(* What is in the folder, as far as chunks are made of it.                 *)
OutputType ==
    /\ pdf \in [File -> Version]
    /\ output \in [File -> [Method -> Output]]

(* As far as there are vectors, each is its text's.                        *)
VectorInv ==
    /\ texts \in Seq(Chunk) /\ vectors \in Seq(Chunk)
    /\ Len(vectors) <= Len(texts)
    /\ \A i \in 1..Len(vectors) : vectors[i] = texts[i]
    /\ phase \in {"recreate", "insert"} => Len(vectors) = Len(texts)

EmbedInv == OutputType /\ VectorInv /\ OwnVector

LEMMA TheOutputType ==
    ASSUME OutputType, NEW f \in File, Methods(f) # {}
    PROVE  TheOutput(f) \in Output
BY DEF OutputType, TheOutput, Methods

(* MinerU writes outputs of the PDF there is.                              *)
LEMMA MineruKeepsOutputs ==
    ASSUME OutputType, RunMineru, UNCHANGED pdf
    PROVE  OutputType'
<1>1. PICK written \in SUBSET Planned("convert"), method \in Method :
          output' = [f \in File |-> IF f \in written
              THEN [output[f] EXCEPT ![method] = Converted(f, @)]
              ELSE output[f]]
  BY DEF RunMineru
<1>2. ASSUME NEW f \in File, NEW m \in Method
      PROVE  Converted(f, output[f][m]) \in Output
  <2>1. pdf[f] \in Version /\ output[f][m] \in Output
    BY DEF OutputType
  <2>2. ImagesOf[pdf[f]] \subseteq Name
    BY <2>1, ConvertAssumption
  <2>3. /\ output[f][m].names \cup ImagesOf[pdf[f]] \in SUBSET Name
        /\ pdf[f] \in 0..MaxVersion
    BY <2>1, <2>2, FolderAssumption DEF Output, Version
  <2>4. \A o \in Output, v \in 0..MaxVersion, s \in SUBSET Name :
            [o EXCEPT !.of = v, !.names = s] \in Output
    BY DEF Output
  <2> QED BY <2>1, <2>3, <2>4 DEF Converted
<1>3. \A f \in File : output'[f] \in [Method -> Output]
  BY <1>1, <1>2 DEF OutputType
<1> QED BY <1>1, <1>3 DEF OutputType

(* An upload leaves a manifest beside the output.                          *)
LEMMA UploadKeepsOutputs ==
    ASSUME OutputType, Upload, UNCHANGED pdf
    PROVE  OutputType'
<1>1. CASE stage = "local"
  <2> DEFINE New == [m \in Method |-> IF m \in Methods(Current)
                        THEN [output[Current][m] EXCEPT !.manifest = NewManifest(Current)]
                        ELSE output[Current][m]]
  <2>1. output' = [output EXCEPT ![Current] = New]
    BY <1>1 DEF Upload
  <2>2. ASSUME Current \in File PROVE New \in [Method -> Output]
    <3>1. ASSUME NEW m \in Methods(Current)
          PROVE  NewManifest(Current) \in [pdf : 0..MaxVersion, names : SUBSET Name]
      <4>1. TheOutput(Current) \in Output /\ pdf[Current] \in Version
        BY <2>2, <3>1, TheOutputType DEF OutputType
      <4> QED BY <4>1, FolderAssumption DEF NewManifest, Output, Version
    <3>2. ASSUME NEW m \in Method PROVE New[m] \in Output
      <4>1. output[Current][m] \in Output
        BY <2>2 DEF OutputType
      <4>2. CASE m \in Methods(Current)
        <5>1. [output[Current][m] EXCEPT !.manifest = NewManifest(Current)] \in Output
          BY <3>1, <4>1, <4>2 DEF Output
        <5> QED BY <4>2, <5>1
      <4> QED BY <4>1, <4>2
    <3> QED BY <3>2
  <2>3. output' \in [File -> [Method -> Output]]
    BY <2>1, <2>2 DEF OutputType
  <2> QED BY <2>3 DEF OutputType
<1>2. CASE stage # "local"
  BY <1>2 DEF Upload, OutputType
<1> QED BY <1>1, <1>2

(* Injective rows of the right number are rows of every text.              *)
LEMMA EveryTextHasItsRow ==
    ASSUME NEW n \in Nat, NEW r \in [1..n -> 1..n],
           \A i, j \in 1..n : r[i] = r[j] => i = j,
           NEW t \in 1..n
    PROVE  \E k \in 1..n : r[k] = t
<1>1. r \in Injection(1..n, 1..n)
  BY DEF Injection, IsInjective
<1>2. IsFiniteSet(1..n)
  BY FS_Interval
<1>3. r \in Surjection(1..n, 1..n)
  BY <1>1, <1>2, FS_Injection
<1> QED BY <1>3 DEF Surjection

(* So each text gets the row its index says, whatever the order.           *)
LEMMA EachAtItsPlace ==
    ASSUME NEW n \in Nat, NEW a \in Answer(n), Accepted(a, n),
           NEW i \in 1..n
    PROVE  Ordered(a, n)[i] = i
<1>1. CASE a.indexed
  <2>1. a.rows \in [1..n -> 1..n]
    <3>1. PICK k \in 0..(n + 1) : a.rows \in [1..k -> 1..(n + 1)]
      BY DEF Answer
    <3> QED BY <1>1, <3>1 DEF Accepted
  <2>2. \E k \in 1..n : a.rows[k] = i
    <3> DEFINE r == a.rows
    <3>1. r \in [1..n -> 1..n]
      BY <2>1
    <3>2. \A j, k \in 1..n : r[j] = r[k] => j = k
      BY <1>1 DEF Accepted
    <3> HIDE DEF r
    <3>3. \E k \in 1..n : r[k] = i
      BY <3>1, <3>2, EveryTextHasItsRow
    <3> QED BY <3>3 DEF r
  <2> QED BY <1>1, <2>2 DEF Ordered
<1>2. CASE ~a.indexed
  BY <1>2 DEF Ordered, Answer, Accepted
<1> QED BY <1>1, <1>2

LEMMA OrderOfChunks ==
    ASSUME NEW S \in SUBSET Chunk
    PROVE  InOrder(S) \in [1..Cardinality(S) -> S] /\ InOrder(S) \in Seq(Chunk)
<1>1. IsFiniteSet(S)
  BY FS_Subset, IndexAssumption
<1>2. Cardinality(S) \in Nat /\ ExistsBijection(1..Cardinality(S), S)
  BY <1>1, FS_CardinalityType
<1>3. \E s \in [1..Cardinality(S) -> S] :
          \A i, j \in DOMAIN s : s[i] = s[j] => i = j
  BY <1>2 DEF ExistsBijection, Bijection, Injection, IsInjective
<1>4. InOrder(S) \in [1..Cardinality(S) -> S]
  BY <1>3 DEF InOrder
<1> QED BY <1>2, <1>4

LEMMA ReadStep ==
    ASSUME EmbedInv, ReadOutput, UNCHANGED <<pdf, output>>
    PROVE  EmbedInv'
<1>1. PICK parsed \in SUBSET Outputs :
          texts' = InOrder(UNION {ChunksIn(o) : o \in parsed})
  BY DEF ReadOutput
<1>2. UNION {ChunksIn(o) : o \in parsed} \subseteq Chunk
  <2>1. ASSUME NEW o \in parsed PROVE ChunksIn(o) \subseteq Chunk
    <3>1. o[1] \in File /\ o[2] \in Method /\ output[o[1]][o[2]].of # 0
      BY <2>1 DEF Outputs
    <3>2. output[o[1]][o[2]].of \in Version
      BY <3>1, FolderAssumption DEF EmbedInv, OutputType, Output, Version
    <3> QED BY <3>1, <3>2 DEF ChunksIn, Chunk
  <2> QED BY <2>1
<1>3. texts' \in Seq(Chunk) /\ vectors' = <<>> /\ phase' = "embed" /\ rows' = rows
  BY <1>1, <1>2, OrderOfChunks DEF ReadOutput
<1> QED BY <1>3 DEF EmbedInv, OutputType, VectorInv, OwnVector

LEMMA EmbedStep ==
    ASSUME EmbedInv, Embed, UNCHANGED <<pdf, output>>
    PROVE  EmbedInv'
<1> DEFINE n == BatchLen
<1>1. PICK a \in Answer(n) :
          /\ Accepted(a, n)
          /\ vectors' = [i \in 1..(Done + n) |->
                 IF i <= Done THEN vectors[i] ELSE texts[Done + Ordered(a, n)[i - Done]]]
  BY DEF Embed
<1>2. /\ texts \in Seq(Chunk) /\ vectors \in Seq(Chunk) /\ Done <= Len(texts)
      /\ Done \in Nat /\ Len(texts) \in Nat /\ Done = Len(vectors)
      /\ texts' = texts /\ rows' = rows
  BY DEF EmbedInv, VectorInv, Done, Embed
<1>3. n \in Nat /\ Done + n <= Len(texts) /\ (n >= Rest => Done + n = Len(texts))
  BY <1>2, IndexAssumption DEF BatchLen, Rest
<1>4. ASSUME NEW i \in 1..(Done + n) PROVE vectors'[i] = texts[i]
  <2>1. CASE i <= Done
    BY <1>1, <1>2, <1>3, <2>1 DEF EmbedInv, VectorInv
  <2>2. CASE i > Done
    <3>1. i - Done \in 1..n
      BY <1>2, <1>3, <2>2
    <3>2. Ordered(a, n)[i - Done] = i - Done
      BY <1>1, <1>3, <3>1, EachAtItsPlace
    <3>3. vectors'[i] = texts[Done + (i - Done)]
      BY <1>1, <1>2, <2>2, <3>2
    <3> QED BY <1>2, <1>3, <3>3
  <2> QED BY <1>2, <1>3, <2>1, <2>2
<1>5. vectors' = [i \in 1..(Done + n) |-> texts[i]]
  BY <1>1, <1>4
<1>6. vectors' \in [1..(Done + n) -> Chunk]
  BY <1>2, <1>3, <1>5
<1>7. vectors' \in Seq(Chunk) /\ Len(vectors') = Done + n
  BY <1>2, <1>3, <1>6
<1>8. phase' \in {"recreate", "insert"} => n >= Rest
  BY <1>2, <1>3 DEF Embed, Rest
<1> QED BY <1>2, <1>3, <1>4, <1>7, <1>8 DEF EmbedInv, OutputType, VectorInv, OwnVector

LEMMA InsertStep ==
    ASSUME EmbedInv, Insert, UNCHANGED <<pdf, output>>
    PROVE  EmbedInv'
<1>1. \A i \in DOMAIN texts : vectors[i] = texts[i]
  BY DEF EmbedInv, VectorInv, Insert
<1>2. OwnVector'
  BY <1>1 DEF EmbedInv, OwnVector, Insert
<1>3. texts' = <<>> /\ vectors' = <<>> /\ phase' = "idle"
  BY DEF Insert, Finished
<1> QED BY <1>2, <1>3 DEF EmbedInv, OutputType, VectorInv

LEMMA OtherIndexSteps ==
    ASSUME EmbedInv, Recreate \/ IndexEnds, UNCHANGED <<pdf, output>>
    PROVE  EmbedInv'
<1>1. CASE Recreate
  BY <1>1 DEF EmbedInv, OutputType, VectorInv, OwnVector, Recreate
<1>2. CASE IndexEnds
  BY <1>2 DEF EmbedInv, OutputType, VectorInv, OwnVector, IndexEnds, Finished
<1> QED BY <1>1, <1>2

(* The other scripts may change the folder, but index nothing.             *)
LEMMA FolderStep ==
    ASSUME EmbedInv, OutputType', UNCHANGED indexVars
    PROVE  EmbedInv'
BY DEF EmbedInv, VectorInv, OwnVector, indexVars

LEMMA ConvertKeepsOutputs ==
    ASSUME OutputType, Convert
    PROVE  OutputType'
<1>1. CASE RunMineru
  BY <1>1, MineruKeepsOutputs DEF Convert
<1>2. CASE Upload
  BY <1>2, UploadKeepsOutputs DEF Convert
<1>3. CASE UNCHANGED output
  BY <1>3 DEF Convert, OutputType
<1>4. RunMineru \/ Upload \/ UNCHANGED output
  BY DEF Convert, ConvertStep, Start, Misconfigured, Exchange, Collect,
         UploadFails, Finish, SkipUpload, Killed
<1> QED BY <1>1, <1>2, <1>3, <1>4

LEMMA EmbedInductive == EmbedInv /\ [Next]_vars => EmbedInv'
<1> SUFFICES ASSUME EmbedInv, [Next]_vars PROVE EmbedInv'
  OBVIOUS
<1>1. CASE Convert
  BY <1>1, ConvertKeepsOutputs, FolderStep DEF Convert, EmbedInv
<1>2. CASE Submit
  BY <1>2, FolderStep DEF Submit, EmbedInv, OutputType, convertVars
<1>3. CASE Index
  BY <1>3, ReadStep, EmbedStep, InsertStep, OtherIndexSteps
     DEF Index, IndexStep, convertVars
<1>4. CASE ReplacePdf
  <2>1. pdf' \in [File -> Version] /\ UNCHANGED <<output, indexVars>>
    BY <1>4, FolderAssumption
       DEF ReplacePdf, Replace, EmbedInv, OutputType, Version
  <2> QED BY <2>1, FolderStep DEF EmbedInv, OutputType
<1>5. CASE UNCHANGED vars
  BY <1>5, FolderStep DEF vars, EmbedInv, OutputType, convertVars
<1> QED BY <1>1, <1>2, <1>3, <1>4, <1>5 DEF Next

-----------------------------------------------------------------------------
(* Where the figures of the rows are.                                      *)

StoreType ==
    store \in [File -> [blobs : SUBSET Version, content : 0..MaxVersion,
                        names : SUBSET Name,
                        manifest : [pdf : 0..MaxVersion, names : SUBSET Name]]]

(* A local manifest names images of its output; when the storage has one,  *)
(* it has these images.                                                    *)
FolderInv ==
    /\ todo \subseteq File
    /\ \A f \in File, m \in Method :
          /\ output[f][m].manifest.names \subseteq output[f][m].names
          /\ output[f][m].names # {} => output[f][m].of # 0
          /\ store[f].manifest # NoManifest =>
                output[f][m].manifest.names \subseteq store[f].names

(* The manifest is put last, when the images of the one output are stored. *)
UploadInv ==
    stage \in {"manifest", "local"} =>
        /\ todo # {}
        /\ Cardinality(Methods(Current)) = 1
        /\ TheOutput(Current).names \subseteq store[Current].names

(* A chunk's figures are in an output of its paper, and in the storage     *)
(* when that has a manifest.                                               *)
Known(c) ==
    /\ c.file \in File
    /\ \A x \in c.media : \E m \in Method : x \in output[c.file][m].names
    /\ store[c.file].manifest # NoManifest =>
           c.media \subseteq store[c.file].names

ChunkInv ==
    /\ \A r \in rows : Known(r.chunk)
    /\ \A i \in DOMAIN texts : Known(texts[i])

FigureInv == OutputType /\ StoreType /\ FolderInv /\ UploadInv /\ ChunkInv

(* Outputs only grow, and a manifest that is new in the storage comes      *)
(* after all images.                                                       *)
Grows ==
    \A f \in File :
        /\ \A m \in Method : output[f][m].names \subseteq output'[f][m].names
        /\ store'[f].manifest # NoManifest =>
              \/ store[f].manifest # NoManifest /\ store[f].names \subseteq store'[f].names
              \/ \A m \in Method : output[f][m].names \subseteq store'[f].names

LEMMA ChunksStayKnown ==
    ASSUME ChunkInv, Grows, UNCHANGED <<rows, texts>>
    PROVE  ChunkInv'
<1>1. ASSUME NEW c, Known(c) PROVE Known(c)'
  BY <1>1 DEF Known, Grows
<1> QED BY <1>1 DEF ChunkInv

(* A paper with one output has all its images there.                       *)
LEMMA OneOutput ==
    ASSUME OutputType, FolderInv, NEW f \in File, Cardinality(Methods(f)) = 1
    PROVE  /\ TheOutput(f) \in Output
           /\ \A m \in Method : output[f][m].names \subseteq TheOutput(f).names
           /\ \A m \in Methods(f) : output[f][m] = TheOutput(f)
<1>1. IsFiniteSet(Methods(f))
  <2>1. Methods(f) \in SUBSET Method
    BY DEF Methods
  <2> QED BY <2>1, ConvertAssumption, FS_Subset
<1>2. PICK one : Methods(f) = {one}
  BY <1>1, FS_Singleton
<1>3. TheOutput(f) = output[f][one] /\ one \in Method
  BY <1>2 DEF TheOutput, Methods
<1>4. ASSUME NEW m \in Method, m # one PROVE output[f][m].names = {}
  <2>1. m \notin Methods(f)
    BY <1>2, <1>4
  <2> QED BY <2>1 DEF Methods, FolderInv
<1>5. \A m \in Method : output[f][m].names \subseteq TheOutput(f).names
  BY <1>3, <1>4
<1>6. TheOutput(f) \in Output
  BY <1>3 DEF OutputType
<1> QED BY <1>2, <1>3, <1>5, <1>6

LEMMA MineruStep ==
    ASSUME FigureInv, RunMineru, UNCHANGED <<pdf, rows, texts>>
    PROVE  FigureInv'
<1>1. OutputType'
  BY MineruKeepsOutputs DEF FigureInv
<1>2. PICK written \in SUBSET Planned("convert"), method \in Method :
          output' = [f \in File |-> IF f \in written
              THEN [output[f] EXCEPT ![method] = Converted(f, @)]
              ELSE output[f]]
  BY DEF RunMineru
<1>3. ASSUME NEW f \in File, NEW m \in Method
      PROVE  \/ output'[f][m] = output[f][m]
             \/ /\ output'[f][m].names = output[f][m].names \cup ImagesOf[pdf[f]]
                /\ output'[f][m].manifest = output[f][m].manifest
                /\ output'[f][m].of = pdf[f]
  <2>1. output[f] \in [Method -> Output] /\ output[f][m] \in Output
    BY DEF FigureInv, OutputType
  <2>2. output'[f][m] \in {output[f][m], Converted(f, output[f][m])}
    BY <1>2, <2>1
  <2>3. /\ Converted(f, output[f][m]).names = output[f][m].names \cup ImagesOf[pdf[f]]
        /\ Converted(f, output[f][m]).manifest = output[f][m].manifest
        /\ Converted(f, output[f][m]).of = pdf[f]
    BY <2>1 DEF Converted, Output
  <2> QED BY <2>2, <2>3
<1>4. \A f \in File : pdf[f] # 0
  BY FolderAssumption DEF FigureInv, OutputType, Version
<1>5. store' = store /\ todo' = todo /\ stage' = "collect"
  BY DEF RunMineru
<1>6. FolderInv'
  BY <1>3, <1>4, <1>5 DEF FigureInv, FolderInv
<1>7. Grows
  BY <1>3, <1>5 DEF Grows
<1>8. ChunkInv'
  BY <1>7, ChunksStayKnown DEF FigureInv
<1> QED BY <1>1, <1>5, <1>6, <1>8 DEF FigureInv, StoreType, UploadInv

LEMMA UploadStepKeeps ==
    ASSUME FigureInv, Upload, UNCHANGED <<pdf, rows, texts>>
    PROVE  FigureInv'
<1> DEFINE f == Current
<1>1. f \in File /\ todo # {} /\ Cardinality(Methods(f)) = 1
  BY DEF Upload, Current, FigureInv, FolderInv
<1>2. /\ TheOutput(f) \in Output
      /\ \A m \in Method : output[f][m].names \subseteq TheOutput(f).names
      /\ \A m \in Methods(f) : output[f][m] = TheOutput(f)
  BY <1>1, OneOutput DEF FigureInv
<1>3. OutputType'
  BY UploadKeepsOutputs DEF FigureInv
<1>4. /\ TheOutput(f).names \in SUBSET Name
      /\ TheOutput(f).of \in 0..MaxVersion
      /\ pdf[f] \in Version /\ pdf[f] \in 0..MaxVersion
      /\ NewManifest(f) \in [pdf : 0..MaxVersion, names : SUBSET Name]
      /\ NewManifest(f).names = TheOutput(f).names
  BY <1>1, <1>2, FolderAssumption
     DEF FigureInv, OutputType, Output, NewManifest, Version
<1>5. ASSUME NEW g \in File, g # f
      PROVE  store'[g] = store[g] /\ output'[g] = output[g]
  BY <1>1, <1>5 DEF Upload, Put, FigureInv, OutputType, StoreType, UploadStep
<1>6. CASE stage = "blob"
  <2>1. /\ store' = [store EXCEPT ![f].blobs = @ \cup {pdf[f]}]
        /\ output' = output /\ todo' = todo /\ stage' = "content"
    BY <1>6 DEF Upload, Put, NextStep
  <2>2. StoreType'
    BY <1>1, <1>4, <2>1 DEF FigureInv, StoreType
  <2>3. \A g \in File : store'[g].names = store[g].names /\ store'[g].manifest = store[g].manifest
    BY <1>1, <2>1 DEF FigureInv, StoreType
  <2>4. FolderInv' /\ Grows
    BY <2>1, <2>3 DEF FigureInv, FolderInv, Grows
  <2>5. ChunkInv'
    BY <2>4, ChunksStayKnown DEF FigureInv
  <2> QED BY <1>3, <2>1, <2>2, <2>4, <2>5 DEF FigureInv, UploadInv
<1>7. CASE stage = "content"
  <2>1. /\ store' = [store EXCEPT ![f].content = TheOutput(f).of]
        /\ output' = output /\ todo' = todo /\ stage' = "images"
    BY <1>7 DEF Upload, Put, NextStep
  <2>2. StoreType'
    BY <1>1, <1>4, <2>1 DEF FigureInv, StoreType
  <2>3. \A g \in File : store'[g].names = store[g].names /\ store'[g].manifest = store[g].manifest
    BY <1>1, <2>1 DEF FigureInv, StoreType
  <2>4. FolderInv' /\ Grows
    BY <2>1, <2>3 DEF FigureInv, FolderInv, Grows
  <2>5. ChunkInv'
    BY <2>4, ChunksStayKnown DEF FigureInv
  <2> QED BY <1>3, <2>1, <2>2, <2>4, <2>5 DEF FigureInv, UploadInv
<1>8. CASE stage = "images"
  <2>1. /\ store' = [store EXCEPT ![f].names = @ \cup TheOutput(f).names]
        /\ output' = output /\ todo' = todo /\ stage' = "manifest"
    BY <1>8 DEF Upload, Put, NextStep
  <2>2. StoreType'
    BY <1>1, <1>4, <2>1 DEF FigureInv, StoreType
  <2>3. /\ \A g \in File : /\ store[g].names \subseteq store'[g].names
                           /\ store'[g].manifest = store[g].manifest
        /\ TheOutput(f).names \subseteq store'[f].names
    BY <1>1, <2>1 DEF FigureInv, StoreType
  <2>4. FolderInv' /\ Grows
    BY <2>1, <2>3 DEF FigureInv, FolderInv, Grows
  <2>5. ChunkInv'
    BY <2>4, ChunksStayKnown DEF FigureInv
  <2>6. UploadInv'
    BY <1>1, <2>1, <2>3 DEF UploadInv, Current, Methods, TheOutput
  <2> QED BY <1>3, <2>2, <2>4, <2>5, <2>6 DEF FigureInv
<1>9. CASE stage = "manifest"
  <2>1. /\ store' = [store EXCEPT ![f].manifest = NewManifest(f)]
        /\ output' = output /\ todo' = todo /\ stage' = "local"
    BY <1>9 DEF Upload, Put, NextStep
  <2>2. StoreType'
    BY <1>1, <1>4, <2>1 DEF FigureInv, StoreType
  <2>3. \A g \in File : store'[g].names = store[g].names
    BY <1>1, <2>1 DEF FigureInv, StoreType
  <2>4. \A m \in Method : output[f][m].names \subseteq store'[f].names
    BY <1>1, <1>2, <1>9, <2>3 DEF FigureInv, UploadInv
  <2>5. FolderInv' /\ Grows
    BY <1>1, <1>5, <2>1, <2>3, <2>4 DEF FigureInv, FolderInv, Grows
  <2>6. ChunkInv'
    BY <2>5, ChunksStayKnown DEF FigureInv
  <2>7. UploadInv'
    BY <1>1, <1>9, <2>1, <2>3
       DEF FigureInv, UploadInv, Current, Methods, TheOutput
  <2> QED BY <1>3, <2>2, <2>5, <2>6, <2>7 DEF FigureInv
<1>10. CASE stage = "local"
  <2>1. /\ store' = store /\ todo' = todo \ {f} /\ stage' = "blob"
        /\ output' = [output EXCEPT ![f] =
              [m \in Method |-> IF m \in Methods(f)
                  THEN [@[m] EXCEPT !.manifest = NewManifest(f)]
                  ELSE @[m]]]
    BY <1>10 DEF Upload, Put, NextStep
  <2>2. ASSUME NEW m \in Method
        PROVE  /\ output'[f][m].names = output[f][m].names
               /\ output'[f][m].of = output[f][m].of
               /\ output'[f][m].manifest.names \subseteq
                      output[f][m].manifest.names \cup TheOutput(f).names
               /\ m \in Methods(f) => output'[f][m].manifest.names = output[f][m].names
               /\ m \notin Methods(f) => output'[f][m] = output[f][m]
    <3>1. output[f][m] \in Output
      BY <1>1 DEF FigureInv, OutputType
    <3>2. CASE m \in Methods(f)
      <4>1. output'[f][m] = [output[f][m] EXCEPT !.manifest = NewManifest(f)]
        BY <1>1, <2>1, <3>2 DEF FigureInv, OutputType
      <4>2. output'[f][m].manifest = NewManifest(f)
        BY <3>1, <4>1 DEF Output
      <4> QED BY <1>2, <1>4, <3>1, <3>2, <4>1, <4>2 DEF Output
    <3>3. CASE m \notin Methods(f)
      <4>1. output'[f][m] = output[f][m]
        BY <1>1, <2>1, <3>3 DEF FigureInv, OutputType
      <4> QED BY <3>3, <4>1
    <3> QED BY <3>2, <3>3
  <2>3. TheOutput(f).names \subseteq store[f].names
    BY <1>10 DEF FigureInv, UploadInv
  <2>4. ASSUME NEW g \in File, NEW m \in Method
        PROVE  /\ output'[g][m].manifest.names \subseteq output'[g][m].names
               /\ output'[g][m].names # {} => output'[g][m].of # 0
               /\ store'[g].manifest # NoManifest =>
                     output'[g][m].manifest.names \subseteq store'[g].names
    <3>1. CASE g = f
      BY <1>1, <2>1, <2>2, <2>3, <3>1 DEF FigureInv, FolderInv
    <3>2. CASE g # f
      BY <1>5, <2>1, <3>2 DEF FigureInv, FolderInv
    <3> QED BY <3>1, <3>2
  <2>5. FolderInv'
    BY <2>1, <2>4 DEF FigureInv, FolderInv
  <2>6. Grows
    BY <1>5, <2>1, <2>2 DEF Grows
  <2>7. ChunkInv'
    BY <2>6, ChunksStayKnown DEF FigureInv
  <2> QED BY <1>3, <2>1, <2>5, <2>7 DEF FigureInv, StoreType, UploadInv
<1> QED BY <1>6, <1>7, <1>8, <1>9, <1>10 DEF Upload, UploadStep

(* The other steps of convert_papers leave outputs and storage alone; an   *)
(* exchange empties the storage.                                           *)
LEMMA RestOfConvert ==
    ASSUME FigureInv, UNCHANGED <<pdf, output, rows, texts>>,
           todo' \subseteq File, stage' \notin {"manifest", "local"},
           store' = store \/ Exchange
    PROVE  FigureInv'
<1>1. StoreType' /\ (\A f \in File : store'[f].manifest # NoManifest => store' = store)
  <2>1. CASE store' = store
    BY <2>1 DEF FigureInv, StoreType
  <2>2. CASE Exchange
    <3>1. store' = [f \in File |-> Empty]
      BY <2>2 DEF Exchange
    <3>2. /\ Empty.manifest = NoManifest
          /\ Empty \in [blobs : SUBSET Version, content : 0..MaxVersion,
                        names : SUBSET Name,
                        manifest : [pdf : 0..MaxVersion, names : SUBSET Name]]
      BY FolderAssumption DEF Empty, NoManifest
    <3> QED BY <3>1, <3>2 DEF StoreType
  <2> QED BY <2>1, <2>2
<1>2. FolderInv' /\ Grows
  BY <1>1 DEF FigureInv, FolderInv, Grows
<1>3. ChunkInv'
  BY <1>2, ChunksStayKnown DEF FigureInv
<1> QED BY <1>1, <1>2, <1>3 DEF FigureInv, OutputType, UploadInv

LEMMA ConvertKeepsFigures ==
    ASSUME FigureInv, Convert
    PROVE  FigureInv'
<1>1. UNCHANGED <<pdf, rows, texts>>
  BY DEF Convert, indexVars
<1>2. CASE RunMineru
  BY <1>1, <1>2, MineruStep
<1>3. CASE Upload
  BY <1>1, <1>3, UploadStepKeeps
<1>4. CASE Collect
  BY <1>1, <1>4, RestOfConvert DEF Collect, Planned
<1>5. CASE UploadFails
  BY <1>1, <1>5, RestOfConvert DEF UploadFails, FigureInv, FolderInv
<1>6. CASE Finish \/ Killed
  BY <1>1, <1>6, RestOfConvert DEF Finish, Killed, Ends
<1>7. CASE SkipUpload
  BY <1>1, <1>7, RestOfConvert DEF SkipUpload
<1>8. CASE Start \/ Misconfigured \/ Exchange
  BY <1>1, <1>8, RestOfConvert
     DEF Start, Misconfigured, Exchange, FigureInv, FolderInv
<1> QED BY <1>2, <1>3, <1>4, <1>5, <1>6, <1>7, <1>8 DEF Convert, ConvertStep

(* What the folder's state says does not depend on the rows.               *)
LEMMA FolderKept ==
    ASSUME FigureInv, pdf' \in [File -> Version],
           UNCHANGED <<stage, todo, output, store>>
    PROVE  /\ OutputType' /\ StoreType' /\ FolderInv' /\ UploadInv'
           /\ \A c : Known(c) => Known(c)'
<1>1. OutputType' /\ StoreType' /\ FolderInv'
  BY DEF FigureInv, OutputType, StoreType, FolderInv
<1>2. Current' = Current /\ Methods(Current)' = Methods(Current)
  BY DEF Current, Methods
<1>3. TheOutput(Current)' = TheOutput(Current)
  BY <1>2 DEF TheOutput
<1>4. UploadInv'
  BY <1>2, <1>3 DEF FigureInv, UploadInv
<1>5. ASSUME NEW c, Known(c) PROVE Known(c)'
  BY <1>5 DEF Known
<1> QED BY <1>1, <1>4, <1>5

LEMMA NothingInFolder ==
    ASSUME FigureInv, UNCHANGED <<pdf, convertVars>>
    PROVE  /\ pdf' \in [File -> Version]
           /\ UNCHANGED <<stage, todo, output, store>>
BY DEF FigureInv, OutputType, convertVars

(* A chunk is read only with figures that its manifest names.              *)
LEMMA ReadKeepsFigures ==
    ASSUME FigureInv, ReadOutput, UNCHANGED <<pdf, convertVars>>
    PROVE  FigureInv'
<1>1. PICK parsed \in SUBSET Outputs :
          /\ Manifested
          /\ \A c \in UNION {ChunksIn(o) : o \in parsed} : Mapped(c)
          /\ texts' = InOrder(UNION {ChunksIn(o) : o \in parsed})
  BY DEF ReadOutput
<1> DEFINE chunks == UNION {ChunksIn(o) : o \in parsed}
<1>2. ASSUME NEW c \in chunks PROVE Known(c) /\ c \in Chunk
  <2>1. PICK o \in parsed : c \in ChunksIn(o)
    OBVIOUS
  <2>2. o[1] \in File /\ o[2] \in Method /\ output[o[1]][o[2]].of # 0
    BY <2>1 DEF Outputs
  <2>3. c.file = o[1]
    BY <2>1 DEF ChunksIn, ChunksFrom
  <2>4. output[o[1]][o[2]].of \in Version
    BY <2>2, FolderAssumption DEF FigureInv, OutputType, Output, Version
  <2>5. c \in Chunk
    BY <2>1, <2>2, <2>4 DEF ChunksIn, Chunk
  <2>6. o[2] \in Methods(c.file)
    BY <2>2, <2>3 DEF Methods
  <2>7. PICK m \in Method : TheOutput(c.file) = output[c.file][m]
    BY <2>6 DEF TheOutput, Methods
  <2>8. c.media \subseteq output[c.file][m].manifest.names
    BY <1>1, <1>2, <2>7 DEF Mapped
  <2>9. Known(c)
    BY <2>2, <2>3, <2>7, <2>8 DEF Known, FigureInv, FolderInv
  <2> QED BY <2>5, <2>9
<1>3. chunks \subseteq Chunk
  BY <1>2
<1>4. InOrder(chunks) \in [1..Cardinality(chunks) -> chunks]
  BY <1>3, OrderOfChunks
<1>5. \A i \in DOMAIN texts' : Known(texts'[i])
  BY <1>1, <1>2, <1>4
<1>6. rows' = rows
  BY DEF ReadOutput
<1>7. ChunkInv'
  BY <1>5, <1>6, FolderKept, NothingInFolder DEF FigureInv, ChunkInv
<1> QED BY <1>7, FolderKept, NothingInFolder DEF FigureInv

LEMMA IndexKeepsFigures ==
    ASSUME FigureInv, IndexStep, UNCHANGED <<pdf, convertVars>>
    PROVE  FigureInv'
<1>1. \A i \in DOMAIN texts' : i \in DOMAIN texts /\ texts'[i] = texts[i]
  BY DEF IndexStep, Embed, Recreate, Insert, IndexEnds, Finished
<1>2. \A r \in rows' : r \in rows \/ \E i \in DOMAIN texts : r.chunk = texts[i]
  BY DEF IndexStep, Embed, Recreate, Insert, IndexEnds
<1>3. ChunkInv'
  BY <1>1, <1>2, FolderKept, NothingInFolder DEF FigureInv, ChunkInv
<1> QED BY <1>3, FolderKept, NothingInFolder DEF FigureInv

LEMMA FigureInductive == FigureInv /\ [Next]_vars => FigureInv'
<1> SUFFICES ASSUME FigureInv, [Next]_vars PROVE FigureInv'
  OBVIOUS
<1>1. CASE Convert
  BY <1>1, ConvertKeepsFigures
<1>2. CASE Submit
  BY <1>2, FolderKept, NothingInFolder DEF Submit, FigureInv, ChunkInv, indexVars
<1>3. CASE Index
  BY <1>3, ReadKeepsFigures, IndexKeepsFigures DEF Index
<1>4. CASE ReplacePdf
  <2>1. /\ pdf' \in [File -> Version]
        /\ UNCHANGED <<stage, todo, output, store, rows, texts>>
    BY <1>4, FolderAssumption
       DEF ReplacePdf, Replace, FigureInv, OutputType, Version, indexVars
  <2> QED BY <2>1, FolderKept DEF FigureInv, ChunkInv
<1>5. CASE UNCHANGED vars
  BY <1>5, FolderKept, NothingInFolder DEF vars, FigureInv, ChunkInv, indexVars
<1> QED BY <1>1, <1>2, <1>3, <1>4, <1>5 DEF Next

LEMMA FiguresAtFirst == Init => FigureInv
<1> SUFFICES ASSUME Init PROVE FigureInv
  OBVIOUS
<1>1. OutputType
  BY FolderAssumption
     DEF Init, FolderInit, ConvertInit, OutputType, Output, Version, NoOutput, NoManifest
<1>2. StoreType
  BY FolderAssumption DEF Init, ConvertInit, Empty, NoManifest, StoreType
<1>3. FolderInv /\ UploadInv /\ ChunkInv
  BY DEF Init, ConvertInit, IndexInit, Empty, NoManifest, NoOutput, FolderInv,
         UploadInv, ChunkInv
<1> QED BY <1>1, <1>2, <1>3 DEF FigureInv

(* For any folder, batch size and answers of the embedding service, with   *)
(* runs that fail and are killed, and storage that is exchanged: a row has *)
(* the vector of its own chunk, and its figures are stored as soon as the  *)
(* storage has a manifest of its paper.                                    *)
THEOREM IndexSafety == Spec => []IndexedAsWritten
<1>1. Init => FigureInv
  BY FiguresAtFirst
<1>2. Init => EmbedInv
  BY <1>1 DEF Init, IndexInit, FigureInv, EmbedInv, VectorInv, OwnVector
<1>3. EmbedInv /\ FigureInv => IndexedAsWritten
  BY DEF EmbedInv, FigureInv, ChunkInv, Known, IndexedAsWritten, FiguresStored
<1> QED BY <1>1, <1>2, <1>3, EmbedInductive, FigureInductive, PTL DEF Spec

-----------------------------------------------------------------------------
(* What the exit code of convert_papers says.                              *)

Uploaded(f) ==
    /\ Cardinality(Methods(f)) = 1
    /\ TheOutput(f).manifest.pdf = pdf[f]
    /\ Stored(f, TheOutput(f).manifest)
    /\ f \in adrift \/ store[f].manifest = TheOutput(f).manifest

(* What a forced run leaves.                                               *)
Fresh(f) == store[f].content = pdf[f] /\ f \notin adrift

(* The local manifest is of the PDF and of all images there are.           *)
Matches(f, m) ==
    /\ output[f][m].manifest.pdf = pdf[f]
    /\ output[f][m].manifest.names = output[f][m].names

(* A stored manifest comes after all it names.  While one is torn, and the *)
(* PDF is what it was then, no local manifest matches and is taken for the *)
(* stored one.                                                             *)
DriftInv ==
    /\ \A f \in adrift : f \in File /\ Torn(f)
    /\ \A f \in File :
          store[f].manifest # NoManifest => Stored(f, store[f].manifest)
    /\ \A f \in File, m \in Method :
          output[f][m].of = 0 => output[f][m].manifest = NoManifest
    /\ \A f \in File \ adrift, m \in Method :
          m \in Methods(f) /\ Torn(f) => ~Matches(f, m)

(* A plan skips only what is uploaded, and a forced one skips nothing.     *)
PlanInv ==
    stage \in {"mineru", "collect"} =>
        /\ plan \in [File -> {"convert", "upload", "skip"}]
        /\ flags.force => \A f \in File : plan[f] = "convert"
        /\ flags.strict => \A f \in File : plan[f] = "skip" => Uploaded(f)
        /\ stage = "collect" => \A f \in File, m \in Method :
               <<f, m>> \in fresh => output[f][m].of = pdf[f]

(* Uploading: what is neither left nor failed is done, and in a forced run *)
(* what is left has a new output.                                          *)
LeftInv ==
    stage \in UploadStep /\ flags.strict =>
        /\ \A f \in File \ (todo \cup failed) :
               Uploaded(f) /\ (flags.force => Fresh(f))
        /\ flags.force => \A f \in todo :
               \E m \in Methods(f) : output[f][m].of = pdf[f]

(* What has been put of the paper in hand.                                 *)
HandedInv ==
    /\ stage \in UploadStep \ {"blob"} =>
           /\ todo # {}
           /\ Cardinality(Methods(Current)) = 1
           /\ pdf[Current] \in store[Current].blobs
    /\ stage \in {"images", "manifest", "local"} =>
           store[Current].content = TheOutput(Current).of
    /\ stage = "local" => store[Current].manifest = NewManifest(Current)

ExitInv ==
    /\ stage # "idle" => exit = Running
    /\ exit = 0 /\ flags.strict => \A f \in File :
           Uploaded(f) /\ (flags.force => Fresh(f))

RunInv == PlanInv /\ LeftInv /\ HandedInv /\ ExitInv

ConvertInv == FigureInv /\ DriftInv /\ RunInv

LEMMA DriftMember ==
    ASSUME NoteDrift, NEW f \in File
    PROVE  f \in adrift' <=> Torn(f)' /\ (f \in adrift \/ pdf'[f] # pdf[f])
BY DEF NoteDrift

(* What is reused is uploaded, unless it was replaced at the wrong moment: *)
(* its local manifest is of the PDF and of all images.                     *)
LEMMA ReusedIsUploaded ==
    ASSUME FigureInv, DriftInv, NEW f \in File, NEW b,
           Classify(f, b) = "reuse"
    PROVE  Uploaded(f)
<1> DEFINE L == TheOutput(f).manifest
<1>1. /\ Cardinality(Methods(f)) = 1
      /\ L.names = TheOutput(f).names
      /\ L.pdf = pdf[f] /\ Stored(f, L)
  BY DEF Classify
<1>2. /\ TheOutput(f) \in Output
      /\ \A m \in Methods(f) : output[f][m] = TheOutput(f)
  BY <1>1, OneOutput DEF FigureInv
<1>3. PICK m \in Methods(f) : TRUE
  <2>1. Methods(f) # {}
    BY <1>1, FS_EmptySet
  <2> QED BY <2>1
<1>4. m \in Method /\ output[f][m] = TheOutput(f)
  BY <1>2, <1>3 DEF Methods
<1>5. ASSUME f \notin adrift PROVE store[f].manifest = L
  <2>1. Matches(f, m)
    BY <1>1, <1>4 DEF Matches
  <2>2. ~Torn(f)
    BY <1>3, <1>4, <1>5, <2>1 DEF DriftInv
  <2>3. store[f].manifest # NoManifest
    BY <1>1 DEF Stored
  <2> QED BY <1>2, <2>2, <2>3 DEF Torn
<1> QED BY <1>1, <1>5 DEF Uploaded

LEMMA UploadedStays ==
    ASSUME DriftInv, NoteDrift, NEW f, output'[f] = output[f],
           store'[f] = store[f], pdf'[f] = pdf[f]
    PROVE  /\ Uploaded(f)' <=> Uploaded(f)
           /\ Fresh(f)' <=> Fresh(f)
<1>1. Methods(f)' = Methods(f)
  BY DEF Methods
<1>2. TheOutput(f)' = TheOutput(f)
  BY <1>1 DEF TheOutput
<1>3. Torn(f)' <=> Torn(f)
  BY <1>1 DEF Torn
<1>4. f \in adrift' <=> f \in adrift
  BY <1>3 DEF NoteDrift, DriftInv
<1> QED BY <1>1, <1>2, <1>4 DEF Uploaded, Fresh, Stored

(* What is stored of a paper stays, but for its content list.              *)
Keeps(f) ==
    \/ store'[f].manifest = NoManifest
    \/ /\ store'[f].manifest = store[f].manifest
       /\ store[f].blobs \subseteq store'[f].blobs
       /\ store[f].names \subseteq store'[f].names
       /\ store[f].content # 0 => store'[f].content # 0

LEMMA DriftKept ==
    ASSUME DriftInv, NoteDrift, UNCHANGED <<pdf, output>>,
           \A f \in File : Keeps(f)
    PROVE  DriftInv'
<1>1. \A f \in adrift' : f \in File /\ Torn(f)'
  BY DEF NoteDrift
<1>2. ASSUME NEW f \in File, store'[f].manifest # NoManifest
      PROVE  /\ Stored(f, store[f].manifest)'
             /\ store'[f].manifest = store[f].manifest
  <2>1. Keeps(f)
    OBVIOUS
  <2> QED BY <1>2, <2>1 DEF Keeps, DriftInv, Stored
<1>3. ASSUME NEW f \in File, NEW m \in Method
      PROVE  m \in Methods(f)' /\ Torn(f)' /\ f \notin adrift' =>
                 ~Matches(f, m)'
  <2>1. Methods(f)' = Methods(f)
    BY DEF Methods
  <2>2. Torn(f)' => Torn(f)
    BY <1>2, <2>1 DEF Torn
  <2>3. Torn(f)' /\ f \notin adrift' => f \notin adrift
    BY DriftMember
  <2> QED BY <2>1, <2>2, <2>3 DEF DriftInv, Matches
<1>4. \A f \in File, m \in Method :
          output'[f][m].of = 0 => output'[f][m].manifest = NoManifest
  BY DEF DriftInv
<1> QED BY <1>1, <1>2, <1>3, <1>4 DEF DriftInv

LEMMA NoDrift ==
    ASSUME DriftInv, UNCHANGED <<pdf, output, store, adrift>>
    PROVE  NoteDrift
<1>1. \A f : Torn(f)' <=> Torn(f)
  BY DEF Torn, Methods
<1> QED BY <1>1 DEF NoteDrift, DriftInv

LEMMA StartStep ==
    ASSUME ConvertInv, Start, NoteDrift, UNCHANGED pdf
    PROVE  DriftInv' /\ RunInv'
<1>1. /\ stage' = "mineru" /\ exit' = Running /\ flags' \in Flags
      /\ UNCHANGED <<output, store>>
  BY DEF Start
<1>2. PICK unanswered \in SUBSET File :
          plan' = [f \in File |-> PlanOf(f, flags', f \notin unanswered)]
  BY DEF Start
<1>3. ASSUME NEW f \in File
      PROVE  /\ plan'[f] \in {"convert", "upload", "skip"}
             /\ flags'.force => plan'[f] = "convert"
             /\ flags'.strict /\ plan'[f] = "skip" =>
                   Classify(f, f \notin unanswered) = "reuse"
  <2>1. plan'[f] = PlanOf(f, flags', f \notin unanswered)
    BY <1>2
  <2>2. Classify(f, f \notin unanswered) \in {"convert", "upload", "reuse"}
    BY DEF Classify
  <2> QED BY <2>1, <2>2 DEF PlanOf
<1>4. ASSUME NEW f \in File, flags'.strict, plan'[f] = "skip"
      PROVE  Uploaded(f)'
  <2>1. Uploaded(f)
    BY <1>3, <1>4, ReusedIsUploaded DEF ConvertInv
  <2> QED BY <1>1, <2>1, UploadedStays DEF ConvertInv
<1>5. plan' \in [File -> {"convert", "upload", "skip"}]
  BY <1>2, <1>3
<1>6. PlanInv'
  BY <1>1, <1>3, <1>4, <1>5 DEF PlanInv
<1>7. LeftInv' /\ HandedInv' /\ ExitInv'
  BY <1>1 DEF LeftInv, HandedInv, ExitInv, UploadStep, Running
<1>8. DriftInv'
  BY <1>1, DriftKept DEF ConvertInv, Keeps
<1> QED BY <1>6, <1>7, <1>8 DEF RunInv

LEMMA MineruRuns ==
    ASSUME ConvertInv, RunMineru, NoteDrift, UNCHANGED pdf
    PROVE  DriftInv' /\ RunInv'
<1>1. PICK written \in SUBSET Planned("convert"), method \in Method :
          /\ output' = [f \in File |-> IF f \in written
                THEN [output[f] EXCEPT ![method] = Converted(f, @)]
                ELSE output[f]]
          /\ fresh' = written \X {method}
  BY DEF RunMineru
<1>2. /\ stage = "mineru" /\ stage' = "collect"
      /\ UNCHANGED <<flags, plan, exit, store>>
  BY DEF RunMineru
<1>3. ASSUME NEW f \in File, NEW m \in Method
      PROVE  /\ output'[f][m].manifest = output[f][m].manifest
             /\ output[f][m].names \subseteq output'[f][m].names
             /\ <<f, m>> \in fresh' => output'[f][m].of = pdf[f]
             /\ \/ output'[f][m] = output[f][m]
                \/ output'[f][m].of = pdf[f]
  <2>1. output[f] \in [Method -> Output] /\ output[f][m] \in Output
    BY DEF ConvertInv, FigureInv, OutputType
  <2>2. output'[f][m] = IF f \in written /\ m = method
                        THEN Converted(f, output[f][m]) ELSE output[f][m]
    BY <1>1, <2>1
  <2>3. /\ Converted(f, output[f][m]).names = output[f][m].names \cup ImagesOf[pdf[f]]
        /\ Converted(f, output[f][m]).manifest = output[f][m].manifest
        /\ Converted(f, output[f][m]).of = pdf[f]
    BY <2>1 DEF Converted, Output
  <2>4. <<f, m>> \in fresh' => f \in written /\ m = method
    BY <1>1
  <2> QED BY <2>2, <2>3, <2>4
<1>4. DriftInv'
  <2>1. \A f \in adrift' : f \in File /\ Torn(f)'
    BY DEF NoteDrift
  <2>2. \A f \in File :
            store'[f].manifest # NoManifest => Stored(f, store[f].manifest)'
    BY <1>2 DEF ConvertInv, DriftInv, Stored
  <2>3. ASSUME NEW f \in File, NEW m \in Method
        PROVE  /\ output'[f][m].of = 0 => output'[f][m].manifest = NoManifest
               /\ m \in Methods(f)' /\ Torn(f)' /\ f \notin adrift' =>
                      ~Matches(f, m)'
    <3>1. pdf[f] # 0 /\ pdf'[f] = pdf[f] /\ store'[f] = store[f]
      BY <1>2, FolderAssumption DEF ConvertInv, FigureInv, OutputType, Version
    <3>2. output'[f][m].of = 0 => output'[f][m].manifest = NoManifest
      <4>1. output'[f][m].of = 0 => output'[f][m] = output[f][m]
        BY <1>3, <3>1
      <4>2. output[f][m].of = 0 => output[f][m].manifest = NoManifest
        BY DEF ConvertInv, DriftInv
      <4> QED BY <4>1, <4>2
    <3>3. ASSUME Torn(f)', f \notin adrift'
          PROVE  Torn(f) /\ f \notin adrift
      <4>1. \A k \in Methods(f) : k \in Methods(f)' /\ output'[f][k].manifest = output[f][k].manifest
        BY <1>3, <3>1 DEF Methods
      <4>2. Torn(f)
        BY <3>1, <3>3, <4>1 DEF Torn
      <4> QED BY <3>3, <4>2, DriftMember
    <3>4. ASSUME Torn(f)', f \notin adrift', Matches(f, m)' PROVE FALSE
      <4>1. /\ output[f][m].manifest.pdf = pdf[f]
            /\ output[f][m].manifest.names = output'[f][m].names
        BY <1>3, <3>1, <3>4 DEF Matches
      <4>2. /\ output[f][m].manifest.names \subseteq output[f][m].names
            /\ output[f][m].names \subseteq output'[f][m].names
        BY <1>3 DEF ConvertInv, FigureInv, FolderInv
      <4>3. Matches(f, m)
        BY <4>1, <4>2 DEF Matches
      <4>4. output[f][m].of = 0 => output[f][m].manifest = NoManifest
        BY DEF ConvertInv, DriftInv
      <4>5. m \in Methods(f)
        BY <3>1, <4>1, <4>4 DEF Methods, NoManifest
      <4> QED BY <3>3, <3>4, <4>3, <4>5 DEF ConvertInv, DriftInv
    <3> QED BY <3>2, <3>4
  <2> QED BY <2>1, <2>2, <2>3 DEF DriftInv
<1>5. ASSUME NEW f \in File, flags.strict, plan[f] = "skip"
      PROVE  Uploaded(f)'
  <2>1. f \notin written
    BY <1>5 DEF Planned
  <2>2. output'[f] = output[f] /\ store'[f] = store[f]
    BY <1>1, <1>2, <2>1
  <2>3. Uploaded(f)
    BY <1>2, <1>5 DEF ConvertInv, RunInv, PlanInv
  <2> QED BY <2>2, <2>3, UploadedStays DEF ConvertInv
<1>6. PlanInv'
  BY <1>2, <1>3, <1>5 DEF ConvertInv, RunInv, PlanInv
<1>7. LeftInv' /\ HandedInv' /\ ExitInv'
  BY <1>2 DEF ConvertInv, RunInv, LeftInv, HandedInv, ExitInv, UploadStep, Running
<1> QED BY <1>4, <1>6, <1>7 DEF RunInv

LEMMA CollectStep ==
    ASSUME ConvertInv, Collect, NoteDrift, UNCHANGED pdf
    PROVE  DriftInv' /\ RunInv'
<1>1. /\ stage = "collect" /\ stage' = "blob"
      /\ UNCHANGED <<flags, plan, exit, output, store>>
      /\ todo' = (Planned("convert") \ failed') \cup Planned("upload")
  BY DEF Collect
<1>2. PICK found \in [File -> Method] :
          /\ \A f \in File : Methods(f) # {} => found[f] \in Methods(f)
          /\ failed' = {f \in Planned("convert") :
                \/ Methods(f) = {}
                \/ flags.strict /\ flags.force /\ ~Refreshed(f, found[f])}
  BY DEF Collect
<1>3. /\ plan \in [File -> {"convert", "upload", "skip"}]
      /\ flags.force => \A f \in File : plan[f] = "convert"
      /\ flags.strict => \A f \in File : plan[f] = "skip" => Uploaded(f)
      /\ \A f \in File, m \in Method :
             <<f, m>> \in fresh => output[f][m].of = pdf[f]
  BY <1>1 DEF ConvertInv, RunInv, PlanInv
<1>4. ASSUME NEW f \in File \ (todo' \cup failed'), flags.strict
      PROVE  Uploaded(f)' /\ ~flags.force
  <2>1. plan[f] = "skip"
    BY <1>1, <1>3, <1>4 DEF Planned
  <2>2. Uploaded(f) /\ ~flags.force
    BY <1>3, <1>4, <2>1
  <2> QED BY <1>1, <2>2, UploadedStays DEF ConvertInv
<1>5. ASSUME NEW f \in todo', flags.strict, flags.force
      PROVE  \E m \in Methods(f)' : output'[f][m].of = pdf'[f]
  <2>1. f \in File /\ f \in Planned("convert") /\ f \notin failed'
    BY <1>1, <1>3, <1>5 DEF Planned
  <2>2. Methods(f) # {} /\ Refreshed(f, found[f])
    BY <1>2, <1>5, <2>1
  <2>3. found[f] \in Methods(f) /\ found[f] \in Method
    BY <1>2, <2>1, <2>2
  <2>4. output[f][found[f]].of = pdf[f]
    BY <1>3, <2>1, <2>2, <2>3 DEF Refreshed
  <2>5. Methods(f)' = Methods(f)
    BY <1>1 DEF Methods
  <2> QED BY <1>1, <2>3, <2>4, <2>5
<1>6. LeftInv'
  BY <1>1, <1>4, <1>5 DEF LeftInv
<1>7. PlanInv' /\ HandedInv' /\ ExitInv'
  BY <1>1 DEF ConvertInv, RunInv, PlanInv, HandedInv, ExitInv, Running
<1>8. DriftInv'
  BY <1>1, DriftKept DEF ConvertInv, Keeps
<1> QED BY <1>6, <1>7, <1>8 DEF RunInv

(* Putting one object of the paper in hand.                                *)
LEMMA PutKeepsLeft ==
    ASSUME ConvertInv, NoteDrift, stage \in UploadStep, stage' \in UploadStep, todo # {},
           UNCHANGED <<pdf, flags, failed, exit, todo, output>>,
           \A g \in File : g # Current => store'[g] = store[g]
    PROVE  PlanInv' /\ LeftInv' /\ ExitInv'
<1>1. Current \in todo
  BY DEF Current
<1>2. \A g \in File \ (todo \cup failed) :
          (Uploaded(g) => Uploaded(g)') /\ (Fresh(g) => Fresh(g)')
  BY <1>1, UploadedStays DEF ConvertInv
<1>3. \A g : Methods(g)' = Methods(g)
  BY DEF Methods
<1>4. LeftInv'
  BY <1>2, <1>3 DEF ConvertInv, RunInv, LeftInv
<1>5. PlanInv'
  BY DEF PlanInv, UploadStep
<1>6. exit = Running
  BY DEF ConvertInv, RunInv, ExitInv, UploadStep
<1> QED BY <1>4, <1>5, <1>6 DEF ExitInv, Running

(* The last step of a paper's upload; its manifest is stored already.      *)
LEMMA LocalStep ==
    ASSUME ConvertInv, NoteDrift, UNCHANGED <<pdf, flags, failed, exit>>,
           NEW f \in File, f \in todo, Cardinality(Methods(f)) = 1,
           stage = "local", stage' = "blob",
           store' = store, todo' = todo \ {f},
           output' = [output EXCEPT ![f] =
              [m \in Method |-> IF m \in Methods(f)
                  THEN [@[m] EXCEPT !.manifest = NewManifest(f)]
                  ELSE @[m]]],
           pdf[f] \in store[f].blobs,
           store[f].content = TheOutput(f).of,
           store[f].manifest = NewManifest(f),
           TheOutput(f).names \subseteq store[f].names
    PROVE  DriftInv' /\ RunInv'
<1>a. f \in File /\ f \in todo /\ todo # {} /\ Cardinality(Methods(f)) = 1
  OBVIOUS
<1>b. /\ TheOutput(f) \in Output
      /\ \A m \in Method : output[f][m].names \subseteq TheOutput(f).names
      /\ \A m \in Methods(f) : output[f][m] = TheOutput(f)
  BY <1>a, OneOutput DEF ConvertInv, FigureInv
<1>c. \E m \in Methods(f) : TRUE
  <2>1. Methods(f) # {}
    BY <1>a, FS_EmptySet
  <2> QED BY <2>1
<1>d. TheOutput(f).of # 0 /\ \E m \in Method : output[f][m] = TheOutput(f)
  BY <1>b, <1>c DEF Methods
<1>e. /\ pdf[f] \in Version /\ pdf[f] # 0
      /\ NewManifest(f).pdf = pdf[f]
      /\ NewManifest(f).names = TheOutput(f).names
      /\ NewManifest(f) # NoManifest
  BY <1>a, FolderAssumption
     DEF ConvertInv, FigureInv, OutputType, NewManifest, NoManifest, Version
<1>g. ASSUME NEW g \in File, g # f
      PROVE  store'[g] = store[g] /\ output'[g] = output[g]
  BY <1>g DEF ConvertInv, FigureInv, OutputType
<1>h. stage = "local" /\ UNCHANGED <<pdf, flags, failed, exit>>
  OBVIOUS
<1>1. /\ store' = store /\ todo' = todo \ {f} /\ stage' = "blob"
      /\ output' = [output EXCEPT ![f] =
            [m \in Method |-> IF m \in Methods(f)
                THEN [@[m] EXCEPT !.manifest = NewManifest(f)]
                ELSE @[m]]]
  OBVIOUS
<1>2. /\ pdf[f] \in store[f].blobs
      /\ store[f].content = TheOutput(f).of
      /\ store[f].manifest = NewManifest(f)
      /\ TheOutput(f).names \subseteq store[f].names
  OBVIOUS
<1>3. ASSUME NEW m \in Method
      PROVE  /\ output'[f][m].names = output[f][m].names
             /\ output'[f][m].of = output[f][m].of
             /\ m \in Methods(f) => output'[f][m].manifest = NewManifest(f)
             /\ m \notin Methods(f) => output'[f][m] = output[f][m]
  <2>1. output[f][m] \in Output
    BY <1>a DEF ConvertInv, FigureInv, OutputType
  <2>2. CASE m \in Methods(f)
    <3>1. output'[f][m] = [output[f][m] EXCEPT !.manifest = NewManifest(f)]
      BY <1>a, <1>1, <2>2 DEF ConvertInv, FigureInv, OutputType
    <3> QED BY <2>1, <2>2, <3>1 DEF Output
  <2>3. CASE m \notin Methods(f)
    <3>1. output'[f][m] = output[f][m]
      BY <1>a, <1>1, <2>3 DEF ConvertInv, FigureInv, OutputType
    <3> QED BY <2>3, <3>1
  <2> QED BY <2>2, <2>3
<1>4. Methods(f)' = Methods(f)
  BY <1>3 DEF Methods
<1>5. TheOutput(f)'.manifest = NewManifest(f)
  <2>1. TheOutput(f)' = output'[f][CHOOSE m \in Methods(f) : TRUE]
    BY <1>4 DEF TheOutput
  <2>2. (CHOOSE m \in Methods(f) : TRUE) \in Methods(f)
    BY <1>c
  <2>3. Methods(f) \subseteq Method
    BY DEF Methods
  <2> QED BY <1>3, <2>1, <2>2, <2>3
<1>6. Uploaded(f)'
  <2>1. Stored(f, NewManifest(f))'
    <3>1. /\ NewManifest(f)'.pdf = pdf[f]
          /\ NewManifest(f)' = [pdf |-> pdf[f], names |-> TheOutput(f)'.names]
      BY DEF NewManifest
    <3>2. TheOutput(f)'.names = TheOutput(f).names
      <4>1. (CHOOSE m \in Methods(f) : TRUE) \in Methods(f) /\ Methods(f) \subseteq Method
        BY <1>c DEF Methods
      <4> QED BY <1>3, <1>4, <4>1 DEF TheOutput
    <3>3. store'[f].manifest # NoManifest /\ store'[f].content # 0
      BY <1>d, <1>e, <1>1, <1>2
    <3> QED BY <1>1, <1>2, <3>1, <3>2, <3>3 DEF Stored
  <2>2. NewManifest(f)' = NewManifest(f)
    <3>1. (CHOOSE m \in Methods(f) : TRUE) \in Methods(f) /\ Methods(f) \subseteq Method
      BY <1>c DEF Methods
    <3>2. TheOutput(f)'.names = TheOutput(f).names
      BY <1>3, <1>4, <3>1 DEF TheOutput
    <3> QED BY <3>2 DEF NewManifest
  <2> QED BY <1>a, <1>e, <1>h, <1>1, <1>2, <1>4, <1>5, <2>1, <2>2 DEF Uploaded, Stored
<1>k. ~Torn(f)'
  <2>1. PICK m \in Methods(f) : TRUE
    BY <1>c
  <2>2. m \in Method /\ output'[f][m].manifest = store'[f].manifest
    BY <1>1, <1>2, <1>3, <2>1 DEF Methods
  <2> QED BY <1>4, <2>1, <2>2 DEF Torn
<1>7. flags.strict /\ flags.force => Fresh(f)'
  <2>1. SUFFICES ASSUME flags.strict, flags.force PROVE store[f].content = pdf[f]
    BY <1>h, <1>k, <1>1, DriftMember DEF Fresh
  <2>2. \E m \in Methods(f) : output[f][m].of = pdf[f]
    BY <1>a, <1>h, <2>1 DEF ConvertInv, RunInv, LeftInv, UploadStep
  <2> QED BY <1>b, <1>2, <2>2
<1>8. ASSUME NEW g \in File \ (todo' \cup failed'), flags'.strict
      PROVE  Uploaded(g)' /\ (flags'.force => Fresh(g)')
  <2>1. CASE g = f
    BY <1>h, <1>6, <1>7, <1>8, <2>1
  <2>2. CASE g # f
    <3>1. g \in File \ (todo \cup failed)
      BY <1>h, <1>1, <2>2
    <3>2. Uploaded(g) /\ (flags.force => Fresh(g))
      BY <1>h, <1>h, <1>8, <3>1 DEF ConvertInv, RunInv, LeftInv, UploadStep
    <3> QED BY <1>g, <1>h, <2>2, <3>1, <3>2, UploadedStays DEF ConvertInv
  <2> QED BY <2>1, <2>2
<1>9. ASSUME NEW g \in todo', flags'.strict, flags'.force
      PROVE  \E m \in Methods(g)' : output'[g][m].of = pdf'[g]
  <2>1. g # f /\ g \in todo /\ g \in File
    BY <1>1 DEF ConvertInv, FigureInv, FolderInv
  <2>2. PICK m \in Methods(g) : output[g][m].of = pdf[g]
    BY <1>h, <1>h, <1>9, <2>1 DEF ConvertInv, RunInv, LeftInv, UploadStep
  <2>3. output'[g] = output[g]
    BY <1>g, <2>1
  <2>4. Methods(g)' = Methods(g)
    BY <2>3 DEF Methods
  <2> QED BY <2>2, <2>3, <2>4
<1>10. LeftInv'
  BY <1>8, <1>9 DEF LeftInv
<1>11. PlanInv' /\ HandedInv'
  BY <1>1 DEF PlanInv, HandedInv
<1>12. ExitInv'
  BY <1>h, <1>h DEF ConvertInv, RunInv, ExitInv, Running
<1>13. ASSUME NEW g \in File, NEW m \in Method
       PROVE  /\ output'[g][m].of = 0 => output'[g][m].manifest = NoManifest
              /\ m \in Methods(g)' /\ Torn(g)' /\ g \notin adrift' =>
                     ~Matches(g, m)'
  <2>a. output[g][m].of = 0 => output[g][m].manifest = NoManifest
    BY DEF ConvertInv, DriftInv
  <2>1. CASE g = f
    <3>1. output'[f][m].of = 0 => output'[f][m] = output[f][m]
      BY <1>3 DEF Methods
    <3>2. output'[f][m].of = output[f][m].of
      BY <1>3
    <3> QED BY <1>k, <2>1, <2>a, <3>1, <3>2
  <2>2. CASE g # f
    <3>1. output'[g] = output[g] /\ store'[g] = store[g] /\ pdf'[g] = pdf[g]
      BY <1>g, <1>h, <2>2
    <3>2. Methods(g)' = Methods(g)
      BY <3>1 DEF Methods
    <3>3. Torn(g)' <=> Torn(g)
      BY <3>1, <3>2 DEF Torn
    <3>4. Torn(g)' /\ g \notin adrift' => g \notin adrift
      BY DriftMember
    <3>5. Matches(g, m)' => Matches(g, m)
      BY <3>1 DEF Matches
    <3>6. m \in Methods(g) /\ Torn(g) /\ g \notin adrift => ~Matches(g, m)
      BY DEF ConvertInv, DriftInv
    <3> QED BY <2>a, <3>1, <3>2, <3>3, <3>4, <3>5, <3>6
  <2> QED BY <2>1, <2>2
<1>14. DriftInv'
  <2>1. \A g \in adrift' : g \in File /\ Torn(g)'
    BY DEF NoteDrift
  <2>2. \A g \in File :
            store'[g].manifest # NoManifest => Stored(g, store[g].manifest)'
    BY <1>1 DEF ConvertInv, DriftInv, Stored
  <2> QED BY <1>13, <2>1, <2>2 DEF DriftInv
<1> QED BY <1>10, <1>11, <1>12, <1>14 DEF RunInv

LEMMA UploadRuns ==
    ASSUME ConvertInv, Upload, NoteDrift, UNCHANGED pdf
    PROVE  DriftInv' /\ RunInv'
<1> DEFINE f == Current
<1>1. f \in File /\ f \in todo /\ todo # {} /\ Cardinality(Methods(f)) = 1
  BY DEF Upload, Current, ConvertInv, FigureInv, FolderInv
<1>2. /\ TheOutput(f) \in Output
      /\ \A m \in Method : output[f][m].names \subseteq TheOutput(f).names
      /\ \A m \in Methods(f) : output[f][m] = TheOutput(f)
  BY <1>1, OneOutput DEF ConvertInv, FigureInv
<1>3. \E m \in Methods(f) : TRUE
  <2>1. Methods(f) # {}
    BY <1>1, FS_EmptySet
  <2> QED BY <2>1
<1>4. TheOutput(f).of # 0 /\ \E m \in Method : output[f][m] = TheOutput(f)
  BY <1>2, <1>3 DEF Methods
<1>5. /\ pdf[f] \in Version /\ pdf[f] # 0
      /\ NewManifest(f).pdf = pdf[f]
      /\ NewManifest(f).names = TheOutput(f).names
      /\ NewManifest(f) # NoManifest
  BY <1>1, FolderAssumption
     DEF ConvertInv, FigureInv, OutputType, NewManifest, NoManifest, Version
<1>6. ASSUME NEW g \in File, g # f
      PROVE  store'[g] = store[g] /\ output'[g] = output[g]
  BY <1>1, <1>6
     DEF Upload, Put, ConvertInv, FigureInv, OutputType, StoreType, UploadStep
<1>7. UNCHANGED <<flags, plan, fresh, failed, exit>>
  BY DEF Upload
<1>8. ASSUME output' = output, todo' = todo
      PROVE  /\ Current' = f /\ Methods(f)' = Methods(f)
             /\ TheOutput(f)' = TheOutput(f)
             /\ NewManifest(f)' = NewManifest(f)
  BY <1>8 DEF Current, Methods, TheOutput, NewManifest
<1>9. store[f] \in [blobs : SUBSET Version, content : 0..MaxVersion,
                    names : SUBSET Name,
                    manifest : [pdf : 0..MaxVersion, names : SUBSET Name]]
  BY <1>1 DEF ConvertInv, FigureInv, StoreType
<1>10. store \in [File -> [blobs : SUBSET Version, content : 0..MaxVersion,
                    names : SUBSET Name,
                    manifest : [pdf : 0..MaxVersion, names : SUBSET Name]]]
  BY DEF ConvertInv, FigureInv, StoreType
<1>a. ASSUME output' = output, Keeps(f) PROVE DriftInv'
  <2>1. \A g \in File : Keeps(g)
    BY <1>6, <1>a DEF Keeps
  <2> QED BY <1>a, <2>1, DriftKept DEF ConvertInv
<1>11. CASE stage = "blob"
  <2>1. /\ store' = [store EXCEPT ![f].blobs = @ \cup {pdf[f]}]
        /\ output' = output /\ todo' = todo /\ stage' = "content"
    BY <1>11 DEF Upload, Put, NextStep
  <2>2. /\ pdf[f] \in store'[f].blobs /\ Keeps(f)
    BY <1>1, <1>9, <1>10, <2>1 DEF Keeps
  <2>3. DriftInv'
    BY <1>a, <2>1, <2>2
  <2>4. PlanInv' /\ LeftInv' /\ ExitInv'
    BY <1>1, <1>6, <1>7, <1>11, <2>1, PutKeepsLeft DEF UploadStep
  <2>5. HandedInv'
    BY <1>1, <1>8, <2>1, <2>2 DEF HandedInv
  <2> QED BY <2>3, <2>4, <2>5 DEF RunInv
<1>12. CASE stage = "content"
  <2>1. /\ store' = [store EXCEPT ![f].content = TheOutput(f).of]
        /\ output' = output /\ todo' = todo /\ stage' = "images"
    BY <1>12 DEF Upload, Put, NextStep
  <2>2. /\ store'[f].blobs = store[f].blobs
        /\ store'[f].manifest = store[f].manifest
        /\ store'[f].content = TheOutput(f).of
        /\ store'[f].names = store[f].names
    BY <1>1, <1>9, <1>10, <2>1
  <2>3. DriftInv'
    <3>1. Keeps(f)
      BY <1>4, <2>2 DEF Keeps
    <3> QED BY <1>a, <2>1, <3>1
  <2>4. PlanInv' /\ LeftInv' /\ ExitInv'
    BY <1>1, <1>6, <1>7, <1>12, <2>1, PutKeepsLeft DEF UploadStep
  <2>5. pdf[f] \in store[f].blobs
    BY <1>12 DEF ConvertInv, RunInv, HandedInv, UploadStep
  <2>6. HandedInv'
    BY <1>1, <1>8, <2>1, <2>2, <2>5 DEF HandedInv
  <2> QED BY <2>3, <2>4, <2>6 DEF RunInv
<1>13. CASE stage = "images"
  <2>1. /\ store' = [store EXCEPT ![f].names = @ \cup TheOutput(f).names]
        /\ output' = output /\ todo' = todo /\ stage' = "manifest"
    BY <1>13 DEF Upload, Put, NextStep
  <2>2. /\ store'[f].blobs = store[f].blobs
        /\ store'[f].manifest = store[f].manifest
        /\ store'[f].content = store[f].content
        /\ store[f].names \subseteq store'[f].names
    BY <1>1, <1>9, <1>10, <2>1
  <2>3. DriftInv'
    <3>1. Keeps(f)
      BY <2>2 DEF Keeps
    <3> QED BY <1>a, <2>1, <3>1
  <2>4. PlanInv' /\ LeftInv' /\ ExitInv'
    BY <1>1, <1>6, <1>7, <1>13, <2>1, PutKeepsLeft DEF UploadStep
  <2>5. pdf[f] \in store[f].blobs /\ store[f].content = TheOutput(f).of
    BY <1>13 DEF ConvertInv, RunInv, HandedInv, UploadStep
  <2>6. HandedInv'
    BY <1>1, <1>8, <2>1, <2>2, <2>5 DEF HandedInv
  <2> QED BY <2>3, <2>4, <2>6 DEF RunInv
<1>14. CASE stage = "manifest"
  <2>1. /\ store' = [store EXCEPT ![f].manifest = NewManifest(f)]
        /\ output' = output /\ todo' = todo /\ stage' = "local"
    BY <1>14 DEF Upload, Put, NextStep
  <2>2. /\ store'[f].blobs = store[f].blobs
        /\ store'[f].names = store[f].names
        /\ store'[f].manifest = NewManifest(f)
        /\ store'[f].content = store[f].content
    BY <1>1, <1>9, <1>10, <2>1
  <2>3. pdf[f] \in store[f].blobs /\ store[f].content = TheOutput(f).of
    BY <1>14 DEF ConvertInv, RunInv, HandedInv, UploadStep
  <2>4. TheOutput(f).names \subseteq store[f].names
    BY <1>14 DEF ConvertInv, FigureInv, UploadInv
  <2>5. ASSUME NEW g \in File, store'[g].manifest # NoManifest
        PROVE  Stored(g, store[g].manifest)'
    <3>1. CASE g = f
      BY <1>4, <1>5, <2>2, <2>3, <2>4, <3>1 DEF Stored
    <3>2. CASE g # f
      BY <1>6, <2>5, <3>2 DEF ConvertInv, DriftInv, Stored
    <3> QED BY <3>1, <3>2
  <2>6. ASSUME NEW g \in File, NEW m \in Method
        PROVE  m \in Methods(g)' /\ Torn(g)' /\ g \notin adrift' =>
                   ~Matches(g, m)'
    <3>1. Methods(g)' = Methods(g)
      BY <2>1 DEF Methods
    <3>2. CASE g = f
      <4> SUFFICES ASSUME m \in Methods(g), Torn(g)', Matches(g, m)' PROVE FALSE
        BY <3>1
      <4>1. output[g][m] = TheOutput(f) /\ output' = output
        BY <1>2, <2>1, <3>2
      <4>2. store'[g].manifest = NewManifest(f)
        BY <2>2, <3>2
      <4>3. output[g][m].manifest # NewManifest(f)
        BY <3>1, <4>1, <4>2 DEF Torn
      <4>4. /\ TheOutput(f).manifest.pdf = pdf[f]
            /\ TheOutput(f).manifest.names = TheOutput(f).names
        BY <3>2, <4>1 DEF Matches
      <4>5. TheOutput(f).manifest \in [pdf : 0..MaxVersion, names : SUBSET Name]
        BY <1>2 DEF Output
      <4>6. TheOutput(f).manifest = NewManifest(f)
        BY <4>4, <4>5 DEF NewManifest
      <4> QED BY <4>1, <4>3, <4>6
    <3>3. CASE g # f
      <4>1. Torn(g)' => Torn(g)
        BY <1>6, <3>1, <3>3 DEF Torn
      <4>2. Torn(g)' /\ g \notin adrift' => g \notin adrift
        BY DriftMember
      <4>3. Matches(g, m)' => Matches(g, m)
        BY <2>1 DEF Matches
      <4> QED BY <3>1, <4>1, <4>2, <4>3 DEF ConvertInv, DriftInv
    <3> QED BY <3>2, <3>3
  <2>7. DriftInv'
    <3>1. \A g \in adrift' : g \in File /\ Torn(g)'
      BY DEF NoteDrift
    <3>2. \A g \in File, m \in Method :
              output'[g][m].of = 0 => output'[g][m].manifest = NoManifest
      BY <2>1 DEF ConvertInv, DriftInv
    <3> QED BY <2>5, <2>6, <3>1, <3>2 DEF DriftInv
  <2>8. PlanInv' /\ LeftInv' /\ ExitInv'
    BY <1>1, <1>6, <1>7, <1>14, <2>1, PutKeepsLeft DEF UploadStep
  <2>9. HandedInv'
    BY <1>1, <1>8, <2>1, <2>2, <2>3 DEF HandedInv
  <2> QED BY <2>7, <2>8, <2>9 DEF RunInv
<1>15. CASE stage = "local"
  <2>1. /\ store' = store /\ todo' = todo \ {f} /\ stage' = "blob"
        /\ output' = [output EXCEPT ![f] =
              [m \in Method |-> IF m \in Methods(f)
                  THEN [@[m] EXCEPT !.manifest = NewManifest(f)]
                  ELSE @[m]]]
    BY <1>15 DEF Upload, Put, NextStep
  <2>2. /\ pdf[f] \in store[f].blobs
        /\ store[f].content = TheOutput(f).of
        /\ store[f].manifest = NewManifest(f)
        /\ TheOutput(f).names \subseteq store[f].names
    BY <1>15 DEF ConvertInv, RunInv, HandedInv, UploadStep, FigureInv, UploadInv
  <2> HIDE DEF f
  <2> QED BY <1>1, <1>7, <1>15, <2>1, <2>2, LocalStep
<1> QED BY <1>11, <1>12, <1>13, <1>14, <1>15 DEF Upload, UploadStep

LEMMA UploadFailsStep ==
    ASSUME ConvertInv, UploadFails, NoteDrift, UNCHANGED pdf
    PROVE  DriftInv' /\ RunInv'
<1>1. /\ stage \in UploadStep /\ stage' = "blob"
      /\ todo' \subseteq todo /\ todo' \cup failed' = todo \cup failed
      /\ UNCHANGED <<flags, exit, output, store>>
  <2>1. Current \in todo
    BY DEF UploadFails, Current
  <2> QED BY <2>1 DEF UploadFails
<1>2. \A f : /\ Uploaded(f) => Uploaded(f)'
             /\ Fresh(f) => Fresh(f)'
             /\ Methods(f)' = Methods(f)
  BY <1>1, UploadedStays DEF ConvertInv, Methods
<1>3. LeftInv'
  BY <1>1, <1>2 DEF ConvertInv, RunInv, LeftInv
<1>4. PlanInv' /\ HandedInv' /\ ExitInv'
  BY <1>1 DEF ConvertInv, RunInv, PlanInv, HandedInv, ExitInv, UploadStep, Running
<1>5. DriftInv'
  BY <1>1, DriftKept DEF ConvertInv, Keeps
<1> QED BY <1>3, <1>4, <1>5 DEF RunInv

LEMMA FinishStep ==
    ASSUME ConvertInv, Finish, NoteDrift, UNCHANGED pdf
    PROVE  DriftInv' /\ RunInv'
<1>1. /\ stage = "blob" /\ todo = {} /\ stage' = "idle"
      /\ UNCHANGED <<flags, output, store>>
      /\ exit' = 0 /\ flags.strict => failed = {}
  BY DEF Finish, Ends
<1>2. \A f \in File : (Uploaded(f) => Uploaded(f)') /\ (Fresh(f) => Fresh(f)')
  BY <1>1, UploadedStays DEF ConvertInv
<1>3. ExitInv'
  BY <1>1, <1>2 DEF ConvertInv, RunInv, LeftInv, ExitInv, UploadStep
<1>4. PlanInv' /\ LeftInv' /\ HandedInv'
  BY <1>1 DEF PlanInv, LeftInv, HandedInv, UploadStep
<1>5. DriftInv'
  BY <1>1, DriftKept DEF ConvertInv, Keeps
<1> QED BY <1>3, <1>4, <1>5 DEF RunInv

(* Without strict, or without an exit code of 0, there is nothing to show. *)
LEMMA SilentSteps ==
    ASSUME ConvertInv, NoteDrift, UNCHANGED pdf,
           SkipUpload \/ Killed \/ Misconfigured \/ Exchange
    PROVE  DriftInv' /\ RunInv'
<1>1. CASE SkipUpload
  <2>1. stage = "blob" /\ stage' = "blob" /\ ~flags.strict
        /\ UNCHANGED <<flags, exit, output, store>>
    BY <1>1 DEF SkipUpload
  <2>2. PlanInv' /\ LeftInv' /\ HandedInv' /\ ExitInv'
    BY <2>1 DEF ConvertInv, RunInv, PlanInv, LeftInv, HandedInv, ExitInv, Running
  <2> QED BY <2>1, <2>2, DriftKept DEF ConvertInv, RunInv, Keeps
<1>2. CASE Killed
  <2>1. /\ stage # "idle" /\ stage' = "idle"
        /\ UNCHANGED <<exit, output, store>>
    BY <1>2 DEF Killed, Ends
  <2>2. PlanInv' /\ LeftInv' /\ HandedInv' /\ ExitInv'
    BY <2>1 DEF ConvertInv, RunInv, PlanInv, LeftInv, HandedInv, ExitInv,
                Running, UploadStep
  <2> QED BY <2>1, <2>2, DriftKept DEF ConvertInv, RunInv, Keeps
<1>3. CASE Misconfigured
  <2>1. stage' = "idle" /\ exit' = 1 /\ UNCHANGED <<output, store>>
    BY <1>3 DEF Misconfigured
  <2>2. PlanInv' /\ LeftInv' /\ HandedInv' /\ ExitInv'
    BY <2>1 DEF PlanInv, LeftInv, HandedInv, ExitInv, UploadStep
  <2> QED BY <2>1, <2>2, DriftKept DEF ConvertInv, RunInv, Keeps
<1>4. CASE Exchange
  <2>1. /\ stage' = "idle" /\ exit' = Running /\ UNCHANGED output
        /\ store' = [f \in File |-> Empty]
    BY <1>4 DEF Exchange
  <2>2. PlanInv' /\ LeftInv' /\ HandedInv' /\ ExitInv'
    BY <2>1 DEF PlanInv, LeftInv, HandedInv, ExitInv, UploadStep, Running
  <2>3. \A f \in File : store'[f].manifest = NoManifest
    BY <2>1 DEF Empty
  <2> QED BY <2>1, <2>2, <2>3, DriftKept DEF ConvertInv, RunInv, Keeps
<1> QED BY <1>1, <1>2, <1>3, <1>4

LEMMA OthersConvertNothing ==
    ASSUME ConvertInv, UNCHANGED <<pdf, convertVars, adrift>>
    PROVE  DriftInv' /\ RunInv'
<1>1. UNCHANGED <<stage, flags, plan, fresh, failed, todo, exit, output, store>>
  BY DEF convertVars
<1>a. NoteDrift
  BY <1>1, NoDrift DEF ConvertInv
<1>2. DriftInv'
  BY <1>1, <1>a, DriftKept DEF ConvertInv, Keeps
<1>3. \A f : /\ Uploaded(f) => Uploaded(f)'
             /\ Fresh(f) => Fresh(f)'
             /\ Methods(f)' = Methods(f)
  BY <1>1, <1>a, UploadedStays DEF ConvertInv, Methods
<1>4. PlanInv' /\ LeftInv' /\ ExitInv'
  BY <1>1, <1>3 DEF ConvertInv, RunInv, PlanInv, LeftInv, ExitInv
<1>5. Current' = Current
  BY <1>1 DEF Current
<1>6. TheOutput(Current)' = TheOutput(Current)
  BY <1>1, <1>3, <1>5 DEF TheOutput
<1>7. NewManifest(Current)' = NewManifest(Current)
  BY <1>5, <1>6 DEF NewManifest
<1>8. HandedInv'
  BY <1>1, <1>3, <1>5, <1>6, <1>7 DEF ConvertInv, RunInv, HandedInv
<1> QED BY <1>2, <1>4, <1>8 DEF RunInv

LEMMA ConvertInductive == ConvertInv /\ [Next]_vars => ConvertInv'
<1> SUFFICES ASSUME ConvertInv, [Next]_vars PROVE ConvertInv'
  OBVIOUS
<1>1. FigureInv'
  BY FigureInductive DEF ConvertInv
<1>2. CASE Convert
  BY <1>1, <1>2, StartStep, MineruRuns, CollectStep, UploadRuns, UploadFailsStep,
     FinishStep, SilentSteps DEF Convert, ConvertStep, ConvertInv
<1>3. CASE Submit \/ Index \/ UNCHANGED vars
  BY <1>1, <1>3, OthersConvertNothing DEF Submit, Index, vars, ConvertInv
<1>4. CASE ReplacePdf
  <2>1. /\ stage = "idle" /\ stage' = "idle" /\ exit' = Running
        /\ UNCHANGED <<output, store>> /\ NoteDrift
    BY <1>4 DEF ReplacePdf, Idle
  <2>2. \A f \in adrift' : f \in File /\ Torn(f)'
    BY <2>1 DEF NoteDrift
  <2>3. ASSUME NEW f \in File
        PROVE  /\ Methods(f)' = Methods(f) /\ (Torn(f)' <=> Torn(f))
               /\ Torn(f)' /\ f \notin adrift' => f \notin adrift /\ pdf'[f] = pdf[f]
    <3>1. Methods(f)' = Methods(f)
      BY <2>1 DEF Methods
    <3>2. Torn(f)' <=> Torn(f)
      BY <2>1, <3>1 DEF Torn
    <3> QED BY <2>1, <3>1, <3>2, DriftMember
  <2>4. DriftInv'
    BY <2>1, <2>2, <2>3 DEF ConvertInv, DriftInv, Stored, Matches
  <2>5. RunInv'
    BY <2>1 DEF RunInv, PlanInv, LeftInv, HandedInv, ExitInv, UploadStep, Running
  <2> QED BY <1>1, <2>4, <2>5 DEF ConvertInv
<1> QED BY <1>2, <1>3, <1>4 DEF Next

(* For any folder, whatever earlier runs left, MinerU did and puts failed: *)
(* after an exit code of 0 of a strict run every paper has a manifest of   *)
(* its PDF all of which is stored, the stored manifest is the same unless  *)
(* the PDF was replaced while the two differed, and after a forced run     *)
(* manifest and content are the PDF's in any case.                         *)
THEOREM ExitSafety == Spec => []ExitTellsTruth
<1>1. Init => FigureInv
  BY FiguresAtFirst
<1>2. Init => DriftInv
  <2> SUFFICES ASSUME Init PROVE DriftInv
    OBVIOUS
  <2>1. \A f \in File, m \in Method :
            output[f][m].manifest = NoManifest
    BY DEF Init, ConvertInit, NoOutput
  <2>2. adrift = {}
    BY DEF Init
  <2>3. \A f \in File : ~Torn(f)
    BY DEF Init, ConvertInit, Empty, Torn
  <2>4. \A f \in File : store[f].manifest = NoManifest
    BY DEF Init, ConvertInit, Empty
  <2> QED BY <2>1, <2>2, <2>3, <2>4 DEF DriftInv
<1>3. Init => RunInv
  BY DEF Init, ConvertInit, RunInv, PlanInv, LeftInv, HandedInv, ExitInv,
         UploadStep, Running
<1>4. ConvertInv => ExitTellsTruth
  <2> SUFFICES ASSUME ConvertInv, exit = 0, flags.strict PROVE ExitTellsTruth
    BY DEF ExitTellsTruth, UploadedMeansStored, StoredMeansCurrent, ForcedMeansFresh
  <2>1. \A f \in File : Uploaded(f) /\ (flags.force => Fresh(f))
    BY DEF ConvertInv, RunInv, ExitInv
  <2>2. \A f \in File : Stored(f, store[f].manifest)
    BY <2>1 DEF ConvertInv, DriftInv, Uploaded, Stored
  <2> QED BY <2>1, <2>2 DEF Uploaded, Fresh, ExitTellsTruth,
             UploadedMeansStored, StoredMeansCurrent, ForcedMeansFresh
<1> QED BY <1>1, <1>2, <1>3, <1>4, ConvertInductive, PTL DEF Spec, ConvertInv

=============================================================================
