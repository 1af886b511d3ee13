---------------------------- MODULE IndexPapers -----------------------------
(***************************************************************************)
(* scripts/index_chunks_postgres.py: the MinerU output of the folder to    *)
(* rows of a collection.  Chunks are made of every output, their figures   *)
(* looked up in the local manifests, their texts embedded batch by batch,  *)
(* and the rows replaced, after the collection was deleted if asked for.   *)
(*                                                                         *)
(* The embedding service is external: it may answer a batch in any order,  *)
(* twice, in part, or not at all, but a row's index tells which text its   *)
(* vector is of, and without indexes rows come in the order of the texts.  *)
(* A text and its vector are told apart by the chunk.                      *)
(***************************************************************************)
EXTENDS ConvertPapers, Sequences

CONSTANTS BatchSize,    \* texts the service is sent at once
          ChunksOf      \* per version of a paper: the images of each chunk

(* The chunks of a version of a paper, and of all papers there may be; n   *)
(* stands for the id, which the versions share.                            *)
ChunksFrom(f, v) == {[file |-> f, n |-> n, of |-> v, media |-> ChunksOf[v][n]] :
                         n \in DOMAIN ChunksOf[v]}
Chunk == UNION {ChunksFrom(f, v) : f \in File, v \in Version}

ASSUME IndexAssumption ==
    /\ BatchSize \in Nat \ {0}
    /\ ChunksOf \in [Version -> Seq(SUBSET Name)]
    /\ IsFiniteSet(Chunk)

VARIABLES
    phase,      \* "idle", "embed", "recreate" or "insert"
    recreate,   \* the argument
    texts,      \* the chunks that are indexed
    vectors,    \* their vectors, as far as there are
    rows        \* the collection: chunks, each with the vector it was given

indexVars == <<phase, recreate, texts, vectors, rows>>

IndexInit ==
    /\ phase = "idle"
    /\ recreate = FALSE
    /\ texts = <<>> /\ vectors = <<>>
    /\ rows = {}

-----------------------------------------------------------------------------
(* Reading.                                                                *)

Outputs == {o \in File \X Method : output[o[1]][o[2]].of # 0}
ChunksIn(o) == ChunksFrom(o[1], output[o[1]][o[2]].of)

(* load_local_manifests: one output of a PDF, its manifest beside it.      *)
Manifested ==
    \A o \in Outputs :
        /\ Cardinality(Methods(o[1])) = 1
        /\ output[o[1]][o[2]].manifest # NoManifest

(* build_storage_media_map: the manifest names the figure, and the local   *)
(* file is the one it was made of.                                         *)
Mapped(c) ==
    c.media \subseteq TheOutput(c.file).manifest.names
                          \cap TheOutput(c.file).names

InOrder(S) ==
    CHOOSE s \in [1..Cardinality(S) -> S] :
        \A i, j \in DOMAIN s : s[i] = s[j] => i = j

(* An output that cannot be parsed is skipped; a run that finds no chunks, *)
(* or raises here, has changed nothing.                                    *)
ReadOutput ==
    /\ phase = "idle"
    /\ \E parsed \in SUBSET Outputs :
          LET chunks == UNION {ChunksIn(o) : o \in parsed}
          IN  /\ chunks # {}
              /\ Manifested
              /\ \A c \in chunks : Mapped(c)
              /\ texts' = InOrder(chunks)
    /\ recreate' \in BOOLEAN
    /\ vectors' = <<>>
    /\ phase' = "embed"
    /\ UNCHANGED rows

-----------------------------------------------------------------------------
(* Embedding.                                                              *)

Done == Len(vectors)
Rest == Len(texts) - Done
BatchLen == IF Rest < BatchSize THEN Rest ELSE BatchSize

(* Rows of an answer to n texts: of each the text, from 1.  n + 1 stands   *)
(* for an index that is out of range.                                      *)
Answer(n) ==
    {a \in [indexed : BOOLEAN, rows : UNION {[1..k -> 1..(n + 1)] : k \in 0..(n + 1)}] :
        a.indexed \/ \A i \in DOMAIN a.rows : a.rows[i] = i}

(* As many rows as texts; no index out of range, none twice.               *)
Accepted(a, n) ==
    /\ DOMAIN a.rows = 1..n
    /\ a.indexed => /\ \A i \in 1..n : a.rows[i] <= n
                    /\ \A i, j \in 1..n : a.rows[i] = a.rows[j] => i = j

(* The order in which the rows came.                                       *)
Ordered_AsAnswered(a, n) == a.rows

(* Each at the place its index says.                                       *)
Ordered(a, n) ==
    IF a.indexed
    THEN [i \in 1..n |-> a.rows[CHOOSE k \in 1..n : a.rows[k] = i]]
    ELSE a.rows

Embed ==
    /\ phase = "embed"
    /\ \E a \in Answer(BatchLen) :
          /\ Accepted(a, BatchLen)
          /\ vectors' = [i \in 1..(Done + BatchLen) |->
                 IF i <= Done THEN vectors[i]
                 ELSE texts[Done + Ordered(a, BatchLen)[i - Done]]]
    /\ phase' = IF BatchLen < Rest THEN "embed"
                ELSE IF recreate THEN "recreate" ELSE "insert"
    /\ UNCHANGED <<recreate, texts, rows>>

-----------------------------------------------------------------------------
(* Writing.                                                                *)

Finished ==
    /\ phase' = "idle"
    /\ recreate' = FALSE
    /\ texts' = <<>> /\ vectors' = <<>>

Recreate ==
    /\ phase = "recreate"
    /\ rows' = {}
    /\ phase' = "insert"
    /\ UNCHANGED <<recreate, texts, vectors>>

(* The rows of other chunks stay, those of an older version too.           *)
Insert ==
    /\ phase = "insert"
    /\ rows' = {r \in rows : \A i \in DOMAIN texts :
                    r.chunk.file # texts[i].file \/ r.chunk.n # texts[i].n}
               \cup {[chunk |-> texts[i], vector |-> vectors[i]] :
                         i \in DOMAIN texts}
    /\ Finished

(* An answer that is refused, or none, a transaction that fails, a kill.   *)
IndexEnds == phase # "idle" /\ Finished /\ UNCHANGED rows

IndexStep == Embed \/ Recreate \/ Insert \/ IndexEnds

-----------------------------------------------------------------------------
(* Properties.                                                             *)

(* Every chunk is searched by the vector of its own text, in whatever      *)
(* order the service answers the batches.                                  *)
OwnVector == \A r \in rows : r.vector = r.chunk

(* Once the storage has a manifest for a paper, every figure the rows of   *)
(* the paper refer to is stored, also of rows that were indexed before the *)
(* storage was exchanged or the paper converted anew.                      *)
FiguresStored ==
    \A r \in rows :
        store[r.chunk.file].manifest # NoManifest =>
            r.chunk.media \subseteq store[r.chunk.file].names

=============================================================================
