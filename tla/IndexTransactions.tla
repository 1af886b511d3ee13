-------------------------- MODULE IndexTransactions --------------------------
(***************************************************************************)
(* Writers of one collection: index_chunks and recreate_collection of      *)
(* src/search/pg_repository.py, statement by statement, called by any      *)
(* number of workers and operators at once.                                *)
(*                                                                         *)
(* Each call is one READ COMMITTED transaction.  An insert waits for other *)
(* transactions that have inserted or deleted a row of the same unique key *)
(* or deleted a row it refers to; a delete waits for others that have      *)
(* deleted the row, updated it, or inserted a row that refers to it.  The  *)
(* foreign keys have no cascade.                                           *)
(*                                                                         *)
(* Row ids are uuids, so a row is named by its table, the call that        *)
(* inserts it and what it is for.                                          *)
(***************************************************************************)
CONSTANTS
    Call,         \* calls of the two functions
    Chunk, Pdf,
    PdfOf,        \* chunk.source_pdf
    Schema, Community, NoCommunity,
    Recreate,     \* the request to delete the collection
    Name,         \* the collection's name
    Nobody        \* no call

ASSUME IndexAssumption ==
    /\ PdfOf \in [Chunk -> Pdf]
    /\ NoCommunity \notin Community
    /\ Nobody \notin Call

Index == [batch : (SUBSET Chunk) \ {{}}, schema : Schema,
          community : Community \cup {NoCommunity}]

ASSUME RecreateAssumption == Recreate \notin Index

CollectionRow(t) == <<"collection", t, Name>>
PaperRow(t, f) == <<"paper", t, f>>
ChunkRow(t, c) == <<"chunk", t, c>>
EmbeddingRow(t, c) == <<"embedding", t, c>>

Row == ({"collection"} \X Call \X {Name}) \cup ({"paper"} \X Call \X Pdf)
           \cup ({"chunk", "embedding"} \X Call \X Chunk)

VARIABLES
    rows,         \* committed rows
    community,    \* committed collections.community_id, by the row's creator
    asked,        \* the request of each call
    at,           \* its next statement
    collection,   \* collection_id, by the row's creator
    paper,        \* pdf_to_paper_id, by the creator of the paper's row
    selected,     \* the chunk rows it has selected for deletion
    added, gone,  \* its uncommitted inserts and deletes
    adopting      \* calls with an uncommitted update of community_id

dbVars == <<rows, community>>
workVars == <<added, gone, adopting>>
vars == <<dbVars, asked, at, collection, paper, selected, workVars>>

Place == {"idle", "load", "create", "adopt", "papers", "new_paper", "embeddings",
          "chunks", "insert",
          "find", "find_papers", "find_chunks", "clear_embeddings",
          "clear_chunks", "clear_papers", "clear_collection", "cleared",
          "done", "failed"}

Over == {"done", "failed"}

BatchPdfs(t) == {PdfOf[c] : c \in asked[t].batch}

TypeOK ==
    /\ rows \subseteq Row
    /\ community \in [Call -> Community \cup {NoCommunity}]
    /\ asked \in [Call -> Index \cup {Recreate}]
    /\ at \in [Call -> Place]
    /\ collection \in [Call -> Call \cup {Nobody}]
    /\ paper \in [Call -> [Pdf -> Call \cup {Nobody}]]
    /\ selected \in [Call -> SUBSET Row]
    /\ added \in [Call -> SUBSET Row]
    /\ gone \in [Call -> SUBSET Row]
    /\ adopting \subseteq Call
    /\ \A t \in Call : at[t] \in {"adopt", "papers", "new_paper", "embeddings",
                                  "chunks", "insert"} =>
         asked[t] \in Index /\ collection[t] \in Call
    /\ \A t \in Call : at[t] = "insert" =>
         \A f \in BatchPdfs(t) : paper[t][f] \in Call

Init ==
    /\ rows = {}
    /\ community = [t \in Call |-> NoCommunity]
    /\ asked = [t \in Call |-> Recreate]
    /\ at = [t \in Call |-> "idle"]
    /\ collection = [t \in Call |-> Nobody]
    /\ paper = [t \in Call |-> [f \in Pdf |-> Nobody]]
    /\ selected = [t \in Call |-> {}]
    /\ added = [t \in Call |-> {}]
    /\ gone = [t \in Call |-> {}]
    /\ adopting = {}

-----------------------------------------------------------------------------
(* PostgreSQL.                                                             *)

(* Foreign keys. *)
References(r) ==
    CASE r[1] = "collection" -> {}
      [] r[1] = "paper" -> {CollectionRow(collection[r[2]])}
      [] r[1] = "chunk" -> {CollectionRow(collection[r[2]]),
                            PaperRow(paper[r[2]][PdfOf[r[3]]], PdfOf[r[3]])}
      [] r[1] = "embedding" -> {ChunkRow(r[2], r[3])}

(* Unique keys: collections.name, (collection_id, source_pdf) of papers    *)
(* and (collection_id, chunk_id) of chunks.                                *)
Clash(r, q) ==
    /\ r # q /\ r[1] = q[1] /\ r[3] = q[3] /\ r[1] # "embedding"
    /\ r[1] = "collection" \/ collection[r[2]] = collection[q[2]]

Visible(t) == (rows \ gone[t]) \cup added[t]

Waits(t, r) ==
    \E s \in Call \ {t} :
      \/ \E q \in added[s] \cup gone[s] : Clash(r, q)
      \/ gone[s] \cap References(r) # {}

Insert(t, r) ==
    /\ ~Waits(t, r)
    /\ \A q \in Visible(t) : ~Clash(r, q)
    /\ References(r) \subseteq Visible(t)
    /\ added' = [added EXCEPT ![t] = @ \cup {r}]

(* A delete follows the selects of its transaction and precedes inserts    *)
(* into the same table, so it only meets committed rows.                   *)
Delete(t, targets) ==
    LET found == targets \cap (rows \ gone[t]) IN
    /\ \A s \in Call \ {t} :
         /\ gone[s] \cap targets = {}
         /\ \A q \in added[s] : References(q) \cap targets = {}
    /\ \A q \in Visible(t) \ found : References(q) \cap found = {}
    /\ gone' = [gone EXCEPT ![t] = @ \cup found]

Goes(t, place) == at' = [at EXCEPT ![t] = place]

(* A refused request, a violated constraint, the victim of a deadlock, a   *)
(* lost connection or a killed process: nothing of the call remains.       *)
Abort(t) ==
    /\ at[t] \notin Over \cup {"idle"}
    /\ Goes(t, "failed")
    /\ added' = [added EXCEPT ![t] = {}]
    /\ gone' = [gone EXCEPT ![t] = {}]
    /\ adopting' = adopting \ {t}
    /\ UNCHANGED <<dbVars, asked, collection, paper, selected>>

Commits(t) ==
    /\ rows' = (rows \ gone[t]) \cup added[t]
    /\ community' = [k \in Call |->
         IF CollectionRow(k) \in added[t] \/ (t \in adopting /\ collection[t] = k)
         THEN asked[t].community ELSE community[k]]
    /\ Goes(t, "done")
    /\ added' = [added EXCEPT ![t] = {}]
    /\ gone' = [gone EXCEPT ![t] = {}]
    /\ adopting' = adopting \ {t}
    /\ UNCHANGED <<asked, collection, paper, selected>>

-----------------------------------------------------------------------------
(* index_chunks.                                                           *)

BeginIndex(t) ==
    /\ at[t] = "idle"
    /\ \E request \in Index : asked' = [asked EXCEPT ![t] = request]
    /\ Goes(t, "load")
    /\ UNCHANGED <<dbVars, collection, paper, selected, workVars>>

Existing == {k \in Call : CollectionRow(k) \in rows}

Accepts_AnySchema(t, k) ==
    asked[t].community = NoCommunity
      \/ community[k] \in {NoCommunity, asked[t].community}

(* _validate_collection_community and _validate_collection_schema_unchanged. *)
Accepts(t, k) ==
    /\ asked[t].community = NoCommunity
         \/ community[k] \in {NoCommunity, asked[t].community}
    /\ asked[t].schema = asked[k].schema

Adopts(t, k) == asked[t].community # NoCommunity /\ community[k] = NoCommunity

LoadFinds(t) ==
    /\ at[t] = "load"
    /\ \E k \in Existing :
         /\ Accepts(t, k)
         /\ collection' = [collection EXCEPT ![t] = k]
         /\ Goes(t, IF Adopts(t, k) THEN "adopt" ELSE "papers")
    /\ UNCHANGED <<dbVars, asked, paper, selected, workVars>>

LoadFindsNone(t) ==
    /\ at[t] = "load"
    /\ Existing = {}
    /\ collection' = [collection EXCEPT ![t] = t]
    /\ Goes(t, "create")
    /\ UNCHANGED <<dbVars, asked, paper, selected, workVars>>

CreateCollection(t) ==
    /\ at[t] = "create"
    /\ Insert(t, CollectionRow(t))
    /\ Goes(t, "papers")
    /\ UNCHANGED <<dbVars, asked, collection, paper, selected, gone, adopting>>

Updated(k) == {s \in adopting : collection[s] = k}

(* The update goes by id: it waits for another update or delete of the     *)
(* row, and then overwrites it, or finds nothing to update.                *)
AdoptCollection(t) ==
    /\ at[t] = "adopt"
    /\ Updated(collection[t]) = {}
    /\ \A s \in Call : CollectionRow(collection[t]) \notin gone[s]
    /\ adopting' = IF collection[t] \in Existing THEN adopting \cup {t} ELSE adopting
    /\ Goes(t, "papers")
    /\ UNCHANGED <<dbVars, asked, collection, paper, selected, added, gone>>

Lookups(t) == {f \in BatchPdfs(t) : paper[t][f] = Nobody}

PapersOf(t, f) ==
    {k \in Call : PaperRow(k, f) \in Visible(t) /\ collection[k] = collection[t]}

(* One paper of the batch, in the order of its chunks. *)
FindPaper(t) ==
    /\ at[t] = "papers"
    /\ \E f \in Lookups(t) :
         \/ /\ \E k \in PapersOf(t, f) : paper' = [paper EXCEPT ![t][f] = k]
            /\ Goes(t, "papers")
         \/ /\ PapersOf(t, f) = {}
            /\ paper' = [paper EXCEPT ![t][f] = t]
            /\ Goes(t, "new_paper")
    /\ UNCHANGED <<dbVars, asked, collection, selected, workVars>>

InsertPaper(t) ==
    /\ at[t] = "new_paper"
    /\ \E f \in Pdf : /\ paper[t][f] = t /\ PaperRow(t, f) \notin added[t]
                      /\ Insert(t, PaperRow(t, f))
    /\ Goes(t, "papers")
    /\ UNCHANGED <<dbVars, asked, collection, paper, selected, gone, adopting>>

Replaced(t) ==
    {r \in Visible(t) : /\ r[1] = "chunk" /\ r[3] \in asked[t].batch
                        /\ collection[r[2]] = collection[t]}

Selects(t) ==
    /\ selected' = [selected EXCEPT ![t] = Replaced(t)]
    /\ Goes(t, IF Replaced(t) = {} THEN "insert" ELSE "embeddings")

SelectReplaced_FirstPaper(t) ==
    /\ at[t] = "papers"
    /\ Lookups(t) # BatchPdfs(t)
    /\ Selects(t)
    /\ UNCHANGED <<dbVars, asked, collection, paper, workVars>>

SelectReplaced(t) ==
    /\ at[t] = "papers"
    /\ Lookups(t) = {}
    /\ Selects(t)
    /\ UNCHANGED <<dbVars, asked, collection, paper, workVars>>

EmbeddingsOf(chunks) == {EmbeddingRow(r[2], r[3]) : r \in chunks}

DeleteEmbeddings(t) ==
    /\ at[t] = "embeddings"
    /\ Delete(t, EmbeddingsOf(selected[t]))
    /\ Goes(t, "chunks")
    /\ UNCHANGED <<dbVars, asked, collection, paper, selected, added, adopting>>

DeleteReplaced(t) ==
    /\ at[t] = "chunks"
    /\ Delete(t, selected[t])
    /\ Goes(t, "insert")
    /\ UNCHANGED <<dbVars, asked, collection, paper, selected, added, adopting>>

Inserted(t) == {c \in Chunk : ChunkRow(t, c) \in added[t]}

InsertChunk_Alone(t) ==
    /\ at[t] = "insert"
    /\ \E c \in asked[t].batch \ Inserted(t) : Insert(t, ChunkRow(t, c))
    /\ UNCHANGED <<dbVars, asked, at, collection, paper, selected, gone, adopting>>

(* The chunk and then its embedding, which nothing can be in the way of. *)
InsertChunk(t) ==
    /\ at[t] = "insert"
    /\ \E c \in asked[t].batch \ Inserted(t) :
         /\ ~Waits(t, ChunkRow(t, c))
         /\ \A q \in Visible(t) : ~Clash(ChunkRow(t, c), q)
         /\ References(ChunkRow(t, c)) \subseteq Visible(t)
         /\ added' = [added EXCEPT ![t] = @ \cup {ChunkRow(t, c), EmbeddingRow(t, c)}]
    /\ UNCHANGED <<dbVars, asked, at, collection, paper, selected, gone, adopting>>

CommitIndex_PerChunk(t) ==
    /\ at[t] = "insert"
    /\ Inserted(t) # {}
    /\ Commits(t)

CommitIndex(t) ==
    /\ at[t] = "insert"
    /\ Inserted(t) = asked[t].batch
    /\ Commits(t)

-----------------------------------------------------------------------------
(* recreate_collection.                                                    *)

BeginRecreate(t) ==
    /\ at[t] = "idle"
    /\ asked' = [asked EXCEPT ![t] = Recreate]
    /\ Goes(t, "find")
    /\ UNCHANGED <<dbVars, collection, paper, selected, workVars>>

FindCollection(t) ==
    /\ at[t] = "find"
    /\ \/ /\ \E k \in Existing : collection' = [collection EXCEPT ![t] = k]
          /\ Goes(t, "find_papers")
       \/ Existing = {} /\ Goes(t, "done") /\ UNCHANGED collection
    /\ UNCHANGED <<dbVars, asked, paper, selected, workVars>>

FindPapers(t) ==
    /\ at[t] = "find_papers"
    /\ paper' = [paper EXCEPT ![t] = [f \in Pdf |->
         IF PapersOf(t, f) = {} THEN Nobody ELSE CHOOSE k \in PapersOf(t, f) : TRUE]]
    /\ Goes(t, "find_chunks")
    /\ UNCHANGED <<dbVars, asked, collection, selected, workVars>>

ChunksOfPapers(t) ==
    {r \in rows : /\ r[1] = "chunk" /\ paper[t][PdfOf[r[3]]] # Nobody
                  /\ paper[r[2]][PdfOf[r[3]]] = paper[t][PdfOf[r[3]]]}

FindChunks(t) ==
    /\ at[t] = "find_chunks"
    /\ selected' = [selected EXCEPT ![t] = ChunksOfPapers(t)]
    /\ Goes(t, "clear_embeddings")
    /\ UNCHANGED <<dbVars, asked, collection, paper, workVars>>

ClearEmbeddings(t) ==
    /\ at[t] = "clear_embeddings"
    /\ Delete(t, EmbeddingsOf(selected[t]))
    /\ Goes(t, "clear_chunks")
    /\ UNCHANGED <<dbVars, asked, collection, paper, selected, added, adopting>>

(* Rows that were committed while a delete by paper or collection waited   *)
(* are not in its snapshot: it may miss some of those that match now.      *)
ClearChunks(t) ==
    /\ at[t] = "clear_chunks"
    /\ \E seen \in SUBSET ChunksOfPapers(t) : Delete(t, seen)
    /\ Goes(t, "clear_papers")
    /\ UNCHANGED <<dbVars, asked, collection, paper, selected, added, adopting>>

PapersOfCollection(t) ==
    {r \in rows : r[1] = "paper" /\ collection[r[2]] = collection[t]}

ClearPapers(t) ==
    /\ at[t] = "clear_papers"
    /\ \E seen \in SUBSET PapersOfCollection(t) : Delete(t, seen)
    /\ Goes(t, "clear_collection")
    /\ UNCHANGED <<dbVars, asked, collection, paper, selected, added, adopting>>

ClearCollection(t) ==
    /\ at[t] = "clear_collection"
    /\ Updated(collection[t]) = {}
    /\ Delete(t, {CollectionRow(collection[t])})
    /\ Goes(t, "cleared")
    /\ UNCHANGED <<dbVars, asked, collection, paper, selected, added, adopting>>

CommitRecreate(t) ==
    /\ at[t] = "cleared"
    /\ Commits(t)

IndexStep(t) ==
    \/ BeginIndex(t) \/ LoadFinds(t) \/ LoadFindsNone(t) \/ CreateCollection(t)
    \/ AdoptCollection(t) \/ FindPaper(t) \/ InsertPaper(t) \/ SelectReplaced(t)
    \/ DeleteEmbeddings(t) \/ DeleteReplaced(t) \/ InsertChunk(t) \/ CommitIndex(t)

RecreateStep(t) ==
    \/ BeginRecreate(t) \/ FindCollection(t) \/ FindPapers(t) \/ FindChunks(t)
    \/ ClearEmbeddings(t) \/ ClearChunks(t) \/ ClearPapers(t) \/ ClearCollection(t)
    \/ CommitRecreate(t)

Next == \E t \in Call : IndexStep(t) \/ RecreateStep(t) \/ Abort(t)

Spec == Init /\ [][Next]_vars

-----------------------------------------------------------------------------
(* Properties.                                                             *)

(* Search joins chunks with their embeddings: a committed chunk without    *)
(* one would never be found.  Embeddings are selected, deleted and         *)
(* inserted by statements of their own, beside other writers.              *)
EveryChunkEmbedded ==
    \A t \in Call, c \in Chunk : ChunkRow(t, c) \in rows => EmbeddingRow(t, c) \in rows

(* A collection is read with one metadata schema, its creator's: filters   *)
(* and results of all its chunks go by it.  A call compares its schema     *)
(* long before it commits, and others delete and create the collection.    *)
OneSchema ==
    \A t \in Call, c \in Chunk : ChunkRow(t, c) \in rows =>
      asked[t].schema = asked[collection[t]].schema

BatchOf(t) == IF asked[t] = Recreate THEN {} ELSE asked[t].batch

FoundOf(t) == IF asked[t] = Recreate THEN collection[t] ELSE Nobody

OutcomeOf(t) == IF at[t] \in Over THEN at[t] ELSE "pending"

Writer(c) ==
    IF \E t \in Call : ChunkRow(t, c) \in rows
    THEN CHOOSE t \in Call : ChunkRow(t, c) \in rows
    ELSE Nobody

Creator == IF Existing = {} THEN Nobody ELSE CHOOSE k \in Existing : TRUE

Promise == INSTANCE IndexPromise WITH
    batch <- [t \in Call |-> BatchOf(t)],
    creator <- Creator,
    contents <- [c \in Chunk |-> Writer(c)],
    found <- [t \in Call |-> FoundOf(t)],
    outcome <- [t \in Call |-> OutcomeOf(t)]

(* Concurrent transactions, whatever waits for whatever, have the effect   *)
(* of the calls that committed, one after the other and each at once.      *)
KeepsPromise == Promise!Spec

(* The test at tests/integration/test_pg_repository.py:500 expects a       *)
(* collection that belongs to a community to refuse a call that names      *)
(* another one: a committed community_id is never overwritten.             *)
CommunityKept ==
    [][\A k \in Existing :
         community[k] # NoCommunity => community'[k] = community[k]]_vars

=============================================================================
