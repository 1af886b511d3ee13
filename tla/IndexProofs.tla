----------------------------- MODULE IndexProofs -----------------------------
(***************************************************************************)
(* Proofs about IndexTransactions.  The inductive invariant says what the  *)
(* foreign keys, the unique keys and the row locks guarantee of committed  *)
(* and uncommitted rows together, and what a call has selected, inserted   *)
(* and deleted, by the place it is at.                                     *)
(***************************************************************************)
EXTENDS IndexTransactions, TLAPS

IndexPlace == {"load", "create", "adopt", "papers", "new_paper", "embeddings",
               "chunks", "insert"}
RecreatePlace == {"find", "find_papers", "find_chunks", "clear_embeddings",
                  "clear_chunks", "clear_papers", "clear_collection", "cleared"}

(* Before a call knows its collection. *)
Early == {"idle", "load", "find"}

Adding == {"papers", "new_paper", "embeddings", "chunks", "insert"}
Deleting == {"chunks", "insert", "clear_chunks", "clear_papers",
             "clear_collection", "cleared"}
Looked == {"embeddings", "chunks", "insert"}
Selecting == {"embeddings", "chunks", "clear_embeddings", "clear_chunks"}

StageInv(t) ==
    /\ at[t] \in Early =>
         collection[t] = Nobody /\ paper[t] = [f \in Pdf |-> Nobody]
    /\ at[t] = "create" => collection[t] = t /\ paper[t] = [f \in Pdf |-> Nobody]
    /\ at[t] = "adopt" => paper[t] = [f \in Pdf |-> Nobody]
    /\ at[t] = "idle" => asked[t] = Recreate
    /\ at[t] \in IndexPlace => asked[t] \in Index
    /\ at[t] \in RecreatePlace => asked[t] = Recreate
    /\ at[t] \in (IndexPlace \cup RecreatePlace) \ Early => collection[t] \in Call
    /\ at[t] \in Looked => \A f \in BatchPdfs(t) : paper[t][f] \in Call
    /\ at[t] \in RecreatePlace \ Early => at[collection[t]] = "done"
    /\ t \in adopting => at[t] \in IndexPlace
    /\ added[t] # {} => at[t] \in Adding
    /\ gone[t] # {} => at[t] \in Deleting

(* Papers are looked up in the call's own collection. *)
PaperInv(t) ==
    \A f \in Pdf : paper[t][f] # Nobody =>
      /\ collection[paper[t][f]] = collection[t]
      /\ at[paper[t][f]] \notin Early

AddedInv(t) ==
    \A r \in added[t] :
      /\ r[2] = t
      /\ r[1] = "collection" => collection[t] = t
      /\ r[1] \in {"chunk", "embedding"} => at[t] = "insert" /\ r[3] \in asked[t].batch
      /\ r[1] = "chunk" => EmbeddingRow(t, r[3]) \in added[t]

GoneInv(t) ==
    /\ gone[t] \subseteq rows
    /\ \A r \in gone[t] :
         /\ collection[r[2]] = collection[t]
         /\ asked[t] \in Index =>
              r[1] \in {"chunk", "embedding"} /\ r[3] \in asked[t].batch

SelectedInv(t) ==
    at[t] \in Selecting =>
      \A r \in selected[t] :
        /\ r[1] = "chunk" /\ at[r[2]] = "done"
        /\ collection[r[2]] = collection[t]
        /\ asked[t] \in Index => r[3] \in asked[t].batch

(* How far the deletion of a chunk lags behind that of its embedding. *)
EmbeddingInv(t) ==
    /\ at[t] = "chunks" => \A k \in Call, c \in Chunk :
         EmbeddingRow(k, c) \in gone[t] => ChunkRow(k, c) \in selected[t]
    /\ at[t] = "insert" => \A k \in Call, c \in Chunk :
         EmbeddingRow(k, c) \in gone[t] => ChunkRow(k, c) \in gone[t]
    /\ at[t] = "cleared" => CollectionRow(collection[t]) \notin rows \ gone[t]

CallInv ==
    \A t \in Call : /\ StageInv(t) /\ PaperInv(t) /\ AddedInv(t)
                    /\ GoneInv(t) /\ SelectedInv(t) /\ EmbeddingInv(t)

RowsInv ==
    /\ \A r \in rows : /\ at[r[2]] = "done"
                       /\ r[1] = "collection" => collection[r[2]] = r[2]
    /\ EveryChunkEmbedded

(* Keys and locks. *)
DbInv ==
    /\ \A r \in rows : References(r) \subseteq rows
    /\ \A r, q \in rows : ~Clash(r, q)
    /\ \A t \in Call :
         /\ \A r \in added[t] : References(r) \subseteq Visible(t)
         /\ \A r \in added[t], q \in Visible(t) : ~Clash(r, q)
         /\ \A r \in Visible(t) : References(r) \cap gone[t] = {}
    /\ \A s, t \in Call : s # t =>
         /\ gone[s] \cap gone[t] = {}
         /\ \A r \in added[s] : References(r) \cap gone[t] = {}
         /\ \A r \in added[s], q \in added[t] \cup gone[t] : ~Clash(r, q)


-----------------------------------------------------------------------------
(* Rows.                                                                   *)

LEMMA RowShape ==
    ASSUME NEW r \in Row
    PROVE  /\ r = <<r[1], r[2], r[3]>> /\ r[2] \in Call
           /\ r[1] \in {"collection", "paper", "chunk", "embedding"}
           /\ r[1] = "collection" => r = CollectionRow(r[2])
           /\ r[1] = "paper" => r[3] \in Pdf /\ r = PaperRow(r[2], r[3])
           /\ r[1] = "chunk" => r[3] \in Chunk /\ r = ChunkRow(r[2], r[3])
           /\ r[1] = "embedding" => r[3] \in Chunk /\ r = EmbeddingRow(r[2], r[3])
BY DEF Row, CollectionRow, PaperRow, ChunkRow, EmbeddingRow

LEMMA RowsOf ==
    ASSUME NEW t \in Call
    PROVE  /\ CollectionRow(t) \in Row
           /\ \A f \in Pdf : PaperRow(t, f) \in Row
           /\ \A c \in Chunk : ChunkRow(t, c) \in Row /\ EmbeddingRow(t, c) \in Row
BY DEF Row, CollectionRow, PaperRow, ChunkRow, EmbeddingRow

LEMMA ReferencesOf ==
    ASSUME NEW t
    PROVE  /\ References(CollectionRow(t)) = {}
           /\ \A f : References(PaperRow(t, f)) = {CollectionRow(collection[t])}
           /\ \A c : References(ChunkRow(t, c)) =
                {CollectionRow(collection[t]), PaperRow(paper[t][PdfOf[c]], PdfOf[c])}
           /\ \A c : References(EmbeddingRow(t, c)) = {ChunkRow(t, c)}
BY DEF References, CollectionRow, PaperRow, ChunkRow, EmbeddingRow

(* The keys of a row depend on the call that inserts it only. *)
LEMMA KeysKept ==
    ASSUME NEW r, NEW q,
           collection'[r[2]] = collection[r[2]], collection'[q[2]] = collection[q[2]]
    PROVE  /\ Clash(r, q)' <=> Clash(r, q)
           /\ r[1] = "chunk" /\ paper'[r[2]] = paper[r[2]]
              => References(r)' = References(r)
           /\ r[1] \in {"collection", "paper", "embedding"}
              => References(r)' = References(r)
BY DEF Clash, References, CollectionRow, PaperRow, ChunkRow

LEMMA KeysUnchanged ==
    ASSUME UNCHANGED <<collection, paper>>
    PROVE  /\ \A r : References(r)' = References(r)
           /\ \A r, q : Clash(r, q)' <=> Clash(r, q)
BY DEF Clash, References, CollectionRow, PaperRow, ChunkRow

LEMMA ClashSymmetric ==
    ASSUME NEW r, NEW q, Clash(r, q)
    PROVE  Clash(q, r)
BY DEF Clash

(* Uncommitted rows are no committed ones. *)
LEMMA Uncommitted ==
    ASSUME TypeOK, CallInv, RowsInv, NEW t \in Call
    PROVE  added[t] \cap rows = {}
BY DEF CallInv, StageInv, AddedInv, RowsInv, Adding

-----------------------------------------------------------------------------
(* What statements keep of the keys and locks.                             *)

Insertable(t, new) ==
    /\ \A r \in new : /\ References(r) \subseteq Visible(t) \cup new
                      /\ References(r) \cap gone[t] = {}
    /\ \A r \in new, q \in Visible(t) \cup new : ~Clash(r, q)
    /\ \A s \in Call \ {t}, r \in new :
         /\ gone[s] \cap References(r) = {}
         /\ \A q \in added[s] \cup gone[s] : ~Clash(q, r)

LEMMA InsertsKeep ==
    ASSUME DbInv, NEW t \in Call, NEW new, added \in [Call -> SUBSET Row],
           UNCHANGED <<rows, gone, collection, paper>>,
           added' = [added EXCEPT ![t] = @ \cup new],
           Insertable(t, new)
    PROVE  DbInv'
<1> USE DEF Insertable
<1>1. /\ \A r : References(r)' = References(r)
      /\ \A r, q : Clash(r, q)' <=> Clash(r, q)
  BY KeysUnchanged
<1>2. /\ added'[t] = added[t] \cup new
      /\ \A s \in Call \ {t} : added'[s] = added[s]
  OBVIOUS
<1>3. /\ Visible(t)' = Visible(t) \cup new
      /\ \A s \in Call \ {t} : Visible(s)' = Visible(s)
  BY <1>2 DEF Visible
<1>4. \A s \in Call :
        /\ \A r \in added'[s] : References(r) \subseteq Visible(s)'
        /\ \A r \in added'[s], q \in Visible(s)' : ~Clash(r, q)
        /\ \A r \in Visible(s)' : References(r) \cap gone[s] = {}
  <2> SUFFICES ASSUME NEW s \in Call
               PROVE  /\ \A r \in added'[s] : References(r) \subseteq Visible(s)'
                      /\ \A r \in added'[s], q \in Visible(s)' : ~Clash(r, q)
                      /\ \A r \in Visible(s)' : References(r) \cap gone[s] = {}
    OBVIOUS
  <2>1. CASE s # t
    BY <2>1, <1>2, <1>3 DEF DbInv
  <2>2. CASE s = t
    <3>1. added[t] \subseteq Visible(t)
      BY DEF Visible
    <3>2. \A r \in added'[t] : References(r) \subseteq Visible(t)'
      BY <1>2, <1>3 DEF DbInv
    <3>3. \A r \in added[t], q \in new : ~Clash(r, q)
      BY <3>1, ClashSymmetric
    <3>4. \A r \in added'[t], q \in Visible(t)' : ~Clash(r, q)
      BY <3>3, <1>2, <1>3 DEF DbInv
    <3>5. \A r \in Visible(t)' : References(r) \cap gone[t] = {}
      BY <1>3 DEF DbInv
    <3> QED  BY <2>2, <3>2, <3>4, <3>5
  <2> QED  BY <2>1, <2>2
<1>5. \A s, u \in Call : s # u =>
        /\ \A r \in added'[s] : References(r) \cap gone[u] = {}
        /\ \A r \in added'[s], q \in added'[u] \cup gone[u] : ~Clash(r, q)
  <2> SUFFICES ASSUME NEW s \in Call, NEW u \in Call, s # u
               PROVE  /\ \A r \in added'[s] : References(r) \cap gone[u] = {}
                      /\ \A r \in added'[s], q \in added'[u] \cup gone[u] : ~Clash(r, q)
    OBVIOUS
  <2>1. CASE s = t
    BY <2>1, <1>2, ClashSymmetric DEF DbInv
  <2>2. CASE u = t
    BY <2>2, <1>2, ClashSymmetric DEF DbInv
  <2>3. CASE s # t /\ u # t
    BY <2>3, <1>2 DEF DbInv
  <2> QED  BY <2>1, <2>2, <2>3
<1> QED  BY <1>1, <1>4, <1>5 DEF DbInv

LEMMA DeleteKeeps ==
    ASSUME DbInv, NEW t \in Call, NEW targets, Delete(t, targets),
           gone \in [Call -> SUBSET Row],
           \A s \in Call : added[s] \cap rows = {},
           UNCHANGED <<rows, added, collection, paper>>
    PROVE  DbInv'
<1> DEFINE found == targets \cap (rows \ gone[t])
<1>1. /\ \A r : References(r)' = References(r)
      /\ \A r, q : Clash(r, q)' <=> Clash(r, q)
  BY KeysUnchanged
<1>2. /\ gone'[t] = gone[t] \cup found
      /\ \A s \in Call \ {t} : gone'[s] = gone[s]
  BY DEF Delete
<1>3. /\ Visible(t)' = Visible(t) \ found
      /\ \A s \in Call \ {t} : Visible(s)' = Visible(s)
  BY <1>2 DEF Visible
<1>4. /\ \A s \in Call \ {t} : /\ gone[s] \cap targets = {}
                               /\ \A q \in added[s] : References(q) \cap targets = {}
      /\ \A q \in Visible(t) \ found : References(q) \cap found = {}
  BY DEF Delete
<1> HIDE DEF found
<1>5. \A s \in Call :
        /\ \A r \in added[s] : References(r) \subseteq Visible(s)'
        /\ \A r \in added[s], q \in Visible(s)' : ~Clash(r, q)
        /\ \A r \in Visible(s)' : References(r) \cap gone'[s] = {}
  <2> SUFFICES ASSUME NEW s \in Call
               PROVE  /\ \A r \in added[s] : References(r) \subseteq Visible(s)'
                      /\ \A r \in added[s], q \in Visible(s)' : ~Clash(r, q)
                      /\ \A r \in Visible(s)' : References(r) \cap gone'[s] = {}
    OBVIOUS
  <2>1. CASE s # t
    BY <2>1, <1>2, <1>3 DEF DbInv
  <2>2. CASE s = t
    <3>1. added[t] \subseteq Visible(t) \ found
      BY DEF Visible, found
    <3> QED  BY <2>2, <3>1, <1>2, <1>3, <1>4 DEF DbInv
  <2> QED  BY <2>1, <2>2
<1>6. \A s, u \in Call : s # u =>
        /\ gone'[s] \cap gone'[u] = {}
        /\ \A r \in added[s] : References(r) \cap gone'[u] = {}
        /\ \A r \in added[s], q \in added[u] \cup gone'[u] : ~Clash(r, q)
  <2> SUFFICES ASSUME NEW s \in Call, NEW u \in Call, s # u
               PROVE  /\ gone'[s] \cap gone'[u] = {}
                      /\ \A r \in added[s] : References(r) \cap gone'[u] = {}
                      /\ \A r \in added[s], q \in added[u] \cup gone'[u] : ~Clash(r, q)
    OBVIOUS
  <2>1. CASE s # t /\ u # t
    BY <2>1, <1>2 DEF DbInv
  <2>2. CASE s = t
    BY <2>2, <1>2, <1>4 DEF DbInv, found
  <2>3. CASE u = t
    <3>1. found \subseteq Visible(s)
      BY <2>3, <1>4 DEF Visible, found
    <3> QED  BY <2>3, <3>1, <1>2, <1>4 DEF DbInv, found
  <2> QED  BY <2>1, <2>2, <2>3
<1> QED  BY <1>1, <1>5, <1>6 DEF DbInv

LEMMA CommitKeeps ==
    ASSUME DbInv, NEW t \in Call, Commits(t),
           gone \in [Call -> SUBSET Row], added \in [Call -> SUBSET Row]
    PROVE  DbInv'
<1>1. /\ \A r : References(r)' = References(r)
      /\ \A r, q : Clash(r, q)' <=> Clash(r, q)
  BY KeysUnchanged DEF Commits
<1>2. /\ rows' = Visible(t)
      /\ added'[t] = {} /\ gone'[t] = {}
      /\ \A s \in Call \ {t} : added'[s] = added[s] /\ gone'[s] = gone[s]
  BY DEF Commits, Visible
<1>3. /\ \A r \in rows' : References(r) \subseteq rows'
      /\ \A r, q \in rows' : ~Clash(r, q)
  BY <1>2, ClashSymmetric DEF DbInv, Visible
<1>4. \A s \in Call :
        /\ \A r \in added'[s] : References(r) \subseteq Visible(s)'
        /\ \A r \in added'[s], q \in Visible(s)' : ~Clash(r, q)
        /\ \A r \in Visible(s)' : References(r) \cap gone'[s] = {}
  <2> SUFFICES ASSUME NEW s \in Call
               PROVE  /\ \A r \in added'[s] : References(r) \subseteq Visible(s)'
                      /\ \A r \in added'[s], q \in Visible(s)' : ~Clash(r, q)
                      /\ \A r \in Visible(s)' : References(r) \cap gone'[s] = {}
    OBVIOUS
  <2>1. CASE s = t
    BY <2>1, <1>2
  <2>2. CASE s # t
    <3>1. Visible(s)' \subseteq Visible(s) \cup added[t]
      BY <2>2, <1>2 DEF Visible
    <3>2. \A r \in Visible(s) : r \in Visible(s)' \/ r \in gone[t]
      BY <2>2, <1>2 DEF Visible
    <3> QED  BY <2>2, <3>1, <3>2, <1>2 DEF DbInv
  <2> QED  BY <2>1, <2>2
<1>5. \A s, u \in Call : s # u =>
        /\ gone'[s] \cap gone'[u] = {}
        /\ \A r \in added'[s] : References(r) \cap gone'[u] = {}
        /\ \A r \in added'[s], q \in added'[u] \cup gone'[u] : ~Clash(r, q)
  BY <1>2 DEF DbInv
<1> QED  BY <1>1, <1>3, <1>4, <1>5 DEF DbInv

LEMMA FrameKeeps ==
    ASSUME DbInv, UNCHANGED <<rows, added, gone>>,
           \A t \in Call : gone[t] \subseteq rows,
           \A r : r \in rows \/ (\E t \in Call : r \in added[t])
             => References(r)' = References(r),
           \A r, q : /\ r \in rows \/ \E t \in Call : r \in added[t]
                     /\ q \in rows \/ \E t \in Call : q \in added[t]
             => (Clash(r, q)' <=> Clash(r, q))
    PROVE  DbInv'
BY DEF DbInv, Visible

-----------------------------------------------------------------------------
(* Types.                                                                  *)

Step(t) == IndexStep(t) \/ RecreateStep(t) \/ Abort(t)

LEMMA DeleteTyped ==
    ASSUME TypeOK, NEW t \in Call, NEW targets, Delete(t, targets)
    PROVE  gone' \in [Call -> SUBSET Row]
BY DEF TypeOK, Delete

LEMMA InsertTyped ==
    ASSUME TypeOK, NEW t \in Call, NEW r \in Row, Insert(t, r)
    PROVE  added' \in [Call -> SUBSET Row]
BY DEF TypeOK, Insert

LEMMA CommitTyped ==
    ASSUME TypeOK, NEW t \in Call, StageInv(t), Commits(t)
    PROVE  TypeOK'
<1>1. rows' \subseteq Row
  BY DEF TypeOK, Commits
<1>2. community' \in [Call -> Community \cup {NoCommunity}]
  <2>1. (\E k \in Call : CollectionRow(k) \in added[t]) \/ t \in adopting
        => asked[t] \in Index
    BY DEF TypeOK, StageInv, Adding, IndexPlace
  <2>2. asked[t] \in Index => asked[t].community \in Community \cup {NoCommunity}
    BY DEF Index
  <2> QED  BY <2>1, <2>2 DEF TypeOK, Commits
<1> QED  BY <1>1, <1>2 DEF TypeOK, Commits, Goes, Place, BatchPdfs

LEMMA StepTyped ==
    ASSUME TypeOK, CallInv, NEW t \in Call, Step(t)
    PROVE  TypeOK'
<1> USE DEF TypeOK, Goes, Place, dbVars, workVars, BatchPdfs
<1>1. CASE BeginIndex(t)
  BY <1>1 DEF BeginIndex
<1>2. CASE LoadFinds(t)
  BY <1>2 DEF LoadFinds, Existing, CallInv, StageInv, IndexPlace
<1>3. CASE LoadFindsNone(t)
  BY <1>3 DEF LoadFindsNone
<1>4. CASE CreateCollection(t)
  BY <1>4, InsertTyped, RowsOf DEF CreateCollection, CallInv, StageInv, IndexPlace, RecreatePlace, Early
<1>5. CASE AdoptCollection(t)
  BY <1>5 DEF AdoptCollection
<1>6. CASE FindPaper(t)
  <2>1. BatchPdfs(t) \subseteq Pdf
    <3>1. asked[t] \in Index
      BY <1>6 DEF FindPaper
    <3> QED  BY <3>1, IndexAssumption DEF Index
  <2>2. PICK f \in BatchPdfs(t), k \in Call : paper' = [paper EXCEPT ![t][f] = k]
    BY <1>6 DEF FindPaper, Lookups, PapersOf
  <2>3. /\ paper' \in [Call -> [Pdf -> Call \cup {Nobody}]]
        /\ \A s \in Call \ {t} : paper'[s] = paper[s]
    BY <2>1, <2>2
  <2>4. at'[t] \in {"papers", "new_paper"} /\ \A s \in Call \ {t} : at'[s] = at[s]
    BY <1>6 DEF FindPaper
  <2>5. at' \in [Call -> Place]
    BY <1>6 DEF FindPaper
  <2> QED  BY <1>6, <2>3, <2>4, <2>5 DEF FindPaper
<1>7. CASE InsertPaper(t)
  <2>1. PICK f \in Pdf : Insert(t, PaperRow(t, f))
    BY <1>7 DEF InsertPaper
  <2> QED  BY <1>7, <2>1, InsertTyped, RowsOf DEF InsertPaper
<1>8. CASE SelectReplaced(t)
  <2>1. Replaced(t) \subseteq Row
    BY DEF Replaced, Visible
  <2>2. at'[t] = "insert" => \A f \in BatchPdfs(t) : paper[t][f] \in Call
    BY <1>8, IndexAssumption DEF SelectReplaced, Lookups, BatchPdfs, Index
  <2> QED  BY <1>8, <2>1, <2>2 DEF SelectReplaced, Selects, BatchPdfs
<1>9. CASE DeleteEmbeddings(t)
  BY <1>9, DeleteTyped DEF DeleteEmbeddings, BatchPdfs
<1>10. CASE DeleteReplaced(t)
  BY <1>10, DeleteTyped DEF DeleteReplaced, BatchPdfs, CallInv, StageInv, Looked
<1>11. CASE InsertChunk(t)
  BY <1>11, RowsOf DEF InsertChunk, BatchPdfs, Index
<1>12. CASE CommitIndex(t)
  BY <1>12, CommitTyped DEF CommitIndex, CallInv
<1>13. CASE BeginRecreate(t)
  BY <1>13 DEF BeginRecreate
<1>14. CASE FindCollection(t)
  <2>1. at'[t] \in {"find_papers", "done"} /\ \A s \in Call \ {t} : at'[s] = at[s]
    BY <1>14 DEF FindCollection
  <2>2. /\ collection' \in [Call -> Call \cup {Nobody}]
        /\ \A s \in Call \ {t} : collection'[s] = collection[s]
    BY <1>14 DEF FindCollection, Existing
  <2>3. at' \in [Call -> Place]
    BY <1>14 DEF FindCollection
  <2> QED  BY <1>14, <2>1, <2>2, <2>3 DEF FindCollection
<1>15. CASE FindPapers(t)
  BY <1>15 DEF FindPapers, PapersOf
<1>16. CASE FindChunks(t)
  BY <1>16 DEF FindChunks, ChunksOfPapers
<1>17. CASE ClearEmbeddings(t)
  BY <1>17, DeleteTyped DEF ClearEmbeddings
<1>18. CASE ClearChunks(t)
  BY <1>18, DeleteTyped DEF ClearChunks
<1>19. CASE ClearPapers(t)
  BY <1>19, DeleteTyped DEF ClearPapers
<1>20. CASE ClearCollection(t)
  BY <1>20, DeleteTyped DEF ClearCollection
<1>21. CASE CommitRecreate(t)
  BY <1>21, CommitTyped DEF CommitRecreate, CallInv
<1>22. CASE Abort(t)
  BY <1>22 DEF Abort, Over
<1> QED
  BY <1>1, <1>2, <1>3, <1>4, <1>5, <1>6, <1>7, <1>8, <1>9, <1>10, <1>11, <1>12,
     <1>13, <1>14, <1>15, <1>16, <1>17, <1>18, <1>19, <1>20, <1>21, <1>22
     DEF Step, IndexStep, RecreateStep

-----------------------------------------------------------------------------
(* Calls.                                                                  *)

(* What a step of one call can do to the calls around it. *)
LEMMA Locality ==
    ASSUME TypeOK, CallInv, RowsInv, DbInv, NEW t \in Call, Step(t)
    PROVE  /\ \A s \in Call \ {t} :
                /\ asked'[s] = asked[s] /\ at'[s] = at[s]
                /\ collection'[s] = collection[s] /\ paper'[s] = paper[s]
                /\ selected'[s] = selected[s]
                /\ added'[s] = added[s] /\ gone'[s] = gone[s]
                /\ s \in adopting' <=> s \in adopting
           /\ at'[t] # "idle" /\ at[t] \notin Over
           /\ at[t] \notin Early => at'[t] \notin Early /\ collection'[t] = collection[t]
           /\ \A s \in Call \ {t} : gone[s] \subseteq rows => gone[s] \subseteq rows'
           /\ \A r \in rows' \ rows : r[2] = t
           /\ rows' # rows => at'[t] = "done"
<1> USE DEF TypeOK, Goes, dbVars, workVars, Over, Early
<1>1. CASE BeginIndex(t) \/ LoadFinds(t) \/ LoadFindsNone(t) \/ BeginRecreate(t)
             \/ FindCollection(t)
  BY <1>1 DEF BeginIndex, LoadFinds, LoadFindsNone, BeginRecreate, FindCollection
<1>2. CASE CreateCollection(t) \/ AdoptCollection(t) \/ InsertPaper(t) \/ InsertChunk(t)
  BY <1>2 DEF CreateCollection, AdoptCollection, InsertPaper, InsertChunk, Insert
<1>3. CASE FindPaper(t) \/ FindPapers(t)
  BY <1>3 DEF FindPaper, FindPapers
<1>4. CASE SelectReplaced(t) \/ FindChunks(t)
  BY <1>4 DEF SelectReplaced, Selects, FindChunks
<1>5. CASE DeleteEmbeddings(t) \/ DeleteReplaced(t)
  BY <1>5 DEF DeleteEmbeddings, DeleteReplaced, Delete
<1>6. CASE ClearEmbeddings(t) \/ ClearChunks(t) \/ ClearPapers(t) \/ ClearCollection(t)
  BY <1>6 DEF ClearEmbeddings, ClearChunks, ClearPapers, ClearCollection, Delete
<1>7. CASE CommitIndex(t) \/ CommitRecreate(t)
  <2>1. Commits(t) /\ at[t] \in {"insert", "cleared"}
    BY <1>7 DEF CommitIndex, CommitRecreate
  <2>2. \A s \in Call \ {t} : gone[s] \cap gone[t] = {}
    BY DEF DbInv
  <2>3. \A r \in added[t] : r[2] = t
    BY DEF CallInv, AddedInv
  <2> QED  BY <2>1, <2>2, <2>3 DEF Commits
<1>8. CASE Abort(t)
  BY <1>8 DEF Abort
<1> QED
  BY <1>1, <1>2, <1>3, <1>4, <1>5, <1>6, <1>7, <1>8 DEF Step, IndexStep, RecreateStep

LEMMA OthersKeep ==
    ASSUME TypeOK, CallInv, RowsInv, DbInv, NEW t \in Call, Step(t),
           NEW s \in Call, s # t
    PROVE  /\ StageInv(s)' /\ PaperInv(s)' /\ AddedInv(s)'
           /\ GoneInv(s)' /\ SelectedInv(s)' /\ EmbeddingInv(s)'
<1> DEFINE Same == /\ asked'[s] = asked[s] /\ at'[s] = at[s]
                   /\ collection'[s] = collection[s] /\ paper'[s] = paper[s]
                   /\ selected'[s] = selected[s]
                   /\ added'[s] = added[s] /\ gone'[s] = gone[s]
                   /\ s \in adopting' <=> s \in adopting
<1>1. Same
  BY Locality
<1>2. \A k \in Call : at[k] \notin Early =>
        at'[k] \notin Early /\ collection'[k] = collection[k]
  BY Locality
<1>3. \A k \in Call : at[k] = "done" => at'[k] = "done"
  BY Locality DEF Over
<1>4. gone[s] \subseteq rows'
  BY Locality DEF CallInv, GoneInv
<1>5. \A r \in rows : r[2] \in Call /\ at[r[2]] \notin Early
  BY RowShape DEF RowsInv, Early, TypeOK
<1>6. StageInv(s)'
  <2>1. at[s] \in RecreatePlace \ Early => collection[s] \in Call
    BY DEF CallInv, StageInv
  <2> QED  BY <1>1, <1>3, <2>1 DEF CallInv, StageInv, BatchPdfs
<1>7. PaperInv(s)'
  <2>1. \A f \in Pdf : paper[s][f] \in Call \cup {Nobody}
    BY DEF TypeOK
  <2> QED  BY <1>1, <1>2, <2>1 DEF CallInv, PaperInv
<1>8. AddedInv(s)'
  BY <1>1 DEF CallInv, AddedInv
<1>9. GoneInv(s)'
  BY <1>1, <1>2, <1>4, <1>5 DEF CallInv, GoneInv
<1>10. SelectedInv(s)'
  <2>1. \A r \in selected[s] : r[2] \in Call
    BY RowShape DEF TypeOK
  <2>2. at[s] \in Selecting => \A r \in selected[s] : at[r[2]] \notin Early
    BY DEF CallInv, SelectedInv, Early
  <2> QED  BY <1>1, <1>2, <1>3, <2>1, <2>2 DEF CallInv, SelectedInv
<1>11. EmbeddingInv(s)'
  <2>1. at[s] = "cleared" => collection[s] \in Call /\ at[collection[s]] = "done"
    BY DEF CallInv, StageInv, RecreatePlace, Early
  <2>2. at[s] = "cleared" => collection[s] # t
    BY <2>1, Locality DEF Over
  <2>3. \A k : CollectionRow(k) \in rows' \ rows => k = t
    BY Locality DEF CollectionRow
  <2> QED  BY <1>1, <2>2, <2>3 DEF CallInv, EmbeddingInv
<1> QED  BY <1>6, <1>7, <1>8, <1>9, <1>10, <1>11

LEMMA InsertOneKeeps ==
    ASSUME TypeOK, CallInv, RowsInv, DbInv, NEW t \in Call, NEW r, Insert(t, r),
           UNCHANGED <<rows, gone, collection, paper>>,
           r \notin References(r)
    PROVE  DbInv'
<1>1. /\ \A s \in Call \ {t} : /\ gone[s] \cap References(r) = {}
                               /\ \A q \in added[s] \cup gone[s] : ~Clash(q, r)
      /\ \A q \in Visible(t) : ~Clash(r, q)
      /\ References(r) \subseteq Visible(t)
  BY ClashSymmetric DEF Insert, Waits
<1>2. References(r) \cap gone[t] = {}
  <2>1. added[t] \cap gone[t] = {}
    BY Uncommitted DEF CallInv, GoneInv
  <2> QED  BY <1>1, <2>1 DEF Visible
<1>3. ~Clash(r, r)
  BY DEF Clash
<1> DEFINE new == {r}
<1>4. added' = [added EXCEPT ![t] = @ \cup new]
  BY DEF Insert
<1>5. Insertable(t, new)
  BY <1>1, <1>2, <1>3 DEF Insertable
<1>6. added \in [Call -> SUBSET Row]
  BY DEF TypeOK
<1> HIDE DEF new
<1> QED  BY <1>4, <1>5, <1>6, InsertsKeep

LEMMA ChunkKeeps ==
    ASSUME TypeOK, CallInv, RowsInv, DbInv, NEW t \in Call, InsertChunk(t)
    PROVE  DbInv'
<1>1. PICK c \in asked[t].batch :
        /\ ~Waits(t, ChunkRow(t, c))
        /\ \A q \in Visible(t) : ~Clash(ChunkRow(t, c), q)
        /\ References(ChunkRow(t, c)) \subseteq Visible(t)
        /\ added' = [added EXCEPT ![t] = @ \cup {ChunkRow(t, c), EmbeddingRow(t, c)}]
  BY DEF InsertChunk
<1> DEFINE chunk == ChunkRow(t, c)
           embedding == EmbeddingRow(t, c)
           new == {chunk, embedding}
<1>2. /\ chunk # embedding
      /\ chunk[1] = "chunk" /\ embedding[1] = "embedding"
      /\ chunk[2] = t /\ embedding[2] = t
  BY DEF ChunkRow, EmbeddingRow
<1>3. References(embedding) = {chunk}
  BY ReferencesOf
<1>4. \A s \in Call : chunk \notin gone[s]
  <2>1. chunk \notin rows
    BY <1>2 DEF RowsInv, InsertChunk
  <2> QED  BY <2>1 DEF CallInv, GoneInv
<1>5. /\ \A q : ~Clash(embedding, q)
      /\ ~Clash(chunk, chunk) /\ ~Clash(chunk, embedding)
  BY <1>2 DEF Clash
<1>6. /\ \A q \in Visible(t) : ~Clash(chunk, q)
      /\ \A s \in Call \ {t} : /\ gone[s] \cap References(chunk) = {}
                               /\ \A q \in added[s] \cup gone[s] : ~Clash(q, chunk)
  BY <1>1, ClashSymmetric DEF Waits
<1>7. References(chunk) \cap gone[t] = {}
  <2>1. added[t] \cap gone[t] = {}
    BY Uncommitted DEF CallInv, GoneInv
  <2> QED  BY <1>1, <2>1 DEF Visible
<1>8. added' = [added EXCEPT ![t] = @ \cup new]
  BY <1>1
<1> HIDE DEF chunk, embedding
<1>9. \A q : ~Clash(q, embedding)
  BY <1>5, ClashSymmetric
<1>10. References(chunk) \subseteq Visible(t)
  BY <1>1 DEF chunk
<1>11. \A x \in new : /\ References(x) \subseteq Visible(t) \cup new
                       /\ References(x) \cap gone[t] = {}
  BY <1>3, <1>4, <1>7, <1>10
<1>12. \A x \in new, q \in Visible(t) \cup new : ~Clash(x, q)
  BY <1>5, <1>6
<1>13. \A s \in Call \ {t}, x \in new :
             /\ gone[s] \cap References(x) = {}
             /\ \A q \in added[s] \cup gone[s] : ~Clash(q, x)
  BY <1>3, <1>4, <1>6, <1>9
<1>14. UNCHANGED <<rows, gone, collection, paper>> /\ added \in [Call -> SUBSET Row]
  BY DEF InsertChunk, dbVars, TypeOK
<1>15. Insertable(t, new)
  BY <1>11, <1>12, <1>13 DEF Insertable
<1> HIDE DEF new
<1> QED  BY <1>8, <1>14, <1>15, InsertsKeep

LEMMA DbStep ==
    ASSUME TypeOK, CallInv, RowsInv, DbInv, NEW t \in Call, Step(t)
    PROVE  DbInv'
<1> USE DEF dbVars, workVars
<1>1. \A s \in Call : gone[s] \subseteq rows
  BY DEF CallInv, GoneInv
<1>2. added \in [Call -> SUBSET Row] /\ gone \in [Call -> SUBSET Row]
  BY DEF TypeOK
<1>3. \A r : r \in rows \/ (\E s \in Call : r \in added[s]) => r \in Row
  BY <1>2 DEF TypeOK
<1>4. \A s \in Call : added[s] \cap rows = {}
  BY Uncommitted
<1>5. CASE BeginIndex(t) \/ BeginRecreate(t) \/ AdoptCollection(t)
             \/ SelectReplaced(t) \/ FindChunks(t)
  <2>1. UNCHANGED <<rows, added, gone, collection, paper>>
    BY <1>5 DEF BeginIndex, BeginRecreate, AdoptCollection, SelectReplaced, FindChunks
  <2> QED  BY <2>1, <1>1, KeysUnchanged, FrameKeeps
<1>6. CASE LoadFinds(t) \/ LoadFindsNone(t) \/ FindCollection(t) \/ FindPapers(t)
  <2>1. UNCHANGED <<rows, added, gone>>
    BY <1>6 DEF LoadFinds, LoadFindsNone, FindCollection, FindPapers
  <2>2. at[t] \in {"load", "find", "find_papers"}
    BY <1>6 DEF LoadFinds, LoadFindsNone, FindCollection, FindPapers
  <2>3. added[t] = {}
    BY <2>2 DEF CallInv, StageInv, Adding
  <2>4. \A r : r \in rows \/ (\E s \in Call : r \in added[s]) => r[2] # t
    BY <2>2, <2>3 DEF RowsInv, CallInv, AddedInv
  <2>5. \A s \in Call \ {t} : collection'[s] = collection[s] /\ paper'[s] = paper[s]
    BY Locality
  <2>6. \A r : r \in rows \/ (\E s \in Call : r \in added[s])
          => collection'[r[2]] = collection[r[2]] /\ paper'[r[2]] = paper[r[2]]
    BY <2>4, <2>5, <1>3, RowShape
  <2> QED  BY <2>1, <2>6, <1>1, <1>3, KeysKept, RowShape, FrameKeeps
<1>7. CASE FindPaper(t)
  <2>1. UNCHANGED <<rows, added, gone, collection>> /\ at[t] = "papers"
    BY <1>7 DEF FindPaper
  <2>2. \A r : r \in rows \/ (\E s \in Call : r \in added[s])
          => (r[1] = "chunk" => r[2] # t)
    BY <2>1 DEF RowsInv, CallInv, AddedInv
  <2>3. \A s \in Call \ {t} : paper'[s] = paper[s]
    BY Locality
  <2>4. \A r : r \in rows \/ (\E s \in Call : r \in added[s])
          => (r[1] = "chunk" => paper'[r[2]] = paper[r[2]])
    BY <2>2, <2>3, <1>3, RowShape
  <2> QED  BY <2>1, <2>4, <1>1, <1>3, KeysKept, RowShape, FrameKeeps
<1>8. CASE CreateCollection(t)
  <2>1. References(CollectionRow(t)) = {}
    BY ReferencesOf
  <2> QED  BY <1>8, <2>1, InsertOneKeeps DEF CreateCollection
<1>9. CASE InsertPaper(t)
  <2>1. PICK f : Insert(t, PaperRow(t, f))
    BY <1>9 DEF InsertPaper
  <2>2. PaperRow(t, f) # CollectionRow(collection[t])
    BY DEF PaperRow, CollectionRow
  <2>3. PaperRow(t, f) \notin References(PaperRow(t, f))
    BY <2>2, ReferencesOf
  <2> QED  BY <1>9, <2>1, <2>3, InsertOneKeeps DEF InsertPaper
<1>10. CASE InsertChunk(t)
  BY <1>10, ChunkKeeps
<1>11. CASE DeleteEmbeddings(t) \/ DeleteReplaced(t) \/ ClearEmbeddings(t)
              \/ ClearChunks(t) \/ ClearPapers(t) \/ ClearCollection(t)
  <2>1. UNCHANGED <<rows, added, collection, paper>>
    BY <1>11 DEF DeleteEmbeddings, DeleteReplaced, ClearEmbeddings, ClearChunks,
                 ClearPapers, ClearCollection
  <2>2. PICK targets : Delete(t, targets)
    BY <1>11 DEF DeleteEmbeddings, DeleteReplaced, ClearEmbeddings, ClearChunks,
                 ClearPapers, ClearCollection
  <2> QED  BY <2>1, <2>2, <1>2, <1>4, DeleteKeeps
<1>12. CASE CommitIndex(t) \/ CommitRecreate(t)
  BY <1>12, <1>2, CommitKeeps DEF CommitIndex, CommitRecreate
<1>13. CASE Abort(t)
  <2>1. /\ \A r : References(r)' = References(r)
        /\ \A r, q : Clash(r, q)' <=> Clash(r, q)
    BY <1>13, KeysUnchanged DEF Abort
  <2>2. /\ rows' = rows /\ added'[t] = {} /\ gone'[t] = {}
        /\ \A s \in Call \ {t} : added'[s] = added[s] /\ gone'[s] = gone[s]
    BY <1>13, <1>2 DEF Abort
  <2>3. \A s \in Call \ {t} : Visible(s)' = Visible(s)
    BY <2>2 DEF Visible
  <2>4. \A s \in Call :
          /\ \A r \in added'[s] : References(r) \subseteq Visible(s)'
          /\ \A r \in added'[s], q \in Visible(s)' : ~Clash(r, q)
          /\ \A r \in Visible(s)' : References(r) \cap gone'[s] = {}
    BY <2>2, <2>3 DEF DbInv
  <2>5. \A s, u \in Call : s # u =>
          /\ gone'[s] \cap gone'[u] = {}
          /\ \A r \in added'[s] : References(r) \cap gone'[u] = {}
          /\ \A r \in added'[s], q \in added'[u] \cup gone'[u] : ~Clash(r, q)
    BY <2>2 DEF DbInv
  <2> QED  BY <2>1, <2>2, <2>4, <2>5 DEF DbInv
<1> QED
  BY <1>5, <1>6, <1>7, <1>8, <1>9, <1>10, <1>11, <1>12, <1>13
     DEF Step, IndexStep, RecreateStep

(* What a delete removes. *)
LEMMA Removes ==
    ASSUME TypeOK, NEW t \in Call, NEW targets, Delete(t, targets)
    PROVE  /\ gone'[t] \subseteq gone[t] \cup (targets \cap rows)
           /\ targets \cap rows \subseteq gone'[t]
           /\ gone[t] \subseteq gone'[t]
BY DEF TypeOK, Delete

(* The call itself, action by action. *)
Own(t) ==
    /\ StageInv(t) /\ PaperInv(t) /\ AddedInv(t)
    /\ GoneInv(t) /\ SelectedInv(t) /\ EmbeddingInv(t)

LEMMA OwnStart ==
    ASSUME TypeOK, CallInv, RowsInv, DbInv, NEW t \in Call,
           \/ BeginIndex(t) \/ BeginRecreate(t) \/ LoadFinds(t) \/ LoadFindsNone(t)
           \/ FindCollection(t)
    PROVE  Own(t)'
<1> USE DEF TypeOK, Goes, dbVars, workVars
<1>1. /\ at[t] \in Early /\ UNCHANGED <<rows, paper, added, gone, adopting>>
      /\ at'[t] \in {"load", "find", "create", "adopt", "papers", "find_papers", "done"}
  BY DEF BeginIndex, BeginRecreate, LoadFinds, LoadFindsNone, FindCollection, Early
<1>2. /\ added[t] = {} /\ gone[t] = {} /\ paper[t] = [f \in Pdf |-> Nobody]
      /\ collection[t] = Nobody
      /\ t \in adopting => at[t] = "load"
  BY <1>1 DEF CallInv, StageInv, Early, Adding, Deleting, IndexPlace
<1>3. t \notin adopting => t \notin adopting'
  BY <1>1
<1>4. StageInv(t)'
  <2>1. CASE BeginIndex(t) \/ BeginRecreate(t)
    BY <2>1, <1>1, <1>2 DEF BeginIndex, BeginRecreate, StageInv, CallInv, Early, IndexPlace,
         RecreatePlace, Looked, Adding, Deleting
  <2>2. CASE LoadFinds(t) \/ LoadFindsNone(t)
    BY <2>2, <1>1, <1>2 DEF LoadFinds, LoadFindsNone, StageInv, CallInv, Early, IndexPlace,
         RecreatePlace, Looked, Adding, Deleting, Existing
  <2>3. CASE FindCollection(t)
    <3>1. CASE at'[t] = "done"
      BY <2>3, <3>1, <1>1, <1>2 DEF FindCollection, StageInv, CallInv, Early, IndexPlace,
         RecreatePlace, Looked, Adding, Deleting
    <3>2. CASE at'[t] # "done"
      <4>1. PICK k \in Call : CollectionRow(k) \in rows /\ collection'[t] = k
        BY <2>3, <3>2 DEF FindCollection, Existing
      <4>2. at[k] = "done"
        BY <4>1 DEF RowsInv, CollectionRow
      <4>3. at'[k] = "done" /\ at'[t] = "find_papers"
        BY <2>3, <3>2, <4>2 DEF FindCollection
      <4> QED  BY <2>3, <4>1, <4>3, <1>1, <1>2 DEF FindCollection, StageInv, CallInv,
                 Early, IndexPlace, RecreatePlace, Looked, Adding, Deleting
    <3> QED  BY <3>1, <3>2
  <2> QED  BY <2>1, <2>2, <2>3
<1>5. PaperInv(t)' /\ AddedInv(t)' /\ GoneInv(t)'
  BY <1>1, <1>2 DEF PaperInv, AddedInv, GoneInv
<1>6. SelectedInv(t)' /\ EmbeddingInv(t)'
  BY <1>1 DEF SelectedInv, EmbeddingInv, Selecting
<1> QED  BY <1>4, <1>5, <1>6 DEF Own

LEMMA OwnInsert ==
    ASSUME TypeOK, CallInv, RowsInv, DbInv, NEW t \in Call,
           \/ CreateCollection(t) \/ AdoptCollection(t) \/ InsertPaper(t)
           \/ InsertChunk(t)
    PROVE  Own(t)'
<1> USE DEF TypeOK, Goes, dbVars, workVars
<1>1. /\ UNCHANGED <<rows, asked, collection, paper, selected, gone>>
      /\ at[t] \in {"create", "adopt", "new_paper", "insert"}
      /\ at'[t] = IF at[t] = "insert" THEN "insert" ELSE "papers"
  BY DEF CreateCollection, AdoptCollection, InsertPaper, InsertChunk
<1>2. gone[t] # {} => at[t] = "insert"
  BY <1>1 DEF CallInv, StageInv, Deleting
<1>3. StageInv(t)'
  BY <1>1, <1>2 DEF StageInv, CallInv, Early, IndexPlace, RecreatePlace, Looked, Adding,
     Deleting, BatchPdfs
<1>4. PaperInv(t)'
  <2>1. \A k \in Call : at[k] \notin Early => at'[k] \notin Early
    BY <1>1 DEF CreateCollection, AdoptCollection, InsertPaper, InsertChunk, Early
  <2>2. \A f \in Pdf : paper[t][f] # Nobody => paper[t][f] \in Call
    OBVIOUS
  <2> QED  BY <1>1, <2>1, <2>2 DEF PaperInv, CallInv
<1>5. AddedInv(t)'
  <2>1. CASE CreateCollection(t)
    BY <2>1, <1>1 DEF CreateCollection, Insert, AddedInv, CallInv, CollectionRow,
         StageInv, EmbeddingRow
  <2>2. CASE AdoptCollection(t)
    <3>1. added'[t] = {}
      BY <2>2 DEF AdoptCollection, CallInv, StageInv, Adding
    <3> QED  BY <3>1 DEF AddedInv
  <2>3. CASE InsertPaper(t)
    <3>1. PICK f \in Pdf : added'[t] = added[t] \cup {PaperRow(t, f)}
      BY <2>3 DEF InsertPaper, Insert
    <3>2. at[t] = "new_paper"
      BY <2>3 DEF InsertPaper
    <3> QED  BY <3>1, <3>2, <1>1 DEF AddedInv, CallInv, PaperRow
  <2>4. CASE InsertChunk(t)
    <3>1. PICK c \in asked[t].batch :
            added'[t] = added[t] \cup {ChunkRow(t, c), EmbeddingRow(t, c)}
      BY <2>4 DEF InsertChunk
    <3>2. at[t] = "insert" /\ at'[t] = "insert"
      BY <2>4 DEF InsertChunk
    <3> QED  BY <3>1, <3>2, <1>1 DEF AddedInv, CallInv, ChunkRow, EmbeddingRow
  <2> QED  BY <2>1, <2>2, <2>3, <2>4
<1>6. GoneInv(t)'
  BY <1>1 DEF GoneInv, CallInv
<1>7. SelectedInv(t)' /\ EmbeddingInv(t)'
  BY <1>1 DEF SelectedInv, EmbeddingInv, Selecting, CallInv
<1> QED  BY <1>3, <1>4, <1>5, <1>6, <1>7 DEF Own

LEMMA OwnFind ==
    ASSUME TypeOK, CallInv, RowsInv, DbInv, NEW t \in Call,
           FindPaper(t) \/ FindPapers(t)
    PROVE  Own(t)'
<1> USE DEF TypeOK, Goes, dbVars, workVars
<1>1. /\ UNCHANGED <<rows, asked, collection, selected, added, gone, adopting>>
      /\ \/ at[t] = "papers" /\ at'[t] \in {"papers", "new_paper"}
         \/ at[t] = "find_papers" /\ at'[t] = "find_chunks"
      /\ \A k \in Call \ {t} : at'[k] = at[k]
  BY DEF FindPaper, FindPapers
<1>2. StageInv(t)'
  <2>1. collection[t] \in Call
    BY <1>1 DEF CallInv, StageInv, IndexPlace, RecreatePlace, Early
  <2>2. at[collection[t]] = "done" => at'[collection[t]] = "done"
    BY <2>1, <1>1
  <2> QED  BY <1>1, <2>1, <2>2 DEF StageInv, CallInv, Early, IndexPlace, RecreatePlace,
             Looked, Adding, Deleting
<1>3. \A f \in Pdf : \A k \in PapersOf(t, f) :
        k \in Call /\ collection[k] = collection[t] /\ at[k] \notin Early
  <2> SUFFICES ASSUME NEW f \in Pdf, NEW k \in PapersOf(t, f) PROVE at[k] \notin Early
    BY DEF PapersOf
  <2>1. PaperRow(k, f)[2] = k
    BY DEF PaperRow
  <2>2. CASE PaperRow(k, f) \in rows
    BY <2>1, <2>2 DEF RowsInv, Early
  <2>3. CASE PaperRow(k, f) \in added[t]
    BY <2>1, <2>3, <1>1 DEF CallInv, AddedInv, Early
  <2> QED  BY <2>2, <2>3 DEF PapersOf, Visible
<1>4. PaperInv(t)'
  <2>1. \A k \in Call : at[k] \notin Early => at'[k] \notin Early
    BY <1>1 DEF Early
  <2>2. \A f \in Pdf : paper'[t][f] \in {paper[t][f], t, Nobody} \cup PapersOf(t, f)
    BY DEF FindPaper, FindPapers
  <2>3. at[t] \notin Early
    BY <1>1 DEF Early
  <2> SUFFICES ASSUME NEW f \in Pdf, paper'[t][f] # Nobody
               PROVE  collection[paper'[t][f]] = collection[t] /\ at'[paper'[t][f]] \notin Early
    BY <1>1 DEF PaperInv
  <2>4. CASE paper'[t][f] = paper[t][f]
    BY <2>1, <2>4 DEF CallInv, PaperInv
  <2>5. CASE paper'[t][f] = t
    BY <2>1, <2>3, <2>5
  <2>6. CASE paper'[t][f] \in PapersOf(t, f)
    BY <2>1, <2>6, <1>3
  <2> QED  BY <2>2, <2>4, <2>5, <2>6
<1>5. AddedInv(t)' /\ GoneInv(t)'
  BY <1>1 DEF AddedInv, GoneInv, CallInv
<1>6. SelectedInv(t)' /\ EmbeddingInv(t)'
  BY <1>1 DEF SelectedInv, EmbeddingInv, Selecting
<1> QED  BY <1>2, <1>4, <1>5, <1>6 DEF Own

(* The chunks of the papers that a call has found in its collection. *)
LEMMA PapersInside ==
    ASSUME TypeOK, CallInv, RowsInv, NEW t \in Call, NEW r \in ChunksOfPapers(t)
    PROVE  /\ r \in rows /\ r[1] = "chunk" /\ at[r[2]] = "done"
           /\ collection[r[2]] = collection[t]
<1>1. r \in rows /\ r \in Row /\ r[1] = "chunk"
  BY DEF ChunksOfPapers, TypeOK
<1>2. r[2] \in Call /\ r[3] \in Chunk /\ PdfOf[r[3]] \in Pdf
  BY <1>1, RowShape, IndexAssumption
<1>3. /\ paper[t][PdfOf[r[3]]] # Nobody
      /\ paper[r[2]][PdfOf[r[3]]] = paper[t][PdfOf[r[3]]]
  BY DEF ChunksOfPapers
<1> QED  BY <1>1, <1>2, <1>3 DEF RowsInv, CallInv, PaperInv

LEMMA OwnSelect ==
    ASSUME TypeOK, CallInv, RowsInv, DbInv, NEW t \in Call,
           SelectReplaced(t) \/ FindChunks(t)
    PROVE  Own(t)'
<1> USE DEF TypeOK, Goes, dbVars, workVars
<1>1. /\ UNCHANGED <<rows, asked, collection, paper, added, gone, adopting>>
      /\ \/ at[t] = "papers" /\ at'[t] \in {"insert", "embeddings"}
         \/ at[t] = "find_chunks" /\ at'[t] = "clear_embeddings"
      /\ \A k \in Call \ {t} : at'[k] = at[k]
  BY DEF SelectReplaced, Selects, FindChunks
<1>2. gone[t] = {}
  BY <1>1 DEF CallInv, StageInv, Deleting
<1>3. collection[t] \in Call /\ (at[collection[t]] = "done" => at'[collection[t]] = "done")
  BY <1>1 DEF CallInv, StageInv, IndexPlace, RecreatePlace, Early
<1>4. at'[t] \in Looked => \A f \in BatchPdfs(t) : paper[t][f] \in Call
  <2>1. at'[t] \in Looked => asked[t] \in Index /\ Lookups(t) = {}
    BY <1>1 DEF Looked, SelectReplaced, FindChunks
  <2>2. asked[t] \in Index => BatchPdfs(t) \subseteq Pdf
    BY IndexAssumption DEF Index, BatchPdfs
  <2> QED  BY <2>1, <2>2 DEF Lookups
<1>5. StageInv(t)'
  BY <1>1, <1>2, <1>3, <1>4 DEF StageInv, CallInv, Early, IndexPlace, RecreatePlace,
     Looked, Adding, Deleting, BatchPdfs
<1>6. PaperInv(t)'
  <2>1. \A k \in Call : at[k] \notin Early => at'[k] \notin Early
    BY <1>1 DEF Early
  <2>2. \A f \in Pdf : paper[t][f] # Nobody => paper[t][f] \in Call
    OBVIOUS
  <2> QED  BY <1>1, <2>1, <2>2 DEF PaperInv, CallInv
<1>7. AddedInv(t)' /\ GoneInv(t)'
  BY <1>1, <1>2 DEF AddedInv, GoneInv, CallInv
<1>8. SelectedInv(t)'
  <2>1. CASE SelectReplaced(t)
    <3>1. \A r \in Replaced(t) : r \in rows
      BY <1>1, <2>1 DEF Replaced, Visible, CallInv, AddedInv, SelectReplaced
    <3>2. \A r \in Replaced(t) : at[r[2]] = "done" /\ r[2] \in Call /\ r[2] # t
      BY <1>1, <3>1, RowShape DEF RowsInv
    <3>3. \A r \in Replaced(t) : at'[r[2]] = "done"
      BY <1>1, <3>2
    <3> QED  BY <1>1, <2>1, <3>3 DEF SelectReplaced, Selects, Replaced, SelectedInv
  <2>2. CASE FindChunks(t)
    <3>1. \A r \in ChunksOfPapers(t) : r \in Row /\ r[2] \in Call /\ r[2] # t
      BY <1>1, PapersInside, RowShape
    <3>2. \A r \in ChunksOfPapers(t) :
            r[1] = "chunk" /\ at'[r[2]] = "done" /\ collection[r[2]] = collection[t]
      BY <1>1, <3>1, PapersInside
    <3>3. asked[t] \notin Index
      BY <2>2, RecreateAssumption DEF FindChunks, CallInv, StageInv, RecreatePlace
    <3> QED  BY <1>1, <2>2, <3>2, <3>3 DEF FindChunks, SelectedInv
  <2> QED  BY <2>1, <2>2
<1>9. EmbeddingInv(t)'
  BY <1>1, <1>2 DEF EmbeddingInv
<1> QED  BY <1>5, <1>6, <1>7, <1>8, <1>9 DEF Own

(* A chunk is committed with its collection, and an embedding its chunk.   *)
LEMMA Parents ==
    ASSUME DbInv, NEW k \in Call, NEW c \in Chunk
    PROVE  /\ EmbeddingRow(k, c) \in rows => ChunkRow(k, c) \in rows
           /\ ChunkRow(k, c) \in rows => CollectionRow(collection[k]) \in rows
<1>1. /\ ChunkRow(k, c) \in References(EmbeddingRow(k, c))
      /\ CollectionRow(collection[k]) \in References(ChunkRow(k, c))
  BY ReferencesOf
<1> QED  BY <1>1 DEF DbInv

LEMMA OwnDelete ==
    ASSUME TypeOK, CallInv, RowsInv, DbInv, NEW t \in Call,
           \/ DeleteEmbeddings(t) \/ DeleteReplaced(t) \/ ClearEmbeddings(t)
           \/ ClearChunks(t) \/ ClearPapers(t) \/ ClearCollection(t)
    PROVE  Own(t)'
<1> USE DEF TypeOK, Goes, dbVars, workVars
<1>1. /\ UNCHANGED <<rows, asked, collection, paper, selected, added, adopting>>
      /\ \/ at[t] = "embeddings" /\ at'[t] = "chunks"
         \/ at[t] = "chunks" /\ at'[t] = "insert"
         \/ at[t] = "clear_embeddings" /\ at'[t] = "clear_chunks"
         \/ at[t] = "clear_chunks" /\ at'[t] = "clear_papers"
         \/ at[t] = "clear_papers" /\ at'[t] = "clear_collection"
         \/ at[t] = "clear_collection" /\ at'[t] = "cleared"
      /\ \A k \in Call \ {t} : at'[k] = at[k]
  BY DEF DeleteEmbeddings, DeleteReplaced, ClearEmbeddings, ClearChunks, ClearPapers,
         ClearCollection
<1>2. collection[t] \in Call /\ (at[collection[t]] = "done" => at'[collection[t]] = "done")
  BY <1>1 DEF CallInv, StageInv, IndexPlace, RecreatePlace, Early
<1>3. StageInv(t)'
  BY <1>1, <1>2 DEF StageInv, CallInv, Early, IndexPlace, RecreatePlace,
     Looked, Adding, Deleting, BatchPdfs
<1>4. PaperInv(t)'
  <2>1. \A k \in Call : at[k] \notin Early => at'[k] \notin Early
    BY <1>1 DEF Early
  <2>2. \A f \in Pdf : paper[t][f] # Nobody => paper[t][f] \in Call
    OBVIOUS
  <2> QED  BY <1>1, <2>1, <2>2 DEF PaperInv, CallInv
<1>5. AddedInv(t)'
  BY <1>1 DEF AddedInv, CallInv, StageInv, Adding
<1>6. SelectedInv(t)'
  <2>1. \A r \in selected[t] : r[2] \in Call
    BY RowShape
  <2>2. \A k \in Call : at[k] = "done" => at'[k] = "done"
    BY <1>1
  <2> QED  BY <1>1, <2>1, <2>2 DEF SelectedInv, CallInv, Selecting
<1>7. \A r \in rows : r \in Row /\ r[2] \in Call
  BY RowShape
<1>8. \A r \in EmbeddingsOf(selected[t]) : at[t] \in Selecting =>
        /\ collection[r[2]] = collection[t] /\ r[1] = "embedding"
        /\ asked[t] \in Index => r[3] \in asked[t].batch
  BY DEF EmbeddingsOf, EmbeddingRow, CallInv, SelectedInv
<1>9. CASE DeleteEmbeddings(t)
  <2>1. gone'[t] \subseteq EmbeddingsOf(selected[t]) \cap rows
    BY <1>9, Removes DEF DeleteEmbeddings, CallInv, StageInv, Deleting
  <2>2. GoneInv(t)'
    BY <1>1, <1>8, <2>1, <1>9 DEF DeleteEmbeddings, GoneInv, Selecting
  <2>3. \A k \in Call, c \in Chunk :
          EmbeddingRow(k, c) \in gone'[t] => ChunkRow(k, c) \in selected[t]
    <3> SUFFICES ASSUME NEW k \in Call, NEW c \in Chunk, EmbeddingRow(k, c) \in gone'[t]
                 PROVE  ChunkRow(k, c) \in selected[t]
      OBVIOUS
    <3>1. PICK r \in selected[t] : EmbeddingRow(k, c) = EmbeddingRow(r[2], r[3])
      BY <2>1 DEF EmbeddingsOf
    <3>2. k = r[2] /\ c = r[3]
      BY <3>1 DEF EmbeddingRow
    <3>3. r \in Row /\ r[1] = "chunk"
      BY <1>9 DEF CallInv, SelectedInv, DeleteEmbeddings, Selecting
    <3> QED  BY <3>2, <3>3, RowShape
  <2>4. EmbeddingInv(t)'
    BY <1>1, <2>3, <1>9 DEF EmbeddingInv, DeleteEmbeddings
  <2> QED  BY <1>3, <1>4, <1>5, <1>6, <2>2, <2>4 DEF Own
<1>10. CASE DeleteReplaced(t)
  <2>1. /\ gone'[t] \subseteq gone[t] \cup (selected[t] \cap rows)
        /\ selected[t] \cap rows \subseteq gone'[t]
    BY <1>10, Removes DEF DeleteReplaced
  <2>2. GoneInv(t)'
    BY <1>1, <2>1, <1>10 DEF DeleteReplaced, GoneInv, CallInv, SelectedInv, Selecting
  <2>3. \A k \in Call, c \in Chunk :
          EmbeddingRow(k, c) \in gone'[t] => ChunkRow(k, c) \in gone'[t]
    <3> SUFFICES ASSUME NEW k \in Call, NEW c \in Chunk, EmbeddingRow(k, c) \in gone'[t]
                 PROVE  ChunkRow(k, c) \in gone'[t]
      OBVIOUS
    <3>1. EmbeddingRow(k, c) \notin selected[t]
      BY <1>10 DEF CallInv, SelectedInv, DeleteReplaced, Selecting, EmbeddingRow
    <3>2. EmbeddingRow(k, c) \in gone[t]
      BY <2>1, <3>1
    <3>3. ChunkRow(k, c) \in selected[t]
      BY <3>2, <1>10 DEF DeleteReplaced, CallInv, EmbeddingInv
    <3>4. ChunkRow(k, c) \in rows
      BY <3>2, Parents DEF CallInv, GoneInv
    <3> QED  BY <2>1, <3>3, <3>4
  <2>4. EmbeddingInv(t)'
    BY <1>1, <2>3, <1>10 DEF EmbeddingInv, DeleteReplaced
  <2> QED  BY <1>3, <1>4, <1>5, <1>6, <2>2, <2>4 DEF Own
<1>11. CASE ClearEmbeddings(t) \/ ClearChunks(t) \/ ClearPapers(t) \/ ClearCollection(t)
  <2>1. at[t] \in RecreatePlace /\ at'[t] \in RecreatePlace
    BY <1>11 DEF ClearEmbeddings, ClearChunks, ClearPapers, ClearCollection,
         RecreatePlace, Selecting
  <2>2. asked[t] \notin Index
    BY <1>11, RecreateAssumption DEF CallInv, StageInv, RecreatePlace, ClearEmbeddings,
         ClearChunks, ClearPapers, ClearCollection
  <2>3. \A r \in gone'[t] : r \in rows /\ (r \in gone[t] \/ collection[r[2]] = collection[t])
    <3>1. gone[t] \subseteq rows
      BY DEF CallInv, GoneInv
    <3>2. CASE ClearEmbeddings(t)
      BY <3>1, <3>2, <1>8, Removes DEF ClearEmbeddings, Selecting
    <3>3. CASE ClearChunks(t)
      <4>1. PICK seen \in SUBSET ChunksOfPapers(t) : Delete(t, seen)
        BY <3>3 DEF ClearChunks
      <4> QED  BY <3>1, <4>1, Removes, PapersInside
    <3>4. CASE ClearPapers(t)
      <4>1. PICK seen \in SUBSET PapersOfCollection(t) : Delete(t, seen)
        BY <3>4 DEF ClearPapers
      <4> QED  BY <3>1, <4>1, Removes DEF PapersOfCollection
    <3>5. CASE ClearCollection(t)
      <4>1. \A r \in gone'[t] : r \in rows /\
              (r \in gone[t] \/ r = CollectionRow(collection[t]))
        <5>1. Delete(t, {CollectionRow(collection[t])})
          BY <3>5 DEF ClearCollection
        <5>2. gone'[t] \subseteq gone[t] \cup ({CollectionRow(collection[t])} \cap rows)
          BY <5>1, Removes
        <5> QED  BY <3>1, <5>2
      <4>2. CollectionRow(collection[t]) \in rows => collection[collection[t]] = collection[t]
        BY DEF RowsInv, CollectionRow
      <4>3. CollectionRow(collection[t])[2] = collection[t]
        BY DEF CollectionRow
      <4> QED  BY <3>1, <4>1, <4>2, <4>3
    <3> QED  BY <1>11, <3>2, <3>3, <3>4, <3>5
  <2>4. GoneInv(t)'
    BY <1>1, <2>2, <2>3 DEF GoneInv, CallInv
  <2>5. EmbeddingInv(t)'
    <3>1. CASE ClearCollection(t)
      <4>1. CollectionRow(collection[t]) \notin rows \ gone'[t]
        <5>1. Delete(t, {CollectionRow(collection[t])})
          BY <3>1 DEF ClearCollection
        <5> QED  BY <5>1, Removes
      <4> QED  BY <3>1, <4>1, <1>1 DEF ClearCollection, EmbeddingInv
    <3>2. CASE ClearEmbeddings(t) \/ ClearChunks(t) \/ ClearPapers(t)
      BY <3>2 DEF EmbeddingInv, ClearEmbeddings, ClearChunks, ClearPapers
    <3> QED  BY <1>11, <3>1, <3>2
  <2> QED  BY <1>3, <1>4, <1>5, <1>6, <2>4, <2>5 DEF Own
<1> QED  BY <1>9, <1>10, <1>11

LEMMA OwnEnd ==
    ASSUME TypeOK, CallInv, RowsInv, DbInv, NEW t \in Call,
           CommitIndex(t) \/ CommitRecreate(t) \/ Abort(t)
    PROVE  Own(t)'
<1> USE DEF TypeOK, Goes, dbVars, workVars
<1>1. /\ UNCHANGED <<asked, collection, paper, selected>>
      /\ at[t] \notin {"idle"} /\ at'[t] \in {"done", "failed"}
      /\ added'[t] = {} /\ gone'[t] = {} /\ t \notin adopting'
      /\ \A k \in Call \ {t} : at'[k] = at[k]
  BY DEF CommitIndex, CommitRecreate, Commits, Abort
<1>2. StageInv(t)'
  BY <1>1 DEF StageInv, Early, IndexPlace, RecreatePlace, Looked
<1>3. PaperInv(t)'
  <2>1. \A k \in Call : at[k] \notin Early => at'[k] \notin Early
    BY <1>1 DEF Early
  <2>2. \A f \in Pdf : paper[t][f] # Nobody => paper[t][f] \in Call
    OBVIOUS
  <2> QED  BY <1>1, <2>1, <2>2 DEF PaperInv, CallInv
<1>4. AddedInv(t)' /\ GoneInv(t)' /\ SelectedInv(t)' /\ EmbeddingInv(t)'
  BY <1>1 DEF AddedInv, GoneInv, SelectedInv, EmbeddingInv, Selecting
<1> QED  BY <1>2, <1>3, <1>4 DEF Own

LEMMA CallStep ==
    ASSUME TypeOK, CallInv, RowsInv, DbInv, NEW t \in Call, Step(t)
    PROVE  CallInv'
<1>1. Own(t)'
  BY OwnStart, OwnInsert, OwnFind, OwnSelect, OwnDelete, OwnEnd
     DEF Step, IndexStep, RecreateStep
<1> QED  BY <1>1, OthersKeep DEF CallInv, Own

-----------------------------------------------------------------------------
(* Committed rows.                                                         *)

(* Whatever embedding a call that commits has deleted, its chunk is gone.  *)
LEMMA NoneLeftBehind ==
    ASSUME TypeOK, CallInv, RowsInv, DbInv, NEW t \in Call,
           at[t] \in {"insert", "cleared"},
           NEW k \in Call, NEW c \in Chunk, EmbeddingRow(k, c) \in gone[t]
    PROVE  ChunkRow(k, c) \in gone[t]
<1>1. CASE at[t] = "insert"
  BY <1>1 DEF CallInv, EmbeddingInv
<1>2. CASE at[t] = "cleared"
  <2>1. ChunkRow(k, c) \in rows /\ CollectionRow(collection[k]) \in rows
    BY Parents DEF CallInv, GoneInv
  <2>2. collection[k] = collection[t]
    BY DEF CallInv, GoneInv, EmbeddingRow
  <2>3. CollectionRow(collection[k]) \in gone[t]
    BY <1>2, <2>1, <2>2 DEF CallInv, EmbeddingInv
  <2>4. CollectionRow(collection[k]) \in References(ChunkRow(k, c))
    BY ReferencesOf
  <2> QED  BY <2>1, <2>3, <2>4 DEF DbInv, Visible
<1> QED  BY <1>1, <1>2

LEMMA RowsStep ==
    ASSUME TypeOK, CallInv, RowsInv, DbInv, NEW t \in Call, Step(t)
    PROVE  RowsInv'
<1>1. \A r \in rows' : r \in rows \/ r[2] = t
  BY Locality
<1>2. \A k \in Call : at[k] = "done" => at'[k] = "done" /\ collection'[k] = collection[k]
  BY Locality DEF Over, Early
<1>3. CASE rows' = rows
  <2>1. \A r \in rows : r[2] \in Call
    BY RowShape DEF TypeOK
  <2> QED  BY <1>2, <1>3, <2>1 DEF RowsInv, EveryChunkEmbedded
<1>4. CASE rows' # rows
  <2>1. Commits(t) /\ at[t] \in {"insert", "cleared"}
    <3>1. at'[t] = "done"
      BY <1>4, Locality
    <3>2. CommitIndex(t) \/ CommitRecreate(t)
      BY <1>4 DEF Step, IndexStep, RecreateStep, BeginIndex, LoadFinds, LoadFindsNone,
           CreateCollection, AdoptCollection, FindPaper, InsertPaper, SelectReplaced,
           DeleteEmbeddings, DeleteReplaced, InsertChunk, BeginRecreate, FindCollection,
           FindPapers, FindChunks, ClearEmbeddings, ClearChunks, ClearPapers,
           ClearCollection, Abort, dbVars
    <3> QED  BY <3>2 DEF CommitIndex, CommitRecreate
  <2>2. rows' = (rows \ gone[t]) \cup added[t] /\ collection' = collection
    BY <2>1 DEF Commits
  <2>3. \A r \in rows' : /\ at'[r[2]] = "done"
                         /\ r[1] = "collection" => collection'[r[2]] = r[2]
    <3>1. at'[t] = "done"
      BY <2>1 DEF Commits, Goes, TypeOK
    <3>2. \A r \in rows : r[2] \in Call
      BY RowShape DEF TypeOK
    <3> QED  BY <1>2, <2>2, <3>1, <3>2 DEF RowsInv, CallInv, AddedInv
  <2>4. EveryChunkEmbedded'
    <3> SUFFICES ASSUME NEW k \in Call, NEW c \in Chunk, ChunkRow(k, c) \in rows'
                 PROVE  EmbeddingRow(k, c) \in rows'
      BY DEF EveryChunkEmbedded
    <3>1. CASE ChunkRow(k, c) \in rows \ gone[t]
      <4>1. EmbeddingRow(k, c) \in rows
        BY <3>1 DEF RowsInv, EveryChunkEmbedded
      <4>2. EmbeddingRow(k, c) \notin gone[t]
        BY <2>1, <3>1, NoneLeftBehind
      <4> QED  BY <2>2, <4>1, <4>2
    <3>2. CASE ChunkRow(k, c) \in added[t]
      <4>1. EmbeddingRow(t, c) \in added[t] /\ k = t
        BY <3>2 DEF CallInv, AddedInv, ChunkRow
      <4> QED  BY <2>2, <4>1
    <3> QED  BY <2>2, <3>1, <3>2
  <2> QED  BY <2>3, <2>4 DEF RowsInv
<1> QED  BY <1>3, <1>4

-----------------------------------------------------------------------------
(* One schema for a collection.                                            *)

SameSchema(t) ==
    /\ collection[t] \in Call /\ at[collection[t]] # "idle"
    /\ asked[t].schema = asked[collection[t]].schema

SchemaInv ==
    /\ \A t \in Call : at[t] \in IndexPlace \ Early => SameSchema(t)
    /\ \A t \in Call, c \in Chunk : ChunkRow(t, c) \in rows => SameSchema(t)

IInv == TypeOK /\ CallInv /\ RowsInv /\ DbInv /\ SchemaInv

LEMMA SchemaStep ==
    ASSUME TypeOK, CallInv, RowsInv, DbInv, SchemaInv, NEW t \in Call, Step(t)
    PROVE  SchemaInv'
<1> USE DEF TypeOK, Goes, dbVars, workVars
<1>1. \A k \in Call : at[k] # "idle" => at'[k] # "idle" /\ asked'[k] = asked[k]
  <2>1. at[t] # "idle" => asked' = asked
    BY DEF Step, IndexStep, RecreateStep, BeginIndex, LoadFinds, LoadFindsNone,
       CreateCollection, AdoptCollection, FindPaper, InsertPaper, SelectReplaced,
       DeleteEmbeddings, DeleteReplaced, InsertChunk, CommitIndex, BeginRecreate,
       FindCollection, FindPapers, FindChunks, ClearEmbeddings, ClearChunks,
       ClearPapers, ClearCollection, CommitRecreate, Commits, Abort
  <2> QED  BY <2>1, Locality
<1>2. \A k \in Call : at[k] \notin Early /\ SameSchema(k) => SameSchema(k)'
  BY <1>1, Locality DEF SameSchema, Early
<1>3. at'[t] \in IndexPlace \ Early => SameSchema(t)'
  <2>1. CASE LoadFinds(t)
    <3>1. PICK k \in Existing : /\ collection'[t] = k
                                /\ asked[t].schema = asked[k].schema
      BY <2>1 DEF LoadFinds, Accepts, Existing
    <3>2. k \in Call /\ at[k] = "done"
      BY <3>1 DEF Existing, RowsInv, CollectionRow
    <3>3. at[t] = "load"
      BY <2>1 DEF LoadFinds
    <3> QED  BY <1>1, <3>1, <3>2, <3>3 DEF SameSchema
  <2>2. CASE LoadFindsNone(t)
    BY <2>2 DEF LoadFindsNone, SameSchema
  <2>3. CASE at[t] \notin Early
    <3>1. at'[t] \in IndexPlace => at[t] \in IndexPlace
      BY <2>3 DEF Early, Step, IndexStep, RecreateStep, BeginIndex, LoadFinds, LoadFindsNone,
         CreateCollection, AdoptCollection, FindPaper, InsertPaper, SelectReplaced,
         DeleteEmbeddings, DeleteReplaced, InsertChunk, CommitIndex, BeginRecreate,
         FindCollection, FindPapers, FindChunks, ClearEmbeddings, ClearChunks,
         ClearPapers, ClearCollection, CommitRecreate, Commits, Abort, IndexPlace
    <3> QED  BY <1>2, <2>3, <3>1 DEF SchemaInv
  <2>4. CASE at[t] \in Early /\ ~LoadFinds(t) /\ ~LoadFindsNone(t)
    <3>1. BeginIndex(t) \/ BeginRecreate(t) \/ FindCollection(t) \/ Abort(t)
      BY <2>4 DEF Early, Step, IndexStep, RecreateStep,
         CreateCollection, AdoptCollection, FindPaper, InsertPaper, SelectReplaced,
         DeleteEmbeddings, DeleteReplaced, InsertChunk, CommitIndex,
         FindPapers, FindChunks, ClearEmbeddings, ClearChunks,
         ClearPapers, ClearCollection, CommitRecreate
    <3> QED  BY <3>1 DEF BeginIndex, BeginRecreate, FindCollection, Abort, IndexPlace, Early
  <2> QED  BY <2>1, <2>2, <2>3, <2>4
<1>4. \A k \in Call, c \in Chunk : ChunkRow(k, c) \in rows' => SameSchema(k)'
  <2> SUFFICES ASSUME NEW k \in Call, NEW c \in Chunk, ChunkRow(k, c) \in rows'
               PROVE  SameSchema(k)'
    OBVIOUS
  <2>1. CASE ChunkRow(k, c) \in rows
    <3>1. at[k] = "done" /\ SameSchema(k)
      BY <2>1 DEF RowsInv, ChunkRow, SchemaInv
    <3> QED  BY <1>2, <3>1 DEF Early
  <2>2. CASE ChunkRow(k, c) \notin rows
    <3>1. Commits(t)
      BY <2>2 DEF Step, IndexStep, RecreateStep, BeginIndex, LoadFinds, LoadFindsNone,
         CreateCollection, AdoptCollection, FindPaper, InsertPaper, SelectReplaced,
         DeleteEmbeddings, DeleteReplaced, InsertChunk, CommitIndex, BeginRecreate,
         FindCollection, FindPapers, FindChunks, ClearEmbeddings, ClearChunks,
         ClearPapers, ClearCollection, CommitRecreate, Abort
    <3>2. ChunkRow(k, c) \in added[t]
      BY <2>2, <3>1 DEF Commits
    <3>3. k = t /\ at[t] = "insert"
      BY <3>2 DEF CallInv, AddedInv, ChunkRow
    <3> QED  BY <1>2, <3>3 DEF SchemaInv, IndexPlace, Early
  <2> QED  BY <2>1, <2>2
<1>5. \A k \in Call : at'[k] \in IndexPlace \ Early => SameSchema(k)'
  BY <1>2, <1>3, Locality DEF SchemaInv
<1> QED  BY <1>4, <1>5 DEF SchemaInv

-----------------------------------------------------------------------------
(* Invariance.                                                             *)

LEMMA InitInv == Init => IInv
<1> SUFFICES ASSUME Init PROVE IInv
  OBVIOUS
<1> USE DEF Init
<1>1. TypeOK
  BY DEF TypeOK, Place
<1>2. CallInv
  BY DEF CallInv, StageInv, PaperInv, AddedInv, GoneInv, SelectedInv, EmbeddingInv,
         Early, IndexPlace, RecreatePlace, Looked, Selecting, Adding, Deleting
<1>3. RowsInv /\ DbInv /\ SchemaInv
  BY DEF RowsInv, EveryChunkEmbedded, DbInv, Visible, SchemaInv, IndexPlace
<1> QED  BY <1>1, <1>2, <1>3 DEF IInv

LEMMA InvStep == IInv /\ [Next]_vars => IInv'
<1> SUFFICES ASSUME IInv, [Next]_vars PROVE IInv'
  OBVIOUS
<1>1. CASE UNCHANGED vars
  <2> USE <1>1 DEF vars, dbVars, workVars
  <2>1. (\A r : References(r)' = References(r)) /\ (\A r, q : Clash(r, q)' <=> Clash(r, q))
    BY KeysUnchanged
  <2>2. TypeOK'
    BY DEF IInv, TypeOK, BatchPdfs
  <2>3. CallInv'
    BY DEF IInv, CallInv, StageInv, PaperInv, AddedInv, GoneInv, SelectedInv,
           EmbeddingInv, BatchPdfs
  <2>4. RowsInv'
    BY DEF IInv, RowsInv, EveryChunkEmbedded
  <2>5. DbInv'
    BY <2>1 DEF IInv, DbInv, Visible
  <2>6. SchemaInv'
    BY DEF IInv, SchemaInv, SameSchema
  <2> QED  BY <2>2, <2>3, <2>4, <2>5, <2>6 DEF IInv
<1>2. CASE Next
  <2>1. PICK t \in Call : Step(t)
    BY <1>2 DEF Next, Step
  <2> QED  BY <2>1, StepTyped, CallStep, RowsStep, DbStep, SchemaStep DEF IInv
<1> QED  BY <1>1, <1>2

LEMMA Invariance == Spec => []IInv
BY InitInv, InvStep, PTL DEF Spec

(* Calls and rows keep the shapes that index_chunks, recreate_collection   *)
(* and the tables give them.                                               *)
THEOREM TypeCorrect == Spec => []TypeOK
<1>1. IInv => TypeOK
  BY DEF IInv
<1> QED  BY <1>1, Invariance, PTL

(* Whatever other calls of index_chunks and recreate_collection delete and *)
(* insert meanwhile, a committed chunk has its embedding.                  *)
THEOREM EmbeddingSafety == Spec => []EveryChunkEmbedded
<1>1. IInv => EveryChunkEmbedded
  BY DEF IInv, RowsInv
<1> QED  BY <1>1, Invariance, PTL

(* All committed chunks of a collection carry metadata of the schema it    *)
(* was created with, however its deletion, its creation and the checks of  *)
(* other calls interleave.                                                 *)
THEOREM SchemaSafety == Spec => []OneSchema
<1>1. IInv => OneSchema
  BY DEF IInv, SchemaInv, SameSchema, OneSchema
<1> QED  BY <1>1, Invariance, PTL

-----------------------------------------------------------------------------
(* The promise.                                                            *)

(* What a reader makes of the committed rows. *)
Reads ==
    /\ \A k \in Call, c \in Chunk : ChunkRow(k, c) \in rows =>
         Writer(c) = k /\ collection[k] \in Call /\ CollectionRow(collection[k]) \in rows
    /\ \A c \in Chunk : (\A k \in Call : ChunkRow(k, c) \notin rows) => Writer(c) = Nobody
    /\ \A k \in Call : CollectionRow(k) \in rows => Creator = k
    /\ (\A k \in Call : CollectionRow(k) \notin rows) => Creator = Nobody

LEMMA ReadsNow == IInv => Reads
<1> SUFFICES ASSUME IInv PROVE Reads
  OBVIOUS
<1>1. \A k, l \in Call : CollectionRow(k) \in rows /\ CollectionRow(l) \in rows => k = l
  BY DEF IInv, DbInv, Clash, CollectionRow
<1>2. \A k \in Call, c \in Chunk : ChunkRow(k, c) \in rows =>
        collection[k] \in Call /\ CollectionRow(collection[k]) \in rows
  <2> SUFFICES ASSUME NEW k \in Call, NEW c \in Chunk, ChunkRow(k, c) \in rows
               PROVE  collection[k] \in Call /\ CollectionRow(collection[k]) \in rows
    OBVIOUS
  <2>1. CollectionRow(collection[k]) \in rows
    BY Parents DEF IInv
  <2>2. CollectionRow(collection[k])[2] \in Call
    BY <2>1, RowShape DEF IInv, TypeOK
  <2> QED  BY <2>1, <2>2 DEF CollectionRow
<1>3. \A k, l \in Call, c \in Chunk :
        ChunkRow(k, c) \in rows /\ ChunkRow(l, c) \in rows => k = l
  <2> SUFFICES ASSUME NEW k \in Call, NEW l \in Call, NEW c \in Chunk,
                      ChunkRow(k, c) \in rows, ChunkRow(l, c) \in rows
               PROVE  k = l
    OBVIOUS
  <2>1. collection[k] = collection[l]
    BY <1>1, <1>2
  <2> QED  BY <2>1 DEF IInv, DbInv, Clash, ChunkRow
<1>4. \A k \in Call, c \in Chunk : ChunkRow(k, c) \in rows => Writer(c) = k
  BY <1>3 DEF Writer
<1>5. \A c \in Chunk : (\A k \in Call : ChunkRow(k, c) \notin rows) => Writer(c) = Nobody
  BY DEF Writer
<1>6. \A k \in Call : CollectionRow(k) \in rows => Creator = k
  <2> SUFFICES ASSUME NEW k \in Call, CollectionRow(k) \in rows PROVE Creator = k
    OBVIOUS
  <2>1. Existing = {k}
    BY <1>1 DEF Existing
  <2> QED  BY <2>1 DEF Creator
<1>7. (\A k \in Call : CollectionRow(k) \notin rows) => Creator = Nobody
  BY DEF Creator, Existing
<1> QED  BY <1>2, <1>4, <1>5, <1>6, <1>7 DEF Reads

LEMMA ReadsNext == IInv' => Reads'
BY ReadsNow, PTL

LEMMA SameReads ==
    ASSUME rows' = rows
    PROVE  /\ Creator' = Creator
           /\ \A c \in Chunk : Writer(c)' = Writer(c)
BY DEF Creator, Existing, Writer

(* One step of the promise, seen from the views of the calls. *)
Others(t) ==
    \A s \in Call \ {t} : /\ BatchOf(s)' = BatchOf(s) /\ FoundOf(s)' = FoundOf(s)
                         /\ OutcomeOf(s)' = OutcomeOf(s)

LEMMA OthersSame ==
    ASSUME IInv, NEW t \in Call, Step(t)
    PROVE  Others(t)
BY Locality DEF IInv, Others, BatchOf, FoundOf, OutcomeOf

LEMMA Stutters ==
    ASSUME NEW t \in Call, Others(t), rows' = rows,
           BatchOf(t)' = BatchOf(t), FoundOf(t)' = FoundOf(t), OutcomeOf(t)' = OutcomeOf(t)
    PROVE  UNCHANGED Promise!promiseVars
<1>1. Creator' = Creator /\ \A c \in Chunk : Writer(c)' = Writer(c)
  BY SameReads
<1> QED  BY <1>1 DEF Others, Promise!promiseVars

LEMMA EndsPromise ==
    ASSUME NEW t \in Call, Others(t), NEW how,
           BatchOf(t)' = BatchOf(t), FoundOf(t)' = FoundOf(t),
           OutcomeOf(t) = "pending", OutcomeOf(t)' = how
    PROVE  Promise!Ends(t, how)
BY DEF Others, Promise!Ends

LEMMA AskStep ==
    ASSUME IInv, NEW t \in Call, BeginIndex(t), Others(t)
    PROVE  Promise!Ask(t)
<1> USE DEF IInv, TypeOK
<1>1. asked[t] = Recreate /\ collection[t] = Nobody /\ at[t] = "idle"
  BY DEF BeginIndex, CallInv, StageInv, Early
<1>2. PICK request \in Index : asked' = [asked EXCEPT ![t] = request]
  BY DEF BeginIndex
<1>3. rows' = rows /\ at'[t] = "load" /\ asked'[t] = request /\ request # Recreate
  BY <1>2, RecreateAssumption DEF BeginIndex, dbVars, Goes
<1>4. request.batch \in (SUBSET Chunk) \ {{}}
  BY DEF Index
<1>5. /\ BatchOf(t) = {} /\ BatchOf(t)' = request.batch
      /\ FoundOf(t) = Nobody /\ FoundOf(t)' = Nobody
      /\ OutcomeOf(t) = "pending" /\ OutcomeOf(t)' = "pending"
  BY <1>1, <1>3 DEF BatchOf, FoundOf, OutcomeOf, Over
<1>6. Creator' = Creator /\ \A c \in Chunk : Writer(c)' = Writer(c)
  BY <1>3, SameReads
<1> QED  BY <1>4, <1>5, <1>6 DEF Others, Promise!Ask

LEMMA FindStep ==
    ASSUME IInv, NEW t \in Call, FindCollection(t), Others(t)
    PROVE  Promise!Find(t) \/ Promise!Clear(t)
<1> USE DEF IInv, TypeOK
<1>1. asked[t] = Recreate /\ collection[t] = Nobody /\ at[t] = "find"
  BY DEF FindCollection, CallInv, StageInv, Early, RecreatePlace
<1>2. rows' = rows /\ asked' = asked
  BY DEF FindCollection, dbVars
<1>3. Creator' = Creator /\ \A c \in Chunk : Writer(c)' = Writer(c)
  BY <1>2, SameReads
<1>4. /\ BatchOf(t) = {} /\ BatchOf(t)' = {}
      /\ FoundOf(t) = Nobody /\ FoundOf(t)' = collection'[t]
      /\ OutcomeOf(t) = "pending"
  BY <1>1, <1>2 DEF BatchOf, FoundOf, OutcomeOf, Over
<1>5. CASE at'[t] = "find_papers"
  <2>1. PICK k \in Existing : collection'[t] = k
    BY <1>5 DEF FindCollection, Goes
  <2>2. Creator = k /\ k # Nobody
    BY <2>1, ReadsNow, IndexAssumption DEF Reads, Existing
  <2>3. OutcomeOf(t)' = "pending"
    BY <1>5 DEF OutcomeOf, Over
  <2> QED  BY <1>3, <1>4, <2>1, <2>2, <2>3 DEF Others, Promise!Find
<1>6. CASE at'[t] # "find_papers"
  <2>1. Existing = {} /\ at'[t] = "done" /\ collection' = collection
    BY <1>6 DEF FindCollection, Goes
  <2>2. \A k \in Call : CollectionRow(k) \notin rows
    BY <2>1 DEF Existing
  <2>3. Creator = Nobody /\ \A c \in Chunk : Writer(c) = Nobody
    BY <2>2, ReadsNow DEF Reads
  <2>4. Promise!Ends(t, "done")
    BY <1>1, <1>4, <2>1, EndsPromise DEF OutcomeOf, Over
  <2> QED  BY <1>1, <1>3, <1>4, <2>3, <2>4 DEF Promise!Clear
<1> QED  BY <1>5, <1>6

LEMMA IndexCommitStep ==
    ASSUME IInv, IInv', NEW t \in Call, CommitIndex(t), Others(t)
    PROVE  Promise!Upsert(t)
<1> USE DEF IInv, TypeOK
<1>1. /\ at[t] = "insert" /\ asked[t] \in Index /\ Inserted(t) = asked[t].batch
      /\ rows' = (rows \ gone[t]) \cup added[t] /\ at'[t] = "done"
      /\ asked' = asked /\ collection' = collection
  BY DEF CommitIndex, Commits, Goes
<1>2. asked[t].batch \in (SUBSET Chunk) \ {{}} /\ asked[t] # Recreate
  BY <1>1, RecreateAssumption DEF Index
<1>3. \A k \in Call, c \in Chunk :
        ChunkRow(k, c) \in added[t] <=> k = t /\ c \in asked[t].batch
  BY <1>1 DEF Inserted, CallInv, AddedInv, ChunkRow
<1>4. \A r \in gone[t] : r[1] \in {"chunk", "embedding"} /\ r[3] \in asked[t].batch
  BY <1>1 DEF CallInv, GoneInv
<1>5. \A c \in asked[t].batch : ChunkRow(t, c) \in rows'
  BY <1>1, <1>2, <1>3
<1>6. \A k \in Call, c \in Chunk \ asked[t].batch :
        ChunkRow(k, c) \in rows' <=> ChunkRow(k, c) \in rows
  <2> HIDE DEF IInv, TypeOK
  <2> SUFFICES ASSUME NEW k \in Call, NEW c \in Chunk \ asked[t].batch
               PROVE  ChunkRow(k, c) \in rows' <=> ChunkRow(k, c) \in rows
    OBVIOUS
  <2>1. ChunkRow(k, c) \notin added[t]
    BY <1>3
  <2>2. ChunkRow(k, c) \notin gone[t]
    BY <1>4 DEF ChunkRow
  <2> QED  BY <1>1, <2>1, <2>2
<1>7. Reads /\ Reads'
  BY ReadsNow, ReadsNext
<1>8. \A c \in Chunk :
        Writer(c)' = IF c \in asked[t].batch THEN t ELSE Writer(c)
  <2> SUFFICES ASSUME NEW c \in Chunk
               PROVE  Writer(c)' = IF c \in asked[t].batch THEN t ELSE Writer(c)
    OBVIOUS
  <2>1. CASE c \in asked[t].batch
    BY <1>5, <1>7, <2>1 DEF Reads
  <2>2. CASE c \notin asked[t].batch
    BY <1>6, <1>7, <2>2 DEF Reads
  <2> QED  BY <2>1, <2>2
<1>9. Creator' = IF Creator = Nobody THEN t ELSE Creator
  <2>1. CASE \E k \in Call : CollectionRow(k) \in rows
    <3>1. PICK k \in Call : CollectionRow(k) \in rows
      BY <2>1
    <3>2. CollectionRow(k) \in rows'
      BY <1>1, <1>4, <3>1 DEF CollectionRow
    <3> QED  BY <1>7, <3>1, <3>2, IndexAssumption DEF Reads
  <2>2. CASE \A k \in Call : CollectionRow(k) \notin rows
    <3>1. Creator = Nobody
      BY <1>7, <2>2 DEF Reads
    <3>2. PICK c \in asked[t].batch : TRUE
      BY <1>2
    <3>3. CollectionRow(collection[t]) \in rows' /\ collection[t] \in Call
      BY <1>1, <1>2, <1>5, <1>7, <3>2 DEF Reads, CollectionRow
    <3>4. CollectionRow(collection[t]) \in added[t]
      BY <1>1, <2>2, <3>3
    <3>5. collection[t] = t
      BY <3>4 DEF CallInv, AddedInv, CollectionRow
    <3> QED  BY <1>7, <3>1, <3>3, <3>5 DEF Reads
  <2> QED  BY <2>1, <2>2
<1>10. /\ BatchOf(t) = asked[t].batch /\ BatchOf(t)' = BatchOf(t)
       /\ FoundOf(t)' = FoundOf(t)
       /\ OutcomeOf(t) = "pending" /\ OutcomeOf(t)' = "done"
  BY <1>1, <1>2 DEF BatchOf, FoundOf, OutcomeOf, Over
<1>11. Promise!Ends(t, "done")
  BY <1>10, EndsPromise
<1> QED  BY <1>2, <1>8, <1>9, <1>10, <1>11 DEF Promise!Upsert

LEMMA RecreateCommitStep ==
    ASSUME IInv, IInv', NEW t \in Call, CommitRecreate(t), Others(t)
    PROVE  Promise!Clear(t) \/ Promise!ClearNothing(t)
<1> USE DEF IInv, TypeOK
<1>1. /\ at[t] = "cleared" /\ asked[t] = Recreate /\ collection[t] \in Call
      /\ rows' = rows \ gone[t] /\ at'[t] = "done"
      /\ asked' = asked /\ collection' = collection
  <2>1. at[t] = "cleared" /\ added[t] = {}
    BY DEF CommitRecreate, CallInv, StageInv, Adding
  <2> QED  BY <2>1 DEF CommitRecreate, Commits, Goes, CallInv, StageInv, RecreatePlace, Early
<1>2. /\ BatchOf(t) = {} /\ BatchOf(t)' = BatchOf(t)
      /\ FoundOf(t) = collection[t] /\ FoundOf(t)' = FoundOf(t)
      /\ OutcomeOf(t) = "pending" /\ OutcomeOf(t)' = "done"
  BY <1>1 DEF BatchOf, FoundOf, OutcomeOf, Over
<1>3. Promise!Ends(t, "done")
  BY <1>2, EndsPromise
<1>4. Reads /\ Reads'
  BY ReadsNow, ReadsNext
<1>5. CASE CollectionRow(collection[t]) \in rows
  <2>1. Creator = collection[t]
    BY <1>1, <1>4, <1>5 DEF Reads
  <2>2. CollectionRow(collection[t]) \notin rows'
    BY <1>1 DEF CallInv, EmbeddingInv
  <2>3. \A k \in Call : CollectionRow(k) \notin rows'
    BY <1>1, <1>4, <2>1, <2>2 DEF Reads
  <2>4. Creator' = Nobody /\ \A c \in Chunk : Writer(c)' = Nobody
    BY <1>4, <2>3 DEF Reads, CollectionRow
  <2> QED  BY <1>2, <1>3, <2>1, <2>4 DEF Promise!Clear
<1>6. CASE CollectionRow(collection[t]) \notin rows
  <2>1. gone[t] = {}
    <3> SUFFICES ASSUME NEW r \in gone[t] PROVE FALSE
      OBVIOUS
    <3>1. r \in rows /\ r \in Row /\ collection[r[2]] = collection[t] /\ r[2] \in Call
      BY RowShape DEF CallInv, GoneInv
    <3>2. CASE r[1] = "collection"
      BY <1>6, <3>1, <3>2, RowShape DEF RowsInv
    <3>3. CASE r[1] \in {"paper", "chunk"}
      <4>1. CollectionRow(collection[r[2]]) \in References(r)
        BY <3>3 DEF References
      <4> QED  BY <1>6, <3>1, <4>1 DEF DbInv
    <3>4. CASE r[1] = "embedding"
      <4>1. r[3] \in Chunk /\ EmbeddingRow(r[2], r[3]) \in rows
        BY <3>1, <3>4, RowShape
      <4>2. CollectionRow(collection[r[2]]) \in rows
        BY <3>1, <4>1, Parents
      <4> QED  BY <1>6, <3>1, <4>2
    <3> QED  BY <3>1, <3>2, <3>3, <3>4, RowShape
  <2>2. Creator' = Creator /\ \A c \in Chunk : Writer(c)' = Writer(c)
    BY <1>1, <2>1, SameReads
  <2>3. Creator # collection[t]
    <3>1. CASE \E k \in Call : CollectionRow(k) \in rows
      BY <1>4, <1>6, <3>1 DEF Reads
    <3>2. CASE \A k \in Call : CollectionRow(k) \notin rows
      BY <1>1, <1>4, <3>2, IndexAssumption DEF Reads
    <3> QED  BY <3>1, <3>2
  <2>4. collection[t] # Nobody
    BY <1>1, IndexAssumption
  <2> QED  BY <1>2, <1>3, <2>2, <2>3, <2>4 DEF Promise!ClearNothing
<1> QED  BY <1>5, <1>6

LEMMA AbortStep ==
    ASSUME IInv, NEW t \in Call, Abort(t), Others(t)
    PROVE  Promise!Fail(t)
<1>1. /\ UNCHANGED <<rows, asked, collection>>
      /\ at[t] \notin Over /\ at'[t] = "failed"
  BY DEF Abort, dbVars, Goes, IInv, TypeOK
<1>2. Creator' = Creator /\ \A c \in Chunk : Writer(c)' = Writer(c)
  BY <1>1, SameReads
<1>3. /\ BatchOf(t)' = BatchOf(t) /\ FoundOf(t)' = FoundOf(t)
      /\ OutcomeOf(t) = "pending" /\ OutcomeOf(t)' = "failed"
  BY <1>1 DEF BatchOf, FoundOf, OutcomeOf, Over
<1>4. Promise!Ends(t, "failed")
  BY <1>3, EndsPromise
<1> QED  BY <1>2, <1>4 DEF Promise!Fail

LEMMA QuietStep ==
    ASSUME IInv, NEW t \in Call, Others(t),
           \/ LoadFinds(t) \/ LoadFindsNone(t) \/ CreateCollection(t)
           \/ AdoptCollection(t) \/ FindPaper(t) \/ InsertPaper(t) \/ SelectReplaced(t)
           \/ DeleteEmbeddings(t) \/ DeleteReplaced(t) \/ InsertChunk(t)
           \/ BeginRecreate(t) \/ FindPapers(t) \/ FindChunks(t)
           \/ ClearEmbeddings(t) \/ ClearChunks(t) \/ ClearPapers(t) \/ ClearCollection(t)
    PROVE  UNCHANGED Promise!promiseVars
<1> USE DEF IInv, TypeOK, Goes, dbVars
<1>1. rows' = rows /\ at[t] \notin Over /\ at'[t] \notin Over
  BY DEF LoadFinds, LoadFindsNone, CreateCollection, AdoptCollection, FindPaper,
     InsertPaper, SelectReplaced, Selects, DeleteEmbeddings, DeleteReplaced, InsertChunk,
     BeginRecreate, FindPapers, FindChunks, ClearEmbeddings, ClearChunks, ClearPapers,
     ClearCollection, Over
<1>2. asked' = asked
  <2>1. BeginRecreate(t) => asked[t] = Recreate
    BY DEF BeginRecreate, CallInv, StageInv
  <2> QED  BY <2>1 DEF LoadFinds, LoadFindsNone, CreateCollection, AdoptCollection,
     FindPaper, InsertPaper, SelectReplaced, DeleteEmbeddings, DeleteReplaced, InsertChunk,
     BeginRecreate, FindPapers, FindChunks, ClearEmbeddings, ClearChunks, ClearPapers,
     ClearCollection
<1>3. asked[t] = Recreate => collection' = collection
  <2>1. LoadFinds(t) \/ LoadFindsNone(t) => asked[t] # Recreate
    BY RecreateAssumption DEF LoadFinds, LoadFindsNone, CallInv, StageInv, IndexPlace
  <2> QED  BY <2>1 DEF CreateCollection, AdoptCollection,
     FindPaper, InsertPaper, SelectReplaced, DeleteEmbeddings, DeleteReplaced, InsertChunk,
     BeginRecreate, FindPapers, FindChunks, ClearEmbeddings, ClearChunks, ClearPapers,
     ClearCollection
<1>4. BatchOf(t)' = BatchOf(t) /\ FoundOf(t)' = FoundOf(t) /\ OutcomeOf(t)' = OutcomeOf(t)
  BY <1>1, <1>2, <1>3 DEF BatchOf, FoundOf, OutcomeOf
<1> QED  BY <1>1, <1>4, Stutters

LEMMA PromiseInit == Init => Promise!Init
<1> SUFFICES ASSUME Init PROVE Promise!Init
  OBVIOUS
<1>1. Creator = Nobody /\ \A c \in Chunk : Writer(c) = Nobody
  BY DEF Init, Creator, Existing, Writer
<1>2. \A t \in Call : BatchOf(t) = {} /\ FoundOf(t) = Nobody /\ OutcomeOf(t) = "pending"
  BY DEF Init, BatchOf, FoundOf, OutcomeOf, Over
<1> QED  BY <1>1, <1>2 DEF Promise!Init

LEMMA PromiseStep ==
    IInv /\ IInv' /\ [Next]_vars => [Promise!Next]_(Promise!promiseVars)
<1> SUFFICES ASSUME IInv, IInv', [Next]_vars
             PROVE  [Promise!Next]_(Promise!promiseVars)
  OBVIOUS
<1>1. CASE UNCHANGED vars
  <2>1. Creator' = Creator /\ \A c \in Chunk : Writer(c)' = Writer(c)
    BY <1>1, SameReads DEF vars, dbVars
  <2>2. \A t \in Call : BatchOf(t)' = BatchOf(t) /\ FoundOf(t)' = FoundOf(t)
                         /\ OutcomeOf(t)' = OutcomeOf(t)
    BY <1>1 DEF vars, BatchOf, FoundOf, OutcomeOf
  <2> QED  BY <2>1, <2>2 DEF Promise!promiseVars
<1>2. CASE Next
  <2>1. PICK t \in Call : Step(t)
    BY <1>2 DEF Next, Step
  <2>2. Others(t)
    BY <2>1, OthersSame
  <2>3. \/ Promise!Next
        \/ UNCHANGED Promise!promiseVars
    BY <2>1, <2>2, AskStep, FindStep, IndexCommitStep, RecreateCommitStep, AbortStep,
       QuietStep DEF Step, IndexStep, RecreateStep, Promise!Next
  <2> QED  BY <2>3
<1> QED  BY <1>1, <1>2

(* Concurrent calls of index_chunks and recreate_collection have the       *)
(* effect of the calls that committed, one after the other, each at once.  *)
THEOREM Implements == Spec => KeepsPromise
<1>1. Init => Promise!Init
  BY PromiseInit
<1>2. IInv /\ IInv' /\ [Next]_vars => [Promise!Next]_(Promise!promiseVars)
  BY PromiseStep
<1> QED  BY <1>1, <1>2, Invariance, PTL DEF Spec, KeepsPromise, Promise!Spec

=============================================================================
