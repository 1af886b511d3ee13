----------------------------- MODULE Retrieval -----------------------------
(***************************************************************************)
(* The read side of one collection: src/search/pg_service.py and the       *)
(* queries of src/search/pg_repository.py behind it, the filters of        *)
(* src/search/filtering.py, and what src/study/packing.py makes of the     *)
(* chunks a study request retrieves.                                       *)
(*                                                                         *)
(* A query takes several transactions, each READ COMMITTED, beside writers *)
(* that replace chunks or the whole collection (see IndexPromise).  Only   *)
(* the schema is read through a cache, which outlives the collection.      *)
(***************************************************************************)
EXTENDS Naturals, FiniteSets

CONSTANTS
    Chunk,        \* chunk ids, ordered as numbers are
    NoChunk,      \* no parent_chunk_id
    ParentOf,     \* chunk.parent_chunk_id
    Paper,        \* the batches index_chunks is called with
    Field,        \* the fields a filter may name
    Structural,   \* _STRUCTURAL_FILTER_FIELDS, which every collection has
    Has,          \* the chunks whose metadata match the filter on a field
    NoFilter,
    Near,         \* the similarity of each chunk to the query
    Limit,        \* the limits clients ask for
    Cap,          \* RERANK_CANDIDATE_CAP
    MaxScore,     \* Bound: scores and thresholds are 0..MaxScore
    Length,       \* the length of each chunk's text, in characters
    Marker,       \* the length of TRUNCATION_MARKER
    Budget,       \* context_budget_tokens
    MaxSingle,    \* max_single_chunk_tokens
    MaxWrites     \* Bound: writes to the collection

Score == 0..MaxScore

(* Parsers emit a sub-question in one batch with its question.             *)
ASSUME RetrievalAssumption ==
    /\ Chunk \subseteq Nat /\ IsFiniteSet(Chunk)
    /\ NoChunk \notin Chunk
    /\ ParentOf \in [Chunk -> Chunk \cup {NoChunk}]
    /\ \A c \in Chunk : ParentOf[c] # NoChunk => ParentOf[ParentOf[c]] = NoChunk
    /\ Paper \subseteq SUBSET Chunk
    /\ \A p \in Paper : \A c \in p : ParentOf[c] \in p \cup {NoChunk}
    /\ Structural \subseteq Field
    /\ Has \in [Field -> SUBSET Chunk]
    /\ NoFilter \notin Field
    /\ MaxScore \in Nat
    /\ Near \in [Chunk -> Score]
    /\ Limit \subseteq Nat \ {0}
    /\ Cap \in Nat
    /\ Length \in [Chunk -> Nat]
    /\ Marker \in Nat
    /\ Budget \in Nat
    /\ MaxSingle \in Nat
    /\ MaxWrites \in Nat

Declarable == Field \ Structural
NoSchema == {NoFilter}
Schema == SUBSET Declarable

(* A row of collections, named by the write that created it, and a row of  *)
(* chunks: its collection, and the write that stored it.  No row: write 0. *)
(* A threshold of 0 is NULL: every score passes.                           *)
Threshold == [{"vector", "rerank"} -> Score]
Collection == [id : 0..MaxWrites, schema : Schema, min : Threshold]
NoCollection == [id |-> 0, schema |-> {}, min |-> [k \in {"vector", "rerank"} |-> 0]]
ChunkRow == [of : 0..MaxWrites, write : 0..MaxWrites]
NoRow == [of |-> 0, write |-> 0]

Query == [kind : {"search"}, filter : Field \cup {NoFilter}, limit : Limit,
          rerank : BOOLEAN]
         \cup [kind : {"study"}, filter : Field \cup {NoFilter}, limit : Limit,
               rerank : {TRUE}]
Detail == [kind : {"detail"}, chunk : Chunk]
NoQuery == [kind |-> "none"]

Place == {"idle", "schema", "load", "select", "rank", "cut", "grade", "pack",
          "chunk", "parent"}
Outcome == {"none", "found", "empty", "not_found", "invalid_filter", "error",
            "rejected", "packed", "context_pack_failed"}

VARIABLES
    collection,   \* the committed row of the collection
    stored,       \* the committed chunk rows
    writes,
    cache,        \* PgSearchService._schema_cache
    reranker,     \* whether the deployment has one
    at, query, outcome,
    row,          \* the collection row this query's transaction has loaded
    matched,      \* the rows that satisfied its conditions
    candidates,   \* those it returned
    scores,
    minimum,      \* the threshold applied
    results,
    accepted,     \* what the grader has left of them
    queue,        \* of those without duplicates, the ones still to be packed
    packed, omitted,
    tokens,       \* estimated tokens of each chunk packed or omitted
    used,         \* used_tokens
    shown         \* of a chunk's detail: its row and its parent's

dbVars == <<collection, stored, writes>>
requestVars == <<row, matched, candidates, scores, minimum, results, accepted>>
packVars == <<queue, packed, omitted, tokens, used>>
queryVars == <<query, requestVars, packVars, shown>>
vars == <<dbVars, cache, reranker, at, outcome, queryVars>>

TypeOK ==
    /\ collection \in Collection
    /\ stored \in [Chunk -> ChunkRow]
    /\ writes \in 0..MaxWrites
    /\ cache \in Schema \cup {NoSchema}
    /\ reranker \in BOOLEAN
    /\ at \in Place
    /\ query \in Query \cup Detail \cup {NoQuery}
    /\ outcome \in Outcome
    /\ row \in Collection
    /\ matched \subseteq Chunk /\ candidates \subseteq Chunk
    /\ scores \in [Chunk -> Score]
    /\ minimum \in Score
    /\ results \subseteq Chunk /\ accepted \subseteq Chunk
    /\ queue \subseteq Chunk /\ packed \subseteq Chunk /\ omitted \subseteq Chunk
    /\ tokens \in [Chunk -> Nat]
    /\ used \in Nat
    /\ shown \in [chunk : ChunkRow, parent : ChunkRow]

Init ==
    /\ collection = NoCollection
    /\ stored = [c \in Chunk |-> NoRow]
    /\ writes = 0
    /\ cache = NoSchema
    /\ reranker \in BOOLEAN
    /\ at = "idle" /\ query = NoQuery /\ outcome = "none"
    /\ row = NoCollection
    /\ matched = {} /\ candidates = {} /\ results = {} /\ accepted = {}
    /\ scores = Near
    /\ minimum = 0
    /\ queue = {} /\ packed = {} /\ omitted = {}
    /\ tokens = [c \in Chunk |-> 0]
    /\ used = 0
    /\ shown = [chunk |-> NoRow, parent |-> NoRow]

Ends(how) == at' = "idle" /\ outcome' = how

-----------------------------------------------------------------------------
(* Writers.                                                                *)

Exists == collection.id # 0

Writes(col) ==
    /\ writes < MaxWrites
    /\ writes' = writes + 1
    /\ collection' = col
    /\ UNCHANGED <<cache, reranker, at, outcome, queryVars>>

(* index_chunks replaces the rows of its batch and keeps the schema of a   *)
(* collection that exists.                                                 *)
Index(batch) ==
    \E schema \in IF Exists THEN {collection.schema} ELSE Schema :
      LET col == IF Exists THEN collection
                 ELSE [NoCollection EXCEPT !.id = writes + 1, !.schema = schema]
      IN /\ Writes(col)
         /\ stored' = [c \in Chunk |->
              IF c \in batch THEN [of |-> col.id, write |-> writes + 1]
              ELSE stored[c]]

(* recreate_collection. *)
Delete ==
    /\ Exists
    /\ Writes(NoCollection)
    /\ stored' = [c \in Chunk |-> NoRow]

(* An operator stores the thresholds that a calibration suggests.          *)
Calibrate ==
    /\ Exists
    /\ \E k \in {"vector", "rerank"}, score \in Score :
         Writes([collection EXCEPT !.min[k] = score])
    /\ UNCHANGED stored

-----------------------------------------------------------------------------
(* A request comes in, and reads the schema.                               *)

Ask ==
    /\ at = "idle"
    /\ query' \in Query \cup Detail
    /\ at' = IF query'.kind = "detail" THEN "load" ELSE "schema"
    /\ outcome' = "none"
    /\ row' = NoCollection
    /\ matched' = {} /\ candidates' = {} /\ results' = {} /\ accepted' = {}
    /\ scores' = Near
    /\ minimum' = 0
    /\ queue' = {} /\ packed' = {} /\ omitted' = {}
    /\ tokens' = [c \in Chunk |-> 0]
    /\ used' = 0
    /\ shown' = [chunk |-> NoRow, parent |-> NoRow]
    /\ UNCHANGED <<dbVars, cache, reranker>>

(* validate_filter_conditions. *)
Allowed(schema) == query.filter \in schema \cup Structural \cup {NoFilter}

TooMany == query.rerank /\ query.limit > Cap

(* get_collection_schema, through the cache, first of the handler and then *)
(* of the service. *)
GetSchema ==
    /\ at = "schema"
    /\ IF cache = NoSchema /\ ~Exists
       THEN Ends("not_found") /\ UNCHANGED cache
       ELSE /\ cache' = IF cache = NoSchema THEN collection.schema ELSE cache
            /\ CASE ~Allowed(cache') -> Ends("invalid_filter")
                 [] Allowed(cache') /\ TooMany -> Ends("error")
                 [] OTHER -> at' = "load" /\ UNCHANGED outcome
    /\ UNCHANGED <<dbVars, reranker, queryVars>>

-----------------------------------------------------------------------------
(* Statements of PgSearchRepository.search, and the ranking of its rows.   *)

Loads(next) == row' = collection /\ at' = next /\ UNCHANGED outcome

(* Mutated: the search trusts a filter that its caller has validated. *)
LoadCollection_Trusting ==
    /\ at = "load"
    /\ CASE ~Exists -> Ends("not_found") /\ UNCHANGED row
         [] Exists /\ query.kind = "detail" -> Loads("chunk")
         [] OTHER -> Loads("select")
    /\ UNCHANGED <<dbVars, cache, reranker, query, matched, candidates, scores,
                   minimum, results, accepted, packVars, shown>>

LoadCollection ==
    /\ at = "load"
    /\ CASE ~Exists -> Ends("not_found") /\ UNCHANGED row
         [] Exists /\ query.kind = "detail" -> Loads("chunk")
         [] OTHER -> IF Allowed(collection.schema) THEN Loads("select")
                     ELSE Ends("invalid_filter") /\ UNCHANGED row
    /\ UNCHANGED <<dbVars, cache, reranker, query, matched, candidates, scores,
                   minimum, results, accepted, packVars, shown>>

RowsOf(id) == {c \in Chunk : stored[c].write # 0 /\ stored[c].of = id}

Matches == IF query.filter = NoFilter THEN Chunk ELSE Has[query.filter]

Smaller(m, n) == IF m < n THEN m ELSE n

Fetched == IF query.rerank THEN Smaller(3 * query.limit, Cap) ELSE query.limit

Nearer(c, d) == Near[c] > Near[d] \/ (Near[c] = Near[d] /\ c < d)

(* Sorting by score is stable: equal scores keep the order of the rows.    *)
Outranks(c, d) == scores[c] > scores[d] \/ (scores[c] = scores[d] /\ Nearer(c, d))

First(n, S, Before(_, _)) ==
    {c \in S : Cardinality({d \in S : Before(d, c)}) < n}

Select ==
    /\ at = "select"
    /\ matched' = RowsOf(row.id) \cap Matches
    /\ candidates' = First(Fetched, matched', Nearer)
    /\ IF candidates' = {} THEN Ends("empty") ELSE at' = "rank" /\ UNCHANGED outcome
    /\ UNCHANGED <<dbVars, cache, reranker, query, row, scores, minimum, results,
                   accepted, packVars, shown>>

Reranks == query.rerank /\ reranker

Rank ==
    /\ at = "rank"
    /\ at' = "cut"
    /\ scores' \in {s \in [Chunk -> Score] :
                      \A c \in Chunk : (Reranks /\ c \in candidates) \/ s[c] = Near[c]}
    /\ UNCHANGED <<dbVars, cache, reranker, outcome, query, row, matched, candidates,
                   minimum, results, accepted, packVars, shown>>

(* get_collection_retrieval_thresholds, of the collection there is now.    *)
Cut ==
    /\ at = "cut"
    /\ IF ~Exists THEN Ends("not_found") /\ UNCHANGED <<minimum, results>>
       ELSE /\ minimum' = collection.min[IF Reranks THEN "rerank" ELSE "vector"]
            /\ LET passing == {c \in candidates : scores[c] >= minimum'}
               IN /\ results' = First(query.limit, passing, Outranks)
                  /\ CASE passing = {} -> Ends("empty")
                       [] passing # {} /\ query.kind = "search" -> Ends("found")
                       [] OTHER -> at' = "grade" /\ UNCHANGED outcome
    /\ UNCHANGED <<dbVars, cache, reranker, query, row, matched, candidates, scores,
                   accepted, packVars, shown>>

(* The embedding, the reranker or a statement fails. *)
Fail ==
    /\ at \in {"schema", "load", "select", "rank", "cut", "chunk", "parent"}
    /\ Ends("error")
    /\ UNCHANGED <<dbVars, cache, reranker, queryVars>>

-----------------------------------------------------------------------------
(* The context of a study request: what the grader accepts (see            *)
(* StudyGraph), without duplicates, as far as it fits.                     *)

(* Mutated: sub-questions always go with their question.  *)
Duplicates_SubQuestions(chunks) == {c \in chunks : ParentOf[c] \in chunks}

(* dedupe_parent_child: of a question and a sub-question of it the better  *)
(* one stays, the question when they are equal.                            *)
Duplicates(chunks) ==
    {c \in chunks :
       \/ \E d \in chunks : ParentOf[d] = c /\ scores[d] > scores[c]
       \/ ParentOf[c] \in chunks /\ scores[c] <= scores[ParentOf[c]]}

Grade ==
    /\ at = "grade"
    /\ accepted' \in SUBSET results
    /\ queue' = accepted' \ Duplicates(accepted')
    /\ IF accepted' = {} THEN Ends("rejected") ELSE at' = "pack" /\ UNCHANGED outcome
    /\ UNCHANGED <<dbVars, cache, reranker, query, row, matched, candidates, scores,
                   minimum, results, packed, omitted, tokens, used, shown>>

Larger(m, n) == IF m < n THEN n ELSE m

(* HeuristicTokenEstimator.estimate. *)
Estimate(length) == Larger(1, length \div 4)

(* _truncate_to_token_budget keeps whole words while they fit, or a piece  *)
(* of the first word, and adds a blank and the marker.                     *)
Target == IF Estimate(Marker) < MaxSingle THEN MaxSingle - Estimate(Marker) ELSE 1

Tokens(c) ==
    IF Estimate(Length[c]) <= MaxSingle THEN {Estimate(Length[c])}
    ELSE {Estimate(kept + 1 + Marker) : kept \in 0..(4 * Target + 3)}

NextInLine(c) == c \in queue /\ \A d \in queue \ {c} : Outranks(c, d)

Fits(n) == used + n <= Budget

(* One turn of pack_chunks' loop. *)
PackChunk(c) ==
    /\ at = "pack" /\ NextInLine(c)
    /\ \E n \in Tokens(c) :
         /\ tokens' = [tokens EXCEPT ![c] = n]
         /\ IF Fits(n)
            THEN packed' = packed \cup {c} /\ used' = used + n /\ UNCHANGED omitted
            ELSE omitted' = omitted \cup {c} /\ UNCHANGED <<packed, used>>
    /\ queue' = queue \ {c}
    /\ UNCHANGED <<dbVars, cache, reranker, at, outcome, query, requestVars, shown>>

PackEnds ==
    /\ at = "pack" /\ queue = {}
    /\ Ends(IF packed = {} THEN "context_pack_failed" ELSE "packed")
    /\ UNCHANGED <<dbVars, cache, reranker, queryVars>>

-----------------------------------------------------------------------------
(* The other statements of get_chunk_by_id.                                *)

ReadChunk ==
    /\ at = "chunk"
    /\ IF query.chunk \notin RowsOf(row.id)
       THEN Ends("not_found") /\ UNCHANGED shown
       ELSE /\ shown' = [shown EXCEPT !.chunk = stored[query.chunk]]
            /\ IF ParentOf[query.chunk] = NoChunk THEN Ends("found")
               ELSE at' = "parent" /\ UNCHANGED outcome
    /\ UNCHANGED <<dbVars, cache, reranker, query, requestVars, packVars>>

(* Mutated: a parent is looked up by its id alone. *)
ReadParent_AnyCollection ==
    /\ at = "parent"
    /\ shown' = [shown EXCEPT !.parent = stored[ParentOf[query.chunk]]]
    /\ Ends("found")
    /\ UNCHANGED <<dbVars, cache, reranker, query, requestVars, packVars>>

ReadParent ==
    /\ at = "parent"
    /\ LET parent == ParentOf[query.chunk]
       IN shown' = [shown EXCEPT !.parent =
                      IF parent \in RowsOf(row.id) THEN stored[parent] ELSE NoRow]
    /\ Ends("found")
    /\ UNCHANGED <<dbVars, cache, reranker, query, requestVars, packVars>>

-----------------------------------------------------------------------------
SearchStep == Ask \/ GetSchema \/ LoadCollection \/ Select \/ Rank \/ Cut \/ Fail
ContextStep == Grade \/ PackEnds \/ \E c \in Chunk : PackChunk(c)
DetailStep == ReadChunk \/ ReadParent
WriterStep == Delete \/ Calibrate \/ \E batch \in Paper : Index(batch)

Next == SearchStep \/ ContextStep \/ DetailStep \/ WriterStep

Spec == Init /\ [][Next]_vars

-----------------------------------------------------------------------------
(* Properties.                                                             *)

(* Whatever the cached schema says, and whatever writers did meanwhile,    *)
(* results stem from a collection whose own schema declares the filter;    *)
(* none scores below the threshold; what was left out, for the limit or    *)
(* for the reranker's cap, is no better than what is shown; and fewer      *)
(* results than the limit are all there is above the threshold: without a  *)
(* reranker of all matches, with one of those that it has seen.            *)
ResultsHonest ==
    results # {} =>
        /\ row.id # 0 /\ Allowed(row.schema)
        /\ results \subseteq matched /\ Cardinality(results) <= query.limit
        /\ \A c \in results : scores[c] >= minimum
        /\ \A c \in matched \ results, d \in results :
             \/ scores[c] < minimum
             \/ Outranks(d, c)
             \/ Reranks /\ c \notin candidates /\ \A e \in candidates : Nearer(e, c)
        /\ \/ Cardinality(results) = query.limit
           \/ \A c \in (IF Reranks THEN candidates ELSE matched) \ results :
                scores[c] < minimum

Handled == queue \cup packed \cup omitted

Family(c) == {c} \cup {d \in Chunk : ParentOf[d] = c}
             \cup (IF ParentOf[c] = NoChunk THEN {}
                   ELSE {d \in Chunk : d = ParentOf[c] \/ ParentOf[d] = ParentOf[c]})

NoDuplicates == \A c \in Handled : ParentOf[c] \notin Handled

FamiliesKept ==
    at = "pack" =>
      \A c \in accepted : \E d \in Handled \cap Family(c) : scores[d] >= scores[c]

WithinBudget ==
    /\ used <= Budget
    /\ \A c \in omitted : used + tokens[c] > Budget
    /\ \A c \in packed \cup omitted :
         tokens[c] <= Larger(MaxSingle, Estimate(Marker) + 1) + 1

(* The context shows no sub-question beside its question; of every family  *)
(* of accepted chunks it keeps a best one in line, to be packed or to be   *)
(* named as omitted; a chunk is omitted only when there is no room for it; *)
(* the budget is kept, and a truncated chunk exceeds its own by one token  *)
(* at most (packing.py cuts the text to a budget and joins the marker).    *)
ContextFaithful == NoDuplicates /\ FamiliesKept /\ WithinBudget

(* A sub-question is never shown with a question of another collection of  *)
(* the name or with an older one, although they are read in two statements *)
(* that any write may separate.                                            *)
ParentFits ==
    shown.parent # NoRow =>
        shown.parent.of = shown.chunk.of /\ shown.parent.write >= shown.chunk.write

=============================================================================
