# Lexicon Revision: a verification project in TLA+

This directory holds TLA+ models of the past-paper revision service in `src/src`
(FastAPI, PostgreSQL with pgvector, an SQS queue, an object store, an ingestion
worker), the TLC runs that check them on small instances, and theorems that the
TLA+ proof system checks for every instance. Paths such as `src/src/worker/runner.py`
are relative to the directory above this one. `PROJECT.json` maps each definition to
the lines it stands for and lists runs, mutants, findings, hazards and theorems.

    tlc -workers 2 -config IngestDuplicates.cfg MCIngestWorker.tla
    tlapm IngestWorkerProofs.tla

Eight parts are modelled, each on its own, because they share no state in the running
system except committed rows and stored objects: asynchronous ingestion, the writers of
the index, retrieval from it, the study graph, accounts with access to collections, the
HTTP layer with its rate limiter, the parsing of papers into chunks, and the operator's
three scripts. Where one part stands in another as a single step, the other's refinement
theorem justifies that (sections 2 and 5).

## 1. The system

| Component | State it keeps | Operations | Talks to |
| --- | --- | --- | --- |
| Ingest submission (`main.py` `admin_ingest`) | none | check admin and key, enqueue, 202/503 | queue |
| Ingest queue (`jobs/sqs.py`, `infra/terraform/sqs.tf`) | messages, receive counts, visibility, dead letters | send, receive, expire, delete, redrive | submission, worker |
| Ingestion worker (`worker/`) | stop event, current delivery, temporary workspace | poll, handle, acknowledge, stop | queue, object store, MinerU, index |
| Conversion and upload (`ingestion/conversion.py`, `storage/conversion.py`) | objects under `blobs/` and `artifacts/mineru/<run id>/` | run MinerU, put blob, content list, markdown, images, manifest | object store |
| Index writer (`ingestion/indexing.py`, `search/pg_repository.py`) | collections, papers, chunks, embeddings | recreate, upsert, create metadata indexes | PostgreSQL |
| Search (`search/pg_service.py`, `filtering.py`) | a schema cache per process | filter, embed, search, rerank | PostgreSQL, providers |
| Study pipeline (`study/graph.py`, `service.py`, `reflection.py`, `planning/`) | one graph state per request | plan, retrieve, grade, reflect, pack, generate, validate, respond | search, providers |
| Packing and validation (`study/packing.py`, `validation.py`) | none | deduplicate, pack into a budget, check citations | study |
| HTTP API (`main.py`) | per-request flags, usage-log rows | timeouts, body limit, cost guard, error mapping, usage log | everything |
| Rate limiter (`runtime/rate_limit.py`) | hit counters per bucket and window | check, consume | HTTP API |
| Accounts and access (`access/`) | users, identities, memberships, collections | resolve, provision, list, authorize | HTTP API, PostgreSQL |
| Chunking (`chunking/`, `metadata_schema/`) | none | parse MinerU output into chunks | index writer |
| Operator scripts (`scripts/convert_papers.py`, `ingest_papers.py`, `index_chunks_postgres.py`) | MinerU's output folders, local manifests | convert and upload a folder; stage and enqueue it; index it | MinerU, object store, queue, index writer |
| Object store, providers, configuration, readiness, frontend | files, HTTP clients, environment, browser state | I/O | everything |

What is hard in it, and where:

- *Ingestion* runs several processes over three stores with at-least-once delivery:
  crashes between any two effects, deliveries that overlap because a conversion outlives
  the visibility timeout, stale receipts, failed deletes, poison messages, artifact
  names shared by two papers, an index transaction followed by one of its own for the
  metadata indexes. What makes it correct: nothing is acknowledged unapplied, nothing is
  lost, every message leaves the queue, what was committed stays searchable and its
  media resolvable, and redelivery has the effect of an upsert.
- *Index writes* take several statements under READ COMMITTED beside other writers and
  readers. Correct means: the batch is installed whole, every chunk has an embedding,
  and a process's cached schema is that of the collection it filters.
- *The study graph* re-queries once, falls back on every provider failure, and
  overwrites state from one retrieval to the next. Correct means: one response on every
  path, at most one re-query, sources that were retrieved, accepted and packed in the
  same pass, termination within the deadline.
- *The HTTP layer* races a timeout against a finishing handler, and writes one usage-log
  row from several exits. Correct means: at most one row, with the outcome the client saw,
  and an answer for every request.
- *Accounts* are created on first sight by concurrent requests under advisory locks.
  Correct means: one user per subject and per verified email, and a listing that agrees
  with what authorization then allows.
- *Rate limiting* consumes and reads counters in two calls. Correct means: nothing that
  costs money runs without a hit, and no more of it than a window admits.
- *Retrieval* reads schema, collection, chunks and thresholds in transactions of their
  own beside the writers, and the schema from a cache. Correct means: results obey the
  filter, the threshold and the limit, and nothing better was left out.
- *Packing* decides parents and children by score and position, with a budget. Correct
  means: of every accepted family something at least as good stays.
- *Parsing* finds the text, the marks, the display lines and the figures of a part in
  loops with indices of their own. Correct means: they agree, and chunk ids differ.
- *The scripts* rely on what earlier runs left behind. Correct means: exit code 0 is
  true (but for the two cases section 2 names), and no paper that is staged waits for a
  message nobody sends, unless a run said so.

Every such place is listed with its line under `hazards` in `PROJECT.json`.

## 2. Modules

| Module | Models |
| --- | --- |
| `JobQueue` | the SQS queue and its dead-letter queue, as the code calls and configures it |
| `IngestPromise` | abstract: what asynchronous ingestion promises to a submitter |
| `IngestWorker` | submission, queue, workers, handler, object store and index rows together |
| `MCIngestWorker` | instances of it for TLC |
| `IngestWorkerProofs` | the theorems about it |
| `IndexPromise` | abstract: what concurrent writers of a collection promise its readers |
| `IndexTransactions` | `index_chunks` and `recreate_collection`, statement by statement, in concurrent transactions |
| `MCIndexTransactions`, `IndexProofs` | instances, theorems |
| `StudyPromise` | abstract: what a student gets from one study request |
| `StudyGraph` | the graph of one study request, node by node, with its deadline |
| `MCStudyGraph`, `StudyGraphProofs` | instances, theorems |
| `AccountPromise` | abstract: sign-ins one after another |
| `AccountProvisioning` | signing in, statement by statement, in concurrent transactions |
| `MCAccountProvisioning`, `AccountProofs` | instances, theorems |
| `CollectionAccess` | authorizing and listing beside operators' edits, session by session |
| `MCCollectionAccess`, `CollectionAccessProofs` | instances, theorems |
| `Retrieval` | search, chunk detail and context packing, statement by statement beside writers |
| `MCRetrieval` | instances for TLC |
| `HttpRequests` | the four public operations from the middleware to the answer, with limiter, deadlines and usage log |
| `MCHttpRequests`, `HttpProofs` | instances, theorems |
| `QuestionBody` | how the two parsers read the body of one question: parts, marks, figures (operators) |
| `PaperParsing` | from a content list to chunks: both parsers and the pipeline |
| `MCPaperParsing` | the content lists for TLC |
| `ChunkProofs` | the theorems about `PaperParsing` and `Retrieval` |
| `PaperFolder` | the PDFs of the operator's folder |
| `ConvertPapers`, `SubmitPapers`, `IndexPapers` | the three scripts, run by run |
| `OperatorScripts`, `MCOperatorScripts` | their composition on one folder; instances |
| `OperatorProofs` | theorems about all three |

### JobQueue

`status[j]` says where message `j` is, `receives[j]` how often it was handed out (SQS's
ApproximateReceiveCount). `HandOut` is a receive, `ShowAgain` the end of the visibility
timeout, `Redrive` the move to the dead-letter queue in place of one more delivery, and
`Delete` the delete with a receipt. A receipt is the receive count at the time of the
delivery. With a stale receipt the broker may delete the message or not: SQS accepts the
call either way, so both are modelled. The broker is not part of the repository; the
code's use of it (`jobs/sqs.py`) and its declared settings (`sqs.tf`) are.

### IngestWorker

| Variable | In the code |
| --- | --- |
| `reply` | the answer of `POST /admin/ingest` |
| `pdf`, `objects` | the object store: source PDFs, and artifacts by kind and run id |
| `rows` | the committed chunk rows, each tagged with the paper and PDF content it was extracted from |
| `pc`, `job`, `receipt` | where a worker is in `run_worker`/`handle`, and its `ReceivedJob` |
| `version`, `puts` | the PDF the delivery fetched, how many upload stages it has finished |
| `stop` | `run_worker`'s stop event |
| `done`, `fault` | history: what was applied for a job; which deliveries met a fault |

One action per effect of `handle` (`Fetch`, `Convert`, five stages of `UploadNext`,
`ParseChunks` or `ParseNothing`, `IndexChunks`, `EnsureIndexes`) and of the loop around
it (`EnterReceive`, `EmptyReceive`, `Receive`, `Ack`, `LeaveLoop`). Between any two of
them the delivery may `Fail`, the process may be killed (`Kill`), the visibility may
end (`ExpireVisibility`), a SIGTERM may set the event (`Sigterm`), the PDF may be
replaced (`ReplacePdf`), and another worker may take any of its steps. A `receive` whose
answer is lost ends the process (`ReceiveLost`), since only the decode error is caught.

Abstractions: a PDF's bytes are a `Version`; what a conversion of it yields is the pair
of paper and version; an artifact namespace holds a set of conversions per kind, which
grows for content-addressed keys and is replaced for fixed ones (images count as
content-addressed: `src/src/storage/keys.py:73` keys them by the file name MinerU gives
them, so this rests on MinerU naming images by content); `ChunksOf` gives the chunk ids a
version yields. The images of a paper are one put, since only the manifest
and the rows refer to them and both come after the last one. `index_chunks` is one
action, its commit; a failure before the commit is `Fail` with nothing changed. That
its statements have the effect of one step beside other writers is what
`IndexProofs!Implements` shows.

The fault history is what "three strikes" and the liveness properties are stated
against. A fault belongs to a delivery, and `MaxFaults` bounds how many deliveries
meet one; one delivery may meet any number.

### IndexTransactions

| Variable | In the code |
| --- | --- |
| `rows`, `community` | committed rows of the four tables; `collections.community_id` |
| `asked`, `at` | the arguments of each call, and its next statement |
| `collection`, `paper`, `selected` | `collection_id`, `pdf_to_paper_id`, and the row ids a call read and deletes by |
| `added`, `gone`, `adopting` | the transaction's uncommitted inserts, deletes and updates |

Every `session.execute` is an action, and any other transaction may step between two of
them. A select sees committed rows and the transaction's own writes. An insert waits for
an uncommitted row of the same unique key and for the deletion of a row it refers to; a
delete waits for references other transactions have inserted, and fails while some row
refers to its targets; whatever a statement waits for, the call may also fail (`Abort`:
a violated constraint, the victim of a deadlock, a refused argument, a killed process).
A delete by paper or collection may miss rows committed while it waited, since they are
not in its snapshot.

Abstractions: the four tables' rows are named by table, inserting call and what they are
for, as their uuids are fresh. All calls are for one collection name; collections do not
share rows. A batch is not empty: the caller returns before the call when nothing was
produced. The display name, the embedding model and dimension checks and the media
references are left out: they only add ways to fail, or a field nothing else reads.
Readers are not modelled as processes: a read sees one committed state.

### StudyGraph

| Variable | In the code |
| --- | --- |
| `enabled` | `settings.reflection.enabled` |
| `node` | the node LangGraph is about to run; `end`, `raised`, `cancelled` are the three ways a request is over |
| `state` | `StudyGraphState`: the fields a router or a response reads, and the attempts of a running `generate` |
| `budget` | what is left until the deadline: enough for a second pass, too short for one, or nothing |
| `calls`, `verdict`, `rejected` | history: calls per service; what the grader accepted in this pass; all it ever rejected |

One action per outcome of a node: `RetrieveFinds`, `RetrieveEmpty`, `RetrieveFails` and
`RetrieveRaises` are the four exits of `_retrieve_node`, and so on. Each builds the
node's partial update, merges it into `state`, and lets the router of the next edge read
the merged state (`Ran`), as LangGraph does. That matters: a field keeps its value from
the first pass until the second pass writes it. `Tick` spends the budget, `Cancel` is
the `asyncio.timeout_at` of the handler. `Validate` resolves cited ids against the
context the way `_normalize_chunk_id` does, where `Extends` holds the pairs of an id and
a longer one that starts with it.

Abstractions: chunks stand for results; which ones a search finds, a grader accepts or
the packer keeps is chosen freely (the packer never keeps none without failing); text,
filters, prompts and telemetry are left out.

### AccountProvisioning

One action per statement of `get_or_create_user_for_identity`; `at[p]` is the next
statement of process `p`. `accounts`, `owner` and `verified` are committed rows, `wrote[p]` the
uncommitted writes of `p`. An insert or update that meets another transaction's
uncommitted row of the same key is not enabled until that one ends; an advisory lock is
held until the transaction ends (`Ends`: commit, reject, or a crash at any statement).

Abstractions: a user row is named by its email, which is unique and which nothing
updates. `Legacy` users exist without an identity, as seeded or older rows do. The md5
lock keys of different identities and emails are taken to be distinct (a collision would only make
two sign-ins wait for each other). Both the stub provider and external ones may be used
in one database. Identities without a verified email are turned away before this code.

### CollectionAccess

One action per database session of a request: reading overrides, reading domain rules,
signing in, renewing the membership, deciding. Between any two, operators may change an
override, the rules or a membership, and other requests of the same user proceed.
`named` and `withdrawn` record what happened during the request. Signing in is a single step,
which `AccountProofs!Implements` justifies. A rule's match against a domain is reduced
to its result, the set of communities with a matching active rule.

### Retrieval

| Variable | In the code |
| --- | --- |
| `collection`, `stored` | the committed row of one collection name, and its chunk rows, tagged with the write that stored them |
| `cache` | `PgSearchService._schema_cache` |
| `query`, `at`, `outcome` | a search, a study's search or a chunk's detail; its next statement; how it ended |
| `row`, `matched`, `candidates`, `scores`, `minimum`, `results` | what `search` has read and kept so far |
| `accepted`, `queue`, `packed`, `omitted`, `tokens`, `used` | `_pack_node`, `dedupe_parent_child` and the loop of `pack_chunks` |
| `shown` | the two rows `get_chunk_by_id` returns |

`GetSchema`, `LoadCollection`, `Select`, `Rank`, `Cut` are the statements and calls of a
search; `Grade`, `PackChunk`, `PackEnds` make a context of its results; `ReadChunk` and
`ReadParent` are the two selects of a detail. Between any two, `Index`, `Delete` and
`Calibrate` may write; the first two are single steps because `IndexProofs!Implements`
shows that the transactions behind them are. Only one request is modelled: requests share
nothing but the cache, and any number of them follow one another.

Abstractions: similarity is a number per chunk, a reranker returns any scores, a filter
is a field and the set of chunks that match it. A threshold of 0 stands for none. Text
has a length only; what truncation leaves of it may be any length up to its target.

### HttpRequests

`at[r]` is the await request `r` is in; a handler runs to its next await in one action,
as on the event loop. `late` are the requests whose deadline has struck, which only
studies have; `charged` and `counted` are what the limiter's backend knows, `allowed` its
decisions; `attempted`, `inserts` and `outcome` what the usage log was offered and took.
`Hit` and what follows at `stats` are the two calls of `check`, `LimiterFails` their
timeout or error. `HandlerTimeout` and `MiddlewareTimeout` are the two timers of a study,
`Deny`, `Refuse`, `Unexpected` the exits that log before they answer. `Slide` lets the
window forget hits at any time, so nothing rests on clock values.

Search, study and access checks are an outcome here: `Retrieval`, `StudyGraph` and
`CollectionAccess` model them.

### QuestionBody, PaperParsing

A line of MinerU's output is reduced to what the parsers' patterns tell apart: plain
text, a text with marks, a part's label, a question's heading, a blank, a cover or a
phrase line. A body maps positions in the content list to blocks, and a line is named by
its block and its place there, so a loop over lines is the set of places it visits and the
index of a line is how many it has come to (`UpTo`). `QuestionBody` translates the loops
that split a question: `Flatten` (the segments with text), `Starts` (the labels that are in
sequence: each is the next after those above it), `SubQuestion` (the text of a part),
`OwnerHint` (which part a figure is given to) and `LogicalSegment` (what a part displays:
the last label whose index has been `Reached`). The loops differ in which blank lines
they count: `Flatten` counts the blank items of a list, the display does not.

`PaperParsing` adds what is around them: the cover, repeated headers, the split into
questions for each parser, and the pipeline's chunks with ids, parents, marks, display
lines and media references. Questions are named by the position of the block that opens
them. Its actions let MinerU append any block to the content list (`Find`) and then parse
it (`RunPipeline`, or `Skip` where the parser raises or finds nothing).

`PartsAgree` and the display part of `MediaFollowsItsPart` speak of chunks that are
`InStep`: no blank item of a list stands in front of a label up to the one that ends the
part. After such an item the display lags behind the text, and nothing is claimed of the
parts that follow; what a part displays is never of an earlier part
(`ChunkProofs!PartLinesLag`).

### PaperFolder, ConvertPapers, SubmitPapers, IndexPapers, OperatorScripts

`pdf[f]` is the version of a PDF in the folder. `output` is what MinerU left per conversion
method, with the manifest beside it, `store` the artifacts in the object store;
`flags`, `plan`, `stage`, `todo`, `exit` are one run of `convert_papers`; `staged`,
`sent`, `trouble`, `step` one of `ingest_papers`. `Start` classifies every paper by what
it finds (`Classify`), `RunMineru` and `Collect` convert, `Upload` puts one object after
the other and writes the manifest last, `Finish` decides the exit code. A run may be
killed in any state (`Killed`, `SubmitKilled`), every put, message and batch may fail,
and between runs a PDF may be replaced by any other version, also by an earlier one
(`ReplacePdf`), the bucket exchanged (`Exchange`) or another script run. The method is an
argument of a run but read only where MinerU is called, so `RunMineru` chooses it. The exit
code of `ingest_papers` is kept until another script is run (`Elsewhere`).

`ExitTellsTruth` has one exception, which the code has too. `_classify_artifact_manifest_reuse`
compares the PDF with the *local* manifest and asks the storage only whether the objects
exist (`src/scripts/convert_papers.py:188-204`). An upload writes the stored manifest first
and the local one last (`src/src/ingestion/conversion.py:117-123`); cut off between the two,
by a kill or because the local write fails, it leaves the paper `Torn`. As long as the PDF
stays what it is, the next strict run notices, because the local manifest is of another
version or of fewer images. If the PDF is put back to the version of the local manifest
instead, the run says "reuse" and exits with 0, with the manifest and the content list of
the other version in the storage. The history variable `adrift` marks exactly the papers
replaced while torn, until the two manifests agree again or the storage is exchanged. For
them `StoredMeansCurrent` claims nothing; without the exception TLC finds the trace above in
23 steps. `UploadedMeansStored` and `ForcedMeansFresh` hold for them as well: all objects
that either manifest names are stored, and a forced run repairs the paper. A second gap is
left open by `ForcedMeansFresh`, which is about forced runs: without `--force` a manifest of
the new PDF may be put over the output of an older one that MinerU did not replace.

`IndexPapers` is `index_chunks_postgres`: `ReadOutput` makes chunks of every output that
parses and looks their figures up in the local manifests (`Mapped`); `Embed` sends one
batch of texts and takes any answer that `Accepted` lets through, in the order of its
indexes (`Ordered`); `Recreate` and `Insert` are the two transactions. `rows` are the
collection's chunks, each with the vector it was given. What makes a run raise is either
a guard (before anything is written) or `IndexEnds`. The two versions of a PDF share chunk
ids and the second has fewer, so rows of both can stand side by side. A manifest's
ownership is not checked again: only `convert_papers` writes manifests here.

## 3. Runs

| Run | Bounds | Shows |
| --- | --- | --- |
| `ingest_duplicates` | 1 job, 2 workers, 3 receives, 3 faults, 2 versions, 2 chunks | types, applied rows stay, no delivery vanishes, dead letters earned, media and manifests name stored objects only, refinement of `IngestPromise` (acknowledgement only after application) |
| `ingest_settles` | 1 job, 1 malformed message, 1 worker, 3 receives, 3 faults | every message leaves the queue; a job is acknowledged unless all its deliveries meet faults; SIGTERM ends a worker |
| `ingest_parse_failure` | 1 job, 1 worker | violated: a failed parse is acknowledged (finding) |
| `index_writers` | 3 calls, 2 chunks of 2 papers, 2 schemas, 1 community | types, no chunk without embedding, one schema per collection, refinement of `IndexPromise` |
| `index_community` | 3 calls, 2 communities | violated: a community is overwritten by another (finding) |
| `study_requests` | 3 chunks, one of them an id a model makes up; 1 repair | answers grounded in one pass, abstentions earned, calls bounded, every request ends, refinement of `StudyPromise` |
| `account_sign_ins` | 2 concurrent sign-ins of 2 subjects and the stub, 2 emails, 1 legacy user | no orphans, verified emails proved, refinement of `AccountPromise`, every sign-in ends, no deadlock |
| `collection_access` | 2 requests, 1 user, 1 email, 2 communities, a public and a private collection | access only on an affiliation named during the request, entitled users get in, listing agrees with authorization |
| `http_requests` | 2 requests of one user, limit 1 | no service unpaid or over the limit, an honest usage log, every operation past its body answered |
| `paper_parsing` | content lists of up to 4 blocks on 3 pages, 3 papers, 2 labels, 2 questions | text, display and marks of a part agree, figures go with their part, ids differ |
| `operator_scripts` | 1 PDF, 2 versions of 3 and 2 chunks that replace each other, 2 conversion methods, an image in one version, batches of 2 texts | exit codes tell the truth (but for a PDF put back over a torn upload), no staged paper is forgotten but by a run that failed or was killed, indexed chunks have their own vectors and stored figures |
| `retrieval` | 4 chunks of 2 papers, one with two parts; limits 1, 3, 4; cap 3; 3 writes | results obey the loaded schema, threshold and ranking; contexts keep the best of a family and the budget; a parent fits its chunk |

Why the bounds are enough. Overlap needs two deliveries of one job, which two workers
give; a third receive is the configured limit, so the redrive happens as deployed. Two
versions, one with fewer chunks, are what it takes for an upsert to leave rows behind.
The safety invariants of ingestion are also proved with no bound at all (section 5), also
for papers that share an artifact namespace, so the run only needs to be large enough to
fire every action and to test the temporal properties. All behaviours that TLC explores
are finite because receives, faults and jobs are bounded; versions may change back and
forth.

Three calls let one create the collection and two then race, or a call that deletes, one
that creates and one that replaces overlap. Calls are interchangeable, so `index_writers`
uses symmetry. The liveness of ingestion is checked with one worker, which is what the
deployment allows (`max_capacity` in `autoscaling.tf`).

A study request needs two chunks for a grader to accept one and reject the other, and
the third to be made up by the model. The lost-insert path of a sign-in
(`InsertConflicts`, `Reread`) needs a stub and an external sign-in for one email, which
two processes give; each waits for at most one lock or row while it holds others, so
two are also enough for the smallest circle of waits there could be. For access, one user
and two communities suffice because every rule of the code compares the affiliation with
one collection's community; two requests let one renew what the other reads.

Two requests and a limit of one make every contention for an allowance happen. Three
writes create, delete and create a collection again under one query, or create it,
replace a paper and move a threshold. Limit 1 is over-fetched threefold, limit 3 up to the
cap and limit 4 beyond it; of two parts one scores like its question and one can be
truncated, to one token over its budget. Four blocks hold a question with two parts and a
figure or a table anywhere between them, or two questions with a part, a repeated
header, a cover. The scripts treat each PDF by itself and only the exit code is about all of
them: for a second PDF it is a conjunction. Since versions change both ways, one image that
only one version has is both an image that comes and one that goes.

`CHECK_DEADLOCK FALSE` is set in the ingest runs (a settled queue with workers off has
nothing to do), in the index runs (ended calls have nothing to do, and until then a call
can always fail), in the study run (a request that is over has nothing to do), in
`http_requests` (all requests answered) and in `paper_parsing` (a parsed paper). The
account, access, retrieval and script runs check for deadlock.

Findings:

- `FailedNeverDeleted`. The repository's README says failed messages are never deleted by the worker.
  `run_pipeline` catches what a parser raises, indexing returns after a warning, and the
  message is deleted.
- `CommunityKept`. `index_chunks` refuses to move a collection to another community, and
  a test says so. The check looks at a row read earlier and the update goes by id: two
  calls that both read no community each set their own, the later over the earlier.

Smaller divergences met on the way are noted with the hazards they belong to: duplicate
delivery does not converge when the PDF shrinks in between (`pg_repository.py:229`), a
second search that finds nothing does not report the re-query (`graph.py:217`), blank list
items make the parsers' loops drift apart (`uoe_content_list_parser.py:645`), a cached
schema refuses filters that a recreated collection declares (`pg_service.py:70`).

## 4. Fairness

`FairSpec` assumes, and the code and the deployment justify:

- weak fairness of a live worker's own steps and of the handler's: the loop is a plain
  loop, and every call in it returns. MinerU runs without a timeout
  (`ingestion/conversion.py:72`); that it returns is an assumption, listed as a hazard.
- weak fairness of `Start`: autoscaling keeps the desired count at 1 while messages are
  visible or in flight (`infra/terraform/autoscaling.tf`).
- weak fairness of `ExpireVisibility`: a timer of the broker.
- strong fairness of `EnterReceive`: stops and crashes may strike again and again, but
  not before the first receive of every worker that is ever started.
- strong fairness of `Receive` and `DeadLetter` for each message: the broker does not
  pass one waiting message over forever, although each receive returns any of them.

Nothing is assumed of `Submit`, `ReplacePdf`, `Sigterm`, `Kill`, `Fail` or `ReceiveLost`.

`StudyGraph!FairSpec` assumes weak fairness of the graph's steps: each call a node awaits has a
timeout of its own or an answer. Time (`Tick`) and cancellation are not assumed, so the
graph ends by itself and not because the deadline stops it.

`AccountProvisioning!FairSpec` assumes strong fairness of the statements that wait for a
lock or a row, since PostgreSQL's lock manager queues waiters, and weak fairness of
the others. `CollectionAccess` and `IndexTransactions` make no liveness claim: a call of
`index_chunks` that fails is retried by the queue, which `IngestWorker` models.

`HttpRequests!FairSpec` assumes that the event loop runs what is ready and that its timers
go off: the limiter's timeout, the two deadlines of a study, and the steps that end a
request. It does not assume that a client sends its body, that the limiter's backend
answers or that the study service returns. No service is taken to raise a `TimeoutError`
of its own. `Retrieval`, `PaperParsing` and `OperatorScripts` make no liveness claim: a
search has no timeout of its own, and the scripts are run by hand.

## 5. Proofs

`IngestWorkerProofs` proves, for any sets of jobs, workers, papers, versions, runs and
chunks, any `MaxReceive > 0` and any `MaxFaults`, from `QueueAssumption` and
`WorkerAssumption` only:

- `TypeCorrect`, and every safety invariant of the run: `SearchableSafety`,
  `ArtifactSafety` (from `MediaSafety` and `ManifestSafety`), `DeliverySafety`,
  `DeadLetterSafety`, and two that no run repeats, `AckSafety` and `AcceptedSafety`;
- `Implements`: `Spec => KeepsPromise`, the refinement of `IngestPromise`.

None of the invariants is inductive. What makes an acknowledgement, a commit or a
manifest safe is how far the worker has come with the delivery it holds, so the
inductive invariant `IInv` adds: `WorkerInv` (each busy worker holds a delivery that was
handed out, knows a version from `Fetch` on, has finished as many upload stages as its
place says, and has applied something by `ddl` or `ack`), `StoreInv` (what
each delivery has stored so far is there: content-addressed objects exactly, the
content list only as "some paper's", since a paper sharing the namespace may replace
it), and `DeliveryInv` (every delivery before the current one met a fault unless the
message is gone; a dead message has had all its receives). The proof goes invariant by
invariant; frame lemmas (`Locality`, `QueueMoves`, `ObjectsMove`, `RowsMove`,
`DoneMoves`) state once what any step can do to each variable, so that each
conjunct has to look only at the actions that disturb it.

`IndexProofs` proves `Implements`, the type invariant, `EveryChunkEmbedded` and
`OneSchema` for any numbers of calls, chunks, papers, schemas and communities, from
`IndexAssumption` and `RecreateAssumption`. `DbInv` is what the database guarantees of
committed and uncommitted rows together: references resolve, keys are unique also
against other transactions' uncommitted rows, and nobody refers to what another is
deleting. Four lemmas show what an insert, a delete, a commit and a frame step keep of
it. `CallInv` says what a call knows at each statement: whose rows it has selected and deleted, that the
deletion of a chunk lags behind that of its embedding by one statement, and that at
`cleared` its collection is gone for it. From these, a commit of `recreate_collection` leaves no chunk
(every chunk refers to the collection it has deleted), and one of
`index_chunks` leaves exactly its batch replaced.

`StudyGraphProofs` proves `Implements` (`Spec => KeepsPromise`), the type invariant and every
safety property of `study_requests`, and three more (the safety net of the router is
unused, a failed answer shows sources, a response is final), for any finite or infinite set of chunks, any number of repairs
and any `Shown > 0`, from `StudyAssumption` and `ResponseAssumption`. The difficulty is
stale state: `IInv` says for each node which fields the current pass has written.
`CallsInv` ties the call counts to the node and the re-query counter, `EvidenceInv` ties
graded chunks, context and draft to the last search and its verdict, and `ResponseInv`
says what each kind of response was built from.

`AccountProofs` proves `Implements`, the type invariant, the two invariants of
`account_sign_ins` and that a user has one subject per provider, for any number of processes, subjects, emails and providers. `LockInv` says which locks each
statement runs under, `TxnInv` what a transaction has written and knows of its user, and
`DbInv` what the committed rows satisfy. The point of the argument: what a statement
has read (no identity, no user, no conflicting subject) stays true until the commit,
because any transaction that could falsify it needs a lock this one holds or waits for
its uncommitted row. The path without a conflict check (`Reread`) is safe because the
user that was in the way can only be a stub's: external subjects with that email are
kept out by the email lock, and a stub identity's key determines its email.

`CollectionAccessProofs` proves the type invariant and all four properties of `collection_access`
for any numbers of requests, users and communities. `RequestInv` says what a request
carries between sessions: its affiliation was named for its email during the request,
and past `membership` the membership is active unless it was withdrawn meanwhile.

`HttpProofs` proves `ServiceIsPaidFor` and `UsageLogSafety` for any finite set of requests,
any callers and any limit, from `RequestAssumption`. `PlaceInv` says what a request at each
await has been charged and allowed; `LogInv` who may already have logged it and what the
client can still be told; `LimitInv` that a window counts at most the limit, whatever it
forgets. A request that failed between the limiter's two calls may have been charged for
nothing, never the other way round.

`ChunkProofs` is about chunks from the content list to the answer, for `PaperParsing` and
`Retrieval` both: what they have in common is counting in a finite order. Six lemmas on
orders come first. How many members come before one is its rank, and the rank is a
bijection onto the numbers below the size of the set (`PlacesTaken`: it is injective, and
an injection into a set of the same size is onto). So every finite ordered set has a first
and a last member (`LeastAndGreatest`), and its first *n* members are *n* or all there are
(`PrefixSize`). This is how the module does without induction over data: where it would
induct, it takes the first place where the claim fails.

Of `PaperParsing`, for content lists of any length, any blocks, labels and bound on pages,
from `PaperAssumption` and `BlocksAssumption`:

- `OneReading`: the labels of a body can be read in one way only. The set that `Starts`
  chooses exists (`EveryLineRead`: otherwise there is a first line down to which the body
  cannot be read, and the reading down to the line above extends to it) and is unique (two
  readings would differ first at a label above which they agree).
- `PartsSafety`, `MediaSafety` and `FamilySafety`, the three invariants of the run.
  `ParseInv` is inductive: the content list consists of blocks MinerU may find, and the
  chunks are all made of it or there are none. The rest is about one body. The label a line
  has reached is never below it (`ReachedAreAbove`); with no blank item in front of the
  first *n* + 1 labels, segment *n* is part *n* (`SegmentsAreParts`), since the first label
  missed would be at most the next after those counted. A figure's owner is the number of
  labels above it, which is the part it stands in (`OwnersDisplay`).
- `BatchesAsAssumed`: what `RetrievalAssumption` asks of the batches that are indexed, a
  parent in the same batch that has none itself, is what the pipeline produces.

Of `Retrieval`, for any chunks, papers, scores, limits, caps and budgets, from
`RetrievalAssumption`:

- `ResultSafety` (`ResultsHonest`). `RankInv` says what a search knows after each of its
  statements: the filter is declared by the collection it has loaded, no more results are
  asked for than candidates are kept, the candidates are the nearest matches, and the
  scores of chunks no reranker has seen are the similarities. With `PrefixSize` the cut
  keeps exactly the limit or everything that passes, and what it drops is outranked.
- `ContextSafety` (`ContextFaithful`) and `DetailSafety` (`ParentFits`). The inductive
  invariant says which write each row stems from (a parent is never older than its part
  while both are of one collection), what is accepted and graded, and that the loop's
  chunks are split between the line, the context and the omitted ones. That of a replaced
  question a better part stays needs that questions are not parts themselves.

`OperatorProofs` proves `SubmissionSafety` (`StagedAndSent`) for any folder. Inductive is that
a paper between its put and its message is in hand and staged; every other way out of
that place records it.

It also proves `IndexSafety` (`IndexedAsWritten`) and `ExitSafety` (`ExitTellsTruth`), for any
finite set of methods, any images, chunks and batch size. A vector is its text's because
rows without a double index, as many as texts, are rows of every text (`EveryTextHasItsRow`,
the pigeonhole principle). Figures are stored because outputs only grow and a manifest is
put after all images of the one output there is (`FolderInv`, `UploadInv`): a manifest that
appears in an exchanged storage brings along whatever older rows refer to. What an
exit code says rests on `DriftInv`: a stored manifest comes after all it names, and while
it is torn from the local one and the PDF is the one it was put for, the local manifest
does not match the folder (`Matches`). So what is reused is uploaded or adrift
(`ReusedIsUploaded`), and during the upload every paper is left, failed or done (`LeftInv`).
That the PDF changes in any direction costs nothing but the exception: no order of versions
is assumed.

What the liveness properties rest on is proved as far as it is safety: that there is
nothing to wait for in a circle, and that every step leaves less to do.

- `StepsRunOut`: `StepsLeft` of a study request falls with every step, so it is over after
  at most `MaxRepairs + 12`. The graph has two cycles; a retrieve after a reformulation
  weighs less than one before it, and a generate less with every attempt.
- `NoDeadlock`: `Blocks` lists the five places where a sign-in waits for another. Who cannot
  go on waits for a transaction under way (`WaitsForOne`), who keeps another waiting has come
  further (`BlockerAhead`, from `HolderInv`: a lock is held by who has passed the statement
  that takes it), and at the last of the five places the other can only commit. So there is
  no circle among any processes (`NoCircle`). `SignInAdvances`: and nobody goes back.
- `RequestsAdvance`: a step of the HTTP service brings one request nearer to its answer, of
  which it is at most seven steps away, and leaves the others alone.
- `DeliveriesRunOut`: a message moves at most twice per delivery and settles after at most
  `MaxReceive` of them. `StopsAfterJob`: a worker that is to stop ends the job it
  is on, or one it is about to receive, and takes no other.

These are statements about every step a system takes; that it takes one, fairness assumes.

Every invariant and action property of the runs is stated by a theorem, the refinements
included. Model-checked only are the liveness properties (`EverySentJobSettles`,
`FewFaultsMeansAcked`, `SigtermStops`, `EveryRequestEnds`, `EverySignInEnds`, `Answered`):
they rest on fairness and on when actions are enabled, which is out of the prover's reach.

## 6. Not modelled

- Object store, providers, configuration, readiness, frontend: pure I/O or declarations.
  The models take any answer, delay or failure of a provider, and any failed put. Of the
  providers only the reading of an embedding answer (`VoyageEmbedder`) is modelled.
- Metadata schemas and rendering, prompts, excerpt blocks: mappings of text without state.
- The in-memory queue, which only tests and local development use.
- Migrations, evaluations, inspection scripts: one-shot reports and declarations.
- In `main.py`: health and readiness, media delivery, start-up and shut-down.
- In the parsers: titles, HTML of tables, the words that patterns look for, the segments
  file. In indexing: display name, model and dimension checks, the ownership of manifests,
  the form of media references.
- Message retention (four days), against minutes for every other step of the queue.
- Stores that lose what they confirmed (PostgreSQL, the object store, the broker): failed
  calls are modelled, lost confirmations are not.

## 7. State of the plan

Done: ingestion, study graph, index writers, accounts, access, HTTP layer and rate
limiter, retrieval and packing, parsing, operator scripts, all as planned, and proofs for
all of them. Worth adding next: a second reader process in `Retrieval`, should the cache
ever be invalidated; `index_chunks_postgres` beside a running worker; the segments file of
the parsers.
