# SecureRAG EvalOps in TLA+

This directory holds a formal model of the server in `src/app`: TLA+ modules
translated from the Python source, configurations that model-check them with TLC
on small instances, and theorems about them, for every value of their constants,
checked by TLAPS. `PROJECT.json` maps each definition to the lines it models and
lists runs, mutants, findings, hazards and theorems.

    tlc -config MCCorpus.cfg MCCorpus.tla            # one run
    tlapm CorpusProofs.tla                           # one module's proofs

## 1. The system

FastAPI handlers run as coroutines of one event loop (or of several processes).
Each request has one SQLAlchemy session, hence at any time one PostgreSQL
transaction at READ COMMITTED; Qdrant (vectors) and Redis (embedding cache, rate
limit) take part in no transaction. Handlers interleave at every `await`, and
meet only through the three stores.

| Component | State | Operations | What is hard | What makes it correct |
| --- | --- | --- | --- | --- |
| Ingestion (`ingestion/pipeline.py`, `vector_store.py`) | collections, documents, chunks (PostgreSQL); points (Qdrant) | `POST /ingest` | check-then-insert races decided by unique keys; a Qdrant write in the middle of a transaction; failure anywhere | content stored once; every stored reference resolves; what the index holds is explained |
| Removal and retention (`routers/documents.py`, `core/audit.py`) | the same, `retention_days`, audit events | `DELETE /documents/{id}`, `POST /documents/cleanup`, `POST /collections`, `POST /collections/cleanup` | vectors go first and rows last; overlapping removals; retention read before it is changed | stores and audit log agree; nothing comes back; nothing expires early; no upsert is lost; only authorised removals |
| Graph memory (`memory/graph.py`) | entities, mentions, relations | indexing inside an ingest; `graph_search` inside a query | shared entity rows: lock cycles and lost races between ingests | mentions refer to entities of their own namespace |
| Chunker (`ingestion/chunker.py`) | a token buffer, the chunks so far | `chunk_pages` | overlap arithmetic, oversize segments among small ones | no token but white space lost, overlap and size bounded, indexes distinct |
| Query (`routers/query.py`, `retrieval/`, `guardrails/`, `tracing/cost_tracker.py`) | guardrail and cost events | `POST /query` | one Qdrant read and several SQL reads at different moments, while the corpus changes; commits along the way | cites nothing removed, stays in its namespace, checks what it uses, accounts for what it returns |
| Rate limiting (`core/security.py`) | a Redis counter per client | every request | INCR and EXPIRE are two commands | bursts bounded, the limit lifts unless a request dies between the two |
| Evaluation (`evaluation/`, `routers/eval.py`) | runs, results | `POST /eval/run`, reports | five samples at a time on one session; the first failure ends the request and not the samples; reports by time window | runs are visible only whole, load is bounded, connections come back, reports agree |
| Authentication, authorization (`core/auth.py`, `core/authz.py`, `scripts/create_api_key.py`) | users, keys, access rows | bearer keys, `require_read`, `require_write` | key, user and permission are read one after the other and upserted from earlier reads, while operators withdraw them | served with granted rights only; no grant or withdrawal is lost |
| Ranking (`retrieval/retriever.py`, `memory/graph.py`) | none | `hybrid_rank`, `merge_graph_chunks`, `rerank_mmr` | three overlapping lists with scores of their own, cut and merged in turn | the context is full, and better chunks come first where two fusions can tell them apart |
| Embeddings (`ingestion/embeddings.py`, `vector_store.py`) | cached query embeddings (Redis); the size of the collection (Qdrant) | a query's embedding, `ensure_collection` | neither store knows which model a vector is of, and processes change models one by one | old embeddings die out; stored documents with text stay indexed |
| Graph explorer (`routers/graph.py`) | none | `GET /graph` | entities, relations and again entities are read in separate statements while the corpus changes | edges end at nodes, rest on evidence that was there, and seeds stay |
| Metrics, audit listings | none | one read each | - | - |
| Parsers, UI, migrations, settings, health, tracing, CLI | none that lasts | conversions, wiring | - | - |

## 2. Modules

| Module | Models | Composes |
| --- | --- | --- |
| `Corpus` | all handlers that change documents, collections, entities, vectors and audit events | |
| `Ledger` | what the document API promises its clients: one atomic step for each request | |
| `CorpusLedger` | the refinement mapping from `Corpus` to `Ledger` | `Corpus`, `Ledger` (INSTANCE ... WITH) |
| `CorpusProofs` | theorems about `Corpus`, and that it implements `Ledger` | `CorpusLedger` |
| `Access`, `AccessProofs` | `get_current_user`, the namespace check, `create_api_key`, and operators who withdraw what was granted | |
| `Chunker`, `ChunkerProofs` | `chunk_pages` | |
| `Ranking`, `RankingProofs` | from three lists of search results to the context | |
| `Embeddings`, `EmbeddingsProofs` | which model query embeddings and points are of, across restarts | |
| `RateLimit`, `RateLimitProofs` | the rate-limit middleware with Redis | |
| `CorpusReads` | what read-only requests share: read access, what a SELECT sees, stored relations | `Corpus` |
| `Query` | `POST /query` | runs beside all of `Corpus`, over `CorpusReads` |
| `GraphExplorer` | `GET /graph` | runs beside all of `Corpus`, over `CorpusReads` |
| `ReadsProofs` | theorems about both, among them that they leave `Corpus` undisturbed | `Query`, `GraphExplorer`, `CorpusProofs` |
| `EvalRun`, `EvalRunProofs` | `POST /eval/run`, its samples, the session they share, reports | |
| `MC*` | instances for TLC | |

### Corpus

A request is a member of `Req` whose `call` says what it asks and whose `pc` says
which `await` its handler is at. One action is the code between two awaits at
which another request can make a difference:

* ingest: `FindCollection`, `AddCollection` (flushed INSERT), `CheckDuplicate`,
  `EnsureIndex`, `CreateIndex`, `InsertDocument` (flushed INSERT),
  `UpsertVectors`, `FindEntities`, `InsertEntity` (one for each INSERT of the
  final flush), `CommitIngest`;
* removal: `LookupDocument`, `SelectExpired` or `SelectMatching` fixes the targets,
  `PurgeVectors` removes the vectors of one of them, `CommitRemoval` deletes all
  rows and writes the audit event;
* `ReadCollection` and `CommitRetention` for the upsert of a collection.

Uncommitted rows are kept apart (`newColl`, `newEnts`, documents in state
"pending"). A unique key is a guard: an INSERT waits while another transaction
holds the key uncommitted and fails (`Conflict`) when it has been committed since
the request looked. `docState` follows a document id: unused, pending, live, and
then aborted or deleted for ever. A document stands for its chunks, mentions and
relations, which are written and removed with it; entities stay. `Fail` ends a
request at any point: the transaction is rolled back and what Qdrant was told
stays. A request that never goes on (a dead process) is a behaviour of `Spec` too,
and one whose Qdrant call took effect before it timed out is a `Fail` after the
action. `DeadlockVictim` is PostgreSQL's detector. Time is a number of days; the
age filters compare it. `Found` are the collections that are there at the start,
with the retentions they were given before.

A file without text (white space, a scanned PDF; `Blank`) has no chunks:
`chunk_pages` returns an empty list, the loop of `upsert_chunks` runs zero times, and
the document is committed and reported as completed without a point, a chunk or a
mention. No search ever finds it, and later uploads of the file are skipped as
duplicates. So `IndexedUntilPurged` and, in `Embeddings`, `StoredIndexed` speak of
documents that have text; such a document is committed under any model, since no size
is checked either.

`NeverExpiredEarly` judges a cleanup from its SELECT on: each document it has selected
has outlived the retention in force, unless an upsert of its collection was committed
after the selection. `known` is history: what was in the audit log at the SELECT.

Left out of `Corpus`: the row locks of DELETE and UPDATE statements that
SQLAlchemy may flush before the commit. They delay requests, and can make two bulk
removals a deadlock of which one fails; both are behaviours the model has anyway
(a request may pause or fail at any point), but no liveness is claimed for
removals.

### Ledger

In `Ledger` a request is answered in one step, which does everything it will ever do
to files, retentions and the audit log (but for an upsert with nothing to change, see
below); there are no transactions, no vectors and no
failures half way. `CorpusLedger` maps `Corpus` to it:

| Ledger | Corpus |
| --- | --- |
| `answer[r]` | `pc[r]` once the handler has ended, "none" before |
| `file[d]` | the namespace, collection and content of a document that is or was committed |
| `removed` | the documents whose deletion is committed |
| `retention` | the committed collections |
| `log` | the requests with a committed audit event |
| `settled` | upserts that are to commit the very retention they have read |

Every step of a handler that ends it is a step of the ledger; the others, with the
passing of days, are stutters. What the ledger allows is part of what the refinement
says. A removal may take a document that another removal has taken already (`InReach`
does not ask for `Stored`), because both may have read it before either committed; both
are then in the log. An upsert that reads the very value it is to set takes effect then
and there (`Settle`), because SQLAlchemy sends no UPDATE for it: another upsert that is
committed before this one is answered comes after it. Every other upsert sets its value
in the step that answers it (`SetRetention`), so none is lost. A file is skipped only
while its own namespace has its content.

### Access

A script (one run of `create_api_key`) is one transaction: `ReadUser`, `WriteUser` (the
flush of an INSERT or UPDATE of the user, which waits for the row), `ReadAccess`,
`Commit`. It makes one key, so keys are named after scripts. SQLAlchemy sends an UPDATE
only for a column that differs from what was read; `Writes` and `NewPermission` say so.
A request authenticates in three statements and one commit (`FindKey`, `FindUser`,
`TouchKey`), then its handler checks its permission (`Authorize`). The API has no way to
revoke a key or deactivate a user, but reads `revoked_at` and `is_active`: `Revoke` and
`Deactivate` are an operator's UPDATEs of these. `Deactivate` is not repeated and
nothing reactivates, as no code does. `localDev` is the exemption of local development.
`since`, `withdrawn` and `before` are history.

What was withdrawn before a request arrived is never honoured; what is withdrawn while
it is being authenticated, or later, while its handler works, may be (`ServedRightly`
compares with `before`). Granting the same user twice gives both keys what the later
script says, since permissions belong to users and not to keys.

### Chunker

State is that of the function's loops; the document and `chunk_overlap` are its
arguments, chosen by `Init`. A token is named by its place (page,
segment, position), so the properties can tell which text a chunk holds; the
tokens of a separator are all alike. `blank` says which positions are white space, at
neither end of a segment. A chunk has its tokens, which `token_count` counts, and its
`text`: what `strip` leaves of them (`Stripped`). Left out is what tokens stand for: that
decoding a window which parts the tokens of one character gives replacement
characters, and that `strip` takes the space in front of a word, which is part of the word's
token. Segments have any length up to more than two
chunks; the regular expressions that find them are the input.

### RateLimit

Clients have keys of their own, so one client is modelled, with several requests
in flight. `count = 0` is a missing key; `expiry` counts ticks. `counted` is history:
when INCR counted each request in flight, in ticks and in lives of the key, or `LongAgo`
if that is a window or more. `admitted` is history too: the requests that `Decide` has let
through and INCR has counted within the last window, each with the number it got. A
request may be counted and then held up (by EXPIRE, or by closing its connection) for
longer than a window before it is let through. So `BurstBounded` is about the
requests counted in a window: at most twice the limit of them is let through in it. What
goes through besides was already under way when the window began. The counter is capped at
`MaxCount`, above the limit, beyond which its value makes no difference. `Limit > 0`:
zero switches the middleware off.

### Query

`QuerySpec` is the interleaving of queries with every step of `Corpus`. A query's
actions are its reads and commits in order; what scoring would choose is any
choice of at most `TopK` documents (`Best`), since the k best chunks may come from
one document or from k. `found`, `related` and `context` are its local variables;
`events` and `costs` are committed rows. `removedBefore` is history. Either
generator may return an answer whose citations do not validate, and text with PII.

### Ranking

The three result lists are inputs, chosen by `Init` from scores: cosines, BM25 and graph
scores of each chunk. Chunks without a point, as a removal under way leaves them, have
no cosine; all of them may be, and then the vector search finds nothing. A graph score
grows with the number of related entities in a chunk (`Mentions`). Fused scores are
rational numbers; since their denominators are known (`max_vector`, `max_lexical`, 20)
the module computes with exact integer multiples. `score` is the `score` field of the
chunks returned last, which the next step adds to or sorts by. Python's sort is stable,
and so is `Sorted`: an element's place is the number of those ahead of it (`InOrder`). A
chunk keeps its vector only when it came through the vector search; if one in the merged
list has none, `rerank_mmr` just sorts (`SortByScore`); otherwise it selects one chunk a
round (`SelectBest`), where how alike two chunks are is open.

One would expect of any fusion of rankings that a chunk which no search finds worse than
another, and one finds better, comes before it. The code does not promise as much.
`BetterFirst` says it of a chunk that the vector or the lexical search finds better
(`Beats`), under conditions without which TLC refutes it. When `hybrid_rank` cuts both
chunks, `merge_graph_chunks` knows only their graph scores: if these are equal, the
worse one may come first, so there the graph score must be the larger one. The others
are about cosines. `hybrid_rank` divides cosines by the largest one: if that is
negative, the order of the vector results is turned round. And if it is small, a chunk
with a negative cosine gets a large negative part and ends behind one that the vector
search did not return at all, or that was cut and so has lost its own negative part.
With hashed embeddings, whose signs are arbitrary, both can happen for a query that
shares no word with the corpus.

### Embeddings

Each process runs with the model its settings name; `Restart` gives an idle process
another, one process at a time, as a rolling restart does. The cache key in Redis
names the text only, so a process may read an embedding another model has made;
`StaleBounded` bounds for how long after the last process with that model has stopped. A
query that reads the cache, embeds and then writes it (`GetCached`, `EmbedQuery`,
`SetCached`) is three awaits. `CheckCollection` takes a collection that exists as it
is: an ingest under a model of another size then fails at `Upsert`, and goes on failing for
as long as the collection exists. README.md:109 says to "re-ingest documents so the
Qdrant collection matches the new vectors"; by itself that does nothing, since
`FindDuplicate` skips what is stored, and removing the documents first leaves the size of
the collection as it was. `StoredIndexed` says the good side of this: no
restart takes a stored document that has text out of the index.

### GraphExplorer

`ExplorerSpec` is the interleaving of requests for a view of the graph with every step
of `Corpus`. `FindSeeds`, `ReadEdges` and `ReadNodes` (or `ReadBareNodes`, when a
namespace has no relations) are the SELECTs of `get_graph`, each of which sees what
is committed then. An entity's id is named by its namespace and name; a client may
give any id, so one of another namespace is among the inputs. Several relations may
have the same ends and document: `Best` lets them use up the limit, which is why its
size is "at most". `unmentioned` are nodes with a `mention_count` of 0, the one figure
in which the node query and the edges can contradict each other. `gone` is history.
No code deletes a row of `entities`, although docs/ARCHITECTURE_DEEP_DIVE.md:17
calls the graph memory "removable with document deletion"; that a node read later is
still there depends on it (`EntitiesStay`).

### EvalRun

A run has a handler (`Authorize`, `FlushRun`, `Gather`, `Complete`, `CommitRun`) and
one task for each sample of its dataset (`Acquire`, `SearchTables`, `FinishSample`).
`asyncio.gather` raises the first exception and neither waits for the other tasks nor
cancels them: `FailRun` is enabled as soon as one sample has failed, closes the
session, and leaves the other tasks where they are. A closed `AsyncSession` is not
unusable; the next statement of such a task takes a connection of the pool again, and
only `Collect`, the garbage collector, gives it back when the last task has ended.
`conn` is the set of sessions that hold a connection, `PoolSize` bounds it, and
`PoolTimeout` (or `FailSample`, for a task) ends the wait for one. SQLAlchemy may
refuse two tasks on one session at the same time; that is a `FailSample` too.
`CommitRun` may lose its answer: the row is there and the request has failed.

`now` counts timestamps, so they are distinct and increase, as with one clock that
is finer than the time between two statements; with several server processes this
assumes that their clocks agree. The vector
search, the generator and the scores of a sample touch nothing that is modelled. The
dataset is a constant of each run; `load_jsonl_dataset` may fail (`FailRun`). Other
requests take no connections in the model: they would only delay a run or let it
time out, which `FailRun`, `FailSample` and `PoolTimeout` already allow.

A report reads its run, then results, guardrail events and cost events, in four
statements at different moments. `get_run`, `get_results` and `get_failures` make
the first two of them. `earlier` and `flying` are history.

## 3. Runs

Three requests reach every conflict between two handlers while a third removes,
fails or holds a lock they need. Two
contents, collections, entities and namespaces are needed to tell "the same" from
"another" in each key; more are symmetric. A model value of `Req` or `DocId` may be
permuted where no call names it (`SYMMETRY`, never in a run with a liveness
property).

| Run | Instance | Shows |
| --- | --- | --- |
| `corpus` | 3 requests over ingest, delete, both cleanups, preview and upsert; 2 ids, namespaces, collections, entities and callers, 2 contents with text and 1 without; one day passes; no collection at the start, or one with a retention of 0 days, which upserts raise or lift | `UniqueContent`, `ReferencesResolved`, `VectorsExplained`, `IndexedUntilPurged`, `RemovalsAuthorised`, `RemovalsAudited`, `NeverExpiredEarly`, `LedgerImplemented`, types |
| `corpus_liveness` | 3 ingests competing for 2 entities, under `FairSpec` | `RequestsAnswered` |
| `chunker_pack` | chunk size 4, overlap 0 and 2, separator 1; every page of up to 4 segments, every pair of one-segment pages, lengths 1 to 9; white space nowhere, at position 2, or also at 5 to 8 | `TextCovered`, `OverlapBounded`, `NothingRedundant`, `IndexesNumberChunks`, `ChunksBounded` |
| `rate_burst` | limit 2, window 3 ticks, 3 requests in flight, 1 death, under `FairSpec` | `BurstBounded`, `ExpiryOwed`, `WindowFixed`, `LimitLiftsUnlessDied` |
| `access` | 3 scripts for one user, each granting read, or write with the superuser flag; 1 request with one of 5 needs, with a key or without | `ServedRightly`, `GrantsCurrent`, `WithdrawalsLast` |
| `ranking` | 4 chunks of which any number have a point, cosines -2 and 1, BM25 scores 0 and 1, graph scores of 0 or 2 mentions with and without evidence, top_k 2 and 3, MMR_K 2 | `ContextFull`, `BetterFirst` |
| `embeddings` | 2 processes, 2 models of different sizes, 2 clients that ask one text again and again, 2 ingests, each of a content with text or of one without, TTL 2, 2 ticks | `StaleBounded`, `StoredIndexed` |
| `query_beside` | 1 query beside 3 requests (ingests in 2 namespaces, deletes) | `CitesNothingRemoved`, `QueryIsolation`, `GuardrailsHold`, `AnswersAccounted` |
| `graph_explore` | 1 view in each mode, of an entity that exists, may exist or is another namespace's, limit 1, beside 3 requests (ingests in 2 namespaces, deletes) | `EdgesExplained`, `EvidenceCurrent`, `SeedsKept` |
| `eval_reports` | 1 run, datasets of 0, 1 and 2 samples, one connection; a guardrail event of its namespace, one of another and a cost event; 2 reports | `RunsWhole`, `ReportsAgree`, types |
| `eval_pool` | 2 runs of up to 3 samples, semaphore of 2, one connection, under `FairSpec` | `LoadBounded`, `StraysExplained`, `RunsAnswered`, `SamplesEnd` |

Three scripts are what it takes for a key to be used while its user's rights are being
replaced twice. Two users suffice, since rows of different users never meet. Four chunks
with a top_k of 2 make each list cut one off, also in the merge, and let `hybrid_rank`
cut two that the graph search has found. A cosine of 1 and one of -2 have both signs,
and the negative one weighs more than a BM25 score can make up for. Two processes are an
old and a new one during a restart; a TTL of two ticks is enough to renew an entry
before it expires.

Three samples and two permits make a sample wait while one fails and one goes on;
two runs and one connection make a run wait for another's samples. Two reports are
what `ReportsAgree` compares.

A limit of 1 is the smallest that cuts a search or a list of edges off before its end,
and one view suffices, since views share nothing. Two ids and three requests let the
document behind an edge be removed, and another that mentions the same entity be
ingested, between two reads.

Segment lengths 1 to 5 and 9 with a chunk size of 4 are: fits several times, fits
exactly, one too many, more than two windows. White space at 5 to 8 fills the second
window of a long segment, and the end or start of the ones beside it, with every overlap.

Deadlock is checked in every run. `Quiet`, `Done`, `AllEnded`, `ViewsEnded` and
`AllQuiet` let a finished instance stutter; no other state is without a successor.

### A run that ends in a counterexample

`rate_stuck` checks `LimitLifts`: .env.production.example:29 sets a limit per minute. A
request that dies between INCR and EXPIRE leaves a key without an expiry; no later
request sees the count at 1, and once over the limit the client is refused for good.

### Where documents and code differ

What the models show beside it, without a run of its own:

* README.md:97 and docs/ARCHITECTURE_DEEP_DIVE.md:41 say destructive actions are in
  the audit log. The vectors are removed before the audit row is committed
  (`PurgeVectors` before `CommitRemoval`), so a failure between leaves documents without
  vectors and no audit event. `IndexedUntilPurged` names exactly these documents;
  `RemovalsAudited` holds because rows and audit event commit together.
* docs/ARCHITECTURE_DEEP_DIVE.md:25 says invalid citations "fail closed". The query
  endpoint returns the answer with `citation_error` beside it (`Generate`, `RedactAnswer`).
* README.md:109 on changing the embedding model: see Embeddings above.
* docs/ARCHITECTURE_DEEP_DIVE.md:17 on removable graph memory: see GraphExplorer above.
* A chunk may hold more than `CHUNK_SIZE` tokens, by up to the overlap and a separator
  (`ChunksBounded`). The test `test_chunker_respects_token_budget` chunks one long line,
  which is cut into windows only.

### Fairness

`Corpus!FairSpec` has weak fairness of each request's steps and of the deadlock
detector: the event loop resumes a coroutine whose await has returned, PostgreSQL and
Qdrant answer or fail, PostgreSQL grants a released lock, and its detector runs after
`deadlock_timeout`. Failures and the passing of days are not fair. `Access`, `Ranking`,
`Embeddings` and the ledger state safety only and assume no fairness.
`RateLimit!FairSpec` has weak fairness of the clock and of each request's steps after
its INCR; clients need not send anything. `EvalRun!FairSpec` has weak fairness of each
handler's steps and of each task's steps, or of their failure instead: every await of
theirs (Redis, Qdrant, the model, the pool) returns a result or an error. Which of the
two is never assumed, nor that the garbage collector runs.

That every await returns is an assumption about the environment. The pool and the HTTP
clients have timeouts of their own, but `Redis.from_url` (core/dependencies.py:29,
core/security.py:37) is given none: with a Redis that accepts a connection and never
answers, a request waits for ever, and neither `RunsAnswered`, `SamplesEnd` nor
`LimitLiftsUnlessDied` says anything about it.

## 4. Proofs

All proofs are of safety, for any number of requests, documents, namespaces, entities,
callers and any data, from the named assumptions on the constants (`CallsAssumption`,
`DataAssumption`, `NullAssumption`, `ReadsAssumption`, `QueryAssumption`,
`ExplorerAssumption`, `ChunkerAssumption`, `RateAssumption`, `EvalAssumption`,
`RankingAssumption`, `EmbeddingsAssumption`, `FileAssumption`, and `Grants`-, `Asks`-,
`Dev`-, `Kind`- and `NoneAssumption` of `Access`).

**Corpus.** None of the properties is inductive by itself; the strengthening is
built in layers, each proved from the ones before:

1. `Types`: `TypeOK`, and `Control`: what local variables hold at each `pc`.
2. `Lives`: `Owned` - a pending document belongs to exactly the ingest that will
   commit or abort it - and `Selected` - the targets of a removal were live when
   selected and lie where its caller may write. `RemovalsAuthorised` and
   `UniqueContent` follow; the latter because an ingest inserts only when no
   pending and no live row has its content.
3. `Stored`: which documents have points, by state and by how far the owning
   ingest or the purging removals are: `VectorsExplained`, `IndexedUntilPurged`.
4. `RemovalsAudited`, with `NoResurrection` from the invariants so far.
5. `Collected`: an ingest past its SELECT holds its collection uncommitted or the
   collection exists. `RetentionSticks`.
6. `Resolved`: an ingest that is past its SELECT of entities misses, has inserted or
   finds committed each entity it mentions. `ReferencesResolved`.
7. `Timely`: each target of a retention cleanup has outlived the retention in force, or
   an upsert of its collection was committed after the selection; and what the cleanup has
   seen audited stays audited. Only an upsert changes a retention, and is audited in that
   step (`RetentionSticks`). `NeverExpiredEarly`.

**Ledger.** `LedgerIsImplemented` maps each action of `Corpus` to an action of `Ledger`
or a stutter under the mapping above. The invariants of `Corpus` are what makes it go
through: a file is stored under an id nothing has used, and not a second time, by
`Owned` and `UniqueContent`; a skipped file is known *at the step that skips it* since
the SELECT is the last thing that request does; a removal's targets lie in reach by
`Selected`, although it selected them many steps before it commits, and `Remembered`
adds that they are what its call asked for; an upsert that reads its own value is
settled in the step in which it reads; `Collected` explains why an ingest finds its
collection there, or inserts it, in the step in which it commits.

**Access.** Three layers over `Types`. `Granting` relates what a script has read to what was
committed when it began and since: as long as it holds its user's row nobody else changes it,
and a value it does not write again is one that a newer script has written
(`GrantsCurrent`). Revocation and activity are only ever written by
operators (`WithdrawalsLast`). For a request, `Known`, `Backed` and `Sound` say what has been
established at each `rpc`: the key is committed and was not withdrawn on arrival, then
its user too, and the superuser flag it has read was granted by a committed script
(`ServedRightly`).

**Query.** `CorpusUndisturbed` maps each step of the composition to a step or a
stutter of `Corpus`, so the layers above hold beside queries. `Retrieved` then says
of what a query has found so far that none of it was removed before it arrived and
all of it is of its namespace; the first part rests on `Stored`, since the vector
search sees only points. `Checks` relates the stage of a query to what was checked
and recorded.

**GraphExplorer.** `CorpusUnseen` is the same fact for views. `Explored` adds `Viewed`
to the properties: each edge read so far was committed when it was read, so its
document has at most been removed since (`DocumentsKept`) and its ends are entities
still (`EntitiesStay`). That they were entities then is `ReferencesResolved` of
`Corpus`. Hence `ReadNodes` finds both ends of every edge, and, while the document
stands, a mention of each.

**Chunker.** `Packed` bounds the open buffer as well as the chunks, and relates the
index to their number. `Gathered` is about the text. What has been read so far (`Read`,
up to the window `Cut` has reached inside an oversize segment) is what the chunks and
the buffer hold together, which is all of it at the end; and `TextStripped`, that each
chunk's text is its tokens stripped, makes it the texts but for white space
(`TextCovered`). A buffer shares at most `chunk_overlap` tokens with the last chunk, all
at its start (`SharesOverlap`), and is fresh: it holds a token no chunk has, since it is
opened with the overlap *and* a segment that has not been read before. So whatever it
becomes a chunk with keeps `OverlapBounded` and `NothingRedundant`. No induction over
the document is needed: the loops have done it.

**RateLimit.** `Ownership`: at most one request in flight has found the key new
while it still needs an expiry, and none has while the key has one or is missing.
It speaks of which request, since a count of them would not be inductive.
`Admissions` names a request by the life of the key and the number INCR gave it, those
let through and, since it takes them time, those that may yet be (`Pending`): no two have the
same name, the number is at most the limit, and, since whoever was counted in the last life
was counted longer ago than what has passed of this one, no third life is in the window.
Names are `{0, 1} x 1..Limit`, hence `BurstBounded`.

**Embeddings.** `Sound` is two arguments. `Dated`: a model that runs has a `lastRun` of
now, so what is cached expires within a TTL of the `lastRun` of its model, also when it
is cached after a restart has begun elsewhere, since the process that writes it still
runs with that model (`StaleBounded`). `Sized`: once there is a point, the collection
has the size of its model, and an ingest that has text writes points of its size or
fails before it commits (`StoredIndexed`).

**Ranking.** `InOrderSorts` is what a sort is: if "ahead of" is a strict total order on
a finite set, the number of those ahead of a member differs from member to member, hence
these numbers are all of `1..n`. From it follow, for lists of any length, that `Sorted`
keeps what a list holds, puts larger scores first and leaves equal ones in order
(`Stable`), that `Combined` of two lists without repetitions has none, and that a cut
keeps the start. `Ranks` then says that each list is the longest possible start of what
it was made from (`Best`), with the scores it was sorted by. The sizes give
`ContextFull`; the only step that is not arithmetic is `CutTwice`: what `hybrid_rank`
cuts off cannot be missing after the merge, since the list was full without it. For
`BetterFirst`, a cosine above 0 makes all weights positive (`Weights`), so a chunk that
beats another has the larger score in `hybrid_rank` and is not cut before it. If it was
kept, its score in the merge is the larger one again. If it was cut, so was the other:
the graph search must have returned both, and found it better.

**EvalRun.** `Typed` adds to the types that permits left and samples in work always
make `Permits`, that no task exists before its `Gather`, and that a report past
`FindRun` is about a committed run; `LoadBounded` follows. `Whole` says how far the
handler is when its run is dated or committed (`RunsWhole`). `Scattered` says that a run whose
results are all there, or whose failure was no sample's, has no task left in work: so
only a run with a failed sample has tasks that could take a connection after its end
(`StraysExplained`). `Reported` orders the timestamps, and says of each report that
it has every event that was committed when it began and none that was not yet stamped
at the end of its run; the window is closed because a committed run has a
`completed_at` (`ReportsAgree`).

Every invariant and action property the runs check is proved, and the refinement of
`Ledger`. Only model-checked is liveness (`RequestsAnswered`, `LimitLiftsUnlessDied`,
`RunsAnswered`, `SamplesEnd`), which is out of the prover's reach.

## 5. Not modelled

* What regular expressions, hashing, tokenization and BM25 compute: constants
  or choices.
* Outside `Access`, permissions are constants: the requests of `Corpus`, `Query` and
  `GraphExplorer` have been authenticated, and check a table that stays.
* Clients of Qdrant and Redis, one of each per request, which nothing closes
  (`core/dependencies.py:25`): sockets of libraries.
* Reads that change nothing and combine nothing (listings, metrics, health), the
  UI, parsers, logging, settings, migrations, clients.
* The capacity of the SQLAlchemy connection pool, except in `EvalRun`.
* The scores of evaluated samples and the figures and Markdown of reports.
* Which namespace a sample of a dataset reads from. `run_eval` checks the namespace of
  the request; `_evaluate_sample` (evaluation/runner.py:51) retrieves from the one the sample
  names. `EvalRun` does not model what a sample reads, and nothing here is claimed about
  it.

## 6. Plan

1. A ledger for queries, whose answers cite only files of it, with its refinement.
2. `Metrics`: percentiles, failure classification and the scores of `evaluation/`, as pure
   functions against reference definitions.
3. `Access` composed with `Corpus`, so that what a handler does after its check is
   related to what has been withdrawn since.
