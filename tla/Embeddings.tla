----------------------------- MODULE Embeddings -----------------------------
(***************************************************************************)
(* Which embedding model a vector comes from.  Server processes are        *)
(* restarted one by one with other settings (EMBEDDING_PROVIDER, the model *)
(* of Ollama, EMBEDDING_DIMENSIONS) while they share a cache of query      *)
(* embeddings in Redis, whose key names the text alone, and a collection   *)
(* in Qdrant, whose size is that of the process that created it.           *)
(*                                                                         *)
(* Of ingestion only what concerns vectors is here; Corpus has the rest.   *)
(***************************************************************************)
EXTENDS Naturals, Functions

CONSTANTS
    Process, Model,
    Size,           \* EMBEDDING_DIMENSIONS that goes with a model
    Ask, Text,      \* clients that ask, each its text, again and again
    Ingest, Content,\* ingests, and the documents they make, of contents
    Blank,          \* contents without text, hence without chunks
    None,
    TTL,            \* 300 seconds
    MaxClock

ASSUME EmbeddingsAssumption ==
    /\ Size \in [Model -> Nat] /\ None \notin Nat
    /\ Ask \cap Ingest = {}
    /\ TTL \in Nat /\ MaxClock \in Nat

VARIABLES
    now,
    model,          \* what each process runs with
    cache,          \* emb:*, by text
    size,           \* of the collection
    points,         \* documents with points
    stored,         \* committed documents
    text, content,
    pc, at,         \* of queries and ingests; the process each runs in
    made,           \* the model of a query's or document's vectors
    readAt,         \* history: when a query has read the cache
    lastRun         \* history: when each model last ran

servers == <<now, model, lastRun>>
stores == <<cache, size, points, stored>>
calls == <<text, content, pc, at, made, readAt>>
vars == <<servers, stores, calls>>

Call == Ask \cup Ingest
Over == {"away", "completed", "duplicate_skipped", "failed"}

Init ==
    /\ now = 0
    /\ \E m \in Model : /\ model = [p \in Process |-> m]
                       /\ lastRun = [n \in Model |-> 0]
    /\ cache = [x \in Text |-> [of |-> None, until |-> 0]]
    /\ size = None
    /\ points = {} /\ stored = {}
    /\ text \in [Ask -> Text] /\ content \in [Ingest -> Content]
    /\ pc = [c \in Call |-> "away"]
    /\ at = [c \in Call |-> None]
    /\ made = [c \in Call |-> None]
    /\ readAt = [q \in Ask |-> 0]

-----------------------------------------------------------------------------
Goto(c, label) == pc' = [pc EXCEPT ![c] = label]

\* The settings a call runs with.
Own(c) == model[at[c]]

\* A call reaches any of the processes.
Arrive(c, label) ==
    /\ pc[c] = "away"
    /\ \E p \in Process : at' = [at EXCEPT ![c] = p]
    /\ Goto(c, label)
    /\ UNCHANGED <<servers, stores, text, content, made, readAt>>

\* The client has its answer, or an error, and may ask again.
Leave(q) ==
    /\ Goto(q, "away")
    /\ at' = [at EXCEPT ![q] = None]
    /\ made' = [made EXCEPT ![q] = None]
    /\ readAt' = [readAt EXCEPT ![q] = 0]

\* RAGRetriever._embed_query: GET of the cached embedding.
\* Mutant: a hit renews the expiry.
RenewingGet(q) ==
    LET entry == cache[text[q]] IN
    /\ pc[q] = "get"
    /\ \/ /\ now < entry.until
          /\ made' = [made EXCEPT ![q] = entry.of]
          /\ cache' = [cache EXCEPT ![text[q]].until = now + TTL]
          /\ Goto(q, "search")
       \/ now >= entry.until /\ Goto(q, "embed") /\ UNCHANGED <<made, cache>>
    /\ readAt' = [readAt EXCEPT ![q] = now]
    /\ UNCHANGED <<servers, size, points, stored, text, content, at>>
GetCached(q) ==
    LET entry == cache[text[q]] IN
    /\ pc[q] = "get"
    /\ \/ now < entry.until /\ made' = [made EXCEPT ![q] = entry.of] /\ Goto(q, "search")
       \/ now >= entry.until /\ Goto(q, "embed") /\ UNCHANGED made
    /\ readAt' = [readAt EXCEPT ![q] = now]
    /\ UNCHANGED <<servers, stores, text, content, at>>

\* EmbeddingClient.embed_batch of one query.
EmbedQuery(q) ==
    /\ pc[q] = "embed"
    /\ made' = [made EXCEPT ![q] = Own(q)]
    /\ Goto(q, "set")
    /\ UNCHANGED <<servers, stores, text, content, at, readAt>>

\* SET with ex = 300.
SetCached(q) ==
    /\ pc[q] = "set"
    /\ cache' = [cache EXCEPT ![text[q]] = [of |-> made[q], until |-> now + TTL]]
    /\ Goto(q, "search")
    /\ UNCHANGED <<servers, size, points, stored, text, content, at, made, readAt>>

\* The search compares any vectors of one size, and fails for another size.
Search(q) ==
    /\ pc[q] = "search"
    /\ Leave(q)
    /\ UNCHANGED <<servers, stores, text, content>>

\* An exception at any await; the cache keeps what it has.
FailQuery(q) ==
    /\ pc[q] \in {"get", "embed", "set"}
    /\ Leave(q)
    /\ UNCHANGED <<servers, stores, text, content>>

QueryStep(q) ==
    \/ Arrive(q, "get") \/ GetCached(q) \/ EmbedQuery(q) \/ SetCached(q)
    \/ Search(q) \/ FailQuery(q)

-----------------------------------------------------------------------------
\* IngestionPipeline._run.

End(d, label) ==
    /\ Goto(d, label)
    /\ at' = [at EXCEPT ![d] = None]

\* A content that is stored is not embedded again, whatever the model of its points.
FindDuplicate(d) ==
    /\ pc[d] = "find"
    /\ \/ (\E e \in stored : content[e] = content[d]) /\ End(d, "duplicate_skipped")
       \/ /\ \A e \in stored : content[e] # content[d]
          /\ Goto(d, "embed") /\ UNCHANGED at
    /\ UNCHANGED <<servers, stores, text, content, made, readAt>>

EmbedChunks(d) ==
    /\ pc[d] = "embed"
    /\ made' = [made EXCEPT ![d] = Own(d)]
    /\ Goto(d, "ensure")
    /\ UNCHANGED <<servers, stores, text, content, at, readAt>>

\* VectorStore.ensure_collection: a collection that exists is taken as it is.
\* Mutant: one of another size is made anew.
RecreateCollection(d) ==
    /\ pc[d] = "ensure"
    /\ size' = Size[Own(d)]
    /\ points' = IF size = size' THEN points ELSE {}
    /\ Goto(d, "insert")
    /\ UNCHANGED <<servers, cache, stored, text, content, at, made, readAt>>
CheckCollection(d) ==
    /\ pc[d] = "ensure"
    /\ Goto(d, IF size = None THEN "create" ELSE "insert")
    /\ UNCHANGED <<servers, stores, text, content, at, made, readAt>>

\* An error when another call has created it in between.
CreateCollection(d) ==
    /\ pc[d] = "create"
    /\ \/ size = None /\ size' = Size[Own(d)] /\ Goto(d, "insert") /\ UNCHANGED at
       \/ size # None /\ End(d, "failed") /\ UNCHANGED size
    /\ UNCHANGED <<servers, cache, points, stored, text, content, made, readAt>>

\* The flush of the document: the unique index makes it wait for another ingest of the
\* content, and fail when that one has committed.
InsertDocument(d) ==
    LET Same == {e \in Ingest \ {d} : content[e] = content[d]} IN
    /\ pc[d] = "insert" /\ \A e \in Same : pc[e] \notin {"upsert", "commit"}
    /\ \/ Same \cap stored = {} /\ Goto(d, "upsert") /\ UNCHANGED at
       \/ Same \cap stored # {} /\ End(d, "failed")
    /\ UNCHANGED <<servers, stores, text, content, made, readAt>>

\* Qdrant refuses vectors of another size than the collection's; without chunks there
\* is nothing to send and nothing to refuse.
Upsert(d) ==
    /\ pc[d] = "upsert"
    /\ \/ content[d] \in Blank /\ Goto(d, "commit") /\ UNCHANGED <<at, points>>
       \/ /\ content[d] \notin Blank /\ size = Size[made[d]]
          /\ points' = points \cup {d}
          /\ Goto(d, "commit") /\ UNCHANGED at
       \/ /\ content[d] \notin Blank /\ size # Size[made[d]]
          /\ End(d, "failed") /\ UNCHANGED points
    /\ UNCHANGED <<servers, cache, size, stored, text, content, made, readAt>>

CommitDocument(d) ==
    /\ pc[d] = "commit"
    /\ stored' = stored \cup {d}
    /\ End(d, "completed")
    /\ UNCHANGED <<servers, cache, size, points, text, content, made, readAt>>

\* An exception at any await; the points stay.
FailIngest(d) ==
    /\ pc[d] \notin Over
    /\ End(d, "failed")
    /\ UNCHANGED <<servers, stores, text, content, made, readAt>>

IngestStep(d) ==
    \/ Arrive(d, "find") \/ FindDuplicate(d) \/ EmbedChunks(d) \/ CheckCollection(d)
    \/ CreateCollection(d) \/ InsertDocument(d) \/ Upsert(d) \/ CommitDocument(d)
    \/ FailIngest(d)

-----------------------------------------------------------------------------
\* A process that has no call is restarted with other settings.  (One that has is
\* killed: its calls fail first.)
Restart(p, m) ==
    /\ m # model[p] /\ \A c \in Call : at[c] # p
    /\ model' = [model EXCEPT ![p] = m]
    /\ lastRun' = [lastRun EXCEPT ![m] = now]
    /\ UNCHANGED <<now, stores, calls>>

Tick ==
    /\ now < MaxClock
    /\ now' = now + 1
    /\ lastRun' = [m \in Model |-> IF m \in Range(model) THEN now + 1 ELSE lastRun[m]]
    /\ UNCHANGED <<model, stores, calls>>

Next ==
    \/ \E q \in Ask : QueryStep(q)
    \/ \E d \in Ingest : IngestStep(d)
    \/ \E p \in Process, m \in Model : Restart(p, m)
    \/ Tick

Spec == Init /\ [][Next]_vars

-----------------------------------------------------------------------------
\* Properties.

\* A query is searched for with a vector of another model than the one it runs with
\* only within TTL of the last moment at which a process ran with that model, however
\* often the text is asked and whichever process asks.
StaleBounded ==
    \A q \in Ask : pc[q] \in {"set", "search"} /\ made[q] # Own(q) =>
        readAt[q] < lastRun[made[q]] + TTL

\* A committed document that has any text has its points in the collection, all of its
\* size, whichever models the processes have run with since.
StoredIndexed ==
    \A d \in stored : content[d] \notin Blank => d \in points /\ size = Size[made[d]]

=============================================================================
