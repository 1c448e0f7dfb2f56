------------------------------- MODULE Corpus -------------------------------
(***************************************************************************)
(* The document corpus: the rows PostgreSQL holds about documents,         *)
(* collections, graph entities and audit events, the vectors Qdrant holds, *)
(* and the HTTP handlers that change them.  A handler runs in one          *)
(* SQLAlchemy session, hence in one READ COMMITTED transaction, and calls  *)
(* Qdrant in the middle of it; Qdrant takes part in no transaction.        *)
(*                                                                         *)
(* One action is the code between two awaits on which another request can  *)
(* run.  A request that fails anywhere (an exception, a timeout, the death *)
(* of the process) rolls its transaction back and leaves what it did to    *)
(* Qdrant in place; a call that timed out and still took effect is a       *)
(* failure right after the action.                                         *)
(***************************************************************************)
EXTENDS Naturals, FiniteSets

CONSTANTS
    Req,            \* requests; each is served once
    DocId,          \* document ids uuid4 can produce
    Content,        \* distinct file contents (the code compares SHA-256 hashes)
    Blank,          \* those without text (white space, a scanned PDF): no chunks
    Namespace,
    CollName,
    Entity,         \* normalized entity names
    Caller,
    EntitiesOf,     \* [Content -> SUBSET Entity]: what extract_entities finds
    Writable,       \* [Caller -> SUBSET Namespace]: write or admin access
    Calls,          \* the calls clients may make
    Found,          \* retentions of the collections that are there at the start
    MaxClock,       \* bound on the passing of days
    NoDoc, NoColl, NoPeriod, Absent

\* One record for every endpoint; a field an endpoint does not take is ignored.
\* period is retention_days or older_than_days (a negative retention acts like 0).
Call == [op : {"ingest", "delete", "expire", "preview", "purge", "retain"},
         caller : Caller, ns : Namespace, coll : CollName \cup {NoColl},
         content : Content, doc : DocId \cup {NoDoc}, period : Nat \cup {NoPeriod}]

CollKey == Namespace \X CollName
Row == [ns : Namespace, coll : CollName, content : Content, created : Nat]

ASSUME CallsAssumption ==
    /\ Calls \subseteq Call
    /\ \A c \in Calls : c.op \in {"ingest", "retain"} => c.coll \in CollName
    /\ \A c \in Calls : c.op = "delete" => c.doc \in DocId

ASSUME DataAssumption ==
    /\ EntitiesOf \in [Content -> SUBSET Entity]
    /\ Writable \in [Caller -> SUBSET Namespace]
    /\ Blank \subseteq Content /\ \A c \in Blank : EntitiesOf[c] = {}
    /\ Found \subseteq [CollKey -> Nat \cup {NoPeriod, Absent}]
    /\ MaxClock \in Nat

ASSUME NullAssumption ==
    /\ NoDoc \notin DocId
    /\ NoColl \notin CollName
    /\ NoPeriod \notin Nat
    /\ Absent \notin Nat \cup {NoPeriod}

VARIABLES
    call,           \* what each request asks for
    pc,             \* how far its handler is
    \* --- PostgreSQL, visible to every transaction
    docState,       \* life of a document id
    row,            \* its row, from the INSERT on
    collection,     \* Absent, or the retention_days of the collection
    entities,       \* rows of the entities table
    audit,          \* requests whose audit event is committed
    \* --- PostgreSQL, uncommitted, and the handlers' local variables
    doc,            \* id of the document an ingest inserted
    newColl,        \* ingests holding an uncommitted collection row
    missing,        \* entities an ingest has still to insert
    newEnts,        \* entities it has inserted, uncommitted
    targets,        \* documents a removal selected
    purged,         \* those among them whose vectors it has removed
    seen,           \* the retention_days a retain request read
    known,          \* history: what was audited when a retention cleanup selected
    \* --- Qdrant
    vectors,        \* documents with points in the index
    index,          \* has the Qdrant collection been created
    clock

postgres == <<docState, row, collection, entities, audit>>
session == <<doc, newColl, missing, newEnts, targets, purged, seen, known>>
qdrant == <<vectors, index>>
vars == <<call, pc, postgres, session, qdrant, clock>>

Answered == {"completed", "skipped", "failed", "refused", "not_found"}
PC == Answered \cup {"arrived", "add_collection", "check_duplicate",
                     "ensure_index", "create_index", "insert_document",
                     "upsert_vectors", "find_entities", "flush_entities",
                     "purge_vectors", "set_retention"}

TypeOK ==
    /\ call \in [Req -> Calls]
    /\ pc \in [Req -> PC]
    /\ docState \in [DocId -> {"unused", "pending", "live", "aborted", "deleted"}]
    /\ row \in [DocId -> Row \cup {NoDoc}]
    /\ collection \in [CollKey -> Nat \cup {NoPeriod, Absent}]
    /\ entities \subseteq Namespace \X Entity
    /\ audit \subseteq Req
    /\ doc \in [Req -> DocId \cup {NoDoc}]
    /\ newColl \subseteq Req
    /\ missing \in [Req -> SUBSET Entity]
    /\ newEnts \in [Req -> SUBSET Entity]
    /\ targets \in [Req -> SUBSET DocId]
    /\ purged \in [Req -> SUBSET DocId]
    /\ seen \in [Req -> Nat \cup {NoPeriod, Absent}]
    /\ known \in [Req -> SUBSET Req]
    /\ vectors \subseteq DocId
    /\ index \in BOOLEAN
    /\ clock \in 0 .. MaxClock

Init ==
    /\ call \in [Req -> Calls]
    /\ pc = [r \in Req |-> "arrived"]
    /\ docState = [d \in DocId |-> "unused"]
    /\ row = [d \in DocId |-> NoDoc]
    /\ collection \in Found
    /\ entities = {}
    /\ audit = {}
    /\ doc = [r \in Req |-> NoDoc]
    /\ newColl = {}
    /\ missing = [r \in Req |-> {}]
    /\ newEnts = [r \in Req |-> {}]
    /\ targets = [r \in Req |-> {}]
    /\ purged = [r \in Req |-> {}]
    /\ seen = [r \in Req |-> Absent]
    /\ known = [r \in Req |-> {}]
    /\ vectors = {}
    /\ index = FALSE
    /\ clock = 0

-----------------------------------------------------------------------------
\* Helpers.

Goto(r, label) == pc' = [pc EXCEPT ![r] = label]

KeyOf(r) == <<call[r].ns, call[r].coll>>

\* NamespaceAuthz.require_write.
MayWrite(r, ns) == ns \in Writable[call[r].caller]

\* A request is at work when its transaction may hold something.
AtWork(r) == pc[r] \notin Answered \cup {"arrived"}

\* The session closes without a commit: the uncommitted rows vanish and the
\* locks on their unique keys are released.  Qdrant keeps what it was given.
\* Mutant: the error path leaves the transaction open.
StayOpen(r) == UNCHANGED <<docState, newColl, newEnts, missing>>
Rollback(r) ==
    /\ docState' = IF doc[r] = NoDoc THEN docState
                   ELSE [docState EXCEPT ![doc[r]] = "aborted"]
    /\ newColl' = newColl \ {r}
    /\ newEnts' = [newEnts EXCEPT ![r] = {}]
    /\ missing' = [missing EXCEPT ![r] = {}]

\* The request ends with an exception, hence a 500 answer.
Abort(r) ==
    /\ Goto(r, "failed")
    /\ Rollback(r)
    /\ UNCHANGED <<call, row, collection, entities, audit, doc, targets, purged,
                   seen, known, qdrant, clock>>

\* An INSERT waits while another transaction holds the same unique key.
CollectionLocked(r) == \E q \in newColl \ {r} : KeyOf(q) = KeyOf(r)

\* The duplicate check asks for a hash within a namespace.
SameContent(r, d) == row[d].ns = call[r].ns /\ row[d].content = call[r].content

HoldsContent(r, state) == \E d \in DocId : docState[d] = state /\ SameContent(r, d)

HoldsEntity(q, r, e) == q # r /\ call[q].ns = call[r].ns /\ e \in newEnts[q]

EntityLocked(r, e) == \E q \in Req : HoldsEntity(q, r, e)

-----------------------------------------------------------------------------
\* POST /ingest: IngestionPipeline._run.

\* The SELECT on (namespace, name), after require_write.
FindCollection(r) ==
    /\ pc[r] = "arrived" /\ call[r].op = "ingest" /\ MayWrite(r, call[r].ns)
    /\ Goto(r, IF collection[KeyOf(r)] = Absent THEN "add_collection"
                                               ELSE "check_duplicate")
    /\ UNCHANGED <<call, postgres, session, qdrant, clock>>

\* INSERT of the collection, flushed.
AddCollection(r) ==
    /\ pc[r] = "add_collection"
    /\ ~CollectionLocked(r) /\ collection[KeyOf(r)] = Absent
    /\ newColl' = newColl \cup {r}
    /\ Goto(r, "check_duplicate")
    /\ UNCHANGED <<call, postgres, doc, missing, newEnts, targets, purged, seen, known,
                   qdrant, clock>>

\* A known content returns before any commit: a collection inserted above is
\* rolled back with the session.
CheckDuplicate(r) ==
    /\ pc[r] = "check_duplicate"
    /\ \/ /\ HoldsContent(r, "live")
          /\ Goto(r, "skipped")
          /\ newColl' = newColl \ {r}
       \/ /\ ~HoldsContent(r, "live")
          /\ Goto(r, "ensure_index")
          /\ UNCHANGED newColl
    /\ UNCHANGED <<call, postgres, doc, missing, newEnts, targets, purged, seen, known,
                   qdrant, clock>>

\* VectorStore.ensure_collection: look, then create what was not there.
EnsureIndex(r) ==
    /\ pc[r] = "ensure_index"
    /\ Goto(r, IF index THEN "insert_document" ELSE "create_index")
    /\ UNCHANGED <<call, postgres, session, qdrant, clock>>

CreateIndex(r) ==
    /\ pc[r] = "create_index"
    /\ ~index
    /\ index' = TRUE
    /\ Goto(r, "insert_document")
    /\ UNCHANGED <<call, postgres, session, vectors, clock>>

\* uuid4 gives an id nothing has used.
\* Mutant: ids derived from the content come back after a deletion.
ReusedId(d) == docState[d] \in {"unused", "deleted"}
FreshId(d) == docState[d] = "unused"

\* The unique index on (file_hash, namespace) refuses a second committed row.
\* Mutant: the table has no such index.
NoHashIndex(r) == FALSE
HashTaken(r) == HoldsContent(r, "live")

\* INSERT of the document, flushed: waits for an uncommitted row of the same
\* content.  The flush is what gives the row its id.
\* Mutant: it is not flushed, and the id is read before there is one.
InsertUnflushed(r) ==
    /\ pc[r] = "insert_document"
    /\ ~HoldsContent(r, "pending") /\ ~HashTaken(r)
    /\ Goto(r, "upsert_vectors")
    /\ UNCHANGED <<call, postgres, session, qdrant, clock>>
InsertDocument(r) ==
    /\ pc[r] = "insert_document"
    /\ ~HoldsContent(r, "pending") /\ ~HashTaken(r)
    /\ \E d \in DocId :
         /\ FreshId(d)
         /\ docState' = [docState EXCEPT ![d] = "pending"]
         /\ row' = [row EXCEPT ![d] =
                      [ns |-> call[r].ns, coll |-> call[r].coll,
                       content |-> call[r].content, created |-> clock]]
         /\ doc' = [doc EXCEPT ![r] = d]
    /\ Goto(r, "upsert_vectors")
    /\ UNCHANGED <<call, collection, entities, audit, newColl, missing, newEnts,
                   targets, purged, seen, known, qdrant, clock>>

\* One Qdrant upsert: embed_batch refuses more than 100 texts, so a document
\* never needs a second batch of points.  Searchable from here on.  A file without
\* text has no chunks, and no upsert is made: its document gets no points.
UpsertVectors(r) ==
    /\ pc[r] = "upsert_vectors"
    /\ vectors' = vectors \cup (IF call[r].content \in Blank THEN {} ELSE {doc[r]})
    /\ Goto(r, "find_entities")
    /\ UNCHANGED <<call, postgres, session, index, clock>>

\* The entities of the namespace an ingest's SELECT finds.
\* Mutant: the SELECT does not filter by namespace.
KnownAnywhere(ns) == {e \in Entity : \E n \in Namespace : <<n, e>> \in entities}
KnownEntities(ns) == {e \in Entity : <<ns, e>> \in entities}

\* Chunk rows are flushed, then GraphMemory.index_document reads the entities
\* and prepares the rows that are missing.
FindEntities(r) ==
    /\ pc[r] = "find_entities"
    /\ missing' = [missing EXCEPT ![r] =
                     EntitiesOf[call[r].content] \ KnownEntities(call[r].ns)]
    /\ Goto(r, "flush_entities")
    /\ UNCHANGED <<call, postgres, doc, newColl, newEnts, targets, purged, seen, known,
                   qdrant, clock>>

\* The flush of commit() inserts the missing entities one by one, in the order
\* of the text: any order, since the texts differ.
InsertEntity(r) ==
    /\ pc[r] = "flush_entities"
    /\ \E e \in missing[r] :
         /\ ~EntityLocked(r, e) /\ <<call[r].ns, e>> \notin entities
         /\ missing' = [missing EXCEPT ![r] = @ \ {e}]
         /\ newEnts' = [newEnts EXCEPT ![r] = @ \cup {e}]
    /\ UNCHANGED <<call, pc, postgres, doc, newColl, targets, purged, seen, known, qdrant,
                   clock>>

\* The COMMIT: document, chunks, mentions, relations, entities and collection
\* become visible together.
CommitIngest(r) ==
    /\ pc[r] = "flush_entities"
    /\ missing[r] = {}
    /\ docState' = [docState EXCEPT ![doc[r]] = "live"]
    /\ collection' = IF r \in newColl
                     THEN [collection EXCEPT ![KeyOf(r)] = NoPeriod]
                     ELSE collection
    /\ entities' = entities \cup ({call[r].ns} \X newEnts[r])
    /\ newColl' = newColl \ {r}
    /\ newEnts' = [newEnts EXCEPT ![r] = {}]
    /\ Goto(r, "completed")
    /\ UNCHANGED <<call, row, audit, doc, missing, targets, purged, seen, known, qdrant,
                   clock>>

IngestStep(r) ==
    \/ FindCollection(r) \/ AddCollection(r) \/ CheckDuplicate(r)
    \/ EnsureIndex(r) \/ CreateIndex(r) \/ InsertDocument(r)
    \/ UpsertVectors(r) \/ FindEntities(r) \/ InsertEntity(r) \/ CommitIngest(r)

-----------------------------------------------------------------------------
\* The three handlers that remove documents: a SELECT fixes the targets, each
\* target loses its vectors, then one COMMIT deletes the rows (chunks, mentions
\* and relations go by cascade) and writes the audit event.

Select(r, found) ==
    /\ targets' = [targets EXCEPT ![r] = found]
    /\ known' = IF call[r].op = "expire" THEN [known EXCEPT ![r] = audit] ELSE known
    /\ UNCHANGED <<call, postgres, doc, newColl, missing, newEnts, purged, seen,
                   qdrant, clock>>

\* DELETE /documents/{id}: access is checked on the namespace of the row.
LookupDocument(r) ==
    LET d == call[r].doc IN
    /\ pc[r] = "arrived" /\ call[r].op = "delete"
    /\ \/ /\ docState[d] = "live" /\ MayWrite(r, row[d].ns)
          /\ Goto(r, "purge_vectors")
          /\ Select(r, {d})
       \/ /\ docState[d] = "live" /\ ~MayWrite(r, row[d].ns)
          /\ Goto(r, "refused")
          /\ UNCHANGED <<call, postgres, session, qdrant, clock>>
       \/ /\ docState[d] # "live"
          /\ Goto(r, "not_found")
          /\ UNCHANGED <<call, postgres, session, qdrant, clock>>

RetentionOf(d) == collection[<<row[d].ns, row[d].coll>>]

\* Has a document lived for this many days?
OlderThan(d, days) == row[d].created + days <= clock

\* POST /collections/cleanup: one SELECT joins the documents with the retention of
\* their collections.
\* Mutant: the retention of a collection is read first, its documents later.
SelectInTwoReads(r) ==
    /\ pc[r] = "arrived" /\ call[r].op = "expire" /\ MayWrite(r, call[r].ns)
    /\ \E k \in {k \in CollKey : k[1] = call[r].ns} :
         \/ /\ seen[r] = Absent
            /\ seen' = [seen EXCEPT ![r] = collection[k]]
            /\ UNCHANGED <<call, pc, postgres, doc, newColl, missing, newEnts, targets,
                           purged, known, qdrant, clock>>
         \/ /\ Goto(r, "purge_vectors")
            /\ Select(r, {d \in DocId : /\ docState[d] = "live" /\ seen[r] \in Nat
                                        /\ <<row[d].ns, row[d].coll>> = k
                                        /\ OlderThan(d, seen[r])})
SelectExpired(r) ==
    /\ pc[r] = "arrived" /\ call[r].op = "expire" /\ MayWrite(r, call[r].ns)
    /\ Goto(r, "purge_vectors")
    /\ Select(r, {d \in DocId : /\ docState[d] = "live"
                                /\ row[d].ns = call[r].ns
                                /\ RetentionOf(d) \in Nat
                                /\ OlderThan(d, RetentionOf(d))})

\* The filter of POST /documents/cleanup.
\* Mutant: the query is not restricted to the namespace of the request.
MatchesAnyNamespace(r, d) ==
    /\ docState[d] = "live"
    /\ call[r].coll # NoColl => row[d].coll = call[r].coll
    /\ call[r].period # NoPeriod => OlderThan(d, call[r].period)
Matches(r, d) ==
    /\ docState[d] = "live"
    /\ row[d].ns = call[r].ns
    /\ call[r].coll # NoColl => row[d].coll = call[r].coll
    /\ call[r].period # NoPeriod => OlderThan(d, call[r].period)

NoFilter(r) == call[r].coll = NoColl /\ call[r].period = NoPeriod

\* POST /documents/cleanup: "preview" is a dry run, or a call without confirm;
\* "purge" has dry_run false and confirm true.
SelectMatching(r) ==
    /\ pc[r] = "arrived" /\ call[r].op \in {"preview", "purge"}
    /\ ~NoFilter(r) /\ MayWrite(r, call[r].ns)
    /\ Goto(r, IF call[r].op = "preview" THEN "completed" ELSE "purge_vectors")
    /\ Select(r, {d \in DocId : Matches(r, d)})

\* Points carry the id of their document, and are deleted by it.
\* Mutant: points are found by what they contain.
PointsOfContent(d) == {x \in DocId : row[x] # NoDoc /\ row[x].content = row[d].content}
PointsOf(d) == {d}

\* VectorStore.delete_document for the next target; the queries have no ORDER BY.
PurgeVectors(r) ==
    /\ pc[r] = "purge_vectors"
    /\ \E d \in targets[r] \ purged[r] :
         /\ vectors' = vectors \ PointsOf(d)
         /\ purged' = [purged EXCEPT ![r] = @ \cup {d}]
    /\ UNCHANGED <<call, pc, postgres, doc, newColl, missing, newEnts, targets,
                   seen, known, index, clock>>

\* Mutant: the rows are deleted and committed before the vectors are.
ReadyAtOnce(r) == TRUE
AllPurged(r) == targets[r] \subseteq purged[r]

\* Some DELETEs are flushed before (session.delete loads what it cascades to), but
\* nobody sees them until the COMMIT.  A row another request has deleted meanwhile
\* matches no row: SQLAlchemy only warns, and the commit goes through.
CommitRemoval(r) ==
    /\ pc[r] = "purge_vectors"
    /\ AllPurged(r)
    /\ docState' = [d \in DocId |-> IF d \in targets[r] THEN "deleted"
                                                       ELSE docState[d]]
    /\ audit' = audit \cup {r}
    /\ Goto(r, "completed")
    /\ UNCHANGED <<call, row, collection, entities, session, qdrant, clock>>

RemovalStep(r) ==
    \/ LookupDocument(r) \/ SelectExpired(r) \/ SelectMatching(r)
    \/ PurgeVectors(r) \/ CommitRemoval(r)

-----------------------------------------------------------------------------
\* POST /collections: upsert_collection.

ReadCollection(r) ==
    /\ pc[r] = "arrived" /\ call[r].op = "retain" /\ MayWrite(r, call[r].ns)
    /\ seen' = [seen EXCEPT ![r] = collection[KeyOf(r)]]
    /\ Goto(r, "set_retention")
    /\ UNCHANGED <<call, postgres, doc, newColl, missing, newEnts, targets, purged,
                   known, qdrant, clock>>

\* What an upsert leaves: its INSERT or UPDATE overwrites whatever another request has
\* stored since its SELECT; when the retention it read is its own it sends neither.
\* Mutant: what another request has stored since the SELECT is kept.
KeptRetention(r) == IF collection[KeyOf(r)] # seen[r] THEN collection[KeyOf(r)]
                                                      ELSE call[r].period
NewRetention(r) == IF seen[r] = call[r].period THEN collection[KeyOf(r)]
                                               ELSE call[r].period

\* Flush and commit: an INSERT when the collection was absent at the SELECT.
CommitRetention(r) ==
    /\ pc[r] = "set_retention"
    /\ seen[r] = Absent => ~CollectionLocked(r) /\ collection[KeyOf(r)] = Absent
    /\ collection' = [collection EXCEPT ![KeyOf(r)] = NewRetention(r)]
    /\ audit' = audit \cup {r}
    /\ Goto(r, "completed")
    /\ UNCHANGED <<call, docState, row, entities, session, qdrant, clock>>

RetainStep(r) == ReadCollection(r) \/ CommitRetention(r)

-----------------------------------------------------------------------------
\* What surrounds the handlers.

\* 403 (a PermissionError is one wherever it is raised), or 400 for a cleanup without
\* a filter.
Refuse(r) ==
    /\ pc[r] = "arrived" /\ call[r].op # "delete"
    /\ \/ ~MayWrite(r, call[r].ns)
       \/ call[r].op \in {"preview", "purge"} /\ NoFilter(r)
    /\ Goto(r, "refused")
    /\ UNCHANGED <<call, postgres, session, qdrant, clock>>

\* What another request has committed since this one looked for it makes the
\* INSERT fail with an IntegrityError, or the creation of the index with an error
\* of Qdrant.
Outrun(r) ==
    \/ /\ pc[r] = "add_collection" \/ (pc[r] = "set_retention" /\ seen[r] = Absent)
       /\ ~CollectionLocked(r) /\ collection[KeyOf(r)] # Absent
    \/ /\ pc[r] = "create_index"
       /\ index
    \/ /\ pc[r] = "insert_document"
       /\ ~HoldsContent(r, "pending") /\ HashTaken(r)
    \/ /\ pc[r] = "flush_entities"
       /\ \E e \in missing[r] : ~EntityLocked(r, e) /\ <<call[r].ns, e>> \in entities
Conflict(r) == Outrun(r) /\ Abort(r)

\* An exception, a timeout or the end of the process at any await.
Fail(r) == AtWork(r) /\ Abort(r)

\* Every member waits for an entity row another member has inserted.
Knot(S) ==
    \A q \in S : /\ pc[q] = "flush_entities" /\ missing[q] # {}
                 /\ \A e \in missing[q] : \E h \in S : HoldsEntity(h, q, e)

\* PostgreSQL breaks a cycle of waiting transactions by aborting one of them.
DeadlockVictim(r) ==
    /\ \E S \in SUBSET Req :
         /\ r \in S /\ Knot(S)
         /\ \A T \in SUBSET S : T # {} /\ Knot(T) => T = S
    /\ Abort(r)

Tick ==
    /\ clock < MaxClock
    /\ clock' = clock + 1
    /\ UNCHANGED <<call, pc, postgres, session, qdrant>>

\* All requests are answered; the server would wait for the next one.
Quiet == (\A r \in Req : pc[r] \in Answered) /\ UNCHANGED vars

Step(r) ==
    IngestStep(r) \/ RemovalStep(r) \/ RetainStep(r) \/ Refuse(r) \/ Conflict(r)

Next ==
    \/ \E r \in Req : Step(r) \/ DeadlockVictim(r) \/ Fail(r)
    \/ Tick
    \/ Quiet

Spec == Init /\ [][Next]_vars

\* The event loop resumes a handler whose await has returned, PostgreSQL grants
\* a released lock and its deadlock detector runs.  Nothing has to fail, and no
\* day has to pass.
FairSpec ==
    /\ Spec
    /\ \A r \in Req : WF_vars(Step(r)) /\ WF_vars(DeadlockVictim(r))

-----------------------------------------------------------------------------
\* Properties.

\* A file is stored once per namespace: no two rows, committed or about to be,
\* have the same content, however many ingests of it run at once.
UniqueContent ==
    \A d, e \in DocId :
        /\ d # e
        /\ {docState[d], docState[e]} \subseteq {"pending", "live"}
        => <<row[d].ns, row[d].content>> # <<row[e].ns, row[e].content>>

\* What the index holds is explained: a committed document, an ingest that has
\* not ended, or one that failed after its upsert.  In particular a removed
\* document has left no vectors, and never will.
VectorsExplained ==
    \A d \in vectors :
        \/ docState[d] = "live"
        \/ /\ docState[d] \in {"pending", "aborted"}
           /\ \E r \in Req : doc[r] = d /\ (AtWork(r) \/ pc[r] = "failed")

\* A committed document that has any text can be found by vector search, unless a
\* removal that has not committed, or that failed half way, took its vectors.  (One
\* without text is committed as completed all the same, and no vector search ever
\* finds it.)
IndexedUntilPurged ==
    \A d \in DocId :
        docState[d] = "live" /\ row[d].content \notin Blank /\ d \notin vectors
        => \E r \in Req : d \in purged[r] /\ pc[r] \in {"purge_vectors", "failed"}

\* Whatever a committed document refers to is there, in its own namespace: its
\* collection and every entity its chunks mention.  An ingest relies on rows it
\* read before others committed or rolled back.
ReferencesResolved ==
    \A d \in DocId :
        docState[d] = "live"
        => /\ RetentionOf(d) # Absent
           /\ {row[d].ns} \X EntitiesOf[row[d].content] \subseteq entities

\* The audit trail and the documents table agree: every removed document is
\* accounted for by a committed event, and no event speaks of a document that is
\* still there.
RemovalsAudited ==
    /\ \A d \in DocId :
          docState[d] = "deleted" => \E r \in audit : d \in targets[r]
    /\ \A r \in audit : \A d \in targets[r] : docState[d] = "deleted"

\* A request removes documents only of a namespace its caller may write to,
\* whichever filter selected them.
RemovalsAuthorised ==
    \A r \in audit : \A d \in targets[r] : MayWrite(r, row[d].ns)

\* From the moment the retention cleanup selects a document, its time is up under
\* the retention that is in force for its collection, unless an upsert of that very
\* collection was committed after the selection.  A retention that was superseded
\* before the cleanup looked justifies nothing, and nothing but an upsert makes it
\* judge by another one.
NeverExpiredEarly ==
    \A r \in Req : call[r].op = "expire" =>
        \A d \in targets[r] :
            \/ RetentionOf(d) \in Nat /\ OlderThan(d, RetentionOf(d))
            \/ \E u \in audit \ known[r] :
                  /\ call[u].op = "retain"
                  /\ KeyOf(u) = <<row[d].ns, row[d].coll>>

\* A document is removed only by the commit of a removal that selected it, never
\* comes back, and a removed or rolled back one gains no vectors.
NoResurrection ==
    [][\A d \in DocId :
          /\ docState[d] = "live" /\ docState'[d] # "live"
             => \E r \in audit' \ audit : d \in targets[r]
          /\ docState[d] \in {"aborted", "deleted"}
             => docState'[d] = docState[d] /\ (d \in vectors' => d \in vectors)]_vars

\* The retention of an existing collection changes only by an upsert of that
\* collection: an ingest that creates the collection at the same time does not
\* overwrite what was set.
RetentionSticks ==
    [][\A k \in CollKey :
          collection[k] # Absent /\ collection'[k] # collection[k]
          => \E r \in audit' \ audit : call[r].op = "retain" /\ KeyOf(r) = k]_vars

\* Every request is answered, though ingests wait for each other's locks.
RequestsAnswered == \A r \in Req : <>(pc[r] \in Answered)

=============================================================================
