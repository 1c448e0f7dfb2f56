---------------------------- MODULE CorpusProofs ----------------------------
(***************************************************************************)
(* Theorems about Corpus, for any number of requests, documents,           *)
(* namespaces and entities.                                                *)
(***************************************************************************)
EXTENDS CorpusLedger, TLAPS

\* Where an ingest is before and after it inserts its document.
Before == {"add_collection", "check_duplicate", "ensure_index", "create_index",
           "insert_document"}
Holding == {"upsert_vectors", "find_entities", "flush_entities"}

Removal == {"delete", "expire", "purge"}

-----------------------------------------------------------------------------
\* Types.

\* Each label belongs to one handler; an ingest has a document once it has
\* inserted it, and then only.
Control ==
    \A r \in Req :
        /\ pc[r] \in Before \cup Holding => call[r].op = "ingest"
        /\ pc[r] = "set_retention" => call[r].op = "retain"
        /\ pc[r] = "purge_vectors" => call[r].op \in Removal
        /\ pc[r] \in Holding => doc[r] \in DocId
        /\ doc[r] \in DocId => pc[r] \in Holding \cup {"completed", "failed"}
        /\ r \in newColl => pc[r] \in Before \cup Holding

Types == TypeOK /\ Control

\* What a call may hold.
LEMMA CallFields ==
    ASSUME TypeOK, NEW r \in Req
    PROVE  /\ call[r] \in Call
           /\ call[r].ns \in Namespace /\ call[r].content \in Content
           /\ call[r].doc \in DocId \cup {NoDoc}
           /\ call[r].op = "delete" => call[r].doc \in DocId
           /\ call[r].period \in Nat \cup {NoPeriod}
           /\ call[r].op \in {"ingest", "retain"}
              => call[r].coll \in CollName /\ KeyOf(r) \in CollKey
BY CallsAssumption DEF TypeOK, Call, KeyOf, CollKey

\* Conflict, Fail and DeadlockVictim abort a request that is at work.
LEMMA AbortCases ==
    ASSUME NEW r \in Req, Conflict(r) \/ Fail(r) \/ DeadlockVictim(r)
    PROVE  AtWork(r) /\ Abort(r)
<1>1. CASE Conflict(r)
  BY <1>1 DEF Conflict, Outrun, AtWork, Answered
<1>2. CASE Fail(r)
  BY <1>2 DEF Fail
<1>3. CASE DeadlockVictim(r)
  BY <1>3 DEF DeadlockVictim, Knot, AtWork, Answered
<1> QED BY <1>1, <1>2, <1>3

LEMMA InitTypes == Init => Types
<1> SUFFICES ASSUME Init PROVE Types
  OBVIOUS
<1> USE CallsAssumption, DataAssumption, NullAssumption DEF Init
<1>1. TypeOK
  <2>1. clock \in 0 .. MaxClock
    OBVIOUS
  <2>2. /\ row \in [DocId -> Row \cup {NoDoc}]
        /\ collection \in [CollKey -> Nat \cup {NoPeriod, Absent}]
        /\ docState \in [DocId -> {"unused", "pending", "live", "aborted", "deleted"}]
    OBVIOUS
  <2>3. pc \in [Req -> PC]
    BY DEF PC
  <2> QED BY <2>1, <2>2, <2>3 DEF TypeOK
<1>2. Control
  BY DEF Control, Before, Holding
<1> QED BY <1>1, <1>2 DEF Types

LEMMA IngestTypes ==
    ASSUME Types, NEW r \in Req, IngestStep(r)
    PROVE  Types'
<1> USE CallFields, NullAssumption, DataAssumption
    DEF Types, TypeOK, Control, PC, Answered, Before, Holding, Removal, Goto, postgres,
        session, qdrant
<1>1. CASE FindCollection(r)
  BY <1>1 DEF FindCollection
<1>2. CASE AddCollection(r)
  <2>1. /\ newColl' = newColl \cup {r} /\ pc[r] = "add_collection"
        /\ pc' = [pc EXCEPT ![r] = "check_duplicate"]
        /\ UNCHANGED <<call, postgres, doc, missing, newEnts, targets, purged, seen, known,
                       qdrant, clock>>
    BY <1>2 DEF AddCollection
  <2> QED BY <2>1, SMTT(30)
<1>3. CASE CheckDuplicate(r)
  <2>1. /\ pc[r] = "check_duplicate"
        /\ \/ pc' = [pc EXCEPT ![r] = "skipped"] /\ newColl' = newColl \ {r}
           \/ pc' = [pc EXCEPT ![r] = "ensure_index"] /\ newColl' = newColl
        /\ UNCHANGED <<call, postgres, doc, missing, newEnts, targets, purged, seen, known,
                       qdrant, clock>>
    BY <1>3 DEF CheckDuplicate
  <2>2. CASE pc' = [pc EXCEPT ![r] = "skipped"]
    BY <2>1, <2>2, SMTT(30)
  <2>3. CASE pc' = [pc EXCEPT ![r] = "ensure_index"]
    BY <2>1, <2>3, SMTT(30)
  <2> QED BY <2>1, <2>2, <2>3
<1>4. CASE EnsureIndex(r)
  BY <1>4 DEF EnsureIndex
<1>5. CASE CreateIndex(r)
  BY <1>5 DEF CreateIndex
<1>6. CASE InsertDocument(r)
  <2>1. PICK d \in DocId :
          /\ docState' = [docState EXCEPT ![d] = "pending"]
          /\ row' = [row EXCEPT ![d] =
                       [ns |-> call[r].ns, coll |-> call[r].coll,
                        content |-> call[r].content, created |-> clock]]
          /\ doc' = [doc EXCEPT ![r] = d]
    BY <1>6 DEF InsertDocument
  <2>2. [ns |-> call[r].ns, coll |-> call[r].coll,
         content |-> call[r].content, created |-> clock] \in Row
    <3>1. call[r].coll \in CollName
      BY <1>6 DEF InsertDocument
    <3>2. clock \in Nat
      OBVIOUS
    <3> QED BY <3>1, <3>2 DEF Row
  <2>3. /\ row' \in [DocId -> Row \cup {NoDoc}]
        /\ docState' \in [DocId -> {"unused", "pending", "live", "aborted", "deleted"}]
        /\ doc' \in [Req -> DocId \cup {NoDoc}]
    BY <2>1, <2>2
  <2> QED BY <1>6, <2>1, <2>3 DEF InsertDocument
<1>7. CASE UpsertVectors(r)
  BY <1>7 DEF UpsertVectors
<1>8. CASE FindEntities(r)
  BY <1>8 DEF FindEntities
<1>9. CASE InsertEntity(r)
  BY <1>9 DEF InsertEntity
<1>10. CASE CommitIngest(r)
  BY <1>10 DEF CommitIngest, Call
<1> QED BY <1>1, <1>2, <1>3, <1>4, <1>5, <1>6, <1>7, <1>8, <1>9, <1>10 DEF IngestStep

LEMMA RemovalTypes ==
    ASSUME Types, NEW r \in Req, RemovalStep(r)
    PROVE  Types'
<1> USE CallFields, NullAssumption, DataAssumption
    DEF Types, TypeOK, Control, PC, Answered, Before, Holding, Removal, Goto, Select,
        postgres, session, qdrant
<1>1. CASE LookupDocument(r)
  <2>1. call[r].doc \in DocId
    BY <1>1 DEF LookupDocument
  <2>2. /\ targets' = targets \/ targets' = [targets EXCEPT ![r] = {call[r].doc}]
        /\ pc' = [pc EXCEPT ![r] = "purge_vectors"] \/ pc' = [pc EXCEPT ![r] = "refused"]
           \/ pc' = [pc EXCEPT ![r] = "not_found"]
        /\ pc[r] = "arrived" /\ call[r].op = "delete"
        /\ UNCHANGED <<call, docState, row, collection, entities, audit, doc, newColl,
                       missing, newEnts, purged, seen, known, vectors, index, clock>>
    BY <1>1 DEF LookupDocument
  <2>3. /\ targets' \in [Req -> SUBSET DocId]
        /\ pc' \in [Req -> PC]
    BY <2>1, <2>2, SMTT(60)
  <2> QED BY <2>2, <2>3
<1>2. CASE SelectExpired(r)
  BY <1>2 DEF SelectExpired
<1>3. CASE SelectMatching(r)
  BY <1>3 DEF SelectMatching
<1>4. CASE PurgeVectors(r)
  BY <1>4 DEF PurgeVectors
<1>5. CASE CommitRemoval(r)
  BY <1>5 DEF CommitRemoval
<1> QED BY <1>1, <1>2, <1>3, <1>4, <1>5 DEF RemovalStep

LEMMA OtherTypes ==
    ASSUME Types, NEW r \in Req, RetainStep(r) \/ Refuse(r) \/ (AtWork(r) /\ Abort(r))
    PROVE  Types'
<1> USE CallFields, NullAssumption, DataAssumption
    DEF Types, TypeOK, Control, PC, Answered, Before, Holding, Removal, Goto,
        postgres, session, qdrant
<1>1. CASE ReadCollection(r)
  BY <1>1 DEF ReadCollection
<1>2. CASE CommitRetention(r)
  <2>1. KeyOf(r) \in CollKey
    BY <1>2 DEF CommitRetention
  <2>2. NewRetention(r) \in Nat \cup {NoPeriod, Absent}
    BY <2>1 DEF NewRetention
  <2> QED BY <1>2, <2>1, <2>2 DEF CommitRetention
<1>3. CASE Refuse(r)
  BY <1>3 DEF Refuse
<1>4. CASE AtWork(r) /\ Abort(r)
  BY <1>4 DEF AtWork, Abort, Rollback
<1> QED BY <1>1, <1>2, <1>3, <1>4 DEF RetainStep

LEMMA StepTypes == Types /\ [Next]_vars => Types'
<1> SUFFICES ASSUME Types, [Next]_vars PROVE Types'
  OBVIOUS
<1>1. ASSUME NEW r \in Req, Step(r) \/ DeadlockVictim(r) \/ Fail(r) PROVE Types'
  BY <1>1, IngestTypes, RemovalTypes, OtherTypes, AbortCases DEF Step
<1>2. CASE Tick
  BY <1>2, DataAssumption
  DEF Tick, Types, TypeOK, Control, postgres, session, qdrant
<1>3. CASE Quiet \/ UNCHANGED vars
  BY <1>3 DEF Quiet, vars, Types, TypeOK, Control, postgres, session, qdrant
<1> QED BY <1>1, <1>2, <1>3 DEF Next

\* TypeOK in every reachable state.
THEOREM TypeCorrect == Spec => []TypeOK
<1>1. Types => TypeOK
  BY DEF Types
<1> QED BY InitTypes, StepTypes, <1>1, PTL DEF Spec

-----------------------------------------------------------------------------
\* Documents and the requests that insert and remove them.

\* The ingest that inserted a document is unique, its row says what the ingest
\* was called with, and its state follows the progress of the ingest.
Owned ==
    /\ \A r \in Req : doc[r] \in DocId =>
        /\ row[doc[r]] \in Row
        /\ row[doc[r]].ns = call[r].ns
        /\ row[doc[r]].coll = call[r].coll
        /\ row[doc[r]].content = call[r].content
        /\ pc[r] \in Holding => docState[doc[r]] = "pending"
        /\ pc[r] = "failed" => docState[doc[r]] = "aborted"
        /\ pc[r] = "completed" => docState[doc[r]] \in {"live", "deleted"}
    /\ \A q, r \in Req : doc[r] \in DocId /\ doc[q] = doc[r] => q = r
    /\ \A d \in DocId : docState[d] # "unused" => \E r \in Req : doc[r] = d

\* What a removal has selected stays committed until it is deleted, and lies in a
\* namespace the caller may write to.
Selected ==
    \A r \in Req :
        /\ \A d \in targets[r] :
             docState[d] \in {"live", "deleted"} /\ MayWrite(r, row[d].ns)
        /\ purged[r] \subseteq targets[r]
        /\ pc[r] \notin {"purge_vectors", "failed", "completed"} => targets[r] = {}
        /\ call[r].op \notin Removal => purged[r] = {}
        /\ r \in audit => pc[r] = "completed"
        /\ r \in audit => call[r].op \in Removal \/ targets[r] = {}

Lives == Owned /\ Selected

LEMMA InitLives == Init => Lives
BY NullAssumption DEF Init, Lives, Owned, Selected

LEMMA IngestLives ==
    ASSUME Types, Lives, NEW r \in Req, IngestStep(r)
    PROVE  Lives'
<1> USE CallFields, NullAssumption
    DEF Types, TypeOK, Control, Lives, Owned, Selected, Before, Holding, Goto,
        MayWrite, postgres, session, qdrant
<1>1. CASE FindCollection(r) \/ CheckDuplicate(r) \/ EnsureIndex(r) \/ CreateIndex(r)
  BY <1>1 DEF FindCollection, CheckDuplicate, EnsureIndex, CreateIndex
<1>2. CASE AddCollection(r)
  BY <1>2 DEF AddCollection
<1>3. CASE UpsertVectors(r)
  BY <1>3 DEF UpsertVectors
<1>4. CASE FindEntities(r)
  BY <1>4 DEF FindEntities
<1>5. CASE InsertEntity(r)
  BY <1>5 DEF InsertEntity
<1>6. CASE InsertDocument(r)
  <2>1. PICK d \in DocId :
          /\ docState[d] = "unused"
          /\ docState' = [docState EXCEPT ![d] = "pending"]
          /\ row' = [row EXCEPT ![d] =
                       [ns |-> call[r].ns, coll |-> call[r].coll,
                        content |-> call[r].content, created |-> clock]]
          /\ doc' = [doc EXCEPT ![r] = d]
    BY <1>6 DEF InsertDocument, FreshId
  <2>2. ASSUME NEW q \in Req, doc[q] = d PROVE FALSE
    <3>1. pc[q] \in Holding \cup {"completed", "failed"}
      BY <2>2
    <3> QED BY <2>1, <2>2, <3>1
  <2>3. row'[d] \in Row
    <3>1. call[r].coll \in CollName /\ clock \in Nat
      BY <1>6, SMTT(20) DEF InsertDocument
    <3> QED BY <2>1, <3>1 DEF Row
  <2>4. Owned'
    BY <1>6, <2>1, <2>2, <2>3, SMTT(60) DEF InsertDocument
  <2>5. Selected'
    BY <1>6, <2>1 DEF InsertDocument
  <2> QED BY <2>4, <2>5
<1>7. CASE CommitIngest(r)
  <2>1. /\ doc[r] \in DocId /\ docState[doc[r]] = "pending"
        /\ docState' = [docState EXCEPT ![doc[r]] = "live"]
    BY <1>7 DEF CommitIngest
  <2>2. Owned'
    BY <1>7, <2>1 DEF CommitIngest
  <2>3. Selected'
    BY <1>7, <2>1 DEF CommitIngest
  <2> QED BY <2>2, <2>3
<1> QED BY <1>1, <1>2, <1>3, <1>4, <1>5, <1>6, <1>7 DEF IngestStep

LEMMA RemovalLives ==
    ASSUME Types, Lives, NEW r \in Req, RemovalStep(r)
    PROVE  Lives'
<1> USE CallFields, NullAssumption
    DEF Types, TypeOK, Control, Lives, Owned, Selected, Before, Holding, Removal, Goto,
        MayWrite, Select, postgres, session, qdrant
<1>1. CASE LookupDocument(r)
  BY <1>1, SMTT(40) DEF LookupDocument
<1>2. CASE SelectExpired(r)
  BY <1>2 DEF SelectExpired
<1>3. CASE SelectMatching(r)
  BY <1>3 DEF SelectMatching, Matches
<1>4. CASE PurgeVectors(r)
  BY <1>4 DEF PurgeVectors
<1>5. CASE CommitRemoval(r)
  BY <1>5 DEF CommitRemoval
<1> QED BY <1>1, <1>2, <1>3, <1>4, <1>5 DEF RemovalStep

LEMMA OtherLives ==
    ASSUME Types, Lives, NEW r \in Req,
           RetainStep(r) \/ Refuse(r) \/ (AtWork(r) /\ Abort(r))
    PROVE  Lives'
<1> USE CallFields, NullAssumption
    DEF Types, TypeOK, Control, Lives, Owned, Selected, Before, Holding, Removal, Goto,
        MayWrite, postgres, session, qdrant
<1>1. CASE ReadCollection(r)
  BY <1>1 DEF ReadCollection
<1>2. CASE CommitRetention(r)
  BY <1>2 DEF CommitRetention
<1>3. CASE Refuse(r)
  BY <1>3 DEF Refuse
<1>4. CASE AtWork(r) /\ Abort(r)
  <2>1. doc[r] \in DocId => docState[doc[r]] = "pending"
    BY <1>4 DEF AtWork, Answered
  <2>2. Owned'
    BY <1>4, <2>1 DEF AtWork, Answered, Abort, Rollback
  <2>3. Selected'
    BY <1>4, <2>1 DEF AtWork, Answered, Abort, Rollback
  <2> QED BY <2>2, <2>3
<1> QED BY <1>1, <1>2, <1>3, <1>4 DEF RetainStep

LEMMA StepLives == Types /\ Lives /\ [Next]_vars => Lives'
<1> SUFFICES ASSUME Types, Lives, [Next]_vars PROVE Lives'
  OBVIOUS
<1>1. ASSUME NEW r \in Req, Step(r) \/ DeadlockVictim(r) \/ Fail(r) PROVE Lives'
  BY <1>1, IngestLives, RemovalLives, OtherLives, AbortCases DEF Step
<1>2. CASE Tick \/ Quiet \/ UNCHANGED vars
  BY <1>2
  DEF Tick, Quiet, vars, Lives, Owned, Selected, MayWrite, postgres, session, qdrant
<1> QED BY <1>1, <1>2 DEF Next

LEMMA LivesCorrect == Spec => [](Types /\ Lives)
BY InitTypes, StepTypes, InitLives, StepLives, PTL DEF Spec

\* Row and existence of an inserted document are for ever, and so is its deletion, the
\* only thing that can happen to a committed one.
RowsKept ==
    \A d \in DocId : docState[d] # "unused" =>
        /\ docState'[d] # "unused" /\ row'[d] = row[d]
        /\ docState[d] = "live" => docState'[d] \in {"live", "deleted"}
        /\ docState[d] = "deleted" => docState'[d] = "deleted"

LEMMA DocumentsKept ==
    ASSUME Types, Lives, [Next]_vars
    PROVE  RowsKept
<1> USE DEF RowsKept
<1>1. ASSUME NEW r \in Req, CommitRemoval(r) PROVE RowsKept
  BY <1>1 DEF CommitRemoval
<1>2. ASSUME NEW r \in Req, InsertDocument(r) PROVE RowsKept
  <2>1. PICK d \in DocId :
          /\ docState[d] = "unused"
          /\ docState' = [docState EXCEPT ![d] = "pending"]
          /\ \A e \in DocId \ {d} : row'[e] = row[e]
    BY <1>2 DEF InsertDocument, FreshId, Types, TypeOK
  <2> QED BY <2>1 DEF Types, TypeOK
<1>3. ASSUME NEW r \in Req, CommitIngest(r) PROVE RowsKept
  <2>1. docState[doc[r]] = "pending"
    BY <1>3 DEF CommitIngest, Types, Control, Lives, Owned, Holding
  <2> QED BY <1>3, <2>1 DEF CommitIngest, Types, TypeOK
<1>4. ASSUME NEW r \in Req, AtWork(r) /\ Abort(r) PROVE RowsKept
  <2>1. doc[r] # NoDoc => docState[doc[r]] = "pending"
    BY <1>4 DEF AtWork, Answered, Types, TypeOK, Control, Lives, Owned
  <2> QED BY <1>4, <2>1 DEF Abort, Rollback, Types, TypeOK
<1>5. ASSUME UNCHANGED <<docState, row>> PROVE RowsKept
  BY <1>5
<1>6. ASSUME NEW r \in Req,
             \/ FindCollection(r) \/ AddCollection(r) \/ CheckDuplicate(r)
             \/ EnsureIndex(r) \/ CreateIndex(r) \/ FindEntities(r) \/ InsertEntity(r)
             \/ UpsertVectors(r) \/ LookupDocument(r) \/ SelectExpired(r)
             \/ SelectMatching(r) \/ PurgeVectors(r) \/ RetainStep(r) \/ Refuse(r)
      PROVE  RowsKept
  BY <1>5, <1>6
  DEF FindCollection, AddCollection, CheckDuplicate, EnsureIndex, CreateIndex,
      FindEntities, InsertEntity, UpsertVectors, LookupDocument, SelectExpired,
      SelectMatching, Select, PurgeVectors, RetainStep, ReadCollection, CommitRetention,
      Refuse, postgres
<1>7. CASE Tick \/ Quiet \/ UNCHANGED vars
  BY <1>5, <1>7 DEF Tick, Quiet, vars, postgres
<1> QED BY <1>1, <1>2, <1>3, <1>4, <1>6, <1>7, AbortCases
        DEF Next, Step, IngestStep, RemovalStep

\* Whatever filter selected them, the documents a committed removal names lie in
\* namespaces its caller may write to.
THEOREM RemovalsAuthorisedAlways == Spec => []RemovalsAuthorised
<1>1. Types /\ Lives => RemovalsAuthorised
  BY DEF Types, TypeOK, Lives, Selected, RemovalsAuthorised
<1> QED BY LivesCorrect, <1>1, PTL

-----------------------------------------------------------------------------
\* A file is stored once per namespace.

LEMMA InitUnique == Init => UniqueContent
BY DEF Init, UniqueContent

LEMMA IngestUnique ==
    ASSUME Types, Lives, UniqueContent, NEW r \in Req, IngestStep(r)
    PROVE  UniqueContent'
<1> USE NullAssumption DEF Types, TypeOK, Lives, Owned, UniqueContent, postgres, session, qdrant
<1>1. CASE InsertDocument(r)
  <2>1. PICK d \in DocId :
          /\ docState[d] = "unused"
          /\ docState' = [docState EXCEPT ![d] = "pending"]
          /\ row' = [row EXCEPT ![d] =
                       [ns |-> call[r].ns, coll |-> call[r].coll,
                        content |-> call[r].content, created |-> clock]]
    BY <1>1 DEF InsertDocument, FreshId
  <2>2. \A e \in DocId : docState[e] \in {"pending", "live"}
           => <<row[e].ns, row[e].content>> # <<call[r].ns, call[r].content>>
    BY <1>1 DEF InsertDocument, HashTaken, HoldsContent, SameContent
  <2> QED BY <2>1, <2>2
<1>2. CASE CommitIngest(r)
  BY <1>2 DEF CommitIngest, Control, Holding
<1>3. CASE ~InsertDocument(r) /\ ~CommitIngest(r)
  <2>1. UNCHANGED <<docState, row>>
    BY <1>3 DEF IngestStep, FindCollection, AddCollection, CheckDuplicate, EnsureIndex,
                CreateIndex, UpsertVectors, FindEntities, InsertEntity
  <2> QED BY <2>1
<1> QED BY <1>1, <1>2, <1>3

LEMMA OtherUnique ==
    ASSUME Types, Lives, UniqueContent, NEW r \in Req,
           RemovalStep(r) \/ RetainStep(r) \/ Refuse(r) \/ (AtWork(r) /\ Abort(r))
    PROVE  UniqueContent'
<1> USE DEF UniqueContent, postgres, session, qdrant
<1>1. row' = row /\ \A d \in DocId : docState'[d] \in {"pending", "live"}
                                      => docState'[d] = docState[d]
  <2>1. CASE CommitRemoval(r)
    BY <2>1 DEF CommitRemoval
  <2>2. CASE AtWork(r) /\ Abort(r)
    BY <2>2 DEF Abort, Rollback, Types, TypeOK
  <2>3. CASE ~CommitRemoval(r) /\ ~(AtWork(r) /\ Abort(r))
    BY <2>3 DEF RemovalStep, LookupDocument, SelectExpired, SelectMatching, PurgeVectors,
                Select, RetainStep, ReadCollection, CommitRetention, Refuse
  <2> QED BY <2>1, <2>2, <2>3
<1> QED BY <1>1

\* However many ingests of one file race, at most one row with its content is
\* committed or waiting to be in a namespace.
THEOREM UniqueContentAlways == Spec => []UniqueContent
<1>1. Types /\ Lives /\ UniqueContent /\ [Next]_vars => UniqueContent'
  <2> SUFFICES ASSUME Types, Lives, UniqueContent, [Next]_vars PROVE UniqueContent'
    OBVIOUS
  <2>1. ASSUME NEW r \in Req, Step(r) \/ DeadlockVictim(r) \/ Fail(r)
        PROVE  UniqueContent'
    BY <2>1, IngestUnique, OtherUnique, AbortCases DEF Step
  <2>2. CASE Tick \/ Quiet \/ UNCHANGED vars
    BY <2>2 DEF Tick, Quiet, vars, UniqueContent, postgres
  <2> QED BY <2>1, <2>2 DEF Next
<1> QED BY LivesCorrect, InitUnique, <1>1, PTL DEF Spec

-----------------------------------------------------------------------------
\* The index and the documents table.

\* Vectors belong to documents that are not deleted, an ingest past its upsert
\* has its vectors if it has any text, and purged vectors do not come back.
Stored ==
    /\ \A d \in vectors : docState[d] \in {"pending", "live", "aborted"}
    /\ \A r \in Req : pc[r] \in {"find_entities", "flush_entities"}
                    => call[r].content \in Blank \/ doc[r] \in vectors
    /\ \A r \in Req : \A d \in purged[r] : d \notin vectors
    /\ IndexedUntilPurged

LEMMA InitStored == Init => Stored
BY DEF Init, Stored, IndexedUntilPurged

LEMMA IngestStored ==
    ASSUME Types, Lives, Stored, NEW r \in Req, IngestStep(r)
    PROVE  Stored'
<1> USE NullAssumption
    DEF Types, TypeOK, Control, Lives, Owned, Selected, Holding, Before, Removal, Stored,
        IndexedUntilPurged, Goto, postgres, session, qdrant
<1>1. CASE FindCollection(r)
  BY <1>1 DEF FindCollection
<1>2. CASE AddCollection(r)
  BY <1>2 DEF AddCollection
<1>3. CASE CheckDuplicate(r)
  BY <1>3 DEF CheckDuplicate
<1>4. CASE EnsureIndex(r)
  BY <1>4 DEF EnsureIndex
<1>5. CASE CreateIndex(r)
  BY <1>5 DEF CreateIndex
<1>6. CASE InsertDocument(r)
  <2>1. PICK d \in DocId :
          /\ docState[d] = "unused"
          /\ docState' = [docState EXCEPT ![d] = "pending"]
          /\ doc' = [doc EXCEPT ![r] = d]
    BY <1>6 DEF InsertDocument, FreshId
  <2> QED BY <1>6, <2>1 DEF InsertDocument
<1>7. CASE UpsertVectors(r)
  BY <1>7 DEF UpsertVectors
<1>8. CASE FindEntities(r)
  BY <1>8 DEF FindEntities
<1>9. CASE InsertEntity(r)
  BY <1>9 DEF InsertEntity
<1>10. CASE CommitIngest(r)
  BY <1>10 DEF CommitIngest
<1> QED BY <1>1, <1>2, <1>3, <1>4, <1>5, <1>6, <1>7, <1>8, <1>9, <1>10 DEF IngestStep

LEMMA OtherStored ==
    ASSUME Types, Lives, Stored, NEW r \in Req,
           RemovalStep(r) \/ RetainStep(r) \/ Refuse(r) \/ (AtWork(r) /\ Abort(r))
    PROVE  Stored'
<1> USE NullAssumption
    DEF Types, TypeOK, Control, Lives, Owned, Selected, Holding, Before, Removal, Stored,
        IndexedUntilPurged, Goto, Select, postgres, session, qdrant
<1>1. CASE LookupDocument(r)
  BY <1>1 DEF LookupDocument
<1>2. CASE SelectExpired(r)
  BY <1>2 DEF SelectExpired
<1>3. CASE SelectMatching(r)
  BY <1>3 DEF SelectMatching
<1>4. CASE PurgeVectors(r)
  BY <1>4 DEF PurgeVectors, PointsOf
<1>5. CASE CommitRemoval(r)
  BY <1>5 DEF CommitRemoval, AllPurged
<1>6. CASE ReadCollection(r)
  BY <1>6 DEF ReadCollection
<1>7. CASE CommitRetention(r)
  BY <1>7 DEF CommitRetention
<1>8. CASE Refuse(r)
  BY <1>8 DEF Refuse
<1>9. CASE AtWork(r) /\ Abort(r)
  BY <1>9 DEF AtWork, Answered, Abort, Rollback
<1> QED BY <1>1, <1>2, <1>3, <1>4, <1>5, <1>6, <1>7, <1>8, <1>9 DEF RemovalStep, RetainStep

LEMMA StoredCorrect == Spec => [](Types /\ Lives /\ Stored)
<1>1. Types /\ Lives /\ Stored /\ [Next]_vars => Stored'
  <2> SUFFICES ASSUME Types, Lives, Stored, [Next]_vars PROVE Stored'
    OBVIOUS
  <2>1. ASSUME NEW r \in Req, Step(r) \/ DeadlockVictim(r) \/ Fail(r) PROVE Stored'
    BY <2>1, IngestStored, OtherStored, AbortCases DEF Step
  <2>2. CASE Tick \/ Quiet \/ UNCHANGED vars
    BY <2>2
    DEF Tick, Quiet, vars, Stored, IndexedUntilPurged, postgres, session, qdrant
  <2> QED BY <2>1, <2>2 DEF Next
<1> QED BY LivesCorrect, InitStored, <1>1, PTL DEF Spec

\* A removed document leaves no vectors behind, and no vectors exist without a
\* committed document, an ingest at work or one that failed.
THEOREM VectorsExplainedAlways == Spec => []VectorsExplained
<1>1. Types /\ Lives /\ Stored => VectorsExplained
  <2> SUFFICES ASSUME Types, Lives, Stored, NEW d \in vectors, docState[d] # "live"
               PROVE  /\ docState[d] \in {"pending", "aborted"}
                      /\ \E r \in Req : doc[r] = d /\ (AtWork(r) \/ pc[r] = "failed")
    BY DEF VectorsExplained
  <2>1. d \in DocId /\ docState[d] \in {"pending", "aborted"}
    BY DEF Types, TypeOK, Stored
  <2>2. PICK r \in Req : doc[r] = d
    BY <2>1 DEF Lives, Owned
  <2>3. pc[r] \in Holding \/ pc[r] = "failed"
    BY <2>1, <2>2 DEF Types, Control, Lives, Owned
  <2> QED BY <2>1, <2>2, <2>3 DEF Holding, AtWork, Answered
<1> QED BY StoredCorrect, <1>1, PTL

\* A committed document with text that vector search cannot find was purged by a
\* removal that is under way or failed.
THEOREM IndexedUntilPurgedAlways == Spec => []IndexedUntilPurged
<1>1. Stored => IndexedUntilPurged
  BY DEF Stored
<1> QED BY StoredCorrect, <1>1, PTL

-----------------------------------------------------------------------------
\* The audit trail.

LEMMA InitAudited == Init => RemovalsAudited
BY DEF Init, RemovalsAudited

\* Only CommitRemoval deletes, and only it adds a removal to the audit trail.
LEMMA StepAudited == Types /\ Lives /\ RemovalsAudited /\ [Next]_vars => RemovalsAudited'
<1> SUFFICES ASSUME Types, Lives, RemovalsAudited, [Next]_vars
             PROVE  RemovalsAudited'
  OBVIOUS
<1> USE DEF RemovalsAudited, postgres, session, qdrant
<1>1. ASSUME NEW r \in Req, CommitRemoval(r) PROVE RemovalsAudited'
  BY <1>1 DEF CommitRemoval, Types, TypeOK
<1>2. ASSUME NEW r \in Req, CommitRetention(r) PROVE RemovalsAudited'
  <2>1. targets[r] = {}
    BY <1>2 DEF CommitRetention, Lives, Selected
  <2> QED BY <1>2, <2>1 DEF CommitRetention
<1>3. ASSUME NEW r \in Req, LookupDocument(r) \/ SelectExpired(r) \/ SelectMatching(r)
      PROVE  RemovalsAudited'
  <2>1. r \notin audit
    BY <1>3 DEF LookupDocument, SelectExpired, SelectMatching, Lives, Selected
  <2>2. /\ UNCHANGED <<docState, audit>>
        /\ \A q \in Req : q # r => targets'[q] = targets[q]
    BY <1>3 DEF LookupDocument, SelectExpired, SelectMatching, Select, Types, TypeOK
  <2>3. audit \subseteq Req
    BY DEF Types, TypeOK
  <2>4. \A d \in DocId, q \in audit : d \in targets'[q] <=> d \in targets[q]
    BY <2>1, <2>2, <2>3
  <2> QED BY <2>1, <2>2, <2>3
<1>4. ASSUME UNCHANGED <<audit, targets>>,
             \A d \in DocId : docState'[d] = "deleted" <=> docState[d] = "deleted"
      PROVE  RemovalsAudited'
  BY <1>4 DEF Types, TypeOK
<1>5. ASSUME NEW r \in Req, IngestStep(r) PROVE RemovalsAudited'
  <2>1. CASE InsertDocument(r)
    BY <1>4, <2>1 DEF InsertDocument, FreshId, Types, TypeOK
  <2>2. CASE CommitIngest(r)
    <3>1. docState[doc[r]] = "pending" /\ doc[r] \in DocId
      BY <2>2 DEF CommitIngest, Types, Control, Lives, Owned, Holding
    <3> QED BY <1>4, <2>2, <3>1 DEF CommitIngest, Types, TypeOK
  <2>3. CASE ~InsertDocument(r) /\ ~CommitIngest(r)
    BY <1>4, <1>5, <2>3
    DEF IngestStep, FindCollection, AddCollection, CheckDuplicate, EnsureIndex,
        CreateIndex, UpsertVectors, FindEntities, InsertEntity
  <2> QED BY <2>1, <2>2, <2>3
<1>6. ASSUME NEW r \in Req, AtWork(r) /\ Abort(r) PROVE RemovalsAudited'
  <2>1. doc[r] \in DocId => docState[doc[r]] = "pending"
    BY <1>6 DEF AtWork, Answered, Types, Control, Lives, Owned
  <2>2. doc[r] # NoDoc => doc[r] \in DocId
    BY DEF Types, TypeOK
  <2> QED BY <1>4, <1>6, <2>1, <2>2 DEF Abort, Rollback, Types, TypeOK
<1>7. ASSUME NEW r \in Req, PurgeVectors(r) \/ ReadCollection(r) \/ Refuse(r)
      PROVE  RemovalsAudited'
  BY <1>4, <1>7 DEF PurgeVectors, ReadCollection, Refuse
<1>8. CASE Tick \/ Quiet \/ UNCHANGED vars
  BY <1>4, <1>8 DEF Tick, Quiet, vars
<1> QED BY <1>1, <1>2, <1>3, <1>5, <1>6, <1>7, <1>8, AbortCases
        DEF Next, Step, RemovalStep, RetainStep

\* The audit trail accounts for every removed document, and for nothing that is
\* still there.
THEOREM RemovalsAuditedAlways == Spec => []RemovalsAudited
BY LivesCorrect, InitAudited, StepAudited, PTL DEF Spec

\* A document leaves the corpus only by a committed removal that selected it and
\* never comes back, nor do its vectors.
THEOREM NoResurrectionAlways == Spec => NoResurrection
<1> DEFINE Kept ==
      \A d \in DocId :
          /\ docState[d] = "live" /\ docState'[d] # "live"
             => \E r \in audit' \ audit : d \in targets[r]
          /\ docState[d] \in {"aborted", "deleted"}
             => docState'[d] = docState[d] /\ (d \in vectors' => d \in vectors)
<1>1. Types /\ Lives /\ Stored /\ [Next]_vars => [Kept]_vars
  <2> SUFFICES ASSUME Types, Lives, Stored, Next PROVE Kept
    OBVIOUS
  <2>1. ASSUME NEW r \in Req, CommitRemoval(r) PROVE Kept
    <3>1. r \notin audit
      BY <2>1 DEF CommitRemoval, Lives, Selected
    <3>2. \A d \in targets[r] : docState[d] \in {"live", "deleted"}
      BY DEF Lives, Selected
    <3> QED BY <2>1, <3>1, <3>2 DEF CommitRemoval, qdrant
  <2>2. ASSUME NEW r \in Req, InsertDocument(r) \/ UpsertVectors(r) \/ CommitIngest(r)
        PROVE  Kept
    <3>1. CASE InsertDocument(r)
      BY <3>1 DEF InsertDocument, FreshId, Types, TypeOK, qdrant
    <3>2. CASE ~InsertDocument(r)
      <4>1. docState[doc[r]] = "pending"
        BY <2>2, <3>2
        DEF UpsertVectors, CommitIngest, Types, Control, Lives, Owned, Holding
      <4> QED BY <2>2, <3>2, <4>1
              DEF UpsertVectors, CommitIngest, Types, TypeOK, postgres, qdrant
    <3> QED BY <3>1, <3>2
  <2>3. ASSUME NEW r \in Req, AtWork(r) /\ Abort(r) PROVE Kept
    <3>1. doc[r] # NoDoc => docState[doc[r]] = "pending"
      BY <2>3 DEF AtWork, Answered, Types, TypeOK, Control, Lives, Owned
    <3> QED BY <2>3, <3>1 DEF Abort, Rollback, Types, TypeOK, qdrant
  <2>4. ASSUME UNCHANGED docState, vectors' \subseteq vectors PROVE Kept
    BY <2>4
  <2>5. ASSUME NEW r \in Req, PurgeVectors(r) PROVE Kept
    BY <2>4, <2>5 DEF PurgeVectors, postgres
  <2>6. ASSUME NEW r \in Req,
               \/ FindCollection(r) \/ AddCollection(r) \/ CheckDuplicate(r)
               \/ EnsureIndex(r) \/ CreateIndex(r) \/ FindEntities(r) \/ InsertEntity(r)
               \/ LookupDocument(r) \/ SelectExpired(r) \/ SelectMatching(r)
               \/ RetainStep(r) \/ Refuse(r)
        PROVE  Kept
    BY <2>4, <2>6
    DEF FindCollection, AddCollection, CheckDuplicate, EnsureIndex, CreateIndex,
        FindEntities, InsertEntity, LookupDocument, SelectExpired, SelectMatching, Select,
        RetainStep, ReadCollection, CommitRetention, Refuse, postgres, qdrant
  <2>7. CASE Tick \/ Quiet
    BY <2>4, <2>7 DEF Tick, Quiet, vars, postgres, qdrant
  <2> QED BY <2>1, <2>2, <2>3, <2>5, <2>6, <2>7, AbortCases
          DEF Next, Step, IngestStep, RemovalStep
<1> QED BY StoredCorrect, <1>1, PTL DEF Spec, NoResurrection

-----------------------------------------------------------------------------
\* Collections.

\* An uncommitted collection is the only one of its name; what a request has found
\* or inserted stays there for it.
Collected ==
    /\ \A r \in newColl : collection[KeyOf(r)] = Absent
    /\ \A q, r \in newColl : KeyOf(q) = KeyOf(r) => q = r
    /\ \A r \in Req : pc[r] \in (Before \cup Holding) \ {"add_collection"}
                    => r \in newColl \/ collection[KeyOf(r)] # Absent
    /\ \A r \in Req : pc[r] = "set_retention" /\ seen[r] # Absent
                    => collection[KeyOf(r)] # Absent

\* How the collections table may change in one step of request r.
CollectionsStay(r) ==
    \A k \in CollKey : collection[k] # Absent /\ collection'[k] # collection[k]
                     => call[r].op = "retain" /\ KeyOf(r) = k /\ r \in audit' \ audit

LEMMA InitCollected == Init => Collected
BY DEF Init, Collected, Before, Holding

LEMMA StepCollected ==
    ASSUME Types, Lives, Collected, NEW r \in Req, Step(r) \/ DeadlockVictim(r) \/ Fail(r)
    PROVE  Collected' /\ CollectionsStay(r)
<1> USE NullAssumption, CallFields
    DEF Types, TypeOK, Control, Before, Holding, Collected, CollectionsStay, Goto, KeyOf,
        postgres, session, qdrant
<1>1. CASE FindCollection(r)
  <2>1. /\ pc[r] = "arrived" /\ UNCHANGED <<call, collection, newColl, seen>>
        /\ \/ pc' = [pc EXCEPT ![r] = "add_collection"]
           \/ /\ pc' = [pc EXCEPT ![r] = "check_duplicate"]
              /\ collection[KeyOf(r)] # Absent
    BY <1>1 DEF FindCollection
  <2>2. CollectionsStay(r)
    BY <2>1
  <2>3. Collected'
    BY <2>1, SMTT(60)
  <2> QED BY <2>2, <2>3
<1>2. CASE AddCollection(r)
  <2>1. /\ pc[r] = "add_collection" /\ collection[KeyOf(r)] = Absent
        /\ newColl' = newColl \cup {r} /\ pc' = [pc EXCEPT ![r] = "check_duplicate"]
        /\ UNCHANGED <<call, collection, seen>>
        /\ \A q \in newColl \ {r} : KeyOf(q) # KeyOf(r)
    BY <1>2 DEF AddCollection, CollectionLocked
  <2>2. CollectionsStay(r)
    BY <2>1
  <2>3. Collected'
    BY <2>1, SMTT(60)
  <2> QED BY <2>2, <2>3
<1>3. CASE CheckDuplicate(r)
  <2>1. /\ pc[r] = "check_duplicate" /\ UNCHANGED <<call, collection, seen>>
        /\ \/ pc' = [pc EXCEPT ![r] = "skipped"] /\ newColl' = newColl \ {r}
           \/ pc' = [pc EXCEPT ![r] = "ensure_index"] /\ newColl' = newColl
    BY <1>3 DEF CheckDuplicate
  <2>2. CollectionsStay(r)
    BY <2>1
  <2>3. Collected'
    BY <2>1, SMTT(60)
  <2> QED BY <2>2, <2>3
<1>4. CASE EnsureIndex(r) \/ CreateIndex(r)
  BY <1>4, SMTT(20) DEF EnsureIndex, CreateIndex
<1>5. CASE InsertDocument(r)
  <2>1. /\ pc[r] = "insert_document" /\ pc' = [pc EXCEPT ![r] = "upsert_vectors"]
        /\ UNCHANGED <<call, collection, newColl, seen>>
    BY <1>5 DEF InsertDocument
  <2> QED BY <2>1
<1>6. CASE UpsertVectors(r)
  BY <1>6 DEF UpsertVectors
<1>7. CASE FindEntities(r) \/ InsertEntity(r)
  BY <1>7 DEF FindEntities, InsertEntity
<1>8. CASE CommitIngest(r)
  <2>1. KeyOf(r) \in CollKey
    BY <1>8 DEF CommitIngest
  <2>2. \A k \in CollKey : \/ collection'[k] = collection[k]
                           \/ r \in newColl /\ k = KeyOf(r) /\ collection'[k] = NoPeriod
    BY <1>8, <2>1 DEF CommitIngest
  <2>3. /\ newColl' = newColl \ {r} /\ pc' = [pc EXCEPT ![r] = "completed"]
        /\ UNCHANGED <<call, seen, audit>>
    BY <1>8 DEF CommitIngest
  <2>4. \A q \in newColl \cup {q \in Req : pc[q] \in Before \cup Holding \cup {"set_retention"}} :
           KeyOf(q) \in CollKey
    OBVIOUS
  <2>5. NoPeriod # Absent
    OBVIOUS
  <2>6. CollectionsStay(r)
    BY <2>2
  <2>7. \A q \in Req : KeyOf(q)' = KeyOf(q)
    BY <2>3
  <2>8. Collected'
    BY <2>2, <2>3, <2>4, <2>5
  <2> QED BY <2>6, <2>8
<1>9. CASE LookupDocument(r)
  <2>1. /\ UNCHANGED <<call, collection, newColl, seen>>
        /\ \E l \in {"purge_vectors", "refused", "not_found"} : pc' = [pc EXCEPT ![r] = l]
    BY <1>9 DEF LookupDocument, Select
  <2>2. CollectionsStay(r)
    BY <2>1
  <2> QED BY <2>1, <2>2, SMTT(30)
<1>10. CASE SelectExpired(r) \/ SelectMatching(r)
  <2>1. /\ UNCHANGED <<call, collection, newColl, seen>>
        /\ \E l \in {"purge_vectors", "completed"} : pc' = [pc EXCEPT ![r] = l]
    BY <1>10 DEF SelectExpired, SelectMatching, Select
  <2>2. CollectionsStay(r)
    BY <2>1
  <2> QED BY <2>1, <2>2, SMTT(30)
<1>11. CASE PurgeVectors(r) \/ CommitRemoval(r)
  BY <1>11 DEF PurgeVectors, CommitRemoval
<1>12. CASE ReadCollection(r)
  BY <1>12, SMTT(20) DEF ReadCollection
<1>13. CASE CommitRetention(r)
  <2>1. KeyOf(r) \in CollKey /\ call[r].period # Absent /\ r \notin newColl
    BY <1>13 DEF CommitRetention
  <2>2. r \notin audit
    BY <1>13 DEF CommitRetention, Lives, Selected
  <2>3. \A k \in CollKey : \/ collection'[k] = collection[k]
                           \/ k = KeyOf(r) /\ collection'[k] = call[r].period
    BY <1>13, <2>1 DEF CommitRetention, NewRetention
  <2>4. \A q \in newColl : KeyOf(q) # KeyOf(r)
    BY <1>13, <2>1 DEF CommitRetention, CollectionLocked
  <2>5. /\ pc' = [pc EXCEPT ![r] = "completed"] /\ audit' = audit \cup {r}
        /\ UNCHANGED <<call, seen, newColl>> /\ call[r].op = "retain"
    BY <1>13 DEF CommitRetention
  <2>6. CollectionsStay(r)
    BY <2>2, <2>3, <2>5
  <2>7. \A q \in Req : KeyOf(q)' = KeyOf(q)
    BY <2>5
  <2>8. \A q \in Req : q # r => (pc'[q] = pc[q])
    BY <2>5
  <2>9. \A k \in CollKey : collection[k] # Absent => collection'[k] # Absent
    BY <2>1, <2>3
  <2>10. \A q \in newColl : collection'[KeyOf(q)] = collection[KeyOf(q)]
    BY <2>3, <2>4
  <2>11. Collected'
    BY <2>1, <2>5, <2>7, <2>8, <2>9, <2>10, SMTT(30)
  <2> QED BY <2>6, <2>11
<1>14. CASE Refuse(r)
  BY <1>14 DEF Refuse
<1>15. CASE AtWork(r) /\ Abort(r)
  BY <1>15 DEF AtWork, Abort, Rollback
<1> QED BY <1>1, <1>2, <1>3, <1>4, <1>5, <1>6, <1>7, <1>8, <1>9, <1>10, <1>11, <1>12, <1>13,
           <1>14, <1>15, AbortCases DEF Step, IngestStep, RemovalStep, RetainStep

LEMMA CollectedCorrect == Spec => [](Types /\ Lives /\ Collected)
<1>1. Types /\ Lives /\ Collected /\ [Next]_vars => Collected'
  <2> SUFFICES ASSUME Types, Lives, Collected, [Next]_vars PROVE Collected'
    OBVIOUS
  <2>1. CASE Tick \/ Quiet \/ UNCHANGED vars
    BY <2>1 DEF Tick, Quiet, vars, Collected, KeyOf, postgres, session
  <2> QED BY <2>1, StepCollected DEF Next
<1> QED BY LivesCorrect, InitCollected, <1>1, PTL DEF Spec

\* The retention of a collection changes only by an upsert of that collection, so
\* an ingest that creates it concurrently cannot overwrite it.
THEOREM RetentionSticksAlways == Spec => RetentionSticks
<1>1. Types /\ Lives /\ Collected /\ [Next]_vars =>
        [\A k \in CollKey :
            collection[k] # Absent /\ collection'[k] # collection[k]
            => \E r \in audit' \ audit : call[r].op = "retain" /\ KeyOf(r) = k]_vars
  <2> SUFFICES ASSUME Types, Lives, Collected, Next, NEW k \in CollKey,
                      collection[k] # Absent, collection'[k] # collection[k]
               PROVE  \E r \in audit' \ audit : call[r].op = "retain" /\ KeyOf(r) = k
    OBVIOUS
  <2>1. PICK r \in Req : Step(r) \/ DeadlockVictim(r) \/ Fail(r)
    BY DEF Next, Tick, Quiet, vars, postgres
  <2>2. CollectionsStay(r)
    BY <2>1, StepCollected
  <2> QED BY <2>2 DEF CollectionsStay
<1> QED BY CollectedCorrect, <1>1, PTL DEF Spec, RetentionSticks

\* Every entity a document mentions is known to its ingest once it has looked.
Mentioned ==
    \A r \in Req : pc[r] = "flush_entities" =>
        {call[r].ns} \X (EntitiesOf[call[r].content] \ (missing[r] \cup newEnts[r]))
            \subseteq entities

Resolved == ReferencesResolved /\ Mentioned

LEMMA InitResolved == Init => Resolved
BY DEF Init, Resolved, ReferencesResolved, Mentioned

\* Steps that commit no document keep what the committed ones refer to, because
\* entities and collections are never deleted.
LEMMA KeptResolved ==
    ASSUME Types, ReferencesResolved, entities \subseteq entities',
           \A d \in DocId : docState'[d] = "live" => docState[d] = "live",
           \A d \in DocId : docState[d] = "live" => row'[d] = row[d],
           \A d \in DocId : docState[d] = "live" =>
               (RetentionOf(d) # Absent => RetentionOf(d)' # Absent)
    PROVE  ReferencesResolved'
BY DEF ReferencesResolved

LEMMA StepResolved ==
    ASSUME Types, Lives, Collected, Resolved, NEW r \in Req,
           Step(r) \/ DeadlockVictim(r) \/ Fail(r)
    PROVE  Resolved'
<1> USE NullAssumption, CallFields, DataAssumption DEF Resolved, Types, TypeOK
<1>1. CASE FindEntities(r)
  <2>1. UNCHANGED <<docState, row, collection, entities, newEnts, call>>
    BY <1>1 DEF FindEntities, postgres
  <2>2. ReferencesResolved'
    BY <2>1 DEF ReferencesResolved, RetentionOf
  <2>3. Mentioned'
    BY <1>1, <2>1 DEF Mentioned, FindEntities, KnownEntities, Goto
  <2> QED BY <2>2, <2>3
<1>2. CASE InsertEntity(r)
  <2>1. UNCHANGED <<docState, row, collection, entities, pc, call>>
    BY <1>2 DEF InsertEntity, postgres
  <2>2. ReferencesResolved'
    BY <2>1 DEF ReferencesResolved, RetentionOf
  <2>3. Mentioned'
    BY <1>2, <2>1 DEF Mentioned, InsertEntity
  <2> QED BY <2>2, <2>3
<1>3. CASE CommitIngest(r)
  <2> DEFINE n == doc[r]
  <2>1. /\ n \in DocId /\ docState[n] = "pending" /\ row[n] \in Row
        /\ row[n].ns = call[r].ns /\ row[n].coll = call[r].coll
        /\ row[n].content = call[r].content /\ KeyOf(r) \in CollKey
    BY <1>3 DEF CommitIngest, Control, Holding, Lives, Owned
  <2>2. /\ docState' = [docState EXCEPT ![n] = "live"]
        /\ entities' = entities \cup ({call[r].ns} \X newEnts[r])
        /\ row' = row
    BY <1>3 DEF CommitIngest
  <2>3. /\ collection' \in [CollKey -> Nat \cup {NoPeriod, Absent}]
        /\ collection'[KeyOf(r)] # Absent
        /\ \A k \in CollKey : collection[k] # Absent => collection'[k] # Absent
    <3>1. r \in newColl \/ collection[KeyOf(r)] # Absent
      BY <1>3 DEF CommitIngest, Collected, Holding, Before
    <3>2. CASE r \in newColl
      BY <1>3, <2>1, <3>2 DEF CommitIngest
    <3>3. CASE r \notin newColl
      BY <1>3, <3>1, <3>3 DEF CommitIngest
    <3> QED BY <3>2, <3>3
  <2>4. {row[n].ns} \X EntitiesOf[row[n].content] \subseteq entities'
    BY <1>3, <2>1, <2>2 DEF CommitIngest, Mentioned
  <2>5. ASSUME NEW d \in DocId, docState'[d] = "live"
        PROVE  /\ RetentionOf(d)' # Absent
               /\ {row'[d].ns} \X EntitiesOf[row'[d].content] \subseteq entities'
    <3>1. CASE d = n
      <4>1. <<row[d].ns, row[d].coll>> = KeyOf(r)
        BY <2>1, <3>1 DEF KeyOf
      <4> QED BY <2>2, <2>3, <2>4, <3>1, <4>1 DEF RetentionOf
    <3>2. CASE d # n
      <4>1. /\ docState[d] = "live" /\ RetentionOf(d) # Absent
            /\ {row[d].ns} \X EntitiesOf[row[d].content] \subseteq entities
        BY <2>1, <2>2, <2>5, <3>2 DEF ReferencesResolved
      <4>2. row[d] \in Row
        BY <4>1 DEF Lives, Owned
      <4>3. <<row[d].ns, row[d].coll>> \in CollKey
        BY <4>2 DEF Row, CollKey
      <4> QED BY <2>2, <2>3, <4>1, <4>3 DEF RetentionOf
    <3> QED BY <3>1, <3>2
  <2>6. ReferencesResolved'
    BY <2>5 DEF ReferencesResolved
  <2>7. Mentioned'
    BY <1>3, <2>2 DEF Mentioned, CommitIngest, Goto
  <2> QED BY <2>6, <2>7
<1>4. CASE ~FindEntities(r) /\ ~InsertEntity(r) /\ ~CommitIngest(r)
  <2> DEFINE Frame ==
        /\ UNCHANGED <<call, entities>>
        /\ \A q \in Req : pc'[q] = "flush_entities" =>
             pc[q] = "flush_entities" /\ missing'[q] = missing[q] /\ newEnts'[q] = newEnts[q]
        /\ \A d \in DocId : docState'[d] = "live" => docState[d] = "live"
        /\ \A d \in DocId : docState[d] = "live" => row'[d] = row[d]
  <2>1. Frame
    <3> USE DEF Goto, postgres, session, qdrant
    <3>1. CASE FindCollection(r) \/ AddCollection(r) \/ CheckDuplicate(r)
      BY <3>1 DEF FindCollection, AddCollection, CheckDuplicate
    <3>2. CASE EnsureIndex(r) \/ CreateIndex(r) \/ UpsertVectors(r)
      BY <3>2 DEF EnsureIndex, CreateIndex, UpsertVectors
    <3>3. CASE InsertDocument(r)
      BY <3>3 DEF InsertDocument, FreshId
    <3>4. CASE LookupDocument(r) \/ SelectExpired(r) \/ SelectMatching(r)
      BY <3>4 DEF LookupDocument, SelectExpired, SelectMatching, Select
    <3>5. CASE PurgeVectors(r) \/ CommitRemoval(r)
      BY <3>5 DEF PurgeVectors, CommitRemoval
    <3>6. CASE ReadCollection(r) \/ CommitRetention(r) \/ Refuse(r)
      BY <3>6 DEF ReadCollection, CommitRetention, Refuse
    <3>7. CASE AtWork(r) /\ Abort(r)
      BY <3>7 DEF Abort, Rollback
    <3> QED BY <1>4, <3>1, <3>2, <3>3, <3>4, <3>5, <3>6, <3>7, AbortCases
            DEF Step, IngestStep, RemovalStep, RetainStep
  <2>2. Mentioned'
    BY <2>1 DEF Mentioned
  <2>3. \A d \in DocId : docState[d] = "live" => <<row[d].ns, row[d].coll>> \in CollKey
    BY DEF Lives, Owned, Row, CollKey
  <2>4. \A k \in CollKey : collection[k] # Absent => collection'[k] # Absent
    <3>1. CASE CommitRetention(r)
      <4>1. collection' = [collection EXCEPT ![KeyOf(r)] = NewRetention(r)]
            /\ call[r].period # Absent
        BY <3>1 DEF CommitRetention, Control
      <4> QED BY <4>1 DEF NewRetention
    <3>2. CASE ~CommitRetention(r)
      <4>1. collection' = collection
        BY <1>4, <3>2, AbortCases
        DEF Step, IngestStep, RemovalStep, RetainStep, FindCollection, AddCollection,
            CheckDuplicate, EnsureIndex, CreateIndex, UpsertVectors, InsertDocument,
            LookupDocument, SelectExpired, SelectMatching, Select, PurgeVectors,
            CommitRemoval, ReadCollection, Refuse, Abort, postgres
      <4> QED BY <4>1
    <3> QED BY <3>1, <3>2
  <2>5. ReferencesResolved'
    <3>1. \A d \in DocId : docState[d] = "live" =>
             (RetentionOf(d) # Absent => RetentionOf(d)' # Absent)
      BY <2>1, <2>3, <2>4 DEF RetentionOf
    <3> QED BY <2>1, <3>1, KeptResolved
  <2> QED BY <2>2, <2>5
<1> QED BY <1>1, <1>2, <1>3, <1>4

\* The collection and the entities of a committed document are in its namespace,
\* although its ingest looked them up before others committed.
THEOREM ReferencesResolvedAlways == Spec => []ReferencesResolved
<1>1. Types /\ Lives /\ Collected /\ Resolved /\ [Next]_vars => Resolved'
  <2> SUFFICES ASSUME Types, Lives, Collected, Resolved, [Next]_vars PROVE Resolved'
    OBVIOUS
  <2>1. CASE Tick \/ Quiet \/ UNCHANGED vars
    BY <2>1
    DEF Tick, Quiet, vars, Resolved, ReferencesResolved, RetentionOf, Mentioned,
        postgres, session
  <2> QED BY <2>1, StepResolved DEF Next
<1>2. Resolved => ReferencesResolved
  BY DEF Resolved
<1> QED BY CollectedCorrect, InitResolved, <1>1, <1>2, PTL DEF Spec

-----------------------------------------------------------------------------
\* Retention.

\* The key of a document's collection.
CollOf(d) == <<row[d].ns, row[d].coll>>

\* What NeverExpiredEarly says of one target of one cleanup.
Justified(r, d) ==
    \/ RetentionOf(d) \in Nat /\ OlderThan(d, RetentionOf(d))
    \/ \E u \in audit \ known[r] : call[u].op = "retain" /\ KeyOf(u) = CollOf(d)

\* A retention cleanup judges by the retention in force, and what it has seen audited
\* stays audited.
Timely ==
    \A r \in Req : /\ known[r] \subseteq audit
                   /\ call[r].op = "expire" => \A d \in targets[r] : Justified(r, d)

LEMMA InitTimely == Init => Timely
BY DEF Init, Timely

\* A target is a stored document, whose row and collection are well formed.
LEMMA TargetFields ==
    ASSUME Types, Lives, NEW r \in Req, NEW d \in targets[r]
    PROVE  /\ d \in DocId /\ docState[d] # "unused"
           /\ CollOf(d) \in CollKey /\ row[d].created \in Nat
<1>1. d \in DocId /\ docState[d] \in {"live", "deleted"}
  BY DEF Types, TypeOK, Lives, Selected
<1>2. row[d] \in Row
  BY <1>1 DEF Lives, Owned
<1> QED BY <1>1, <1>2 DEF Row, CollOf, CollKey

\* A step that leaves the targets of the cleanups, their rows and the retentions of
\* their collections alone takes away no justification.
LEMMA StillTimely ==
    ASSUME Types, Lives, Timely, UNCHANGED <<call, clock>>, audit \subseteq audit',
           NEW r \in Req, known'[r] = known[r], targets'[r] = targets[r],
           \A d \in targets[r] :
               /\ row'[d] = row[d]
               /\ \/ RetentionOf(d) \in Nat => RetentionOf(d)' = RetentionOf(d)
                  \/ \E u \in audit' \ known[r] :
                        call[u].op = "retain" /\ KeyOf(u) = CollOf(d)
    PROVE  /\ known'[r] \subseteq audit'
           /\ call'[r].op = "expire" => \A d \in targets'[r] : Justified(r, d)'
<1>1. known'[r] \subseteq audit'
  BY DEF Timely
<1>2. ASSUME call[r].op = "expire", NEW d \in targets[r] PROVE Justified(r, d)'
  <2>1. row'[d] = row[d] /\ Justified(r, d)
    BY <1>2 DEF Timely
  <2>2. \A u : KeyOf(u)' = KeyOf(u) /\ CollOf(d)' = CollOf(d)
    BY <2>1 DEF KeyOf, CollOf
  <2>3. CASE \E u \in audit' \ known[r] : call[u].op = "retain" /\ KeyOf(u) = CollOf(d)
    BY <2>2, <2>3 DEF Justified
  <2>4. CASE /\ RetentionOf(d) \in Nat /\ OlderThan(d, RetentionOf(d))
             /\ RetentionOf(d)' = RetentionOf(d)
    BY <2>1, <2>4 DEF Justified, OlderThan
  <2> QED BY <2>1, <2>3, <2>4 DEF Justified
<1> QED BY <1>1, <1>2

LEMMA StepTimely == Types /\ Lives /\ Collected /\ Timely /\ [Next]_vars => Timely'
<1> SUFFICES ASSUME Types, Lives, Collected, Timely, [Next]_vars,
                    NEW r \in Req
             PROVE  /\ known'[r] \subseteq audit'
                    /\ call'[r].op = "expire" => \A d \in targets'[r] : Justified(r, d)'
  BY DEF Timely
<1> DEFINE Goal == /\ known'[r] \subseteq audit'
                   /\ call'[r].op = "expire" => \A d \in targets'[r] : Justified(r, d)'
<1> HIDE DEF Goal
<1> USE DEF postgres, session, qdrant
<1>1. ASSUME NEW u \in Req, CommitRetention(u) PROVE Goal
  <2>1. /\ UNCHANGED <<call, row, targets, known, clock>> /\ audit' = audit \cup {u}
        /\ collection' = [collection EXCEPT ![KeyOf(u)] = NewRetention(u)]
        /\ call[u].op = "retain" /\ pc[u] = "set_retention"
    BY <1>1 DEF CommitRetention, Types, Control
  <2>2. u \notin known[r]
    BY <2>1 DEF Lives, Selected, Timely
  <2>3. ASSUME NEW d \in targets[r], KeyOf(u) # CollOf(d)
        PROVE  RetentionOf(d)' = RetentionOf(d)
    BY <2>1, <2>3, TargetFields DEF RetentionOf, CollOf, Types, TypeOK
  <2> QED BY <2>1, <2>2, <2>3, StillTimely DEF Goal
<1>2. ASSUME NEW u \in Req, CommitIngest(u) PROVE Goal
  <2>1. /\ UNCHANGED <<call, row, targets, known, clock, audit>>
        /\ \/ UNCHANGED collection
           \/ /\ collection' = [collection EXCEPT ![KeyOf(u)] = NoPeriod]
              /\ collection[KeyOf(u)] = Absent
    BY <1>2 DEF CommitIngest, Collected
  <2>2. ASSUME NEW d \in targets[r], RetentionOf(d) \in Nat
        PROVE  RetentionOf(d)' = RetentionOf(d)
    <3>1. CollOf(d) \in CollKey /\ collection[CollOf(d)] # Absent
      BY <2>2, TargetFields, NullAssumption DEF RetentionOf, CollOf
    <3> QED BY <2>1, <3>1 DEF RetentionOf, CollOf, Types, TypeOK
  <2> QED BY <2>1, <2>2, StillTimely DEF Goal
<1>3. ASSUME NEW u \in Req, SelectExpired(u) PROVE Goal
  <2>1. UNCHANGED <<call, row, clock, audit, collection>> /\ call[u].op = "expire"
    BY <1>3 DEF SelectExpired, Select
  <2>2. CASE u # r
    <3>1. targets'[r] = targets[r] /\ known'[r] = known[r]
      BY <1>3, <2>2 DEF SelectExpired, Select, Types, TypeOK
    <3> QED BY <2>1, <3>1, StillTimely DEF Goal, RetentionOf
  <2>3. CASE u = r
    <3>1. /\ known'[r] = audit
          /\ \A d \in targets'[r] : RetentionOf(d) \in Nat /\ OlderThan(d, RetentionOf(d))
      BY <1>3, <2>1, <2>3 DEF SelectExpired, Select, Types, TypeOK
    <3>2. \A d : RetentionOf(d)' = RetentionOf(d)
      BY <2>1 DEF RetentionOf
    <3> QED BY <2>1, <3>1, <3>2 DEF Goal, Justified, OlderThan
  <2> QED BY <2>2, <2>3
<1>4. ASSUME NEW u \in Req, InsertDocument(u) PROVE Goal
  <2>1. UNCHANGED <<call, clock, audit, collection, targets, known>>
    BY <1>4 DEF InsertDocument
  <2>2. \A d \in targets[r] : row'[d] = row[d]
    BY <1>4, TargetFields DEF InsertDocument, FreshId, Types, TypeOK
  <2>3. \A d \in targets[r] : RetentionOf(d)' = RetentionOf(d)
    BY <2>1, <2>2 DEF RetentionOf
  <2> QED BY <2>1, <2>2, <2>3, StillTimely DEF Goal
<1>5. ASSUME Tick PROVE Goal
  <2>1. clock \in Nat /\ clock' = clock + 1
        /\ UNCHANGED <<call, row, targets, known, audit, collection>>
    BY <1>5, DataAssumption DEF Tick, Types, TypeOK
  <2>2. ASSUME call[r].op = "expire", NEW d \in targets[r] PROVE Justified(r, d)'
    <3>1. Justified(r, d) /\ row[d].created \in Nat
      BY <2>2, TargetFields DEF Timely
    <3>2. RetentionOf(d)' = RetentionOf(d) /\ CollOf(d)' = CollOf(d)
          /\ \A u : KeyOf(u)' = KeyOf(u)
      BY <2>1 DEF RetentionOf, CollOf, KeyOf
    <3>3. RetentionOf(d) \in Nat /\ OlderThan(d, RetentionOf(d))
          => OlderThan(d, RetentionOf(d))'
      BY <2>1, <3>1, <3>2 DEF OlderThan
    <3> QED BY <2>1, <3>1, <3>2, <3>3 DEF Justified
  <2> QED BY <2>1, <2>2 DEF Goal, Timely
<1>6. ASSUME NEW u \in Req, LookupDocument(u) \/ SelectMatching(u) PROVE Goal
  <2>1. /\ UNCHANGED <<call, row, clock, audit, collection, known>>
        /\ call[u].op # "expire" /\ (r # u => targets'[r] = targets[r])
    BY <1>6 DEF LookupDocument, SelectMatching, Select, Types, TypeOK
  <2>2. CASE r = u
    BY <2>1, <2>2 DEF Goal, Timely
  <2>3. CASE r # u
    BY <2>1, <2>3, StillTimely DEF Goal, RetentionOf
  <2> QED BY <2>2, <2>3
<1>7. ASSUME UNCHANGED <<call, row, collection, targets, known, clock>>,
             audit \subseteq audit'
      PROVE  Goal
  BY <1>7, StillTimely DEF Goal, RetentionOf
<1>8. ASSUME NEW u \in Req, CommitRemoval(u) PROVE Goal
  BY <1>7, <1>8 DEF CommitRemoval
<1>9. ASSUME NEW u \in Req,
             \/ FindCollection(u) \/ AddCollection(u) \/ CheckDuplicate(u)
             \/ EnsureIndex(u) \/ CreateIndex(u) \/ UpsertVectors(u)
             \/ FindEntities(u) \/ InsertEntity(u) \/ PurgeVectors(u)
             \/ ReadCollection(u) \/ Refuse(u) \/ Abort(u)
      PROVE  Goal
  BY <1>7, <1>9
  DEF FindCollection, AddCollection, CheckDuplicate, EnsureIndex, CreateIndex,
      UpsertVectors, FindEntities, InsertEntity, PurgeVectors, ReadCollection, Refuse,
      Abort
<1>10. ASSUME Quiet \/ UNCHANGED vars PROVE Goal
  BY <1>7, <1>10 DEF Quiet, vars
<1>11. Goal
  BY <1>1, <1>2, <1>3, <1>4, <1>5, <1>6, <1>8, <1>9, <1>10, AbortCases
  DEF Next, Step, IngestStep, RemovalStep, RetainStep
<1> QED BY <1>11 DEF Goal

\* The retention cleanup takes a document only when its time is up under the retention
\* in force when it looks, and only an upsert can supersede that one.
THEOREM NeverExpiredEarlyAlways == Spec => []NeverExpiredEarly
<1>1. Types /\ Lives /\ Collected /\ Timely /\ [Next]_vars => Timely'
  BY StepTimely
<1>2. Timely => NeverExpiredEarly
  BY DEF Timely, Justified, CollOf, NeverExpiredEarly
<1> QED BY CollectedCorrect, InitTimely, <1>1, <1>2, PTL DEF Spec

-----------------------------------------------------------------------------
(***************************************************************************)
(* The handlers of Corpus implement the Ledger.  The inductive invariant   *)
(* is the one above, strengthened by what a removal remembers between its  *)
(* SELECT and its COMMIT.                                                  *)
(***************************************************************************)
\* What a removal has selected is what its call asked for.
Remembered ==
    \A r \in Req :
        /\ call[r].op = "delete" /\ pc[r] = "purge_vectors" => targets[r] = {call[r].doc}
        /\ \A d \in targets[r] :
             /\ call[r].op \in {"expire", "purge"} => row[d].ns = call[r].ns
             /\ call[r].op = "purge" => call[r].coll \in {NoColl, row[d].coll}

LEMMA InitRemembered == Init => Remembered
BY NullAssumption DEF Init, Remembered

LEMMA StepRemembered ==
    ASSUME Types, Lives, Remembered, [Next]_vars
    PROVE  Remembered'
<1> USE NullAssumption, CallFields DEF Types, TypeOK, Remembered, KeyOf, Goto
<1>1. ASSUME NEW r \in Req, LookupDocument(r) PROVE Remembered'
  <2>1. /\ call[r].op = "delete" /\ UNCHANGED <<call, row>>
        /\ \E l \in {"purge_vectors", "refused", "not_found"} : pc' = [pc EXCEPT ![r] = l]
        /\ \/ targets' = [targets EXCEPT ![r] = {call[r].doc}]
           \/ UNCHANGED targets /\ pc'[r] # "purge_vectors"
    BY <1>1 DEF LookupDocument, Select, postgres, session
  <2> QED BY <2>1
<1>2. ASSUME NEW r \in Req, SelectExpired(r) \/ SelectMatching(r) PROVE Remembered'
  <2>1. /\ call[r].op \in {"expire", "preview", "purge"}
        /\ UNCHANGED <<call, row>>
        /\ \E l \in {"purge_vectors", "completed"} : pc' = [pc EXCEPT ![r] = l]
        /\ \A q \in Req : q # r => targets'[q] = targets[q]
    BY <1>2 DEF SelectExpired, SelectMatching, Select, postgres
  <2>2. ASSUME NEW d \in targets'[r]
        PROVE  /\ row[d].ns = call[r].ns
               /\ call[r].op = "purge" => call[r].coll \in {NoColl, row[d].coll}
    BY <1>2, <2>2 DEF SelectExpired, SelectMatching, Select, Matches
  <2> QED BY <2>1, <2>2
<1>3. ASSUME NEW r \in Req, InsertDocument(r) PROVE Remembered'
  <2>1. /\ UNCHANGED <<call, targets>>
        /\ pc' = [pc EXCEPT ![r] = "upsert_vectors"]
    BY <1>3 DEF InsertDocument
  <2>2. \A q \in Req : \A d \in targets[q] : row'[d] = row[d]
    BY <1>3 DEF InsertDocument, FreshId, Lives, Selected
  <2> QED BY <2>1, <2>2, SMTT(20)
<1>4. ASSUME NEW r \in Req, CommitRemoval(r) \/ CommitRetention(r) PROVE Remembered'
  <2>1. /\ UNCHANGED <<call, row, targets>>
        /\ pc' = [pc EXCEPT ![r] = "completed"]
    BY <1>4 DEF CommitRemoval, CommitRetention, session
  <2> QED BY <2>1
<1>5. ASSUME UNCHANGED <<call, row, targets>>,
             \A q \in Req : pc'[q] = "purge_vectors" => pc[q] = "purge_vectors"
      PROVE  Remembered'
  BY <1>5
<1>6. ASSUME NEW r \in Req,
             \/ FindCollection(r) \/ AddCollection(r) \/ CheckDuplicate(r)
             \/ EnsureIndex(r) \/ CreateIndex(r) \/ UpsertVectors(r)
             \/ FindEntities(r) \/ InsertEntity(r) \/ CommitIngest(r)
             \/ PurgeVectors(r) \/ ReadCollection(r) \/ Refuse(r)
             \/ Abort(r)
      PROVE  Remembered'
  <2>1. UNCHANGED <<call, row, targets>>
    BY <1>6
    DEF FindCollection, AddCollection, CheckDuplicate, EnsureIndex, CreateIndex,
        UpsertVectors, FindEntities, InsertEntity, CommitIngest, PurgeVectors,
        ReadCollection, Refuse, Abort, postgres, session
  <2>2. \A q \in Req : pc'[q] = "purge_vectors" => pc[q] = "purge_vectors"
    BY <1>6
    DEF FindCollection, AddCollection, CheckDuplicate, EnsureIndex, CreateIndex,
        UpsertVectors, FindEntities, InsertEntity, CommitIngest, PurgeVectors,
        ReadCollection, Refuse, Abort
  <2> QED BY <1>5, <2>1, <2>2
<1>7. CASE Tick \/ Quiet \/ UNCHANGED vars
  BY <1>5, <1>7 DEF Tick, Quiet, vars, postgres, session
<1> QED BY <1>1, <1>2, <1>3, <1>4, <1>6, <1>7, AbortCases
        DEF Next, Step, IngestStep, RemovalStep, RetainStep

\* Whoever is at work in a namespace may write to it.
Permitted ==
    \A r \in Req : pc[r] \in Before \cup Holding \cup {"set_retention"}
                  => MayWrite(r, call[r].ns)

LEMMA StepPermitted ==
    ASSUME Types, Permitted, [Next]_vars
    PROVE  Permitted'
<1> USE DEF Types, TypeOK, Permitted, Before, Holding, MayWrite, Goto
<1>1. ASSUME UNCHANGED call,
             \A q \in Req : \/ pc'[q] = pc[q]
                            \/ pc[q] \in Before \cup Holding
                            \/ pc'[q] \notin Before \cup Holding \cup {"set_retention"}
                            \/ MayWrite(q, call[q].ns)
      PROVE  Permitted'
  BY <1>1
<1>2. ASSUME NEW r \in Req, Step(r) \/ Abort(r) PROVE Permitted'
  <2>1. CASE IngestStep(r)
    BY <1>1, <2>1
    DEF IngestStep, FindCollection, AddCollection, CheckDuplicate, EnsureIndex,
        CreateIndex, InsertDocument, UpsertVectors, FindEntities, InsertEntity,
        CommitIngest
  <2>2. CASE RemovalStep(r)
    BY <1>1, <2>2
    DEF RemovalStep, LookupDocument, SelectExpired, SelectMatching, Select, PurgeVectors,
        CommitRemoval
  <2>3. CASE RetainStep(r) \/ Refuse(r) \/ Abort(r)
    BY <1>1, <2>3 DEF RetainStep, ReadCollection, CommitRetention, Refuse, Abort
  <2> QED BY <1>2, <2>1, <2>2, <2>3 DEF Step, Conflict
<1>3. CASE Tick \/ Quiet \/ UNCHANGED vars
  BY <1>1, <1>3 DEF Tick, Quiet, vars
<1> QED BY <1>2, <1>3, AbortCases DEF Next

-----------------------------------------------------------------------------
\* The refinement.

Strong ==
    /\ Types /\ Lives /\ UniqueContent /\ Collected
    /\ Remembered /\ Permitted

LEMMA InitLedger == Init => Promise!Init
BY DEF Init, Promise!Init, Answers, Answered, Files, Counts, Removed, Settled

\* What the transactions have not committed is not in the ledger.
Uncommitted ==
    \A d \in DocId : \/ /\ docState'[d] = docState[d]
                        /\ Counts(d) => row'[d] = row[d]
                     \/ {docState[d], docState'[d]} \cap {"live", "deleted"} = {}

LEMMA NothingCommitted ==
    ASSUME TypeOK, Uncommitted
    PROVE  Files' = Files /\ Removed' = Removed
<1>1. \A d \in DocId : /\ Counts(d)' <=> Counts(d)
                       /\ Counts(d) => FileOf(d)' = FileOf(d)
                       /\ docState'[d] = "deleted" <=> docState[d] = "deleted"
  BY DEF Uncommitted, Counts, FileOf
<1> QED BY <1>1 DEF Files, Removed

\* A step that ends no request and commits nothing is a stutter.
LEMMA Stutter ==
    ASSUME TypeOK, Uncommitted, UNCHANGED <<call, collection, audit>>, Settled' = Settled,
           \A q \in Req : \/ pc'[q] = pc[q]
                          \/ {pc[q], pc'[q]} \cap Answered = {}
    PROVE  UNCHANGED Promise!vars
<1>1. Answers' = Answers
  BY DEF Answers
<1> QED BY <1>1, NothingCommitted DEF Promise!vars

\* Nothing is settled or forgotten while no upsert begins or ends.
LEMMA SettledSame ==
    ASSUME UNCHANGED <<call, seen>>,
           \A q \in Req : pc'[q] = "set_retention" <=> pc[q] = "set_retention"
    PROVE  Settled' = Settled
BY DEF Settled

\* A step that ends request r gives it its answer.
LEMMA Answering ==
    ASSUME TypeOK, NEW r \in Req, NEW a \in Answered, UNCHANGED call,
           seen' = seen, pc[r] \notin Answered, pc' = [pc EXCEPT ![r] = a]
    PROVE  Promise!Reply(r, a) /\ Answers[r] = "none"
<1>1. Answers' = [Answers EXCEPT ![r] = a] /\ Answers[r] = "none"
  BY DEF TypeOK, Answers, Answered
<1>2. Settled' = Settled \ {r}
  BY DEF TypeOK, Settled, Answered
<1> QED BY <1>1, <1>2 DEF Promise!Reply

\* Nobody takes an id for unused that has a file, or the other way round.
LEMMA FilesDiffer ==
    ASSUME Types, Lives, NEW d \in DocId
    PROVE  /\ Files[d] # NoDoc <=> Counts(d)
           /\ Counts(d) => Files[d] = FileOf(d) /\ row[d] \in Row
<1>1. Counts(d) => row[d] \in Row
  BY DEF Counts, Lives, Owned, Types, TypeOK
<1>2. row[d] \in Row
      => FileOf(d) \in [ns : Namespace, coll : CollName, content : Content]
  BY DEF FileOf, Row
<1> QED BY <1>1, <1>2, FileAssumption DEF Files

LEMMA StoredIsLive ==
    ASSUME Types, Lives, NEW d \in DocId
    PROVE  Promise!Stored(d) <=> docState[d] = "live"
BY FilesDiffer DEF Promise!Stored, Removed, Counts

LEMMA KnownIsLive ==
    ASSUME Types, Lives, NEW r \in Req
    PROVE  Promise!Known(r) <=> HoldsContent(r, "live")
<1>1. ASSUME NEW d \in DocId, docState[d] = "live"
      PROVE  Files[d].ns = row[d].ns /\ Files[d].content = row[d].content
  <2>1. Files[d] = FileOf(d)
    BY <1>1, FilesDiffer DEF Counts
  <2> QED BY <2>1 DEF FileOf
<1> QED BY <1>1, StoredIsLive DEF Promise!Known, HoldsContent, SameContent

\* The ingests: only a skip and a commit show.
LEMMA IngestLedger ==
    ASSUME Strong, NEW r \in Req, IngestStep(r)
    PROVE  Promise!Serve(r) \/ UNCHANGED Promise!vars
<1> USE DEF Strong, Types
<1> HIDE DEF Types
<1>1. CASE CommitIngest(r)
  <2>1. PICK e \in DocId :
          /\ e = doc[r] /\ docState[e] = "pending" /\ pc[r] = "flush_entities"
          /\ row[e].ns = call[r].ns /\ row[e].coll = call[r].coll
          /\ row[e].content = call[r].content
          /\ call[r].op = "ingest" /\ MayWrite(r, call[r].ns) /\ KeyOf(r) \in CollKey
    BY <1>1, CallFields
    DEF CommitIngest, Types, TypeOK, Control, Lives, Owned, Holding, Permitted
  <2>2. Promise!Reply(r, "completed") /\ Answers[r] = "none"
    BY <1>1, Answering DEF CommitIngest, Types, Goto, Answered
  <2>3. ~HoldsContent(r, "live")
    BY <2>1 DEF HoldsContent, SameContent, UniqueContent
  <2>4. Files[e] = NoDoc
    BY <2>1, FilesDiffer DEF Counts
  <2>5. /\ docState' = [docState EXCEPT ![e] = "live"] /\ row' = row
        /\ collection' = IF r \in newColl THEN [collection EXCEPT ![KeyOf(r)] = NoPeriod]
                         ELSE collection
        /\ audit' = audit
    BY <1>1, <2>1 DEF CommitIngest
  <2>6. /\ \A d \in DocId \ {e} : Counts(d)' <=> Counts(d)
        /\ Counts(e)' /\ Removed' = Removed
    BY <2>1, <2>5 DEF Types, TypeOK, Counts, Removed
  <2>7. Files' = [Files EXCEPT ![e] =
                    [ns |-> call[r].ns, coll |-> call[r].coll,
                     content |-> call[r].content]]
    <3>1. /\ FileOf(e)' = [ns |-> call[r].ns, coll |-> call[r].coll,
                           content |-> call[r].content]
          /\ \A d \in DocId : FileOf(d)' = FileOf(d)
      BY <2>1, <2>5 DEF FileOf
    <3> QED BY <2>1, <2>6, <3>1 DEF Files
  <2>8. collection' = IF collection[Promise!Key(r)] = Absent
                      THEN [collection EXCEPT ![Promise!Key(r)] = NoPeriod]
                      ELSE collection
    BY <2>1, <2>5 DEF Collected, Before, Holding, Promise!Key, KeyOf
  <2>9. Promise!Store(r)
    BY <2>1, <2>2, <2>3, <2>4, <2>5, <2>6, <2>7, <2>8, KnownIsLive
    DEF Promise!Store, Promise!Asks, Promise!MayWrite, MayWrite
  <2> QED BY <2>9 DEF Promise!Serve
<1>2. CASE CheckDuplicate(r) /\ HoldsContent(r, "live")
  <2>1. Promise!Reply(r, "skipped") /\ Answers[r] = "none"
    BY <1>2, Answering DEF CheckDuplicate, Types, Goto, Answered
  <2>2. UNCHANGED <<collection, audit, docState, row>>
    BY <1>2 DEF CheckDuplicate, postgres
  <2>3. Files' = Files /\ Removed' = Removed
    BY <2>2, NothingCommitted DEF Types, Uncommitted
  <2>4. call[r].op = "ingest" /\ MayWrite(r, call[r].ns)
    BY <1>2 DEF CheckDuplicate, Types, Control, Before, Permitted
  <2>5. Promise!Skip(r)
    BY <1>2, <2>1, <2>2, <2>3, <2>4, KnownIsLive
    DEF Promise!Skip, Promise!Asks, Promise!MayWrite, MayWrite
  <2> QED BY <2>5 DEF Promise!Serve
<1>3. CASE InsertDocument(r)
  <2>1. Uncommitted
    BY <1>3 DEF InsertDocument, FreshId, Uncommitted, Counts, Types, TypeOK
  <2>2. UNCHANGED <<call, seen, collection, audit>>
        /\ pc[r] = "insert_document" /\ pc' = [pc EXCEPT ![r] = "upsert_vectors"]
    BY <1>3 DEF InsertDocument, Goto
  <2>3. Settled' = Settled
    BY <2>2, SettledSame DEF Types, TypeOK
  <2> QED BY <2>1, <2>2, <2>3, Stutter DEF Types, TypeOK, Answered
<1>4. CASE \/ FindCollection(r) \/ AddCollection(r) \/ EnsureIndex(r) \/ CreateIndex(r)
           \/ UpsertVectors(r) \/ FindEntities(r) \/ InsertEntity(r)
           \/ (CheckDuplicate(r) /\ ~HoldsContent(r, "live"))
  <2>1. UNCHANGED <<call, docState, row, collection, audit, seen>>
    BY <1>4
    DEF FindCollection, AddCollection, EnsureIndex, CreateIndex, UpsertVectors,
        FindEntities, InsertEntity, CheckDuplicate, postgres, session
  <2>2. \A q \in Req :
           \/ pc'[q] = pc[q]
           \/ {pc[q], pc'[q]} \cap (Answered \cup {"set_retention"}) = {}
    BY <1>4
    DEF FindCollection, AddCollection, EnsureIndex, CreateIndex, UpsertVectors,
        FindEntities, InsertEntity, CheckDuplicate, Types, TypeOK, Goto, Answered
  <2>3. Settled' = Settled
    BY <2>1, <2>2, SettledSame
  <2> QED BY <2>1, <2>2, <2>3, Stutter DEF Uncommitted, Types
<1> QED BY <1>1, <1>2, <1>3, <1>4 DEF IngestStep

\* The removals: the SELECT shows when it is the whole of the request.
LEMMA RemovalLedger ==
    ASSUME Strong, NEW r \in Req, RemovalStep(r)
    PROVE  Promise!Serve(r) \/ UNCHANGED Promise!vars
<1> USE DEF Strong
<1>1. CASE CommitRemoval(r)
  <2>1. /\ pc[r] = "purge_vectors" /\ call[r].op \in Removal /\ UNCHANGED call
        /\ docState' = [d \in DocId |-> IF d \in targets[r] THEN "deleted" ELSE docState[d]]
        /\ audit' = audit \cup {r} /\ UNCHANGED <<row, collection, seen>>
        /\ pc' = [pc EXCEPT ![r] = "completed"]
    BY <1>1 DEF CommitRemoval, Types, Control, session, Goto
  <2>2. Promise!Reply(r, "completed") /\ Answers[r] = "none"
    BY <2>1, Answering DEF Types, Answered
  <2>3. \A d \in targets[r] :
          d \in DocId /\ docState[d] \in {"live", "deleted"} /\ MayWrite(r, row[d].ns)
    BY DEF Types, TypeOK, Lives, Selected
  <2>4. /\ Removed' = Removed \cup targets[r]
        /\ \A d \in DocId : Counts(d)' <=> Counts(d)
    BY <2>1, <2>3 DEF Removed, Counts
  <2>5. Files' = Files
    <3>1. \A d \in DocId : FileOf(d)' = FileOf(d)
      BY <2>1 DEF FileOf
    <3> QED BY <2>4, <3>1 DEF Files
  <2>6. ASSUME NEW d \in targets[r] PROVE Promise!InReach(r, d)
    <3>1. /\ Files[d] # NoDoc /\ Files[d] = FileOf(d) /\ row[d] \in Row /\ d \in DocId
      BY <2>3, <2>6, FilesDiffer DEF Counts
    <3>2. Files[d].ns = row[d].ns /\ Files[d].coll = row[d].coll
      BY <3>1 DEF FileOf
    <3>3. Promise!MayWrite(r, row[d].ns)
      BY <2>3, <2>6 DEF MayWrite, Promise!MayWrite
    <3> QED BY <2>1, <2>6, <3>1, <3>2, <3>3
            DEF Promise!InReach, Remembered, Removal
  <2>7. call[r].op = "delete" => targets[r] = {call[r].doc}
    BY <2>1 DEF Remembered
  <2>8. targets[r] \in SUBSET {d \in DocId : Promise!InReach(r, d)}
    BY <2>3, <2>6
  <2>9. Promise!Remove(r)
    BY <2>1, <2>2, <2>4, <2>5, <2>7, <2>8 DEF Promise!Remove, Promise!Asks, Removal
  <2> QED BY <2>9 DEF Promise!Serve
<1>2. CASE PurgeVectors(r)
  <2>1. UNCHANGED <<call, pc, docState, row, collection, audit, seen>>
    BY <1>2 DEF PurgeVectors, postgres
  <2> QED BY <2>1, Stutter, SettledSame DEF Uncommitted, Types
<1>3. CASE LookupDocument(r) \/ SelectExpired(r) \/ SelectMatching(r)
  <2>1. UNCHANGED <<call, docState, row, collection, audit, seen>> /\ pc[r] = "arrived"
    BY <1>3
    DEF LookupDocument, SelectExpired, SelectMatching, Select, postgres, session
  <2>2. Files' = Files /\ Removed' = Removed
    BY <2>1, NothingCommitted DEF Types, Uncommitted
  <2>3. CASE pc' = [pc EXCEPT ![r] = "purge_vectors"]
    BY <2>1, <2>3, Stutter, SettledSame DEF Uncommitted, Types, TypeOK, Answered
  <2>4. CASE call[r].op = "preview" /\ SelectMatching(r)
    <3>1. Promise!Reply(r, "completed") /\ Answers[r] = "none"
      BY <2>1, <2>4, Answering DEF SelectMatching, Types, Answered, Goto
    <3>2. Promise!Preview(r)
      BY <2>1, <2>2, <2>4, <3>1
      DEF Promise!Preview, Promise!Asks, Promise!MayWrite, MayWrite, SelectMatching
    <3> QED BY <3>2 DEF Promise!Serve
  <2>5. CASE LookupDocument(r) /\ ~(docState[call[r].doc] = "live")
    <3>1. Promise!Reply(r, "not_found") /\ Answers[r] = "none"
      BY <2>1, <2>5, Answering DEF LookupDocument, Types, Answered, Goto
    <3>2. call[r].doc \in DocId /\ call[r].op = "delete"
      BY <2>5, CallFields DEF LookupDocument, Types
    <3>3. Promise!NotFound(r)
      BY <2>1, <2>2, <2>5, <3>1, <3>2, StoredIsLive DEF Promise!NotFound, Promise!Asks
    <3> QED BY <3>3 DEF Promise!Serve
  <2>6. CASE LookupDocument(r) /\ docState[call[r].doc] = "live"
             /\ ~MayWrite(r, row[call[r].doc].ns)
    <3>1. Promise!Reply(r, "refused") /\ Answers[r] = "none"
      BY <2>1, <2>6, Answering DEF LookupDocument, Types, Answered, Goto
    <3>2. PICK e \in DocId : e = call[r].doc /\ call[r].op = "delete"
      BY <2>6, CallFields DEF LookupDocument, Types
    <3>3. Files[e].ns = row[e].ns
      <4>1. Files[e] = FileOf(e)
        BY <2>6, <3>2, FilesDiffer DEF Counts
      <4> QED BY <4>1 DEF FileOf
    <3>4. Promise!Refuse(r)
      BY <2>1, <2>2, <2>6, <3>1, <3>2, <3>3, StoredIsLive
      DEF Promise!Refuse, Promise!Asks, Promise!MayWrite, MayWrite
    <3> QED BY <3>4 DEF Promise!Serve
  <2> QED BY <1>3, <2>3, <2>4, <2>5, <2>6
          DEF LookupDocument, SelectExpired, SelectMatching, Goto
<1> QED BY <1>1, <1>2, <1>3 DEF RemovalStep

\* The upserts: one that will send no UPDATE is settled by its SELECT, any other takes
\* effect with its COMMIT.
LEMMA RetainLedger ==
    ASSUME Strong, NEW r \in Req, RetainStep(r)
    PROVE  Promise!Serve(r) \/ UNCHANGED Promise!vars
<1> USE DEF Strong
<1>1. CASE ReadCollection(r)
  <2>1. /\ UNCHANGED <<call, docState, row, collection, audit>>
        /\ pc[r] = "arrived" /\ pc' = [pc EXCEPT ![r] = "set_retention"]
        /\ seen' = [seen EXCEPT ![r] = collection[KeyOf(r)]]
        /\ call[r].op = "retain" /\ MayWrite(r, call[r].ns)
    BY <1>1 DEF ReadCollection, postgres, Goto
  <2>2. /\ pc'[r] = "set_retention" /\ seen'[r] = collection[KeyOf(r)]
        /\ \A q \in Req \ {r} : pc'[q] = pc[q] /\ seen'[q] = seen[q]
    BY <2>1 DEF Types, TypeOK
  <2>3. CASE collection[KeyOf(r)] = call[r].period
    <3>1. Settled' = Settled \cup {r}
      BY <2>1, <2>2, <2>3 DEF Settled
    <3>2. Files' = Files /\ Removed' = Removed
      BY <2>1, NothingCommitted DEF Types, Uncommitted
    <3>3. Answers' = Answers /\ Answers[r] = "none"
      BY <2>1, <2>2 DEF Answers, Answered
    <3>4. Promise!Settle(r)
      BY <2>1, <2>3, <3>1, <3>2, <3>3
      DEF Promise!Settle, Promise!Asks, Promise!MayWrite, Promise!Key, MayWrite, KeyOf
    <3> QED BY <3>4 DEF Promise!Serve
  <2>4. CASE collection[KeyOf(r)] # call[r].period
    <3>1. Settled' = Settled
      BY <2>1, <2>2, <2>4 DEF Settled
    <3> QED BY <2>1, <2>2, <3>1, Stutter DEF Uncommitted, Types, Answered
  <2> QED BY <2>3, <2>4
<1>2. CASE CommitRetention(r)
  <2>1. /\ pc[r] = "set_retention" /\ call[r].op = "retain" /\ MayWrite(r, call[r].ns)
        /\ UNCHANGED <<call, docState, row, seen>> /\ audit' = audit \cup {r}
        /\ pc' = [pc EXCEPT ![r] = "completed"]
        /\ collection' = [collection EXCEPT ![KeyOf(r)] = NewRetention(r)]
    BY <1>2 DEF CommitRetention, Types, Control, Permitted, session, Goto
  <2>2. Promise!Reply(r, "completed") /\ Answers[r] = "none"
    BY <2>1, Answering DEF Types, Answered
  <2>3. Files' = Files /\ Removed' = Removed
    BY <2>1, NothingCommitted DEF Types, Uncommitted
  <2>4. collection' = IF r \in Settled THEN collection
                      ELSE [collection EXCEPT ![Promise!Key(r)] = call[r].period]
    <3>1. KeyOf(r) \in CollKey /\ Promise!Key(r) = KeyOf(r)
      BY <2>1, CallFields DEF Types, Promise!Key, KeyOf
    <3>2. r \in Settled <=> seen[r] = call[r].period
      BY <2>1 DEF Settled
    <3>3. collection = [collection EXCEPT ![KeyOf(r)] = collection[KeyOf(r)]]
      BY <3>1 DEF Types, TypeOK
    <3> QED BY <2>1, <3>1, <3>2, <3>3 DEF NewRetention
  <2>5. Promise!SetRetention(r)
    BY <2>1, <2>2, <2>3, <2>4
    DEF Promise!SetRetention, Promise!Asks, Promise!MayWrite, MayWrite
  <2> QED BY <2>5 DEF Promise!Serve
<1> QED BY <1>1, <1>2 DEF RetainStep

\* Refusals and failures: an answer and nothing else.
LEMMA OtherLedger ==
    ASSUME Strong, NEW r \in Req, Refuse(r) \/ (AtWork(r) /\ Abort(r))
    PROVE  Promise!Serve(r)
<1> USE DEF Strong
<1>1. CASE Refuse(r)
  <2>1. UNCHANGED <<call, docState, row, collection, audit, seen>>
    BY <1>1 DEF Refuse, postgres, session
  <2>2. Promise!Reply(r, "refused") /\ Answers[r] = "none"
    BY <1>1, <2>1, Answering DEF Refuse, Types, Answered, Goto
  <2>3. Files' = Files /\ Removed' = Removed
    BY <2>1, NothingCommitted DEF Types, Uncommitted
  <2>4. call[r].op \in {"ingest", "expire", "preview", "purge", "retain"}
    BY <1>1, CallFields DEF Refuse, Types, Call
  <2>5. Promise!Refuse(r)
    BY <1>1, <2>1, <2>2, <2>3, <2>4
    DEF Promise!Refuse, Promise!Asks, Promise!MayWrite, Promise!NoFilter, Refuse, MayWrite,
        NoFilter
  <2> QED BY <2>5 DEF Promise!Serve
<1>2. CASE AtWork(r) /\ Abort(r)
  <2>1. UNCHANGED <<call, row, collection, audit, seen>>
    BY <1>2 DEF Abort
  <2>2. doc[r] # NoDoc => docState[doc[r]] = "pending" /\ doc[r] \in DocId
    BY <1>2 DEF AtWork, Answered, Types, TypeOK, Control, Lives, Owned
  <2>3. Uncommitted
    BY <1>2, <2>1, <2>2 DEF Abort, Rollback, Uncommitted, Types, TypeOK
  <2>4. Files' = Files /\ Removed' = Removed
    BY <2>3, NothingCommitted DEF Types
  <2>5. Promise!Reply(r, "failed") /\ Answers[r] = "none"
    BY <1>2, <2>1, Answering DEF Abort, AtWork, Types, Answered, Goto
  <2>6. Promise!Fail(r)
    BY <2>1, <2>4, <2>5 DEF Promise!Fail
  <2> QED BY <2>6 DEF Promise!Serve
<1> QED BY <1>1, <1>2

\* Every step of the handlers is a step of the ledger or invisible to it.
LEMMA StepLedger == Strong /\ [Next]_vars => [Promise!Next]_(Promise!vars)
<1> SUFFICES ASSUME Strong, [Next]_vars PROVE Promise!Next \/ UNCHANGED Promise!vars
  OBVIOUS
<1>1. ASSUME NEW r \in Req, Step(r) \/ DeadlockVictim(r) \/ Fail(r)
      PROVE  Promise!Serve(r) \/ UNCHANGED Promise!vars
  BY <1>1, AbortCases, IngestLedger, RemovalLedger, RetainLedger, OtherLedger DEF Step
<1>2. CASE Tick \/ Quiet \/ UNCHANGED vars
  <2>1. UNCHANGED <<call, pc, docState, row, collection, audit, seen>>
    BY <1>2 DEF Tick, Quiet, vars, postgres, session
  <2> QED BY <2>1, Stutter, SettledSame DEF Strong, Uncommitted, Types
<1> QED BY <1>1, <1>2 DEF Next, Promise!Next

\* The document API keeps its promise: whatever runs at once and wherever it fails,
\* clients see each request take effect in one step, or not at all.
THEOREM LedgerIsImplemented == Spec => LedgerImplemented
<1>1. Init => Remembered /\ Permitted
  BY InitRemembered DEF Init, Permitted, Before, Holding
<1>2. Types /\ Lives /\ Remembered /\ [Next]_vars => Remembered'
  BY StepRemembered
<1>3. Types /\ Permitted /\ [Next]_vars => Permitted'
  BY StepPermitted
<1>4. Types /\ Lives /\ UniqueContent /\ Collected /\ Remembered /\ Permitted
      => Strong
  BY DEF Strong
<1> QED BY LivesCorrect, UniqueContentAlways, CollectedCorrect, InitLedger, StepLedger, <1>1, <1>2, <1>3, <1>4, PTL
        DEF Spec, LedgerImplemented, Promise!Spec

=============================================================================
