---------------------------- MODULE ReadsProofs -----------------------------
(***************************************************************************)
(* Theorems about the requests that only read the corpus, for any number   *)
(* of them beside any number of requests that change it: queries, and      *)
(* views of the graph.  Neither changes anything of the corpus, so what    *)
(* CorpusProofs shows holds beside them.                                   *)
(***************************************************************************)
EXTENDS Query, GraphExplorer, CorpusProofs

\* Queries implement the corpus specification by leaving it alone.
THEOREM CorpusUndisturbed == QuerySpec => Spec
<1>1. QueryInit => Init
  BY DEF QueryInit
<1>2. [QueryNext]_allVars => [Next]_vars
  BY DEF QueryNext, CorpusStep, AllEnded, Next, allVars
<1> QED BY <1>1, <1>2, PTL DEF QuerySpec, Spec

LEMMA BestOf ==
    ASSUME NEW k, NEW S, NEW T \in Best(k, S)
    PROVE  T \subseteq S
BY DEF Best

-----------------------------------------------------------------------------
\* Types.

LEMMA QueryStepTypes ==
    ASSUME Types, QueryTypeOK, NEW q \in Ask, QueryStep(q)
    PROVE  QueryTypeOK'
<1> USE DEF QueryTypeOK, Stages, Ended, Enter
<1>1. CASE Authorize(q)
  BY <1>1 DEF Authorize
<1>2. CASE PreQueryCheck(q)
  <2>1. events' = events \/ events' = events \cup {<<q, "unsafe">>}
    BY <1>2 DEF PreQueryCheck
  <2>2. events' \subseteq Ask \X {"unsafe", "indirect", "pii"}
    BY <2>1
  <2>3. stage' \in [Ask -> Stages]
    BY <1>2 DEF PreQueryCheck
  <2> QED BY <1>2, <2>2, <2>3 DEF PreQueryCheck
<1>3. CASE VectorSearch(q)
  <2>1. PICK S \in Best(TopK, PointsIn(Ns(q))) : found' = [found EXCEPT ![q].vector = S]
    BY <1>3 DEF VectorSearch
  <2>2. S \subseteq DocId
    BY BestOf DEF PointsIn, Types, TypeOK
  <2> QED BY <1>3, <2>1, <2>2 DEF VectorSearch
<1>4. CASE LexicalSearch(q)
  <2>0. PICK match \in SUBSET {d \in Visible(Ns(q)) : row[d].content \notin Blank} :
         \E S \in Best(TopK, match) :
          found' = [found EXCEPT ![q].lexical = S]
    BY <1>4 DEF LexicalSearch
  <2>1. PICK S \in Best(TopK, match) : found' = [found EXCEPT ![q].lexical = S]
    BY <2>0
  <2>2. S \subseteq match /\ match \subseteq DocId
    BY BestOf DEF Visible
  <2> QED BY <1>4, <2>1, <2>2 DEF LexicalSearch
<1>5. CASE GraphRelations(q)
  <2>1. related' \in [Ask -> SUBSET Entity]
    BY <1>5 DEF GraphRelations, KnownEntities
  <2> QED BY <1>5, <2>1 DEF GraphRelations
<1>6. CASE Rank(q)
  <2>1. PICK graph \in Best(TopK, Mentioning(q)),
             hybrid \in Best(TopK, found[q].vector \cup found[q].lexical) :
          \E merged \in Best(TopK, hybrid \cup graph) : \E S \in Best(MmrK, merged) :
            context' = [context EXCEPT ![q] = S]
    BY <1>6 DEF Rank
  <2>2. PICK merged \in Best(TopK, hybrid \cup graph) : \E S \in Best(MmrK, merged) :
          context' = [context EXCEPT ![q] = S]
    BY <2>1
  <2>6. PICK S \in Best(MmrK, merged) : context' = [context EXCEPT ![q] = S]
    BY <2>2
  <2>3. S \subseteq found[q].vector \cup found[q].lexical \cup Mentioning(q)
    BY BestOf
  <2>4. S \subseteq DocId
    BY <2>3 DEF Mentioning, Visible
  <2> QED BY <1>6, <2>6, <2>4 DEF Rank
<1>7. CASE CheckChunks(q)
  BY <1>7 DEF CheckChunks
<1>8. CASE Generate(q)
  BY <1>8 DEF Generate
<1>9. CASE RecordCost(q) \/ RedactAnswer(q) \/ BreakOff(q)
  BY <1>9, SMTT(20) DEF RecordCost, RedactAnswer, BreakOff
<1> QED BY <1>1, <1>2, <1>3, <1>4, <1>5, <1>6, <1>7, <1>8, <1>9 DEF QueryStep

\* The type invariant of the state a query adds.
THEOREM QueryTypeCorrect == QuerySpec => []QueryTypeOK
<1>1. QueryInit => QueryTypeOK
  BY DEF QueryInit, QueryTypeOK, Stages, Answer, NoAnswer
<1>2. Types /\ QueryTypeOK /\ [QueryNext]_allVars => QueryTypeOK'
  <2> SUFFICES ASSUME Types, QueryTypeOK, [QueryNext]_allVars PROVE QueryTypeOK'
    OBVIOUS
  <2>1. CASE UNCHANGED asking
    BY <2>1 DEF asking, QueryTypeOK
  <2> QED BY <2>1, QueryStepTypes DEF QueryNext, CorpusStep, AllEnded, allVars
<1> QED BY <1>1, <1>2, CorpusUndisturbed, LivesCorrect, PTL DEF QuerySpec

-----------------------------------------------------------------------------
\* What a query has read.

Reads(q) == found[q].vector \cup found[q].lexical \cup context[q]

\* What was removed before a query is removed still; what the query has read are
\* documents of its namespace that were not; and it reads only once it is allowed to.
Retrieved ==
    \A q \in Ask :
        /\ \A d \in removedBefore[q] : docState[d] = "deleted"
        /\ \A d \in Reads(q) :
             docState[d] # "unused" /\ row[d].ns = Ns(q) /\ d \notin removedBefore[q]
        /\ stage[q] \in {"arrived", "denied"} => Reads(q) = {}
        /\ stage[q] \notin {"arrived", "denied"} => MayRead(question[q].caller, Ns(q))

LEMMA CorpusRetrieved ==
    ASSUME Types, Lives, QueryTypeOK, Retrieved, [Next]_vars, UNCHANGED asking
    PROVE  Retrieved'
<1>1. RowsKept
  BY DocumentsKept
<1>2. \A q \in Ask : /\ Reads(q)' = Reads(q) /\ Ns(q)' = Ns(q)
                     /\ Reads(q) \subseteq DocId /\ removedBefore[q] \subseteq DocId
  BY DEF asking, Reads, Ns, QueryTypeOK
<1>3. UNCHANGED <<question, stage, removedBefore>>
  BY DEF asking
<1> QED BY <1>1, <1>2, <1>3 DEF RowsKept, Retrieved

\* Removed documents have no vectors, and SELECTs see committed documents only.
LEMMA QueryRetrieved ==
    ASSUME Types, Stored, QueryTypeOK, Retrieved, NEW q \in Ask, QueryStep(q),
           UNCHANGED vars
    PROVE  Retrieved'
<1> USE DEF QueryTypeOK, Enter, Ended
<1>0. UNCHANGED <<docState, row>>
  BY DEF vars, postgres
<1>1. CASE Authorize(q)
  <2>1. Reads(q) = {}
    BY <1>1 DEF Authorize, Retrieved
  <2>2. \A p \in Ask : Reads(p)' = Reads(p) /\ Ns(p)' = Ns(p)
    BY <1>1 DEF Authorize, Reads, Ns
  <2>3. /\ \A d \in removedBefore'[q] : docState[d] = "deleted"
        /\ stage'[q] \in {"authorized", "denied"}
        /\ stage'[q] = "authorized" => MayRead(question[q].caller, Ns(q))
        /\ \A p \in Ask \ {q} : stage'[p] = stage[p] /\ removedBefore'[p] = removedBefore[p]
        /\ question' = question
    BY <1>1 DEF Authorize
  <2> QED BY <1>0, <2>1, <2>2, <2>3 DEF Retrieved
<1>2. ASSUME UNCHANGED <<question, removedBefore>>,
             \A p \in Ask \ {q} : stage'[p] = stage[p] /\ Reads(p)' = Reads(p),
             stage[q] \notin {"arrived", "denied"}, stage'[q] \notin {"arrived", "denied"},
             \A d \in Reads(q)' \ Reads(q) :
               docState[d] \notin {"unused", "deleted"} /\ row[d].ns = Ns(q)
      PROVE  Retrieved'
  BY <1>0, <1>2 DEF Retrieved, Ns
<1>3. CASE VectorSearch(q)
  <2>1. PICK S \in Best(TopK, PointsIn(Ns(q))) : found' = [found EXCEPT ![q].vector = S]
    BY <1>3 DEF VectorSearch
  <2>2. \A d \in S : docState[d] \notin {"unused", "deleted"} /\ row[d].ns = Ns(q)
    BY BestOf DEF PointsIn, Stored
  <2>3. /\ \A p \in Ask \ {q} : Reads(p)' = Reads(p)
        /\ Reads(q)' \subseteq Reads(q) \cup S
    BY <1>3, <2>1 DEF VectorSearch, Reads
  <2> QED BY <1>2, <1>3, <2>2, <2>3 DEF VectorSearch
<1>4. CASE LexicalSearch(q)
  <2>0. PICK match \in SUBSET {d \in Visible(Ns(q)) : row[d].content \notin Blank} :
         \E S \in Best(TopK, match) :
          found' = [found EXCEPT ![q].lexical = S]
    BY <1>4 DEF LexicalSearch
  <2>1. PICK S \in Best(TopK, match) : found' = [found EXCEPT ![q].lexical = S]
    BY <2>0
  <2>2. S \subseteq match
    BY BestOf
  <2>3. \A d \in S : docState[d] \notin {"unused", "deleted"} /\ row[d].ns = Ns(q)
    BY <2>2 DEF Visible
  <2>4. /\ \A p \in Ask \ {q} : Reads(p)' = Reads(p)
        /\ Reads(q)' \subseteq Reads(q) \cup S
    BY <1>4, <2>1 DEF LexicalSearch, Reads
  <2> QED BY <1>2, <1>4, <2>3, <2>4 DEF LexicalSearch
<1>5. CASE Rank(q)
  <2>1. PICK graph \in Best(TopK, Mentioning(q)),
             hybrid \in Best(TopK, found[q].vector \cup found[q].lexical) :
          \E merged \in Best(TopK, hybrid \cup graph) : \E S \in Best(MmrK, merged) :
            context' = [context EXCEPT ![q] = S]
    BY <1>5 DEF Rank
  <2>2. PICK merged \in Best(TopK, hybrid \cup graph) : \E S \in Best(MmrK, merged) :
          context' = [context EXCEPT ![q] = S]
    BY <2>1
  <2>6. PICK S \in Best(MmrK, merged) : context' = [context EXCEPT ![q] = S]
    BY <2>2
  <2>3. S \subseteq Reads(q) \cup Mentioning(q)
    BY BestOf DEF Reads
  <2>4. \A d \in Mentioning(q) :
          docState[d] \notin {"unused", "deleted"} /\ row[d].ns = Ns(q)
    BY DEF Mentioning, Visible
  <2>5. /\ \A p \in Ask \ {q} : Reads(p)' = Reads(p)
        /\ Reads(q)' \subseteq Reads(q) \cup Mentioning(q)
    BY <1>5, <2>6, <2>3 DEF Rank, Reads
  <2> QED BY <1>2, <1>5, <2>4, <2>5 DEF Rank
<1>6. CASE \/ PreQueryCheck(q) \/ GraphRelations(q) \/ CheckChunks(q) \/ Generate(q)
           \/ RecordCost(q) \/ RedactAnswer(q) \/ BreakOff(q)
  <2>1. /\ UNCHANGED <<question, removedBefore, found, context>>
        /\ \A p \in Ask \ {q} : stage'[p] = stage[p]
        /\ stage[q] \notin {"arrived", "denied"} /\ stage'[q] \notin {"arrived", "denied"}
    BY <1>6 DEF PreQueryCheck, GraphRelations, CheckChunks, Generate, RecordCost,
                RedactAnswer, BreakOff
  <2>2. \A p \in Ask : Reads(p)' = Reads(p)
    BY <2>1 DEF Reads
  <2> QED BY <1>2, <2>1, <2>2
<1> QED BY <1>1, <1>3, <1>4, <1>5, <1>6 DEF QueryStep

LEMMA RetrievedCorrect == QuerySpec => [](QueryTypeOK /\ Retrieved)
<1>1. QueryInit => Retrieved
  BY DEF QueryInit, Retrieved, Reads
<1>2. Types /\ Lives /\ Stored /\ QueryTypeOK /\ Retrieved /\ [QueryNext]_allVars
      => Retrieved'
  <2> SUFFICES ASSUME Types, Lives, Stored, QueryTypeOK, Retrieved, [QueryNext]_allVars
               PROVE  Retrieved'
    OBVIOUS
  <2>1. ASSUME NEW q \in Ask, QueryStep(q), UNCHANGED vars PROVE Retrieved'
    BY <2>1, QueryRetrieved
  <2>2. ASSUME [Next]_vars, UNCHANGED asking PROVE Retrieved'
    BY <2>2, CorpusRetrieved
  <2>3. CorpusStep => [Next]_vars
    BY DEF CorpusStep, Next
  <2> QED BY <2>1, <2>2, <2>3 DEF QueryNext, CorpusStep, AllEnded, Quiet, allVars
<1> QED BY <1>1, <1>2, CorpusUndisturbed, StoredCorrect, QueryTypeCorrect, PTL
        DEF QuerySpec

\* An answer cites nothing that was removed before its query arrived.
THEOREM CitesNothingRemovedAlways == QuerySpec => []CitesNothingRemoved
<1>1. Retrieved => CitesNothingRemoved
  BY DEF Retrieved, Reads, CitesNothingRemoved
<1> QED BY <1>1, RetrievedCorrect, PTL

\* An answer cites only documents of a namespace its caller may read.
THEOREM QueryIsolationAlways == QuerySpec => []QueryIsolation
<1>1. Retrieved => QueryIsolation
  BY DEF Retrieved, Reads, QueryIsolation
<1> QED BY <1>1, RetrievedCorrect, PTL

-----------------------------------------------------------------------------
\* Guardrails and costs.

\* What each stage of a query has behind it.
Checks ==
    \A q \in Ask :
        /\ stage[q] \notin Ended \cup {"arrived", "authorized"} => ~question[q].unsafe
        /\ stage[q] = "answered" => ~question[q].unsafe
        /\ stage[q] \in {"clean", "generated", "costed", "answered"}
           => \A d \in context[q] : row[d].content \notin Suspect
        /\ stage[q] = "blocked" => \E e \in {"unsafe", "indirect"} : <<q, e>> \in events
        /\ stage[q] \in {"costed", "answered"} => q \in costs
        /\ q \in costs => stage[q] \in {"costed", "answered", "broken"}
        /\ stage[q] = "answered" /\ answer[q].pii => <<q, "pii">> \in events

LEMMA QueryChecks ==
    ASSUME QueryTypeOK, Checks, NEW q \in Ask, QueryStep(q), UNCHANGED vars
    PROVE  Checks'
<1> USE DEF QueryTypeOK, Checks, Enter, Ended
<1>0. UNCHANGED row
  BY DEF vars, postgres
<1>1. CASE Authorize(q)
  BY <1>0, <1>1 DEF Authorize
<1>2. CASE PreQueryCheck(q)
  BY <1>0, <1>2, ZenonT(30) DEF PreQueryCheck
<1>3. CASE VectorSearch(q)
  BY <1>0, <1>3 DEF VectorSearch
<1>4. CASE LexicalSearch(q)
  BY <1>0, <1>4 DEF LexicalSearch
<1>5. CASE GraphRelations(q)
  BY <1>0, <1>5 DEF GraphRelations
<1>6. CASE Rank(q)
  <2>1. /\ stage[q] = "relations" /\ stage' = [stage EXCEPT ![q] = "ranked"]
        /\ \A p \in Ask \ {q} : context'[p] = context[p]
        /\ UNCHANGED <<question, answer, events, costs>>
    BY <1>6 DEF Rank
  <2> QED BY <1>0, <2>1
<1>7. CASE CheckChunks(q)
  BY <1>0, <1>7 DEF CheckChunks, Checked
<1>8. CASE Generate(q)
  BY <1>0, <1>8 DEF Generate
<1>9. CASE RecordCost(q)
  BY <1>0, <1>9 DEF RecordCost
<1>10. CASE RedactAnswer(q)
  BY <1>0, <1>10 DEF RedactAnswer
<1>11. CASE BreakOff(q)
  BY <1>0, <1>11 DEF BreakOff
<1> QED BY <1>1, <1>2, <1>3, <1>4, <1>5, <1>6, <1>7, <1>8, <1>9, <1>10, <1>11
        DEF QueryStep

LEMMA CorpusChecks ==
    ASSUME Types, Lives, QueryTypeOK, Retrieved, Checks, [Next]_vars, UNCHANGED asking
    PROVE  Checks'
<1>1. \A q \in Ask : \A d \in context[q] : row'[d] = row[d]
  BY DocumentsKept DEF RowsKept, Retrieved, Reads, QueryTypeOK
<1> QED BY <1>1 DEF asking, Checks

LEMMA ChecksCorrect == QuerySpec => []Checks
<1>1. QueryInit => Checks
  BY DEF QueryInit, Checks, Ended
<1>2. /\ Types /\ Lives /\ QueryTypeOK /\ Retrieved /\ Checks
      /\ [QueryNext]_allVars
      => Checks'
  <2> SUFFICES ASSUME Types, Lives, QueryTypeOK, Retrieved, Checks, [QueryNext]_allVars
               PROVE  Checks'
    OBVIOUS
  <2>1. ASSUME NEW q \in Ask, QueryStep(q), UNCHANGED vars PROVE Checks'
    BY <2>1, QueryChecks
  <2>2. ASSUME [Next]_vars, UNCHANGED asking PROVE Checks'
    BY <2>2, CorpusChecks
  <2>3. CorpusStep => [Next]_vars
    BY DEF CorpusStep, Next
  <2> QED BY <2>1, <2>2, <2>3 DEF QueryNext, CorpusStep, AllEnded, Quiet, allVars
<1> QED BY <1>1, <1>2, CorpusUndisturbed, LivesCorrect, RetrievedCorrect, PTL
        DEF QuerySpec

\* No answer to an unsafe query or from suspect text, no block without its event.
THEOREM GuardrailsHoldAlways == QuerySpec => []GuardrailsHold
<1>1. Checks => GuardrailsHold
  BY DEF Checks, GuardrailsHold, Ended
<1> QED BY <1>1, ChecksCorrect, PTL

\* Every answer has its cost and redaction on record, and no blocked query a cost.
THEOREM AnswersAccountedAlways == QuerySpec => []AnswersAccounted
<1>1. Checks => AnswersAccounted
  BY DEF Checks, AnswersAccounted
<1> QED BY <1>1, ChecksCorrect, PTL

-----------------------------------------------------------------------------
(***************************************************************************)
(* Views of the graph.                                                     *)
(***************************************************************************)
\* Views implement the corpus specification by leaving it alone.
THEOREM CorpusUnseen == ExplorerSpec => Spec
<1>1. ExplorerInit => Init
  BY DEF ExplorerInit
<1>2. [ExplorerNext]_explorerVars => [Next]_vars
  BY DEF ExplorerNext, CorpusMoves, ViewsEnded, Next, explorerVars
<1> QED BY <1>1, <1>2, PTL DEF ExplorerSpec, Spec

\* Entities are never deleted.
LEMMA EntitiesStay == [Next]_vars => entities \subseteq entities'
<1> SUFFICES ASSUME [Next]_vars PROVE entities \subseteq entities'
  OBVIOUS
<1>1. ASSUME NEW r \in Req, CommitIngest(r) PROVE entities \subseteq entities'
  BY <1>1 DEF CommitIngest
<1>2. ASSUME NEW r \in Req, ~CommitIngest(r), Step(r) \/ DeadlockVictim(r) \/ Fail(r)
      PROVE  UNCHANGED entities
  BY <1>2, AbortCases
  DEF Step, IngestStep, RemovalStep, RetainStep, FindCollection, AddCollection,
      CheckDuplicate, EnsureIndex, CreateIndex, InsertDocument, UpsertVectors,
      FindEntities, InsertEntity, LookupDocument, SelectExpired, SelectMatching, Select,
      PurgeVectors, CommitRemoval, ReadCollection, CommitRetention, Refuse, Abort,
      postgres
<1>3. CASE Tick \/ Quiet \/ UNCHANGED vars
  BY <1>3 DEF Tick, Quiet, vars, postgres
<1> QED BY <1>1, <1>2, <1>3 DEF Next

-----------------------------------------------------------------------------
\* What a view has read so far.  Its edges were committed when they were read, so
\* their documents have at most been removed since and their ends are still entities;
\* the seeds of a search are entities, too.
EdgeRead(v, x) ==
    /\ docState[x[1]] \in {"live", "deleted"}
    /\ x[1] \notin gone[v]
    /\ row[x[1]].ns = ViewNs(v)
    /\ {x[2], x[3]} \subseteq EntitiesOf[row[x[1]].content]
    /\ Ends(x) \subseteq entities

Viewed ==
    \A v \in Look :
        /\ progress[v] \notin {"arrived", "denied"} => MayRead(view[v].caller, ViewNs(v))
        /\ progress[v] \in {"arrived", "authorized", "denied", "seeded", "bare"} => edges[v] = {}
        /\ \A d \in gone[v] : docState[d] = "deleted"
        /\ view[v].mode = "search" /\ progress[v] # "arrived"
             => seeds[v] \subseteq EntitiesIn(ViewNs(v))
        /\ view[v].mode = "search" => progress[v] # "bare"
        /\ \A x \in edges[v] : EdgeRead(v, x)

Explored == ExplorerTypeOK /\ Viewed /\ EdgesExplained /\ SeedsKept

LEMMA InitExplored == ExplorerInit => Explored
BY DEF ExplorerInit, Explored, ExplorerTypeOK, Viewed, EdgesExplained, SeedsKept

\* A step of the corpus leaves what was read as it was read, but for removals.
LEMMA CorpusExplored ==
    ASSUME Types, Lives, Explored, [Next]_vars, UNCHANGED viewing
    PROVE  Explored'
<1> USE DEF viewing, Explored
<1>1. RowsKept /\ entities \subseteq entities'
  BY DocumentsKept, EntitiesStay
<1>2. ExplorerTypeOK' /\ SeedsKept'
  BY DEF ExplorerTypeOK, SeedsKept
<1>3. ASSUME NEW v \in Look, NEW x \in edges[v]
      PROVE  /\ x[1] \in DocId /\ row'[x[1]] = row[x[1]] /\ Ends(x)' = Ends(x)
             /\ docState'[x[1]] \in {"live", "deleted"}
             /\ docState[x[1]] = "deleted" => docState'[x[1]] = "deleted"
  <2>1. x[1] \in DocId /\ docState[x[1]] \in {"live", "deleted"}
    BY <1>3 DEF ExplorerTypeOK, Edge, Viewed, EdgeRead
  <2>2. row'[x[1]] = row[x[1]] /\ (docState[x[1]] = "deleted" => docState'[x[1]] = "deleted")
    BY <1>1, <2>1 DEF RowsKept
  <2>3. docState'[x[1]] \in {"live", "deleted"}
    BY <1>1, <2>1 DEF RowsKept
  <2> QED BY <2>1, <2>2, <2>3 DEF Ends
<1>4. Viewed'
  <2>1. ASSUME NEW v \in Look, NEW x \in edges[v] PROVE EdgeRead(v, x)'
    BY <1>1, <1>3, <2>1 DEF Viewed, EdgeRead, ViewNs
  <2>2. ASSUME NEW v \in Look, NEW d \in gone[v] PROVE docState'[d] = "deleted"
    BY <1>1, <2>2 DEF Viewed, RowsKept, ExplorerTypeOK
  <2>3. ASSUME NEW v \in Look PROVE EntitiesIn(ViewNs(v)) \subseteq EntitiesIn(ViewNs(v))'
    BY <1>1 DEF EntitiesIn, ViewNs
  <2> QED BY <2>1, <2>2, <2>3 DEF Viewed, ViewNs, MayRead
<1>5. EdgesExplained'
  BY <1>3 DEF EdgesExplained
<1> QED BY <1>2, <1>4, <1>5

\* A step of a view: what it reads is committed then.
LEMMA ViewExplored ==
    ASSUME Types, Lives, ReferencesResolved, Explored, NEW v \in Look, ViewStep(v),
           UNCHANGED vars
    PROVE  Explored'
<1> USE DEF Explored, ExplorerTypeOK
<1>1. /\ UNCHANGED <<docState, row, entities>>
      /\ \A x : Ends(x)' = Ends(x)
      /\ \A ns : EntitiesIn(ns)' = EntitiesIn(ns) /\ EntitiesIn(ns) \subseteq EntityId
      /\ \A k : HasMention(k)' = HasMention(k)
  BY DEF vars, postgres, Ends, EntitiesIn, HasMention, Visible, Types, TypeOK, EntityId
<1>2. CASE AuthorizeView(v) \/ BreakOffView(v)
  <2>1. UNCHANGED <<view, edges, nodes, unmentioned>>
    BY <1>2 DEF AuthorizeView, BreakOffView
  <2>2. ExplorerTypeOK'
    <3>1. view[v].id \in EntityId
      BY ExplorerAssumption DEF View
    <3>2. CASE AuthorizeView(v)
      <4>1. seeds' \in [Look -> SUBSET EntityId]
        BY <3>1, <3>2 DEF AuthorizeView
      <4>2. gone' \in [Look -> SUBSET DocId]
        BY <3>2 DEF AuthorizeView
      <4>3. progress'[v] \in {"authorized", "denied"}
        BY <3>2 DEF AuthorizeView, GoOn
      <4> QED BY <2>1, <3>2, <4>1, <4>2, <4>3 DEF AuthorizeView, GoOn
    <3>3. CASE BreakOffView(v)
      BY <2>1, <3>3 DEF BreakOffView, GoOn
    <3> QED BY <1>2, <3>2, <3>3
  <2>3. EdgesExplained' /\ SeedsKept'
    <3>1. ASSUME NEW u \in Look, progress'[u] = "answered"
          PROVE  progress[u] = "answered" /\ seeds'[u] = seeds[u]
      <4>1. u # v
        BY <1>2, <3>1 DEF AuthorizeView, BreakOffView, GoOn
      <4> QED BY <1>2, <3>1, <4>1 DEF AuthorizeView, BreakOffView, GoOn
    <3> QED BY <1>1, <2>1, <3>1 DEF EdgesExplained, SeedsKept
  <2>4. Viewed'
    <3>1. CASE AuthorizeView(v)
      BY <1>1, <2>1, <3>1 DEF Viewed, EdgeRead, ViewNs, MayRead, AuthorizeView, GoOn
    <3>2. CASE BreakOffView(v)
      BY <1>1, <2>1, <3>2 DEF Viewed, EdgeRead, ViewNs, MayRead, BreakOffView, GoOn
    <3> QED BY <1>2, <3>1, <3>2
  <2> QED BY <2>2, <2>3, <2>4
<1>3. CASE FindSeeds(v)
  <2>1. PICK S \in SUBSET EntitiesIn(ViewNs(v)) :
          /\ seeds' = [seeds EXCEPT ![v] = S]
          /\ GoOn(v, IF S = {} THEN "answered" ELSE "seeded")
    BY <1>3 DEF FindSeeds
  <2>2. /\ UNCHANGED <<view, edges, nodes, unmentioned, gone>>
        /\ progress[v] = "authorized" /\ view[v].mode = "search"
    BY <1>3 DEF FindSeeds
  <2>3. ExplorerTypeOK'
    BY <1>1, <2>1, <2>2 DEF GoOn
  <2>4. Viewed'
    BY <1>1, <2>1, <2>2 DEF Viewed, EdgeRead, ViewNs, MayRead, GoOn
  <2>5. edges[v] = {}
    BY <2>2 DEF Viewed
  <2>6. EdgesExplained' /\ SeedsKept'
    BY <1>1, <2>1, <2>2, <2>5 DEF EdgesExplained, SeedsKept, GoOn
  <2> QED BY <2>3, <2>4, <2>6
<1>4. CASE ReadEdges(v)
  <2> DEFINE k == IF view[v].mode = "entity" THEN Limit ELSE 2 * Limit
             I == {x \in EdgesIn(ViewNs(v)) :
                      view[v].mode = "all" \/ Ends(x) \cap seeds[v] # {}}
  <2>1. PICK E \in Best(k, I) :
          /\ edges' = [edges EXCEPT ![v] = E]
          /\ GoOn(v, IF view[v].mode = "all" /\ E = {} THEN "bare" ELSE "edges")
    BY <1>4 DEF ReadEdges
  <2>2. /\ UNCHANGED <<view, seeds, nodes, unmentioned, gone>>
        /\ progress[v] \in {"authorized", "seeded"}
    BY <1>4 DEF ReadEdges
  <2>3. ASSUME NEW x \in E PROVE x \in Edge /\ EdgeRead(v, x)
    <3>1. x \in EdgesIn(ViewNs(v))
      BY DEF Best
    <3>2. PICK d \in Visible(ViewNs(v)) : \E p \in Relations(d) : x = <<d, p[1], p[2]>>
      BY <3>1 DEF EdgesIn
    <3>3. PICK p \in Relations(d) : x = <<d, p[1], p[2]>>
      BY <3>2
    <3>4. d \in DocId /\ docState[d] = "live" /\ row[d].ns = ViewNs(v) /\ row[d] \in Row
      BY <3>2 DEF Visible, Lives, Owned
    <3>5. {p[1], p[2]} \subseteq EntitiesOf[row[d].content]
      BY <3>3 DEF Relations
    <3>6. EntitiesOf[row[d].content] \subseteq Entity
      BY <3>4, DataAssumption DEF Row
    <3>7. {<<row[d].ns, p[1]>>, <<row[d].ns, p[2]>>} \subseteq entities
      BY <3>4, <3>5 DEF ReferencesResolved
    <3>8. d \notin gone[v]
      BY <3>4 DEF Viewed
    <3> QED BY <3>3, <3>4, <3>5, <3>6, <3>7, <3>8 DEF Edge, EdgeRead, Ends
  <2>4. ExplorerTypeOK'
    BY <2>1, <2>2, <2>3 DEF GoOn
  <2>5. Viewed'
    <3>1. ASSUME NEW u \in Look, NEW x \in edges'[u] PROVE EdgeRead(u, x)'
      BY <1>1, <2>1, <2>2, <2>3 DEF Viewed, EdgeRead, ViewNs
    <3> QED BY <1>1, <2>1, <2>2, <3>1 DEF Viewed, ViewNs, MayRead, GoOn
  <2>6. EdgesExplained' /\ SeedsKept'
    BY <1>1, <2>1, <2>2 DEF EdgesExplained, SeedsKept, GoOn
  <2> QED BY <2>4, <2>5, <2>6
<1>5. ASSUME NEW S \in SUBSET EntitiesIn(ViewNs(v)), Show(v, S), progress[v] \in {"edges", "bare"},
             \A x \in edges[v] : Ends(x) \subseteq S,
             view[v].mode = "search" => seeds[v] \subseteq S
      PROVE  Explored'
  <2>1. ExplorerTypeOK'
    BY <1>1, <1>5 DEF Show, GoOn
  <2>2. Viewed'
    BY <1>1, <1>5 DEF Show, GoOn, Viewed, EdgeRead, ViewNs, MayRead
  <2>3. SeedsKept'
    BY <1>5 DEF Show, GoOn, SeedsKept
  <2>4. ASSUME NEW x \in edges[v], docState[x[1]] # "deleted", NEW k \in Ends(x)
        PROVE  HasMention(k)
    <3>1. EdgeRead(v, x) /\ x[1] \in DocId
      BY <2>4 DEF Viewed, Edge
    <3>2. x[1] \in Visible(k[1]) /\ k[2] \in EntitiesOf[row[x[1]].content]
      BY <2>4, <3>1 DEF EdgeRead, Visible, Ends
    <3> QED BY <3>2 DEF HasMention
  <2>5. EdgesExplained'
    BY <1>1, <1>5, <2>4 DEF Show, GoOn, EdgesExplained
  <2> QED BY <2>1, <2>2, <2>3, <2>5
<1>6. CASE ReadNodes(v)
  <2>1. \A x \in edges[v] : Ends(x) \subseteq EntitiesIn(ViewNs(v)) \cap Related(v)
    <3> SUFFICES ASSUME NEW x \in edges[v]
                 PROVE  Ends(x) \subseteq EntitiesIn(ViewNs(v)) /\ Ends(x) \subseteq Related(v)
      OBVIOUS
    <3>1. EdgeRead(v, x)
      BY DEF Viewed
    <3>2. Ends(x) \subseteq EntitiesIn(ViewNs(v))
      BY <3>1 DEF EdgeRead, Ends, EntitiesIn
    <3>3. Ends(x) \subseteq Related(v)
      BY DEF Related
    <3> QED BY <3>2, <3>3
  <2>2. view[v].mode = "search" => seeds[v] \subseteq EntitiesIn(ViewNs(v)) \cap Related(v)
    BY <1>6 DEF ReadNodes, Viewed, Related
  <2> QED BY <1>5, <1>6, <2>1, <2>2 DEF ReadNodes
<1>7. CASE ReadBareNodes(v)
  <2>1. edges[v] = {} /\ view[v].mode # "search"
    BY <1>7 DEF ReadBareNodes, Viewed
  <2> QED BY <1>5, <1>7, <2>1 DEF ReadBareNodes
<1> QED BY <1>2, <1>3, <1>4, <1>6, <1>7 DEF ViewStep

LEMMA ExploredCorrect == ExplorerSpec => []Explored
<1>1. Types /\ Lives /\ ReferencesResolved /\ Explored /\ [ExplorerNext]_explorerVars => Explored'
  <2> SUFFICES ASSUME Types, Lives, ReferencesResolved, Explored, [ExplorerNext]_explorerVars
               PROVE  Explored'
    OBVIOUS
  <2>1. CASE CorpusMoves \/ ViewsEnded \/ UNCHANGED explorerVars
    <3>1. [Next]_vars /\ UNCHANGED viewing
      BY <2>1 DEF CorpusMoves, ViewsEnded, explorerVars, Next
    <3> QED BY <3>1, CorpusExplored
  <2>2. ASSUME NEW v \in Look, ViewStep(v), UNCHANGED vars PROVE Explored'
    BY <2>2, ViewExplored
  <2> QED BY <2>1, <2>2 DEF ExplorerNext
<1> QED BY <1>1, CorpusUnseen, LivesCorrect, ReferencesResolvedAlways, InitExplored, PTL
        DEF ExplorerSpec

\* The state of a view keeps its type.
THEOREM ExplorerTypeCorrect == ExplorerSpec => []ExplorerTypeOK
<1>1. Explored => ExplorerTypeOK
  BY DEF Explored
<1> QED BY <1>1, ExploredCorrect, PTL

\* Edges end at nodes of their view, and at mentioned ones unless their document has
\* been removed, whatever commits between the reads.
THEOREM EdgesExplainedAlways == ExplorerSpec => []EdgesExplained
<1>1. Explored => EdgesExplained
  BY DEF Explored
<1> QED BY <1>1, ExploredCorrect, PTL

\* No view shows evidence that was removed before it was asked for, or of a namespace
\* its caller may not read.
THEOREM EvidenceCurrentAlways == ExplorerSpec => []EvidenceCurrent
<1>1. Explored => EvidenceCurrent
  BY DEF Explored, Viewed, EdgeRead, EvidenceCurrent
<1> QED BY <1>1, ExploredCorrect, PTL

\* A view of a search holds what was matched.
THEOREM SeedsKeptAlways == ExplorerSpec => []SeedsKept
<1>1. Explored => SeedsKept
  BY DEF Explored
<1> QED BY <1>1, ExploredCorrect, PTL

=============================================================================
