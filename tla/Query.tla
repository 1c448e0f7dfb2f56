------------------------------- MODULE Query -------------------------------
(***************************************************************************)
(* POST /query beside everything that changes the corpus.  A query reads   *)
(* Qdrant once and PostgreSQL several times, each read seeing what is      *)
(* committed then; it commits its own rows (guardrail events, the cost) as *)
(* it goes.  Scores, ranks and texts are abstracted to the choices they    *)
(* leave open; a document stands for its chunks.                           *)
(***************************************************************************)
EXTENDS CorpusReads

CONSTANTS
    Ask,            \* queries; each is asked once
    Questions,      \* what clients may ask
    Suspect,        \* contents in which detect_injection finds something
    TopK, MmrK      \* request.top_k or TOP_K, and MMR_K

Question == [caller : Caller, ns : Namespace, unsafe : BOOLEAN]

ASSUME QueryAssumption ==
    /\ Questions \subseteq Question
    /\ Suspect \subseteq Content
    /\ TopK \in Nat /\ MmrK \in Nat

VARIABLES
    question,
    stage,          \* how far each query is
    found,          \* documents the searches have found
    related,        \* entities the graph search expands to
    context,        \* documents the answer is generated from and cites
    answer,         \* is it properly cited, and does it hold PII
    events,         \* committed guardrail events
    costs,          \* queries with a committed cost event
    removedBefore   \* history: documents removed before the query arrived

asking == <<question, stage, found, related, context, answer, events, costs,
            removedBefore>>
allVars == <<vars, asking>>

Answer == [citations : {"valid", "error"}, pii : BOOLEAN]
NoAnswer == [citations |-> "valid", pii |-> FALSE]

Ended == {"answered", "blocked", "denied", "broken"}
Stages == Ended \cup {"arrived", "authorized", "safe", "vectors", "lexical",
                      "relations", "ranked", "clean", "generated", "costed"}

\* Types of the state a query adds to that of Corpus.
QueryTypeOK ==
    /\ question \in [Ask -> Questions]
    /\ stage \in [Ask -> Stages]
    /\ found \in [Ask -> [vector : SUBSET DocId, lexical : SUBSET DocId]]
    /\ related \in [Ask -> SUBSET Entity]
    /\ context \in [Ask -> SUBSET DocId]
    /\ answer \in [Ask -> Answer]
    /\ events \subseteq Ask \X {"unsafe", "indirect", "pii"}
    /\ costs \subseteq Ask
    /\ removedBefore \in [Ask -> SUBSET DocId]

QueryInit ==
    /\ Init
    /\ question \in [Ask -> Questions]
    /\ stage = [q \in Ask |-> "arrived"]
    /\ found = [q \in Ask |-> [vector |-> {}, lexical |-> {}]]
    /\ related = [q \in Ask |-> {}]
    /\ context = [q \in Ask |-> {}]
    /\ answer = [q \in Ask |-> NoAnswer]
    /\ events = {}
    /\ costs = {}
    /\ removedBefore = [q \in Ask |-> {}]

-----------------------------------------------------------------------------
Enter(q, s) == stage' = [stage EXCEPT ![q] = s]

Ns(q) == question[q].ns

\* NamespaceAuthz.require_read.
Authorize(q) ==
    /\ stage[q] = "arrived"
    /\ Enter(q, IF MayRead(question[q].caller, Ns(q)) THEN "authorized" ELSE "denied")
    /\ removedBefore' = [removedBefore EXCEPT ![q] =
                           {d \in DocId : docState[d] = "deleted"}]
    /\ UNCHANGED <<question, found, related, context, answer, events, costs>>

\* GuardrailService.pre_query_check: a blocked query is recorded, then refused.
PreQueryCheck(q) ==
    /\ stage[q] = "authorized"
    /\ \/ /\ question[q].unsafe
          /\ events' = events \cup {<<q, "unsafe">>}
          /\ Enter(q, "blocked")
       \/ /\ ~question[q].unsafe
          /\ Enter(q, "safe")
          /\ UNCHANGED events
    /\ UNCHANGED <<question, found, related, context, answer, costs, removedBefore>>

\* The points a search in a namespace may return: their payload holds it, whether
\* or not the document is committed.
\* Mutant: the search has no filter.
PointsOfAll(ns) == vectors
PointsIn(ns) == {d \in vectors : row[d].ns = ns}

\* The query is embedded, then Qdrant searched: an error before the first ingest
\* has created the index.
VectorSearch(q) ==
    /\ stage[q] = "safe" /\ index
    /\ \E S \in Best(TopK, PointsIn(Ns(q))) : found' = [found EXCEPT ![q].vector = S]
    /\ Enter(q, "vectors")
    /\ UNCHANGED <<question, related, context, answer, events, costs, removedBefore>>

\* Of the committed chunks, the best among those that share a term with the query.
LexicalSearch(q) ==
    /\ stage[q] = "vectors"
    /\ \E match \in SUBSET {d \in Visible(Ns(q)) : row[d].content \notin Blank} :
         \E S \in Best(TopK, match) : found' = [found EXCEPT ![q].lexical = S]
    /\ Enter(q, "lexical")
    /\ UNCHANGED <<question, related, context, answer, events, costs, removedBefore>>

\* GraphMemory.graph_search, first reads: entities the query names, and those one
\* stored relation away from them.
GraphRelations(q) ==
    /\ stage[q] = "lexical"
    /\ \E seeds \in SUBSET KnownEntities(Ns(q)) :
         related' = [related EXCEPT ![q] =
           seeds \cup {e \in Entity : \E s \in seeds, d \in Visible(Ns(q)) :
                         {<<s, e>>, <<e, s>>} \cap Relations(d) # {}}]
    /\ Enter(q, "relations")
    /\ UNCHANGED <<question, found, context, answer, events, costs, removedBefore>>

\* Chunks that mention one of the entities.
Mentioning(q) == {d \in Visible(Ns(q)) : EntitiesOf[row[d].content] \cap related[q] # {}}

\* The last read of the graph search, then hybrid_rank, merge_graph_chunks and
\* rerank_mmr.
Rank(q) ==
    /\ stage[q] = "relations"
    /\ \E graph \in Best(TopK, Mentioning(q)),
          hybrid \in Best(TopK, found[q].vector \cup found[q].lexical) :
         \E merged \in Best(TopK, hybrid \cup graph) : \E S \in Best(MmrK, merged) :
            context' = [context EXCEPT ![q] = S]
    /\ Enter(q, "ranked")
    /\ UNCHANGED <<question, found, related, answer, events, costs, removedBefore>>

\* What is looked at for indirect injection.
\* Mutant: the result of the vector search, and not the context.
CheckedVectors(q) == found[q].vector
Checked(q) == context[q]

\* GuardrailService.check_retrieved_chunks.
CheckChunks(q) ==
    /\ stage[q] = "ranked"
    /\ \/ /\ \E d \in Checked(q) : row[d].content \in Suspect
          /\ events' = events \cup {<<q, "indirect">>}
          /\ Enter(q, "blocked")
       \/ /\ \A d \in Checked(q) : row[d].content \notin Suspect
          /\ Enter(q, "clean")
          /\ UNCHANGED events
    /\ UNCHANGED <<question, found, related, context, answer, costs, removedBefore>>

\* ResponseGenerator.generate, then validate_citations, whose error is only noted.
\* Both generators can produce any answer: the model of Ollama as it likes, the
\* extractive one by repeating a bracketed number of the text.
Generate(q) ==
    /\ stage[q] = "clean"
    /\ \E a \in Answer : answer' = [answer EXCEPT ![q] = a]
    /\ Enter(q, "generated")
    /\ UNCHANGED <<question, found, related, context, events, costs, removedBefore>>

\* CostTracker.record.
\* Mutant: an answer that fails validation is not accounted for.
RecordCostOfValid(q) ==
    /\ stage[q] = "generated"
    /\ costs' = IF answer[q].citations = "valid" THEN costs \cup {q} ELSE costs
    /\ Enter(q, "costed")
    /\ UNCHANGED <<question, found, related, context, answer, events, removedBefore>>
RecordCost(q) ==
    /\ stage[q] = "generated"
    /\ costs' = costs \cup {q}
    /\ Enter(q, "costed")
    /\ UNCHANGED <<question, found, related, context, answer, events, removedBefore>>

\* GuardrailService.redact_answer, and the response.
RedactAnswer(q) ==
    /\ stage[q] = "costed"
    /\ events' = IF answer[q].pii THEN events \cup {<<q, "pii">>} ELSE events
    /\ Enter(q, "answered")
    /\ UNCHANGED <<question, found, related, context, answer, costs, removedBefore>>

\* An exception at any await: what was committed stays.
BreakOff(q) ==
    /\ stage[q] \notin Ended \cup {"arrived"}
    /\ Enter(q, "broken")
    /\ UNCHANGED <<question, found, related, context, answer, events, costs,
                   removedBefore>>

QueryStep(q) ==
    \/ Authorize(q) \/ PreQueryCheck(q) \/ VectorSearch(q) \/ LexicalSearch(q)
    \/ GraphRelations(q) \/ Rank(q) \/ CheckChunks(q) \/ Generate(q)
    \/ RecordCost(q) \/ RedactAnswer(q) \/ BreakOff(q)

\* The corpus moves on its own.
CorpusStep ==
    /\ (\E r \in Req : Step(r) \/ DeadlockVictim(r) \/ Fail(r)) \/ Tick
    /\ UNCHANGED asking

AllEnded == Quiet /\ (\A q \in Ask : stage[q] \in Ended) /\ UNCHANGED asking

QueryNext ==
    \/ \E q \in Ask : QueryStep(q) /\ UNCHANGED vars
    \/ CorpusStep
    \/ AllEnded

QuerySpec == QueryInit /\ [][QueryNext]_allVars

-----------------------------------------------------------------------------
\* Properties.

\* A document that was removed before a query arrived is not cited by its answer,
\* although the answer is put together from two stores and several reads of them.
CitesNothingRemoved ==
    \A q \in Ask : context[q] \cap removedBefore[q] = {}

\* An answer is made of documents of the namespace the caller was found to have
\* access to, whichever of the three searches produced them.
QueryIsolation ==
    \A q \in Ask : context[q] # {} =>
        /\ MayRead(question[q].caller, Ns(q))
        /\ \A d \in context[q] : row[d].ns = Ns(q)

\* No answer is generated from suspect text or for an unsafe query, and every query
\* that was blocked has its guardrail event committed.
GuardrailsHold ==
    \A q \in Ask :
        /\ stage[q] \in {"generated", "costed", "answered"}
           => /\ ~question[q].unsafe
              /\ \A d \in context[q] : row[d].content \notin Suspect
        /\ stage[q] = "blocked" => \E e \in {"unsafe", "indirect"} : <<q, e>> \in events

\* Every answer that reached the client is paid for in the cost events, and the
\* redaction of one is on record; a query that was blocked cost nothing.
AnswersAccounted ==
    \A q \in Ask :
        /\ stage[q] = "answered" => q \in costs /\ (answer[q].pii => <<q, "pii">> \in events)
        /\ stage[q] = "blocked" => q \notin costs

=============================================================================
