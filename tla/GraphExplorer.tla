---------------------------- MODULE GraphExplorer ----------------------------
(***************************************************************************)
(* GET /graph beside everything that changes the corpus.  A view of the    *)
(* graph is put together from two or three SELECTs, each of which sees     *)
(* what is committed then: entities that match a search, relations with    *)
(* their evidence, and the entities these connect, with the number of      *)
(* their mentions.  An entity's id is named by its namespace and name.     *)
(***************************************************************************)
EXTENDS CorpusReads

CONSTANTS
    Look,           \* requests for a view
    Views,          \* what clients may ask for
    Limit           \* the parameter limit

EntityId == Namespace \X Entity

\* id is entity_id, of the mode in which it is given.
View == [caller : Caller, ns : Namespace, mode : {"all", "search", "entity"},
         id : EntityId]

ASSUME ExplorerAssumption == Views \subseteq View /\ Limit \in Nat \ {0}

VARIABLES
    view,
    progress,       \* how far each request is
    seeds,          \* seed_ids of a search, or the entity asked for
    edges,          \* <<document, source, target>> of the relations read
    nodes,          \* entities read
    unmentioned,    \* those among them with a mention_count of 0
    gone            \* history: documents removed before the request arrived

viewing == <<view, progress, seeds, edges, nodes, unmentioned, gone>>
explorerVars == <<vars, viewing>>

Edge == DocId \X Entity \X Entity

\* Types of the state a view adds to that of Corpus.
ExplorerTypeOK ==
    /\ view \in [Look -> Views]
    /\ progress \in [Look -> {"arrived", "authorized", "seeded", "edges", "bare",
                              "answered", "denied", "broken"}]
    /\ seeds \in [Look -> SUBSET EntityId]
    /\ edges \in [Look -> SUBSET Edge]
    /\ nodes \in [Look -> SUBSET EntityId]
    /\ unmentioned \in [Look -> SUBSET EntityId]
    /\ gone \in [Look -> SUBSET DocId]

ExplorerInit ==
    /\ Init
    /\ view \in [Look -> Views]
    /\ progress = [v \in Look |-> "arrived"]
    /\ seeds = [v \in Look |-> {}]
    /\ edges = [v \in Look |-> {}]
    /\ nodes = [v \in Look |-> {}]
    /\ unmentioned = [v \in Look |-> {}]
    /\ gone = [v \in Look |-> {}]

-----------------------------------------------------------------------------
GoOn(v, s) == progress' = [progress EXCEPT ![v] = s]

ViewNs(v) == view[v].ns

\* require_read; the entity asked for is a seed whether or not there is one.
AuthorizeView(v) ==
    /\ progress[v] = "arrived"
    /\ GoOn(v, IF MayRead(view[v].caller, ViewNs(v)) THEN "authorized" ELSE "denied")
    /\ seeds' = [seeds EXCEPT ![v] = IF view[v].mode = "entity" THEN {view[v].id} ELSE {}]
    /\ gone' = [gone EXCEPT ![v] = {d \in DocId : docState[d] = "deleted"}]
    /\ UNCHANGED <<view, edges, nodes, unmentioned>>

EntitiesIn(ns) == {k \in entities : k[1] = ns}

\* Entities whose name matches; when there are none the view is empty.
FindSeeds(v) ==
    /\ progress[v] = "authorized" /\ view[v].mode = "search"
    /\ \E S \in SUBSET EntitiesIn(ViewNs(v)) :
         /\ Cardinality(S) <= Limit
         /\ seeds' = [seeds EXCEPT ![v] = S]
         /\ GoOn(v, IF S = {} THEN "answered" ELSE "seeded")
    /\ UNCHANGED <<view, edges, nodes, unmentioned, gone>>

Ends(x) == {<<row[x[1]].ns, x[2]>>, <<row[x[1]].ns, x[3]>>}

EdgesIn(ns) == UNION {{<<d, p[1], p[2]>> : p \in Relations(d)} : d \in Visible(ns)}

\* The relations of the namespace, joined with their chunks and documents: all, or
\* those that touch a seed.  The latest come first.
ReadEdges(v) ==
    /\ \/ progress[v] = "authorized" /\ view[v].mode # "search"
       \/ progress[v] = "seeded"
    /\ \E E \in Best(IF view[v].mode = "entity" THEN Limit ELSE 2 * Limit,
                     {x \in EdgesIn(ViewNs(v)) :
                         view[v].mode = "all" \/ Ends(x) \cap seeds[v] # {}}) :
         /\ edges' = [edges EXCEPT ![v] = E]
         /\ GoOn(v, IF view[v].mode = "all" /\ E = {} THEN "bare" ELSE "edges")
    /\ UNCHANGED <<view, seeds, nodes, unmentioned, gone>>

\* related_ids.
\* Mutant: the seeds are forgotten.
RelatedOnly(v) == UNION {Ends(x) : x \in edges[v]}
Related(v) == seeds[v] \cup UNION {Ends(x) : x \in edges[v]}

\* Has any committed chunk a mention of the entity?
HasMention(k) == \E d \in Visible(k[1]) : k[2] \in EntitiesOf[row[d].content]

Show(v, S) ==
    /\ nodes' = [nodes EXCEPT ![v] = S]
    /\ unmentioned' = [unmentioned EXCEPT ![v] = {k \in S : ~HasMention(k)}]
    /\ GoOn(v, "answered")
    /\ UNCHANGED <<view, seeds, edges, gone>>

\* The entities the edges connect, without a limit.
\* Mutant: with the limit of the other queries.
ReadFewNodes(v) ==
    /\ progress[v] = "edges"
    /\ \E S \in SUBSET (EntitiesIn(ViewNs(v)) \cap Related(v)) :
         Cardinality(S) <= Limit /\ Show(v, S)
ReadNodes(v) ==
    /\ progress[v] = "edges"
    /\ Show(v, EntitiesIn(ViewNs(v)) \cap Related(v))

\* A namespace without relations shows its entities, the most mentioned first.
ReadBareNodes(v) ==
    /\ progress[v] = "bare"
    /\ \E S \in SUBSET EntitiesIn(ViewNs(v)) : Cardinality(S) <= Limit /\ Show(v, S)

\* An exception at any await.
BreakOffView(v) ==
    /\ progress[v] \in {"authorized", "seeded", "edges", "bare"} /\ GoOn(v, "broken")
    /\ UNCHANGED <<view, seeds, edges, nodes, unmentioned, gone>>

ViewStep(v) ==
    \/ AuthorizeView(v) \/ FindSeeds(v) \/ ReadEdges(v) \/ ReadNodes(v) \/ ReadBareNodes(v)
    \/ BreakOffView(v)

\* The corpus moves on its own.
CorpusMoves ==
    /\ (\E r \in Req : Step(r) \/ DeadlockVictim(r) \/ Fail(r)) \/ Tick
    /\ UNCHANGED viewing

ViewsEnded ==
    /\ Quiet /\ \A v \in Look : progress[v] \in {"answered", "denied", "broken"}
    /\ UNCHANGED viewing

ExplorerNext ==
    \/ \E v \in Look : ViewStep(v) /\ UNCHANGED vars
    \/ CorpusMoves
    \/ ViewsEnded

ExplorerSpec == ExplorerInit /\ [][ExplorerNext]_explorerVars

-----------------------------------------------------------------------------
\* Properties.

\* Every edge of a view connects two of its nodes, though nodes are read later and
\* documents are removed meanwhile; and a node is shown as mentioned nowhere beside
\* an edge only when the document behind that edge has been removed.
EdgesExplained ==
    \A v \in Look : progress[v] = "answered" => \A x \in edges[v] :
        /\ Ends(x) \subseteq nodes[v]
        /\ docState[x[1]] # "deleted" => Ends(x) \cap unmentioned[v] = {}

\* The evidence of an edge was not removed before the request arrived, and lies in a
\* namespace its caller may read.
EvidenceCurrent ==
    \A v \in Look : \A x \in edges[v] :
        /\ x[1] \notin gone[v]
        /\ row[x[1]].ns = ViewNs(v) /\ MayRead(view[v].caller, ViewNs(v))

\* What a search has matched is in its view, also when no edge leads there.
SeedsKept ==
    \A v \in Look :
        progress[v] = "answered" /\ view[v].mode = "search" => seeds[v] \subseteq nodes[v]

=============================================================================
