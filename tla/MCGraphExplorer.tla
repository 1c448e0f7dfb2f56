--------------------------- MODULE MCGraphExplorer ---------------------------
(***************************************************************************)
(* One view of the graph beside ingests into two namespaces and removals.  *)
(* Only the first content mentions both ends of the relation it states.    *)
(***************************************************************************)
EXTENDS MCCorpus, GraphExplorer

MCReadable == [u \in Caller |-> IF u = alice THEN {n1} ELSE {}]
MCRelations == [c \in Content |-> {<<e1, e2>>}]
MCMentions == [c \in Content |-> IF c = c1 THEN {e1, e2} ELSE {e2}]

Ask(mode, e) == [caller |-> alice, ns |-> n1, mode |-> mode, id |-> <<n1, e>>]
MCViews ==
    {Ask("all", e1), Ask("search", e1), Ask("entity", e1), Ask("entity", e2),
     [Ask("entity", e1) EXCEPT !.id = <<n2, e1>>],
     [Ask("all", e1) EXCEPT !.caller = bob]}

ExplorerCalls ==
    {Ingest(n1, k1, c1), Ingest(n1, k1, c2), By(bob, Ingest(n2, k1, c1))}
    \cup {Delete(d) : d \in DocId}

=============================================================================
