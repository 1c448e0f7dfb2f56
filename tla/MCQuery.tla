------------------------------ MODULE MCQuery ------------------------------
(***************************************************************************)
(* One query beside ingests into two namespaces and the removal of what    *)
(* they stored.                                                            *)
(***************************************************************************)
EXTENDS MCCorpus, Query

MCReadable == [u \in Caller |-> IF u = alice THEN {n1} ELSE {}]
\* A relation that is stored for c1 only: c2 does not mention e1.
MCRelations == [c \in Content |-> {<<e1, e2>>}]
MCSuspect == {c2}
MCEntitiesSplit == [c \in Content |-> IF c = c1 THEN {e1, e2} ELSE {e2}]

MCQuestions ==
    {[caller |-> alice, ns |-> n1, unsafe |-> b] : b \in BOOLEAN}
    \cup {[caller |-> bob, ns |-> n1, unsafe |-> FALSE]}

QueryCalls ==
    {Ingest(n1, k1, c1), Ingest(n1, k1, c2), By(bob, Ingest(n2, k1, c1))}
    \cup {Delete(d) : d \in DocId}

=============================================================================
