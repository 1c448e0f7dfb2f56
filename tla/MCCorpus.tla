----------------------------- MODULE MCCorpus -----------------------------
(***************************************************************************)
(* Instances of Corpus for TLC: which calls the clients may make in each   *)
(* run, and the data they are about.                                       *)
(***************************************************************************)
EXTENDS CorpusLedger, TLC

CONSTANTS c1, c2, c3, n1, n2, k1, k2, e1, e2, alice, bob

\* Files with text mention both entities, so their ingests compete for the rows.
MCEntitiesOf == [c \in Content |-> IF c \in Blank THEN {} ELSE Entity]

\* No collections, or one whose retention has run out for whatever is stored in it.
NoCollections == [k \in CollKey |-> Absent]
NothingFound == {NoCollections}
RetentionFound == {NoCollections, [NoCollections EXCEPT ![<<n1, k1>>] = 0]}

\* alice may write to n1 only, bob everywhere.
MCWritable == [u \in Caller |-> IF u = alice THEN {n1} ELSE Namespace]

Make(op, ns, coll, content, d, period) ==
    [op |-> op, caller |-> alice, ns |-> ns, coll |-> coll, content |-> content,
     doc |-> d, period |-> period]

By(caller, c) == [c EXCEPT !.caller = caller]

Ingest(ns, coll, content) == Make("ingest", ns, coll, content, NoDoc, NoPeriod)
Delete(d) == Make("delete", n1, NoColl, c1, d, NoPeriod)
Expire(ns) == Make("expire", ns, NoColl, c1, NoDoc, NoPeriod)
Purge(op, ns, coll, days) == Make(op, ns, coll, c1, NoDoc, days)
Retain(ns, coll, days) == Make("retain", ns, coll, c1, NoDoc, days)

\* Ingests that compete for the entities, and for the content or the collection.
CompetingIngests == {Ingest(n1, k1, c1), Ingest(n1, k1, c2), Ingest(n1, k2, c2)}

\* Ingests of a file without text and of files that share the content, the name of
\* the collection or the entities, in two namespaces, every way to remove what they
\* stored by a caller who may write to one of the namespaces only, a cleanup without a
\* filter, and two retentions.
CorpusCalls ==
    {Ingest(n1, k1, c1), Ingest(n1, k2, c2), Ingest(n1, k2, c3),
     By(bob, Ingest(n2, k1, c1)), Expire(n1), Retain(n1, k1, 1), Retain(n1, k1, NoPeriod),
     Purge("preview", n1, k1, NoPeriod), Purge("purge", n1, k1, 0),
     Purge("purge", n1, NoColl, NoPeriod)}
    \cup {Delete(d) : d \in DocId}

RequestSymmetry == Permutations(Req)
CorpusSymmetry == Permutations(Req) \cup Permutations(DocId)

=============================================================================
