----------------------------- MODULE CorpusReads -----------------------------
(***************************************************************************)
(* What requests that only read the corpus have in common: who may read,   *)
(* and what a statement sees of it.                                        *)
(***************************************************************************)
EXTENDS Corpus

CONSTANTS
    Readable,       \* [Caller -> SUBSET Namespace]: read access
    RelationsOf     \* [Content -> SUBSET (Entity \X Entity)]: extract_relations

ASSUME ReadsAssumption ==
    /\ Readable \in [Caller -> SUBSET Namespace]
    /\ RelationsOf \in [Content -> SUBSET (Entity \X Entity)]

\* NamespaceAuthz.require_read.
MayRead(caller, ns) == ns \in Readable[caller]

\* Documents whose rows a SELECT on the namespace sees.
\* Mutant: documents are only marked as deleted, and reads ignore the mark.
VisibleEver(ns) == {d \in DocId : docState[d] \in {"live", "deleted"} /\ row[d].ns = ns}
Visible(ns) == {d \in DocId : docState[d] = "live" /\ row[d].ns = ns}

\* The relations index_document has stored for a document: those between two of its
\* entities.
Relations(d) ==
    {p \in RelationsOf[row[d].content] :
        p[1] # p[2] /\ {p[1], p[2]} \subseteq EntitiesOf[row[d].content]}

\* The documents (or edges) that the first k rows of the rows of S belong to, whatever
\* the order: at most k, and one of them may crowd out the others.
Best(k, S) == {T \in SUBSET S : Cardinality(T) <= k /\ (S = {} \/ k = 0 \/ T # {})}

=============================================================================
