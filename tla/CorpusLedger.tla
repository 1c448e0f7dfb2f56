---------------------------- MODULE CorpusLedger ----------------------------
(***************************************************************************)
(* The handlers of Corpus implement the Ledger.  A request has its answer  *)
(* when its handler has ended; a document counts from the commit of its    *)
(* ingest to the commit of a removal; what a transaction has not committed *)
(* and all of Qdrant are invisible.                                        *)
(***************************************************************************)
EXTENDS Corpus

\* "Nothing stored" is not a file.
ASSUME FileAssumption == NoDoc \notin [ns : Namespace, coll : CollName, content : Content]

Answers == [r \in Req |-> IF pc[r] \in Answered THEN pc[r] ELSE "none"]

Counts(d) == docState[d] \in {"live", "deleted"}
FileOf(d) == [ns |-> row[d].ns, coll |-> row[d].coll, content |-> row[d].content]
Files == [d \in DocId |-> IF Counts(d) THEN FileOf(d) ELSE NoDoc]

Removed == {d \in DocId : docState[d] = "deleted"}

\* Upserts that have read the very retention they are to set: they send no UPDATE.
Settled == {r \in Req : /\ pc[r] = "set_retention"
                        /\ seen[r] = call[r].period}

Promise == INSTANCE Ledger WITH
    answer <- Answers, file <- Files, removed <- Removed,
    retention <- collection, log <- audit, settled <- Settled

\* Ingests, removals and upserts look atomic to their clients, each at the moment
\* it commits, whatever runs beside them and wherever they fail: in particular a
\* skipped file is stored in its own namespace at that moment, and a request that
\* failed has changed no row and left no audit event.  No upsert of a retention is
\* lost: one whose value is not in force when it is answered was overtaken by another
\* after it had found its value in force.
LedgerImplemented == Promise!Spec

=============================================================================
