---------------------------- MODULE MCEmbeddings ----------------------------
(***************************************************************************)
(* Two processes and two models, whose vectors differ in size.             *)
(***************************************************************************)
EXTENDS Embeddings, TLC

CONSTANTS hash, other

MCSize == [m \in Model |-> IF m = other THEN 2 ELSE 1]

CallSymmetry == Permutations(Ask) \cup Permutations(Ingest) \cup Permutations(Process)

=============================================================================
