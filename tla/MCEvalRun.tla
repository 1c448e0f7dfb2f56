----------------------------- MODULE MCEvalRun -----------------------------
(***************************************************************************)
(* Runs in different namespaces: one beside events and reports, two that   *)
(* share the connections of the pool.                                      *)
(***************************************************************************)
EXTENDS EvalRun, TLC

CONSTANTS a, b, s1, s2, s3, n1, n2, guard, foreign, cost

MCNsOf == [r \in Run |-> IF r = a THEN n1 ELSE n2]
MCDatasets == {{}, {s1}, Sample}
MCKind == [e \in Event |-> CASE e = guard -> n1 [] e = foreign -> n2 [] OTHER -> NoNs]

ReaderSymmetry == Permutations(Reader)

=============================================================================
