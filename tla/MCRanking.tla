----------------------------- MODULE MCRanking -----------------------------
(***************************************************************************)
(* Four chunks that each search may find and rank in its own way: of the   *)
(* four, hybrid_rank may cut two that the graph search has found.          *)
(***************************************************************************)
EXTENDS Ranking

MCCosines == {-2, 1}
MCTerms == {0, 1}
MCMentions == {0, 2}
MCTopKs == {2, 3}

=============================================================================
