------------------------------ MODULE Ranking ------------------------------
(***************************************************************************)
(* From the results of the three searches to the context of an answer:     *)
(* hybrid_rank, merge_graph_chunks and rerank_mmr, on the chunks of one    *)
(* namespace.  Query leaves open which chunks each of them keeps; here the *)
(* scores decide.                                                          *)
(*                                                                         *)
(* Chunks that have a point come first, numbered as the vector search      *)
(* orders them; the others have rows but no vectors, those of a document   *)
(* that is being removed, say.  Scores are integers: cosines and BM25      *)
(* scores in units of their own, fused scores in a unit common to the      *)
(* three searches.                                                         *)
(***************************************************************************)
EXTENDS Integers, SequencesExt

CONSTANTS
    N,              \* chunks
    Cosines,        \* of a chunk and the query, or of two chunks
    Terms,          \* BM25 scores, 0 when no term is shared
    Mentions,       \* how many related entities a chunk may mention
    TopKs, MmrK     \* request.top_k or TOP_K, and MMR_K

ASSUME RankingAssumption ==
    /\ N \in Nat \ {0}
    /\ Cosines \subseteq Int /\ Terms \subseteq Nat /\ Mentions \subseteq Nat
    /\ TopKs \subseteq Nat \ {0} /\ MmrK \in Nat \ {0}

Chunk == 1..N

VARIABLES
    topK,
    cosine, bm25, graph,            \* scores, cosines of the chunks that have a point
                                    \* and those of the graph in twentieths
    byVector, byTerms, byGraph,     \* what the searches return
    score,          \* of each chunk in the list returned last
    hybrid,         \* what hybrid_rank returns
    merged,         \* what merge_graph_chunks returns
    context,        \* what rerank_mmr has selected so far
    stage

inputs == <<topK, cosine, bm25, graph, byVector, byTerms, byGraph>>
vars == <<inputs, score, hybrid, merged, context, stage>>

First(s, k) == SubSeq(s, 1, Min({k, Len(s)}))

\* The members of P one after the other, ahead[i] being those before i.
InOrder(P, ahead) ==
    [k \in 1 .. Cardinality(P) |-> CHOOSE i \in P : Cardinality(ahead[i]) = k - 1]

\* Python's sorted with reverse = True, which keeps the order of equal keys.
Sorted(s, key) ==
    LET Ahead(i) == {j \in DOMAIN s : \/ key[s[j]] > key[s[i]]
                                      \/ key[s[j]] = key[s[i]] /\ j < i}
        order == InOrder(DOMAIN s, [i \in DOMAIN s |-> Ahead(i)])
    IN  [k \in DOMAIN s |-> s[order[k]]]

In(c, s) == c \in Range(s)

\* The elements of t that are not in s, in the order of t.
NotIn(t, s) ==
    LET new == {i \in DOMAIN t : ~In(t[i], s)}
        order == InOrder(new, [i \in new |-> {j \in new : j < i}])
    IN  [k \in DOMAIN order |-> t[order[k]]]

\* What a search can return: the best of the chunks it gives a score to, equal ones
\* in any order.
Returned(points) ==
    LET hits == {c \in Chunk : points[c] > 0} IN
    {First(s, topK) : s \in {t \in SetToSeqs(hits) :
        \A i, j \in DOMAIN t : i < j => points[t[i]] >= points[t[j]]}}

\* The score of graph_search: 0.35, 0.15 for each related entity a chunk mentions,
\* and 0.35 when a relation rests on it, which then has both ends in the chunk.
GraphScore(mentions, evidence) ==
    IF mentions = 0 THEN 0 ELSE 7 + 3 * mentions + (IF evidence THEN 7 ELSE 0)

GraphScores ==
    {GraphScore(m, FALSE) : m \in Mentions}
    \cup {GraphScore(m, TRUE) : m \in Mentions \ {0, 1}}

\* Cosines of the first chunks, for any number of them that have a point.
Descending ==
    UNION {{f \in [1 .. p -> Cosines] : \A c, d \in 1 .. p : c < d => f[c] >= f[d]} :
           p \in 0 .. N}

Init ==
    /\ topK \in TopKs
    /\ cosine \in Descending
    /\ bm25 \in [Chunk -> Terms]
    /\ graph \in [Chunk -> GraphScores]
    /\ byVector = First([i \in DOMAIN cosine |-> i], topK)
    /\ byTerms \in Returned(bm25)
    /\ byGraph \in Returned(graph)
    /\ score = [c \in Chunk |-> 0]
    /\ hybrid = <<>> /\ merged = <<>> /\ context = <<>>
    /\ stage = "found"

-----------------------------------------------------------------------------
\* Scores.

Abs(n) == IF n < 0 THEN -n ELSE n
Sign(n) == IF n < 0 THEN -1 ELSE IF n = 0 THEN 0 ELSE 1
NonZero(n) == IF n = 0 THEN 1 ELSE n

MaxVector == IF byVector = <<>> THEN 0 ELSE Max({cosine[c] : c \in Range(byVector)})
MaxLexical == Max({bm25[c] : c \in Range(byTerms)} \cup {0})

\* Each part is a multiple of 1 / (20 * |MaxVector| * MaxLexical).
\* 0.4 of the cosine over the largest one, whatever its sign.
VectorPart(c) == 8 * cosine[c] * Sign(MaxVector) * NonZero(MaxLexical)

\* 0.6 of the BM25 score over the largest one.
LexicalPart(c) == 12 * bm25[c] * Abs(NonZero(MaxVector))

GraphPart(c) == graph[c] * Abs(NonZero(MaxVector)) * NonZero(MaxLexical)

\* Mutant: the second score of a chunk replaces the first.
LastScore(c) ==
    IF In(c, byTerms) THEN LexicalPart(c)
    ELSE IF In(c, byVector) THEN VectorPart(c) ELSE 0
HybridScore(c) ==
    (IF In(c, byVector) THEN VectorPart(c) ELSE 0)
    + (IF In(c, byTerms) THEN LexicalPart(c) ELSE 0)

\* What merge_graph_chunks knows: a chunk that hybrid_rank has cut is new to it.
MergedScore(c) ==
    (IF In(c, hybrid) THEN score[c] ELSE 0)
    + (IF In(c, byGraph) THEN GraphPart(c) ELSE 0)

-----------------------------------------------------------------------------
\* The first list, then what is only in the second: the order of a dict with the key
\* (document_id, chunk_index).
\* Mutant: the key is chunk_id, which is not the same in Qdrant and in PostgreSQL.
ById(s, t) == s \o t
Combined(s, t) == s \o NotIn(t, s)

HybridRank ==
    /\ stage = "found"
    /\ score' = [c \in Chunk |-> HybridScore(c)]
    /\ hybrid' = First(Sorted(Combined(byVector, byTerms), score'), topK)
    /\ stage' = "hybrid"
    /\ UNCHANGED <<inputs, merged, context>>

MergeGraphChunks ==
    /\ stage = "hybrid"
    /\ score' = [c \in Chunk |-> MergedScore(c)]
    /\ merged' = First(Sorted(Combined(hybrid, byGraph), score'), topK)
    /\ stage' = "merged"
    /\ UNCHANGED <<inputs, hybrid, context>>

\* A chunk keeps its vector when it comes from the vector search through hybrid_rank.
HasVector(c) == In(c, byVector) /\ In(c, hybrid)

\* rerank_mmr, when a chunk has no vector.
SortByScore ==
    /\ stage = "merged" /\ \E c \in Range(merged) : ~HasVector(c)
    /\ context' = First(Sorted(merged, score), MmrK)
    /\ stage' = "reranked"
    /\ UNCHANGED <<inputs, score, hybrid, merged>>

Remaining == NotIn(merged, context)

\* One round of rerank_mmr: relevance less likeness to what is selected, with
\* MMR_LAMBDA a half.  How much a remaining chunk is like the closest selected one is
\* open; the first of the best is taken.
SelectBest ==
    /\ stage = "merged" /\ \A c \in Range(merged) : HasVector(c)
    /\ Len(context) < MmrK /\ Remaining # <<>>
    /\ \E diversity \in [Range(Remaining) -> IF context = <<>> THEN {0} ELSE Cosines] :
         LET Mmr == [c \in Range(Remaining) |-> cosine[c] - diversity[c]] IN
         context' = Append(context, Head(Sorted(Remaining, Mmr)))
    /\ UNCHANGED <<inputs, score, hybrid, merged, stage>>

EndSelection ==
    /\ stage = "merged" /\ \A c \in Range(merged) : HasVector(c)
    /\ Len(context) = MmrK \/ Remaining = <<>>
    /\ stage' = "reranked"
    /\ UNCHANGED <<inputs, score, hybrid, merged, context>>

Reranked == stage = "reranked" /\ UNCHANGED vars

Next == HybridRank \/ MergeGraphChunks \/ SortByScore \/ SelectBest \/ EndSelection
        \/ Reranked

Spec == Init /\ [][Next]_vars

-----------------------------------------------------------------------------
\* Properties.

\* No place of the context is wasted: it holds as many chunks as MMR_K, top_k and
\* what the searches found allow, none of them twice, although three lists that
\* overlap are cut and merged in turn.
ContextFull ==
    LET found == Range(byVector) \cup Range(byTerms) \cup Range(byGraph) IN
    stage = "reranked" =>
        /\ Len(context) = Min({MmrK, topK, Cardinality(found)})
        /\ Cardinality(Range(context)) = Len(context)
        /\ Range(context) \subseteq found

Score(c, s, points) == IF In(c, s) THEN points[c] ELSE 0

\* Is a, found by the first two searches with no cosine below 0, better than b to one
\* of them and as good to every search?  Where hybrid_rank has cut a, and with it b,
\* the graph search alone decides, and must find a better.
Beats(a, b) ==
    /\ In(a, byVector) \/ In(a, byTerms)
    /\ Score(a, byVector, cosine) >= Score(b, byVector, cosine)
    /\ Score(a, byVector, cosine) >= 0
    /\ Score(a, byTerms, bm25) >= Score(b, byTerms, bm25)
    /\ \/ Score(a, byVector, cosine) > Score(b, byVector, cosine)
       \/ Score(a, byTerms, bm25) > Score(b, byTerms, bm25)
    /\ Score(a, byGraph, graph) >= Score(b, byGraph, graph)
    /\ In(a, hybrid) \/ Score(a, byGraph, graph) > Score(b, byGraph, graph)

Precedes(a, b, s) == In(b, s) => \E i, j \in DOMAIN s : s[i] = a /\ s[j] = b /\ i < j

\* A chunk that beats another comes first and is cut last, as long as some cosine is
\* above 0.  (Cosines are divided by their maximum: when it is below 0 they count the
\* wrong way, and when it is small, one below 0 counts for far more than 0.4.  And of
\* two chunks that hybrid_rank has cut, merge_graph_chunks knows the graph score alone:
\* when it is the same, the worse one may come first.)
BetterFirst ==
    MaxVector > 0 /\ stage \in {"merged", "reranked"} =>
        \A a, b \in Chunk : Beats(a, b) => Precedes(a, b, merged)

=============================================================================
