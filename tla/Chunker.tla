------------------------------- MODULE Chunker -------------------------------
(***************************************************************************)
(* chunk_pages: the segments of each page are packed into chunks of about  *)
(* ChunkSize tokens, with an overlap carried from one chunk to the next,   *)
(* and a segment that is too large is cut into overlapping windows.        *)
(*                                                                         *)
(* A token is named by the place it comes from, <<page, segment, position>>*)
(* and the tokens of a separator ("\n\n") are all Sep.  What a token       *)
(* stands for is left out: that decoding tokens cut from a segment leaves  *)
(* replacement characters where a window parts the tokens of one           *)
(* character, and that strip also takes the space in front of a word.      *)
(***************************************************************************)
EXTENDS Naturals, Sequences

CONSTANTS
    ChunkSize,      \* settings.CHUNK_SIZE
    Overlaps,       \* what settings.CHUNK_OVERLAP may be
    SepLen,         \* number of tokens of a separator
    Blanks,         \* which positions of a segment may be tokens of white space
    Documents       \* inputs: for each page, the lengths of its segments

\* Other values raise a ValueError before anything is done; the splitters return
\* no empty segment.
ASSUME ChunkerAssumption ==
    /\ ChunkSize \in Nat \ {0} /\ Overlaps \subseteq 0 .. ChunkSize - 1
    /\ SepLen \in Nat /\ Blanks \subseteq SUBSET Nat
    /\ Documents \subseteq Seq(Seq(Nat \ {0}))

VARIABLES
    pages,          \* the document being chunked
    chunkOverlap,   \* chunk_overlap
    blank,          \* positions with tokens of white space, in any segment
    page, segment,  \* where the two loops are
    start,          \* start of the next window of an oversize segment
    buffer,         \* buffer_tokens
    chunks,         \* the chunks so far
    chunkIndex,     \* chunk_index
    pc

input == <<pages, chunkOverlap, blank>>
vars == <<input, page, segment, start, buffer, chunks, chunkIndex, pc>>

Sep == <<0, 0, 0>>
Token == Nat \X Nat \X Nat
Chunk == [tokens : Seq(Token), text : SUBSET Token, index : Nat, page : Nat]

TypeOK ==
    /\ pages \in Documents /\ chunkOverlap \in Overlaps /\ blank \in Blanks
    /\ page \in 1 .. Len(pages) + 1
    /\ segment \in Nat \ {0}
    /\ start \in Nat
    /\ buffer \in Seq(Token)
    /\ chunks \in Seq(Chunk)
    /\ chunkIndex \in Nat
    /\ pc \in {"segment", "window"}
    /\ pc = "window" => page <= Len(pages) /\ segment <= Len(pages[page])

\* A segment is stripped: white space is inside it.
Init ==
    /\ pages \in Documents /\ chunkOverlap \in Overlaps /\ blank \in Blanks
    /\ \A p \in DOMAIN pages : \A s \in DOMAIN pages[p] :
          1 \notin blank /\ pages[p][s] \notin blank
    /\ page = 1 /\ segment = 1 /\ start = 0
    /\ buffer = <<>>
    /\ chunks = <<>>
    /\ chunkIndex = 0
    /\ pc = "segment"

-----------------------------------------------------------------------------
Smaller(a, b) == IF a <= b THEN a ELSE b

Separator == [i \in 1 .. SepLen |-> Sep]

\* The tokens of the current segment.
Segment == [i \in 1 .. pages[page][segment] |-> <<page, segment, i>>]

\* Python's buffer[-n:], and nothing when n is 0.
LastTokens(s, n) == SubSeq(s, Len(s) - Smaller(n, Len(s)) + 1, Len(s))

AtSegment ==
    /\ pc = "segment"
    /\ page <= Len(pages) /\ segment <= Len(pages[page])

\* The token is more than white space.
Solid(token) == token # Sep /\ token[3] \notin blank

\* What decode(tokens).strip() is made of: from the first solid token to the last.
Stripped(tokens) ==
    {tokens[i] : i \in {i \in 1 .. Len(tokens) :
        \E j \in 1 .. i, k \in i .. Len(tokens) : Solid(tokens[j]) /\ Solid(tokens[k])}}

\* The chunk made of tokens, of which token_count keeps the number.
ChunkOf(tokens) ==
    [tokens |-> tokens, text |-> Stripped(tokens), index |-> chunkIndex, page |-> page]

\* chunks.append(ChunkCandidate(...)); chunk_index += 1.
\* Mutant: the index is not advanced.
EmitSameIndex(tokens) ==
    /\ chunks' = Append(chunks, ChunkOf(tokens))
    /\ UNCHANGED chunkIndex
Emit(tokens) ==
    /\ chunks' = Append(chunks, ChunkOf(tokens))
    /\ chunkIndex' = chunkIndex + 1

\* What starts the next chunk when a segment no longer fits: the overlap, then a
\* separator (also when there is no overlap), then the segment.
\* Mutant: the overlap is one token too long.
LongerRestart == LastTokens(buffer, chunkOverlap + 1) \o Separator \o Segment
Restart == LastTokens(buffer, chunkOverlap) \o Separator \o Segment

Oversize == Len(Segment) > ChunkSize

\* Does the segment fit?  The separator is counted, and then not added.
Fits == buffer = <<>> \/ Len(buffer) + SepLen + Len(Segment) <= ChunkSize

\* An oversize segment first closes the chunk that is open.
\* Mutant: it forgets it.
DropOversize ==
    /\ AtSegment /\ Oversize
    /\ buffer' = <<>> /\ start' = 0 /\ pc' = "window"
    /\ UNCHANGED <<input, page, segment, chunks, chunkIndex>>
BeginOversize ==
    /\ AtSegment /\ Oversize
    /\ IF buffer = <<>> THEN UNCHANGED <<chunks, chunkIndex>> ELSE Emit(buffer)
    /\ buffer' = <<>> /\ start' = 0 /\ pc' = "window"
    /\ UNCHANGED <<input, page, segment>>

\* Where the window after the one that ends here starts.
\* Mutant: the overlap is the whole window.
SameStart(end) == end - ChunkSize
NextStart(end) == end - chunkOverlap

\* One turn of _window_tokens, and the chunk made of its window.
NextWindow ==
    /\ pc = "window"
    /\ LET end == Smaller(start + ChunkSize, Len(Segment)) IN
       /\ Emit(SubSeq(Segment, start + 1, end))
       /\ IF end = Len(Segment)
          THEN segment' = segment + 1 /\ pc' = "segment" /\ UNCHANGED start
          ELSE start' = NextStart(end) /\ UNCHANGED <<segment, pc>>
    /\ UNCHANGED <<input, page, buffer>>

\* The segment joins the open chunk.
Extend ==
    /\ AtSegment /\ ~Oversize /\ Fits
    /\ buffer' = buffer \o Segment
    /\ segment' = segment + 1
    /\ UNCHANGED <<input, page, start, chunks, chunkIndex, pc>>

\* The open chunk is closed and the segment starts the next one, whose size is not
\* looked at again.
CloseAndRestart ==
    /\ AtSegment /\ ~Oversize /\ ~Fits
    /\ Emit(buffer)
    /\ buffer' = Restart
    /\ segment' = segment + 1
    /\ UNCHANGED <<input, page, start, pc>>

\* No chunk spans two pages.
EndPage ==
    /\ pc = "segment"
    /\ page <= Len(pages) /\ segment > Len(pages[page])
    /\ IF buffer = <<>> THEN UNCHANGED <<chunks, chunkIndex>> ELSE Emit(buffer)
    /\ buffer' = <<>> /\ page' = page + 1 /\ segment' = 1
    /\ UNCHANGED <<input, start, pc>>

Done == page > Len(pages)

Next ==
    \/ BeginOversize \/ NextWindow \/ Extend \/ CloseAndRestart \/ EndPage
    \/ Done /\ UNCHANGED vars

Spec == Init /\ [][Next]_vars

-----------------------------------------------------------------------------
\* Properties.

\* Where the tokens come from, and those of a chunk.
TextOf(tokens) == {tokens[i] : i \in 1 .. Len(tokens)} \ {Sep}
ChunkText(i) == TextOf(chunks[i].tokens)

SegmentText(p, s) == {<<p, s, i>> : i \in 1 .. pages[p][s]}
PageText(p) == UNION {SegmentText(p, s) : s \in 1 .. Len(pages[p])}
AllText == UNION {PageText(p) : p \in 1 .. Len(pages)}

\* Embedding the chunks embeds the document: every token that is more than white space
\* is in the text of some chunk, whatever mixture of small and oversize segments a
\* page has and wherever chunks are cut and stripped, and none is invented.
TextCovered ==
    LET embedded == UNION {chunks[i].text : i \in 1 .. Len(chunks)} IN
    Done => /\ {t \in AllText : Solid(t)} \subseteq embedded
            /\ embedded \subseteq AllText \cup {Sep}

\* Consecutive chunks share at most chunkOverlap tokens.
OverlapBounded ==
    \A i \in 1 .. Len(chunks) - 1 :
        LET shared == {n \in 1 .. Len(chunks[i + 1].tokens) :
                         chunks[i + 1].tokens[n] \in ChunkText(i)}
        IN  \A n \in shared : n <= chunkOverlap

\* No chunk is made of tokens that earlier chunks are already made of, overlap and all:
\* a document has no more chunks than tokens, hence the windows come to an end.
NothingRedundant ==
    \A i \in 1 .. Len(chunks) :
        ~(ChunkText(i) \subseteq UNION {ChunkText(j) : j \in 1 .. i - 1})

\* Chunk indexes number the chunks, so that the point ids derived from them are
\* distinct and no vector overwrites another.
IndexesNumberChunks ==
    \A i \in 1 .. Len(chunks) : chunks[i].index = i - 1

\* How large a chunk can get: the overlap and the separator come on top of a segment
\* that fits by itself, without another look at the size.
SizeBound == ChunkSize + chunkOverlap + SepLen
ChunksBounded == \A i \in 1 .. Len(chunks) : Len(chunks[i].tokens) <= SizeBound

=============================================================================
