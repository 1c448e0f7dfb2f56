--------------------------- MODULE ChunkerProofs ---------------------------
(***************************************************************************)
(* Theorems about Chunker, for every chunk size, overlap and document.     *)
(***************************************************************************)
EXTENDS Chunker, SequenceTheorems, TLAPS

\* Sequences written as functions.
LEMMA SegmentSeq ==
    ASSUME TypeOK, page <= Len(pages), segment <= Len(pages[page])
    PROVE  /\ Segment \in Seq(Token)
           /\ Len(Segment) = pages[page][segment]
           /\ Len(Segment) \in Nat \ {0}
<1>1. pages \in Seq(Seq(Nat \ {0})) /\ page \in 1 .. Len(pages)
  BY ChunkerAssumption DEF TypeOK
<1>2. pages[page] \in Seq(Nat \ {0}) /\ segment \in 1 .. Len(pages[page])
  BY <1>1 DEF TypeOK
<1>3. pages[page][segment] \in Nat \ {0}
  BY <1>2
<1>4. \A i \in 1 .. pages[page][segment] : <<page, segment, i>> \in Token
  BY <1>1, <1>2, <1>3, SMTT(20) DEF Token
<1> QED BY <1>3, <1>4 DEF Segment

LEMMA SeparatorSeq == Separator \in Seq(Token) /\ Len(Separator) = SepLen
<1>1. Sep \in Token
  BY DEF Sep, Token
<1> QED BY <1>1, ChunkerAssumption DEF Separator

\* buffer[-n:] has at most n tokens.
LEMMA LastTokensSeq ==
    ASSUME NEW s \in Seq(Token), NEW n \in Nat
    PROVE  LastTokens(s, n) \in Seq(Token) /\ Len(LastTokens(s, n)) <= n
BY DEF LastTokens, Smaller

\* What is left of tokens is some of them, each solid one among them.
LEMMA StrippedTokens ==
    ASSUME NEW s \in Seq(Token)
    PROVE  /\ Stripped(s) \subseteq Token
           /\ \A i \in 1 .. Len(s) : Solid(s[i]) => s[i] \in Stripped(s)
           /\ \A t \in Stripped(s) : \E i \in 1 .. Len(s) : s[i] = t
<1>1. /\ Len(s) \in Nat
      /\ \A i \in 1 .. Len(s) : s[i] \in Token /\ i \in 1 .. i /\ i \in i .. Len(s)
  OBVIOUS
<1> QED BY <1>1 DEF Stripped

\* Each chunk has the text that strip leaves of its tokens.
TextStripped == \A i \in 1 .. Len(chunks) : chunks[i].text = Stripped(chunks[i].tokens)

\* What an emitted chunk does to the list of chunks.
LEMMA EmitChunks ==
    ASSUME TypeOK, chunkIndex = Len(chunks), IndexesNumberChunks, ChunksBounded,
           TextStripped,
           NEW tokens \in Seq(Token), Len(tokens) <= SizeBound, Emit(tokens),
           UNCHANGED input
    PROVE  /\ chunks' \in Seq(Chunk) /\ chunkIndex' \in Nat
           /\ chunkIndex' = Len(chunks')
           /\ IndexesNumberChunks' /\ ChunksBounded' /\ TextStripped'
<1> USE DEF input
<1> DEFINE c == ChunkOf(tokens)
<1>0. /\ c.tokens = tokens /\ c.text = Stripped(tokens) /\ c.index = chunkIndex
      /\ c \in Chunk
  BY StrippedTokens DEF TypeOK, Chunk, ChunkOf
<1>1. c \in Chunk
  BY <1>0
<1>2. /\ chunks' = Append(chunks, c) /\ chunks \in Seq(Chunk)
      /\ chunkIndex' = chunkIndex + 1 /\ chunkIndex \in Nat
  BY DEF Emit, TypeOK
<1> HIDE DEF c
<1>3. /\ chunks' \in Seq(Chunk) /\ Len(chunks') = Len(chunks) + 1
      /\ \A i \in 1 .. Len(chunks) : chunks'[i] = chunks[i]
      /\ chunks'[Len(chunks) + 1] = c
  BY <1>1, <1>2, AppendProperties
<1>4. IndexesNumberChunks'
  <2> SUFFICES ASSUME NEW i \in 1 .. Len(chunks') PROVE chunks'[i].index = i - 1
    BY DEF IndexesNumberChunks
  <2>1. CASE i \in 1 .. Len(chunks)
    BY <1>3, <2>1 DEF IndexesNumberChunks
  <2>2. CASE i = Len(chunks) + 1
    BY <1>0, <1>2, <1>3, <2>2
  <2> QED BY <1>2, <1>3, <2>1, <2>2
<1>5. ChunksBounded'
  <2> SUFFICES ASSUME NEW i \in 1 .. Len(chunks')
               PROVE  Len(chunks'[i].tokens) <= SizeBound
    BY DEF ChunksBounded, SizeBound
  <2>1. CASE i \in 1 .. Len(chunks)
    BY <1>3, <2>1 DEF ChunksBounded
  <2>2. CASE i = Len(chunks) + 1
    BY <1>0, <1>3, <2>2
  <2> QED BY <1>2, <1>3, <2>1, <2>2
<1>6. TextStripped'
  <2> SUFFICES ASSUME NEW i \in 1 .. Len(chunks')
               PROVE  chunks'[i].text = Stripped(chunks'[i].tokens)
    BY DEF TextStripped, Stripped, Solid
  <2>1. CASE i \in 1 .. Len(chunks)
    BY <1>3, <2>1 DEF TextStripped
  <2>2. CASE i = Len(chunks) + 1
    BY <1>0, <1>3, <2>2
  <2> QED BY <1>2, <1>3, <2>1, <2>2
<1> QED BY <1>2, <1>3, <1>4, <1>5, <1>6

\* The open chunk stays within the bound, a window starts inside its segment, the next
\* index is the number of chunks, and each chunk has the text of its tokens.
Packed ==
    /\ TypeOK
    /\ Len(buffer) <= SizeBound
    /\ pc = "window" => start < pages[page][segment]
    /\ chunkIndex = Len(chunks)
    /\ IndexesNumberChunks
    /\ ChunksBounded
    /\ TextStripped

\* What strip leaves of tokens depends on the document alone.
LEMMA SameStripped ==
    ASSUME UNCHANGED <<input, chunks>>, TextStripped
    PROVE  TextStripped'
<1>1. chunks' = chunks /\ blank' = blank
  BY DEF input
<1>2. \A t : Stripped(t)' = Stripped(t)
  BY <1>1 DEF Stripped, Solid
<1> QED BY <1>1, <1>2 DEF TextStripped

LEMMA InitPacked == Init => Packed
<1> SUFFICES ASSUME Init PROVE Packed
  OBVIOUS
<1>1. /\ pages \in Seq(Seq(Nat \ {0})) /\ SizeBound \in Nat
      /\ buffer = <<>> /\ chunks = <<>> /\ chunkIndex = 0
  BY ChunkerAssumption DEF Init, SizeBound
<1>2. TypeOK
  BY <1>1 DEF Init, TypeOK
<1> QED BY <1>1, <1>2 DEF Init, Packed, IndexesNumberChunks, ChunksBounded, TextStripped

LEMMA StepPacked == Packed /\ [Next]_vars => Packed'
<1> USE DEF input
<1> SUFFICES ASSUME Packed, [Next]_vars PROVE Packed'
  OBVIOUS
<1>1. /\ pages \in Seq(Seq(Nat \ {0})) /\ SizeBound \in Nat
      /\ ChunkSize \in Nat \ {0} /\ chunkOverlap \in 0 .. ChunkSize - 1 /\ SepLen \in Nat
      /\ buffer \in Seq(Token) /\ chunks \in Seq(Chunk)
  BY ChunkerAssumption DEF Packed, TypeOK, SizeBound
<1>2. CASE BeginOversize
  <2>1. /\ page <= Len(pages) /\ segment <= Len(pages[page])
        /\ Len(Segment) = pages[page][segment]
        /\ pages[page][segment] \in Nat \ {0}
    BY <1>2, SegmentSeq DEF BeginOversize, AtSegment, Packed
  <2>2. /\ buffer' = <<>> /\ start' = 0 /\ pc' = "window"
        /\ UNCHANGED <<input, page, segment>>
    BY <1>2 DEF BeginOversize
  <2>3. /\ chunks' \in Seq(Chunk) /\ chunkIndex' \in Nat /\ chunkIndex' = Len(chunks')
        /\ IndexesNumberChunks' /\ ChunksBounded' /\ TextStripped'
    <3>1. CASE buffer = <<>>
      BY <1>2, <2>2, <3>1, SameStripped DEF BeginOversize, Packed, TypeOK, IndexesNumberChunks, ChunksBounded,
                        SizeBound
    <3>2. CASE buffer # <<>>
      <4>1. Emit(buffer) /\ buffer \in Seq(Token) /\ Len(buffer) <= SizeBound
        BY <1>1, <1>2, <3>2 DEF BeginOversize, Packed
      <4> QED BY <2>2, <4>1, EmitChunks DEF Packed
    <3> QED BY <3>1, <3>2
  <2>4. buffer' \in Seq(Token) /\ Len(buffer') = 0 /\ SizeBound' \in Nat
    BY <1>1, <2>2 DEF SizeBound
  <2>5. TypeOK'
    BY <2>1, <2>2, <2>3, <2>4 DEF Packed, TypeOK
  <2>6. start' < pages'[page'][segment'] /\ Len(buffer') <= SizeBound'
    BY <2>1, <2>2, <2>4
  <2> QED BY <2>3, <2>5, <2>6 DEF Packed
<1>3. CASE NextWindow
  <2> DEFINE n == pages[page][segment]
             end == Smaller(start + ChunkSize, Len(Segment))
  <2>1. /\ page <= Len(pages) /\ segment <= Len(pages[page]) /\ pc = "window"
        /\ Segment \in Seq(Token) /\ Len(Segment) = n /\ n \in Nat \ {0}
        /\ start \in Nat /\ start < n
    <3>1. pc = "window" /\ TypeOK
      BY <1>3 DEF NextWindow, Packed
    <3>2. page <= Len(pages) /\ segment <= Len(pages[page]) /\ start \in Nat
      BY <3>1 DEF TypeOK
    <3>3. start < n
      BY <3>1 DEF Packed
    <3> QED BY <3>1, <3>2, <3>3, SegmentSeq
  <2>2. /\ end \in Nat /\ start < end /\ end <= n /\ end <= start + ChunkSize
        /\ end # n => end < n /\ end = start + ChunkSize
    <3>1. end = IF start + ChunkSize <= n THEN start + ChunkSize ELSE n
      BY <2>1 DEF Smaller
    <3> HIDE DEF end, n
    <3> QED BY <1>1, <2>1, <3>1
  <2>3. /\ SubSeq(Segment, start + 1, end) \in Seq(Token)
        /\ Len(SubSeq(Segment, start + 1, end)) = end - start
    BY <2>1, <2>2, SubSeqProperties
  <2>4. Len(SubSeq(Segment, start + 1, end)) <= SizeBound
    BY <1>1, <2>1, <2>2, <2>3, SMTT(20) DEF SizeBound
  <2>5. Emit(SubSeq(Segment, start + 1, end))
    BY <1>3 DEF NextWindow
  <2>6. /\ chunks' \in Seq(Chunk) /\ chunkIndex' \in Nat /\ chunkIndex' = Len(chunks')
        /\ IndexesNumberChunks' /\ ChunksBounded' /\ TextStripped'
    <3>1. UNCHANGED input
      BY <1>3 DEF NextWindow
    <3> HIDE DEF end
    <3> QED BY <2>3, <2>4, <2>5, <3>1, EmitChunks DEF Packed
  <2>7. UNCHANGED <<input, page, buffer>>
    BY <1>3 DEF NextWindow
  <2>8. CASE end = n
    <3>1. segment' = segment + 1 /\ pc' = "segment" /\ start' = start
      BY <1>3, <2>1, <2>8 DEF NextWindow
    <3> QED BY <2>6, <2>7, <3>1 DEF Packed, TypeOK, SizeBound
  <2>9. CASE end # n
    <3>1. start' = end - chunkOverlap /\ UNCHANGED <<segment, pc>>
      BY <1>3, <2>1, <2>9 DEF NextWindow, NextStart
    <3>2. end \in Nat /\ end < n /\ end = start + ChunkSize
      <4> HIDE DEF end, n
      <4> QED BY <2>2, <2>9
    <3>3. start' \in Nat /\ start' < n
      <4> HIDE DEF end, n
      <4>1. chunkOverlap \in Nat /\ chunkOverlap < ChunkSize
        BY <1>1
      <4> QED BY <1>1, <2>1, <3>1, <3>2, <4>1
    <3> QED BY <2>1, <2>6, <2>7, <3>1, <3>3 DEF Packed, TypeOK, SizeBound
  <2> QED BY <2>8, <2>9
<1>4. CASE Extend
  <2>1. /\ Segment \in Seq(Token) /\ Len(Segment) \in Nat /\ Len(Segment) <= ChunkSize
        /\ buffer = <<>> \/ Len(buffer) + SepLen + Len(Segment) <= ChunkSize
    BY <1>1, <1>4, SegmentSeq DEF Extend, AtSegment, Oversize, Fits, Packed
  <2>2. /\ buffer' = buffer \o Segment /\ segment' = segment + 1
        /\ UNCHANGED <<input, page, start, chunks, chunkIndex, pc>>
        /\ pc = "segment"
    BY <1>4 DEF Extend, AtSegment
  <2>3. buffer' \in Seq(Token) /\ Len(buffer') <= SizeBound
    BY <1>1, <2>1, <2>2 DEF SizeBound
  <2> QED BY <2>2, <2>3, SameStripped
          DEF Packed, TypeOK, SizeBound, IndexesNumberChunks, ChunksBounded
<1>5. CASE CloseAndRestart
  <2>1. /\ Segment \in Seq(Token) /\ Len(Segment) \in Nat /\ Len(Segment) <= ChunkSize
    BY <1>1, <1>5, SegmentSeq DEF CloseAndRestart, AtSegment, Oversize, Packed
  <2>2. /\ buffer' = Restart /\ segment' = segment + 1 /\ Emit(buffer)
        /\ UNCHANGED <<input, page, start, pc>> /\ pc = "segment"
    BY <1>5 DEF CloseAndRestart, AtSegment
  <2>3. buffer' \in Seq(Token) /\ Len(buffer') <= SizeBound
    BY <1>1, <2>1, <2>2, SeparatorSeq, LastTokensSeq DEF Restart, SizeBound
  <2>4. /\ chunks' \in Seq(Chunk) /\ chunkIndex' \in Nat /\ chunkIndex' = Len(chunks')
        /\ IndexesNumberChunks' /\ ChunksBounded' /\ TextStripped'
    BY <1>1, <2>2, EmitChunks DEF Packed
  <2> QED BY <2>2, <2>3, <2>4 DEF Packed, TypeOK, SizeBound
<1>6. CASE EndPage
  <2>1. /\ buffer' = <<>> /\ page' = page + 1 /\ segment' = 1
        /\ UNCHANGED <<input, start, pc>> /\ pc = "segment" /\ page <= Len(pages)
    BY <1>6 DEF EndPage
  <2>2. /\ chunks' \in Seq(Chunk) /\ chunkIndex' \in Nat /\ chunkIndex' = Len(chunks')
        /\ IndexesNumberChunks' /\ ChunksBounded' /\ TextStripped'
    <3>1. CASE buffer = <<>>
      BY <1>6, <2>1, <3>1, SameStripped DEF EndPage, Packed, TypeOK, IndexesNumberChunks, ChunksBounded,
                        SizeBound
    <3>2. CASE buffer # <<>>
      BY <1>1, <1>6, <3>2, EmitChunks DEF EndPage, Packed
    <3> QED BY <3>1, <3>2
  <2> QED BY <1>1, <2>1, <2>2 DEF Packed, TypeOK, SizeBound
<1>7. CASE UNCHANGED vars
  BY <1>7, SameStripped DEF vars, Packed, TypeOK, SizeBound, IndexesNumberChunks, ChunksBounded
<1> QED BY <1>2, <1>3, <1>4, <1>5, <1>6, <1>7 DEF Next

LEMMA PackedCorrect == Spec => []Packed
BY InitPacked, StepPacked, PTL DEF Spec

\* No chunk has more tokens than the budget, the overlap and one separator: the
\* size that the packing really guarantees.
THEOREM ChunksBoundedAlways == Spec => []ChunksBounded
<1>1. Packed => ChunksBounded
  BY DEF Packed
<1> QED BY PackedCorrect, <1>1, PTL

\* Chunks are numbered 0, 1, 2, ... across windows and pages, so the ids of their
\* points are distinct.
THEOREM IndexesNumberChunksAlways == Spec => []IndexesNumberChunks
<1>1. Packed => IndexesNumberChunks
  BY DEF Packed
<1> QED BY PackedCorrect, <1>1, PTL

-----------------------------------------------------------------------------
(***************************************************************************)
(* What the chunks are made of.  The text read so far is the text of the   *)
(* chunks and of the open one; a segment not read yet therefore brings     *)
(* tokens no chunk has, and what two consecutive chunks share is what the  *)
(* overlap put in front of the second.                                     *)
(***************************************************************************)
\* Where the tokens already cut from an oversize segment end: the next window starts
\* chunkOverlap tokens before, the first one at the beginning.
Cut == IF start = 0 THEN 0 ELSE start + chunkOverlap

\* The token at position i of segment s of page p has been read.
IsRead(p, s, i) ==
    \/ p < page
    \/ p = page /\ s < segment
    \/ p = page /\ s = segment /\ pc = "window" /\ i <= Cut

Read == {t \in AllText : IsRead(t[1], t[2], t[3])}

Held == UNION {ChunkText(i) : i \in 1 .. Len(chunks)}

\* What tokens may share with the last chunk, being the next one.
SharesOverlap(tokens) ==
    chunks # <<>> =>
        \A n \in 1 .. Len(tokens) : tokens[n] \in ChunkText(Len(chunks)) => n <= chunkOverlap

\* They hold a token no chunk holds.
Fresh(tokens) == ~(TextOf(tokens) \subseteq Held)

Gathered ==
    /\ Held \cup TextOf(buffer) = Read
    /\ pc = "window" => buffer = <<>> /\ Cut < pages[page][segment]
    /\ SharesOverlap(buffer) /\ OverlapBounded
    /\ (buffer # <<>> => Fresh(buffer)) /\ NothingRedundant
    /\ Done => buffer = <<>>

\* The text of sequences put together.
LEMMA TextOfConcat ==
    ASSUME NEW s \in Seq(Token), NEW t \in Seq(Token)
    PROVE  TextOf(s \o t) = TextOf(s) \cup TextOf(t)
<1>1. /\ s \o t \in Seq(Token) /\ Len(s \o t) = Len(s) + Len(t)
      /\ \A i \in 1 .. Len(s) + Len(t) :
            (s \o t)[i] = IF i <= Len(s) THEN s[i] ELSE t[i - Len(s)]
  BY ConcatProperties
<1>2. Len(s) \in Nat /\ Len(t) \in Nat
  OBVIOUS
<1>3. ASSUME NEW x \in TextOf(s \o t) PROVE x \in TextOf(s) \cup TextOf(t)
  <2>1. PICK i \in 1 .. Len(s \o t) : x = (s \o t)[i] /\ x # Sep
    BY <1>3 DEF TextOf
  <2>2. CASE i <= Len(s)
    BY <1>1, <1>2, <2>1, <2>2 DEF TextOf
  <2>3. CASE i > Len(s)
    <3>1. i - Len(s) \in 1 .. Len(t) /\ x = t[i - Len(s)]
      BY <1>1, <1>2, <2>1, <2>3
    <3> QED BY <2>1, <3>1 DEF TextOf
  <2> QED BY <1>2, <2>2, <2>3
<1>4. ASSUME NEW x \in TextOf(s) PROVE x \in TextOf(s \o t)
  <2>1. PICK i \in 1 .. Len(s) : x = s[i] /\ x # Sep
    BY <1>4 DEF TextOf
  <2>2. i \in 1 .. Len(s \o t) /\ (s \o t)[i] = x
    BY <1>1, <1>2, <2>1
  <2> QED BY <2>1, <2>2 DEF TextOf
<1>5. ASSUME NEW x \in TextOf(t) PROVE x \in TextOf(s \o t)
  <2>1. PICK i \in 1 .. Len(t) : x = t[i] /\ x # Sep
    BY <1>5 DEF TextOf
  <2>2. Len(s) + i \in 1 .. Len(s \o t) /\ (s \o t)[Len(s) + i] = x
    BY <1>1, <1>2, <2>1
  <2> QED BY <2>1, <2>2 DEF TextOf
<1> QED BY <1>3, <1>4, <1>5

LEMMA TextOfEmpty == TextOf(<<>>) = {}
BY DEF TextOf

LEMMA TextOfSeparator == TextOf(Separator) = {}
<1>1. Len(Separator) = SepLen /\ \A i \in 1 .. SepLen : Separator[i] = Sep
  BY SeparatorSeq DEF Separator
<1> QED BY <1>1 DEF TextOf

\* The overlap is made of tokens of the chunk it is taken from.
LEMMA TextOfLastTokens ==
    ASSUME NEW s \in Seq(Token), NEW n \in Nat
    PROVE  TextOf(LastTokens(s, n)) \subseteq TextOf(s)
<1> DEFINE m == Len(s) - Smaller(n, Len(s)) + 1
<1>1. Len(s) \in Nat /\ m \in 1 .. Len(s) + 1
  <2>1. Len(s) \in Nat
    OBVIOUS
  <2>2. Smaller(n, Len(s)) \in 0 .. Len(s)
    <3> HIDE DEF m
    <3> QED BY <2>1 DEF Smaller
  <2> QED BY <2>1, <2>2
<1>2. /\ LastTokens(s, n) = SubSeq(s, m, Len(s))
      /\ Len(LastTokens(s, n)) = Len(s) - m + 1
      /\ \A i \in 1 .. Len(s) - m + 1 : LastTokens(s, n)[i] = s[m + i - 1]
  <2> HIDE DEF m
  <2>1. LastTokens(s, n) = SubSeq(s, m, Len(s))
    BY DEF LastTokens, m
  <2> QED BY <1>1, <2>1, SubSeqProperties
<1> HIDE DEF m
<1> SUFFICES ASSUME NEW x \in TextOf(LastTokens(s, n)) PROVE x \in TextOf(s)
  OBVIOUS
<1>3. PICK i \in 1 .. Len(s) - m + 1 : x = s[m + i - 1] /\ x # Sep
  BY <1>1, <1>2 DEF TextOf
<1>4. m + i - 1 \in 1 .. Len(s)
  BY <1>1, <1>3
<1> QED BY <1>3, <1>4 DEF TextOf

\* The places of the current segment after the a-th and up to the b-th.
Places(a, b) == {<<page, segment, i>> : i \in a + 1 .. b}

\* The tokens of a window are those of its places; none is a separator.
LEMMA TextOfWindow ==
    ASSUME TypeOK, page <= Len(pages), segment <= Len(pages[page]),
           NEW a \in Nat, NEW b \in Nat, a <= b, b <= pages[page][segment]
    PROVE  /\ Len(SubSeq(Segment, a + 1, b)) = b - a
           /\ \A n \in 1 .. b - a : SubSeq(Segment, a + 1, b)[n] = <<page, segment, a + n>>
           /\ TextOf(SubSeq(Segment, a + 1, b)) = Places(a, b)
<1> DEFINE w == SubSeq(Segment, a + 1, b)
<1>1. /\ Segment \in Seq(Token) /\ Len(Segment) = pages[page][segment]
      /\ Len(Segment) \in Nat
      /\ \A i \in 1 .. Len(Segment) : Segment[i] = <<page, segment, i>>
  BY SegmentSeq DEF Segment
<1>2. /\ Len(w) = b - a
      /\ \A n \in 1 .. b - a : w[n] = Segment[a + n]
  <2> DEFINE m == a + 1
  <2>1. m \in Int /\ b \in Int /\ b - m + 1 = b - a /\ (m <= b \/ b - a = 0)
    OBVIOUS
  <2>2. \A i \in m .. b : Segment[i] \in Token
    <3>1. \A i \in m .. b : i \in 1 .. Len(Segment)
      BY <1>1
    <3>2. \A i \in 1 .. Len(Segment) : Segment[i] \in Token
      BY <1>1
    <3> QED BY <3>1, <3>2
  <2>3. \A n \in 1 .. b - a : m + n - 1 = a + n
    OBVIOUS
  <2> HIDE DEF m
  <2>4. /\ Len(SubSeq(Segment, m, b)) = IF m <= b THEN b - m + 1 ELSE 0
        /\ \A i \in 1 .. b - m + 1 : SubSeq(Segment, m, b)[i] = Segment[m + i - 1]
    BY <2>1, <2>2, SubSeqProperties
  <2>5. /\ Len(SubSeq(Segment, m, b)) = b - a
        /\ \A n \in 1 .. b - a : SubSeq(Segment, m, b)[n] = Segment[a + n]
    BY <2>1, <2>3, <2>4
  <2> QED BY <2>5 DEF m
<1>3. \A n \in 1 .. b - a : a + n \in 1 .. Len(Segment) /\ a + n \in a + 1 .. b
  BY <1>1
<1>4. \A n \in 1 .. Len(w) : w[n] = <<page, segment, a + n>>
  BY <1>1, <1>2, <1>3
<1>5. \A i : <<page, segment, i>> # Sep
  BY DEF TypeOK, Sep
<1>6. ASSUME NEW x \in TextOf(w) PROVE x \in {<<page, segment, i>> : i \in a + 1 .. b}
  <2>1. PICK n \in 1 .. Len(w) : x = w[n]
    BY <1>6 DEF TextOf
  <2> QED BY <1>2, <1>3, <1>4, <2>1
<1>7. ASSUME NEW i \in a + 1 .. b PROVE <<page, segment, i>> \in TextOf(w)
  <2>1. i - a \in 1 .. Len(w) /\ a + (i - a) = i
    BY <1>2
  <2>2. w[i - a] = <<page, segment, i>>
    BY <1>4, <2>1
  <2> QED BY <1>5, <2>1, <2>2 DEF TextOf
<1> QED BY <1>2, <1>4, <1>6, <1>7 DEF Places

LEMMA TextOfSegment ==
    ASSUME TypeOK, page <= Len(pages), segment <= Len(pages[page])
    PROVE  /\ TextOf(Segment) = SegmentText(page, segment)
           /\ \A i \in 1 .. Len(Segment) : Segment[i] \in SegmentText(page, segment)
<1>1. /\ Segment \in Seq(Token) /\ Len(Segment) = pages[page][segment]
      /\ \A i \in 1 .. Len(Segment) : Segment[i] = <<page, segment, i>>
  BY SegmentSeq DEF Segment
<1>2. \A i : <<page, segment, i>> # Sep
  BY DEF TypeOK, Sep
<1> QED BY <1>1, <1>2 DEF TextOf, SegmentText

\* The text of the document, place by place.
LEMMA AllTextPlaces ==
    ASSUME NEW t
    PROVE  t \in AllText <=>
             \E p \in 1 .. Len(pages) : \E s \in 1 .. Len(pages[p]) :
               \E i \in 1 .. pages[p][s] : t = <<p, s, i>>
BY DEF AllText, PageText, SegmentText

LEMMA ReadPlaces ==
    ASSUME NEW p, NEW s, NEW i
    PROVE  /\ <<p, s, i>> \in Read <=> <<p, s, i>> \in AllText /\ IsRead(p, s, i)
           /\ <<p, s, i>> \in AllText <=> /\ p \in 1 .. Len(pages)
                                          /\ s \in 1 .. Len(pages[p])
                                          /\ i \in 1 .. pages[p][s]
BY AllTextPlaces DEF Read

\* What Emit does to the text held and to the sharing of consecutive chunks.
LEMMA EmitText ==
    ASSUME TypeOK, NEW tokens \in Seq(Token), Emit(tokens), UNCHANGED input
    PROVE  /\ Held' = Held \cup TextOf(tokens)
           /\ chunks' # <<>> /\ ChunkText(Len(chunks))' = TextOf(tokens)
           /\ OverlapBounded /\ SharesOverlap(tokens) => OverlapBounded'
           /\ NothingRedundant /\ Fresh(tokens) => NothingRedundant'
<1> USE DEF input
<1> DEFINE c == ChunkOf(tokens)
           N == Len(chunks)
<1>0. c.tokens = tokens
  BY DEF ChunkOf
<1>1. c \in Chunk /\ chunks \in Seq(Chunk) /\ chunks' = Append(chunks, c)
  BY StrippedTokens DEF TypeOK, Chunk, ChunkOf, Emit
<1>2. /\ chunks' \in Seq(Chunk) /\ Len(chunks') = N + 1 /\ N \in Nat
      /\ \A i \in 1 .. N : chunks'[i] = chunks[i]
      /\ chunks'[N + 1] = c
  BY <1>1, AppendProperties
<1>3. /\ \A i \in 1 .. N : TextOf(chunks'[i].tokens) = ChunkText(i)
      /\ TextOf(chunks'[N + 1].tokens) = TextOf(tokens)
  BY <1>0, <1>2 DEF ChunkText
<1> HIDE DEF c, N
<1>4. Held' = Held \cup TextOf(tokens)
  <2>1. Held' = UNION {TextOf(chunks'[i].tokens) : i \in 1 .. N + 1}
    BY <1>2 DEF Held, ChunkText
  <2>2. \A i \in 1 .. N + 1 : i \in 1 .. N \/ i = N + 1
    BY <1>2
  <2>3. 1 .. N \subseteq 1 .. N + 1 /\ N + 1 \in 1 .. N + 1
    BY <1>2
  <2>4. Held = UNION {ChunkText(i) : i \in 1 .. N}
    BY DEF Held, N
  <2> QED BY <1>3, <2>1, <2>2, <2>3, <2>4
<1>5. chunks' # <<>> /\ ChunkText(Len(chunks))' = TextOf(tokens)
  BY <1>2, <1>3 DEF ChunkText
<1>6. ASSUME OverlapBounded, SharesOverlap(tokens) PROVE OverlapBounded'
  <2> SUFFICES ASSUME NEW i \in 1 .. N, NEW n \in 1 .. Len(chunks'[i + 1].tokens),
                      chunks'[i + 1].tokens[n] \in TextOf(chunks'[i].tokens)
               PROVE  n <= chunkOverlap
    BY <1>2 DEF OverlapBounded, ChunkText
  <2>1. CASE i + 1 <= N
    <3>1. i \in 1 .. N - 1 /\ i + 1 \in 1 .. N
      BY <1>2, <2>1
    <3>2. chunks'[i] = chunks[i] /\ chunks'[i + 1] = chunks[i + 1]
      BY <1>2, <3>1
    <3> QED BY <1>6, <3>1, <3>2 DEF OverlapBounded, ChunkText, N
  <2>2. CASE i = N
    <3>1. chunks'[i + 1].tokens = tokens
      BY <1>0, <1>2, <2>2
    <3>2. chunks # <<>> /\ ChunkText(Len(chunks)) = TextOf(chunks'[i].tokens)
      BY <1>2, <1>3, <2>2 DEF N
    <3> QED BY <1>6, <3>1, <3>2 DEF SharesOverlap
  <2> QED BY <1>2, <2>1, <2>2
<1>7. ASSUME NothingRedundant, Fresh(tokens) PROVE NothingRedundant'
  <2> DEFINE Earlier(i) == UNION {TextOf(chunks'[j].tokens) : j \in 1 .. i - 1}
  <2> SUFFICES ASSUME NEW i \in 1 .. N + 1
               PROVE  ~(TextOf(chunks'[i].tokens) \subseteq Earlier(i))
    BY <1>2 DEF NothingRedundant, ChunkText
  <2>1. \A j \in 1 .. i - 1 : j \in 1 .. N /\ TextOf(chunks'[j].tokens) = ChunkText(j)
    BY <1>2, <1>3
  <2>2. Earlier(i) = UNION {ChunkText(j) : j \in 1 .. i - 1}
    BY <2>1
  <2> HIDE DEF Earlier
  <2>3. CASE i \in 1 .. N
    BY <1>3, <1>7, <2>2, <2>3 DEF NothingRedundant, N
  <2>4. CASE i = N + 1
    <3>1. i - 1 = N
      BY <1>2, <2>4
    <3> QED BY <1>3, <1>7, <2>2, <2>4, <3>1 DEF Fresh, Held, N
  <2> QED BY <1>2, <2>3, <2>4
<1> QED BY <1>4, <1>5, <1>6, <1>7

\* A segment that has not been read brings a token of its own, and no token that is
\* read.
LEMMA SegmentUnread ==
    ASSUME TypeOK, AtSegment
    PROVE  /\ SegmentText(page, segment) \cap Read = {}
           /\ SegmentText(page, segment) # {}
           /\ SegmentText(page, segment) \subseteq AllText
<1>1. page \in 1 .. Len(pages) /\ segment \in 1 .. Len(pages[page])
  <2>1. pages \in Seq(Seq(Nat \ {0})) /\ page \in 1 .. Len(pages)
    BY ChunkerAssumption DEF TypeOK, AtSegment
  <2> QED BY <2>1 DEF TypeOK, AtSegment
<1>2. pages[page][segment] \in Nat \ {0}
  BY SegmentSeq DEF AtSegment
<1>3. \A i : ~IsRead(page, segment, i)
  BY <1>1 DEF IsRead, AtSegment
<1>4. SegmentText(page, segment) \subseteq AllText
  BY <1>1, ReadPlaces DEF SegmentText
<1>5. <<page, segment, 1>> \in SegmentText(page, segment)
  BY <1>2 DEF SegmentText
<1> QED BY <1>3, <1>4, <1>5, ReadPlaces DEF SegmentText

\* What has been read once the segment has.
LEMMA ReadSegment ==
    ASSUME TypeOK, AtSegment, segment' = segment + 1, pc' = "segment",
           UNCHANGED <<input, page>>
    PROVE  Read' = Read \cup SegmentText(page, segment)
<1> USE DEF input
<1>1. AllText' = AllText
  BY DEF AllText, PageText, SegmentText
<1>2. page \in 1 .. Len(pages) /\ segment \in 1 .. Len(pages[page])
  <2>1. pages \in Seq(Seq(Nat \ {0})) /\ page \in 1 .. Len(pages)
    BY ChunkerAssumption DEF TypeOK, AtSegment
  <2> QED BY <2>1 DEF TypeOK, AtSegment
<1>3. ASSUME NEW t \in AllText
      PROVE  t \in Read' <=> t \in Read \/ t \in SegmentText(page, segment)
  <2>1. PICK p \in 1 .. Len(pages) : \E s \in 1 .. Len(pages[p]) :
               \E i \in 1 .. pages[p][s] : t = <<p, s, i>>
    BY <1>3, AllTextPlaces
  <2>2. PICK s \in 1 .. Len(pages[p]) : \E i \in 1 .. pages[p][s] : t = <<p, s, i>>
    BY <2>1
  <2>3. PICK i \in 1 .. pages[p][s] : t = <<p, s, i>>
    BY <2>2
  <2>4. IsRead(p, s, i)' <=> p < page \/ (p = page /\ s < segment + 1)
    BY DEF IsRead
  <2>5. IsRead(p, s, i) <=> p < page \/ (p = page /\ s < segment)
    BY DEF IsRead, AtSegment
  <2>6. t \in SegmentText(page, segment) <=> p = page /\ s = segment
    BY <2>3 DEF SegmentText
  <2>7. s < segment + 1 <=> s < segment \/ s = segment
    BY <1>2, <2>2
  <2>8. t \in Read' <=> IsRead(p, s, i)'
    BY <1>1, <2>3 DEF Read
  <2>9. t \in Read <=> IsRead(p, s, i)
    BY <2>3 DEF Read
  <2> QED BY <2>4, <2>5, <2>6, <2>7, <2>8, <2>9
<1>4. Read' \subseteq AllText /\ Read \subseteq AllText
  BY <1>1 DEF Read
<1> QED BY <1>3, <1>4, SegmentUnread

\* A window holds exactly the places between its ends; those past Cut are new.
LEMMA ReadWindow ==
    ASSUME TypeOK, pc = "window", Cut < pages[page][segment],
           NEW end \in Nat, Cut <= end, end <= pages[page][segment],
           UNCHANGED <<input, page>>,
           \/ end < pages[page][segment] /\ segment' = segment /\ pc' = pc /\ Cut' = end
           \/ end >= pages[page][segment] /\ segment' = segment + 1 /\ pc' = "segment"
    PROVE  Read' = Read \cup Places(Cut, end)
<1> USE DEF input
<1> DEFINE Window == {<<page, segment, i>> : i \in (Cut + 1) .. end}
<1>1. AllText' = AllText
  BY DEF AllText, PageText, SegmentText
<1>2. page \in 1 .. Len(pages) /\ segment \in 1 .. Len(pages[page])
  <2>1. pages \in Seq(Seq(Nat \ {0})) /\ page \in 1 .. Len(pages)
    BY ChunkerAssumption DEF TypeOK
  <2> QED BY <2>1 DEF TypeOK
<1>3. Cut \in Nat /\ pages[page][segment] \in Nat
  <2>1. start \in Nat /\ chunkOverlap \in Nat
    BY ChunkerAssumption, SMTT(30) DEF TypeOK
  <2> QED BY <1>2, <2>1, SegmentSeq DEF Cut
<1>4. ASSUME NEW t \in AllText PROVE t \in Read' <=> t \in Read \/ t \in Window
  <2>1. PICK p \in 1 .. Len(pages) : \E s \in 1 .. Len(pages[p]) :
               \E i \in 1 .. pages[p][s] : t = <<p, s, i>>
    BY <1>4, AllTextPlaces
  <2>2. PICK s \in 1 .. Len(pages[p]) : \E i \in 1 .. pages[p][s] : t = <<p, s, i>>
    BY <2>1
  <2>3. PICK i \in 1 .. pages[p][s] : t = <<p, s, i>>
    BY <2>2
  <2>4. t \in Window <=> p = page /\ s = segment /\ i \in (Cut + 1) .. end
    BY <2>3
  <2>5. t \in Read' <=> IsRead(p, s, i)'
    BY <1>1, <2>3 DEF Read
  <2>6. t \in Read <=> IsRead(p, s, i)
    BY <2>3 DEF Read
  <2>7. CASE p = page /\ s = segment
    <3>1. IsRead(p, s, i) <=> i <= Cut
      BY <1>2, <2>7 DEF IsRead
    <3>2. IsRead(p, s, i)' <=> i <= end
      BY <1>2, <1>3, <2>7 DEF IsRead
    <3>3. i \in Nat /\ i >= 1
      BY <1>3, <2>7
    <3> QED BY <1>3, <2>4, <2>5, <2>6, <2>7, <3>1, <3>2, <3>3
  <2>8. CASE ~(p = page /\ s = segment)
    <3>1. s \in Nat /\ segment \in Nat
      BY <1>2
    <3>2. IsRead(p, s, i)' <=> IsRead(p, s, i)
      BY <1>2, <2>8, <3>1 DEF IsRead
    <3> QED BY <2>4, <2>5, <2>6, <2>8, <3>2
  <2> QED BY <2>7, <2>8
<1>5. Read' \subseteq AllText /\ Read \subseteq AllText
  BY <1>1 DEF Read
<1>6. Window \subseteq AllText
  <2>1. \A i \in (Cut + 1) .. end : i \in 1 .. pages[page][segment]
    BY <1>3
  <2> QED BY <1>2, <2>1, ReadPlaces
<1> QED BY <1>4, <1>5, <1>6 DEF Places

LEMMA InitGathered == Init => Gathered
<1> SUFFICES ASSUME Init PROVE Gathered
  OBVIOUS
<1>1. /\ buffer = <<>> /\ chunks = <<>> /\ page = 1 /\ segment = 1 /\ pc = "segment"
      /\ pages \in Seq(Seq(Nat \ {0}))
  BY ChunkerAssumption DEF Init
<1>2. Held = {} /\ TextOf(buffer) = {}
  BY <1>1, TextOfEmpty DEF Held
<1>3. ASSUME NEW t \in Read PROVE FALSE
  <2>1. PICK p \in 1 .. Len(pages) : \E s \in 1 .. Len(pages[p]) :
               \E i \in 1 .. pages[p][s] : t = <<p, s, i>>
    BY <1>3, AllTextPlaces DEF Read
  <2>2. PICK s \in 1 .. Len(pages[p]) : \E i \in 1 .. pages[p][s] : t = <<p, s, i>>
    BY <2>1
  <2>3. PICK i \in 1 .. pages[p][s] : t = <<p, s, i>>
    BY <2>2
  <2>4. IsRead(p, s, i)
    BY <1>3, <2>3 DEF Read
  <2>5. s \in Nat \ {0}
    BY <1>1
  <2> QED BY <1>1, <2>4, <2>5 DEF IsRead
<1>4. OverlapBounded /\ NothingRedundant /\ SharesOverlap(buffer)
  BY <1>1 DEF SharesOverlap, OverlapBounded, NothingRedundant
<1> QED BY <1>1, <1>2, <1>3, <1>4 DEF Gathered

\* The open chunk is closed, if there is one: what holds of the chunks and of the
\* open chunk comes to hold of the chunks alone.
LEMMA CloseBuffer ==
    ASSUME Packed, Gathered, UNCHANGED input,
           IF buffer = <<>> THEN UNCHANGED <<chunks, chunkIndex>> ELSE Emit(buffer)
    PROVE  /\ Held' = Read /\ OverlapBounded' /\ NothingRedundant'
<1> USE DEF input
<1>1. CASE buffer = <<>>
  <2>1. chunks' = chunks /\ chunkOverlap' = chunkOverlap
    BY <1>1
  <2>2. Held' = Held /\ Held = Read
    BY <1>1, <2>1, TextOfEmpty DEF Held, ChunkText, Gathered
  <2> QED BY <2>1, <2>2 DEF Gathered, OverlapBounded, NothingRedundant, ChunkText
<1>2. CASE buffer # <<>>
  <2>1. Emit(buffer) /\ buffer \in Seq(Token)
    BY <1>2 DEF Packed, TypeOK
  <2> QED BY <1>2, <2>1, EmitText DEF Gathered, Packed
<1> QED BY <1>1, <1>2

LEMMA StepGathered == Packed /\ Gathered /\ [Next]_vars => Gathered'
<1> USE DEF input
<1> SUFFICES ASSUME Packed, Gathered, [Next]_vars PROVE Gathered'
  OBVIOUS
<1>1. /\ pages \in Seq(Seq(Nat \ {0})) /\ TypeOK
      /\ ChunkSize \in Nat \ {0} /\ chunkOverlap \in 0 .. ChunkSize - 1
      /\ buffer \in Seq(Token) /\ chunks \in Seq(Chunk)
      /\ Separator \in Seq(Token)
  BY ChunkerAssumption, SeparatorSeq DEF Packed, TypeOK
<1>2. CASE BeginOversize
  <2>1. /\ AtSegment /\ buffer' = <<>> /\ start' = 0 /\ pc' = "window"
        /\ UNCHANGED <<input, page, segment>>
    BY <1>2 DEF BeginOversize
  <2>2. Held' = Read /\ OverlapBounded' /\ NothingRedundant'
    BY <1>2, <2>1, CloseBuffer DEF BeginOversize
  <2>3. /\ Cut' = 0 /\ pages[page][segment] \in Nat \ {0}
    BY <1>1, <2>1, SegmentSeq DEF Cut, AtSegment
  <2>4. Read' = Read
    <3>1. AllText' = AllText
      BY <2>1 DEF AllText, PageText, SegmentText
    <3>2. ASSUME NEW t \in AllText PROVE IsRead(t[1], t[2], t[3])' <=> IsRead(t[1], t[2], t[3])
      <4>1. PICK p \in 1 .. Len(pages) : \E s \in 1 .. Len(pages[p]) :
                   \E i \in 1 .. pages[p][s] : t = <<p, s, i>>
        BY <3>2, AllTextPlaces
      <4>2. PICK s \in 1 .. Len(pages[p]) : \E i \in 1 .. pages[p][s] : t = <<p, s, i>>
        BY <4>1
      <4>3. PICK i \in 1 .. pages[p][s] : t = <<p, s, i>>
        BY <4>2
      <4>4. i \in Nat \ {0}
        BY <1>1
      <4>5. t[1] = p /\ t[2] = s /\ t[3] = i
        BY <4>3
      <4> QED BY <2>1, <2>3, <4>4, <4>5 DEF IsRead, AtSegment
    <3> QED BY <3>1, <3>2 DEF Read
  <2> QED BY <2>1, <2>2, <2>3, <2>4, TextOfEmpty DEF Gathered, SharesOverlap
<1>3. CASE NextWindow
  <2> DEFINE n == pages[page][segment]
             end == Smaller(start + ChunkSize, Len(Segment))
             w == SubSeq(Segment, start + 1, end)
  <2>1. /\ pc = "window" /\ page <= Len(pages) /\ segment <= Len(pages[page])
        /\ Len(Segment) = n /\ n \in Nat \ {0} /\ start \in Nat /\ start < n
        /\ Segment \in Seq(Token)
        /\ buffer = <<>> /\ Cut < n
    <3>1. pc = "window"
      BY <1>3 DEF NextWindow
    <3>2. page <= Len(pages) /\ segment <= Len(pages[page]) /\ start \in Nat
      BY <1>1, <3>1 DEF TypeOK
    <3> QED BY <1>1, <3>1, <3>2, SegmentSeq DEF Packed, Gathered
  <2>2. /\ Emit(w) /\ UNCHANGED <<input, page, buffer>>
        /\ IF end = n
           THEN segment' = segment + 1 /\ pc' = "segment" /\ UNCHANGED start
           ELSE start' = end - chunkOverlap /\ UNCHANGED <<segment, pc>>
    BY <1>3, <2>1 DEF NextWindow, NextStart
  <2>3. end = IF start + ChunkSize <= n THEN start + ChunkSize ELSE n
    BY <2>1 DEF Smaller
  <2> HIDE DEF n, end
  <2>4. /\ end \in Nat /\ start < end /\ end <= n
        /\ end # n => end < n /\ end = start + ChunkSize
    BY <1>1, <2>1, <2>3
  <2>5. /\ Cut \in Nat /\ start <= Cut /\ Cut < end
        /\ start = 0 => Cut = 0
        /\ start # 0 => Cut = start + chunkOverlap
    BY <1>1, <2>1, <2>3, <2>4 DEF Cut
  <2>6. /\ Len(w) = end - start
        /\ \A k \in 1 .. Len(w) : w[k] = <<page, segment, start + k>>
        /\ TextOf(w) = Places(start, end)
    <3>1. start <= end /\ end <= pages[page][segment]
      BY <2>1, <2>4 DEF n
    <3> QED BY <1>1, <2>1, <2>4, <3>1, TextOfWindow
  <2>7. w \in Seq(Token)
    BY <2>1, <2>4, SubSeqProperties
  <2> HIDE DEF w
  <2>8. Read' = Read \cup Places(Cut, end)
    <3>1. CASE end = n
      <4>1. /\ Cut <= end /\ Cut < pages[page][segment]
            /\ end >= pages[page][segment] /\ segment' = segment + 1 /\ pc' = "segment"
        BY <2>1, <2>2, <2>4, <2>5, <3>1 DEF n
      <4>2. end <= pages[page][segment]
        BY <2>4 DEF n
      <4>3. UNCHANGED <<input, page>>
        BY <2>2
      <4> QED BY <1>1, <2>1, <2>4, <4>1, <4>2, <4>3, ReadWindow
    <3>2. CASE end # n
      <4>1. start' = end - chunkOverlap /\ UNCHANGED <<segment, pc, chunkOverlap>>
        BY <2>2, <3>2
      <4>2. start' # 0 /\ start' + chunkOverlap = end
        BY <1>1, <2>1, <2>4, <3>2, <4>1
      <4>3. Cut' = end
        BY <4>1, <4>2 DEF Cut
      <4> QED BY <1>1, <2>1, <2>2, <2>4, <2>5, <3>2, <4>1, <4>3, ReadWindow DEF n
    <3> QED BY <3>1, <3>2
  <2>9. page \in 1 .. Len(pages) /\ segment \in 1 .. Len(pages[page])
    BY <1>1, <2>1 DEF TypeOK
  <2>10. \A i \in start + 1 .. end : <<page, segment, i>> \in Read <=> i <= Cut
    <3>1. \A i \in start + 1 .. end : i \in 1 .. pages[page][segment]
      BY <2>1, <2>4 DEF n
    <3>2. \A i : IsRead(page, segment, i) <=> i <= Cut
      BY <2>1, <2>9 DEF IsRead
    <3> QED BY <2>9, <3>1, <3>2, ReadPlaces
  <2>11. Held = Read
    BY <2>1, TextOfEmpty DEF Gathered
  <2>12. SharesOverlap(w)
    <3> SUFFICES ASSUME chunks # <<>>, NEW k \in 1 .. Len(w), w[k] \in ChunkText(Len(chunks))
                 PROVE  k <= chunkOverlap
      BY DEF SharesOverlap
    <3>1. w[k] \in Held
      <4>1. Len(chunks) \in 1 .. Len(chunks)
        BY <1>1
      <4> QED BY <4>1 DEF Held
    <3>2. start + k \in start + 1 .. end /\ start + k <= Cut
      <4>1. start + k \in start + 1 .. end
        BY <2>1, <2>4, <2>6
      <4> QED BY <2>6, <2>10, <2>11, <3>1, <4>1
    <3> QED BY <1>1, <2>1, <2>5, <3>2
  <2>13. Fresh(w)
    <3>1. end \in start + 1 .. end /\ ~(end <= Cut)
      BY <2>1, <2>4, <2>5
    <3> QED BY <2>6, <2>10, <2>11, <3>1 DEF Fresh, Places
  <2>14. Held' = Held \cup TextOf(w) /\ OverlapBounded' /\ NothingRedundant'
    BY <1>1, <2>2, <2>7, <2>12, <2>13, EmitText DEF Gathered
  <2>15. Held' = Read'
    <3>1. \A i \in Cut + 1 .. end : i \in start + 1 .. end
      BY <2>1, <2>5
    <3>2. \A i \in start + 1 .. end : i <= Cut \/ i \in Cut + 1 .. end
      BY <2>5
    <3>3. Places(Cut, end) \subseteq Places(start, end)
      BY <3>1 DEF Places
    <3>4. Places(start, end) \subseteq Places(Cut, end) \cup Read
      BY <2>10, <3>2 DEF Places
    <3> QED BY <2>6, <2>8, <2>11, <2>14, <3>3, <3>4
  <2>16. pc' = "window" => Cut' < pages'[page'][segment']
    <3> SUFFICES ASSUME pc' = "window" PROVE Cut' < pages'[page'][segment']
      OBVIOUS
    <3>1. end # n /\ start' = end - chunkOverlap /\ UNCHANGED <<segment, pc, chunkOverlap>>
      BY <2>2
    <3>2. start' # 0 /\ start' + chunkOverlap = end
      BY <1>1, <2>1, <2>4, <3>1
    <3> QED BY <2>2, <2>4, <3>1, <3>2 DEF Cut, n
  <2> QED BY <2>1, <2>2, <2>14, <2>15, <2>16, TextOfEmpty DEF Gathered, SharesOverlap
<1>4. CASE Extend
  <2>1. /\ AtSegment /\ buffer' = buffer \o Segment /\ segment' = segment + 1
        /\ UNCHANGED <<input, page, start, chunks, chunkIndex, pc>>
        /\ Segment \in Seq(Token) /\ Len(Segment) \in Nat \ {0}
    BY <1>1, <1>4, SegmentSeq DEF Extend, AtSegment
  <2>2. TextOf(Segment) = SegmentText(page, segment)
    BY <1>1, <2>1, TextOfSegment DEF AtSegment
  <2>3. TextOf(buffer') = TextOf(buffer) \cup SegmentText(page, segment)
    BY <1>1, <2>1, <2>2, TextOfConcat
  <2>4. Read' = Read \cup SegmentText(page, segment)
    BY <1>1, <2>1, ReadSegment DEF AtSegment
  <2>5. Held' = Held /\ Held \subseteq Read
    BY <2>1 DEF Gathered, Held, ChunkText
  <2>6. SharesOverlap(buffer)'
    <3> SUFFICES ASSUME chunks # <<>>, NEW k \in 1 .. Len(buffer \o Segment),
                        (buffer \o Segment)[k] \in ChunkText(Len(chunks))
                 PROVE  k <= chunkOverlap
      BY <2>1 DEF SharesOverlap, ChunkText
    <3>1. CASE k <= Len(buffer)
      BY <1>1, <2>1, <3>1 DEF Gathered, SharesOverlap
    <3>2. CASE k > Len(buffer)
      <4>1. /\ k - Len(buffer) \in 1 .. Len(Segment)
            /\ (buffer \o Segment)[k] = Segment[k - Len(buffer)]
        BY <1>1, <2>1, <3>2
      <4>2. Segment[k - Len(buffer)] \in SegmentText(page, segment)
        BY <1>1, <2>1, <4>1, TextOfSegment DEF AtSegment
      <4>3. Len(chunks) \in 1 .. Len(chunks)
        BY <1>1
      <4>4. (buffer \o Segment)[k] \in Held
        BY <4>3 DEF Held
      <4> QED BY <1>1, <2>1, <2>5, <4>1, <4>2, <4>4, SegmentUnread
    <3> QED BY <1>1, <2>1, <3>1, <3>2
  <2>7. Fresh(buffer)'
    BY <1>1, <2>1, <2>3, <2>5, SegmentUnread DEF Fresh
  <2>8. OverlapBounded' /\ NothingRedundant'
    BY <2>1 DEF Gathered, OverlapBounded, NothingRedundant, ChunkText
  <2>9. Held' \cup TextOf(buffer') = Read'
    BY <2>3, <2>4, <2>5 DEF Gathered
  <2>10. pc' = "segment" /\ ~Done'
    BY <1>1, <2>1 DEF AtSegment, Done, TypeOK
  <2> QED BY <2>6, <2>7, <2>8, <2>9, <2>10 DEF Gathered
<1>5. CASE CloseAndRestart
  <2> DEFINE kept == LastTokens(buffer, chunkOverlap)
  <2>1. /\ AtSegment /\ buffer' = kept \o Separator \o Segment
        /\ segment' = segment + 1 /\ Emit(buffer) /\ buffer # <<>>
        /\ UNCHANGED <<input, page, start, pc>>
        /\ Segment \in Seq(Token) /\ Len(Segment) \in Nat \ {0}
    BY <1>1, <1>5, SegmentSeq DEF CloseAndRestart, Restart, AtSegment, Fits
  <2>2. TextOf(Segment) = SegmentText(page, segment)
    BY <1>1, <2>1, TextOfSegment DEF AtSegment
  <2>3. /\ kept \in Seq(Token) /\ Len(kept) <= chunkOverlap
        /\ TextOf(kept) \subseteq TextOf(buffer)
    BY <1>1, LastTokensSeq, TextOfLastTokens
  <2> HIDE DEF kept
  <2>4. TextOf(buffer') = TextOf(kept) \cup SegmentText(page, segment)
    <3>1. kept \o Separator \in Seq(Token) /\ TextOf(kept \o Separator) = TextOf(kept)
      <4>1. TextOf(kept \o Separator) = TextOf(kept) \cup TextOf(Separator)
        BY <1>1, <2>3, TextOfConcat
      <4> QED BY <1>1, <2>3, <4>1, TextOfSeparator, ConcatProperties
    <3> QED BY <2>1, <2>2, <3>1, TextOfConcat
  <2>5. Read' = Read \cup SegmentText(page, segment)
    BY <1>1, <2>1, ReadSegment DEF AtSegment
  <2>6. /\ Held' = Read /\ OverlapBounded' /\ NothingRedundant'
    BY <2>1, CloseBuffer
  <2>7. ChunkText(Len(chunks))' = TextOf(buffer)
    BY <1>1, <2>1, EmitText
  <2>8. SharesOverlap(buffer)'
    <3> SUFFICES ASSUME NEW k \in 1 .. Len(kept \o Separator \o Segment),
                        (kept \o Separator \o Segment)[k] \in TextOf(buffer)
                 PROVE  k <= chunkOverlap
      BY <2>1, <2>7 DEF SharesOverlap
    <3>1. CASE k <= Len(kept)
      BY <1>1, <2>3, <3>1
    <3>2. CASE k > Len(kept)
      <4> DEFINE rest == Separator \o Segment
                 j == k - Len(kept)
      <4>1. /\ rest \in Seq(Token) /\ kept \o Separator \o Segment = kept \o rest
        <5>1. rest \in Seq(Token)
          BY <1>1, <2>1, ConcatProperties
        <5>2. kept \o Separator \o Segment = kept \o rest
          <6>1. \A s, t, u \in Seq(Token) : (s \o t) \o u = s \o (t \o u)
            BY ConcatAssociative
          <6> QED BY <1>1, <2>1, <2>3, <6>1, ZenonT(30)
        <5> QED BY <5>1, <5>2
      <4>2. TextOf(rest) = SegmentText(page, segment)
        <5>1. TextOf(rest) = TextOf(Separator) \cup TextOf(Segment)
          BY <1>1, <2>1, TextOfConcat
        <5> QED BY <2>2, <5>1, TextOfSeparator
      <4> HIDE DEF rest
      <4>3. j \in 1 .. Len(rest) /\ (kept \o rest)[k] = rest[j]
        BY <2>3, <3>2, <4>1
      <4>4. rest[j] \in TextOf(buffer) /\ rest[j] # Sep
        BY <4>1, <4>3 DEF TextOf
      <4>5. rest[j] \in SegmentText(page, segment)
        BY <4>2, <4>3, <4>4 DEF TextOf
      <4> QED BY <1>1, <2>1, <4>4, <4>5, SegmentUnread DEF Gathered
    <3> QED BY <2>3, <3>1, <3>2
  <2>9. Fresh(buffer)'
    BY <1>1, <2>1, <2>4, <2>6, SegmentUnread DEF Fresh
  <2>10. Read' = Held' \cup TextOf(buffer')
    BY <2>3, <2>4, <2>5, <2>6 DEF Gathered
  <2> QED BY <2>1, <2>6, <2>8, <2>9, <2>10 DEF Gathered, AtSegment, Done
<1>6. CASE EndPage
  <2>1. /\ buffer' = <<>> /\ page' = page + 1 /\ segment' = 1
        /\ UNCHANGED <<input, start, pc>> /\ pc = "segment"
        /\ page <= Len(pages) /\ segment > Len(pages[page])
    BY <1>6 DEF EndPage
  <2>2. Held' = Read /\ OverlapBounded' /\ NothingRedundant'
    BY <1>6, <2>1, CloseBuffer DEF EndPage
  <2>3. Read' = Read
    <3>1. AllText' = AllText
      BY <2>1 DEF AllText, PageText, SegmentText
    <3>2. ASSUME NEW t \in AllText PROVE IsRead(t[1], t[2], t[3])' <=> IsRead(t[1], t[2], t[3])
      <4>1. PICK p \in 1 .. Len(pages) : \E s \in 1 .. Len(pages[p]) :
                   \E i \in 1 .. pages[p][s] : t = <<p, s, i>>
        BY <3>2, AllTextPlaces
      <4>2. PICK s \in 1 .. Len(pages[p]) : \E i \in 1 .. pages[p][s] : t = <<p, s, i>>
        BY <4>1
      <4>3. t[1] = p /\ t[2] = s
        BY <4>2
      <4>4. /\ p \in Nat /\ s \in Nat \ {0} /\ page \in Nat /\ segment \in Nat
            /\ s <= Len(pages[p]) /\ Len(pages[p]) \in Nat
        BY <1>1 DEF TypeOK
      <4>5. IsRead(p, s, t[3]) <=> p <= page
        BY <2>1, <4>4 DEF IsRead
      <4>6. IsRead(p, s, t[3])' <=> p <= page
        BY <2>1, <4>4 DEF IsRead
      <4> QED BY <4>3, <4>5, <4>6
    <3> QED BY <3>1, <3>2 DEF Read
  <2> QED BY <2>1, <2>2, <2>3, TextOfEmpty DEF Gathered, SharesOverlap
<1>7. CASE UNCHANGED vars
  BY <1>7 DEF vars, Gathered, Held, ChunkText, Read, IsRead, Cut, AllText, PageText,
              SegmentText, SharesOverlap, OverlapBounded, Fresh, NothingRedundant, Done
<1> QED BY <1>2, <1>3, <1>4, <1>5, <1>6, <1>7 DEF Next

LEMMA GatheredCorrect == Spec => []Gathered
<1>1. Packed /\ Gathered /\ [Next]_vars => Gathered'
  BY StepGathered
<1> QED BY PackedCorrect, InitGathered, <1>1, PTL DEF Spec

\* Embedding the chunks embeds the document: once every page is read, each token of it
\* that is more than white space is in the text of a chunk, and no other token.
THEOREM TextCoveredAlways == Spec => []TextCovered
<1>1. Packed /\ Gathered => TextCovered
  <2> DEFINE embedded == UNION {chunks[i].text : i \in 1 .. Len(chunks)}
  <2> SUFFICES ASSUME Packed, Gathered, Done
               PROVE  /\ {t \in AllText : Solid(t)} \subseteq embedded
                      /\ embedded \subseteq AllText \cup {Sep}
    BY DEF TextCovered
  <2>1. pages \in Seq(Seq(Nat \ {0})) /\ page = Len(pages) + 1
    BY ChunkerAssumption DEF Packed, TypeOK, Done
  <2>2. ASSUME NEW t \in AllText PROVE t \in Read
    <3>1. PICK p \in 1 .. Len(pages) : \E s \in 1 .. Len(pages[p]) :
                 \E i \in 1 .. pages[p][s] : t = <<p, s, i>>
      BY <2>2, AllTextPlaces
    <3>2. t[1] = p /\ p < page
      BY <2>1, <3>1
    <3> QED BY <2>2, <3>2 DEF Read, IsRead
  <2>3. Held = AllText
    BY <2>2, TextOfEmpty DEF Read, Gathered
  <2>4. \A i \in 1 .. Len(chunks) :
           chunks[i].tokens \in Seq(Token) /\ chunks[i].text = Stripped(chunks[i].tokens)
    <3>1. chunks \in Seq(Chunk)
      BY DEF Packed, TypeOK
    <3>2. \A i \in 1 .. Len(chunks) : chunks[i].tokens \in Seq(Token)
      <4>1. \A i \in 1 .. Len(chunks) : chunks[i] \in Chunk
        BY <3>1
      <4>2. \A c \in Chunk : c.tokens \in Seq(Token)
        BY DEF Chunk
      <4> QED BY <4>1, <4>2
    <3> QED BY <3>2 DEF Packed, TextStripped
  <2>5. ASSUME NEW t \in AllText, Solid(t) PROVE t \in embedded
    <3>1. PICK i \in 1 .. Len(chunks) : t \in TextOf(chunks[i].tokens)
      BY <2>3 DEF Held, ChunkText
    <3>2. PICK n \in 1 .. Len(chunks[i].tokens) : t = chunks[i].tokens[n]
      BY <3>1 DEF TextOf
    <3>3. t \in Stripped(chunks[i].tokens)
      BY <2>4, <2>5, <3>2, StrippedTokens
    <3> QED BY <2>4, <3>3
  <2>6. ASSUME NEW t \in embedded PROVE t \in AllText \cup {Sep}
    <3>1. PICK i \in 1 .. Len(chunks) : t \in chunks[i].text
      BY <2>6
    <3>2. \E n \in 1 .. Len(chunks[i].tokens) : t = chunks[i].tokens[n]
      BY <2>4, <3>1, StrippedTokens
    <3>3. t = Sep \/ t \in ChunkText(i)
      BY <3>2 DEF ChunkText, TextOf
    <3> QED BY <2>3, <3>3 DEF Held
  <2> QED BY <2>5, <2>6
<1> QED BY PackedCorrect, GatheredCorrect, <1>1, PTL

\* What two consecutive chunks share is never more than the configured overlap.
THEOREM OverlapBoundedAlways == Spec => []OverlapBounded
<1>1. Gathered => OverlapBounded
  BY DEF Gathered
<1> QED BY GatheredCorrect, <1>1, PTL

\* Every chunk brings text that no earlier one holds: a document never has more
\* chunks than tokens, whatever the overlap.
THEOREM NothingRedundantAlways == Spec => []NothingRedundant
<1>1. Gathered => NothingRedundant
  BY DEF Gathered
<1> QED BY GatheredCorrect, <1>1, PTL

=============================================================================
