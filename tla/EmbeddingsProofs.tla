-------------------------- MODULE EmbeddingsProofs --------------------------
(***************************************************************************)
(* Theorems about Embeddings, for any number of processes, models, queries *)
(* and ingests, and for every lifetime of the cache.                       *)
(***************************************************************************)
EXTENDS Embeddings, TLAPS

\* A call that is on its way runs in a process.
EmbeddingsTypeOK ==
    /\ now \in Nat /\ model \in [Process -> Model] /\ lastRun \in [Model -> 0 .. now]
    /\ cache \in [Text -> [of : Model \cup {None}, until : Nat]]
    /\ size \in Nat \cup {None} /\ points \subseteq Ingest /\ stored \subseteq Ingest
    /\ text \in [Ask -> Text]
    /\ pc \in [Call -> Over \cup {"get", "embed", "set", "search", "find", "ensure",
                                "create", "insert", "upsert", "commit"}]
    /\ at \in [Call -> Process \cup {None}] /\ made \in [Call -> Model \cup {None}]
    /\ readAt \in [Ask -> Nat]
    /\ \A c \in Call : pc[c] \notin Over => at[c] \in Process

\* What a process runs with runs now.  A cached embedding expires within TTL of its
\* model's last run; a query that has made one still runs in the process of that
\* model; and one that was given one was so before the embedding expired.
Dated ==
    /\ \A p \in Process : lastRun[model[p]] = now
    /\ \A x \in Text : cache[x].until > 0 =>
         /\ cache[x].of \in Model
         /\ cache[x].until <= lastRun[cache[x].of] + TTL
    /\ \A q \in Ask :
         /\ pc[q] = "set" => made[q] = Own(q)
         /\ pc[q] = "search" =>
              /\ made[q] \in Model
              /\ made[q] # Own(q) => readAt[q] < lastRun[made[q]] + TTL

\* An ingest that has text writes its points once, after it has made its vectors and
\* before it commits, and the collection keeps the size it was created with.
Sized ==
    /\ \A d \in points : /\ pc[d] \in {"commit", "completed", "failed"}
                         /\ made[d] \in Model /\ size = Size[made[d]]
    /\ \A d \in Ingest :
         /\ pc[d] \in {"ensure", "create", "insert", "upsert"} => made[d] \in Model
         /\ pc[d] = "commit" => content[d] \in Blank \/ d \in points
    /\ \A d \in stored : content[d] \in Blank \/ d \in points

Sound == EmbeddingsTypeOK /\ Dated /\ Sized

LEMMA InitSound == Init => Sound
<1> SUFFICES ASSUME Init PROVE Sound
  OBVIOUS
<1> USE EmbeddingsAssumption DEF Init
<1>1. EmbeddingsTypeOK
  BY DEF EmbeddingsTypeOK, Over, Call
<1>2. Dated
  BY DEF Dated, Call
<1>3. Sized
  BY DEF Sized, Call
<1> QED BY <1>1, <1>2, <1>3 DEF Sound

LEMMA QuerySound ==
    ASSUME Sound, NEW q \in Ask, QueryStep(q)
    PROVE  Sound'
<1> USE EmbeddingsAssumption DEF Sound
<1>0. q \in Call /\ q \notin Ingest
  BY DEF Call
<1>1. CASE Arrive(q, "get")
  <2>1. PICK p \in Process : at' = [at EXCEPT ![q] = p]
    BY <1>1 DEF Arrive
  <2>2. /\ pc[q] = "away" /\ pc' = [pc EXCEPT ![q] = "get"]
        /\ UNCHANGED <<servers, stores, text, content, made, readAt>>
    BY <1>1 DEF Arrive, Goto
  <2>3. EmbeddingsTypeOK'
    BY <1>0, <2>1, <2>2 DEF EmbeddingsTypeOK, servers, stores, Over
  <2>4. Dated'
    BY <1>0, <2>1, <2>2 DEF EmbeddingsTypeOK, Dated, Own, servers, stores, Call
  <2>5. Sized'
    BY <1>0, <2>1, <2>2 DEF EmbeddingsTypeOK, Sized, stores, Call
  <2> QED BY <2>3, <2>4, <2>5
<1>2. CASE GetCached(q)
  <2> DEFINE entry == cache[text[q]]
  <2>1. /\ pc[q] = "get" /\ readAt' = [readAt EXCEPT ![q] = now]
        /\ \/ /\ now < entry.until /\ made' = [made EXCEPT ![q] = entry.of]
              /\ pc' = [pc EXCEPT ![q] = "search"]
           \/ pc' = [pc EXCEPT ![q] = "embed"] /\ made' = made
        /\ UNCHANGED <<servers, stores, text, content, at>>
    BY <1>2 DEF GetCached, Goto
  <2>2. /\ text[q] \in Text /\ entry \in [of : Model \cup {None}, until : Nat]
        /\ now \in Nat
    BY DEF EmbeddingsTypeOK
  <2>3. EmbeddingsTypeOK'
    BY <1>0, <2>1, <2>2 DEF EmbeddingsTypeOK, servers, stores, Over
  <2>4. Dated'
    <3>1. now < entry.until => /\ entry.of \in Model
                              /\ entry.until <= lastRun[entry.of] + TTL
                              /\ lastRun[entry.of] \in Nat
      BY <2>2 DEF Dated, EmbeddingsTypeOK
    <3>2. now < entry.until => now < lastRun[entry.of] + TTL
      BY <2>2, <3>1
    <3> QED BY <1>0, <2>1, <2>2, <3>1, <3>2
            DEF EmbeddingsTypeOK, Dated, Own, servers, stores, Call
  <2>5. Sized'
    BY <1>0, <2>1 DEF EmbeddingsTypeOK, Sized, stores, Call
  <2> QED BY <2>3, <2>4, <2>5
<1>3. CASE EmbedQuery(q)
  <2>1. /\ pc[q] = "embed" /\ made' = [made EXCEPT ![q] = Own(q)]
        /\ pc' = [pc EXCEPT ![q] = "set"]
        /\ UNCHANGED <<servers, stores, text, content, at, readAt>>
    BY <1>3 DEF EmbedQuery, Goto
  <2>2. Own(q) \in Model
    BY <1>0, <2>1 DEF EmbeddingsTypeOK, Own, Over
  <2>3. EmbeddingsTypeOK'
    BY <1>0, <2>1, <2>2 DEF EmbeddingsTypeOK, servers, stores, Over
  <2>4. Dated'
    BY <1>0, <2>1, <2>2 DEF EmbeddingsTypeOK, Dated, Own, servers, stores, Call
  <2>5. Sized'
    BY <1>0, <2>1 DEF EmbeddingsTypeOK, Sized, stores, Call
  <2> QED BY <2>3, <2>4, <2>5
<1>4. CASE SetCached(q)
  <2>1. /\ pc[q] = "set" /\ pc' = [pc EXCEPT ![q] = "search"]
        /\ cache' = [cache EXCEPT ![text[q]] = [of |-> made[q], until |-> now + TTL]]
        /\ UNCHANGED <<servers, size, points, stored, text, content, at, made, readAt>>
    BY <1>4 DEF SetCached, Goto
  <2>2. /\ text[q] \in Text /\ now \in Nat /\ TTL \in Nat
        /\ made[q] \in Model /\ lastRun[made[q]] = now /\ made[q] = Own(q)
    BY <1>0, <2>1 DEF EmbeddingsTypeOK, Dated, Own, Over
  <2>3. EmbeddingsTypeOK'
    BY <1>0, <2>1, <2>2 DEF EmbeddingsTypeOK, servers, Over
  <2>4. Dated'
    BY <1>0, <2>1, <2>2 DEF EmbeddingsTypeOK, Dated, Own, servers, Call
  <2>5. Sized'
    BY <1>0, <2>1 DEF EmbeddingsTypeOK, Sized, Call
  <2> QED BY <2>3, <2>4, <2>5
<1>5. CASE Search(q) \/ FailQuery(q)
  <2>1. /\ pc' = [pc EXCEPT ![q] = "away"] /\ at' = [at EXCEPT ![q] = None]
        /\ made' = [made EXCEPT ![q] = None] /\ readAt' = [readAt EXCEPT ![q] = 0]
        /\ UNCHANGED <<servers, stores, text, content>>
    BY <1>5 DEF Search, FailQuery, Leave, Goto
  <2>3. EmbeddingsTypeOK'
    BY <1>0, <2>1 DEF EmbeddingsTypeOK, servers, stores, Over
  <2>4. Dated'
    BY <1>0, <2>1 DEF EmbeddingsTypeOK, Dated, Own, servers, stores, Call
  <2>5. Sized'
    BY <1>0, <2>1 DEF EmbeddingsTypeOK, Sized, stores, Call
  <2> QED BY <2>3, <2>4, <2>5
<1> QED BY <1>1, <1>2, <1>3, <1>4, <1>5 DEF QueryStep

\* An ingest leaves the queries, their cache and the servers alone.
LEMMA IngestDated ==
    ASSUME Sound, NEW d \in Ingest, IngestStep(d)
    PROVE  Dated'
<1> USE EmbeddingsAssumption
<1>1. /\ UNCHANGED <<servers, cache, text, readAt>>
      /\ \A q \in Ask : pc'[q] = pc[q] /\ at'[q] = at[q] /\ made'[q] = made[q]
  <2>1. \A q \in Ask : q # d /\ q \in Call
    BY DEF Call
  <2> QED BY <2>1 DEF IngestStep, Arrive, FindDuplicate, EmbedChunks, CheckCollection,
               CreateCollection, InsertDocument, Upsert, CommitDocument, FailIngest, End,
               Goto, stores, Sound, EmbeddingsTypeOK
<1> QED BY <1>1 DEF Sound, Dated, Own, servers

LEMMA IngestSound ==
    ASSUME Sound, NEW d \in Ingest, IngestStep(d)
    PROVE  Sound'
<1> USE EmbeddingsAssumption DEF Sound
<1>0. d \in Call /\ Dated'
  BY IngestDated DEF Call
<1>1. CASE Arrive(d, "find")
  <2>1. PICK p \in Process : at' = [at EXCEPT ![d] = p]
    BY <1>1 DEF Arrive
  <2>2. /\ pc[d] = "away" /\ pc' = [pc EXCEPT ![d] = "find"]
        /\ UNCHANGED <<servers, stores, text, content, made, readAt>>
    BY <1>1 DEF Arrive, Goto
  <2>3. EmbeddingsTypeOK'
    BY <1>0, <2>1, <2>2 DEF EmbeddingsTypeOK, servers, stores, Over
  <2>4. Sized'
    BY <1>0, <2>1, <2>2 DEF EmbeddingsTypeOK, Sized, stores, Call
  <2> QED BY <1>0, <2>3, <2>4
<1>2. CASE FindDuplicate(d) \/ CheckCollection(d) \/ InsertDocument(d) \/ FailIngest(d)
  <2>1. /\ pc[d] \notin Over
        /\ \/ /\ \E l \in {"duplicate_skipped", "failed"} : pc' = [pc EXCEPT ![d] = l]
              /\ at' = [at EXCEPT ![d] = None]
           \/ /\ \/ pc[d] = "find" /\ pc' = [pc EXCEPT ![d] = "embed"]
                 \/ /\ pc[d] \in {"ensure", "insert"}
                    /\ \E l \in {"create", "insert", "upsert"} : pc' = [pc EXCEPT ![d] = l]
              /\ at' = at
        /\ UNCHANGED <<servers, stores, text, content, made, readAt>>
    BY <1>2 DEF FindDuplicate, CheckCollection, InsertDocument, FailIngest, End, Goto, Over
  <2>2. EmbeddingsTypeOK'
    BY <1>0, <2>1 DEF EmbeddingsTypeOK, servers, stores, Over
  <2>3. \E l \in {"duplicate_skipped", "failed", "embed", "create", "insert", "upsert"} :
          /\ pc' = [pc EXCEPT ![d] = l]
          /\ l \in {"create", "insert", "upsert"} => pc[d] \in {"ensure", "insert"}
          /\ l # "failed" => pc[d] \notin {"commit", "completed", "failed"}
    <3>1. pc[d] # "completed" /\ pc[d] # "failed"
      BY <2>1 DEF Over
    <3> QED BY <1>2, <2>1, <3>1 DEF FindDuplicate, CheckCollection, InsertDocument,
                                  FailIngest, End, Goto
  <2>4. Sized'
    BY <1>0, <2>1, <2>3 DEF EmbeddingsTypeOK, Sized, stores, Call
  <2> QED BY <1>0, <2>2, <2>4
<1>3. CASE EmbedChunks(d)
  <2>1. /\ pc[d] = "embed" /\ made' = [made EXCEPT ![d] = Own(d)]
        /\ pc' = [pc EXCEPT ![d] = "ensure"]
        /\ UNCHANGED <<servers, stores, text, content, at, readAt>>
    BY <1>3 DEF EmbedChunks, Goto
  <2>2. Own(d) \in Model
    BY <1>0, <2>1 DEF EmbeddingsTypeOK, Own, Over
  <2>3. EmbeddingsTypeOK'
    BY <1>0, <2>1, <2>2 DEF EmbeddingsTypeOK, servers, stores, Over
  <2>4. Sized'
    BY <1>0, <2>1, <2>2 DEF EmbeddingsTypeOK, Sized, stores, Call
  <2> QED BY <1>0, <2>3, <2>4
<1>4. CASE CreateCollection(d)
  <2>1. /\ pc[d] = "create"
        /\ \/ size = None /\ size' = Size[Own(d)] /\ pc' = [pc EXCEPT ![d] = "insert"]
              /\ UNCHANGED at
           \/ /\ pc' = [pc EXCEPT ![d] = "failed"] /\ at' = [at EXCEPT ![d] = None]
              /\ UNCHANGED size
        /\ UNCHANGED <<servers, cache, points, stored, text, content, made, readAt>>
    BY <1>4 DEF CreateCollection, End, Goto
  <2>2. Own(d) \in Model
    BY <1>0, <2>1 DEF EmbeddingsTypeOK, Own, Over
  <2>3. EmbeddingsTypeOK'
    BY <1>0, <2>1, <2>2 DEF EmbeddingsTypeOK, servers, Over
  <2>4. size = None => points = {}
    BY DEF Sized, EmbeddingsTypeOK
  <2>5. Sized'
    BY <1>0, <2>1, <2>4 DEF EmbeddingsTypeOK, Sized, Call
  <2> QED BY <1>0, <2>3, <2>5
<1>5. CASE Upsert(d)
  <2>1. /\ pc[d] = "upsert"
        /\ \/ /\ size = Size[made[d]] /\ points' = points \cup {d}
              /\ pc' = [pc EXCEPT ![d] = "commit"] /\ UNCHANGED at
           \/ /\ content[d] \in Blank /\ pc' = [pc EXCEPT ![d] = "commit"]
              /\ UNCHANGED <<at, points>>
           \/ /\ pc' = [pc EXCEPT ![d] = "failed"] /\ at' = [at EXCEPT ![d] = None]
              /\ UNCHANGED points
        /\ UNCHANGED <<servers, cache, size, stored, text, content, made, readAt>>
    BY <1>5 DEF Upsert, End, Goto
  <2>2. EmbeddingsTypeOK'
    BY <1>0, <2>1 DEF EmbeddingsTypeOK, servers, Over
  <2>3. Sized'
    BY <1>0, <2>1 DEF EmbeddingsTypeOK, Sized, Call
  <2> QED BY <1>0, <2>2, <2>3
<1>6. CASE CommitDocument(d)
  <2>1. /\ pc[d] = "commit" /\ stored' = stored \cup {d}
        /\ pc' = [pc EXCEPT ![d] = "completed"] /\ at' = [at EXCEPT ![d] = None]
        /\ UNCHANGED <<servers, cache, size, points, text, content, made, readAt>>
    BY <1>6 DEF CommitDocument, End, Goto
  <2>2. EmbeddingsTypeOK'
    BY <1>0, <2>1 DEF EmbeddingsTypeOK, servers, Over
  <2>3. Sized'
    BY <1>0, <2>1 DEF EmbeddingsTypeOK, Sized, Call
  <2> QED BY <1>0, <2>2, <2>3
<1> QED BY <1>1, <1>2, <1>3, <1>4, <1>5, <1>6 DEF IngestStep

LEMMA ServersSound ==
    ASSUME Sound, Tick \/ \E p \in Process, m \in Model : Restart(p, m)
    PROVE  Sound'
<1> USE EmbeddingsAssumption DEF Sound
<1>1. UNCHANGED <<stores, calls>>
  BY DEF Tick, Restart
<1>2. CASE Tick
  <2>1. /\ now' = now + 1 /\ model' = model
        /\ lastRun' = [m \in Model |-> IF m \in Range(model) THEN now + 1 ELSE lastRun[m]]
    BY <1>2 DEF Tick
  <2>2. \A p \in Process : model[p] \in Range(model)
    BY DEF Range, EmbeddingsTypeOK
  <2>3. \A m \in Model : lastRun'[m] \in 0 .. now' /\ lastRun[m] <= lastRun'[m]
    BY <2>1 DEF EmbeddingsTypeOK
  <2>4. EmbeddingsTypeOK'
    BY <1>1, <2>1, <2>3 DEF EmbeddingsTypeOK, stores, calls
  <2>5. Dated'
    BY <1>1, <2>1, <2>2, <2>3 DEF EmbeddingsTypeOK, Dated, Own, stores, calls
  <2>6. Sized'
    BY <1>1 DEF Sized, stores, calls
  <2> QED BY <2>4, <2>5, <2>6
<1>3. ASSUME NEW p \in Process, NEW m \in Model, Restart(p, m) PROVE Sound'
  <2>1. /\ model' = [model EXCEPT ![p] = m] /\ lastRun' = [lastRun EXCEPT ![m] = now]
        /\ now' = now /\ \A c \in Call : at[c] # p
    BY <1>3 DEF Restart
  <2>2. \A n \in Model : lastRun'[n] \in 0 .. now /\ lastRun[n] <= lastRun'[n]
    BY <2>1 DEF EmbeddingsTypeOK
  <2>3. \A q \in Ask : pc[q] \in {"set", "search"} => Own(q)' = Own(q)
    BY <1>1, <2>1 DEF EmbeddingsTypeOK, Own, Call, Over, calls
  <2>4. EmbeddingsTypeOK'
    BY <1>1, <2>1, <2>2 DEF EmbeddingsTypeOK, stores, calls
  <2>5. Dated'
    BY <1>1, <2>1, <2>2, <2>3 DEF EmbeddingsTypeOK, Dated, stores, calls
  <2>6. Sized'
    BY <1>1 DEF Sized, stores, calls
  <2> QED BY <2>4, <2>5, <2>6
<1> QED BY <1>2, <1>3

LEMMA SoundAlways == Spec => []Sound
<1>1. Sound /\ UNCHANGED vars => Sound'
  BY DEF Sound, EmbeddingsTypeOK, Dated, Sized, Own, vars, servers, stores, calls
<1>2. Sound /\ [Next]_vars => Sound'
  BY <1>1, QuerySound, IngestSound, ServersSound DEF Next
<1> QED BY InitSound, <1>2, PTL DEF Spec

\* Every variable of Embeddings keeps its type, and every call on its way runs in a
\* process.
THEOREM EmbeddingsTypeCorrect == Spec => []EmbeddingsTypeOK
<1>1. Sound => EmbeddingsTypeOK
  BY DEF Sound
<1> QED BY SoundAlways, <1>1, PTL

\* Old embeddings die out: whatever processes are restarted with, and however often
\* a text is asked, a query uses the vector of another model only within TTL of the
\* last moment a process ran with that model.
THEOREM StaleBoundedAlways == Spec => []StaleBounded
<1>1. Sound => StaleBounded
  BY DEF Sound, Dated, StaleBounded
<1> QED BY SoundAlways, <1>1, PTL

\* A committed document that has text stays indexed, its vectors of the collection's
\* size, whatever the processes have been restarted with since.
THEOREM StoredIndexedAlways == Spec => []StoredIndexed
<1>1. Sound => StoredIndexed
  BY DEF Sound, Sized, StoredIndexed
<1> QED BY SoundAlways, <1>1, PTL

=============================================================================
