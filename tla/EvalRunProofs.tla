--------------------------- MODULE EvalRunProofs ---------------------------
(***************************************************************************)
(* Evaluation runs: types with the accounting of the semaphore, whole      *)
(* runs, connections that outlive a request, and agreeing reports.         *)
(***************************************************************************)
EXTENDS EvalRun, FiniteSetTheorems, TLAPS

\* A permit is either left or held by a sample in work.
Accounted == \A r \in Run : permits[r] + Cardinality(Busy(r)) = Permits

\* Tasks are those of the dataset, and start when the handler gathers them.
Started ==
    \A r \in Run, s \in Sample :
        s \notin dataset[r] \/ pc[r] \in {"arrived", "authorized", "flushed", "denied"}
            => task[r][s] = "none"

\* A report that has begun is about some run.
Aimed == \A p \in Reader : reading[p] # "arrived" => of[p] \in Run

Typed == TypeOK /\ Accounted /\ Started /\ Aimed

\* The samples in work are finite in number, and one more or one less of them is
\* counted as such.
LEMMA BusyCount ==
    ASSUME TypeOK, NEW r \in Run, NEW s \in Sample
    PROVE  /\ Cardinality(Busy(r)) \in Nat
           /\ s \notin Busy(r) => Cardinality(Busy(r) \cup {s}) = Cardinality(Busy(r)) + 1
           /\ s \in Busy(r) => /\ Cardinality(Busy(r) \ {s}) = Cardinality(Busy(r)) - 1
                               /\ Cardinality(Busy(r)) > 0
<1>1. IsFiniteSet(Busy(r))
  BY EvalAssumption, FS_Subset DEF Busy
<1>2. Cardinality(Busy(r)) \in Nat
  BY <1>1, FS_CardinalityType
<1>3. s \in Busy(r) => Cardinality(Busy(r)) # 0
  BY <1>1, FS_EmptySet
<1>4. s \notin Busy(r) => Cardinality(Busy(r) \cup {s}) = Cardinality(Busy(r)) + 1
  BY <1>1, FS_AddElement
<1>5. s \in Busy(r) => Cardinality(Busy(r) \ {s}) = Cardinality(Busy(r)) - 1
  BY <1>1, FS_RemoveElement
<1> QED BY <1>2, <1>3, <1>4, <1>5

\* Steps of the handler before and after its tasks run.
LEMMA HandlerTyped ==
    ASSUME Typed, NEW r \in Run,
           \/ Authorize(r) \/ FlushRun(r) \/ Gather(r) \/ Complete(r) \/ CommitRun(r)
           \/ PoolTimeout(r) \/ FailRun(r) \/ Collect(r)
    PROVE  Typed'
<1> USE EvalAssumption DEF Typed, Ended, TaskEnded, handler, database, events, reports, Goto
<1>1. TypeOK'
  <2> USE DEF TypeOK, Time, Stamped
  <2>1. CASE Authorize(r)
    BY <2>1 DEF Authorize
  <2>2. CASE FlushRun(r)
    BY <2>2 DEF FlushRun
  <2>3. CASE Gather(r)
    BY <2>3 DEF Gather
  <2>4. CASE Complete(r)
    BY <2>4 DEF Complete
  <2>5. CASE CommitRun(r)
    BY <2>5 DEF CommitRun
  <2>6. CASE PoolTimeout(r)
    BY <2>6 DEF PoolTimeout
  <2>7. CASE FailRun(r)
    BY <2>7 DEF FailRun, Close
  <2>8. CASE Collect(r)
    BY <2>8 DEF Collect
  <2> QED BY <2>1, <2>2, <2>3, <2>4, <2>5, <2>6, <2>7, <2>8
<1>2. UNCHANGED <<dataset, permits>>
  BY DEF Authorize, FlushRun, Gather, Complete, CommitRun, PoolTimeout, FailRun, Collect
<1>5. Aimed'
  BY DEF Aimed, Authorize, FlushRun, Gather, Complete, CommitRun, PoolTimeout, FailRun,
         Collect
<1>3. CASE Gather(r)
  <2>1. /\ pc[r] = "flushed" /\ \A q \in Run : pc'[q] = IF q = r THEN "gathering" ELSE pc[q]
        /\ \A q \in Run, s \in Sample :
             task'[q][s] = IF q = r THEN IF s \in dataset[r] THEN "waiting" ELSE "none"
                           ELSE task[q][s]
    BY <1>3 DEF Gather, TypeOK
  <2>2. Started'
    BY <2>1, <1>2 DEF Started
  <2>3. \A q \in Run : Busy(q)' = Busy(q)
    BY <2>1 DEF Busy, Started
  <2> QED BY <1>1, <1>2, <1>5, <2>2, <2>3 DEF Accounted
<1>4. CASE ~Gather(r)
  <2>1. UNCHANGED task /\ \A q \in Run :
          pc'[q] \in {"arrived", "authorized", "flushed", "denied"}
            => pc[q] \in {"arrived", "authorized", "flushed"} \/ pc'[q] = pc[q]
    BY <1>4 DEF Authorize, FlushRun, Complete, CommitRun, PoolTimeout, FailRun, Collect,
                Close, TypeOK
  <2>2. Started'
    BY <2>1, <1>2 DEF Started
  <2>3. \A q \in Run : Busy(q)' = Busy(q)
    BY <2>1 DEF Busy
  <2> QED BY <1>1, <1>2, <1>5, <2>2, <2>3 DEF Accounted
<1> QED BY <1>3, <1>4

\* Steps of a task: a permit changes hands whenever a sample enters or leaves work.
LEMMA TaskTyped ==
    ASSUME Typed, NEW r \in Run, NEW s \in Sample, TaskStep(r, s) \/ FailSample(r, s)
    PROVE  Typed'
<1> USE EvalAssumption DEF Typed, TypeOK, TaskEnded, Advance
<1>1. /\ task' \in [Run -> [Sample -> TaskEnded \cup {"waiting", "searching", "generating"}]]
      /\ \A q \in Run, t \in Sample : q # r \/ t # s => task'[q][t] = task[q][t]
      /\ task[r][s] # "none" /\ conn' \subseteq Run
      /\ UNCHANGED <<pc, dataset, database, events, now, reports>>
  <2>1. CASE Acquire(r, s)
    BY <2>1 DEF Acquire
  <2>2. CASE SearchTables(r, s)
    BY <2>2 DEF SearchTables
  <2>3. CASE FinishSample(r, s)
    BY <2>3 DEF FinishSample
  <2>4. CASE FailSample(r, s)
    BY <2>4 DEF FailSample
  <2> QED BY <2>1, <2>2, <2>3, <2>4 DEF TaskStep
<1>2. Started'
  <2> SUFFICES ASSUME NEW q \in Run, NEW t \in Sample,
                      t \notin dataset[q]
                        \/ pc[q] \in {"arrived", "authorized", "flushed", "denied"}
               PROVE  task'[q][t] = "none"
    BY <1>1 DEF Started
  <2>1. task[q][t] = "none"
    BY DEF Started
  <2> QED BY <1>1, <2>1
<1>3. \A q \in Run : q # r => Busy(q)' = Busy(q)
  BY <1>1 DEF Busy
<1>4. permits' \in [Run -> 0 .. Permits] /\ Accounted'
  <2> DEFINE n == Cardinality(Busy(r))
  <2>1. n \in Nat /\ permits[r] \in 0 .. Permits /\ permits[r] + n = Permits
    BY BusyCount DEF Accounted
  <2>2. ASSUME permits'[r] + Cardinality(Busy(r))' = Permits,
               \A q \in Run : q # r => permits'[q] = permits[q]
        PROVE  Accounted'
    BY <2>2, <1>3 DEF Accounted
  <2>3. CASE Acquire(r, s)
    <3>1. s \notin Busy(r) /\ Busy(r)' = Busy(r) \cup {s}
      BY <2>3, <1>1 DEF Acquire, Busy
    <3>2. Cardinality(Busy(r))' = n + 1
      BY <3>1, BusyCount
    <3>3. permits' = [permits EXCEPT ![r] = @ - 1] /\ permits[r] > 0
      BY <2>3 DEF Acquire
    <3>4. permits' \in [Run -> 0 .. Permits] /\ permits'[r] = permits[r] - 1
      BY <2>1, <3>3
    <3>5. permits'[r] + Cardinality(Busy(r))' = Permits
      BY <2>1, <3>2, <3>4
    <3>6. \A q \in Run : q # r => permits'[q] = permits[q]
      BY <3>3
    <3> QED BY <2>2, <3>4, <3>5, <3>6
  <2>4. CASE SearchTables(r, s)
    <3>1. Busy(r)' = Busy(r) /\ UNCHANGED permits
      BY <2>4, <1>1 DEF SearchTables, Busy
    <3> QED BY <3>1, <1>3 DEF Accounted
  <2>5. CASE FinishSample(r, s) \/ FailSample(r, s)
    <3>1. s \in Busy(r) /\ Busy(r)' = Busy(r) \ {s}
      BY <2>5, <1>1 DEF FinishSample, FailSample, Busy
    <3>2. Cardinality(Busy(r))' = n - 1 /\ n > 0
      BY <3>1, BusyCount
    <3>3. permits' = [permits EXCEPT ![r] = @ + 1]
      BY <2>5 DEF FinishSample, FailSample, Release
    <3>4. permits' \in [Run -> 0 .. Permits] /\ permits'[r] = permits[r] + 1
      BY <2>1, <3>2, <3>3
    <3> QED BY <2>1, <3>2, <3>3, <3>4, <2>2
  <2> QED BY <2>3, <2>4, <2>5 DEF TaskStep
<1> QED BY <1>1, <1>2, <1>4 DEF Aimed, Time, Ended, database, events, reports

\* Steps of other requests.
LEMMA OthersTyped ==
    ASSUME Typed,
           \/ \E e \in Event : Record(e) \/ CommitEvent(e)
           \/ \E p \in Reader : ReportStep(p)
           \/ UNCHANGED vars
    PROVE  Typed'
<1> USE DEF Typed
<1>0. Aimed'
  BY DEF Aimed, TypeOK, Record, CommitEvent, ReportStep, FindRun, ReadResults, ReadGuardrails,
         ReadCosts, On, vars, reports
<1>1. UNCHANGED <<pc, dataset, task, permits, conn, database>>
  BY DEF Record, CommitEvent, ReportStep, FindRun, ReadResults, ReadGuardrails, ReadCosts,
         vars, handler
<1>2. Accounted' /\ Started'
  BY <1>1 DEF Accounted, Started, Busy
<1>3. TypeOK'
  <2> USE <1>1 DEF TypeOK, Time, Ended, TaskEnded, database, events, reports, On
  <2>1. ASSUME NEW e \in Event, Record(e) PROVE TypeOK'
    BY <2>1 DEF Record, Stamped
  <2>2. ASSUME NEW e \in Event, CommitEvent(e) PROVE TypeOK'
    BY <2>2 DEF CommitEvent
  <2>3. ASSUME NEW p \in Reader, NEW r \in Run, FindRun(p, r) PROVE TypeOK'
    <3>1. reading' \in [Reader -> {"arrived", "found", "results", "guardrails", "reported",
                                  "not_found", "denied"}]
      BY <2>3 DEF FindRun
    <3>2. /\ of' \in [Reader -> Run \cup {Null}]
          /\ earlier' \in [Reader -> SUBSET Reader] /\ flying' \in [Reader -> SUBSET Event]
      BY <2>3 DEF FindRun
    <3> QED BY <2>3, <3>1, <3>2 DEF FindRun
  <2>4. ASSUME NEW p \in Reader, ReadResults(p) PROVE TypeOK'
    <3>1. questions' \in [Reader -> SUBSET Sample]
      BY <2>4 DEF ReadResults
    <3>2. end' \in [Reader -> Time]
      <4>1. of[p] \in Run
        BY <2>4 DEF ReadResults, Aimed
      <4> QED BY <2>4, <4>1 DEF ReadResults
    <3> QED BY <2>4, <3>1, <3>2 DEF ReadResults
  <2>5. ASSUME NEW p \in Reader, ReadGuardrails(p) PROVE TypeOK'
    BY <2>5 DEF ReadGuardrails, InWindow
  <2>6. ASSUME NEW p \in Reader, ReadCosts(p) PROVE TypeOK'
    BY <2>6 DEF ReadCosts, InWindow
  <2>7. CASE UNCHANGED vars
    BY <2>7 DEF vars
  <2> QED BY <2>1, <2>2, <2>3, <2>4, <2>5, <2>6, <2>7 DEF ReportStep
<1> QED BY <1>0, <1>2, <1>3

LEMMA InitTyped == Init => Typed
<1> SUFFICES ASSUME Init PROVE Typed
  OBVIOUS
<1> USE EvalAssumption DEF Init, Ended, TaskEnded, Time
<1>1. TypeOK
  BY DEF TypeOK
<1>2. \A r \in Run : Busy(r) = {}
  BY DEF Busy
<1>3. Accounted
  <2> SUFFICES ASSUME NEW r \in Run PROVE permits[r] + Cardinality(Busy(r)) = Permits
    BY DEF Accounted
  <2>1. Cardinality(Busy(r)) = 0
    BY <1>2, FS_EmptySet
  <2> QED BY <2>1
<1> QED BY <1>1, <1>3 DEF Typed, Started, Aimed

LEMMA TypedStep == Typed /\ [Next]_vars => Typed'
<1> SUFFICES ASSUME Typed, [Next]_vars PROVE Typed'
  OBVIOUS
<1>1. CASE \E r \in Run : RunStep(r) \/ FailRun(r) \/ Collect(r)
  BY <1>1, HandlerTyped DEF RunStep
<1>2. CASE \E r \in Run, s \in Sample : TaskStep(r, s) \/ FailSample(r, s)
  BY <1>2, TaskTyped
<1>3. CASE ~(\E r \in Run : RunStep(r) \/ FailRun(r) \/ Collect(r))
           /\ ~(\E r \in Run, s \in Sample : TaskStep(r, s) \/ FailSample(r, s))
  BY <1>3, OthersTyped DEF Next, AllQuiet
<1> QED BY <1>1, <1>2, <1>3

\* The type invariant; that permits never leave their range rests on their being
\* accounted for.
THEOREM TypeCorrect == Spec => []TypeOK
<1>1. Spec => []Typed
  BY InitTyped, TypedStep, PTL DEF Spec
<1>2. Typed => TypeOK
  BY DEF Typed
<1> QED BY <1>1, <1>2, PTL

\* The semaphore bounds the samples in work, also after the run has failed.
THEOREM LoadIsBounded == Spec => []LoadBounded
<1>1. Spec => []Typed
  BY InitTyped, TypedStep, PTL DEF Spec
<1>2. Typed => LoadBounded
  <2> SUFFICES ASSUME Typed, NEW r \in Run PROVE Cardinality(Busy(r)) <= Permits
    BY DEF LoadBounded
  <2>1. IsFiniteSet(Busy(r))
    BY EvalAssumption, FS_Subset DEF Busy
  <2> QED BY <2>1, FS_CardinalityType, EvalAssumption DEF Typed, TypeOK, Accounted
<1> QED BY <1>1, <1>2, PTL

-----------------------------------------------------------------------------
\* How the commit of a run is prepared, and what it did.
Whole ==
    /\ RunsWhole
    /\ \A r \in Run :
         /\ r \in committed => pc[r] \in {"completed", "failed"}
         /\ pc[r] = "committing" => completedAt[r] # Null

\* What the tasks of a run are at when its handler is elsewhere: none is in work when
\* all were waited for, and some are after a failure only because one failed.
ScatteredAt(r) ==
    /\ pc[r] \in {"committing", "completed"}
         => \A s \in Sample : task[r][s] \in {"none", "done"}
    /\ pc[r] = "failed" =>
         \/ \A s \in Sample : task[r][s] \in {"none", "done"}
         \/ \E s \in Sample : task[r][s] = "failed"
    /\ pc[r] = "arrived" => r \notin conn
Scattered == \A r \in Run : ScatteredAt(r)

LEMMA WholeStep ==
    ASSUME Typed, Whole, [Next]_vars
    PROVE  Whole'
<1> USE DEF Typed, TypeOK, Whole, RunsWhole, handler, database, Goto
<1>1. ASSUME NEW r \in Run, Authorize(r) \/ FlushRun(r) \/ Gather(r) \/ PoolTimeout(r)
                            \/ FailRun(r) \/ Collect(r)
      PROVE  Whole'
  <2>1. UNCHANGED <<committed, completedAt, results, dataset>>
    BY <1>1 DEF Authorize, FlushRun, Gather, PoolTimeout, FailRun, Collect
  <2>2. \A q \in Run : q # r => pc'[q] = pc[q]
    BY <1>1 DEF Authorize, FlushRun, Gather, PoolTimeout, FailRun, Collect, Close
  <2>3. \/ pc'[r] = pc[r]
        \/ pc[r] \notin {"completed", "failed"} /\ pc'[r] \notin {"committing", "completed"}
    <3>1. CASE Collect(r)
      <4>1. pc' = pc
        BY <3>1 DEF Collect
      <4> QED BY <4>1
    <3>2. CASE FailRun(r)
      BY <3>2 DEF FailRun, Close
    <3>3. CASE Authorize(r) \/ FlushRun(r) \/ Gather(r) \/ PoolTimeout(r)
      BY <3>3 DEF Authorize, FlushRun, Gather, PoolTimeout
    <3> QED BY <1>1, <3>1, <3>2, <3>3
  <2> QED BY <2>1, <2>2, <2>3
<1>2. ASSUME NEW r \in Run, Complete(r) PROVE Whole'
  <2>1. /\ UNCHANGED <<committed, results, dataset>> /\ pc[r] = "gathering"
        /\ \A q \in Run : pc'[q] = IF q = r THEN "committing" ELSE pc[q]
        /\ \A q \in Run : completedAt'[q] = IF q = r THEN now ELSE completedAt[q]
    BY <1>2 DEF Complete, Stamped, Time
  <2>2. now # Null
    BY EvalAssumption
  <2> QED BY <2>1, <2>2
<1>3. ASSUME NEW r \in Run, CommitRun(r) PROVE Whole'
  <2>1. /\ UNCHANGED <<completedAt, dataset>> /\ pc[r] = "committing"
        /\ \A q \in Run : q # r => pc'[q] = pc[q]
        /\ pc'[r] \in {"completed", "failed"}
        /\ committed' = committed \cup {r}
    BY <1>3 DEF CommitRun
  <2>2. \A q \in Run : {s \in Sample : <<q, s>> \in results'} =
                       IF q \in committed' THEN dataset[q] ELSE {}
    <3>1. results' = results \cup {r} \X dataset[r] /\ dataset[r] \subseteq Sample
      BY <1>3, EvalAssumption DEF CommitRun
    <3>2. {s \in Sample : <<r, s>> \in results} = {}
      BY <2>1
    <3> QED BY <2>1, <3>1, <3>2
  <2> QED BY <2>1, <2>2
<1>4. ASSUME NEW r \in Run, NEW s \in Sample, TaskStep(r, s) \/ FailSample(r, s)
      PROVE  Whole'
  BY <1>4 DEF TaskStep, Acquire, SearchTables, FinishSample, FailSample
<1>5. CASE \/ \E e \in Event : Record(e) \/ CommitEvent(e)
           \/ \E p \in Reader : ReportStep(p)
           \/ UNCHANGED vars
  BY <1>5 DEF Record, CommitEvent, ReportStep, FindRun, ReadResults, ReadGuardrails,
              ReadCosts, vars
<1> QED BY <1>1, <1>2, <1>3, <1>4, <1>5 DEF Next, RunStep, AllQuiet

LEMMA InitWhole == Init => Whole
BY DEF Init, Whole, RunsWhole

\* Runs are seen whole or not at all.
THEOREM RunsAreWhole == Spec => []RunsWhole
<1>1. Init => Typed /\ Whole
  BY InitTyped, InitWhole
<1>2. Typed /\ Whole /\ [Next]_vars => (Typed /\ Whole)'
  BY TypedStep, WholeStep
<1>3. Whole => RunsWhole
  BY DEF Whole
<1> QED BY <1>1, <1>2, <1>3, PTL DEF Spec

\* A step of one run does not scatter the tasks of another.
LEMMA ScatteredElsewhere ==
    ASSUME Scattered, NEW r \in Run, ScatteredAt(r)',
           \A q \in Run \ {r} : /\ pc'[q] = pc[q] /\ task'[q] = task[q]
                                /\ q \in conn' => q \in conn
    PROVE  Scattered'
BY DEF Scattered, ScatteredAt

LEMMA ScatteredStep ==
    ASSUME Typed, Scattered, [Next]_vars
    PROVE  Scattered'
<1> USE DEF Typed, TypeOK, handler, Goto
<1>1. ASSUME NEW r \in Run, Authorize(r) \/ PoolTimeout(r) PROVE Scattered'
  <2>1. /\ UNCHANGED task /\ pc[r] = "arrived" /\ pc'[r] \in {"authorized", "denied", "failed"}
        /\ \A q \in Run \ {r} : pc'[q] = pc[q] /\ (q \in conn' => q \in conn)
    BY <1>1 DEF Authorize, PoolTimeout
  <2>2. \A s \in Sample : task[r][s] = "none"
    BY <2>1 DEF Started
  <2>3. ScatteredAt(r)'
    BY <2>1, <2>2 DEF ScatteredAt
  <2> QED BY <2>1, <2>3, ScatteredElsewhere
<1>2. ASSUME NEW r \in Run, FlushRun(r) \/ Gather(r) PROVE Scattered'
  <2>1. /\ UNCHANGED conn /\ pc'[r] \in {"flushed", "gathering"}
        /\ \A q \in Run \ {r} : pc'[q] = pc[q] /\ task'[q] = task[q]
    BY <1>2 DEF FlushRun, Gather
  <2>2. ScatteredAt(r)'
    BY <2>1 DEF ScatteredAt
  <2> QED BY <2>1, <2>2, ScatteredElsewhere
<1>3. ASSUME NEW r \in Run, Complete(r) PROVE Scattered'
  <2>1. /\ UNCHANGED <<conn, task>> /\ pc'[r] = "committing"
        /\ \A s \in dataset[r] : task[r][s] = "done"
        /\ \A q \in Run \ {r} : pc'[q] = pc[q]
    BY <1>3 DEF Complete
  <2>2. \A s \in Sample : task[r][s] \in {"none", "done"}
    BY <2>1 DEF Started
  <2>3. ScatteredAt(r)'
    BY <2>1, <2>2 DEF ScatteredAt
  <2> QED BY <2>1, <2>3, ScatteredElsewhere
<1>4. ASSUME NEW r \in Run, CommitRun(r) \/ FailRun(r) PROVE Scattered'
  <2>1. /\ UNCHANGED task /\ conn' \subseteq conn /\ pc'[r] \in {"completed", "failed"}
        /\ \A q \in Run \ {r} : pc'[q] = pc[q]
    BY <1>4 DEF CommitRun, FailRun, Close
  <2>2. \/ \A s \in Sample : task[r][s] \in {"none", "done"}
        \/ pc'[r] = "failed" /\ \E s \in Sample : task[r][s] = "failed"
    BY <1>4 DEF CommitRun, FailRun, Close, Started, Scattered, ScatteredAt
  <2>3. ScatteredAt(r)'
    BY <2>1, <2>2 DEF ScatteredAt
  <2> QED BY <2>1, <2>3, ScatteredElsewhere
<1>5. ASSUME NEW r \in Run, Collect(r) PROVE Scattered'
  BY <1>5 DEF Collect, Scattered, ScatteredAt
<1>6. ASSUME NEW r \in Run, NEW s \in Sample, TaskStep(r, s) \/ FailSample(r, s)
      PROVE  Scattered'
  <2>1. /\ UNCHANGED pc /\ task[r][s] \in {"waiting", "searching", "generating"}
        /\ \A t \in Sample : t # s => task'[r][t] = task[r][t]
        /\ \A q \in Run \ {r} : task'[q] = task[q] /\ (q \in conn' => q \in conn)
    BY <1>6 DEF TaskStep, Acquire, SearchTables, FinishSample, FailSample, Advance
  <2>2. pc[r] \notin {"arrived", "committing", "completed"}
    BY <2>1 DEF Started, Scattered, ScatteredAt
  <2>3. pc[r] = "failed" => \E t \in Sample : t # s /\ task[r][t] = "failed"
    BY <2>1 DEF Scattered, ScatteredAt
  <2>4. ScatteredAt(r)'
    BY <2>1, <2>2, <2>3 DEF ScatteredAt
  <2> QED BY <2>1, <2>4, ScatteredElsewhere
<1>7. CASE \/ \E e \in Event : Record(e) \/ CommitEvent(e)
           \/ \E p \in Reader : ReportStep(p)
           \/ UNCHANGED vars
  BY <1>7 DEF Record, CommitEvent, ReportStep, FindRun, ReadResults, ReadGuardrails,
              ReadCosts, vars, Scattered, ScatteredAt
<1> QED BY <1>1, <1>2, <1>3, <1>4, <1>5, <1>6, <1>7 DEF Next, RunStep, AllQuiet

\* Why the session of an ended request has a connection.
StrayAt(r) ==
    /\ pc[r] = "failed"
    /\ \E s, t \in Sample : s # t /\ task[r][s] = "failed"
                         /\ task[r][t] \in {"generating", "done", "failed"}

\* Nor does it give its session a connection.
LEMMA StraysElsewhere ==
    ASSUME StraysExplained, NEW r \in Run, (r \in conn /\ pc[r] \in Ended => StrayAt(r))',
           conn' \subseteq Run,
           \A q \in Run \ {r} : /\ pc'[q] = pc[q] /\ task'[q] = task[q]
                                /\ q \in conn' => q \in conn
    PROVE  StraysExplained'
BY DEF StraysExplained, StrayAt

LEMMA StraysStep ==
    ASSUME Typed, Scattered, StraysExplained, [Next]_vars
    PROVE  StraysExplained'
<1> USE DEF Typed, TypeOK, Ended, handler, Goto
<1>0. conn' \subseteq Run
  BY TypedStep
<1>1. ASSUME NEW r \in Run, Authorize(r) \/ FlushRun(r) \/ Gather(r) \/ Complete(r)
                            \/ CommitRun(r) \/ PoolTimeout(r) \/ FailRun(r) \/ Collect(r)
      PROVE  StraysExplained'
  <2>1. \A q \in Run \ {r} : /\ pc'[q] = pc[q] /\ task'[q] = task[q]
                             /\ q \in conn' => q \in conn
    BY <1>1 DEF Authorize, FlushRun, Gather, Complete, CommitRun, PoolTimeout, FailRun,
                Collect, Close
  <2>2. r \in conn' => pc'[r] \notin Ended
    BY <1>1 DEF Authorize, FlushRun, Gather, Complete, CommitRun, PoolTimeout, FailRun,
                Collect, Close, Scattered, ScatteredAt
  <2> QED BY <1>0, <2>1, <2>2, StraysElsewhere
<1>2. ASSUME NEW r \in Run, NEW s \in Sample, TaskStep(r, s) \/ FailSample(r, s)
      PROVE  StraysExplained'
  <2>1. /\ UNCHANGED pc /\ task[r][s] \in {"waiting", "searching", "generating"}
        /\ task[r][s] = "generating" => task'[r][s] \in {"done", "failed"}
        /\ \A t \in Sample : t # s => task'[r][t] = task[r][t]
        /\ \A q \in Run \ {r} : task'[q] = task[q] /\ (q \in conn' => q \in conn)
    BY <1>2 DEF TaskStep, Acquire, SearchTables, FinishSample, FailSample, Advance
  <2>2. ASSUME r \in conn', pc[r] \in Ended PROVE StrayAt(r)'
    <3>1. CASE r \in conn
      <4>1. StrayAt(r)
        BY <2>2, <3>1 DEF StraysExplained, StrayAt
      <4>2. PICK x \in Sample, y \in Sample :
              /\ x # y /\ task[r][x] = "failed"
              /\ task[r][y] \in {"generating", "done", "failed"}
        BY <4>1 DEF StrayAt
      <4>3. task'[r][x] = "failed" /\ task'[r][y] \in {"generating", "done", "failed"}
        BY <2>1, <4>2
      <4>4. pc'[r] = "failed"
        BY <2>1, <4>1 DEF StrayAt
      <4> QED BY <4>2, <4>3, <4>4 DEF StrayAt
    <3>2. CASE r \notin conn
      <4>1. task'[r][s] = "generating"
        BY <1>2, <2>2, <3>2 DEF TaskStep, Acquire, SearchTables, FinishSample, FailSample,
                                Advance
      <4>2. pc[r] = "failed" /\ \E t \in Sample : t # s /\ task[r][t] = "failed"
        <5>1. pc[r] \notin {"denied", "completed"}
          BY <2>1 DEF Started, Scattered, ScatteredAt
        <5> QED BY <2>1, <2>2, <5>1 DEF Scattered, ScatteredAt
      <4>3. PICK x \in Sample : x # s /\ task[r][x] = "failed"
        BY <4>2
      <4>4. task'[r][x] = "failed" /\ pc'[r] = "failed"
        BY <2>1, <4>2, <4>3
      <4> QED BY <4>1, <4>3, <4>4 DEF StrayAt
    <3> QED BY <3>1, <3>2
  <2> QED BY <1>0, <2>1, <2>2, StraysElsewhere
<1>3. CASE \/ \E e \in Event : Record(e) \/ CommitEvent(e)
           \/ \E p \in Reader : ReportStep(p)
           \/ UNCHANGED vars
  BY <1>3 DEF Record, CommitEvent, ReportStep, FindRun, ReadResults, ReadGuardrails,
              ReadCosts, vars, StraysExplained
<1> QED BY <1>1, <1>2, <1>3 DEF Next, RunStep, AllQuiet

\* A connection outlives its request only as the property says.
THEOREM StraysAreExplained == Spec => []StraysExplained
<1>1. Init => Typed /\ Scattered /\ StraysExplained
  BY InitTyped DEF Init, Scattered, ScatteredAt, StraysExplained
<1>2. Typed /\ Scattered /\ StraysExplained /\ [Next]_vars
        => (Typed /\ Scattered /\ StraysExplained)'
  BY TypedStep, ScatteredStep, StraysStep
<1> QED BY <1>1, <1>2, PTL DEF Spec

-----------------------------------------------------------------------------
\* Timestamps were taken before now, those of events when they were flushed.
Stamps ==
    /\ \A e \in Event : event[e] # "none" => at[e] \in Nat /\ at[e] < now
    /\ \A r \in Run : completedAt[r] # Null => completedAt[r] < now

\* The events of the kind k that the window of run r holds.
Window(r, k) ==
    {e \in Event : /\ event[e] # "none" /\ Kind[e] = k
                   /\ startedAt[r] <= at[e] /\ at[e] <= completedAt[r]}

\* S is what a reader that began with the events F in flight may have found of W.
FoundOf(S, W, F) ==
    /\ S \subseteq W /\ W \ F \subseteq S
    /\ \A e \in S : event[e] = "committed"

\* What a report has read so far; the events of its window that were not in flight
\* when it began are committed.
ReadAt(p) ==
    reading[p] \in {"found", "results", "guardrails", "reported"} =>
        /\ of[p] \in committed
        /\ \A k \in Namespace \cup {NoNs} : \A e \in Window(of[p], k) \ flying[p] :
             event[e] = "committed"
        /\ reading[p] # "found" =>
             /\ end[p] = completedAt[of[p]]
             /\ questions[p] = {s \in Sample : <<of[p], s>> \in results}
        /\ reading[p] \in {"guardrails", "reported"} =>
             FoundOf(guardrails[p], Window(of[p], NsOf[of[p]]), flying[p])
        /\ reading[p] = "reported" => FoundOf(costs[p], Window(of[p], NoNs), flying[p])

\* A later report has what an earlier one had.
FollowsAt(p, q) ==
    /\ reading[q] = "reported"
    /\ of[p] = of[q] =>
         /\ reading[p] \in {"guardrails", "reported"} => guardrails[q] \subseteq guardrails[p]
         /\ reading[p] = "reported" => costs[q] \subseteq costs[p]

Reported ==
    /\ Stamps
    /\ \A p \in Reader : ReadAt(p)
    /\ \A p \in Reader : \A q \in earlier[p] : FollowsAt(p, q)

\* A committed run does not change.
LEMMA Settled ==
    ASSUME Typed, Whole, [Next]_vars, NEW r \in committed
    PROVE  /\ r \in committed' /\ startedAt'[r] = startedAt[r]
           /\ completedAt'[r] = completedAt[r]
           /\ {s \in Sample : <<r, s>> \in results'} = {s \in Sample : <<r, s>> \in results}
<1> USE DEF Typed, TypeOK, database
<1>1. r \in Run /\ pc[r] \in {"completed", "failed"}
  BY DEF Whole
<1>2. ASSUME NEW q \in Run, Authorize(q) \/ Gather(q) \/ PoolTimeout(q) \/ FailRun(q)
                            \/ Collect(q)
      PROVE UNCHANGED database
  BY <1>2 DEF Authorize, Gather, PoolTimeout, FailRun, Collect
<1>3. ASSUME NEW q \in Run, FlushRun(q) \/ Complete(q)
      PROVE  /\ UNCHANGED <<committed, results>>
             /\ startedAt'[r] = startedAt[r] /\ completedAt'[r] = completedAt[r]
  <2>1. q # r
    BY <1>1, <1>3 DEF FlushRun, Complete
  <2> QED BY <2>1, <1>1, <1>3 DEF FlushRun, Complete, Stamped
<1>4. ASSUME NEW q \in Run, CommitRun(q)
      PROVE  /\ r \in committed' /\ UNCHANGED <<startedAt, completedAt>>
             /\ \A s \in Sample : <<r, s>> \in results' <=> <<r, s>> \in results
  <2>1. q # r
    BY <1>1, <1>4 DEF CommitRun
  <2> QED BY <2>1, <1>4 DEF CommitRun
<1>5. ASSUME NEW q \in Run, NEW s \in Sample, TaskStep(q, s) \/ FailSample(q, s)
      PROVE  UNCHANGED database
  BY <1>5 DEF TaskStep, Acquire, SearchTables, FinishSample, FailSample
<1>6. CASE \/ \E e \in Event : Record(e) \/ CommitEvent(e)
           \/ \E p \in Reader : ReportStep(p)
           \/ UNCHANGED vars
  BY <1>6 DEF Record, CommitEvent, ReportStep, FindRun, ReadResults, ReadGuardrails,
              ReadCosts, vars
<1> QED BY <1>2, <1>3, <1>4, <1>5, <1>6 DEF Next, RunStep, AllQuiet

LEMMA StampsStep ==
    ASSUME Typed, Stamps, [Next]_vars
    PROVE  Stamps'
<1> USE DEF Typed, TypeOK, Stamps, events, database
<1>1. ASSUME NEW r \in Run, Authorize(r) \/ FlushRun(r) \/ Gather(r) \/ CommitRun(r)
                            \/ PoolTimeout(r) \/ FailRun(r) \/ Collect(r)
      PROVE  Stamps'
  <2>1. UNCHANGED <<completedAt, event, at>> /\ now' \in {now, now + 1}
    BY <1>1 DEF Authorize, FlushRun, Gather, CommitRun, PoolTimeout, FailRun, Collect
  <2> QED BY <2>1 DEF Time
<1>2. ASSUME NEW r \in Run, Complete(r) PROVE Stamps'
  <2>1. /\ UNCHANGED <<event, at>> /\ now' = now + 1
        /\ \A q \in Run : completedAt'[q] = IF q = r THEN now ELSE completedAt[q]
    BY <1>2 DEF Complete, Stamped
  <2>2. \A e \in Event : event'[e] # "none" => at'[e] \in Nat /\ at'[e] < now'
    BY <2>1
  <2>3. ASSUME NEW q \in Run, completedAt'[q] # Null PROVE completedAt'[q] < now'
    <3>1. CASE q = r
      BY <2>1, <3>1
    <3>2. CASE q # r
      <4>1. completedAt'[q] = completedAt[q] /\ completedAt[q] \in Nat
        BY <2>1, <2>3, <3>2 DEF Time
      <4> QED BY <2>1, <2>3, <4>1
    <3> QED BY <3>1, <3>2
  <2> QED BY <2>2, <2>3
<1>3. ASSUME NEW r \in Run, NEW s \in Sample, TaskStep(r, s) \/ FailSample(r, s)
      PROVE  Stamps'
  BY <1>3 DEF TaskStep, Acquire, SearchTables, FinishSample, FailSample
<1>4. ASSUME NEW e \in Event, Record(e) PROVE Stamps'
  <2>1. /\ UNCHANGED completedAt /\ now' = now + 1
        /\ \A x \in Event : at'[x] = IF x = e THEN now ELSE at[x]
        /\ \A x \in Event : x # e => event'[x] = event[x]
    BY <1>4 DEF Record, Stamped
  <2> QED BY <2>1, SMTT(20) DEF Time
<1>5. ASSUME NEW e \in Event, CommitEvent(e) PROVE Stamps'
  BY <1>5 DEF CommitEvent
<1>6. CASE (\E p \in Reader : ReportStep(p)) \/ UNCHANGED vars
  BY <1>6 DEF ReportStep, FindRun, ReadResults, ReadGuardrails, ReadCosts, vars
<1> QED BY <1>1, <1>2, <1>3, <1>4, <1>5, <1>6 DEF Next, RunStep, AllQuiet

\* A window keeps the events it has when its run is committed, and gets no more.
LEMMA WindowClosed ==
    ASSUME Typed, Whole, Stamps, [Next]_vars, NEW r \in committed, NEW k
    PROVE  /\ Window(r, k)' = Window(r, k)
           /\ \A e \in Event : event[e] = "committed" => event'[e] = "committed"
<1> USE DEF Typed, TypeOK
<1>1. /\ startedAt'[r] = startedAt[r] /\ completedAt'[r] = completedAt[r]
      /\ completedAt[r] \in Nat /\ completedAt[r] < now
  BY Settled DEF Whole, RunsWhole, Stamps, Time
<1>2. CASE UNCHANGED events
  BY <1>1, <1>2 DEF Window, events
<1>3. ASSUME NEW e \in Event, Record(e)
      PROVE  /\ Window(r, k)' = Window(r, k)
             /\ \A x \in Event : event[x] = "committed" => event'[x] = "committed"
  <2>1. /\ event[e] = "none" /\ event'[e] = "flushed" /\ at'[e] = now
        /\ \A x \in Event : x # e => event'[x] = event[x] /\ at'[x] = at[x]
    BY <1>3 DEF Record, Stamped
  <2>2. ~(at'[e] <= completedAt[r])
    BY <1>1, <2>1
  <2> QED BY <1>1, <2>1, <2>2 DEF Window
<1>4. ASSUME NEW e \in Event, CommitEvent(e)
      PROVE  /\ Window(r, k)' = Window(r, k)
             /\ \A x \in Event : event[x] = "committed" => event'[x] = "committed"
  <2>1. /\ UNCHANGED at /\ event[e] = "flushed" /\ event'[e] = "committed"
        /\ \A x \in Event : x # e => event'[x] = event[x]
    BY <1>4 DEF CommitEvent
  <2> QED BY <1>1, <2>1 DEF Window
<1>5. \/ UNCHANGED events
      \/ \E e \in Event : Record(e) \/ CommitEvent(e)
  BY DEF Next, RunStep, Authorize, FlushRun, Gather, Complete, CommitRun, PoolTimeout, FailRun,
         Collect, TaskStep, Acquire, SearchTables, FinishSample, FailSample, ReportStep,
         FindRun, ReadResults, ReadGuardrails, ReadCosts, AllQuiet, vars
<1> QED BY <1>2, <1>3, <1>4, <1>5

\* Steps other than its own leave a report what it was.
LEMMA ReadKept ==
    ASSUME Typed, Whole, Stamps, [Next]_vars, NEW p \in Reader, ReadAt(p),
           /\ reading'[p] = reading[p] /\ of'[p] = of[p] /\ end'[p] = end[p]
           /\ questions'[p] = questions[p] /\ guardrails'[p] = guardrails[p]
           /\ costs'[p] = costs[p] /\ flying'[p] = flying[p]
    PROVE  ReadAt(p)'
<1> SUFFICES ASSUME reading[p] \in {"found", "results", "guardrails", "reported"}
             PROVE  ReadAt(p)'
  BY DEF ReadAt
<1>1. of[p] \in committed
  BY DEF ReadAt
<1>2. /\ of[p] \in committed' /\ completedAt'[of[p]] = completedAt[of[p]]
      /\ {s \in Sample : <<of[p], s>> \in results'} = {s \in Sample : <<of[p], s>> \in results}
  BY <1>1, Settled
<1>3. \A k : Window(of[p], k)' = Window(of[p], k)
  BY <1>1, WindowClosed
<1>4. \A e \in Event : event[e] = "committed" => event'[e] = "committed"
  BY <1>1, WindowClosed
<1>5. \A k : Window(of[p], k) \subseteq Event
  BY DEF Window
<1>6. \A k \in Namespace \cup {NoNs} : \A e \in Window(of[p], k)' \ flying'[p] :
        event'[e] = "committed"
  BY <1>3, <1>4, <1>5 DEF ReadAt
<1>7. ASSUME NEW k, NEW S, FoundOf(S, Window(of[p], k), flying[p])
      PROVE  FoundOf(S, Window(of[p], k), flying[p])'
  BY <1>3, <1>4, <1>5, <1>7 DEF FoundOf
<1> QED BY <1>1, <1>2, <1>6, <1>7 DEF ReadAt

LEMMA ReadStep ==
    ASSUME Typed, Whole, Reported, [Next]_vars, NEW p \in Reader
    PROVE  ReadAt(p)'
<1> USE DEF Typed, TypeOK, On
<1>1. CASE UNCHANGED reports
  BY <1>1, ReadKept DEF reports, Reported
<1>2. ASSUME NEW q \in Reader, ReportStep(q), q # p PROVE ReadAt(p)'
  <2>1. /\ reading'[p] = reading[p] /\ of'[p] = of[p] /\ end'[p] = end[p]
        /\ questions'[p] = questions[p] /\ guardrails'[p] = guardrails[p]
        /\ costs'[p] = costs[p] /\ flying'[p] = flying[p]
    BY <1>2 DEF ReportStep, FindRun, ReadResults, ReadGuardrails, ReadCosts
  <2> QED BY <2>1, ReadKept DEF Reported
<1>3. ASSUME NEW r \in Run, FindRun(p, r) PROVE ReadAt(p)'
  <2>1. /\ UNCHANGED <<event, at, database, end, questions, guardrails, costs>>
        /\ of'[p] = r /\ flying'[p] = {e \in Event : event[e] = "flushed"}
        /\ reading'[p] \in {"not_found", "denied", "found"}
        /\ reading'[p] = "found" => r \in committed
    BY <1>3 DEF FindRun, events
  <2>2. \A k : \A e \in Window(r, k)' \ flying'[p] : event'[e] = "committed"
    BY <2>1 DEF Window, database
  <2> QED BY <2>1, <2>2 DEF ReadAt, database
<1>4. CASE ReadResults(p)
  <2>1. /\ UNCHANGED <<event, at, database, of, guardrails, costs, flying>>
        /\ reading[p] = "found" /\ reading'[p] = "results"
        /\ questions'[p] = {s \in Sample : <<of[p], s>> \in results}
    BY <1>4 DEF ReadResults, events
  <2>2. of[p] \in committed /\ completedAt[of[p]] # Null
    BY <2>1 DEF Reported, ReadAt, Whole, RunsWhole
  <2>3. end'[p] = completedAt[of[p]]
    BY <1>4, <2>2 DEF ReadResults
  <2>4. \A k : Window(of[p], k)' = Window(of[p], k)
    BY <2>1 DEF Window, database
  <2> QED BY <2>1, <2>2, <2>3, <2>4 DEF Reported, ReadAt, database
<1>5. CASE ReadGuardrails(p)
  <2>1. /\ UNCHANGED <<event, at, database, of, end, questions, costs, flying>>
        /\ reading[p] = "results" /\ reading'[p] = "guardrails"
        /\ guardrails'[p] = {e \in InWindow(p) : Kind[e] = NsOf[of[p]]}
    BY <1>5 DEF ReadGuardrails, events
  <2>2. \A k : Window(of[p], k)' = Window(of[p], k)
    BY <2>1 DEF Window, database
  <2>3. ReadAt(p) /\ NsOf[of[p]] \in Namespace
    BY <2>1, EvalAssumption DEF Reported, Aimed
  <2>4. FoundOf(guardrails'[p], Window(of[p], NsOf[of[p]]), flying[p])
    BY <2>1, <2>3 DEF FoundOf, ReadAt, InWindow, Window
  <2>5. FoundOf(guardrails[p], Window(of[p], NsOf[of[p]]), flying[p])'
    BY <2>1, <2>2, <2>4 DEF FoundOf
  <2> QED BY <2>1, <2>2, <2>3, <2>5 DEF ReadAt, database
<1>6. CASE ReadCosts(p)
  <2>1. /\ UNCHANGED <<event, at, database, of, end, questions, guardrails, flying>>
        /\ reading[p] = "guardrails" /\ reading'[p] = "reported"
        /\ costs'[p] = {e \in InWindow(p) : Kind[e] = NoNs}
    BY <1>6 DEF ReadCosts, events
  <2>2. \A k : Window(of[p], k)' = Window(of[p], k)
    BY <2>1 DEF Window, database
  <2>3. ReadAt(p)
    BY DEF Reported
  <2>4. FoundOf(costs'[p], Window(of[p], NoNs), flying[p])
    BY <2>1, <2>3 DEF FoundOf, ReadAt, InWindow, Window
  <2>5. /\ FoundOf(costs[p], Window(of[p], NoNs), flying[p])'
        /\ FoundOf(guardrails[p], Window(of[p], NsOf[of[p]]), flying[p])'
    BY <2>1, <2>2, <2>3, <2>4 DEF FoundOf, ReadAt
  <2> QED BY <2>1, <2>2, <2>3, <2>5 DEF ReadAt, database
<1>7. UNCHANGED reports \/ \E q \in Reader : ReportStep(q)
  BY DEF Next, RunStep, Authorize, FlushRun, Gather, Complete, CommitRun, PoolTimeout, FailRun,
         Collect, TaskStep, Acquire, SearchTables, FinishSample, FailSample, Record,
         CommitEvent, AllQuiet, vars
<1> QED BY <1>1, <1>2, <1>3, <1>4, <1>5, <1>6, <1>7 DEF ReportStep

LEMMA FollowsStep ==
    ASSUME Typed, Whole, Reported, [Next]_vars, NEW p \in Reader, NEW q \in earlier'[p]
    PROVE  FollowsAt(p, q)'
<1> USE DEF Typed, TypeOK, On
<1>1. CASE UNCHANGED reports
  BY <1>1 DEF Reported, FollowsAt, reports
<1>2. ASSUME NEW x \in Reader, ReportStep(x), x # p PROVE FollowsAt(p, q)'
  <2>1. /\ reading'[p] = reading[p] /\ of'[p] = of[p] /\ guardrails'[p] = guardrails[p]
        /\ costs'[p] = costs[p] /\ earlier'[p] = earlier[p]
    BY <1>2 DEF ReportStep, FindRun, ReadResults, ReadGuardrails, ReadCosts
  <2>2. q \in Reader /\ FollowsAt(p, q)
    BY <2>1 DEF Reported
  <2>3. x # q
    BY <1>2, <2>2 DEF FollowsAt, ReportStep, FindRun, ReadResults, ReadGuardrails, ReadCosts
  <2>4. /\ reading'[q] = reading[q] /\ of'[q] = of[q] /\ guardrails'[q] = guardrails[q]
        /\ costs'[q] = costs[q]
    BY <1>2, <2>2, <2>3 DEF ReportStep, FindRun, ReadResults, ReadGuardrails, ReadCosts
  <2> QED BY <2>1, <2>2, <2>4 DEF FollowsAt
<1>3. ASSUME NEW r \in Run, FindRun(p, r) PROVE FollowsAt(p, q)'
  <2>1. /\ q \in Reader /\ reading[q] = "reported" /\ q # p
        /\ reading'[p] \in {"not_found", "denied", "found"}
    BY <1>3 DEF FindRun
  <2>2. reading'[q] = "reported"
    BY <1>3, <2>1 DEF FindRun
  <2> QED BY <2>1, <2>2 DEF FollowsAt
<1>4. CASE ReadResults(p) \/ ReadGuardrails(p) \/ ReadCosts(p)
  <2>1. /\ earlier' = earlier /\ of' = of
        /\ reading[p] \in {"found", "results", "guardrails"}
    BY <1>4 DEF ReadResults, ReadGuardrails, ReadCosts
  <2>2. q \in Reader /\ FollowsAt(p, q) /\ reading[q] = "reported"
    BY <2>1 DEF Reported, FollowsAt
  <2>3. /\ q # p /\ reading'[q] = "reported"
        /\ guardrails'[q] = guardrails[q] /\ costs'[q] = costs[q]
    BY <1>4, <2>1, <2>2 DEF ReadResults, ReadGuardrails, ReadCosts
  <2>4. SUFFICES ASSUME of[p] = of[q]
                 PROVE  /\ reading'[p] \in {"guardrails", "reported"}
                             => guardrails[q] \subseteq guardrails'[p]
                        /\ reading'[p] = "reported" => costs[q] \subseteq costs'[p]
    BY <2>1, <2>3 DEF FollowsAt
  <2>5. /\ FoundOf(guardrails[q], Window(of[p], NsOf[of[p]]), flying[q])
        /\ FoundOf(costs[q], Window(of[p], NoNs), flying[q])
    BY <2>2, <2>4 DEF Reported, ReadAt
  <2>6. CASE ReadResults(p)
    BY <2>6 DEF ReadResults
  <2>7. CASE ReadGuardrails(p)
    <3>1. /\ end[p] = completedAt[of[p]] /\ reading'[p] = "guardrails"
          /\ guardrails'[p] = {e \in InWindow(p) : Kind[e] = NsOf[of[p]]}
      BY <2>7 DEF ReadGuardrails, Reported, ReadAt
    <3>2. guardrails[q] \subseteq guardrails'[p]
      BY <2>5, <3>1 DEF FoundOf, Window, InWindow
    <3> QED BY <3>1, <3>2
  <2>8. CASE ReadCosts(p)
    <3>1. /\ end[p] = completedAt[of[p]] /\ guardrails'[p] = guardrails[p]
          /\ costs'[p] = {e \in InWindow(p) : Kind[e] = NoNs}
      BY <2>8 DEF ReadCosts, Reported, ReadAt
    <3>2. costs[q] \subseteq costs'[p]
      BY <2>5, <3>1 DEF FoundOf, Window, InWindow
    <3>3. guardrails[q] \subseteq guardrails[p]
      BY <2>2, <2>4, <2>8 DEF FollowsAt, ReadCosts
    <3> QED BY <3>1, <3>2, <3>3
  <2> QED BY <1>4, <2>6, <2>7, <2>8
<1>5. UNCHANGED reports \/ \E x \in Reader : ReportStep(x)
  BY DEF Next, RunStep, Authorize, FlushRun, Gather, Complete, CommitRun, PoolTimeout, FailRun,
         Collect, TaskStep, Acquire, SearchTables, FinishSample, FailSample, Record,
         CommitEvent, AllQuiet, vars
<1> QED BY <1>1, <1>2, <1>3, <1>4, <1>5 DEF ReportStep

LEMMA AgreementFollows == Typed /\ Reported => ReportsAgree
<1> SUFFICES ASSUME Typed, Reported, NEW p \in Reader, NEW q \in earlier[p],
                    reading[p] = "reported", of[p] = of[q]
             PROVE  /\ questions[p] = questions[q]
                    /\ Events(q) \subseteq Events(p)
                    /\ Events(p) \ Events(q) \subseteq flying[q]
  BY DEF ReportsAgree
<1>1. q \in Reader /\ FollowsAt(p, q) /\ reading[q] = "reported"
  BY DEF Typed, TypeOK, Reported, FollowsAt
<1>2. ReadAt(p) /\ ReadAt(q)
  BY <1>1 DEF Reported
<1>3. /\ FoundOf(guardrails[p], Window(of[p], NsOf[of[p]]), flying[p])
      /\ FoundOf(costs[p], Window(of[p], NoNs), flying[p])
      /\ FoundOf(guardrails[q], Window(of[p], NsOf[of[p]]), flying[q])
      /\ FoundOf(costs[q], Window(of[p], NoNs), flying[q])
      /\ questions[p] = questions[q]
  BY <1>1, <1>2 DEF ReadAt
<1>4. guardrails[q] \subseteq guardrails[p] /\ costs[q] \subseteq costs[p]
  BY <1>1 DEF FollowsAt
<1> QED BY <1>3, <1>4 DEF Events, FoundOf

\* Reports about one run agree, whatever is recorded and committed between them.
THEOREM ReportsDoAgree == Spec => []ReportsAgree
<1>1. Init => Typed /\ Whole /\ Reported
  <2>1. Init => Reported
    BY DEF Init, Reported, Stamps, ReadAt, FollowsAt
  <2> QED BY <2>1, InitTyped, InitWhole
<1>2. Typed /\ Whole /\ Reported /\ [Next]_vars => (Typed /\ Whole /\ Reported)'
  <2> SUFFICES ASSUME Typed, Whole, Reported, [Next]_vars
               PROVE  (Typed /\ Whole /\ Reported)'
    OBVIOUS
  <2>1. Typed' /\ Whole'
    BY TypedStep, WholeStep
  <2>2. Stamps'
    BY StampsStep DEF Reported
  <2> QED BY <2>1, <2>2, ReadStep, FollowsStep DEF Reported
<1>3. Typed /\ Reported => ReportsAgree
  BY AgreementFollows
<1> QED BY <1>1, <1>2, <1>3, PTL DEF Spec

=============================================================================
