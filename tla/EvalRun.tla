------------------------------ MODULE EvalRun ------------------------------
(***************************************************************************)
(* POST /eval/run and the reports about runs.  EvalRunner.run_batch        *)
(* evaluates the samples of a dataset in concurrent tasks, a few at a time *)
(* under a semaphore, all of them reading through the one session of the   *)
(* request, and commits the run and its results together at the end.  When *)
(* a sample fails, gather ends the request at once and the other tasks go  *)
(* on without it, also on its session.  Reports join a run's results with  *)
(* the events other requests committed in its time window.                 *)
(***************************************************************************)
EXTENDS Naturals, FiniteSets

CONSTANTS
    Run,            \* requests to evaluate, each with the run it creates
    Sample,
    Datasets,       \* what load_jsonl_dataset may return
    Namespace,
    NsOf,           \* [Run -> Namespace]
    Permits,        \* the 5 of the semaphore
    PoolSize,       \* connections the engine's pool may open
    Event,          \* guardrail and cost events of other requests
    Kind,           \* [Event -> Namespace \cup {NoNs}]: the namespace of a guardrail
                    \* event, NoNs for a cost event
    Reader,         \* requests for a report
    NoNs, Null

ASSUME EvalAssumption ==
    /\ IsFiniteSet(Sample)
    /\ Datasets \subseteq SUBSET Sample
    /\ NsOf \in [Run -> Namespace]
    /\ Kind \in [Event -> Namespace \cup {NoNs}] /\ NoNs \notin Namespace
    /\ Permits \in Nat \ {0} /\ PoolSize \in Nat \ {0}
    /\ Null \notin Nat \cup Run

VARIABLES
    pc,             \* how far the handler of each run is
    dataset,
    task,           \* how far each sample is
    permits,        \* what is left of the semaphore
    conn,           \* runs whose session has a connection
    \* --- PostgreSQL
    committed,      \* runs with a committed row
    startedAt, completedAt,
    results,        \* committed <<run, sample>>
    event, at,      \* life of an event, and its created_at
    now,            \* timestamps taken so far
    \* --- requests for a report
    reading, of,    \* how far each is, and which run it is about
    end,            \* window_end
    questions, guardrails, costs,   \* what it has read
    earlier,        \* history: reports finished before this one began
    flying          \* history: events flushed and not committed when it began

handler == <<pc, dataset, task, permits>>
database == <<committed, startedAt, completedAt, results>>
events == <<event, at>>
reports == <<reading, of, end, questions, guardrails, costs, earlier, flying>>
vars == <<handler, conn, database, events, now, reports>>

Ended == {"denied", "failed", "completed"}
TaskEnded == {"none", "done", "failed"}
Time == Nat \cup {Null}

TypeOK ==
    /\ pc \in [Run -> Ended \cup {"arrived", "authorized", "flushed", "gathering",
                                  "committing"}]
    /\ dataset \in [Run -> Datasets]
    /\ task \in [Run -> [Sample -> TaskEnded \cup {"waiting", "searching", "generating"}]]
    /\ permits \in [Run -> 0 .. Permits]
    /\ conn \subseteq Run
    /\ committed \subseteq Run
    /\ startedAt \in [Run -> Time] /\ completedAt \in [Run -> Time]
    /\ results \subseteq Run \X Sample
    /\ event \in [Event -> {"none", "flushed", "committed"}]
    /\ at \in [Event -> Time]
    /\ now \in Nat
    /\ reading \in [Reader -> {"arrived", "found", "results", "guardrails", "reported",
                               "not_found", "denied"}]
    /\ of \in [Reader -> Run \cup {Null}]
    /\ end \in [Reader -> Time]
    /\ questions \in [Reader -> SUBSET Sample]
    /\ guardrails \in [Reader -> SUBSET Event] /\ costs \in [Reader -> SUBSET Event]
    /\ earlier \in [Reader -> SUBSET Reader]
    /\ flying \in [Reader -> SUBSET Event]

Init ==
    /\ pc = [r \in Run |-> "arrived"]
    /\ dataset \in [Run -> Datasets]
    /\ task = [r \in Run |-> [s \in Sample |-> "none"]]
    /\ permits = [r \in Run |-> Permits]
    /\ conn = {} /\ committed = {} /\ results = {}
    /\ startedAt = [r \in Run |-> Null] /\ completedAt = [r \in Run |-> Null]
    /\ event = [e \in Event |-> "none"] /\ at = [e \in Event |-> Null]
    /\ now = 0
    /\ reading = [p \in Reader |-> "arrived"]
    /\ of = [p \in Reader |-> Null]
    /\ end = [p \in Reader |-> Null]
    /\ questions = [p \in Reader |-> {}]
    /\ guardrails = [p \in Reader |-> {}] /\ costs = [p \in Reader |-> {}]
    /\ earlier = [p \in Reader |-> {}] /\ flying = [p \in Reader |-> {}]

-----------------------------------------------------------------------------
\* The handler.
Goto(r, s) == pc' = [pc EXCEPT ![r] = s]
Stamped(v, k) == [v EXCEPT ![k] = now]

\* A session takes a connection with its first statement and keeps it to its
\* commit or close; when the pool has none it waits.
Free(r) == r \in conn \/ Cardinality(conn) < PoolSize

\* NamespaceAuthz.require_write; callers have the access or not.
Authorize(r) ==
    /\ pc[r] = "arrived" /\ Free(r)
    /\ \/ Goto(r, "authorized") /\ conn' = conn \cup {r}
       \/ Goto(r, "denied") /\ UNCHANGED conn
    /\ UNCHANGED <<dataset, task, permits, database, events, now, reports>>

\* The run's row is flushed, not committed.
FlushRun(r) ==
    /\ pc[r] = "authorized"
    /\ Goto(r, "flushed") /\ startedAt' = Stamped(startedAt, r) /\ now' = now + 1
    /\ UNCHANGED <<dataset, task, permits, conn, committed, completedAt, results, events,
                   reports>>

\* The dataset is loaded and a task started for each of its samples.
Gather(r) ==
    /\ pc[r] = "flushed" /\ Goto(r, "gathering")
    /\ task' = [task EXCEPT ![r] =
                  [s \in Sample |-> IF s \in dataset[r] THEN "waiting" ELSE "none"]]
    /\ UNCHANGED <<dataset, permits, conn, database, events, now, reports>>

\* All results are there; status and completed_at are set.
\* Mutant: completed_at is forgotten.
CompleteUndated(r) ==
    /\ pc[r] = "gathering" /\ (\A s \in dataset[r] : task[r][s] = "done")
    /\ Goto(r, "committing")
    /\ UNCHANGED <<dataset, task, permits, conn, database, events, now, reports>>
Complete(r) ==
    /\ pc[r] = "gathering" /\ \A s \in dataset[r] : task[r][s] = "done"
    /\ Goto(r, "committing") /\ completedAt' = Stamped(completedAt, r) /\ now' = now + 1
    /\ UNCHANGED <<dataset, task, permits, conn, committed, startedAt, results, events,
                   reports>>

\* The only commit, of the row and of all results; its answer may be lost.
CommitRun(r) ==
    /\ pc[r] = "committing" /\ \E s \in {"completed", "failed"} : Goto(r, s)
    /\ committed' = committed \cup {r}
    /\ results' = results \cup {r} \X dataset[r]
    /\ conn' = conn \ {r}
    /\ UNCHANGED <<dataset, task, permits, startedAt, completedAt, events, now, reports>>

\* The request fails: get_session closes the session, which rolls it back.
\* Mutant: the session is not closed.
LeaveOpen(r) == Goto(r, "failed") /\ UNCHANGED conn
Close(r) == Goto(r, "failed") /\ conn' = conn \ {r}

\* A bad dataset, an error of PostgreSQL, or a sample that failed; gather does not
\* wait for the others then, nor cancel them.
FailRun(r) ==
    /\ \/ pc[r] \in {"authorized", "flushed", "committing"}
       \/ pc[r] = "gathering" /\ \E s \in Sample : task[r][s] = "failed"
    /\ Close(r)
    /\ UNCHANGED <<dataset, task, permits, database, events, now, reports>>

\* The pool's timeout, for a handler and for a task.
PoolTimeout(r) ==
    /\ pc[r] = "arrived" /\ ~Free(r) /\ Goto(r, "failed")
    /\ UNCHANGED <<dataset, task, permits, conn, database, events, now, reports>>

-----------------------------------------------------------------------------
\* The tasks: run_with_limit around _evaluate_sample.
Advance(r, s, t) == task' = [task EXCEPT ![r][s] = t]
Release(r) == permits' = [permits EXCEPT ![r] = @ + 1]

\* Mutant: the semaphore lets one more in.
AcquireAny(r, s) ==
    /\ task[r][s] = "waiting" /\ Advance(r, s, "searching")
    /\ permits' = [permits EXCEPT ![r] = IF @ = 0 THEN 0 ELSE @ - 1]
    /\ UNCHANGED <<pc, dataset, conn, database, events, now, reports>>
Acquire(r, s) ==
    /\ task[r][s] = "waiting" /\ permits[r] > 0
    /\ permits' = [permits EXCEPT ![r] = @ - 1]
    /\ Advance(r, s, "searching")
    /\ UNCHANGED <<pc, dataset, conn, database, events, now, reports>>

\* The vector search is back; the lexical and graph searches read through the
\* request's session, which takes a connection again if it was closed.
SearchTables(r, s) ==
    /\ task[r][s] = "searching" /\ Free(r)
    /\ conn' = conn \cup {r}
    /\ Advance(r, s, "generating")
    /\ UNCHANGED <<pc, dataset, permits, database, events, now, reports>>

\* The answer is generated and scored; nothing is written.
\* Mutant: each sample commits, as run_sample does.
FinishAndCommit(r, s) ==
    /\ task[r][s] = "generating" /\ Advance(r, s, "done") /\ Release(r)
    /\ committed' = committed \cup {r} /\ results' = results \cup {<<r, s>>}
    /\ conn' = conn \ {r}
    /\ UNCHANGED <<pc, dataset, startedAt, completedAt, events, now, reports>>
FinishSample(r, s) ==
    /\ task[r][s] = "generating"
    /\ Advance(r, s, "done") /\ Release(r)
    /\ UNCHANGED <<pc, dataset, conn, database, events, now, reports>>

\* An error of Redis, Qdrant, PostgreSQL, the pool or the model; leaving the
\* semaphore's block releases it all the same.
\* Mutants: the permit is released by hand as well; the sample is tried again.
FailReleaseTwice(r, s) ==
    /\ task[r][s] \in {"searching", "generating"} /\ Advance(r, s, "failed")
    /\ permits' = [permits EXCEPT ![r] = @ + 2]
    /\ UNCHANGED <<pc, dataset, conn, database, events, now, reports>>
RetrySample(r, s) ==
    /\ task[r][s] \in {"searching", "generating"}
    /\ Advance(r, s, "waiting") /\ Release(r)
    /\ UNCHANGED <<pc, dataset, conn, database, events, now, reports>>
FailSample(r, s) ==
    /\ task[r][s] \in {"searching", "generating"}
    /\ Advance(r, s, "failed") /\ Release(r)
    /\ UNCHANGED <<pc, dataset, conn, database, events, now, reports>>

\* Python frees the session that a request and all its tasks have left.
Collect(r) ==
    /\ pc[r] \in Ended /\ r \in conn /\ \A s \in Sample : task[r][s] \in TaskEnded
    /\ conn' = conn \ {r}
    /\ UNCHANGED <<handler, database, events, now, reports>>

TaskStep(r, s) == Acquire(r, s) \/ SearchTables(r, s) \/ FinishSample(r, s)

-----------------------------------------------------------------------------
\* Events of other requests: created_at is set by the flush, before the commit.
Record(e) ==
    /\ event[e] = "none" /\ event' = [event EXCEPT ![e] = "flushed"]
    /\ at' = Stamped(at, e) /\ now' = now + 1
    /\ UNCHANGED <<handler, conn, database, reports>>
CommitEvent(e) ==
    /\ event[e] = "flushed" /\ event' = [event EXCEPT ![e] = "committed"]
    /\ UNCHANGED <<handler, conn, database, at, now, reports>>

-----------------------------------------------------------------------------
\* Reports: get_report, then the reads of build_eval_report.
On(p, s) == reading' = [reading EXCEPT ![p] = s]

FindRun(p, r) ==
    /\ reading[p] = "arrived"
    /\ of' = [of EXCEPT ![p] = r]
    /\ \/ r \notin committed /\ On(p, "not_found")
       \/ r \in committed /\ \E s \in {"denied", "found"} : On(p, s)
    /\ earlier' = [earlier EXCEPT ![p] = {q \in Reader : reading[q] = "reported"}]
    /\ flying' = [flying EXCEPT ![p] = {e \in Event : event[e] = "flushed"}]
    /\ UNCHANGED <<handler, conn, database, events, now, end, questions, guardrails,
                   costs>>

ReadResults(p) ==
    /\ reading[p] = "found" /\ On(p, "results")
    /\ questions' = [questions EXCEPT ![p] = {s \in Sample : <<of[p], s>> \in results}]
    /\ LET completed == completedAt[of[p]] IN
         end' = [end EXCEPT ![p] = IF completed = Null THEN now ELSE completed]
    /\ UNCHANGED <<handler, conn, database, events, now, of, guardrails, costs, earlier,
                   flying>>

\* created_at >= started_at and created_at <= window_end
InWindow(p) == {e \in Event : /\ event[e] = "committed"
                              /\ startedAt[of[p]] <= at[e] /\ at[e] <= end[p]}

ReadGuardrails(p) ==
    /\ reading[p] = "results" /\ On(p, "guardrails")
    /\ guardrails' = [guardrails EXCEPT ![p] = {e \in InWindow(p) : Kind[e] = NsOf[of[p]]}]
    /\ UNCHANGED <<handler, conn, database, events, now, of, end, questions, costs, earlier,
                   flying>>

\* Costs have no namespace.
ReadCosts(p) ==
    /\ reading[p] = "guardrails" /\ On(p, "reported")
    /\ costs' = [costs EXCEPT ![p] = {e \in InWindow(p) : Kind[e] = NoNs}]
    /\ UNCHANGED <<handler, conn, database, events, now, of, end, questions, guardrails,
                   earlier, flying>>

ReportStep(p) ==
    (\E r \in Run : FindRun(p, r)) \/ ReadResults(p) \/ ReadGuardrails(p) \/ ReadCosts(p)

-----------------------------------------------------------------------------
RunStep(r) ==
    Authorize(r) \/ FlushRun(r) \/ Gather(r) \/ Complete(r) \/ CommitRun(r) \/ PoolTimeout(r)

AllQuiet ==
    /\ \A r \in Run : pc[r] \in Ended /\ \A s \in Sample : task[r][s] \in TaskEnded
    /\ \A p \in Reader : reading[p] \in {"reported", "not_found", "denied"}
    /\ \A e \in Event : event[e] = "committed"
    /\ UNCHANGED vars

Next ==
    \/ \E r \in Run : RunStep(r) \/ FailRun(r) \/ Collect(r)
    \/ \E r \in Run, s \in Sample : TaskStep(r, s) \/ FailSample(r, s)
    \/ \E e \in Event : Record(e) \/ CommitEvent(e)
    \/ \E p \in Reader : ReportStep(p)
    \/ AllQuiet

Spec == Init /\ [][Next]_vars

\* The event loop resumes a handler or a task whose await has returned, with a
\* result or an error.  That every await does return is assumed of the environment:
\* not every client is given a timeout (Redis.from_url is not).
FairSpec ==
    /\ Spec
    /\ \A r \in Run : WF_vars(RunStep(r) \/ FailRun(r))
    /\ \A r \in Run, s \in Sample : WF_vars(TaskStep(r, s) \/ FailSample(r, s))

-----------------------------------------------------------------------------
\* Properties.

\* A run can be seen only when it is complete and dated, with a result for every
\* sample of its dataset; one that failed before its commit, at whichever sample and
\* however far the others were, left nothing.  So the loop in scripts/run_eval.py
\* never sees another status.
RunsWhole ==
    \A r \in Run :
        /\ r \in committed => completedAt[r] # Null
        /\ pc[r] = "completed" => r \in committed
        /\ {s \in Sample : <<r, s>> \in results} = IF r \in committed THEN dataset[r] ELSE {}

Busy(r) == {s \in Sample : task[r][s] \in {"searching", "generating"}}

\* A run has no more samples in work than the semaphore has permits, counting those
\* that go on after it has failed.
LoadBounded == \A r \in Run : Cardinality(Busy(r)) <= Permits

\* A connection outlives its request only when a sample failed, and it was then taken
\* by another sample of the same run.
StraysExplained ==
    \A r \in conn : pc[r] \in Ended =>
        /\ pc[r] = "failed"
        /\ \E s, t \in Sample : s # t /\ task[r][s] = "failed"
                             /\ task[r][t] \in {"generating", "done", "failed"}

Events(p) == guardrails[p] \cup costs[p]

\* Of two reports about one run, read one after the other, the later has the same
\* questions and all of the events, and more only if they were being committed when
\* the earlier was read.
ReportsAgree ==
    \A p \in Reader : \A q \in earlier[p] :
        reading[p] = "reported" /\ of[p] = of[q] =>
            /\ questions[p] = questions[q]
            /\ Events(q) \subseteq Events(p)
            /\ Events(p) \ Events(q) \subseteq flying[q]

\* Every request to evaluate is answered, also when samples of another run hold all
\* connections of the pool.
RunsAnswered == \A r \in Run : <>(pc[r] \in Ended)

\* No sample waits for ever: those of a run that failed are worked off as well.
SamplesEnd ==
    \A r \in Run, s \in Sample : task[r][s] = "waiting" ~> task[r][s] \in TaskEnded

=============================================================================
