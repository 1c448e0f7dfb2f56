------------------------------- MODULE Ledger -------------------------------
(***************************************************************************)
(* What the document API promises, told as a ledger: a request is answered *)
(* once, and whatever it does to files, retentions and the audit log it    *)
(* does in that one step.  One kind of request may take effect before it   *)
(* is answered: an upsert that finds the retention it is to set in force   *)
(* is settled there and then, and another upsert may come between that     *)
(* and its answer.  Nothing here knows of transactions, of locks, of       *)
(* Qdrant or of failures half way: a request that fails has done nothing.  *)
(* CorpusLedger shows that the handlers of Corpus keep to it.              *)
(***************************************************************************)
EXTENDS Naturals

CONSTANTS Req, DocId, Namespace, CollName, Writable, Calls, Found,
          NoDoc, NoColl, NoPeriod, Absent

VARIABLES
    call,           \* what each request asks for
    answer,         \* "none" until the request is answered
    file,           \* what was ever stored under an id: namespace, collection, content
    removed,        \* the ids among them that were removed since
    retention,      \* Absent, or the retention_days of a collection
    log,            \* requests in the audit log
    settled         \* upserts under way that have found their retention in force

vars == <<call, answer, file, removed, retention, log, settled>>

Init ==
    /\ call \in [Req -> Calls]
    /\ answer = [r \in Req |-> "none"]
    /\ file = [d \in DocId |-> NoDoc]
    /\ removed = {}
    /\ retention \in Found
    /\ log = {}
    /\ settled = {}

-----------------------------------------------------------------------------

Asks(r, ops) == answer[r] = "none" /\ call[r].op \in ops

Reply(r, a) ==
    /\ answer' = [answer EXCEPT ![r] = a]
    /\ settled' = settled \ {r}
    /\ call' = call

MayWrite(r, ns) == ns \in Writable[call[r].caller]

Key(r) == <<call[r].ns, call[r].coll>>

Stored(d) == file[d] # NoDoc /\ d \notin removed

Known(r) ==
    \E d \in DocId : /\ Stored(d)
                     /\ file[d].ns = call[r].ns /\ file[d].content = call[r].content

\* An ingest of a content its namespace does not have stores it under an id nothing
\* has used, in a collection that is there from now on.
Store(r) ==
    /\ Asks(r, {"ingest"}) /\ MayWrite(r, call[r].ns) /\ ~Known(r)
    /\ \E d \in DocId :
         /\ file[d] = NoDoc
         /\ file' = [file EXCEPT ![d] = [ns |-> call[r].ns, coll |-> call[r].coll,
                                         content |-> call[r].content]]
    /\ retention' = IF retention[Key(r)] = Absent
                    THEN [retention EXCEPT ![Key(r)] = NoPeriod] ELSE retention
    /\ Reply(r, "completed")
    /\ UNCHANGED <<removed, log>>

Skip(r) ==
    /\ Asks(r, {"ingest"}) /\ MayWrite(r, call[r].ns) /\ Known(r)
    /\ Reply(r, "skipped")
    /\ UNCHANGED <<file, removed, retention, log>>

\* What a removal may take, under its own name or by its filters.
InReach(r, d) ==
    /\ file[d] # NoDoc /\ MayWrite(r, file[d].ns)
    /\ call[r].op # "delete" => file[d].ns = call[r].ns
    /\ call[r].op = "purge" => call[r].coll \in {NoColl, file[d].coll}

\* A removal and its entry in the log are one; a document that another removal
\* has taken already may be removed again.
Remove(r) ==
    /\ Asks(r, {"delete", "expire", "purge"})
    /\ \E D \in SUBSET {d \in DocId : InReach(r, d)} :
         /\ call[r].op = "delete" => D = {call[r].doc}
         /\ removed' = removed \cup D
    /\ log' = log \cup {r}
    /\ Reply(r, "completed")
    /\ UNCHANGED <<file, retention>>

\* An upsert that has nothing to change takes effect when it finds that out.
Settle(r) ==
    /\ Asks(r, {"retain"}) /\ MayWrite(r, call[r].ns)
    /\ retention[Key(r)] = call[r].period
    /\ settled' = settled \cup {r}
    /\ UNCHANGED <<call, answer, file, removed, retention, log>>

\* Every other upsert takes effect when it is answered; none is lost.
SetRetention(r) ==
    /\ Asks(r, {"retain"}) /\ MayWrite(r, call[r].ns)
    /\ retention' = IF r \in settled THEN retention
                    ELSE [retention EXCEPT ![Key(r)] = call[r].period]
    /\ log' = log \cup {r}
    /\ Reply(r, "completed")
    /\ UNCHANGED <<file, removed>>

Preview(r) ==
    /\ Asks(r, {"preview"}) /\ MayWrite(r, call[r].ns)
    /\ Reply(r, "completed")
    /\ UNCHANGED <<file, removed, retention, log>>

NotFound(r) ==
    /\ Asks(r, {"delete"}) /\ ~Stored(call[r].doc)
    /\ Reply(r, "not_found")
    /\ UNCHANGED <<file, removed, retention, log>>

NoFilter(r) == call[r].coll = NoColl /\ call[r].period = NoPeriod

Refuse(r) ==
    /\ \/ /\ Asks(r, {"delete"})
          /\ Stored(call[r].doc) /\ ~MayWrite(r, file[call[r].doc].ns)
       \/ /\ Asks(r, {"ingest", "expire", "preview", "purge", "retain"})
          /\ ~MayWrite(r, call[r].ns)
       \/ Asks(r, {"preview", "purge"}) /\ NoFilter(r)
    /\ Reply(r, "refused")
    /\ UNCHANGED <<file, removed, retention, log>>

Fail(r) ==
    /\ answer[r] = "none"
    /\ Reply(r, "failed")
    /\ UNCHANGED <<file, removed, retention, log>>

Serve(r) ==
    \/ Store(r) \/ Skip(r) \/ Remove(r) \/ Settle(r) \/ SetRetention(r)
    \/ Preview(r) \/ NotFound(r) \/ Refuse(r) \/ Fail(r)

Next == \E r \in Req : Serve(r)

Spec == Init /\ [][Next]_vars

=============================================================================
