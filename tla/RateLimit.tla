----------------------------- MODULE RateLimit -----------------------------
(***************************************************************************)
(* RedisRateLimitMiddleware: a counter in Redis for each client address,   *)
(* counted up by INCR and given an expiry by the request that finds it     *)
(* new.  Addresses have keys of their own, so one client is modelled, with *)
(* as many requests in flight as there are members of Req.                 *)
(***************************************************************************)
EXTENDS Integers, FiniteSets

CONSTANTS
    Req,            \* requests of the client that can be in flight together
    Limit,          \* settings.RATE_LIMIT_PER_MINUTE
    Window,         \* the 60 seconds of the EXPIRE, in ticks
    MaxCount,       \* bound: the counter stays there
    MaxFailures,    \* bound on the requests that die between the two commands
    NoExpiry

\* A limit of 0 switches the middleware off.
ASSUME RateAssumption ==
    /\ Limit \in Nat \ {0} /\ Window \in Nat \ {0}
    /\ MaxCount \in Nat /\ MaxCount > Limit
    /\ MaxFailures \in Nat
    /\ NoExpiry \notin Int

VARIABLES
    count,          \* the counter; 0 when the key does not exist
    expiry,         \* ticks the key has still to live
    pc,             \* how far each request is
    number,         \* what INCR returned to it
    counted,        \* history: when INCR counted each request
    admitted,       \* history: the requests counted in the last Window ticks that have
                    \* been let through
    failures

vars == <<count, expiry, pc, number, counted, admitted, failures>>

\* A moment less than Window ago: how many lives of the key ago, and how many ticks.
Moment == [life : Nat, since : 0 .. Window - 1]
Now == [life |-> 0, since |-> 0]

\* Any moment before that.
LongAgo == [life |-> 0, since |-> Window]

\* A request let through, and the number it got.  No two get one number in one life,
\* the limit being below MaxCount.
Admission == [number : 1 .. MaxCount, counted : Moment]

TypeOK ==
    /\ count \in 0 .. MaxCount
    /\ expiry \in 1 .. Window \cup {NoExpiry}
    /\ pc \in [Req -> {"idle", "counted", "expired"}]
    /\ number \in [Req -> 0 .. MaxCount]
    /\ \A r \in Req : pc[r] # "idle" => number[r] > 0
    /\ counted \in [Req -> Moment \cup {LongAgo}]
    /\ admitted \subseteq Admission
    /\ failures \in 0 .. MaxFailures

Init ==
    /\ count = 0
    /\ expiry = NoExpiry
    /\ pc = [r \in Req |-> "idle"]
    /\ number = [r \in Req |-> 0]
    /\ counted = [r \in Req |-> Now]
    /\ admitted = {}
    /\ failures = 0

-----------------------------------------------------------------------------
Smaller(a, b) == IF a <= b THEN a ELSE b

\* Mutant: one request too many is let through.
LaterLimited(n) == n > Limit + 1
Limited(n) == n > Limit

\* Does this request set the expiry?
\* Mutants: every request does; the number a new counter gives is mistaken.
EveryRequest(n) == TRUE
CountsFromZero(n) == n = 0
FindsKeyNew(n) == n = 1

\* INCR: atomic, and creates a missing key without an expiry.
Count(r) ==
    /\ pc[r] = "idle"
    /\ count' = Smaller(count + 1, MaxCount)
    /\ number' = [number EXCEPT ![r] = count']
    /\ pc' = [pc EXCEPT ![r] = "counted"]
    /\ counted' = [counted EXCEPT ![r] = Now]
    /\ UNCHANGED <<expiry, admitted, failures>>

\* EXPIRE, which does nothing to a key that is gone.
SetExpiry(r) ==
    /\ pc[r] = "counted" /\ FindsKeyNew(number[r])
    /\ expiry' = IF count = 0 THEN expiry ELSE Window
    /\ pc' = [pc EXCEPT ![r] = "expired"]
    /\ UNCHANGED <<count, number, counted, admitted, failures>>

\* The request is over for the middleware.
Leave(r) ==
    /\ pc' = [pc EXCEPT ![r] = "idle"]
    /\ number' = [number EXCEPT ![r] = 0]
    /\ counted' = [counted EXCEPT ![r] = Now]
    /\ UNCHANGED <<count, expiry>>

\* The connection is closed, and the request answered with 429 or let through to the
\* rest of the application, however long ago it was counted.
Decide(r) ==
    /\ pc[r] = "expired" \/ (pc[r] = "counted" /\ ~FindsKeyNew(number[r]))
    /\ admitted' = IF Limited(number[r]) \/ counted[r] = LongAgo THEN admitted
                   ELSE admitted \cup {[number |-> number[r], counted |-> counted[r]]}
    /\ Leave(r)
    /\ UNCHANGED failures

\* An error of Redis or the end of the process, after the INCR.
Die(r) ==
    /\ pc[r] # "idle" /\ failures < MaxFailures
    /\ Leave(r)
    /\ failures' = failures + 1
    /\ UNCHANGED admitted

\* A moment one tick later.
Later(m) ==
    IF m.since + 1 >= Window THEN LongAgo
    ELSE [life |-> IF expiry = 1 THEN m.life + 1 ELSE m.life, since |-> m.since + 1]

\* Time passes, and Redis drops the key whose time has come.
Tick ==
    /\ IF expiry = 1 THEN count' = 0 /\ expiry' = NoExpiry
       ELSE /\ expiry' = IF expiry = NoExpiry THEN NoExpiry ELSE expiry - 1
            /\ UNCHANGED count
    /\ admitted' = {[a EXCEPT !.counted = Later(a.counted)] :
                       a \in {b \in admitted : b.counted.since + 1 < Window}}
    /\ counted' = [r \in Req |-> IF pc[r] = "idle" THEN Now ELSE Later(counted[r])]
    /\ UNCHANGED <<pc, number, failures>>

Next == (\E r \in Req : Count(r) \/ SetExpiry(r) \/ Decide(r) \/ Die(r)) \/ Tick

Spec == Init /\ [][Next]_vars

\* Handlers run on and time passes; clients need not send anything.  That Redis answers
\* or fails is assumed: its client is given no timeout.
FairSpec ==
    /\ Spec /\ WF_vars(Tick)
    /\ \A r \in Req : WF_vars(SetExpiry(r)) /\ WF_vars(Decide(r))

-----------------------------------------------------------------------------
\* Properties.

\* In any Window of time, also one across the expiry of a key, at most twice the
\* limit is let through of the requests counted in it: a key's window is fixed and not
\* sliding, so two of them may meet, but never three.  (What is let through besides was
\* counted before the Window began, and under way then.)
BurstBounded == Cardinality(admitted) <= 2 * Limit

Owing == {r \in Req : pc[r] = "counted" /\ FindsKeyNew(number[r])}

\* A key without an expiry is owed one by exactly one request in flight, unless a
\* request died; and no request is about to give one to a key that has it already,
\* or to a key it did not create.
ExpiryOwed ==
    /\ count > 0 /\ expiry = NoExpiry /\ failures = 0 => \E r \in Req : Owing = {r}
    /\ count = 0 \/ expiry # NoExpiry => Owing = {}

\* A key's life, once bounded, is not prolonged by the requests that follow, nor
\* does it lose its expiry before it is gone.
WindowFixed ==
    [][expiry # NoExpiry /\ count' # 0
       => expiry' # NoExpiry /\ expiry' <= expiry]_vars

\* A client over the limit is let in again, however many requests it keeps sending,
\* unless one of them dies.
LimitLiftsUnlessDied == count > Limit ~> (count = 0 \/ failures > 0)

-----------------------------------------------------------------------------
\* What the configuration says and the code does not do.

\* "RATE_LIMIT_PER_MINUTE=120": the limit is one per minute, so a client over it is
\* let in again.
LimitLifts == count > Limit ~> count = 0

=============================================================================
