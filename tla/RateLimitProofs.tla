-------------------------- MODULE RateLimitProofs --------------------------
(***************************************************************************)
(* The rate limiter: types, the ownership of the expiry, and the bound on  *)
(* bursts.                                                                 *)
(***************************************************************************)
EXTENDS RateLimit, FiniteSetTheorems, TLAPS

\* A missing key has no expiry, one request at most owes an expiry, and unless a
\* request died a key without expiry is owed one.
Ownership ==
    /\ count = 0 => expiry = NoExpiry
    /\ count = 0 \/ expiry # NoExpiry => Owing = {}
    /\ \A r, q \in Owing : r = q
    /\ count > 0 /\ expiry = NoExpiry /\ failures = 0 => Owing # {}

\* A moment in the window is a tick further from now after a tick, and a life of the
\* key further if the key went; one that leaves the window is not told from others.
LEMMA LaterMoment ==
    ASSUME RateAssumption, NEW m \in Moment \cup {LongAgo}
    PROVE  /\ Later(m) \in Moment \cup {LongAgo}
           /\ Later(m) # LongAgo =>
                /\ m \in Moment /\ m # LongAgo /\ m.since + 1 < Window
                /\ Later(m).since = m.since + 1
                /\ Later(m).life = IF expiry = 1 THEN m.life + 1 ELSE m.life
           /\ m \in Moment /\ m.since + 1 < Window => Later(m) \in Moment
<1> USE RateAssumption
<1>1. CASE m = LongAgo
  <2>1. m.since = Window /\ m.since + 1 >= Window
    BY <1>1 DEF LongAgo
  <2>2. Later(m) = LongAgo /\ m \notin Moment
    BY <2>1 DEF Later, Moment
  <2> QED BY <2>1, <2>2
<1>2. CASE m \in Moment
  <2>1. m.since \in 0 .. Window - 1 /\ m.life \in Nat /\ m # LongAgo
    BY <1>2 DEF Moment, LongAgo
  <2>2. CASE m.since + 1 >= Window
    BY <2>1, <2>2 DEF Later
  <2>3. CASE m.since + 1 < Window
    <3> DEFINE life == IF expiry = 1 THEN m.life + 1 ELSE m.life
    <3>1. Later(m) = [life |-> life, since |-> m.since + 1]
      BY <2>1, <2>3 DEF Later
    <3>2. life \in Nat /\ m.since + 1 \in 0 .. Window - 1
      BY <2>1, <2>3
    <3>3. Later(m) \in Moment
      BY <3>1, <3>2 DEF Moment
    <3> QED BY <1>2, <2>1, <2>3, <3>1, <3>3
  <2> QED BY <2>1, <2>2, <2>3
<1> QED BY <1>1, <1>2

\* The type invariant: the counter stays within its bound, the expiry within the
\* window, and a request counted has a number.
THEOREM TypeCorrect == Spec => []TypeOK
<1>1. Init => TypeOK
  BY RateAssumption DEF Init, TypeOK, Moment, Now
<1>2. TypeOK /\ [Next]_vars => TypeOK'
  <2> SUFFICES ASSUME TypeOK, [Next]_vars PROVE TypeOK'
    OBVIOUS
  <2> USE RateAssumption DEF TypeOK
  <2>0. Now \in Moment
    BY DEF Now, Moment
  <2>1. ASSUME NEW r \in Req, Count(r) PROVE TypeOK'
    <3>1. count' \in 1 .. MaxCount
      BY <2>1 DEF Count, Smaller
    <3> QED BY <2>0, <2>1, <3>1 DEF Count
  <2>2. ASSUME NEW r \in Req, SetExpiry(r) PROVE TypeOK'
    BY <2>2 DEF SetExpiry
  <2>3. ASSUME NEW r \in Req, Leave(r) PROVE (count \in 0 .. MaxCount
               /\ expiry \in 1 .. Window \cup {NoExpiry}
               /\ pc \in [Req -> {"idle", "counted", "expired"}]
               /\ number \in [Req -> 0 .. MaxCount]
               /\ (\A q \in Req : pc[q] # "idle" => number[q] > 0)
               /\ counted \in [Req -> Moment \cup {LongAgo}])'
    BY <2>0, <2>3 DEF Leave
  <2>4. ASSUME NEW r \in Req, Decide(r) PROVE TypeOK'
    <3>1. counted[r] # LongAgo =>
            [number |-> number[r], counted |-> counted[r]] \in Admission
      BY <2>4 DEF Decide, Admission
    <3>2. admitted' \subseteq Admission
      BY <2>4, <3>1 DEF Decide
    <3>3. Leave(r) /\ UNCHANGED failures
      BY <2>4 DEF Decide
    <3> QED BY <2>3, <3>2, <3>3
  <2>5. ASSUME NEW r \in Req, Die(r) PROVE TypeOK'
    <3>1. Leave(r) /\ failures' = failures + 1 /\ failures < MaxFailures /\ UNCHANGED admitted
      BY <2>5 DEF Die
    <3> QED BY <2>3, <3>1
  <2>6. CASE Tick
    <3>1. \A a \in admitted : a.number \in 1 .. MaxCount /\ a.counted \in Moment
      BY DEF Admission
    <3>2. \A a \in admitted : a.counted.since + 1 < Window =>
             [a EXCEPT !.counted = Later(a.counted)] \in Admission
      BY <3>1, LaterMoment DEF Admission
    <3>3. admitted' \subseteq Admission
      BY <2>6, <3>2 DEF Tick
    <3>4. counted' \in [Req -> Moment \cup {LongAgo}]
      BY <2>0, <2>6, LaterMoment DEF Tick
    <3> QED BY <2>6, <3>3, <3>4 DEF Tick
  <2>7. CASE UNCHANGED vars
    BY <2>7 DEF vars
  <2> QED BY <2>1, <2>2, <2>4, <2>5, <2>6, <2>7 DEF Next
<1> QED BY <1>1, <1>2, PTL DEF Spec

LEMMA OwnershipStep ==
    ASSUME TypeOK, Ownership, [Next]_vars
    PROVE  Ownership'
<1> USE RateAssumption DEF TypeOK, Ownership
<1>1. ASSUME NEW r \in Req, Count(r) PROVE Ownership'
  <2>1. CASE count = 0
    <3>1. count' = 1 /\ Owing' = {r} /\ expiry' = NoExpiry
      BY <1>1, <2>1 DEF Count, Smaller, Owing, FindsKeyNew
    <3> QED BY <3>1
  <2>2. CASE count # 0
    <3>1. count' \in Nat /\ count' > 1
      BY <1>1, <2>2 DEF Count, Smaller
    <3>2. Owing' = Owing
      BY <1>1, <3>1 DEF Count, Owing, FindsKeyNew
    <3>3. UNCHANGED <<expiry, failures>>
      BY <1>1 DEF Count
    <3> QED BY <2>2, <3>1, <3>2, <3>3
  <2> QED BY <2>1, <2>2
<1>2. ASSUME NEW r \in Req, SetExpiry(r) PROVE Ownership'
  <2>1. r \in Owing
    BY <1>2 DEF SetExpiry, Owing
  <2>2. count # 0 /\ expiry = NoExpiry
    BY <2>1
  <2>3. Owing' = {}
    BY <1>2, <2>1 DEF SetExpiry, Owing
  <2>4. expiry' = Window /\ count' = count /\ Window # NoExpiry
    BY <1>2, <2>2 DEF SetExpiry
  <2> QED BY <2>2, <2>3, <2>4
<1>3. ASSUME NEW r \in Req, Decide(r) PROVE Ownership'
  <2>1. Owing' = Owing /\ UNCHANGED <<count, expiry, failures>>
    BY <1>3 DEF Decide, Leave, Owing
  <2> QED BY <2>1
<1>4. ASSUME NEW r \in Req, Die(r) PROVE Ownership'
  <2>1. Owing' \subseteq Owing /\ UNCHANGED <<count, expiry>> /\ failures' > 0
    BY <1>4 DEF Die, Leave, Owing
  <2> QED BY <2>1
<1>5. CASE Tick
  <2>1. Owing' = Owing /\ UNCHANGED failures
    BY <1>5 DEF Tick, Owing
  <2>2. CASE expiry = 1
    <3>1. count' = 0 /\ expiry' = NoExpiry /\ Owing = {}
      BY <1>5, <2>2 DEF Tick
    <3> QED BY <2>1, <3>1
  <2>3. CASE expiry # 1
    <3>1. count' = count /\ (expiry' = NoExpiry <=> expiry = NoExpiry)
      BY <1>5, <2>3 DEF Tick
    <3> QED BY <2>1, <3>1
  <2> QED BY <2>2, <2>3
<1>6. CASE UNCHANGED vars
  <2>1. Owing' = Owing /\ UNCHANGED <<count, expiry, failures>>
    BY <1>6 DEF vars, Owing
  <2> QED BY <2>1
<1> QED BY <1>1, <1>2, <1>3, <1>4, <1>5, <1>6 DEF Next

THEOREM OwnershipAlways == Spec => []Ownership
<1>1. Init => Ownership
  BY DEF Init, Ownership, Owing
<1> QED BY <1>1, OwnershipStep, TypeCorrect, PTL DEF Spec

\* A key without an expiry is owed one by exactly one request, unless a request
\* died, and nobody is about to prolong a key that has one.
THEOREM ExpiryOwedAlways == Spec => []ExpiryOwed
<1>1. TypeOK /\ Ownership => ExpiryOwed
  <2> SUFFICES ASSUME TypeOK, Ownership, count > 0, expiry = NoExpiry, failures = 0
               PROVE  \E r \in Req : Owing = {r}
    BY DEF ExpiryOwed, Ownership
  <2>1. PICK r \in Owing : TRUE
    BY DEF Ownership
  <2>2. r \in Req /\ Owing = {r}
    BY <2>1 DEF Ownership, Owing
  <2> QED BY <2>2
<1> QED BY <1>1, TypeCorrect, OwnershipAlways, PTL

\* The life of a key is fixed by its first request.
THEOREM WindowFixedAlways == Spec => WindowFixed
<1> DEFINE A == expiry # NoExpiry /\ count' # 0
                => expiry' # NoExpiry /\ expiry' <= expiry
<1>1. TypeOK /\ Ownership /\ [Next]_vars => [A]_vars
  <2> SUFFICES ASSUME TypeOK, Ownership, Next, expiry # NoExpiry, count' # 0
               PROVE  expiry' # NoExpiry /\ expiry' <= expiry
    OBVIOUS
  <2> USE RateAssumption DEF TypeOK
  <2>1. ASSUME NEW r \in Req, SetExpiry(r) PROVE FALSE
    BY <2>1 DEF SetExpiry, Ownership, Owing
  <2>2. ASSUME NEW r \in Req, Count(r) \/ Decide(r) \/ Die(r) PROVE expiry' = expiry
    BY <2>2 DEF Count, Decide, Die, Leave
  <2>3. CASE Tick
    BY <2>3 DEF Tick
  <2> QED BY <2>1, <2>2, <2>3 DEF Next
<1> QED BY <1>1, TypeCorrect, OwnershipAlways, PTL DEF Spec, WindowFixed

-----------------------------------------------------------------------------
\* The requests that may yet be let through of those counted in the window, and the
\* number and moment each was given.
Pending == {r \in Req : pc[r] # "idle" /\ ~Limited(number[r]) /\ counted[r] # LongAgo}
Ticket(r) == [number |-> number[r], counted |-> counted[r]]

\* Two of them that got one number in one life of the key.
Same(a, b) == a.number = b.number /\ a.counted.life = b.counted.life

\* What was counted in the window was counted in the present life of the key or in
\* the last one, then longer ago than the present one's expiry will take to come.
Recent(t) ==
    /\ t.counted.life \in {0, 1} /\ t.number <= Limit
    /\ t.counted.life = 0 => t.number <= count
    /\ expiry # NoExpiry /\ t.counted.life = 1 => t.counted.since + expiry >= Window

\* What is let through in a window, or may yet be, was counted in two lives of the
\* key, and in a life each request has a number of its own, up to the limit.
Admissions ==
    /\ \A a \in admitted : Recent(a)
    /\ \A r \in Pending : Recent(Ticket(r))
    /\ \A a, b \in admitted : Same(a, b) => a = b
    /\ \A r \in Pending, a \in admitted : ~Same(Ticket(r), a)
    /\ \A r, q \in Pending : Same(Ticket(r), Ticket(q)) => r = q

\* A tick keeps a ticket that stays in the window recent, and does not make two
\* tickets of different numbers or lives the same.
LEMMA TickRecent ==
    ASSUME TypeOK, Ownership, Tick,
           NEW t, NEW u, t.number \in Nat, t.counted \in Moment \cup {LongAgo}, Recent(t),
           u.number = t.number, u.counted = Later(t.counted), u.counted # LongAgo
    PROVE  /\ Recent(u)' /\ t.counted.life \in {0, 1}
           /\ u.counted.life = IF expiry = 1 THEN 1 ELSE t.counted.life
           /\ expiry = 1 => t.counted.life = 0
<1> USE RateAssumption
<1>1. /\ t.counted \in Moment /\ t.counted.since + 1 < Window
      /\ u.counted.since = t.counted.since + 1
      /\ u.counted.life = IF expiry = 1 THEN t.counted.life + 1 ELSE t.counted.life
  BY LaterMoment
<1>2. t.counted.since \in Nat /\ t.counted.life \in {0, 1} /\ Window \in Nat
  BY <1>1 DEF Moment, Recent
<1>3. CASE expiry = 1
  <2>1. count' = 0 /\ expiry' = NoExpiry /\ 1 # NoExpiry
    BY <1>3 DEF Tick
  <2>2. t.counted.life = 0
    BY <1>1, <1>2, <1>3, <2>1 DEF Recent
  <2> QED BY <1>1, <1>2, <1>3, <2>1, <2>2 DEF Recent
<1>4. CASE expiry # 1
  <2>1. /\ count' = count
        /\ expiry = NoExpiry => expiry' = NoExpiry
        /\ expiry # NoExpiry => expiry \in Nat /\ expiry' = expiry - 1
    BY <1>4 DEF Tick, TypeOK
  <2> QED BY <1>1, <1>2, <1>4, <2>1 DEF Recent
<1> QED BY <1>3, <1>4

LEMMA AdmissionsStep ==
    ASSUME TypeOK, Ownership, Admissions, [Next]_vars
    PROVE  Admissions'
<1> USE RateAssumption
<1>0. /\ \A a \in admitted : a.number \in Nat /\ a.counted \in Moment
      /\ \A r \in Pending : /\ r \in Req /\ counted[r] # LongAgo
                            /\ number[r] \in Nat /\ counted[r] \in Moment
      /\ \A m \in Moment : m.life \in Nat /\ m.since \in Nat /\ m # LongAgo
      /\ \A r : Ticket(r).number = number[r] /\ Ticket(r).counted = counted[r]
  BY DEF TypeOK, Admission, Pending, Ticket, Moment, LongAgo
<1>1. ASSUME NEW r \in Req, Count(r) PROVE Admissions'
  <2>1. /\ count \in Nat /\ count' \in 1 .. MaxCount /\ expiry' = expiry
        /\ count <= count' /\ (count' <= Limit => count' = count + 1)
        /\ admitted' = admitted
    BY <1>1 DEF Count, Smaller, TypeOK
  <2>2. /\ r \notin Pending /\ Pending' \subseteq Pending \cup {r}
        /\ number'[r] = count' /\ counted'[r] = Now
        /\ \A q \in Pending : number'[q] = number[q] /\ counted'[q] = counted[q]
    BY <1>1 DEF Count, Pending, TypeOK
  <2>3. \A q \in Pending : Ticket(q)' = Ticket(q)
    BY <2>2 DEF Ticket
  <2>4. ASSUME NEW t, t.number \in Nat, t.counted \in Moment, Recent(t)
        PROVE  Recent(t)' /\ (count' <= Limit /\ t.counted.life = 0 => t.number < count')
    BY <1>0, <2>1, <2>4 DEF Recent
  <2>5. \A a \in admitted : Recent(a)' /\ (count' <= Limit /\ a.counted.life = 0 => a.number < count')
    BY <1>0, <2>4 DEF Admissions
  <2>6. \A q \in Pending : /\ Recent(Ticket(q))'
                           /\ count' <= Limit /\ counted[q].life = 0 => number[q] < count'
    <3> SUFFICES ASSUME NEW q \in Pending
                 PROVE  /\ Recent(Ticket(q))'
                        /\ count' <= Limit /\ counted[q].life = 0 => number[q] < count'
      OBVIOUS
    <3>1. Recent(Ticket(q)) /\ Ticket(q).number \in Nat /\ Ticket(q).counted \in Moment
      BY <1>0 DEF Admissions
    <3> HIDE DEF Ticket
    <3>2. \A t : t = Ticket(q) => (Recent(t)' /\ (count' <= Limit /\ t.counted.life = 0 => t.number < count'))
      BY <2>4, <3>1
    <3> QED BY <1>0, <2>3, <3>2 DEF Recent
  <2>7. r \in Pending' =>
          count' <= Limit /\ Ticket(r)'.number = count' /\ Ticket(r)'.counted = Now
    BY <2>1, <2>2 DEF Pending, Limited, Ticket
  <2>8. r \in Pending' => Recent(Ticket(r))'
    BY <2>1, <2>7 DEF Recent, Now
  <2>9. Now.life = 0
    BY DEF Now
  <2>10. r \in Pending' =>
           /\ \A a \in admitted : ~Same(Ticket(r)', a)
           /\ \A q \in Pending : ~Same(Ticket(r)', Ticket(q)) /\ ~Same(Ticket(q), Ticket(r)')
    BY <1>0, <2>1, <2>5, <2>6, <2>7, <2>9 DEF Same
  <2> HIDE DEF Pending
  <2>11. \A a \in admitted' : Recent(a)'
    BY <2>1, <2>5
  <2>12. \A q \in Pending' : Recent(Ticket(q))'
    BY <2>2, <2>6, <2>8
  <2>13. \A a, b \in admitted' : Same(a, b) => a = b
    BY <2>1 DEF Admissions
  <2>14. \A q \in Pending', a \in admitted' : ~Same(Ticket(q)', a)
    BY <2>1, <2>2, <2>3, <2>10 DEF Admissions
  <2>15. \A q, p \in Pending' : Same(Ticket(q)', Ticket(p)') => q = p
    BY <2>2, <2>3, <2>10 DEF Admissions
  <2> QED BY <2>11, <2>12, <2>13, <2>14, <2>15 DEF Admissions, Same
<1>2. ASSUME NEW r \in Req, SetExpiry(r) PROVE Admissions'
  <2>1. expiry' = Window /\ UNCHANGED <<count, admitted, number, counted>>
    BY <1>2 DEF SetExpiry, Ownership, Owing
  <2>2. Pending' = Pending /\ \A q : Ticket(q)' = Ticket(q)
    BY <1>2, <2>1 DEF SetExpiry, Pending, Ticket, TypeOK
  <2>3. ASSUME NEW t, t.counted \in Moment, Recent(t) PROVE Recent(t)'
    BY <1>0, <2>1, <2>3 DEF Recent
  <2>4. \A a \in admitted : Recent(a)'
    BY <1>0, <2>3 DEF Admissions
  <2>5. \A q \in Pending : Recent(Ticket(q))'
    BY <1>0, <2>1, <2>2 DEF Admissions, Recent
  <2> QED BY <2>1, <2>2, <2>4, <2>5 DEF Admissions, Same
<1>3. ASSUME NEW r \in Req, Leave(r),
             admitted' \subseteq admitted \cup {t \in {Ticket(r)} : r \in Pending}
      PROVE  Admissions'
  <2>1. UNCHANGED <<count, expiry>>
    BY <1>3 DEF Leave
  <2>2. Pending' \subseteq Pending \ {r} /\ \A q \in Pending' : Ticket(q)' = Ticket(q)
    BY <1>3 DEF Leave, Pending, Ticket, TypeOK
  <2>3. \A a \in admitted' : a \in admitted \/ (r \in Pending /\ a = Ticket(r))
    BY <1>3
  <2>4. \A a \in admitted' : Recent(a)'
    BY <2>1, <2>3 DEF Admissions, Recent
  <2>5. \A q \in Pending' : Recent(Ticket(q))'
    BY <2>1, <2>2 DEF Admissions, Recent
  <2>6. \A a, b \in admitted' : Same(a, b) => a = b
    BY <2>3 DEF Admissions, Same
  <2>7. \A q \in Pending', a \in admitted' : ~Same(Ticket(q)', a)
    BY <2>2, <2>3 DEF Admissions
  <2>8. \A q, p \in Pending' : Same(Ticket(q)', Ticket(p)') => q = p
    BY <2>2 DEF Admissions
  <2> QED BY <2>4, <2>5, <2>6, <2>7, <2>8 DEF Admissions, Same
<1>4. ASSUME NEW r \in Req, Decide(r) \/ Die(r) PROVE Admissions'
  <2>1. Leave(r)
    BY <1>4 DEF Decide, Die
  <2>2. admitted' \subseteq admitted \cup {t \in {Ticket(r)} : r \in Pending}
    BY <1>4 DEF Decide, Die, Pending, Ticket
  <2> QED BY <1>3, <2>1, <2>2
<1>5. CASE Tick
  <2>1. /\ admitted' = {[a EXCEPT !.counted = Later(a.counted)] :
                           a \in {b \in admitted : b.counted.since + 1 < Window}}
        /\ counted' = [q \in Req |-> IF pc[q] = "idle" THEN Now ELSE Later(counted[q])]
        /\ number' = number /\ pc' = pc
    BY <1>5 DEF Tick
  <2> DEFINE Old(a, b) == /\ b.number = a.number /\ a.counted.since + 1 < Window
                          /\ b.counted = Later(a.counted) /\ b.counted # LongAgo
                          /\ a.counted \in Moment /\ a.number \in Nat
  <2>2. \A b \in admitted' : \E a \in admitted :
           Old(a, b) /\ b = [a EXCEPT !.counted = Later(a.counted)]
    <3> SUFFICES ASSUME NEW a \in admitted, a.counted.since + 1 < Window
                 PROVE  Old(a, [a EXCEPT !.counted = Later(a.counted)])
      BY <2>1
    <3>1. a \in Admission /\ a.counted \in Moment
      BY DEF TypeOK, Admission
    <3>2. Later(a.counted) \in Moment
      BY <3>1, LaterMoment
    <3> QED BY <1>0, <3>1, <3>2 DEF Admission
  <2>3. \A q \in Pending' : q \in Pending /\ Old(Ticket(q), Ticket(q)')
    <3> SUFFICES ASSUME NEW q \in Pending' PROVE q \in Pending /\ Old(Ticket(q), Ticket(q)')
      OBVIOUS
    <3>1. q \in Req /\ pc[q] # "idle" /\ ~Limited(number[q]) /\ counted'[q] # LongAgo
      BY <2>1 DEF Pending
    <3>2. counted'[q] = Later(counted[q]) /\ counted[q] \in Moment \cup {LongAgo}
      BY <2>1, <3>1 DEF TypeOK
    <3>3. counted[q] \in Moment /\ counted[q] # LongAgo /\ counted[q].since + 1 < Window
      BY <3>1, <3>2, LaterMoment
    <3>4. q \in Pending /\ number[q] \in Nat
      BY <3>1, <3>3 DEF Pending, TypeOK
    <3> QED BY <2>1, <3>1, <3>2, <3>3, <3>4 DEF Ticket
  <2> HIDE DEF Old
  <2>4. ASSUME NEW a, NEW b, Recent(a), Old(a, b)
        PROVE  Recent(b)' /\ a.counted.life \in {0, 1} /\ b.number = a.number
               /\ b.counted.life = (IF expiry = 1 THEN 1 ELSE a.counted.life)
               /\ (expiry = 1 => a.counted.life = 0)
    <3>1. /\ b.number = a.number /\ b.counted = Later(a.counted) /\ b.counted # LongAgo
          /\ a.counted \in Moment \cup {LongAgo} /\ a.number \in Nat
      BY <2>4 DEF Old
    <3> QED BY <1>5, <2>4, <3>1, TickRecent
  <2>5. ASSUME NEW a, NEW b, NEW c, NEW d, Recent(a), Old(a, b), Recent(c), Old(c, d), Same(b, d)
        PROVE  Same(a, c)
    <3>1. /\ b.number = a.number /\ a.counted.life \in {0, 1}
          /\ b.counted.life = (IF expiry = 1 THEN 1 ELSE a.counted.life)
          /\ (expiry = 1 => a.counted.life = 0)
      BY <2>4, <2>5
    <3>2. /\ d.number = c.number /\ c.counted.life \in {0, 1}
          /\ d.counted.life = (IF expiry = 1 THEN 1 ELSE c.counted.life)
          /\ (expiry = 1 => c.counted.life = 0)
      BY <2>4, <2>5
    <3> QED BY <2>5, <3>1, <3>2 DEF Same
  <2>6. \A b \in admitted' : Recent(b)'
    BY <2>2, <2>4 DEF Admissions
  <2>7. \A q \in Pending' : Recent(Ticket(q))'
    <3> SUFFICES ASSUME NEW q \in Pending' PROVE Recent(Ticket(q))'
      OBVIOUS
    <3>1. Recent(Ticket(q)) /\ Old(Ticket(q), Ticket(q)')
      BY <2>3 DEF Admissions
    <3>2. \A b : b = Ticket(q)' => Recent(b)'
      BY <2>4, <3>1
    <3> QED BY <3>2 DEF Recent
  <2>8. \A b, d \in admitted' : Same(b, d) => b = d
    <3> SUFFICES ASSUME NEW b \in admitted', NEW d \in admitted', Same(b, d) PROVE b = d
      OBVIOUS
    <3>1. PICK a \in admitted : Old(a, b) /\ b = [a EXCEPT !.counted = Later(a.counted)]
      BY <2>2
    <3>2. PICK c \in admitted : Old(c, d) /\ d = [c EXCEPT !.counted = Later(c.counted)]
      BY <2>2
    <3>3. Same(a, c)
      BY <2>5, <3>1, <3>2 DEF Admissions
    <3>4. a = c
      BY <3>3 DEF Admissions
    <3> QED BY <3>1, <3>2, <3>4
  <2>9. \A q \in Pending', b \in admitted' : ~Same(Ticket(q)', b)
    <3> SUFFICES ASSUME NEW q \in Pending', NEW b \in admitted', Same(Ticket(q)', b) PROVE FALSE
      OBVIOUS
    <3>1. PICK a \in admitted : Old(a, b)
      BY <2>2
    <3>2. Recent(a) /\ Recent(Ticket(q)) /\ q \in Pending /\ Old(Ticket(q), Ticket(q)')
      BY <2>3 DEF Admissions
    <3>3. Same(Ticket(q), a)
      BY <2>5, <3>1, <3>2
    <3> QED BY <3>2, <3>3 DEF Admissions
  <2>10. \A q, p \in Pending' : Same(Ticket(q)', Ticket(p)') => q = p
    <3> SUFFICES ASSUME NEW q \in Pending', NEW p \in Pending', Same(Ticket(q)', Ticket(p)')
                 PROVE  q = p
      OBVIOUS
    <3>1. /\ Recent(Ticket(q)) /\ q \in Pending /\ Old(Ticket(q), Ticket(q)')
          /\ Recent(Ticket(p)) /\ p \in Pending /\ Old(Ticket(p), Ticket(p)')
      BY <2>3 DEF Admissions
    <3>2. Same(Ticket(q), Ticket(p))
      BY <2>5, <3>1
    <3> QED BY <3>1, <3>2 DEF Admissions
  <2> QED BY <2>6, <2>7, <2>8, <2>9, <2>10 DEF Admissions, Same
<1>6. CASE UNCHANGED vars
  BY <1>6 DEF vars, Admissions, Pending, Ticket, Recent, Same
<1> QED BY <1>1, <1>2, <1>4, <1>5, <1>6 DEF Next

THEOREM AdmissionsAlways == Spec => []Admissions
<1>1. Init => Admissions
  BY DEF Init, Admissions, Pending
<1>2. TypeOK /\ Ownership /\ Admissions /\ [Next]_vars => Admissions'
  BY AdmissionsStep
<1> QED BY <1>1, <1>2, TypeCorrect, OwnershipAlways, PTL DEF Spec

\* Of the requests counted in any window of time, at most twice the limit is let
\* through in it, whatever the limit, the window, the number of requests in flight,
\* the time each takes and the deaths: the admissions map one to one to the numbers
\* of two lives of the key.
THEOREM BurstBoundedAlways == Spec => []BurstBounded
<1>1. TypeOK /\ Admissions => BurstBounded
  <2> SUFFICES ASSUME TypeOK, Admissions PROVE Cardinality(admitted) <= 2 * Limit
    BY DEF BurstBounded
  <2> USE RateAssumption
  <2> DEFINE Numbers == {0, 1} \X (1 .. Limit)
             f == [a \in admitted |-> <<a.counted.life, a.number>>]
  <2>1. f \in Injection(admitted, Numbers)
    <3>1. \A a \in admitted : <<a.counted.life, a.number>> \in Numbers
      BY DEF Admissions, Recent, TypeOK, Admission
    <3>2. \A a, b \in admitted : f[a] = f[b] => a = b
      BY DEF Admissions, Same
    <3> QED BY <3>1, <3>2 DEF Injection, IsInjective
  <2>2. IsFiniteSet(Numbers) /\ Cardinality(Numbers) = 2 * Limit
    <3>1. IsFiniteSet({0, 1}) /\ Cardinality({0, 1}) = 2
      <4>1. IsFiniteSet({0}) /\ Cardinality({0}) = 1
        BY FS_Singleton
      <4>2. {0, 1} = {0} \cup {1} /\ 1 \notin {0}
        OBVIOUS
      <4>3. IsFiniteSet({0} \cup {1}) /\ Cardinality({0} \cup {1}) = Cardinality({0}) + 1
        BY <4>1, <4>2, FS_AddElement
      <4> QED BY <4>1, <4>2, <4>3
    <3>2. IsFiniteSet(1 .. Limit) /\ Cardinality(1 .. Limit) = Limit
      BY FS_Interval
    <3>3. /\ IsFiniteSet({0, 1} \X (1 .. Limit))
          /\ Cardinality({0, 1} \X (1 .. Limit))
               = Cardinality({0, 1}) * Cardinality(1 .. Limit)
      BY <3>1, <3>2, FS_Product
    <3> QED BY <3>1, <3>2, <3>3
  <2> HIDE DEF Numbers, f
  <2>3. IsFiniteSet(admitted) /\ Cardinality(admitted) <= Cardinality(Numbers)
    BY <2>1, <2>2, FS_Injection
  <2> QED BY <2>2, <2>3
<1> QED BY <1>1, TypeCorrect, AdmissionsAlways, PTL

=============================================================================
