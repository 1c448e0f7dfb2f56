--------------------------- MODULE RankingProofs ---------------------------
(***************************************************************************)
(* Theorems about Ranking, for any number of chunks, any scores and any    *)
(* sizes of the lists.                                                     *)
(***************************************************************************)
EXTENDS Ranking, SequenceTheorems, FiniteSetTheorems, TLAPS

-----------------------------------------------------------------------------
\* The lesser of two numbers.
LEMMA LesserOf ==
    ASSUME NEW m \in Int, NEW n \in Int
    PROVE  /\ Min({m, n}) = IF m <= n THEN m ELSE n
           /\ Min({m, n}) \in {m, n} /\ Min({m, n}) <= m /\ Min({m, n}) <= n
<1> DEFINE l == IF m <= n THEN m ELSE n
<1>1. l \in {m, n} /\ \A y \in {m, n} : l <= y
  OBVIOUS
<1>2. \A x \in {m, n} : (\A y \in {m, n} : x <= y) => x = l
  OBVIOUS
<1>3. Min({m, n}) = l
  BY <1>1, <1>2 DEF Min
<1> QED BY <1>1, <1>3

LEMMA UpTo ==
    ASSUME NEW n \in Nat
    PROVE  IsFiniteSet(1 .. n) /\ Cardinality(1 .. n) = n
BY FS_Interval

-----------------------------------------------------------------------------
\* Ordering.

\* When "ahead of" is a strict total order, InOrder lists each member once and has
\* what is ahead of a member before it: members that have different ones ahead of
\* them have different numbers of them.
LEMMA InOrderSorts ==
    ASSUME NEW P, IsFiniteSet(P), NEW ahead,
           \A i \in P : ahead[i] \subseteq P /\ i \notin ahead[i],
           \A i, j \in P : i # j => i \in ahead[j] \/ j \in ahead[i],
           \A i, j \in P : j \in ahead[i] => ahead[j] \subseteq ahead[i]
    PROVE  /\ Cardinality(P) \in Nat
           /\ InOrder(P, ahead) \in [1 .. Cardinality(P) -> P]
           /\ \A k, l \in 1 .. Cardinality(P) :
                 k < l => InOrder(P, ahead)[k] \in ahead[InOrder(P, ahead)[l]]
           /\ \A i \in P : \E k \in 1 .. Cardinality(P) : InOrder(P, ahead)[k] = i
<1> DEFINE n == Cardinality(P)
           order == InOrder(P, ahead)
           rank == [i \in P |-> Cardinality(ahead[i]) + 1]
<1>1. n \in Nat
  BY FS_CardinalityType
<1>2. \A i \in P : IsFiniteSet(ahead[i]) /\ Cardinality(ahead[i]) \in Nat
  BY FS_Subset, FS_CardinalityType
<1>3. ASSUME NEW i \in P PROVE Cardinality(ahead[i]) + 1 \in 1 .. n
  <2>1. ahead[i] \subseteq P /\ ahead[i] # P
    OBVIOUS
  <2>2. Cardinality(ahead[i]) <= n /\ Cardinality(ahead[i]) # n
    BY <2>1, FS_Subset
  <2> QED BY <1>1, <1>2, <2>2
<1>4. ASSUME NEW i \in P, NEW j \in P, j \in ahead[i]
      PROVE  Cardinality(ahead[j]) < Cardinality(ahead[i])
  <2>1. ahead[j] \subseteq ahead[i] /\ ahead[j] # ahead[i]
    BY <1>4
  <2>2. /\ Cardinality(ahead[j]) <= Cardinality(ahead[i])
        /\ Cardinality(ahead[j]) # Cardinality(ahead[i])
    BY <1>2, <2>1, FS_Subset
  <2> QED BY <1>2, <2>2
<1>5. rank \in Injection(P, 1 .. n)
  <2>1. rank \in [P -> 1 .. n]
    BY <1>3
  <2>2. ASSUME NEW i \in P, NEW j \in P, rank[i] = rank[j] PROVE i = j
    <3>1. Cardinality(ahead[i]) = Cardinality(ahead[j])
      BY <1>2, <2>2
    <3> QED BY <1>2, <1>4, <3>1
  <2> QED BY <2>1, <2>2 DEF Injection, IsInjective
<1>6. rank \in Surjection(P, 1 .. n)
  <2>1. IsFiniteSet(1 .. n) /\ Cardinality(1 .. n) = n
    BY <1>1, FS_Interval
  <2> HIDE DEF rank
  <2> QED BY <1>5, <2>1, FS_Injection
<1>7. ASSUME NEW k \in 1 .. n PROVE \E i \in P : Cardinality(ahead[i]) = k - 1
  <2>1. PICK i \in P : rank[i] = k
    BY <1>6 DEF Surjection
  <2> QED BY <1>2, <2>1
<1>8. \A k \in 1 .. n : order[k] \in P /\ Cardinality(ahead[order[k]]) = k - 1
  BY <1>7 DEF InOrder
<1>9. order \in [1 .. n -> P]
  BY <1>8 DEF InOrder
<1> HIDE DEF order
<1>10. ASSUME NEW k \in 1 .. n, NEW l \in 1 .. n, k < l
       PROVE  order[k] \in ahead[order[l]]
  <2>1. order[k] # order[l]
    BY <1>8, <1>10
  <2>2. order[l] \notin ahead[order[k]]
    <3> SUFFICES ASSUME order[l] \in ahead[order[k]] PROVE FALSE
      OBVIOUS
    <3>1. Cardinality(ahead[order[l]]) < Cardinality(ahead[order[k]])
      BY <1>4, <1>8
    <3> QED BY <1>8, <1>10, <3>1
  <2> QED BY <1>8, <2>1, <2>2
<1>11. ASSUME NEW i \in P PROVE \E k \in 1 .. n : order[k] = i
  <2>1. rank[i] \in 1 .. n /\ Cardinality(ahead[i]) = rank[i] - 1
    BY <1>2, <1>3
  <2>2. rank[order[rank[i]]] = rank[i] /\ order[rank[i]] \in P
    BY <1>2, <1>8, <2>1
  <2>3. order[rank[i]] = i
    BY <1>5, <2>2 DEF Injection, IsInjective
  <2> QED BY <2>1, <2>3
<1> QED BY <1>1, <1>9, <1>10, <1>11 DEF order

LEMMA InRange ==
    ASSUME NEW f, NEW x
    PROVE  x \in Range(f) <=> \E i \in DOMAIN f : f[i] = x
BY DEF Range

\* Of two elements the one that is not below the other stays before it.
Stable(s, t, key) ==
    \A i, j \in 1 .. Len(s) :
        i < j /\ key[s[i]] >= key[s[j]] =>
            \E k, l \in 1 .. Len(s) : t[k] = s[i] /\ t[l] = s[j] /\ k < l

\* Sorting keeps what a list holds, puts the larger keys first and leaves equal keys
\* in the order of the list.
LEMMA SortedOrder ==
    ASSUME NEW S, NEW s \in Seq(S), IsInjective(s), NEW key \in [S -> Int]
    PROVE  /\ Sorted(s, key) \in Seq(S)
           /\ Len(Sorted(s, key)) = Len(s)
           /\ IsInjective(Sorted(s, key))
           /\ Range(Sorted(s, key)) = Range(s)
           /\ \A k, l \in 1 .. Len(s) :
                 k < l => key[Sorted(s, key)[k]] >= key[Sorted(s, key)[l]]
           /\ Stable(s, Sorted(s, key), key)
<1> DEFINE P == DOMAIN s
           Ahead(i) == {j \in P : \/ key[s[j]] > key[s[i]]
                                  \/ key[s[j]] = key[s[i]] /\ j < i}
           ahead == [i \in P |-> Ahead(i)]
           order == InOrder(P, ahead)
           sorted == Sorted(s, key)
<1>1. P = 1 .. Len(s) /\ Len(s) \in Nat
  OBVIOUS
<1>2. IsFiniteSet(P) /\ Cardinality(P) = Len(s)
  <2>1. Len(s) \in Nat
    OBVIOUS
  <2>2. IsFiniteSet(1 .. Len(s)) /\ Cardinality(1 .. Len(s)) = Len(s)
    BY <2>1, UpTo
  <2> QED BY <1>1, <2>2
<1>3. \A i \in P : s[i] \in S /\ key[s[i]] \in Int
  OBVIOUS
<1>4. \A i \in P : ahead[i] \subseteq P /\ i \notin ahead[i]
  BY <1>1, <1>3
<1>5. \A i, j \in P : i # j => i \in ahead[j] \/ j \in ahead[i]
  BY <1>1, <1>3
<1>6. \A i, j \in P : j \in ahead[i] => ahead[j] \subseteq ahead[i]
  BY <1>1, <1>3
<1>7. /\ order \in [1 .. Len(s) -> P]
      /\ \A k, l \in 1 .. Len(s) : k < l => order[k] \in ahead[order[l]]
      /\ \A i \in P : \E k \in 1 .. Len(s) : order[k] = i
  <2> HIDE DEF P, ahead
  <2> QED BY <1>2, <1>4, <1>5, <1>6, InOrderSorts
<1>8. sorted = [k \in P |-> s[order[k]]]
  BY DEF Sorted
<1>9. \A k, l \in 1 .. Len(s) : order[k] = order[l] => k = l
  <2> SUFFICES ASSUME NEW k \in 1 .. Len(s), NEW l \in 1 .. Len(s), k < l
               PROVE  order[k] # order[l]
    OBVIOUS
  <2> HIDE DEF ahead, order
  <2> QED BY <1>4, <1>7
<1>10. \A k, l \in 1 .. Len(s) : k < l => key[s[order[k]]] >= key[s[order[l]]]
  <2> SUFFICES ASSUME NEW k \in 1 .. Len(s), NEW l \in 1 .. Len(s), k < l
               PROVE  key[s[order[k]]] >= key[s[order[l]]]
    OBVIOUS
  <2> HIDE DEF order
  <2>1. order[k] \in P /\ order[l] \in P /\ order[k] \in ahead[order[l]]
    BY <1>7
  <2> QED BY <1>3, <2>1
<1>14. ASSUME NEW i \in 1 .. Len(s), NEW j \in 1 .. Len(s), i < j, key[s[i]] >= key[s[j]]
       PROVE  \E k, l \in 1 .. Len(s) : sorted[k] = s[i] /\ sorted[l] = s[j] /\ k < l
  <2>1. j \notin ahead[i]
    BY <1>1, <1>3, <1>14
  <2> HIDE DEF order, ahead
  <2>2. PICK k \in 1 .. Len(s) : order[k] = i
    BY <1>1, <1>7, <1>14
  <2>3. PICK l \in 1 .. Len(s) : order[l] = j
    BY <1>1, <1>7, <1>14
  <2>4. ~ (l < k) /\ l # k
    BY <1>7, <1>14, <2>1, <2>2, <2>3, SMTT(30)
  <2>5. k < l
    BY <2>2, <2>3, <2>4
  <2>6. sorted[k] = s[i] /\ sorted[l] = s[j]
    BY <1>1, <1>8, <2>2, <2>3
  <2> QED BY <2>5, <2>6
<1> HIDE DEF order
<1>11. sorted \in Seq(S) /\ Len(sorted) = Len(s)
  BY <1>1, <1>3, <1>7, <1>8
<1>12. IsInjective(sorted)
  BY <1>1, <1>7, <1>8, <1>9 DEF IsInjective
<1>13. Range(sorted) = Range(s)
  <2> HIDE DEF sorted
  <2>1. ASSUME NEW x \in Range(sorted) PROVE x \in Range(s)
    <3>1. PICK k \in P : sorted[k] = x
      BY <1>1, <1>11, InRange, SMTT(20)
    <3>2. order[k] \in P /\ s[order[k]] = x
      BY <1>1, <1>7, <1>8, <3>1
    <3> QED BY <3>2, InRange
  <2>2. ASSUME NEW x \in Range(s) PROVE x \in Range(sorted)
    <3>1. PICK i \in P : s[i] = x
      BY InRange
    <3>2. PICK k \in 1 .. Len(s) : order[k] = i
      BY <1>7
    <3>3. k \in DOMAIN sorted /\ sorted[k] = x
      BY <1>1, <1>8, <3>1, <3>2
    <3> QED BY <3>3, InRange
  <2> QED BY <2>1, <2>2
<1>15. Stable(s, sorted, key)
  BY <1>14 DEF Stable
<1> QED BY <1>1, <1>8, <1>10, <1>11, <1>12, <1>13, <1>15

\* A list without repetitions is as long as its set is large.
LEMMA DistinctLen ==
    ASSUME NEW S, NEW s \in Seq(S), IsInjective(s)
    PROVE  IsFiniteSet(Range(s)) /\ Cardinality(Range(s)) = Len(s)
<1>1. DOMAIN s = 1 .. Len(s) /\ Len(s) \in Nat
  OBVIOUS
<1>2. IsFiniteSet(1 .. Len(s)) /\ Cardinality(1 .. Len(s)) = Len(s)
  BY <1>1, FS_Interval, SMTT(20)
<1>3. s \in Bijection(1 .. Len(s), Range(s))
  BY <1>1 DEF Bijection, Injection, Surjection, IsInjective, Range
<1>4. ExistsBijection(1 .. Len(s), Range(s))
  BY <1>3 DEF ExistsBijection
<1> QED BY <1>2, <1>4, FS_Bijection

\* What NotIn adds is what the other list has not.
LEMMA NotInRange ==
    ASSUME NEW S, NEW s \in Seq(S), NEW t \in Seq(S), IsInjective(t)
    PROVE  /\ NotIn(t, s) \in Seq(S)
           /\ IsInjective(NotIn(t, s))
           /\ Range(NotIn(t, s)) = Range(t) \ Range(s)
<1> DEFINE new == {i \in DOMAIN t : ~In(t[i], s)}
           ahead == [i \in new |-> {j \in new : j < i}]
           order == InOrder(new, ahead)
           n == Cardinality(new)
<1>1. DOMAIN t = 1 .. Len(t) /\ Len(t) \in Nat
  OBVIOUS
<1>2. IsFiniteSet(1 .. Len(t)) /\ new \subseteq 1 .. Len(t)
  BY <1>1, FS_Interval
<1>3. IsFiniteSet(new)
  BY <1>2, FS_Subset
<1>4. /\ \A i \in new : ahead[i] \subseteq new /\ i \notin ahead[i]
      /\ \A i, j \in new : i # j => i \in ahead[j] \/ j \in ahead[i]
      /\ \A i, j \in new : j \in ahead[i] => ahead[j] \subseteq ahead[i]
  <2>1. \A i \in new : i \in Int
    BY <1>1
  <2> HIDE DEF new
  <2> QED BY <2>1
<1>5. /\ n \in Nat
      /\ order \in [1 .. n -> new]
      /\ \A k, l \in 1 .. n : k < l => order[k] \in ahead[order[l]]
      /\ \A i \in new : \E k \in 1 .. n : order[k] = i
  <2> HIDE DEF new, ahead
  <2> QED BY <1>3, <1>4, InOrderSorts
<1>6. \A k, l \in 1 .. n : order[k] = order[l] => k = l
  <2> SUFFICES ASSUME NEW k \in 1 .. n, NEW l \in 1 .. n, k < l
               PROVE  order[k] # order[l]
    <3> HIDE DEF new, ahead, order, n
    <3> QED BY <1>5
  <2> HIDE DEF new, ahead, order
  <2> QED BY <1>4, <1>5
<1>7. NotIn(t, s) = [k \in 1 .. n |-> t[order[k]]]
  <2>1. NotIn(t, s) = [k \in DOMAIN order |-> t[order[k]]]
    BY DEF NotIn
  <2> HIDE DEF order, n
  <2> QED BY <1>5, <2>1
<1>8. \A i \in new : t[i] \in S /\ t[i] \notin Range(s) /\ i \in DOMAIN t
  BY DEF In
<1>9. \A i \in DOMAIN t : t[i] \notin Range(s) => i \in new
  BY DEF In
<1> HIDE DEF order, n, new
<1>10. NotIn(t, s) \in Seq(S)
  BY <1>5, <1>7, <1>8
<1>11. IsInjective(NotIn(t, s))
  BY <1>5, <1>6, <1>7, <1>8 DEF IsInjective
<1>12. Range(NotIn(t, s)) = Range(t) \ Range(s)
  <2>1. ASSUME NEW x \in Range(NotIn(t, s)) PROVE x \in Range(t) \ Range(s)
    <3>1. PICK k \in 1 .. n : NotIn(t, s)[k] = x
      BY <1>7, InRange
    <3>2. order[k] \in new /\ t[order[k]] = x
      BY <1>5, <1>7, <3>1
    <3> QED BY <1>8, <3>2, InRange
  <2>2. ASSUME NEW x \in Range(t) \ Range(s) PROVE x \in Range(NotIn(t, s))
    <3>1. PICK i \in DOMAIN t : t[i] = x
      BY InRange
    <3>2. PICK k \in 1 .. n : order[k] = i
      BY <1>5, <1>9, <3>1
    <3>3. k \in DOMAIN NotIn(t, s) /\ NotIn(t, s)[k] = x
      BY <1>7, <3>1, <3>2
    <3> QED BY <3>3, InRange
  <2> QED BY <2>1, <2>2
<1> QED BY <1>10, <1>11, <1>12

\* A list combined of two holds what one of them holds, nothing twice, and what the
\* first one holds before the rest.
LEMMA CombinedRange ==
    ASSUME NEW S, NEW s \in Seq(S), NEW t \in Seq(S), IsInjective(s), IsInjective(t)
    PROVE  /\ Combined(s, t) \in Seq(S)
           /\ IsInjective(Combined(s, t))
           /\ Range(Combined(s, t)) = Range(s) \cup Range(t)
           /\ \A x \in Range(s), y \in Range(t) \ Range(s) :
                 \E i, j \in 1 .. Len(Combined(s, t)) :
                    Combined(s, t)[i] = x /\ Combined(s, t)[j] = y /\ i < j
<1> DEFINE u == NotIn(t, s)
<1>1. u \in Seq(S) /\ IsInjective(u) /\ Range(u) = Range(t) \ Range(s)
  BY NotInRange
<1>2. Combined(s, t) = s \o u
  BY DEF Combined
<1> HIDE DEF u
<1>3. s \o u \in Seq(S) /\ Len(s \o u) = Len(s) + Len(u)
  BY <1>1
<1>4. /\ \A i \in 1 .. Len(s) : (s \o u)[i] = s[i]
      /\ \A i \in 1 .. Len(u) : (s \o u)[Len(s) + i] = u[i]
  BY <1>1
<1>5. \A i \in 1 .. Len(s) + Len(u) :
         i \in 1 .. Len(s) \/ (i - Len(s) \in 1 .. Len(u) /\ (s \o u)[i] = u[i - Len(s)])
  BY <1>1
<1>6. /\ \A i \in 1 .. Len(s) : s[i] \in Range(s)
      /\ \A i \in 1 .. Len(u) : u[i] \in Range(t) /\ u[i] \notin Range(s)
  <2>1. \A i \in 1 .. Len(u) : u[i] \in Range(u)
    BY <1>1 DEF Range
  <2>2. \A i \in 1 .. Len(s) : s[i] \in Range(s)
    BY DEF Range
  <2> QED BY <1>1, <2>1, <2>2
<1>7. ASSUME NEW i \in 1 .. Len(s) + Len(u), NEW j \in 1 .. Len(s) + Len(u),
             (s \o u)[i] = (s \o u)[j]
      PROVE  i = j
  <2>1. CASE i \in 1 .. Len(s) /\ j \in 1 .. Len(s)
    BY <1>4, <1>7, <2>1 DEF IsInjective
  <2>2. CASE i \notin 1 .. Len(s) /\ j \notin 1 .. Len(s)
    <3>1. u[i - Len(s)] = u[j - Len(s)]
      BY <1>5, <1>7, <2>2
    <3>2. i - Len(s) \in DOMAIN u /\ j - Len(s) \in DOMAIN u
      BY <1>1, <1>5, <2>2
    <3>3. i - Len(s) = j - Len(s)
      BY <1>1, <3>1, <3>2 DEF IsInjective
    <3> QED BY <3>3
  <2>3. CASE i \in 1 .. Len(s) /\ j \notin 1 .. Len(s)
    BY <1>4, <1>5, <1>6, <1>7, <2>3
  <2>4. CASE i \notin 1 .. Len(s) /\ j \in 1 .. Len(s)
    BY <1>4, <1>5, <1>6, <1>7, <2>4
  <2> QED BY <2>1, <2>2, <2>3, <2>4
<1>8. IsInjective(s \o u)
  BY <1>3, <1>7 DEF IsInjective
<1>9. Range(s \o u) = Range(s) \cup Range(t)
  <2>1. Range(s \o u) = Range(s) \cup Range(u)
    <3>1. Range(s \o u) \subseteq Range(s) \cup Range(u)
      BY <1>1, <1>3, <1>4, <1>5 DEF Range
    <3>2. Range(s) \subseteq Range(s \o u)
      BY <1>1, <1>3, <1>4 DEF Range
    <3>3. Range(u) \subseteq Range(s \o u)
      <4>1. \A i \in 1 .. Len(u) : Len(s) + i \in DOMAIN (s \o u)
        BY <1>1, <1>3
      <4>2. \A x \in Range(u) : \E i \in 1 .. Len(u) : u[i] = x
        BY <1>1, InRange
      <4>3. \A i \in 1 .. Len(u) : u[i] \in Range(s \o u)
        BY <1>4, <4>1, InRange
      <4> QED BY <4>2, <4>3
    <3> QED BY <3>1, <3>2, <3>3
  <2> QED BY <1>1, <2>1
<1>10. ASSUME NEW x \in Range(s), NEW y \in Range(t) \ Range(s)
       PROVE  \E i, j \in 1 .. Len(s \o u) : (s \o u)[i] = x /\ (s \o u)[j] = y /\ i < j
  <2>1. PICK i \in 1 .. Len(s) : s[i] = x
    BY InRange
  <2>2. PICK j \in 1 .. Len(u) : u[j] = y
    BY <1>1, InRange
  <2>3. /\ i \in 1 .. Len(s \o u) /\ Len(s) + j \in 1 .. Len(s \o u) /\ i < Len(s) + j
    BY <1>1, <1>3, <2>1, <2>2
  <2> QED BY <1>4, <2>1, <2>2, <2>3
<1> QED BY <1>2, <1>3, <1>8, <1>9, <1>10

\* A list cut to k keeps its order.
LEMMA FirstKeeps ==
    ASSUME NEW S, NEW s \in Seq(S), NEW k \in Nat
    PROVE  /\ First(s, k) \in Seq(S)
           /\ Len(First(s, k)) = Min({k, Len(s)})
           /\ Len(First(s, k)) \in Nat /\ Len(First(s, k)) <= Len(s)
           /\ Len(First(s, k)) <= k
           /\ Len(First(s, k)) = k \/ Len(First(s, k)) = Len(s)
           /\ \A i \in 1 .. Len(First(s, k)) : First(s, k)[i] = s[i]
<1> DEFINE m == Min({k, Len(s)})
<1>1. Len(s) \in Nat
  OBVIOUS
<1>2. m \in {k, Len(s)} /\ m <= k /\ m <= Len(s)
  <2>1. k \in Int /\ Len(s) \in Int
    BY <1>1
  <2> QED BY <2>1, LesserOf, Zenon
<1>3. First(s, k) = SubSeq(s, 1, m)
  BY DEF First
<1> HIDE DEF m
<1>4. m \in 0 .. Len(s)
  BY <1>1, <1>2
<1>5. /\ SubSeq(s, 1, m) \in Seq(S) /\ Len(SubSeq(s, 1, m)) = m
      /\ \A i \in 1 .. m : SubSeq(s, 1, m)[i] = s[i]
  BY <1>1, <1>4
<1> QED BY <1>1, <1>2, <1>3, <1>4, <1>5 DEF m

\* The longest list that starts with the larger keys: what comes behind k places is
\* cut, and with it nothing that is above something kept.
Best(s, P, key, k) ==
    /\ s \in Seq(Chunk) /\ IsInjective(s)
    /\ Range(s) \subseteq P
    /\ Len(s) = Min({k, Cardinality(P)})
    /\ \A a \in P, b \in Chunk : key[a] > key[b] => Precedes(a, b, s)

LEMMA SortedBest ==
    ASSUME NEW s \in Seq(Chunk), IsInjective(s), NEW key \in [Chunk -> Int],
           NEW k \in Nat
    PROVE  /\ Best(First(Sorted(s, key), k), Range(s), key, k)
           /\ \A i, j \in 1 .. Len(s) :
                 i < j /\ key[s[i]] >= key[s[j]] =>
                    Precedes(s[i], s[j], First(Sorted(s, key), k))
<1> DEFINE sorted == Sorted(s, key)
           first == First(sorted, k)
<1>1. /\ sorted \in Seq(Chunk) /\ Len(sorted) = Len(s) /\ IsInjective(sorted)
      /\ Range(sorted) = Range(s)
      /\ \A i, j \in 1 .. Len(s) : i < j => key[sorted[i]] >= key[sorted[j]]
      /\ Stable(s, sorted, key)
  BY SortedOrder
<1>2. Len(s) = Cardinality(Range(s)) /\ Len(s) \in Nat
  BY DistinctLen
<1> HIDE DEF sorted
<1>3. /\ first \in Seq(Chunk)
      /\ Len(first) = Min({k, Len(s)})
      /\ Len(first) \in Nat /\ Len(first) <= Len(s)
      /\ \A i \in 1 .. Len(first) : first[i] = sorted[i]
  BY <1>1, FirstKeeps
<1> HIDE DEF first
<1>4. DOMAIN first = 1 .. Len(first) /\ DOMAIN sorted = 1 .. Len(s)
  BY <1>1, <1>3
<1>5. \A i \in 1 .. Len(first) : i \in 1 .. Len(s)
  BY <1>2, <1>3
<1>6. IsInjective(first)
  BY <1>1, <1>3, <1>4, <1>5 DEF IsInjective
<1>7. ASSUME NEW x \in Range(first) PROVE x \in Range(s)
  <2>1. PICK i \in DOMAIN first : first[i] = x
    BY InRange
  <2> QED BY <1>1, <1>3, <1>4, <1>5, <2>1, InRange
<1>8. ASSUME NEW a \in Range(s), NEW b \in Chunk, key[a] > key[b], In(b, first)
      PROVE  \E i, j \in DOMAIN first : first[i] = a /\ first[j] = b /\ i < j
  <2>1. PICK j \in DOMAIN first : first[j] = b
    BY <1>8, InRange DEF In
  <2>2. PICK i \in DOMAIN sorted : sorted[i] = a
    BY <1>1, InRange
  <2>3. i \in 1 .. Len(s) /\ j \in 1 .. Len(s) /\ sorted[j] = b
    BY <1>3, <1>4, <1>5, <2>1, <2>2
  <2>4. a \in Chunk /\ key[a] \in Int /\ key[b] \in Int
    BY <1>1, <2>2
  <2>5. ~ (j < i)
    BY <1>1, <1>8, <2>2, <2>3, <2>4
  <2>6. i # j
    BY <1>8, <2>2, <2>3, <2>4
  <2>7. i < j
    BY <2>3, <2>5, <2>6
  <2>8. i \in 1 .. Len(first) /\ first[i] = a
    <3>1. j \in 1 .. Len(first)
      BY <1>4, <2>1
    <3>2. i \in 1 .. Len(first)
      BY <1>3, <2>3, <2>7, <3>1
    <3> QED BY <1>3, <2>2, <3>2
  <2> QED BY <1>4, <2>1, <2>7, <2>8
<1>9. Range(first) \subseteq Range(s)
  BY <1>7
<1>10. \A a \in Range(s), b \in Chunk : key[a] > key[b] => Precedes(a, b, first)
  BY <1>8 DEF Precedes
<1>11. Len(first) = Min({k, Cardinality(Range(s))})
  BY <1>2, <1>3
<1>12. ASSUME NEW i \in 1 .. Len(s), NEW j \in 1 .. Len(s), i < j,
              key[s[i]] >= key[s[j]], In(s[j], first)
       PROVE  \E n, m \in DOMAIN first : first[n] = s[i] /\ first[m] = s[j] /\ n < m
  <2>1. PICK n \in 1 .. Len(s), m \in 1 .. Len(s) :
           sorted[n] = s[i] /\ sorted[m] = s[j] /\ n < m
    BY <1>1, <1>12 DEF Stable
  <2>2. PICK l \in 1 .. Len(first) : first[l] = s[j]
    BY <1>4, <1>12, InRange DEF In
  <2>3. l = m
    <3>1. sorted[l] = sorted[m] /\ l \in DOMAIN sorted /\ m \in DOMAIN sorted
      BY <1>3, <1>4, <1>5, <2>1, <2>2
    <3> QED BY <1>1, <3>1 DEF IsInjective
  <2>4. n \in 1 .. Len(first) /\ m \in 1 .. Len(first)
    BY <1>2, <1>3, <2>1, <2>2, <2>3
  <2> QED BY <1>3, <1>4, <2>1, <2>4
<1>13. \A i, j \in 1 .. Len(s) :
          i < j /\ key[s[i]] >= key[s[j]] => Precedes(s[i], s[j], first)
  BY <1>12 DEF Precedes
<1> QED BY <1>3, <1>6, <1>9, <1>10, <1>11, <1>13 DEF Best, first, sorted

-----------------------------------------------------------------------------
\* What the searches hand over.

\* A set of numbers with a greatest one has it as its maximum.
LEMMA MaxIs ==
    ASSUME NEW X \in SUBSET Int, NEW m \in X, \A y \in X : y <= m
    PROVE  Max(X) = m
<1>1. \A y \in X : m >= y
  OBVIOUS
<1>2. \A x \in X : (\A y \in X : x >= y) => x = m
  OBVIOUS
<1> QED BY <1>1, <1>2 DEF Max

\* A search returns no chunk twice, and the best first.
LEMMA ReturnedOrder ==
    ASSUME topK \in Nat, NEW points \in [Chunk -> Nat], NEW s \in Returned(points)
    PROVE  /\ s \in Seq(Chunk) /\ IsInjective(s)
           /\ \A i, j \in DOMAIN s : i < j => points[s[i]] >= points[s[j]]
<1> DEFINE hits == {c \in Chunk : points[c] > 0}
<1>1. PICK t \in SetToSeqs(hits) :
         /\ s = First(t, topK)
         /\ \A i, j \in DOMAIN t : i < j => points[t[i]] >= points[t[j]]
  BY DEF Returned
<1>2. Cardinality(hits) \in Nat
  <2>1. IsFiniteSet(Chunk)
    BY RankingAssumption, UpTo DEF Chunk
  <2>2. hits \subseteq Chunk
    OBVIOUS
  <2> QED BY <2>1, <2>2, FS_Subset, FS_CardinalityType
<1>3. /\ t \in [1 .. Cardinality(hits) -> hits]
      /\ \A i, j \in 1 .. Cardinality(hits) : i # j => t[i] # t[j]
  BY DEF SetToSeqs
<1>4. t \in Seq(Chunk) /\ DOMAIN t = 1 .. Len(t) /\ Len(t) \in Nat
  BY <1>2, <1>3
<1>5. IsInjective(t)
  BY <1>3 DEF IsInjective
<1> HIDE DEF hits
<1>6. /\ s \in Seq(Chunk)
      /\ Len(s) \in Nat /\ Len(s) <= Len(t)
      /\ \A i \in 1 .. Len(s) : s[i] = t[i]
  BY <1>1, <1>4, FirstKeeps
<1>7. DOMAIN s = 1 .. Len(s) /\ \A i \in DOMAIN s : i \in DOMAIN t /\ s[i] = t[i]
  BY <1>4, <1>6, SMTT(20)
<1>8. IsInjective(s)
  BY <1>5, <1>7 DEF IsInjective
<1>9. \A i, j \in DOMAIN s : i < j => points[s[i]] >= points[s[j]]
  BY <1>1, <1>7
<1> QED BY <1>6, <1>8, <1>9

\* The inputs are what hybrid_rank expects: lists without repetitions, and scores with
\* a maximum to divide by.
Inputs ==
    /\ topK \in Nat \ {0}
    /\ bm25 \in [Chunk -> Nat] /\ graph \in [Chunk -> Nat]
    /\ byVector \in Seq(Chunk) /\ IsInjective(byVector)
    /\ \A c \in Chunk : In(c, byVector) => cosine[c] \in Int
    /\ byTerms \in Seq(Chunk) /\ IsInjective(byTerms)
    /\ byGraph \in Seq(Chunk) /\ IsInjective(byGraph)
    /\ MaxVector \in Int /\ MaxLexical \in Nat

LEMMA InitInputs == Init => Inputs
<1> SUFFICES ASSUME Init PROVE Inputs
  OBVIOUS
<1> USE DEF Init
<1>1. topK \in Nat \ {0} /\ N \in Nat \ {0}
  BY RankingAssumption
<1>2. bm25 \in [Chunk -> Nat]
  BY RankingAssumption
<1>3. graph \in [Chunk -> Nat]
  <2>1. GraphScores \subseteq Nat
    <3>1. Mentions \subseteq Nat
      BY RankingAssumption
    <3>2. \A m \in Nat, e \in BOOLEAN : GraphScore(m, e) \in Nat
      BY DEF GraphScore
    <3> QED BY <3>1, <3>2 DEF GraphScores
  <2> QED BY <2>1
<1>4. PICK p \in 0 .. N : /\ cosine \in [1 .. p -> Int]
                          /\ \A c, d \in 1 .. p : c < d => cosine[c] >= cosine[d]
  BY RankingAssumption DEF Descending
<1>5. /\ byVector \in Seq(Chunk) /\ IsInjective(byVector)
      /\ Len(byVector) \in 0 .. p
      /\ Range(byVector) = 1 .. Len(byVector)
  <2> DEFINE all == [i \in 1 .. p |-> i]
  <2>1. all \in Seq(Chunk) /\ Len(all) = p
    BY <1>1, <1>4 DEF Chunk
  <2>2. byVector = First(all, topK)
    BY <1>4
  <2>3. \A i \in 1 .. p : all[i] = i
    OBVIOUS
  <2> HIDE DEF all
  <2>4. /\ byVector \in Seq(Chunk) /\ Len(byVector) \in Nat
        /\ Len(byVector) <= p
        /\ \A i \in 1 .. Len(byVector) : byVector[i] = all[i]
    <3>1. topK \in Nat
      BY <1>1
    <3> HIDE DEF Init
    <3> QED BY <2>1, <2>2, <3>1, FirstKeeps
  <2> HIDE DEF Init
  <2>5. \A i \in 1 .. Len(byVector) : byVector[i] = i
    BY <1>1, <1>4, <2>3, <2>4
  <2>6. DOMAIN byVector = 1 .. Len(byVector)
    BY <2>4
  <2>7. IsInjective(byVector)
    BY <2>5, <2>6 DEF IsInjective
  <2>8. Range(byVector) = 1 .. Len(byVector)
    BY <2>5, <2>6 DEF Range
  <2> QED BY <1>4, <2>4, <2>7, <2>8
<1>6. MaxVector \in Int /\ \A c \in Chunk : In(c, byVector) => cosine[c] \in Int
  <2> DEFINE X == {cosine[c] : c \in Range(byVector)}
  <2> HIDE DEF Init
  <2>1. \A c \in Range(byVector) : c \in 1 .. p /\ cosine[c] \in Int
    BY <1>4, <1>5
  <2>2. byVector # <<>> => Max(X) \in Int
    <3> SUFFICES ASSUME byVector # <<>> PROVE Max(X) \in Int
      OBVIOUS
    <3>1. 1 \in Range(byVector)
      BY <1>5
    <3>2. cosine[1] \in X /\ X \subseteq Int
      BY <2>1, <3>1
    <3>3. \A c \in Range(byVector) : cosine[c] <= cosine[1]
      BY <1>4, <1>5, <2>1, <3>1
    <3>4. \A y \in X : y <= cosine[1]
      BY <3>3
    <3> HIDE DEF X
    <3> QED BY <3>2, <3>4, MaxIs
  <2> QED BY <2>1, <2>2 DEF MaxVector, In
<1>7. /\ byTerms \in Seq(Chunk) /\ IsInjective(byTerms)
      /\ \A i, j \in DOMAIN byTerms : i < j => bm25[byTerms[i]] >= bm25[byTerms[j]]
  BY <1>1, <1>2, ReturnedOrder
<1>8. byGraph \in Seq(Chunk) /\ IsInjective(byGraph)
  BY <1>1, <1>3, ReturnedOrder
<1>9. MaxLexical \in Nat
  <2> HIDE DEF Init
  <2> DEFINE X == {bm25[c] : c \in Range(byTerms)} \cup {0}
  <2>1. Range(byTerms) \subseteq Chunk
    BY <1>7, InRange
  <2>2. X \subseteq Nat
    BY <1>2, <2>1
  <2>3. PICK m \in X : \A y \in X : y <= m
    <3>1. CASE Len(byTerms) = 0
      <4>1. Range(byTerms) = {}
        BY <1>7, <3>1 DEF Range
      <4>2. X = {0}
        BY <4>1
      <4> QED BY <4>2
    <3>2. CASE Len(byTerms) # 0
      <4>1. 1 \in DOMAIN byTerms /\ byTerms[1] \in Chunk
        BY <1>7, <3>2
      <4>2. byTerms[1] \in Range(byTerms)
        BY <4>1, InRange
      <4>3. \A c \in Range(byTerms) : bm25[c] <= bm25[byTerms[1]]
        <5> SUFFICES ASSUME NEW c \in Range(byTerms)
                     PROVE  bm25[c] <= bm25[byTerms[1]]
          OBVIOUS
        <5>1. PICK j \in DOMAIN byTerms : byTerms[j] = c
          BY InRange
        <5>2. j \in Nat /\ j >= 1 /\ c \in Chunk
          BY <1>7, <5>1
        <5> QED BY <1>2, <1>7, <4>1, <5>1, <5>2, SMTT(20)
      <4> QED BY <1>2, <4>1, <4>2, <4>3
    <3> QED BY <3>1, <3>2
  <2>4. X \subseteq Int
    BY <2>2
  <2>5. MaxLexical = Max(X)
    BY DEF MaxLexical
  <2> HIDE DEF X
  <2>6. Max(X) = m
    BY <2>3, <2>4, MaxIs
  <2> QED BY <2>2, <2>3, <2>5, <2>6
<1> HIDE DEF Init
<1> QED BY <1>1, <1>2, <1>3, <1>5, <1>6, <1>7, <1>8, <1>9 DEF Inputs

-----------------------------------------------------------------------------
\* The three lists.

\* The scores after hybrid_rank and after merge_graph_chunks.
HybridPoints == [c \in Chunk |-> HybridScore(c)]
MergedPoints ==
    [c \in Chunk |-> (IF In(c, hybrid) THEN HybridScore(c) ELSE 0)
                     + (IF In(c, byGraph) THEN GraphPart(c) ELSE 0)]

HybridKept ==
    stage # "found" =>
        Best(hybrid, Range(byVector) \cup Range(byTerms), HybridPoints, topK)

MergedKept ==
    stage \in {"merged", "reranked"} =>
        /\ Best(merged, Range(hybrid) \cup Range(byGraph), MergedPoints, topK)
        /\ \A a \in Range(hybrid), b \in Range(byGraph) \ Range(hybrid) :
              MergedPoints[a] >= MergedPoints[b] => Precedes(a, b, merged)

Scored ==
    /\ stage = "hybrid" => score = HybridPoints
    /\ stage \in {"merged", "reranked"} => score = MergedPoints

\* The context is part of what was merged, and all that fits once it is complete.
Selected ==
    /\ stage \in {"found", "hybrid"} => context = <<>>
    /\ context \in Seq(Chunk) /\ IsInjective(context)
    /\ stage \in {"merged", "reranked"} => Range(context) \subseteq Range(merged)
    /\ Len(context) <= MmrK
    /\ stage = "reranked" => Len(context) = Min({MmrK, Len(merged)})

Ranks ==
    /\ Inputs
    /\ stage \in {"found", "hybrid", "merged", "reranked"}
    /\ HybridKept /\ MergedKept /\ Scored /\ Selected

\* The parts of a score are numbers.
LEMMA PartsInt ==
    ASSUME Inputs, NEW c \in Chunk
    PROVE  HybridScore(c) \in Int /\ GraphPart(c) \in Int
<1>1. MaxVector \in Int /\ MaxLexical \in Nat
  BY DEF Inputs
<1>2. /\ In(c, byVector) => cosine[c] \in Int
      /\ bm25[c] \in Int /\ graph[c] \in Int
  BY DEF Inputs
<1>3. /\ Sign(MaxVector) \in Int /\ NonZero(MaxLexical) \in Int
      /\ Abs(NonZero(MaxVector)) \in Int
  BY <1>1 DEF Sign, NonZero, Abs
<1>4. \A x, y \in Int : x * y \in Int
  OBVIOUS
<1>5. In(c, byVector) => VectorPart(c) \in Int
  BY <1>2, <1>3, <1>4 DEF VectorPart
<1>6. LexicalPart(c) \in Int
  BY <1>2, <1>3, <1>4 DEF LexicalPart
<1>7. GraphPart(c) \in Int
  BY <1>2, <1>3, <1>4 DEF GraphPart
<1> QED BY <1>5, <1>6, <1>7 DEF HybridScore

LEMMA PointsInt ==
    ASSUME Inputs
    PROVE  HybridPoints \in [Chunk -> Int] /\ MergedPoints \in [Chunk -> Int]
BY PartsInt DEF HybridPoints, MergedPoints

LEMMA InitRanks == Init => Ranks
<1> SUFFICES ASSUME Init PROVE Ranks
  OBVIOUS
<1>1. Inputs
  BY InitInputs
<1>2. stage = "found" /\ context = <<>>
  BY DEF Init
<1>3. Selected
  BY <1>2, RankingAssumption DEF Selected, IsInjective
<1> QED BY <1>1, <1>2, <1>3 DEF Ranks, HybridKept, MergedKept, Scored

\* No step changes the inputs, and so none of the scores that only they decide.
LEMMA NextInputs ==
    ASSUME Inputs, [Next]_vars
    PROVE  /\ Inputs'
           /\ HybridPoints' = HybridPoints
           /\ hybrid' = hybrid => MergedPoints' = MergedPoints
<1>1. UNCHANGED inputs
  BY DEF Next, HybridRank, MergeGraphChunks, SortByScore, SelectBest, EndSelection,
         Reranked, vars
<1> USE <1>1 DEF inputs
<1>2. MaxVector' = MaxVector /\ MaxLexical' = MaxLexical
  BY DEF MaxVector, MaxLexical
<1>3. Inputs'
  BY <1>2 DEF Inputs
<1>4. \A c : /\ HybridScore(c)' = HybridScore(c) /\ GraphPart(c)' = GraphPart(c)
  BY <1>2 DEF HybridScore, VectorPart, LexicalPart, GraphPart, In
<1>5. HybridPoints' = HybridPoints
  BY <1>4 DEF HybridPoints
<1>6. hybrid' = hybrid => MergedPoints' = MergedPoints
  BY <1>4 DEF MergedPoints, In
<1> QED BY <1>3, <1>5, <1>6

LEMMA HybridRankRanks ==
    ASSUME Ranks, HybridRank PROVE Ranks'
<1>1. Inputs /\ Inputs' /\ HybridPoints' = HybridPoints
  BY NextInputs DEF Ranks, Next
<1>2. /\ stage = "found" /\ stage' = "hybrid" /\ score' = HybridPoints
      /\ hybrid' = First(Sorted(Combined(byVector, byTerms), HybridPoints), topK)
      /\ UNCHANGED <<inputs, merged, context>>
  BY DEF HybridRank, HybridPoints
<1> DEFINE both == Combined(byVector, byTerms)
           found == Range(byVector) \cup Range(byTerms)
<1>3. both \in Seq(Chunk) /\ IsInjective(both) /\ Range(both) = found
  BY <1>1, CombinedRange DEF Inputs
<1>4. HybridPoints \in [Chunk -> Int] /\ topK \in Nat
  BY <1>1, PointsInt DEF Inputs
<1> HIDE DEF both
<1>5. Best(hybrid', Range(both), HybridPoints, topK)
  BY <1>2, <1>3, <1>4, SortedBest DEF both
<1>6. Best(hybrid', found, HybridPoints, topK)
  BY <1>3, <1>5
<1>7. HybridKept'
  BY <1>1, <1>2, <1>6 DEF HybridKept, inputs
<1>8. Selected'
  BY <1>2 DEF Ranks, Selected
<1> QED BY <1>1, <1>2, <1>7, <1>8 DEF Ranks, MergedKept, Scored

LEMMA MergeGraphChunksRanks ==
    ASSUME Ranks, MergeGraphChunks PROVE Ranks'
<1>1. /\ stage = "hybrid" /\ stage' = "merged"
      /\ score' = [c \in Chunk |-> MergedScore(c)]
      /\ merged' = First(Sorted(Combined(hybrid, byGraph), score'), topK)
      /\ UNCHANGED <<inputs, hybrid, context>>
  BY DEF MergeGraphChunks
<1>2. /\ Inputs /\ Inputs'
      /\ HybridPoints' = HybridPoints /\ MergedPoints' = MergedPoints
  BY <1>1, NextInputs DEF Ranks, Next
<1>3. score = HybridPoints
  BY <1>1 DEF Ranks, Scored
<1>4. score' = MergedPoints
  BY <1>1, <1>3 DEF MergedScore, MergedPoints, HybridPoints
<1>5. Best(hybrid, Range(byVector) \cup Range(byTerms), HybridPoints, topK)
  BY <1>1 DEF Ranks, HybridKept
<1> DEFINE both == Combined(hybrid, byGraph)
           found == Range(hybrid) \cup Range(byGraph)
<1>15. /\ hybrid \in Seq(Chunk) /\ IsInjective(hybrid)
       /\ byGraph \in Seq(Chunk) /\ IsInjective(byGraph)
  BY <1>2, <1>5 DEF Inputs, Best
<1>6. both \in Seq(Chunk) /\ IsInjective(both) /\ Range(both) = found
  BY <1>15, CombinedRange
<1>16. \A a \in Range(hybrid), b \in Range(byGraph) \ Range(hybrid) :
          \E i, j \in 1 .. Len(both) : both[i] = a /\ both[j] = b /\ i < j
  BY <1>15, CombinedRange
<1>7. MergedPoints \in [Chunk -> Int] /\ topK \in Nat
  BY <1>2, PointsInt DEF Inputs
<1> HIDE DEF both
<1>8. /\ Best(merged', Range(both), MergedPoints, topK)
      /\ \A i, j \in 1 .. Len(both) :
            i < j /\ MergedPoints[both[i]] >= MergedPoints[both[j]] =>
               Precedes(both[i], both[j], merged')
  BY <1>1, <1>4, <1>6, <1>7, SortedBest DEF both
<1>9. Best(merged', found, MergedPoints, topK)
  BY <1>6, <1>8
<1>10. MergedKept'
  <2>1. \A a \in Range(hybrid), b \in Range(byGraph) \ Range(hybrid) :
           MergedPoints[a] >= MergedPoints[b] => Precedes(a, b, merged')
    BY <1>8, <1>16
  <2>2. \A a, b : Precedes(a, b, merged)' = Precedes(a, b, merged')
    BY DEF Precedes, In
  <2> QED BY <1>1, <1>2, <1>9, <2>1, <2>2 DEF MergedKept, inputs
<1>11. HybridKept'
  BY <1>1, <1>2, <1>5 DEF HybridKept, inputs
<1>12. Scored'
  BY <1>1, <1>2, <1>4 DEF Scored
<1>13. context = <<>>
  BY <1>1 DEF Ranks, Selected
<1>14. Selected'
  BY <1>1, <1>13 DEF Ranks, Selected, Range
<1> QED BY <1>1, <1>2, <1>10, <1>11, <1>12, <1>14 DEF Ranks

\* What a step that only adds to the context leaves alone.
LEMMA KeptLists ==
    ASSUME Ranks, UNCHANGED <<inputs, score, hybrid, merged>>, [Next]_vars,
           stage = "merged", stage' \in {"merged", "reranked"}, Selected'
    PROVE  Ranks'
<1>1. /\ Inputs' /\ HybridPoints' = HybridPoints /\ MergedPoints' = MergedPoints
  BY NextInputs DEF Ranks
<1> QED BY <1>1 DEF Ranks, HybridKept, MergedKept, Scored, inputs

\* After the merge, its result is a list without repetitions, and so is the context.
LEMMA MergedList ==
    ASSUME Ranks, stage \in {"merged", "reranked"}
    PROVE  /\ merged \in Seq(Chunk) /\ IsInjective(merged)
           /\ IsFiniteSet(Range(merged)) /\ Cardinality(Range(merged)) = Len(merged)
           /\ Len(merged) \in Nat
           /\ context \in Seq(Chunk) /\ IsInjective(context)
           /\ Range(context) \subseteq Range(merged)
           /\ Cardinality(Range(context)) = Len(context)
           /\ Len(context) \in Nat
           /\ score \in [Chunk -> Int]
<1>1. merged \in Seq(Chunk) /\ IsInjective(merged)
  BY DEF Ranks, MergedKept, Best
<1>2. /\ context \in Seq(Chunk) /\ IsInjective(context)
      /\ Range(context) \subseteq Range(merged)
  BY DEF Ranks, Selected
<1>3. IsFiniteSet(Range(merged)) /\ Cardinality(Range(merged)) = Len(merged)
  BY <1>1, DistinctLen
<1>4. Cardinality(Range(context)) = Len(context)
  BY <1>2, DistinctLen
<1>5. score \in [Chunk -> Int]
  BY PointsInt DEF Ranks, Scored
<1> QED BY <1>1, <1>2, <1>3, <1>4, <1>5

LEMMA SortByScoreRanks ==
    ASSUME Ranks, SortByScore PROVE Ranks'
<1>1. /\ stage = "merged" /\ stage' = "reranked"
      /\ context' = First(Sorted(merged, score), MmrK)
      /\ UNCHANGED <<inputs, score, hybrid, merged>>
  BY DEF SortByScore
<1>2. /\ merged \in Seq(Chunk) /\ IsInjective(merged) /\ score \in [Chunk -> Int]
      /\ Cardinality(Range(merged)) = Len(merged) /\ Len(merged) \in Nat
  BY <1>1, MergedList
<1>3. MmrK \in Nat
  BY RankingAssumption
<1>4. Best(context', Range(merged), score, MmrK)
  BY <1>1, <1>2, <1>3, SortedBest
<1>5. /\ context' \in Seq(Chunk) /\ IsInjective(context')
      /\ Range(context') \subseteq Range(merged)
      /\ Len(context') = Min({MmrK, Len(merged)})
  BY <1>2, <1>4 DEF Best
<1>6. Len(context') <= MmrK
  <2>1. MmrK \in Int /\ Len(merged) \in Int
    BY <1>2, <1>3
  <2>2. Min({MmrK, Len(merged)}) <= MmrK
    BY <2>1, LesserOf, Zenon
  <2> QED BY <1>5, <2>2
<1>7. Selected'
  BY <1>1, <1>5, <1>6 DEF Selected
<1> QED BY <1>1, <1>7, KeptLists DEF Next

\* The chunk a round selects is merged and not yet in the context.
LEMMA SelectBestRanks ==
    ASSUME Ranks, SelectBest PROVE Ranks'
<1>1. /\ stage = "merged" /\ stage' = "merged"
      /\ Len(context) < MmrK /\ Remaining # <<>>
      /\ \A c \in Range(merged) : In(c, byVector)
      /\ UNCHANGED <<inputs, score, hybrid, merged>>
  BY DEF SelectBest, HasVector
<1>2. /\ merged \in Seq(Chunk) /\ IsInjective(merged)
      /\ context \in Seq(Chunk) /\ IsInjective(context)
      /\ Range(context) \subseteq Range(merged)
      /\ Len(context) \in Nat
  BY <1>1, MergedList
<1>3. /\ Remaining \in Seq(Chunk) /\ IsInjective(Remaining)
      /\ Range(Remaining) = Range(merged) \ Range(context)
  BY <1>2, NotInRange DEF Remaining
<1>4. PICK diversity \in [Range(Remaining) -> IF context = <<>> THEN {0} ELSE Cosines] :
         context' = Append(context,
                      Head(Sorted(Remaining, [c \in Range(Remaining) |->
                                                cosine[c] - diversity[c]])))
  BY DEF SelectBest
<1> DEFINE Mmr == [c \in Range(Remaining) |-> cosine[c] - diversity[c]]
           sorted == Sorted(Remaining, Mmr)
           best == Head(sorted)
<1>5. Mmr \in [Range(Remaining) -> Int]
  <2>1. \A c \in Range(Remaining) : cosine[c] \in Int
    <3>1. \A c \in Range(Remaining) : c \in Chunk /\ In(c, byVector)
      BY <1>1, <1>3, InRange
    <3> QED BY <3>1 DEF Ranks, Inputs
  <2>2. \A c \in Range(Remaining) : diversity[c] \in Int
    <3> DEFINE likeness == IF context = <<>> THEN {0} ELSE Cosines
    <3>1. likeness \subseteq Int
      BY RankingAssumption
    <3>2. diversity \in [Range(Remaining) -> likeness]
      BY <1>4
    <3> HIDE DEF likeness
    <3> QED BY <3>1, <3>2
  <2> QED BY <2>1, <2>2
<1>6. Remaining \in Seq(Range(Remaining))
  <2>1. \A i \in 1 .. Len(Remaining) : Remaining[i] \in Range(Remaining)
    BY <1>3, InRange
  <2> QED BY <1>3, <2>1
<1> HIDE DEF Mmr
<1>7. /\ sorted \in Seq(Range(Remaining)) /\ Len(sorted) = Len(Remaining)
  BY <1>3, <1>5, <1>6, SortedOrder
<1>8. best \in Range(Remaining)
  <2>1. Len(Remaining) # 0
    BY <1>1, <1>3
  <2> HIDE DEF sorted
  <2>2. sorted # <<>>
    BY <1>7, <2>1
  <2> QED BY <1>7, <2>2
<1>9. context' = Append(context, best)
  BY <1>4 DEF Mmr
<1> HIDE DEF best
<1>10. best \in Range(merged) /\ best \notin Range(context) /\ best \in Chunk
  <2>1. best \in Range(merged) /\ best \notin Range(context)
    BY <1>3, <1>8
  <2>2. Range(merged) \subseteq Chunk
    BY <1>2, InRange
  <2> QED BY <2>1, <2>2
<1>11. /\ context' \in Seq(Chunk) /\ Len(context') = Len(context) + 1
       /\ \A i \in 1 .. Len(context) :
             context'[i] = context[i] /\ context[i] \in Range(context)
       /\ context'[Len(context) + 1] = best
  <2>1. \A i \in 1 .. Len(context) : context[i] \in Range(context)
    BY <1>2, InRange
  <2> QED BY <1>2, <1>9, <1>10, <2>1
<1>12. ASSUME NEW i \in DOMAIN context', NEW j \in DOMAIN context',
              context'[i] = context'[j]
       PROVE  i = j
  <2>1. /\ i \in 1 .. Len(context) \/ i = Len(context) + 1
        /\ j \in 1 .. Len(context) \/ j = Len(context) + 1
    BY <1>2, <1>11
  <2>2. CASE i \in 1 .. Len(context) /\ j \in 1 .. Len(context)
    <3>1. context[i] = context[j] /\ i \in DOMAIN context /\ j \in DOMAIN context
      BY <1>2, <1>11, <1>12, <2>2
    <3> QED BY <1>2, <3>1 DEF IsInjective
  <2> QED BY <1>10, <1>11, <1>12, <2>1, <2>2
<1>13. IsInjective(context')
  BY <1>12 DEF IsInjective
<1>14. ASSUME NEW x \in Range(context') PROVE x \in Range(merged)
  <2>1. PICK i \in DOMAIN context' : context'[i] = x
    BY InRange
  <2>2. i \in 1 .. Len(context) \/ i = Len(context) + 1
    BY <1>2, <1>11, <2>1
  <2> QED BY <1>2, <1>10, <1>11, <2>1, <2>2
<1>15. Len(context') <= MmrK
  BY <1>1, <1>2, <1>11, RankingAssumption
<1>16. Selected'
  BY <1>1, <1>11, <1>13, <1>14, <1>15 DEF Selected
<1> QED BY <1>1, <1>16, KeptLists DEF Next

\* The rounds end with MMR_K chunks or with all.
LEMMA EndSelectionRanks ==
    ASSUME Ranks, EndSelection PROVE Ranks'
<1>1. /\ stage = "merged" /\ stage' = "reranked"
      /\ Len(context) = MmrK \/ Remaining = <<>>
      /\ UNCHANGED <<inputs, score, hybrid, merged, context>>
  BY DEF EndSelection
<1>2. /\ merged \in Seq(Chunk) /\ IsInjective(merged)
      /\ IsFiniteSet(Range(merged)) /\ Cardinality(Range(merged)) = Len(merged)
      /\ Len(merged) \in Nat
      /\ context \in Seq(Chunk) /\ IsInjective(context)
      /\ Range(context) \subseteq Range(merged)
      /\ Cardinality(Range(context)) = Len(context)
      /\ Len(context) \in Nat
  BY <1>1, MergedList
<1>3. MmrK \in Nat /\ Len(context) <= MmrK
  BY RankingAssumption DEF Ranks, Selected
<1>4. Len(context) <= Len(merged)
  BY <1>2, FS_Subset
<1>5. Remaining = <<>> => Len(context) = Len(merged)
  <2> SUFFICES ASSUME Remaining = <<>> PROVE Len(context) = Len(merged)
    OBVIOUS
  <2>1. Range(Remaining) = Range(merged) \ Range(context)
    BY <1>2, NotInRange DEF Remaining
  <2>2. Range(Remaining) = {}
    BY DEF Range
  <2>3. Range(context) = Range(merged)
    BY <1>2, <2>1, <2>2
  <2> QED BY <1>2, <2>3
<1>6. Len(context) = Min({MmrK, Len(merged)})
  <2>1. Min({MmrK, Len(merged)}) = IF MmrK <= Len(merged) THEN MmrK ELSE Len(merged)
    <3>1. MmrK \in Int /\ Len(merged) \in Int
      BY <1>2, <1>3
    <3> QED BY <3>1, LesserOf, Zenon
  <2> QED BY <1>1, <1>2, <1>3, <1>4, <1>5, <2>1
<1>7. Selected'
  BY <1>1, <1>2, <1>3, <1>6 DEF Selected
<1> QED BY <1>1, <1>7, KeptLists DEF Next

LEMMA NextRanks == Ranks /\ [Next]_vars => Ranks'
<1> SUFFICES ASSUME Ranks, [Next]_vars PROVE Ranks'
  OBVIOUS
<1>1. CASE HybridRank
  BY <1>1, HybridRankRanks
<1>2. CASE MergeGraphChunks
  BY <1>2, MergeGraphChunksRanks
<1>3. CASE SortByScore
  BY <1>3, SortByScoreRanks
<1>4. CASE SelectBest
  BY <1>4, SelectBestRanks
<1>5. CASE EndSelection
  BY <1>5, EndSelectionRanks
<1>6. CASE UNCHANGED vars
  <2>1. /\ Inputs' /\ HybridPoints' = HybridPoints /\ MergedPoints' = MergedPoints
    BY <1>6, NextInputs DEF Ranks, vars
  <2> QED BY <1>6, <2>1 DEF Ranks, HybridKept, MergedKept, Scored, Selected, vars, inputs
<1> QED BY <1>1, <1>2, <1>3, <1>4, <1>5, <1>6 DEF Next, Reranked

\* Each list holds the best of what it was made from, and the context is part of the
\* last one: hybrid_rank, merge_graph_chunks and rerank_mmr keep what they are handed.
THEOREM RanksAlways == Spec => []Ranks
<1> QED BY InitRanks, NextRanks, PTL DEF Spec

-----------------------------------------------------------------------------
\* Nothing is wasted.

\* Cutting before a merge does not shorten what is cut after it.
LEMMA CutTwice ==
    ASSUME NEW A, NEW B, NEW H \in SUBSET A, NEW k \in Nat,
           IsFiniteSet(A), IsFiniteSet(B),
           Cardinality(H) = Min({k, Cardinality(A)})
    PROVE  Min({k, Cardinality(H \cup B)}) = Min({k, Cardinality(A \cup B)})
<1>1. /\ IsFiniteSet(H) /\ IsFiniteSet(H \cup B) /\ IsFiniteSet(A \cup B)
  BY FS_Subset, FS_Union
<1> DEFINE h == Cardinality(H)  a == Cardinality(A)
           hb == Cardinality(H \cup B)  ab == Cardinality(A \cup B)
<1>2. h \in Nat /\ a \in Nat /\ hb \in Nat /\ ab \in Nat
  BY <1>1, FS_CardinalityType
<1>3. h <= hb
  BY <1>1, FS_Subset
<1>4. hb <= ab
  <2>1. H \cup B \in SUBSET (A \cup B)
    OBVIOUS
  <2> QED BY <1>1, <2>1, FS_Subset
<1>5. h = a => hb = ab
  <2> SUFFICES ASSUME h = a PROVE H = A
    OBVIOUS
  <2> QED BY FS_Subset
<1>6. /\ h = (IF k <= a THEN k ELSE a)
      /\ Min({k, hb}) = (IF k <= hb THEN k ELSE hb)
      /\ Min({k, ab}) = (IF k <= ab THEN k ELSE ab)
  <2> HIDE DEF h, a, hb, ab
  <2>1. h = Min({k, a})
    BY DEF h, a
  <2>2. k \in Int /\ a \in Int /\ hb \in Int /\ ab \in Int
    BY <1>2
  <2>3. Min({k, a}) = (IF k <= a THEN k ELSE a)
    BY <2>2, LesserOf, Zenon
  <2>4. Min({k, hb}) = (IF k <= hb THEN k ELSE hb)
    BY <2>2, LesserOf, Zenon
  <2>5. Min({k, ab}) = (IF k <= ab THEN k ELSE ab)
    BY <2>2, LesserOf, Zenon
  <2> QED BY <2>1, <2>3, <2>4, <2>5
<1> HIDE DEF h, a, hb, ab
<1>7. Min({k, hb}) = Min({k, ab})
  BY <1>2, <1>3, <1>4, <1>5, <1>6
<1> QED BY <1>7 DEF hb, ab

\* The lesser of three numbers.
LEMMA LesserOfThree ==
    ASSUME NEW l \in Int, NEW m \in Int, NEW n \in Int
    PROVE  Min({l, m, n}) = Min({l, Min({m, n})})
<1>1. /\ Min({m, n}) = IF m <= n THEN m ELSE n
      /\ Min({m, n}) \in Int
  BY LesserOf
<1>2. Min({l, Min({m, n})}) = IF l <= Min({m, n}) THEN l ELSE Min({m, n})
  BY <1>1, LesserOf
<1> DEFINE x == IF l <= Min({m, n}) THEN l ELSE Min({m, n})
<1>3. x \in {l, m, n} /\ \A y \in {l, m, n} : x <= y
  BY <1>1
<1>4. \A z \in {l, m, n} : (\A y \in {l, m, n} : z <= y) => z = x
  <2> HIDE DEF x
  <2>1. x \in Int
    BY <1>3
  <2> QED BY <1>3, <2>1
<1> HIDE DEF x
<1>5. Min({l, m, n}) = x
  BY <1>3, <1>4 DEF Min
<1> QED BY <1>2, <1>5 DEF x

LEMMA RanksContextFull == Ranks => ContextFull
<1> DEFINE v == Range(byVector)  t == Range(byTerms)  g == Range(byGraph)
           found == v \cup t \cup g
           n == Cardinality(found)
<1> SUFFICES ASSUME Ranks, stage = "reranked"
             PROVE  /\ Len(context) = Min({MmrK, topK, n})
                    /\ Cardinality(Range(context)) = Len(context)
                    /\ Range(context) \subseteq found
  BY DEF ContextFull
<1>1. IsFiniteSet(v) /\ IsFiniteSet(t) /\ IsFiniteSet(g)
  BY DistinctLen DEF Ranks, Inputs
<1>2. IsFiniteSet(v \cup t) /\ IsFiniteSet(found)
  BY <1>1, FS_Union
<1>3. topK \in Nat /\ MmrK \in Nat /\ n \in Nat
  BY <1>2, FS_CardinalityType, RankingAssumption DEF Ranks, Inputs
<1>4. Best(hybrid, v \cup t, HybridPoints, topK)
  BY DEF Ranks, HybridKept
<1>5. Best(merged, Range(hybrid) \cup g, MergedPoints, topK)
  BY DEF Ranks, MergedKept
<1> HIDE DEF v, t, g
<1>6. Range(hybrid) \subseteq v \cup t
      /\ Cardinality(Range(hybrid)) = Min({topK, Cardinality(v \cup t)})
  BY <1>4, DistinctLen DEF Best
<1>7. Min({topK, Cardinality(Range(hybrid) \cup g)}) = Min({topK, n})
  <2>1. topK \in Nat /\ Range(hybrid) \in SUBSET (v \cup t)
    BY <1>3, <1>6
  <2> DEFINE A == v \cup t  H == Range(hybrid)
  <2>2. /\ H \in SUBSET A /\ topK \in Nat
        /\ IsFiniteSet(A) /\ IsFiniteSet(g)
        /\ Cardinality(H) = Min({topK, Cardinality(A)})
    BY <1>1, <1>2, <1>6, <2>1
  <2>3. found = A \cup g
    OBVIOUS
  <2> HIDE DEF A, H, found
  <2>4. Min({topK, Cardinality(H \cup g)}) = Min({topK, Cardinality(A \cup g)})
    BY <2>2, CutTwice
  <2> QED BY <2>3, <2>4 DEF H
<1>8. Len(merged) = Min({topK, n}) /\ Range(merged) \subseteq found
  BY <1>5, <1>6, <1>7 DEF Best
<1>9. /\ Range(context) \subseteq Range(merged)
      /\ Cardinality(Range(context)) = Len(context)
  BY MergedList
<1>10. Len(context) = Min({MmrK, Len(merged)})
  BY DEF Ranks, Selected
<1> HIDE DEF n
<1>11. Min({MmrK, topK, n}) = Min({MmrK, Min({topK, n})})
  BY <1>3, LesserOfThree
<1> QED BY <1>8, <1>9, <1>10, <1>11

\* However the three searches overlap and wherever their lists are cut, the context
\* is as long as MMR_K, top_k and what was found allow, and holds no chunk twice.
THEOREM ContextFullAlways == Spec => []ContextFull
<1> QED BY RanksAlways, RanksContextFull, PTL

-----------------------------------------------------------------------------
\* What is better comes first.

\* A positive weight keeps the order.
LEMMA WeightKeeps ==
    ASSUME NEW k \in Nat \ {0}, NEW x \in Int, NEW y \in Int
    PROVE  /\ x > y => k * x > k * y
           /\ x >= y => k * x >= k * y
           /\ k * 0 = 0
<1>1. k * x - k * y = k * (x - y)
  OBVIOUS
<1>2. x - y > 0 => k * (x - y) > 0
  OBVIOUS
<1> QED BY <1>1, <1>2

\* With a cosine above 0 the parts are the scores times weights above 0.
LEMMA Weights ==
    ASSUME Inputs, MaxVector > 0
    PROVE  \E v, l, g \in Nat \ {0} : \A c \in Chunk :
             /\ HybridScore(c) = v * Score(c, byVector, cosine)
                                 + l * Score(c, byTerms, bm25)
             /\ GraphPart(c) = g * graph[c]
<1>1. MaxVector \in Nat \ {0} /\ MaxLexical \in Nat
  BY DEF Inputs
<1>2. NonZero(MaxLexical) \in Nat \ {0}
  BY <1>1 DEF NonZero
<1>3. Sign(MaxVector) = 1 /\ Abs(NonZero(MaxVector)) = MaxVector
  BY <1>1 DEF Sign, Abs, NonZero
<1> DEFINE n == NonZero(MaxLexical)  m == MaxVector
<1>4. \A x \in Int : /\ 8 * x * 1 * n = (8 * n) * x
                     /\ 12 * x * m = (12 * m) * x
                     /\ x * m * n = (m * n) * x
  <2> HIDE DEF n, m
  <2> QED BY <1>1, <1>2 DEF n, m
<1>5. 8 * n \in Nat \ {0} /\ 12 * m \in Nat \ {0} /\ m * n \in Nat \ {0}
  <2>1. n \in Nat \ {0} /\ m \in Nat \ {0}
    BY <1>1, <1>2
  <2> HIDE DEF n, m
  <2>2. 8 * n \in Nat \ {0} /\ 12 * m \in Nat \ {0}
    BY <2>1
  <2>3. m * n \in Int /\ m * n > 0
    BY <2>1
  <2> QED BY <2>2, <2>3
<1>6. ASSUME NEW c \in Chunk
      PROVE  /\ In(c, byVector) => VectorPart(c) = (8 * n) * cosine[c]
             /\ LexicalPart(c) = (12 * m) * bm25[c]
             /\ GraphPart(c) = (m * n) * graph[c]
  <2>1. (In(c, byVector) => cosine[c] \in Int) /\ bm25[c] \in Int /\ graph[c] \in Int
    BY DEF Inputs
  <2>2. VectorPart(c) = 8 * cosine[c] * 1 * n
    BY <1>3 DEF VectorPart
  <2>3. LexicalPart(c) = 12 * bm25[c] * m
    BY <1>3 DEF LexicalPart
  <2>4. GraphPart(c) = graph[c] * m * n
    BY <1>3 DEF GraphPart
  <2> HIDE DEF n, m
  <2> QED BY <1>4, <2>1, <2>2, <2>3, <2>4
<1> HIDE DEF n, m
<1>7. ASSUME NEW c \in Chunk
      PROVE  HybridScore(c) = (8 * n) * Score(c, byVector, cosine)
                              + (12 * m) * Score(c, byTerms, bm25)
  <2>1. (8 * n) * 0 = 0 /\ (12 * m) * 0 = 0
    BY <1>5
  <2> DEFINE v == 8 * n  l == 12 * m
  <2>2. /\ v * 0 = 0 /\ l * 0 = 0 /\ LexicalPart(c) = l * bm25[c]
        /\ In(c, byVector) => VectorPart(c) = v * cosine[c]
    BY <1>6, <2>1
  <2>3. v \in Int /\ l \in Int
    BY <1>5
  <2>4. (In(c, byVector) => cosine[c] \in Int) /\ bm25[c] \in Int
    BY DEF Inputs
  <2> HIDE DEF v, l
  <2>5. (In(c, byVector) => v * cosine[c] \in Int) /\ l * bm25[c] \in Int
    BY <2>3, <2>4
  <2>6. HybridScore(c) = v * Score(c, byVector, cosine) + l * Score(c, byTerms, bm25)
    BY <2>2, <2>5 DEF HybridScore, Score
  <2> QED BY <2>6 DEF v, l
<1> QED BY <1>5, <1>6, <1>7

\* What a chunk that beats another is worth in each round.
LEMMA BeatsScores ==
    ASSUME Inputs, MaxVector > 0, NEW a \in Chunk, NEW b \in Chunk, Beats(a, b)
    PROVE  /\ HybridScore(a) > HybridScore(b)
           /\ HybridScore(a) >= 0
           /\ (IF In(a, byGraph) THEN GraphPart(a) ELSE 0)
                >= (IF In(b, byGraph) THEN GraphPart(b) ELSE 0)
           /\ ~In(a, hybrid) =>
                /\ In(a, byGraph)
                /\ GraphPart(a) > (IF In(b, byGraph) THEN GraphPart(b) ELSE 0)
<1>1. PICK v, l, g \in Nat \ {0} : \A c \in Chunk :
             /\ HybridScore(c) = v * Score(c, byVector, cosine)
                                 + l * Score(c, byTerms, bm25)
             /\ GraphPart(c) = g * graph[c]
  BY Weights
<1> DEFINE va == Score(a, byVector, cosine)  vb == Score(b, byVector, cosine)
           ta == Score(a, byTerms, bm25)     tb == Score(b, byTerms, bm25)
           ga == Score(a, byGraph, graph)    gb == Score(b, byGraph, graph)
<1>2. /\ va \in Int /\ vb \in Int /\ ta \in Nat /\ tb \in Nat
      /\ graph[a] \in Nat /\ graph[b] \in Nat /\ ga \in Nat /\ gb \in Nat
  BY DEF Inputs, Score
<1>3. /\ va >= vb /\ va >= 0 /\ ta >= tb /\ (va > vb \/ ta > tb)
      /\ ga >= gb /\ (~In(a, hybrid) => ga > gb)
  BY DEF Beats
<1>4. HybridScore(a) = v * va + l * ta /\ HybridScore(b) = v * vb + l * tb
  BY <1>1
<1>5. /\ (IF In(a, byGraph) THEN GraphPart(a) ELSE 0) = g * ga
      /\ (IF In(b, byGraph) THEN GraphPart(b) ELSE 0) = g * gb
      /\ ga > 0 => In(a, byGraph)
  <2>1. g * 0 = 0
    OBVIOUS
  <2> QED BY <1>1, <2>1 DEF Score
<1> HIDE DEF va, vb, ta, tb, ga, gb
<1>6. /\ va > vb => v * va > v * vb
      /\ v * va >= v * vb /\ v * va >= 0
      /\ ta > tb => l * ta > l * tb
      /\ l * ta >= l * tb /\ l * ta >= 0
  <2>1. (va > vb => v * va > v * vb) /\ v * va >= v * vb
    BY <1>2, <1>3, WeightKeeps
  <2>2. (ta > tb => l * ta > l * tb) /\ l * ta >= l * tb
    BY <1>2, <1>3, WeightKeeps
  <2>3. v * va >= 0 /\ l * ta >= 0
    BY <1>2, <1>3
  <2> QED BY <2>1, <2>2, <2>3
<1>7. v * va \in Int /\ v * vb \in Int /\ l * ta \in Int /\ l * tb \in Int
  BY <1>2
<1>8. HybridScore(a) > HybridScore(b) /\ HybridScore(a) >= 0
  BY <1>3, <1>4, <1>6, <1>7
<1>9. g * ga >= g * gb /\ (ga > gb => g * ga > g * gb)
  BY <1>2, <1>3, WeightKeeps
<1>10. ~In(a, hybrid) => In(a, byGraph)
  BY <1>2, <1>3, <1>5
<1> QED BY <1>3, <1>5, <1>8, <1>9, <1>10

\* A chunk that beats another is not cut before it by hybrid_rank.  If it is kept, its
\* score after the merge is larger, or as large and it comes first in what is merged;
\* if both are cut, the graph search has found it, and gives it the larger score.
LEMMA RanksBetterFirst == Ranks => BetterFirst
<1> SUFFICES ASSUME Ranks, MaxVector > 0, stage \in {"merged", "reranked"},
                    NEW a \in Chunk, NEW b \in Chunk, Beats(a, b), In(b, merged)
             PROVE  Precedes(a, b, merged)
  BY DEF BetterFirst, Precedes
<1> DEFINE ha == IF In(a, hybrid) THEN HybridScore(a) ELSE 0
           hb == IF In(b, hybrid) THEN HybridScore(b) ELSE 0
           ga == IF In(a, byGraph) THEN GraphPart(a) ELSE 0
           gb == IF In(b, byGraph) THEN GraphPart(b) ELSE 0
<1>1. Inputs
  BY DEF Ranks
<1>2. /\ HybridScore(a) > HybridScore(b) /\ HybridScore(a) >= 0
      /\ ga >= gb
      /\ ~In(a, hybrid) => In(a, byGraph) /\ ga > gb
  BY <1>1, BeatsScores
<1>3. /\ HybridScore(a) \in Int /\ HybridScore(b) \in Int
      /\ GraphPart(a) \in Int /\ GraphPart(b) \in Int
  BY <1>1, PartsInt
<1>4. Best(hybrid, Range(byVector) \cup Range(byTerms), HybridPoints, topK)
  BY DEF Ranks, HybridKept
<1>5. /\ Best(merged, Range(hybrid) \cup Range(byGraph), MergedPoints, topK)
      /\ \A c \in Range(hybrid), d \in Range(byGraph) \ Range(hybrid) :
            MergedPoints[c] >= MergedPoints[d] => Precedes(c, d, merged)
  BY DEF Ranks, MergedKept
<1>6. In(b, hybrid) => In(a, hybrid)
  <2> SUFFICES ASSUME In(b, hybrid) PROVE In(a, hybrid)
    OBVIOUS
  <2>1. HybridPoints[a] > HybridPoints[b]
    BY <1>2 DEF HybridPoints
  <2>2. a \in Range(byVector) \cup Range(byTerms)
    BY DEF Beats, In
  <2>3. Precedes(a, b, hybrid)
    BY <1>4, <2>1, <2>2 DEF Best
  <2> QED BY <2>3, InRange DEF Precedes, In
<1>7. In(b, hybrid) \/ In(b, byGraph)
  BY <1>5 DEF Best, In
<1>8. MergedPoints[a] = ha + ga /\ MergedPoints[b] = hb + gb
  BY DEF MergedPoints
<1>9. ha \in Int /\ hb \in Int /\ ga \in Int /\ gb \in Int
  BY <1>3
<1>10. CASE In(b, hybrid)
  <2>1. ha > hb /\ a \in Range(hybrid)
    BY <1>2, <1>6, <1>10 DEF In
  <2> HIDE DEF ha, hb, ga, gb
  <2>2. MergedPoints[a] > MergedPoints[b]
    BY <1>2, <1>8, <1>9, <2>1
  <2> QED BY <1>5, <2>1, <2>2 DEF Best
<1>11. CASE ~In(b, hybrid) /\ In(a, hybrid)
  <2>1. ha >= hb /\ a \in Range(hybrid) /\ b \in Range(byGraph) \ Range(hybrid)
    BY <1>2, <1>7, <1>11 DEF In
  <2> HIDE DEF ha, hb, ga, gb
  <2>2. MergedPoints[a] >= MergedPoints[b]
    BY <1>2, <1>8, <1>9, <2>1
  <2> QED BY <1>5, <2>1, <2>2
<1>12. CASE ~In(b, hybrid) /\ ~In(a, hybrid)
  <2>1. ha = 0 /\ hb = 0 /\ a \in Range(byGraph)
    BY <1>2, <1>12 DEF In
  <2> HIDE DEF ha, hb, ga, gb
  <2>2. MergedPoints[a] > MergedPoints[b]
    BY <1>2, <1>8, <1>9, <1>12, <2>1
  <2> QED BY <1>5, <2>1, <2>2 DEF Best
<1> QED BY <1>10, <1>11, <1>12

\* A chunk that no search ranks below another, and that the vector or the BM25 search
\* ranks above it, is before it in what merge_graph_chunks returns, and is not cut
\* unless the other is too: the weights and the two cuts never turn an agreement of
\* the searches round, but for two chunks of one graph score that hybrid_rank has cut.
THEOREM BetterFirstAlways == Spec => []BetterFirst
<1> QED BY RanksAlways, RanksBetterFirst, PTL

=============================================================================
