------------------------- MODULE ApiSessionsProofs -------------------------
(***************************************************************************)
(* Calls to clients are never lost nor answered twice, clients are sent    *)
(* nothing when they do not wait, and sessions do not outlive clients, for *)
(* any number of clients, requests, nested handlers and messages.          *)
(***************************************************************************)
EXTENDS ApiSessions, FunctionTheorems, FiniteSetTheorems, SequenceTheorems, TLAPS

-----------------------------------------------------------------------------
\* Counting the elements of a sequence that are in a set

hits(q, S) == {i \in DOMAIN q : q[i] \in S}

count(q, S) == Cardinality(hits(q, S))

one(m, S) == IF m \in S THEN 1 ELSE 0

LEMMA FiniteHits ==
  ASSUME NEW X, NEW q \in Seq(X), NEW S
  PROVE  /\ hits(q, S) \subseteq 1..Len(q)
         /\ IsFiniteSet(hits(q, S))
         /\ count(q, S) \in Nat
         /\ count(q, S) = 0 <=> \A i \in 1..Len(q) : q[i] \notin S
  <1>1. Len(q) \in Nat /\ DOMAIN q = 1..Len(q)
    OBVIOUS
  <1>2. hits(q, S) \subseteq 1..Len(q)
    BY <1>1 DEF hits
  <1>3. IsFiniteSet(1..Len(q))
    BY <1>1, FS_Interval
  <1>4. IsFiniteSet(hits(q, S))
    BY <1>2, <1>3, FS_Subset
  <1>5. count(q, S) \in Nat /\ (count(q, S) = 0 <=> hits(q, S) = {})
    BY <1>4, FS_CardinalityType, FS_EmptySet DEF count
  <1>6. hits(q, S) = {} <=> \A i \in 1..Len(q) : q[i] \notin S
    BY <1>1 DEF hits
  <1> QED
    BY <1>2, <1>4, <1>5, <1>6

LEMMA CountEmpty ==
  ASSUME NEW S
  PROVE  count(<<>>, S) = 0
  BY FS_EmptySet, EmptySeq DEF count, hits

LEMMA SameCardinality ==
  ASSUME NEW A, NEW B, IsFiniteSet(A), NEW f \in [A -> B],
         \A i, j \in A : f[i] = f[j] => i = j,
         \A p \in B : \E i \in A : f[i] = p
  PROVE  IsFiniteSet(B) /\ Cardinality(B) = Cardinality(A)
  <1>1. f \in Bijection(A, B)
    BY Fun_IsBij
  <1>2. ExistsBijection(A, B)
    BY <1>1 DEF ExistsBijection
  <1> QED
    BY <1>2, FS_Bijection

\* A bijection between the positions, that respects S, keeps the count.
LEMMA CountMoved ==
  ASSUME NEW X, NEW Y, NEW q \in Seq(X), NEW r \in Seq(Y), NEW S, NEW T,
         NEW f \in [1..Len(q) -> 1..Len(r)],
         \A i, j \in 1..Len(q) : f[i] = f[j] => i = j,
         \A p \in 1..Len(r) : \E i \in 1..Len(q) : f[i] = p,
         \A i \in 1..Len(q) : q[i] \in S <=> r[f[i]] \in T
  PROVE  count(q, S) = count(r, T)
  <1> DEFINE g == [i \in hits(q, S) |-> f[i]]
  <1>1. DOMAIN q = 1..Len(q) /\ DOMAIN r = 1..Len(r)
    OBVIOUS
  <1>2. hits(q, S) \subseteq 1..Len(q) /\ IsFiniteSet(hits(q, S))
    BY FiniteHits
  <1>3. g \in [hits(q, S) -> hits(r, T)]
    BY <1>1, <1>2 DEF hits
  <1>4. \A i, j \in hits(q, S) : g[i] = g[j] => i = j
    BY <1>2
  <1>5. \A p \in hits(r, T) : \E i \in hits(q, S) : g[i] = p
    BY <1>1 DEF hits
  <1> QED
    BY <1>2, <1>3, <1>4, <1>5, SameCardinality DEF count

LEMMA CountAppend ==
  ASSUME NEW X, NEW q \in Seq(X), NEW m \in X, NEW S
  PROVE  count(Append(q, m), S) = count(q, S) + one(m, S)
  <1>1. /\ Len(q) \in Nat /\ Append(q, m) \in Seq(X)
        /\ DOMAIN Append(q, m) = 1..Len(q) + 1 /\ DOMAIN q = 1..Len(q)
        /\ Append(q, m)[Len(q) + 1] = m
        /\ \A i \in 1..Len(q) : Append(q, m)[i] = q[i]
    OBVIOUS
  <1>2. hits(Append(q, m), S) = IF m \in S THEN hits(q, S) \cup {Len(q) + 1} ELSE hits(q, S)
    BY <1>1 DEF hits
  <1>3. Len(q) + 1 \notin hits(q, S)
    BY <1>1 DEF hits
  <1>4. IsFiniteSet(hits(q, S)) /\ count(q, S) \in Nat
    BY FiniteHits
  <1>5. Cardinality(hits(q, S) \cup {Len(q) + 1}) = Cardinality(hits(q, S)) + 1
    BY <1>3, <1>4, FS_AddElement
  <1> QED
    BY <1>2, <1>4, <1>5 DEF count, one

LEMMA CountConcat ==
  ASSUME NEW X, NEW q \in Seq(X), NEW r \in Seq(X), NEW S
  PROVE  count(q \o r, S) = count(q, S) + count(r, S)
  <1> DEFINE n == Len(q)
             shifted == {i \in n + 1..n + Len(r) : r[i - n] \in S}
             f == [i \in hits(r, S) |-> i + n]
  <1>1. /\ n \in Nat /\ Len(r) \in Nat
        /\ DOMAIN q = 1..n /\ DOMAIN r = 1..Len(r) /\ DOMAIN (q \o r) = 1..n + Len(r)
        /\ \A i \in 1..n : (q \o r)[i] = q[i]
        /\ \A i \in n + 1..n + Len(r) : (q \o r)[i] = r[i - n]
    BY ConcatProperties
  <1>2. hits(q, S) \subseteq 1..n /\ hits(r, S) \subseteq 1..Len(r)
    BY FiniteHits
  <1>3. IsFiniteSet(hits(q, S)) /\ IsFiniteSet(hits(r, S))
    BY FiniteHits
  <1> HIDE DEF n
  <1>4. hits(q \o r, S) = hits(q, S) \cup shifted
    <2>1. ASSUME NEW i \in 1..n + Len(r)
          PROVE  i \in hits(q \o r, S) <=> i \in hits(q, S) \cup shifted
      <3>1. CASE i \in 1..n
        BY <1>1, <3>1 DEF hits
      <3>2. CASE i \in n + 1..n + Len(r)
        BY <1>1, <3>2 DEF hits
      <3> QED
        BY <1>1, <2>1, <3>1, <3>2
    <2>2. hits(q \o r, S) \subseteq 1..n + Len(r) /\ shifted \subseteq 1..n + Len(r)
      BY <1>1 DEF hits
    <2>3. hits(q, S) \subseteq 1..n + Len(r)
      BY <1>1, <1>2
    <2> QED
      BY <2>1, <2>2, <2>3
  <1>5. hits(q, S) \cap shifted = {}
    BY <1>1, <1>2
  <1>6. IsFiniteSet(shifted) /\ Cardinality(shifted) = Cardinality(hits(r, S))
    <2>1. f \in [hits(r, S) -> shifted]
      BY <1>1, <1>2 DEF hits
    <2>2. \A i, j \in hits(r, S) : f[i] = f[j] => i = j
      BY <1>1, <1>2
    <2>3. \A p \in shifted : \E i \in hits(r, S) : f[i] = p
      <3> SUFFICES ASSUME NEW p \in shifted PROVE \E i \in hits(r, S) : f[i] = p
        OBVIOUS
      <3>1. p - n \in hits(r, S) /\ (p - n) + n = p
        BY <1>1 DEF hits
      <3> QED
        BY <3>1
    <2> HIDE DEF f, shifted
    <2> QED
      BY <1>3, <2>1, <2>2, <2>3, SameCardinality
  <1> HIDE DEF shifted
  <1>7. Cardinality(hits(q, S) \cup shifted)
            = Cardinality(hits(q, S)) + Cardinality(shifted) - Cardinality({})
    BY <1>3, <1>5, <1>6, FS_Union
  <1>8. Cardinality(hits(q, S)) \in Nat /\ Cardinality(shifted) \in Nat
    BY <1>3, <1>6, FS_CardinalityType
  <1> QED
    BY <1>4, <1>6, <1>7, <1>8, FS_EmptySet DEF count

LEMMA CountTail ==
  ASSUME NEW X, NEW q \in Seq(X), q # <<>>, NEW S
  PROVE  count(q, S) = count(Tail(q), S) + one(Head(q), S)
  <1>1. /\ Tail(q) \in Seq(X) /\ Head(q) \in X /\ <<Head(q)>> \in Seq(X)
        /\ Len(Tail(q)) = Len(q) - 1 /\ Len(q) \in Nat \ {0}
        /\ \A i \in 1..Len(Tail(q)) : Tail(q)[i] = q[i + 1]
    OBVIOUS
  <1>2. q = <<Head(q)>> \o Tail(q)
    BY <1>1
  <1>3. count(q, S) = count(<<Head(q)>>, S) + count(Tail(q), S)
    <2> DEFINE h == <<Head(q)>>
               t == Tail(q)
    <2>1. h \in Seq(X) /\ t \in Seq(X) /\ q = h \o t
      BY <1>1, <1>2
    <2> HIDE DEF h, t
    <2>2. count(h \o t, S) = count(h, S) + count(t, S)
      BY <2>1, CountConcat
    <2> QED
      BY <2>1, <2>2 DEF h, t
  <1>4. count(<<Head(q)>>, S) = one(Head(q), S)
    <2>1. Append(<<>>, Head(q)) = <<Head(q)>> /\ <<>> \in Seq(X)
      OBVIOUS
    <2>2. count(<<Head(q)>>, S) = count(<<>>, S) + one(Head(q), S)
      BY <1>1, <2>1, CountAppend
    <2> QED
      BY <2>2, CountEmpty DEF one
  <1>5. count(Tail(q), S) \in Nat
    BY <1>1, FiniteHits
  <1> QED
    BY <1>3, <1>4, <1>5 DEF one

LEMMA CountSplit ==
  ASSUME NEW X, NEW q \in Seq(X), NEW k \in 0..Len(q), NEW S
  PROVE  /\ SubSeq(q, 1, k) \in Seq(X) /\ SubSeq(q, k + 1, Len(q)) \in Seq(X)
         /\ count(q, S) = count(SubSeq(q, 1, k), S) + count(SubSeq(q, k + 1, Len(q)), S)
  <1>1. SubSeq(q, 1, k) \in Seq(X) /\ SubSeq(q, k + 1, Len(q)) \in Seq(X)
    OBVIOUS
  <1>2. q = SubSeq(q, 1, k) \o SubSeq(q, k + 1, Len(q))
    <2>1. Len(q) \in Nat
      OBVIOUS
    <2>2. 1 \in 1..Len(q) + 1 /\ k \in 1 - 1..Len(q) /\ Len(q) \in k..Len(q)
      BY <2>1
    <2>3. SubSeq(q, 1, k) \o SubSeq(q, k + 1, Len(q)) = SubSeq(q, 1, Len(q))
      BY <2>2, ConcatAdjacentSubSeq
    <2> QED
      BY <2>3, SubSeqFull
  <1> DEFINE h == SubSeq(q, 1, k)
             t == SubSeq(q, k + 1, Len(q))
  <1>3. h \in Seq(X) /\ t \in Seq(X) /\ q = h \o t
    BY <1>1, <1>2
  <1> HIDE DEF h, t
  <1>4. count(h \o t, S) = count(h, S) + count(t, S)
    BY <1>3, CountConcat
  <1> QED
    BY <1>3, <1>4 DEF h, t

LEMMA CountExcept ==
  ASSUME NEW X, NEW q \in Seq(X), NEW k \in 1..Len(q), NEW m \in X, NEW S
  PROVE  /\ [q EXCEPT ![k] = m] \in Seq(X)
         /\ count([q EXCEPT ![k] = m], S) + one(q[k], S) = count(q, S) + one(m, S)
  <1> DEFINE r == [q EXCEPT ![k] = m]
             rest == hits(q, S) \ {k}
  <1>1. /\ r \in Seq(X) /\ DOMAIN r = 1..Len(q) /\ DOMAIN q = 1..Len(q) /\ r[k] = m
        /\ \A i \in 1..Len(q) : i # k => r[i] = q[i]
    BY ExceptSeq
  <1>2. hits(q, S) = IF q[k] \in S THEN rest \cup {k} ELSE rest
    BY <1>1 DEF hits
  <1>3. hits(r, S) = IF m \in S THEN rest \cup {k} ELSE rest
    BY <1>1 DEF hits
  <1>4. IsFiniteSet(rest) /\ k \notin rest
    BY FiniteHits, FS_RemoveElement
  <1> HIDE DEF rest, r
  <1>5. Cardinality(rest \cup {k}) = Cardinality(rest) + 1 /\ Cardinality(rest) \in Nat
    BY <1>4, FS_AddElement, FS_CardinalityType
  <1>6. count(r, S) + one(q[k], S) = count(q, S) + one(m, S)
    BY <1>2, <1>3, <1>5 DEF count, one
  <1> QED
    BY <1>1, <1>6 DEF r

\* The first elements of a sequence, but the last one.
LEMMA CountPop ==
  ASSUME NEW X, NEW q \in Seq(X), q # <<>>, NEW S
  PROVE  /\ SubSeq(q, 1, Len(q) - 1) \in Seq(X)
         /\ count(q, S) = count(SubSeq(q, 1, Len(q) - 1), S) + one(q[Len(q)], S)
  <1> DEFINE k == Len(q) - 1
             front == SubSeq(q, 1, k)
  <1>1. Len(q) \in Nat \ {0} /\ k \in Nat /\ k + 1 = Len(q) /\ k \in 0..Len(q) /\ q[Len(q)] \in X
    OBVIOUS
  <1>2. front \in Seq(X) /\ Len(front) = k /\ \A i \in 1..k : front[i] = q[i]
    BY <1>1
  <1>3. q = Append(front, q[Len(q)])
    BY <1>1, <1>2
  <1> HIDE DEF front
  <1>4. count(q, S) = count(front, S) + one(q[Len(q)], S)
    <2>1. count(Append(front, q[Len(q)]), S) = count(front, S) + one(q[Len(q)], S)
      BY <1>1, <1>2, CountAppend
    <2> QED
      BY <1>3, <2>1
  <1> QED
    BY <1>2, <1>4 DEF front

\* The messages are the same ones when they are sorted.
LEMMA SortedMessages ==
  ASSUME NEW X, NEW q \in Seq(X)
  PROVE  /\ sorted(q) \in Seq(X) /\ Len(sorted(q)) = Len(q)
         /\ \A p \in 1..Len(q) : \E i \in 1..Len(q) : sorted(q)[p] = q[i]
         /\ \A i \in 1..Len(q) : \E p \in 1..Len(q) : sorted(q)[p] = q[i]
         /\ \A S : count(sorted(q), S) = count(q, S)
  <1> DEFINE n == Len(q)
             is_result(i) == q[i].type = "result"
             before(i, j) == IF is_result(i) <=> is_result(j) THEN i < j ELSE is_result(i)
             B(j) == {i \in DOMAIN q : before(i, j)}
             rank(j) == Cardinality(B(j)) + 1
             rk == [j \in 1..n |-> rank(j)]
  <1>1. sorted(q) = [p \in DOMAIN q |-> q[CHOOSE j \in DOMAIN q : rank(j) = p]]
    BY DEF sorted
  <1>2. n \in Nat /\ DOMAIN q = 1..n /\ IsFiniteSet(1..n) /\ Cardinality(1..n) = n
    <2>1. n \in Nat /\ DOMAIN q = 1..n
      OBVIOUS
    <2> HIDE DEF n
    <2>2. IsFiniteSet(1..n) /\ Cardinality(1..n) = IF 1 > n THEN 0 ELSE n - 1 + 1
      BY <2>1, FS_Interval
    <2> QED
      BY <2>1, <2>2
  <1> HIDE DEF is_result, n
  <1>3. \A j \in 1..n : /\ B(j) \subseteq 1..n /\ j \notin B(j)
                        /\ IsFiniteSet(B(j)) /\ Cardinality(B(j)) \in 0..n - 1
    <2> SUFFICES ASSUME NEW j \in 1..n
                 PROVE  /\ B(j) \subseteq 1..n /\ j \notin B(j)
                        /\ IsFiniteSet(B(j)) /\ Cardinality(B(j)) \in 0..n - 1
      OBVIOUS
    <2>1. B(j) \subseteq 1..n /\ j \notin B(j)
      BY <1>2
    <2> HIDE DEF B
    <2>2. IsFiniteSet(B(j)) /\ Cardinality(B(j)) <= n /\ (n = Cardinality(B(j)) => 1..n = B(j))
      BY <1>2, <2>1, FS_Subset
    <2>3. Cardinality(B(j)) \in Nat
      BY <2>2, FS_CardinalityType
    <2> QED
      BY <1>2, <2>1, <2>2, <2>3
  <1>4. ASSUME NEW i \in 1..n, NEW j \in 1..n, before(i, j)
        PROVE  Cardinality(B(i)) < Cardinality(B(j))
    <2>1. B(i) \subseteq B(j) /\ i \in B(j)
      BY <1>2, <1>4
    <2>2. i \notin B(i) /\ IsFiniteSet(B(j))
      BY <1>3
    <2>3. /\ Cardinality(B(i)) <= Cardinality(B(j))
          /\ Cardinality(B(j)) = Cardinality(B(i)) => B(j) = B(i)
      BY <2>1, <2>2, FS_Subset
    <2> HIDE DEF B
    <2>4. Cardinality(B(i)) \in Nat /\ Cardinality(B(j)) \in Nat
      BY <1>2, <1>3
    <2> QED
      BY <2>1, <2>2, <2>3, <2>4
  <1>5. \A i, j \in 1..n : i # j => before(i, j) \/ before(j, i)
    BY <1>2
  <1> HIDE DEF before, B
  <1>6. \A i, j \in 1..n : rank(i) = rank(j) => i = j
    <2> SUFFICES ASSUME NEW i \in 1..n, NEW j \in 1..n, i # j PROVE rank(i) # rank(j)
      OBVIOUS
    <2>1. Cardinality(B(i)) \in Nat /\ Cardinality(B(j)) \in Nat
      BY <1>2, <1>3
    <2>2. Cardinality(B(i)) < Cardinality(B(j)) \/ Cardinality(B(j)) < Cardinality(B(i))
      BY <1>4, <1>5
    <2> QED
      BY <2>1, <2>2
  <1>7. \A j \in 1..n : rank(j) \in 1..n
    BY <1>2, <1>3
  <1>8. \A j \in 1..n : rk[j] = rank(j)
    OBVIOUS
  <1> HIDE DEF rank
  <1>9. rk \in [1..n -> 1..n] /\ \A i, j \in 1..n : rk[i] = rk[j] => i = j
    BY <1>6, <1>7
  <1> HIDE DEF rk
  <1>10. \A p \in 1..n : \E j \in 1..n : rk[j] = p
    <2>1. rk \in Injection(1..n, 1..n)
      BY <1>9, Fun_IsInj
    <2>2. rk \in Surjection(1..n, 1..n)
      BY <1>2, <2>1, FS_Injection
    <2> QED
      BY <2>2, Fun_SurjectionProperties
  <1>11. \A j \in 1..n : sorted(q)[rk[j]] = q[j]
    <2> SUFFICES ASSUME NEW j \in 1..n PROVE sorted(q)[rk[j]] = q[j]
      OBVIOUS
    <2>1. (CHOOSE i \in DOMAIN q : rank(i) = rk[j]) = j
      BY <1>2, <1>6, <1>8
    <2> QED
      BY <1>1, <1>2, <1>9, <2>1
  <1>12. \A p \in 1..n : \E i \in 1..n : sorted(q)[p] = q[i]
    BY <1>10, <1>11
  <1>13. sorted(q) \in Seq(X) /\ Len(sorted(q)) = n
    <2>1. \A i \in 1..n : q[i] \in X
      BY <1>2, ElementOfSeq DEF n
    <2>2. DOMAIN sorted(q) = 1..n
      BY <1>1, <1>2
    <2>3. sorted(q) = [p \in 1..n |-> sorted(q)[p]]
      BY <1>1, <1>2
    <2>4. \A p \in 1..n : sorted(q)[p] \in X
      BY <1>12, <2>1
    <2> HIDE DEF rank
    <2>5. sorted(q) \in [1..n -> X]
      BY <2>3, <2>4
    <2> QED
      BY <1>2, <2>5
  <1>14. ASSUME NEW S PROVE count(sorted(q), S) = count(q, S)
    <2>1. rk \in [1..Len(q) -> 1..Len(sorted(q))]
      BY <1>9, <1>13 DEF n
    <2>2. \A i, j \in 1..Len(q) : rk[i] = rk[j] => i = j
      BY <1>9 DEF n
    <2>3. \A p \in 1..Len(sorted(q)) : \E i \in 1..Len(q) : rk[i] = p
      BY <1>10, <1>13 DEF n
    <2>4. \A i \in 1..Len(q) : q[i] \in S <=> sorted(q)[rk[i]] \in S
      BY <1>11 DEF n
    <2>5. sorted(q) \in Seq(X)
      BY <1>13
    <2> DEFINE r == sorted(q)
    <2>6. /\ r \in Seq(X) /\ rk \in [1..Len(q) -> 1..Len(r)]
          /\ \A p \in 1..Len(r) : \E i \in 1..Len(q) : rk[i] = p
          /\ \A i \in 1..Len(q) : q[i] \in S <=> r[rk[i]] \in S
      BY <2>1, <2>3, <2>4, <2>5
    <2> HIDE DEF r
    <2>7. count(q, S) = count(r, S)
      BY <2>2, <2>6, CountMoved
    <2> QED
      BY <2>7 DEF r
  <1>15. \A i \in 1..n : \E p \in 1..n : sorted(q)[p] = q[i]
    BY <1>9, <1>11
  <1> QED
    BY <1>12, <1>13, <1>14, <1>15 DEF n

-----------------------------------------------------------------------------
\* Counting in the sequences of a function

nested(F, S) == UNION {{k} \X hits(F[k], S) : k \in DOMAIN F}

sequences(K, X) == [K -> Seq(X)]

LEMMA NestedChange ==
  ASSUME NEW X, NEW K, NEW F \in sequences(K, X), NEW k \in K, NEW q \in Seq(X), NEW S,
         IsFiniteSet(nested(F, S))
  PROVE  /\ IsFiniteSet(nested([F EXCEPT ![k] = q], S))
         /\ Cardinality(nested(F, S)) \in Nat
         /\ Cardinality(nested([F EXCEPT ![k] = q], S)) \in Nat
         /\ Cardinality(nested([F EXCEPT ![k] = q], S)) + count(F[k], S)
                = Cardinality(nested(F, S)) + count(q, S)
  <1> DEFINE G == [F EXCEPT ![k] = q]
             rest == nested(F, S) \ ({k} \X hits(F[k], S))
  <1>1. /\ DOMAIN F = K /\ DOMAIN G = K /\ G[k] = q /\ F[k] \in Seq(X)
        /\ \A l \in K : l # k => G[l] = F[l]
    BY DEF sequences
  <1> HIDE DEF G
  <1>2. /\ nested(F, S) = rest \cup ({k} \X hits(F[k], S))
        /\ rest \cap ({k} \X hits(F[k], S)) = {}
    BY <1>1 DEF nested
  <1>3. rest = {w \in nested(F, S) : w[1] # k}
    BY <1>1 DEF nested
  <1>4. /\ nested(G, S) = rest \cup ({k} \X hits(q, S))
        /\ rest \cap ({k} \X hits(q, S)) = {}
    <2>1. ASSUME NEW w PROVE w \in nested(G, S) <=> w \in rest \cup ({k} \X hits(q, S))
      <3>1. w \in nested(G, S) <=> \E l \in K : w \in {l} \X hits(G[l], S)
        BY <1>1 DEF nested
      <3>2. w \in nested(F, S) <=> \E l \in K : w \in {l} \X hits(F[l], S)
        BY <1>1 DEF nested
      <3> QED
        BY <1>1, <1>3, <3>1, <3>2
    <2> HIDE DEF rest
    <2> QED
      BY <1>3, <2>1
  <1>5. ASSUME NEW r \in Seq(X)
        PROVE  /\ IsFiniteSet({k} \X hits(r, S))
               /\ Cardinality({k} \X hits(r, S)) = count(r, S) /\ count(r, S) \in Nat
    <2> DEFINE f == [i \in hits(r, S) |-> <<k, i>>]
    <2>1. IsFiniteSet(hits(r, S)) /\ count(r, S) \in Nat
      BY FiniteHits
    <2>2. f \in [hits(r, S) -> {k} \X hits(r, S)]
      OBVIOUS
    <2>3. \A i, j \in hits(r, S) : f[i] = f[j] => i = j
      OBVIOUS
    <2>4. \A p \in {k} \X hits(r, S) : \E i \in hits(r, S) : f[i] = p
      OBVIOUS
    <2> HIDE DEF f
    <2> QED
      BY <2>1, <2>2, <2>3, <2>4, SameCardinality DEF count
  <1>6. IsFiniteSet(rest) /\ Cardinality(rest) \in Nat
    BY FS_Subset, FS_CardinalityType
  <1> HIDE DEF rest
  <1>7. Cardinality(nested(F, S)) = Cardinality(rest) + count(F[k], S)
    <2> DEFINE part == {k} \X hits(F[k], S)
    <2>1. IsFiniteSet(part) /\ Cardinality(part) = count(F[k], S) /\ count(F[k], S) \in Nat
      BY <1>1, <1>5
    <2>2. nested(F, S) = rest \cup part /\ rest \cap part = {}
      BY <1>2
    <2> HIDE DEF part
    <2>3. Cardinality(rest \cup part) = Cardinality(rest) + Cardinality(part) - Cardinality({})
      BY <1>6, <2>1, <2>2, FS_Union
    <2> QED
      BY <1>6, <2>1, <2>2, <2>3, FS_EmptySet
  <1>8. /\ IsFiniteSet(nested(G, S))
        /\ Cardinality(nested(G, S)) = Cardinality(rest) + count(q, S)
    <2> DEFINE part == {k} \X hits(q, S)
    <2>1. IsFiniteSet(part) /\ Cardinality(part) = count(q, S) /\ count(q, S) \in Nat
      BY <1>5
    <2>2. nested(G, S) = rest \cup part /\ rest \cap part = {}
      BY <1>4
    <2> HIDE DEF part
    <2>3. /\ IsFiniteSet(rest \cup part)
          /\ Cardinality(rest \cup part) = Cardinality(rest) + Cardinality(part) - Cardinality({})
      BY <1>6, <2>1, <2>2, FS_Union
    <2> QED
      BY <1>6, <2>1, <2>2, <2>3, FS_EmptySet
  <1>9. count(F[k], S) \in Nat /\ count(q, S) \in Nat
    BY <1>1, <1>5
  <1> QED
    BY <1>6, <1>7, <1>8, <1>9 DEF G

-----------------------------------------------------------------------------
\* The inductive invariant

CallsAt(d) == {m \in ToHub : m.type = "call" /\ m.depth = d}
ResultsAt(d) == {m \in ToMain : m.type = "result" /\ m.depth = d}
StackedAt(d) == {[depth |-> d, over |-> FALSE]}

RunsOf(t) == {m \in ToMain : m.type = "run" /\ m.task = t}
PrintsOf(t) == {f \in Frame : f.job = "print" /\ f.task = t}
ResultsOf(t) == {m \in ToHub : m.type = "result" /\ m.task = t}

Requests == {m \in FromClient : m.type = "request"}
Ends == {[type |-> "result"]}

\* What the handlers have still to do, by depth
todos(st) == [e \in Nat |-> IF e \in DOMAIN st THEN st[e].todo ELSE <<>>]

awaits(st, d) == d \in DOMAIN st /\ st[d].call # "none" /\ st[d].answer = "none"

traces(d) ==
    count(mainToHub, CallsAt(d)) + count(hubBatch, CallsAt(d))
    + Cardinality(nested(callStack, StackedAt(d)))
    + count(hubToMain, ResultsAt(d))
    + Cardinality(nested(todos(stack), ResultsAt(d)))

\* A call that is awaited leaves one trace; there is no other one, be it of a handler
\* that has ended.
CallsTraced ==
    \A d \in Depths :
        /\ IsFiniteSet(nested(callStack, StackedAt(d)))
        /\ IsFiniteSet(nested(todos(stack), ResultsAt(d)))
        /\ traces(d) = IF awaits(stack, d) THEN 1 ELSE 0

\* What each kind of handler calls, and the task it calls about
FrameOK(f) ==
    /\ f.job # "batch" => f.todo = <<>>
    /\ f.job = "batch" => f.call = "none"
    /\ f.job = "print" => f.task \in Tasks /\ f.call \in {"none", "print"}
    /\ f.job \in {"wait", "event"} => f.call \in {"none", "get_username", "set_busy_label"}
    /\ f.call # "none" => f.task \in Tasks
    /\ f.answer # "none" => f.call # "none"

FramesSound == \A e \in DOMAIN stack : FrameOK(stack[e])

progress(t) ==
    count(hubToMain, RunsOf(t)) + Cardinality(nested(todos(stack), RunsOf(t)))
    + count(stack, PrintsOf(t)) + one(t, waiting)
    + count(mainToHub, ResultsOf(t)) + count(hubBatch, ResultsOf(t))

\* A task submitted is at one stage: to be run, running, waiting, or done. A task that
\* was not, or whose result the hub has handled, is nowhere.
TasksTraced ==
    /\ IsFiniteSet(waiting)
    /\ \A t \in Tasks :
           /\ IsFiniteSet(nested(todos(stack), RunsOf(t)))
           /\ progress(t) = one(t, submitted)

pending(s) == {t \in submitted : t[1] = s}

\* The request of a client is on its way, or submitted, or its result is the last thing
\* the client is sent.
ClientsServed ==
    \A s \in Sessions :
        /\ count(fromClient[s], Requests) + Cardinality(pending(s)) + count(toClient[s], Ends)
               <= IF client[s] = "ready" THEN 0 ELSE 1
        /\ client[s] = "ready" => toClient[s] = <<>>
        /\ client[s] = "gone" => link[s] # "open"
        /\ \A i \in DOMAIN toClient[s] : toClient[s][i].type = "result" => i = Len(toClient[s])
        /\ requested[s] = 0 => count(fromClient[s], Requests) = 0

SessionsTracked ==
    /\ \A t \in submitted : t[1] \in sent
    /\ sessions \subseteq sent
    /\ \A s \in sessions :
           \/ session[s] \in {"open", "aborted"}
           \/ s \in revived \/ to_destroy(s)
    /\ \A s \in sent :
           \/ session[s] \in {"open", "aborted"}
           \/ s \in destroyed \/ to_destroy(s)

IInv == TypeOK /\ FramesSound /\ CallsTraced /\ TasksTraced /\ ClientsServed /\ SessionsTracked

-----------------------------------------------------------------------------
\* What the operators of the hub do

LEMMA MainMessages ==
  /\ \A d \in Depths, v \in Answers :
         /\ result(d, v) \in ToMain
         /\ result(d, v).type = "result" /\ result(d, v).depth = d /\ result(d, v).value = v
         /\ \A e : one(result(d, v), ResultsAt(e)) = IF e = d THEN 1 ELSE 0
         /\ \A t : one(result(d, v), RunsOf(t)) = 0
  /\ \A t \in Tasks, kind \in Kinds : LET m == [type |-> "run", task |-> t, kind |-> kind] IN
         /\ m \in ToMain
         /\ \A d : one(m, ResultsAt(d)) = 0
         /\ \A u : one(m, RunsOf(u)) = IF u = t THEN 1 ELSE 0
  /\ \A s \in Sessions : LET m == [type |-> "destroy", session |-> s] IN
         /\ m \in ToMain
         /\ \A d : one(m, ResultsAt(d)) = 0
         /\ \A u : one(m, RunsOf(u)) = 0
  BY DEF result, ToMain, ResultsAt, RunsOf, one

LEMMA HubMessages ==
  /\ \A t \in Tasks, d \in Depths, what \in Calls :
         LET m == [type |-> "call", task |-> t, depth |-> d, what |-> what] IN
         /\ m \in ToHub
         /\ \A e : one(m, CallsAt(e)) = IF e = d THEN 1 ELSE 0
         /\ \A u : one(m, ResultsOf(u)) = 0
  /\ \A t \in Tasks, raised \in BOOLEAN :
         /\ task_result(t, raised) \in ToHub
         /\ \A e : one(task_result(t, raised), CallsAt(e)) = 0
         /\ \A u : one(task_result(t, raised), ResultsOf(u)) = IF u = t THEN 1 ELSE 0
  BY DEF task_result, ToHub, CallsAt, ResultsOf, one

\* close() answers the calls that follow the last one that is over.
LEMMA LeftOver ==
  ASSUME NEW calls \in Seq(ClientTask)
  PROVE  /\ left(calls) \in 0..Len(calls)
         /\ \A i \in left(calls) + 1..Len(calls) : ~calls[i].over
  <1> DEFINE n == Len(calls)
             D == {i \in DOMAIN calls : \E j \in DOMAIN calls : j >= i /\ calls[j].over}
  <1>1. n \in Nat /\ DOMAIN calls = 1..n
    OBVIOUS
  <1>2. left(calls) = Cardinality(D)
    BY DEF left
  <1>3. D \subseteq 1..n /\ \A i \in D : 1..i \subseteq D
    BY <1>1
  <1>4. \A i \in 1..n : calls[i].over => i \in D
    BY <1>1
  <1> HIDE DEF D, n
  <1>5. IsFiniteSet(1..n) /\ Cardinality(1..n) = n
    BY <1>1, FS_Interval
  <1>6. IsFiniteSet(D) /\ Cardinality(D) <= n /\ Cardinality(D) \in Nat
    <2>1. D \in SUBSET (1..n) /\ IsFiniteSet(1..n)
      BY <1>3, <1>5
    <2>2. IsFiniteSet(D) /\ Cardinality(D) <= Cardinality(1..n)
      BY <2>1, FS_Subset
    <2>3. Cardinality(D) \in Nat
      BY <2>2, FS_CardinalityType
    <2> QED
      BY <1>5, <2>2, <2>3
  <1>7. ASSUME NEW i \in D PROVE i <= Cardinality(D)
    <2>1. i \in 1..n /\ IsFiniteSet(1..i) /\ Cardinality(1..i) = i
      BY <1>1, <1>3, FS_Interval
    <2>2. Cardinality(1..i) <= Cardinality(D)
      BY <1>3, <1>6, FS_Subset
    <2> QED
      BY <2>1, <2>2
  <1> QED
    BY <1>1, <1>2, <1>3, <1>4, <1>6, <1>7 DEF n

LEMMA CallsAnswered ==
  ASSUME NEW calls \in Seq(ClientTask), \A i \in 1..Len(calls) : ~calls[i].over
  PROVE  /\ none_results(calls) \in Seq(ToMain)
         /\ all_over(calls) \in Seq(ClientTask)
         /\ \A d \in Depths : /\ count(none_results(calls), ResultsAt(d)) = count(calls, StackedAt(d))
                              /\ count(all_over(calls), StackedAt(d)) = 0
         /\ \A t : count(none_results(calls), RunsOf(t)) = 0
  <1> DEFINE n == Len(calls)
             nr == none_results(calls)
             f == [i \in 1..n |-> n + 1 - i]
  <1>1. n \in Nat /\ DOMAIN calls = 1..n /\ \A i \in 1..n : calls[i] \in ClientTask
    OBVIOUS
  <1>2. \A i \in 1..n : /\ calls[i].depth \in Depths
                        /\ calls[i] = [depth |-> calls[i].depth, over |-> FALSE]
    BY <1>1 DEF ClientTask
  <1>3. nr = [i \in 1..n |-> result(calls[n + 1 - i].depth, "None")]
    BY <1>1 DEF none_results
  <1>4. \A i \in 1..n : n + 1 - i \in 1..n
    BY <1>1
  <1> HIDE DEF nr, n
  <1>13. \A d \in Depths : /\ result(d, "None") \in ToMain
                           /\ \A e : result(d, "None") \in ResultsAt(e) <=> e = d
                           /\ \A t : result(d, "None") \notin RunsOf(t)
    BY DEF Answers, result, ToMain, ResultsAt, RunsOf
  <1>5. \A i \in 1..n : nr[i] = result(calls[n + 1 - i].depth, "None") /\ nr[i] \in ToMain
    <2> SUFFICES ASSUME NEW i \in 1..n
                 PROVE  nr[i] = result(calls[n + 1 - i].depth, "None") /\ nr[i] \in ToMain
      OBVIOUS
    <2>1. calls[n + 1 - i].depth \in Depths
      BY <1>2, <1>4
    <2>2. nr[i] = result(calls[n + 1 - i].depth, "None")
      BY <1>3
    <2> QED
      BY <2>1, <2>2, <1>13
  <1>6. nr \in Seq(ToMain) /\ Len(nr) = n
    <2>1. nr \in [1..n -> ToMain]
      BY <1>3, <1>5
    <2> QED
      BY <1>1, <1>3, <2>1
  <1>7. all_over(calls) = [i \in 1..n |-> [calls[i] EXCEPT !.over = TRUE]]
    BY <1>1 DEF all_over
  <1>8. \A i \in 1..n : /\ [calls[i] EXCEPT !.over = TRUE] \in ClientTask
                        /\ [calls[i] EXCEPT !.over = TRUE].over = TRUE
    BY <1>1 DEF ClientTask
  <1>9. all_over(calls) \in Seq(ClientTask) /\ Len(all_over(calls)) = n
    <2>1. all_over(calls) \in [1..n -> ClientTask]
      BY <1>7, <1>8
    <2> QED
      BY <1>1, <1>7, <2>1
  <1>10. ASSUME NEW d \in Depths PROVE count(all_over(calls), StackedAt(d)) = 0
    <2>1. \A i \in 1..Len(all_over(calls)) : all_over(calls)[i] \notin StackedAt(d)
      <3>1. \A i \in 1..n : all_over(calls)[i].over
        BY <1>7, <1>8
      <3>2. \A x \in StackedAt(d) : ~x.over
        BY DEF StackedAt
      <3> QED
        BY <1>9, <3>1, <3>2
    <2> QED
      BY <1>9, <2>1, FiniteHits
  <1>11. ASSUME NEW t PROVE count(nr, RunsOf(t)) = 0
    <2>1. \A i \in 1..Len(nr) : nr[i] \notin RunsOf(t)
      <3> SUFFICES ASSUME NEW i \in 1..n PROVE nr[i] \notin RunsOf(t)
        BY <1>6
      <3>1. calls[n + 1 - i].depth \in Depths
        BY <1>2, <1>4
      <3> QED
        BY <1>5, <1>13, <3>1
    <2> QED
      BY <1>6, <2>1, FiniteHits
  <1>12. ASSUME NEW d \in Depths PROVE count(nr, ResultsAt(d)) = count(calls, StackedAt(d))
    <2>1. f \in [1..Len(nr) -> 1..Len(calls)]
      BY <1>1, <1>4, <1>6 DEF n
    <2>5. \A i, j \in 1..Len(nr) : f[i] = f[j] => i = j
      BY <1>1, <1>6
    <2>2. \A p \in 1..Len(calls) : \E i \in 1..Len(nr) : f[i] = p
      <3> SUFFICES ASSUME NEW p \in 1..Len(calls) PROVE \E i \in 1..Len(nr) : f[i] = p
        OBVIOUS
      <3>1. n + 1 - p \in 1..Len(nr) /\ f[n + 1 - p] = p
        BY <1>1, <1>6
      <3> QED
        BY <3>1
    <2>3. \A i \in 1..Len(nr) : nr[i] \in ResultsAt(d) <=> calls[f[i]] \in StackedAt(d)
      <3> SUFFICES ASSUME NEW i \in 1..Len(nr)
                   PROVE  nr[i] \in ResultsAt(d) <=> calls[f[i]] \in StackedAt(d)
        OBVIOUS
      <3>1. f[i] \in 1..n /\ nr[i] = result(calls[f[i]].depth, "None") /\ calls[f[i]].depth \in Depths
        BY <1>2, <1>4, <1>5, <1>6
      <3>2. nr[i] \in ResultsAt(d) <=> calls[f[i]].depth = d
        BY <3>1, <1>13
      <3>3. calls[f[i]] \in StackedAt(d) <=> calls[f[i]].depth = d
        BY <1>2, <3>1 DEF StackedAt
      <3> QED
        BY <3>2, <3>3
    <2> HIDE DEF f
    <2>4. nr \in Seq(ToMain)
      BY <1>6
    <2> QED
      BY <2>1, <2>5, <2>2, <2>3, <2>4, CountMoved, SMTT(60)
  <1> QED
    BY <1>6, <1>9, <1>10, <1>11, <1>12 DEF nr, n

\* What close() does to the calls and to the messages for server-main
LEMMA CloseEffect ==
  ASSUME callStack \in [Sessions -> Seq(ClientTask)], hubToMain \in Seq(ToMain),
         NEW s \in Sessions, NEW calls \in Seq(ClientTask), close(s, calls)
  PROVE  /\ hubToMain' \in Seq(ToMain)
         /\ \E q \in Seq(ClientTask) :
               /\ callStack' = [callStack EXCEPT ![s] = q]
               /\ \A d \in Depths : count(hubToMain', ResultsAt(d)) + count(q, StackedAt(d))
                                    = count(hubToMain, ResultsAt(d)) + count(calls, StackedAt(d))
         /\ \A t : count(hubToMain', RunsOf(t)) = count(hubToMain, RunsOf(t))
         /\ \A i \in DOMAIN hubToMain : \E j \in DOMAIN hubToMain' : hubToMain'[j] = hubToMain[i]
         /\ s \in sent /\ left(calls) = 0 =>
               \E j \in DOMAIN hubToMain' : hubToMain'[j] = [type |-> "destroy", session |-> s]
  <1> DEFINE kept == left(calls)
             answered == SubSeq(calls, kept + 1, Len(calls))
             first == SubSeq(calls, 1, kept)
             q == first \o all_over(answered)
             results == none_results(answered)
             last == IF kept = 0 THEN destroy_session(s) ELSE <<>>
             destroy == [type |-> "destroy", session |-> s]
  <1>1. callStack' = [callStack EXCEPT ![s] = q] /\ hubToMain' = hubToMain \o results \o last
    BY DEF close
  <1>2. kept \in 0..Len(calls) /\ \A i \in kept + 1..Len(calls) : ~calls[i].over
    BY LeftOver
  <1>3. /\ first \in Seq(ClientTask) /\ answered \in Seq(ClientTask)
        /\ \A S : count(calls, S) = count(first, S) + count(answered, S)
    BY <1>2, CountSplit
  <1>4. \A i \in 1..Len(answered) : ~answered[i].over
    <2>1. Len(calls) \in Nat
      OBVIOUS
    <2> HIDE DEF kept
    <2>2. Len(answered) = Len(calls) - kept /\ \A i \in 1..Len(calls) - kept : answered[i] = calls[i + kept]
      BY <1>2, <2>1
    <2> QED
      BY <1>2, <2>1, <2>2
  <1>5. /\ results \in Seq(ToMain) /\ all_over(answered) \in Seq(ClientTask)
        /\ \A d \in Depths : /\ count(results, ResultsAt(d)) = count(answered, StackedAt(d))
                             /\ count(all_over(answered), StackedAt(d)) = 0
        /\ \A t : count(results, RunsOf(t)) = 0
    BY <1>3, <1>4, CallsAnswered
  <1>6. destroy \in ToMain /\ \A d, t : destroy \notin ResultsAt(d) /\ destroy \notin RunsOf(t)
    BY DEF ToMain, ResultsAt, RunsOf
  <1>7. /\ last \in Seq(ToMain) /\ last \in {<<>>, <<destroy>>}
        /\ s \in sent /\ kept = 0 => last = <<destroy>>
    BY <1>6 DEF destroy_session
  <1> HIDE DEF kept, answered, first, results, last, destroy
  <1>8. \A d, t : count(last, ResultsAt(d)) = 0 /\ count(last, RunsOf(t)) = 0
    <2> SUFFICES ASSUME NEW d, NEW t
                 PROVE  count(last, ResultsAt(d)) = 0 /\ count(last, RunsOf(t)) = 0
      OBVIOUS
    <2>1. CASE last = <<>>
      BY <2>1, CountEmpty
    <2>2. CASE last = <<destroy>>
      <3>1. Len(last) = 1 /\ last[1] = destroy
        BY <2>2
      <3>2. \A i \in 1..Len(last) : last[i] \notin ResultsAt(d) /\ last[i] \notin RunsOf(t)
        <4> SUFFICES ASSUME NEW i \in 1..Len(last)
                     PROVE  last[i] \notin ResultsAt(d) /\ last[i] \notin RunsOf(t)
          OBVIOUS
        <4>1. i = 1
          BY <3>1
        <4>2. last[i] = destroy
          BY <3>1, <4>1
        <4> QED
          BY <1>6, <4>2
      <3>3. last \in Seq(ToMain)
        BY <1>7
      <3> QED
        BY <3>2, <3>3, FiniteHits
    <2> QED
      BY <1>7, <2>1, <2>2
  <1>9. q \in Seq(ClientTask) /\ hubToMain \o results \in Seq(ToMain)
    BY <1>3, <1>5
  <1>10. hubToMain' \in Seq(ToMain)
    BY <1>1, <1>7, <1>9
  <1>20. \A S : count((hubToMain \o results) \o last, S)
                   = count(hubToMain \o results, S) + count(last, S)
    <2> DEFINE before == hubToMain \o results
    <2>1. before \in Seq(ToMain) /\ last \in Seq(ToMain)
      BY <1>7, <1>9
    <2> HIDE DEF before
    <2>2. \A S : count(before \o last, S) = count(before, S) + count(last, S)
      BY <2>1, CountConcat
    <2> QED
      BY <2>2 DEF before
  <1>11. \A S : count(hubToMain', S) = count(hubToMain, S) + count(results, S) + count(last, S)
    <2>1. \A S : count(hubToMain', S) = count(hubToMain \o results, S) + count(last, S)
      BY <1>1, <1>20
    <2>2. \A S : count(hubToMain \o results, S) = count(hubToMain, S) + count(results, S)
      BY <1>5, CountConcat
    <2> QED
      BY <2>1, <2>2
  <1>12. \A S : count(hubToMain, S) \in Nat /\ count(results, S) \in Nat /\ count(first, S) \in Nat
    BY <1>3, <1>5, FiniteHits
  <1>13. \A d \in Depths : count(q, StackedAt(d)) = count(first, StackedAt(d))
    <2>1. \A S : count(q, S) = count(first, S) + count(all_over(answered), S)
      BY <1>3, <1>5, CountConcat
    <2> QED
      BY <1>5, <1>12, <2>1
  <1> HIDE DEF q
  <1>14. \A d \in Depths : count(hubToMain', ResultsAt(d)) + count(q, StackedAt(d))
                           = count(hubToMain, ResultsAt(d)) + count(calls, StackedAt(d))
    <2> SUFFICES ASSUME NEW d \in Depths
                 PROVE  count(hubToMain', ResultsAt(d)) + count(q, StackedAt(d))
                        = count(hubToMain, ResultsAt(d)) + count(calls, StackedAt(d))
      OBVIOUS
    <2>1. /\ count(hubToMain', ResultsAt(d))
                 = count(hubToMain, ResultsAt(d)) + count(results, ResultsAt(d))
          /\ count(calls, StackedAt(d)) = count(first, StackedAt(d)) + count(answered, StackedAt(d))
      BY <1>3, <1>8, <1>11, <1>12
    <2> QED
      BY <1>5, <1>12, <1>13, <2>1
  <1>15. \A t : count(hubToMain', RunsOf(t)) = count(hubToMain, RunsOf(t))
    BY <1>5, <1>8, <1>11, <1>12
  <1>16. \A i \in DOMAIN hubToMain : \E j \in DOMAIN hubToMain' : hubToMain'[j] = hubToMain[i]
    <2>1. \A i \in DOMAIN hubToMain : /\ i \in DOMAIN hubToMain'
                                      /\ hubToMain'[i] = hubToMain[i]
      BY <1>1, <1>5, <1>7
    <2> QED
      BY <2>1
  <1>17. ASSUME s \in sent, kept = 0
         PROVE  \E j \in DOMAIN hubToMain' : hubToMain'[j] = destroy
    <2> DEFINE before == hubToMain \o results
    <2>1. last = <<destroy>> /\ Len(last) = 1 /\ last[1] = destroy
      BY <1>7, <1>17
    <2>2. before \in Seq(ToMain) /\ hubToMain' = before \o last
      BY <1>1, <1>9
    <2> HIDE DEF before
    <2>3. Len(before) \in Nat /\ DOMAIN hubToMain' = 1..Len(before) + Len(last)
      BY <1>7, <2>2
    <2>4. hubToMain'[Len(before) + 1] = last[1]
      BY <1>7, <2>1, <2>2, <2>3
    <2>5. Len(before) + 1 \in DOMAIN hubToMain'
      BY <2>1, <2>3
    <2>6. hubToMain'[Len(before) + 1] = destroy
      BY <2>1, <2>4
    <2> QED
      BY <2>5, <2>6
  <1> QED
    BY <1>1, <1>9, <1>10, <1>14, <1>15, <1>16, <1>17 DEF kept, destroy

-----------------------------------------------------------------------------
\* What the handlers have still to do, when the stack changes

LEMMA TodosType ==
  ASSUME NEW st \in Seq(Frame)
  PROVE  todos(st) \in [Nat -> Seq(ToMain)] /\ todos(st) \in sequences(Nat, ToMain)
  <1>1. \A e \in DOMAIN st : st[e] \in Frame
    OBVIOUS
  <1>2. \A f \in Frame : f.todo \in Seq(ToMain)
    BY DEF Frame
  <1>3. <<>> \in Seq(ToMain)
    OBVIOUS
  <1> QED
    BY <1>1, <1>2, <1>3 DEF todos, sequences

LEMMA TodosSet ==
  ASSUME NEW st \in Seq(Frame), NEW k \in 1..Len(st), NEW f \in Frame
  PROVE  /\ [st EXCEPT ![k] = f] \in Seq(Frame)
         /\ Len([st EXCEPT ![k] = f]) = Len(st)
         /\ todos([st EXCEPT ![k] = f]) = [todos(st) EXCEPT ![k] = f.todo]
  <1> DEFINE new == [st EXCEPT ![k] = f]
  <1>1. /\ new \in Seq(Frame) /\ Len(new) = Len(st)
        /\ DOMAIN new = 1..Len(st) /\ DOMAIN st = 1..Len(st) /\ Len(st) \in Nat
        /\ new[k] = f /\ \A i \in 1..Len(st) : i # k => new[i] = st[i]
    BY ExceptSeq
  <1> HIDE DEF new
  <1> QED
    BY <1>1 DEF todos, new

LEMMA TodosSame ==
  ASSUME NEW st \in Seq(Frame), NEW k \in 1..Len(st), NEW f \in Frame, f.todo = st[k].todo
  PROVE  todos([st EXCEPT ![k] = f]) = todos(st)
  BY DEF todos

LEMMA TodosPop ==
  ASSUME NEW st \in Seq(Frame), st # <<>>, st[Len(st)].todo = <<>>
  PROVE  /\ SubSeq(st, 1, Len(st) - 1) \in Seq(Frame)
         /\ Len(SubSeq(st, 1, Len(st) - 1)) = Len(st) - 1
         /\ todos(SubSeq(st, 1, Len(st) - 1)) = todos(st)
  <1> DEFINE k == Len(st) - 1
             front == SubSeq(st, 1, Len(st) - 1)
  <1>2. Len(st) \in Nat \ {0} /\ DOMAIN st = 1..Len(st) /\ k \in Nat /\ front = SubSeq(st, 1, k)
    OBVIOUS
  <1>1. /\ front \in Seq(Frame) /\ DOMAIN front = 1..k /\ Len(front) = k
        /\ \A i \in 1..k : front[i] = st[i]
    BY <1>2
  <1> HIDE DEF front
  <1>3. \A e \in Nat : (IF e \in DOMAIN front THEN front[e].todo ELSE <<>>)
                       = (IF e \in DOMAIN st THEN st[e].todo ELSE <<>>)
    BY <1>1, <1>2
  <1> QED
    BY <1>1, <1>3 DEF todos, front

LEMMA TodosPush ==
  ASSUME NEW st \in Seq(Frame), NEW f \in Frame
  PROVE  /\ Append(st, f) \in Seq(Frame)
         /\ Len(Append(st, f)) = Len(st) + 1
         /\ todos(Append(st, f)) = [todos(st) EXCEPT ![Len(st) + 1] = f.todo]
         /\ todos(st)[Len(st) + 1] = <<>>
  <1>1. /\ Len(st) \in Nat /\ DOMAIN st = 1..Len(st)
        /\ Append(st, f) \in Seq(Frame) /\ DOMAIN Append(st, f) = 1..Len(st) + 1
        /\ Append(st, f)[Len(st) + 1] = f
        /\ \A i \in 1..Len(st) : Append(st, f)[i] = st[i]
    OBVIOUS
  <1> DEFINE ap == Append(st, f)
             k == Len(st) + 1
  <1>2. k \in Nat /\ k \notin DOMAIN st /\ DOMAIN ap = DOMAIN st \cup {k} /\ ap[k] = f
        /\ \A i \in DOMAIN st : ap[i] = st[i]
    BY <1>1
  <1>3. Len(ap) = k
    BY <1>1
  <1> HIDE DEF ap, k
  <1>4. todos(ap) = [todos(st) EXCEPT ![k] = f.todo] /\ todos(st)[k] = <<>>
    BY <1>2 DEF todos
  <1> QED
    BY <1>1, <1>3, <1>4 DEF ap, k

-----------------------------------------------------------------------------
\* The handler at the top of the stack

LEMMA Top ==
  ASSUME TypeOK, FramesSound, stack # <<>>
  PROVE  /\ Len(stack) \in Depths /\ Len(stack) \in 1..Len(stack) /\ DOMAIN stack = 1..Len(stack)
         /\ top = stack[Len(stack)] /\ top \in Frame /\ FrameOK(top)
         /\ stack \in Seq(Frame)
  <1>1. stack \in Seq(Frame) /\ Len(stack) \in Nat /\ Len(stack) # 0 /\ DOMAIN stack = 1..Len(stack)
    BY DEF TypeOK
  <1>2. Len(stack) \in 1..Len(stack)
    BY <1>1
  <1> QED
    BY <1>1, <1>2 DEF top, FramesSound, Depths

LEMMA NewFrames ==
  /\ \A q \in Seq(ToMain) : LET g == [NoFrame EXCEPT !.todo = q] IN
         /\ g \in Frame /\ FrameOK(g) /\ g.todo = q /\ g.job = "batch" /\ g.call = "none"
  /\ \A kind \in Kinds, t \in Tasks, S \in SUBSET Tasks :
         LET g == [NoFrame EXCEPT !.job = kind, !.task = t, !.labels = S] IN
         /\ g \in Frame /\ FrameOK(g) /\ g.todo = <<>> /\ g.job = kind /\ g.task = t
         /\ g.call = "none"
  /\ \A S \in SUBSET Tasks : LET g == [NoFrame EXCEPT !.job = "event", !.labels = S] IN
         /\ g \in Frame /\ FrameOK(g) /\ g.todo = <<>> /\ g.job = "event" /\ g.call = "none"
  <1>1. NoFrame \in Frame /\ NoFrame.todo = <<>> /\ NoFrame.call = "none" /\ NoFrame.answer = "none"
    BY DEF NoFrame, Frame
  <1>2. NoFrame.job = "batch"
    BY DEF NoFrame
  <1>3. ASSUME NEW q \in Seq(ToMain)
        PROVE  LET g == [NoFrame EXCEPT !.todo = q] IN
               g \in Frame /\ FrameOK(g) /\ g.todo = q /\ g.job = "batch" /\ g.call = "none"
    BY <1>1, <1>2 DEF Frame, FrameOK
  <1>4. ASSUME NEW kind \in Kinds, NEW t \in Tasks, NEW S \in SUBSET Tasks
        PROVE  LET g == [NoFrame EXCEPT !.job = kind, !.task = t, !.labels = S] IN
               /\ g \in Frame /\ FrameOK(g) /\ g.todo = <<>> /\ g.job = kind /\ g.task = t
               /\ g.call = "none"
    BY <1>1 DEF Frame, FrameOK, Kinds
  <1>5. ASSUME NEW S \in SUBSET Tasks
        PROVE  LET g == [NoFrame EXCEPT !.job = "event", !.labels = S] IN
               g \in Frame /\ FrameOK(g) /\ g.todo = <<>> /\ g.job = "event" /\ g.call = "none"
    BY <1>1 DEF Frame, FrameOK
  <1> QED
    BY <1>3, <1>4, <1>5

LEMMA PrintsOfFrames ==
  ASSUME NEW f \in Frame, NEW t
  PROVE  one(f, PrintsOf(t)) = IF f.job = "print" /\ f.task = t THEN 1 ELSE 0
  BY DEF PrintsOf, one

\* The stack when its top changes, is popped, or when a handler is pushed
LEMMA StackSet ==
  ASSUME TypeOK, FramesSound, stack # <<>>, NEW f \in Frame, FrameOK(f), f.todo = top.todo,
         stack' = with_top(f)
  PROVE  /\ stack' \in Seq(Frame) /\ FramesSound'
         /\ todos(stack') = todos(stack)
         /\ \A d : awaits(stack', d) <=> IF d = Len(stack) THEN f.call # "none" /\ f.answer = "none"
                                         ELSE awaits(stack, d)
         /\ \A S : count(stack', S) + one(top, S) = count(stack, S) + one(f, S)
         /\ \A S : count(stack', S) \in Nat /\ count(stack, S) \in Nat
  <1>1. /\ Len(stack) \in 1..Len(stack) /\ DOMAIN stack = 1..Len(stack)
        /\ top = stack[Len(stack)] /\ top \in Frame /\ stack \in Seq(Frame)
    BY Top
  <1>2. stack' = [stack EXCEPT ![Len(stack)] = f]
    BY DEF with_top
  <1>3. stack' \in Seq(Frame)
    BY <1>1, <1>2
  <1>4. /\ DOMAIN stack' = DOMAIN stack /\ stack'[Len(stack)] = f
        /\ \A d \in DOMAIN stack : d # Len(stack) => stack'[d] = stack[d]
    BY <1>1, <1>2
  <1>5. todos(stack') = todos(stack)
    <2>1. f.todo = stack[Len(stack)].todo
      BY <1>1
    <2>2. todos([stack EXCEPT ![Len(stack)] = f]) = todos(stack)
      BY <1>1, <2>1, TodosSame
    <2> QED
      BY <1>2, <2>2
  <1>6. \A S : count(stack', S) + one(top, S) = count(stack, S) + one(f, S)
    <2>1. \A S : count([stack EXCEPT ![Len(stack)] = f], S) + one(stack[Len(stack)], S)
                 = count(stack, S) + one(f, S)
      <3>1. stack \in Seq(Frame) /\ Len(stack) \in 1..Len(stack)
        BY <1>1
      <3> QED
        BY <3>1, CountExcept
    <2> QED
      BY <1>1, <1>2, <2>1
  <1>7. \A S : count(stack', S) \in Nat /\ count(stack, S) \in Nat
    BY <1>1, <1>3, FiniteHits
  <1>8. FramesSound'
    BY <1>1, <1>4 DEF FramesSound
  <1> QED
    BY <1>1, <1>3, <1>4, <1>5, <1>6, <1>7, <1>8 DEF awaits

LEMMA StackPop ==
  ASSUME TypeOK, FramesSound, stack # <<>>, top.todo = <<>>, stack' = pop
  PROVE  /\ stack' \in Seq(Frame) /\ FramesSound'
         /\ todos(stack') = todos(stack)
         /\ \A d : awaits(stack', d) <=> d # Len(stack) /\ awaits(stack, d)
         /\ \A S : count(stack', S) + one(top, S) = count(stack, S)
         /\ \A S : count(stack', S) \in Nat /\ count(stack, S) \in Nat
  <1>1. /\ Len(stack) \in 1..Len(stack) /\ DOMAIN stack = 1..Len(stack) /\ Len(stack) \in Nat
        /\ top = stack[Len(stack)] /\ top \in Frame /\ stack \in Seq(Frame)
    BY Top DEF Depths
  <1>2. stack' = SubSeq(stack, 1, Len(stack) - 1)
    BY DEF pop
  <1>3. stack' \in Seq(Frame) /\ Len(stack') = Len(stack) - 1 /\ todos(stack') = todos(stack)
    BY <1>1, <1>2, TodosPop
  <1>4. /\ DOMAIN stack' = 1..Len(stack) - 1
        /\ \A d \in 1..Len(stack) - 1 : stack'[d] = stack[d]
    <2>1. Len(stack) - 1 \in Nat
      BY <1>1
    <2> QED
      BY <1>1, <1>2, <1>3, <2>1
  <1>5. \A S : count(stack, S) = count(stack', S) + one(top, S)
    BY <1>1, <1>2, CountPop
  <1>6. \A S : count(stack', S) \in Nat /\ count(stack, S) \in Nat
    BY <1>1, <1>3, FiniteHits
  <1>7. FramesSound'
    BY <1>1, <1>4 DEF FramesSound
  <1> QED
    BY <1>1, <1>3, <1>4, <1>5, <1>6, <1>7 DEF awaits

LEMMA StackPush ==
  ASSUME stack \in Seq(Frame), FramesSound, NEW f \in Frame, FrameOK(f), f.call = "none",
         stack' = Append(stack, f)
  PROVE  /\ stack' \in Seq(Frame) /\ FramesSound'
         /\ todos(stack') = [todos(stack) EXCEPT ![Len(stack) + 1] = f.todo]
         /\ todos(stack)[Len(stack) + 1] = <<>>
         /\ f.todo = <<>> => todos(stack') = todos(stack)
         /\ \A d : awaits(stack', d) <=> awaits(stack, d)
         /\ \A S : count(stack', S) = count(stack, S) + one(f, S)
         /\ \A S : count(stack', S) \in Nat /\ count(stack, S) \in Nat
  <1>1. /\ Len(stack) \in Nat /\ DOMAIN stack = 1..Len(stack)
        /\ stack' \in Seq(Frame) /\ DOMAIN stack' = 1..Len(stack) + 1
        /\ stack'[Len(stack) + 1] = f
        /\ \A i \in 1..Len(stack) : stack'[i] = stack[i]
    OBVIOUS
  <1>2. /\ todos(stack') = [todos(stack) EXCEPT ![Len(stack) + 1] = f.todo]
        /\ todos(stack)[Len(stack) + 1] = <<>>
    BY TodosPush
  <1>3. f.todo = <<>> => todos(stack') = todos(stack)
    <2>1. todos(stack) \in [Nat -> Seq(ToMain)]
      BY TodosType
    <2> QED
      BY <1>1, <1>2, <2>1
  <1>4. \A S : count(stack', S) = count(stack, S) + one(f, S)
    BY CountAppend
  <1>5. \A S : count(stack', S) \in Nat /\ count(stack, S) \in Nat
    BY <1>1, FiniteHits
  <1>6. FramesSound'
    BY <1>1 DEF FramesSound
  <1>7. \A d : awaits(stack', d) <=> awaits(stack, d)
    BY <1>1 DEF awaits
  <1> QED
    BY <1>1, <1>2, <1>3, <1>4, <1>5, <1>6, <1>7

-----------------------------------------------------------------------------
\* What a step that leaves some variables alone keeps

LEMMA CallsSame ==
  ASSUME CallsTraced,
         UNCHANGED <<mainToHub, hubBatch, callStack, hubToMain>>, todos(stack') = todos(stack),
         \A d \in Depths : awaits(stack', d) <=> awaits(stack, d)
  PROVE  CallsTraced'
  BY DEF CallsTraced, traces

LEMMA TasksSame ==
  ASSUME TasksTraced,
         UNCHANGED <<mainToHub, hubBatch, hubToMain, waiting, submitted>>,
         todos(stack') = todos(stack),
         \A t \in Tasks : count(stack', PrintsOf(t)) = count(stack, PrintsOf(t))
  PROVE  TasksTraced'
  BY DEF TasksTraced, progress

LEMMA ClientsSame ==
  ASSUME ClientsServed, UNCHANGED <<clientVars, link, toClient, submitted>>
  PROVE  ClientsServed'
  BY DEF ClientsServed, pending, clientVars

destroys(pipe, td, s) ==
    \/ \E i \in DOMAIN pipe : pipe[i] = [type |-> "destroy", session |-> s]
    \/ \E e \in Nat : \E i \in DOMAIN td[e] : td[e][i] = [type |-> "destroy", session |-> s]

LEMMA ToDestroy ==
  ASSUME stack \in Seq(Frame), stack' \in Seq(Frame), NEW s
  PROVE  /\ to_destroy(s) <=> destroys(hubToMain, todos(stack), s)
         /\ to_destroy(s)' <=> destroys(hubToMain', todos(stack'), s)
  <1>1. ASSUME NEW st \in Seq(Frame)
        PROVE  (\E d \in DOMAIN st : \E i \in DOMAIN st[d].todo :
                    st[d].todo[i] = [type |-> "destroy", session |-> s])
               <=> \E e \in Nat : \E i \in DOMAIN todos(st)[e] :
                       todos(st)[e][i] = [type |-> "destroy", session |-> s]
    <2>1. \A e \in Nat : todos(st)[e] = IF e \in DOMAIN st THEN st[e].todo ELSE <<>>
      BY DEF todos
    <2>2. DOMAIN st \subseteq Nat /\ DOMAIN <<>> = {}
      OBVIOUS
    <2> QED
      BY <2>1, <2>2
  <1>2. to_destroy(s) <=> destroys(hubToMain, todos(stack), s)
    BY <1>1 DEF to_destroy, destroys
  <1>3. to_destroy(s)' <=> destroys(hubToMain', todos(stack'), s)
    BY <1>1 DEF to_destroy, destroys
  <1> QED
    BY <1>2, <1>3

LEMMA SessionsKept ==
  ASSUME SessionsTracked, stack \in Seq(Frame), stack' \in Seq(Frame),
         UNCHANGED <<sessions, sent, session, revived, destroyed>>, submitted' \subseteq submitted,
         \A s : destroys(hubToMain, todos(stack), s) => destroys(hubToMain', todos(stack'), s)
  PROVE  SessionsTracked'
  <1>1. \A s : to_destroy(s) => to_destroy(s)'
    BY ToDestroy
  <1> QED
    BY <1>1 DEF SessionsTracked

LEMMA SessionsSame ==
  ASSUME SessionsTracked, stack \in Seq(Frame), stack' \in Seq(Frame),
         UNCHANGED <<sessions, sent, session, revived, destroyed, submitted, hubToMain>>,
         todos(stack') = todos(stack)
  PROVE  SessionsTracked'
  BY SessionsKept

LEMMA Counts ==
  ASSUME TypeOK, CallsTraced, TasksTraced
  PROVE  /\ \A d \in Depths :
               /\ count(mainToHub, CallsAt(d)) \in Nat /\ count(hubBatch, CallsAt(d)) \in Nat
               /\ Cardinality(nested(callStack, StackedAt(d))) \in Nat
               /\ count(hubToMain, ResultsAt(d)) \in Nat
               /\ Cardinality(nested(todos(stack), ResultsAt(d))) \in Nat
         /\ \A t \in Tasks :
               /\ count(hubToMain, RunsOf(t)) \in Nat
               /\ Cardinality(nested(todos(stack), RunsOf(t))) \in Nat
               /\ count(stack, PrintsOf(t)) \in Nat
               /\ count(mainToHub, ResultsOf(t)) \in Nat /\ count(hubBatch, ResultsOf(t)) \in Nat
  <1>1. /\ mainToHub \in Seq(ToHub) /\ hubBatch \in Seq(ToHub) /\ hubToMain \in Seq(ToMain)
        /\ stack \in Seq(Frame)
    BY DEF TypeOK
  <1>2. \A d \in Depths : /\ IsFiniteSet(nested(callStack, StackedAt(d)))
                          /\ IsFiniteSet(nested(todos(stack), ResultsAt(d)))
    BY DEF CallsTraced
  <1>3. \A t \in Tasks : IsFiniteSet(nested(todos(stack), RunsOf(t)))
    BY DEF TasksTraced
  <1>4. \A S : /\ count(mainToHub, S) \in Nat /\ count(hubBatch, S) \in Nat
               /\ count(hubToMain, S) \in Nat /\ count(stack, S) \in Nat
    BY <1>1, FiniteHits
  <1> QED
    BY <1>2, <1>3, <1>4, FS_CardinalityType

\* A session: the number of tasks submitted is finite, and counts each task.
LEMMA Pending ==
  ASSUME TypeOK, NEW s \in Sessions
  PROVE  /\ IsFiniteSet(pending(s)) /\ Cardinality(pending(s)) \in Nat
         /\ \A t \in pending(s) : Cardinality(pending(s)) >= 1
         /\ count(fromClient[s], Requests) \in Nat /\ count(toClient[s], Ends) \in Nat
         /\ fromClient[s] \in Seq(FromClient) /\ toClient[s] \in Seq(ToClient)
  <1>1. /\ fromClient[s] \in Seq(FromClient) /\ toClient[s] \in Seq(ToClient)
        /\ submitted \subseteq Tasks
    BY DEF TypeOK
  <1>2. count(fromClient[s], Requests) \in Nat /\ count(toClient[s], Ends) \in Nat
    BY <1>1, FiniteHits
  <1> DEFINE f == [i \in 1..MaxRequests |-> <<s, i>>]
             T == {<<s, i>> : i \in 1..MaxRequests}
  <1>3. IsFiniteSet(1..MaxRequests)
    BY ApiSessionsAssumption, FS_Interval
  <1>4. IsFiniteSet(T)
    <2>1. f \in [1..MaxRequests -> T] /\ \A i, j \in 1..MaxRequests : f[i] = f[j] => i = j
      OBVIOUS
    <2>2. \A p \in T : \E i \in 1..MaxRequests : f[i] = p
      OBVIOUS
    <2> HIDE DEF f, T
    <2> QED
      BY <1>3, <2>1, <2>2, SameCardinality
  <1>5. pending(s) \subseteq T
    BY <1>1 DEF pending, Tasks
  <1>6. IsFiniteSet(pending(s)) /\ Cardinality(pending(s)) \in Nat
    BY <1>4, <1>5, FS_Subset, FS_CardinalityType
  <1>7. \A t \in pending(s) : Cardinality(pending(s)) >= 1
    BY <1>6, FS_EmptySet
  <1> QED
    BY <1>1, <1>2, <1>6, <1>7

-----------------------------------------------------------------------------
\* The first state, and the steps of clients

LEMMA InitInv ==
  ASSUME Init
  PROVE  IInv
  <1>1. TypeOK
    BY ApiSessionsAssumption DEF Init, TypeOK
  <1>2. FramesSound
    BY DEF Init, FramesSound
  <1>3. \A S : /\ nested(callStack, S) = {} /\ nested(todos(stack), S) = {}
               /\ count(<<>>, S) = 0 /\ IsFiniteSet({}) /\ Cardinality({}) = 0
    <2>1. \A S : nested(callStack, S) = {}
      BY EmptySeq DEF Init, nested, hits
    <2>2. \A S : nested(todos(stack), S) = {}
      <3>1. todos(stack) = [e \in Nat |-> <<>>]
        BY DEF Init, todos
      <3> QED
        BY <3>1 DEF nested, hits
    <2> QED
      BY <2>1, <2>2, CountEmpty, FS_EmptySet
  <1>4. /\ \A S : /\ count(mainToHub, S) = 0 /\ count(hubBatch, S) = 0
                  /\ count(hubToMain, S) = 0 /\ count(stack, S) = 0
        /\ \A t : one(t, waiting) = 0 /\ one(t, submitted) = 0
    BY <1>3 DEF Init, one
  <1>5. CallsTraced
    <2>1. \A d : ~awaits(stack, d)
      BY DEF Init, awaits
    <2>2. ASSUME NEW d \in Depths
          PROVE  /\ IsFiniteSet(nested(callStack, StackedAt(d)))
                 /\ IsFiniteSet(nested(todos(stack), ResultsAt(d)))
                 /\ traces(d) = 0
      <3>1. /\ nested(callStack, StackedAt(d)) = {} /\ nested(todos(stack), ResultsAt(d)) = {}
            /\ count(mainToHub, CallsAt(d)) = 0 /\ count(hubBatch, CallsAt(d)) = 0
            /\ count(hubToMain, ResultsAt(d)) = 0 /\ Cardinality({}) = 0 /\ IsFiniteSet({})
        BY <1>3, <1>4
      <3> QED
        BY <3>1 DEF traces
    <2> QED
      BY <2>1, <2>2 DEF CallsTraced
  <1>8. TasksTraced
    <2>1. ASSUME NEW t \in Tasks
          PROVE  IsFiniteSet(nested(todos(stack), RunsOf(t))) /\ progress(t) = 0
      <3>1. /\ nested(todos(stack), RunsOf(t)) = {} /\ count(hubToMain, RunsOf(t)) = 0
            /\ count(stack, PrintsOf(t)) = 0 /\ count(mainToHub, ResultsOf(t)) = 0
            /\ count(hubBatch, ResultsOf(t)) = 0 /\ one(t, waiting) = 0
            /\ Cardinality({}) = 0 /\ IsFiniteSet({})
        BY <1>3, <1>4
      <3> QED
        BY <3>1 DEF progress
    <2> QED
      BY <1>3, <1>4, <2>1 DEF TasksTraced, Init
  <1>6. ClientsServed
    <2>1. \A s \in Sessions : /\ pending(s) = {} /\ fromClient[s] = <<>> /\ toClient[s] = <<>>
                              /\ client[s] = "ready" /\ DOMAIN <<>> = {}
      BY DEF Init, pending
    <2>2. \A s \in Sessions :
              /\ count(fromClient[s], Requests) = 0 /\ Cardinality(pending(s)) = 0
              /\ count(toClient[s], Ends) = 0
      BY <1>3, <2>1
    <2> QED
      BY <2>1, <2>2 DEF ClientsServed
  <1>7. SessionsTracked
    BY DEF Init, SessionsTracked
  <1> QED
    BY <1>1, <1>2, <1>5, <1>6, <1>7, <1>8 DEF IInv

LEMMA ServerSame ==
  ASSUME FramesSound, CallsTraced, TasksTraced, SessionsTracked,
         UNCHANGED <<hubVars, mainToHub, hubToMain, mainVars>>
  PROVE  FramesSound' /\ CallsTraced' /\ TasksTraced' /\ SessionsTracked'
  <1>1. UNCHANGED <<session, sent, callStack, submitted, hubBatch, stack, sessions, waiting,
                    revived, destroyed, mainToHub, hubToMain>>
    BY DEF hubVars, mainVars
  <1>2. FramesSound'
    BY <1>1 DEF FramesSound
  <1>3. CallsTraced'
    BY <1>1 DEF CallsTraced, traces
  <1>4. TasksTraced'
    BY <1>1 DEF TasksTraced, progress
  <1>5. SessionsTracked'
    BY <1>1 DEF SessionsTracked, to_destroy
  <1> QED
    BY <1>2, <1>3, <1>4, <1>5

\* What one client is owed
Served(s) ==
    /\ count(fromClient[s], Requests) + Cardinality(pending(s)) + count(toClient[s], Ends)
           <= IF client[s] = "ready" THEN 0 ELSE 1
    /\ client[s] = "ready" => toClient[s] = <<>>
    /\ client[s] = "gone" => link[s] # "open"
    /\ \A i \in DOMAIN toClient[s] : toClient[s][i].type = "result" => i = Len(toClient[s])
    /\ requested[s] = 0 => count(fromClient[s], Requests) = 0

LEMMA OtherClients ==
  ASSUME ClientsServed, NEW s \in Sessions, Served(s)',
         \A u \in Sessions \ {s} :
             /\ fromClient'[u] = fromClient[u] /\ toClient'[u] = toClient[u]
             /\ client'[u] = client[u] /\ link'[u] = link[u] /\ requested'[u] = requested[u]
             /\ pending(u)' = pending(u)
  PROVE  ClientsServed'
  BY DEF ClientsServed, Served

LEMMA ClientMessages ==
  /\ \A kind \in Kinds : /\ [type |-> "request", kind |-> kind] \in FromClient
                         /\ one([type |-> "request", kind |-> kind], Requests) = 1
  /\ \A what \in Calls : /\ [type |-> "answer", what |-> what] \in FromClient
                         /\ one([type |-> "answer", what |-> what], Requests) = 0
                         /\ [type |-> "call", what |-> what] \in ToClient
                         /\ one([type |-> "call", what |-> what], Ends) = 0
  /\ [type |-> "result"] \in ToClient /\ one([type |-> "result"], Ends) = 1
  /\ \A m \in ToClient : /\ m.type = "result" \/ (m.type = "call" /\ m.what \in Calls)
                         /\ m.type = "result" <=> m = [type |-> "result"]
                         /\ one(m, Ends) = IF m.type = "result" THEN 1 ELSE 0
  /\ \A m \in FromClient : /\ \/ m.type = "request" /\ m.kind \in Kinds
                              \/ m.type = "answer" /\ m.what \in Calls
                           /\ one(m, Requests) = IF m.type = "request" THEN 1 ELSE 0
  <1>1. \A m \in FromClient : one(m, Requests) = IF m.type = "request" THEN 1 ELSE 0
    BY DEF Requests, one
  <1>2. \A m \in FromClient : \/ m.type = "request" /\ m.kind \in Kinds
                              \/ m.type = "answer" /\ m.what \in Calls
    BY DEF FromClient
  <1>3. \A m \in ToClient : m.type = "result" \/ (m.type = "call" /\ m.what \in Calls)
    BY DEF ToClient
  <1>4. \A m \in ToClient : m.type = "result" <=> m = [type |-> "result"]
    BY DEF ToClient
  <1>5. \A m \in ToClient : one(m, Ends) = IF m.type = "result" THEN 1 ELSE 0
    BY <1>4 DEF Ends, one
  <1>6. \A kind \in Kinds : [type |-> "request", kind |-> kind] \in FromClient
    BY DEF FromClient
  <1>7. \A what \in Calls : /\ [type |-> "answer", what |-> what] \in FromClient
                            /\ [type |-> "call", what |-> what] \in ToClient
    BY DEF FromClient, ToClient
  <1>8. [type |-> "result"] \in ToClient
    BY DEF ToClient
  <1> QED
    BY <1>1, <1>2, <1>3, <1>4, <1>5, <1>6, <1>7, <1>8

LEMMA ClientRequestsKeeps ==
  ASSUME IInv, NEW s \in Sessions, NEW kind \in Commands[s], ClientRequests(s, kind)
  PROVE  IInv'
  <1> DEFINE m == [type |-> "request", kind |-> kind]
  <1>1. /\ client[s] = "ready" /\ requested[s] < MaxRequests
        /\ client' = [client EXCEPT ![s] = "waiting"]
        /\ requested' = [requested EXCEPT ![s] = @ + 1]
        /\ fromClient' = [fromClient EXCEPT ![s] = Append(@, m)]
        /\ UNCHANGED <<link, toClient, hubVars, mainToHub, hubToMain, mainVars, failed>>
    BY DEF ClientRequests
  <1>2. kind \in Kinds
    BY ApiSessionsAssumption DEF Kinds
  <1>3. m \in FromClient /\ one(m, Requests) = 1
    BY <1>2, ClientMessages
  <1> HIDE DEF m
  <1>4. TypeOK
    BY DEF IInv
  <1>5. TypeOK'
    <2>1. requested[s] + 1 \in 0..MaxRequests
      BY <1>1, <1>4, ApiSessionsAssumption DEF TypeOK
    <2>2. Append(fromClient[s], m) \in Seq(FromClient)
      BY <1>3, <1>4 DEF TypeOK
    <2> QED
      BY <1>1, <1>4, <2>1, <2>2 DEF TypeOK, hubVars, mainVars
  <1>6. FramesSound' /\ CallsTraced' /\ TasksTraced' /\ SessionsTracked'
    BY <1>1, ServerSame DEF IInv
  <1>7. pending(s)' = pending(s) /\ \A u : pending(u)' = pending(u)
    BY <1>1 DEF pending, hubVars
  <1>8. Served(s)
    BY DEF IInv, ClientsServed, Served
  <1>9. count(fromClient'[s], Requests) = count(fromClient[s], Requests) + 1
    BY <1>1, <1>3, <1>4, CountAppend DEF TypeOK
  <1>10. /\ client'[s] = "waiting" /\ requested'[s] = requested[s] + 1 /\ requested[s] \in Nat
         /\ toClient'[s] = toClient[s]
    BY <1>1, <1>4 DEF TypeOK
  <1>11. /\ count(fromClient[s], Requests) \in Nat /\ Cardinality(pending(s)) \in Nat
         /\ count(toClient[s], Ends) \in Nat
    BY <1>4, Pending
  <1>12. Served(s)'
    BY <1>1, <1>7, <1>8, <1>9, <1>10, <1>11 DEF Served
  <1>13. ClientsServed'
    BY <1>1, <1>4, <1>7, <1>12, OtherClients DEF IInv, TypeOK
  <1> QED
    BY <1>5, <1>6, <1>13 DEF IInv

LEMMA ClientReadsKeeps ==
  ASSUME IInv, NEW s \in Sessions, ClientReads(s)
  PROVE  IInv'
  <1> DEFINE m == Head(toClient[s])
             a == [type |-> "answer", what |-> m.what]
  <1>1. /\ client[s] = "waiting" /\ toClient[s] # <<>>
        /\ IF m.type = "result"
           THEN client' = [client EXCEPT ![s] = "ready"] /\ fromClient' = fromClient
           ELSE fromClient' = [fromClient EXCEPT ![s] = Append(@, a)] /\ client' = client
        /\ toClient' = [toClient EXCEPT ![s] = Tail(@)]
        /\ UNCHANGED <<requested, link, hubVars, mainToHub, hubToMain, mainVars, failed>>
    BY DEF ClientReads
  <1>2. TypeOK /\ Served(s)
    BY DEF IInv, ClientsServed, Served
  <1>3. /\ toClient[s] \in Seq(ToClient) /\ Tail(toClient[s]) \in Seq(ToClient) /\ m \in ToClient
        /\ Len(toClient[s]) \in Nat \ {0} /\ Len(Tail(toClient[s])) = Len(toClient[s]) - 1
        /\ 1 \in DOMAIN toClient[s] /\ toClient[s][1] = m
        /\ \A i \in DOMAIN Tail(toClient[s]) :
               i + 1 \in DOMAIN toClient[s] /\ Tail(toClient[s])[i] = toClient[s][i + 1]
    BY <1>1, <1>2 DEF TypeOK
  <1>4. count(toClient[s], Ends) = count(Tail(toClient[s]), Ends) + one(m, Ends)
    BY <1>1, <1>3, CountTail
  <1>5. /\ m.type = "result" \/ (m.type = "call" /\ m.what \in Calls)
        /\ one(m, Ends) = IF m.type = "result" THEN 1 ELSE 0
        /\ m.what \in Calls => a \in FromClient /\ one(a, Requests) = 0
    BY <1>3, ClientMessages
  <1> HIDE DEF m, a
  <1>6. m.type # "result" =>
           /\ Append(fromClient[s], a) \in Seq(FromClient)
           /\ count(Append(fromClient[s], a), Requests) = count(fromClient[s], Requests) + 0
    <2>1. fromClient[s] \in Seq(FromClient)
      BY <1>2 DEF TypeOK
    <2> QED
      BY <1>5, <2>1, CountAppend
  <1>7. TypeOK'
    BY <1>1, <1>2, <1>3, <1>6 DEF TypeOK, hubVars, mainVars
  <1>8. FramesSound' /\ CallsTraced' /\ TasksTraced' /\ SessionsTracked'
    BY <1>1, ServerSame DEF IInv
  <1>9. \A u : pending(u)' = pending(u)
    BY <1>1 DEF pending, hubVars
  <1>10. /\ count(fromClient[s], Requests) \in Nat /\ Cardinality(pending(s)) \in Nat
         /\ count(toClient[s], Ends) \in Nat /\ count(Tail(toClient[s]), Ends) \in Nat
    BY <1>2, <1>3, Pending, FiniteHits
  <1>11. /\ toClient'[s] = Tail(toClient[s]) /\ link'[s] = link[s]
         /\ requested'[s] = requested[s]
    BY <1>1, <1>2 DEF TypeOK
  <1>12. Served(s)'
    <2>1. CASE m.type = "result"
      <3>1. Len(toClient[s]) = 1
        BY <1>2, <1>3, <2>1 DEF Served
      <3>2. Tail(toClient[s]) = <<>>
        BY <1>3, <3>1
      <3>3. client'[s] = "ready" /\ fromClient'[s] = fromClient[s]
        BY <1>1, <1>2, <2>1 DEF TypeOK
      <3> QED
        BY <1>1, <1>2, <1>4, <1>5, <1>9, <1>10, <1>11, <2>1, <3>2, <3>3 DEF Served
    <2>2. CASE m.type # "result"
      <3>1. client'[s] = "waiting" /\ fromClient'[s] = Append(fromClient[s], a)
        BY <1>1, <1>2, <2>2 DEF TypeOK
      <3>2. \A i \in DOMAIN Tail(toClient[s]) :
               Tail(toClient[s])[i].type = "result" => i = Len(Tail(toClient[s]))
        BY <1>2, <1>3 DEF Served
      <3> QED
        BY <1>1, <1>2, <1>4, <1>5, <1>6, <1>9, <1>10, <1>11, <2>2, <3>1, <3>2 DEF Served
    <2> QED
      BY <2>1, <2>2
  <1>13. ClientsServed'
    BY <1>1, <1>2, <1>9, <1>12, OtherClients DEF IInv, TypeOK
  <1> QED
    BY <1>7, <1>8, <1>13 DEF IInv

LEMMA ClientLeavesKeeps ==
  ASSUME IInv, NEW s \in Sessions, ClientLeaves(s)
  PROVE  IInv'
  <1>1. /\ client' = [client EXCEPT ![s] = "gone"]
        /\ link' = [link EXCEPT ![s] = IF toClient[s] = <<>> THEN "left" ELSE "reset"]
        /\ toClient' = [toClient EXCEPT ![s] = <<>>]
        /\ UNCHANGED <<requested, fromClient, hubVars, mainToHub, hubToMain, mainVars, failed>>
        /\ client[s] # "gone"
    BY DEF ClientLeaves
  <1>2. TypeOK /\ Served(s)
    BY DEF IInv, ClientsServed, Served
  <1>3. TypeOK'
    BY <1>1, <1>2 DEF TypeOK, hubVars, mainVars
  <1>4. FramesSound' /\ CallsTraced' /\ TasksTraced' /\ SessionsTracked'
    BY <1>1, ServerSame DEF IInv
  <1>5. \A u : pending(u)' = pending(u)
    BY <1>1 DEF pending, hubVars
  <1>6. /\ count(fromClient[s], Requests) \in Nat /\ Cardinality(pending(s)) \in Nat
        /\ count(toClient[s], Ends) \in Nat /\ count(<<>>, Ends) = 0
    BY <1>2, Pending, CountEmpty
  <1>7. /\ toClient'[s] = <<>> /\ link'[s] # "open" /\ client'[s] = "gone"
        /\ fromClient'[s] = fromClient[s] /\ requested'[s] = requested[s]
    BY <1>1, <1>2 DEF TypeOK
  <1>8. Served(s)'
    BY <1>2, <1>5, <1>6, <1>7 DEF Served
  <1>9. ClientsServed'
    BY <1>1, <1>2, <1>5, <1>8, OtherClients DEF IInv, TypeOK
  <1> QED
    BY <1>3, <1>4, <1>9 DEF IInv

-----------------------------------------------------------------------------
\* The steps of server-main that leave the messages it handles alone

LEMMA MainSame ==
  ASSUME IInv, stack' \in Seq(Frame), todos(stack') = todos(stack),
         UNCHANGED <<clientVars, link, toClient, hubVars, hubToMain, sessions, revived, destroyed>>
  PROVE  ClientsServed' /\ SessionsTracked'
  <1>1. UNCHANGED <<session, sent, submitted>>
    BY DEF hubVars
  <1>2. ClientsServed'
    BY <1>1, ClientsSame DEF IInv
  <1>3. SessionsTracked'
    BY <1>1, SessionsSame DEF IInv, TypeOK
  <1> QED
    BY <1>2, <1>3

\* The handler at the top starts to wait for a call.
LEMMA CallEffect ==
  ASSUME IInv, Running, NEW t \in Tasks, NEW what \in Calls, call(t, what),
         FrameOK([top EXCEPT !.task = t, !.call = what]),
         top.job = "print" => top.task = t,
         UNCHANGED <<hubVars, hubToMain, waiting>>
  PROVE  /\ stack' \in Seq(Frame) /\ mainToHub' \in Seq(ToHub) /\ todos(stack') = todos(stack)
         /\ FramesSound' /\ CallsTraced' /\ TasksTraced'
  <1> DEFINE f == [top EXCEPT !.task = t, !.call = what]
             k == Len(stack)
             m == [type |-> "call", task |-> t, depth |-> k, what |-> what]
  <1>1. /\ TypeOK /\ FramesSound /\ CallsTraced /\ TasksTraced
        /\ stack # <<>> /\ top.call = "none"
    BY DEF IInv, Running
  <1>2. k \in Depths /\ top = stack[k] /\ top \in Frame /\ FrameOK(top)
    BY <1>1, Top
  <1>3. /\ f \in Frame /\ f.todo = top.todo /\ f.call # "none" /\ f.answer = "none"
        /\ f.job = top.job /\ f.task = t
    <2>1. /\ f \in Frame /\ f.todo = top.todo /\ f.job = top.job /\ f.task = t /\ f.call = what
          /\ f.answer = top.answer
      BY <1>2 DEF Frame
    <2>2. what # "none"
      BY DEF Calls
    <2> QED
      BY <1>1, <1>2, <2>1, <2>2 DEF FrameOK
  <1>4. stack' = with_top(f) /\ mainToHub' = Append(mainToHub, m) /\ FrameOK(f)
    BY DEF call
  <1>5. /\ m \in ToHub
        /\ \A e : one(m, CallsAt(e)) = IF e = k THEN 1 ELSE 0
        /\ \A u : one(m, ResultsOf(u)) = 0
    BY <1>2, HubMessages
  <1> HIDE DEF f, m
  <1>6. \A u : one(f, PrintsOf(u)) = one(top, PrintsOf(u))
    <2>1. \A u : /\ one(f, PrintsOf(u)) = IF f.job = "print" /\ f.task = u THEN 1 ELSE 0
                 /\ one(top, PrintsOf(u)) = IF top.job = "print" /\ top.task = u THEN 1 ELSE 0
      BY <1>2, <1>3, PrintsOfFrames
    <2> QED
      BY <1>3, <2>1
  <1>7. /\ stack' \in Seq(Frame) /\ FramesSound' /\ todos(stack') = todos(stack)
        /\ \A d : awaits(stack', d) <=> IF d = k THEN f.call # "none" /\ f.answer = "none"
                                        ELSE awaits(stack, d)
        /\ \A S : count(stack', S) + one(top, S) = count(stack, S) + one(f, S)
        /\ \A S : count(stack', S) \in Nat /\ count(stack, S) \in Nat
    BY <1>1, <1>3, <1>4, StackSet
  <1>8. /\ mainToHub' \in Seq(ToHub)
        /\ \A S : count(mainToHub', S) = count(mainToHub, S) + one(m, S)
    BY <1>1, <1>4, <1>5, CountAppend DEF TypeOK
  <1>9. /\ hubBatch' = hubBatch /\ callStack' = callStack /\ hubToMain' = hubToMain
        /\ waiting' = waiting /\ submitted' = submitted
    BY DEF hubVars
  <1>10. ~awaits(stack, k)
    BY <1>1, <1>2 DEF awaits
  <1>11. CallsTraced'
    <2> SUFFICES ASSUME NEW d \in Depths
                 PROVE  /\ IsFiniteSet(nested(callStack, StackedAt(d)))'
                        /\ IsFiniteSet(nested(todos(stack), ResultsAt(d)))'
                        /\ traces(d)' = IF awaits(stack', d) THEN 1 ELSE 0
      BY DEF CallsTraced
    <2>1. /\ IsFiniteSet(nested(callStack, StackedAt(d)))
          /\ IsFiniteSet(nested(todos(stack), ResultsAt(d)))
          /\ traces(d) = IF awaits(stack, d) THEN 1 ELSE 0
      BY <1>1 DEF CallsTraced
    <2>2. count(mainToHub', CallsAt(d)) = count(mainToHub, CallsAt(d)) + IF d = k THEN 1 ELSE 0
      BY <1>5, <1>8
    <2>3. /\ count(mainToHub, CallsAt(d)) \in Nat /\ count(hubBatch, CallsAt(d)) \in Nat
          /\ Cardinality(nested(callStack, StackedAt(d))) \in Nat
          /\ count(hubToMain, ResultsAt(d)) \in Nat
          /\ Cardinality(nested(todos(stack), ResultsAt(d))) \in Nat
      BY <1>1, Counts
    <2>4. traces(d)' = traces(d) + IF d = k THEN 1 ELSE 0
      BY <1>7, <1>9, <2>2, <2>3 DEF traces
    <2>5. awaits(stack', d) <=> (d = k \/ awaits(stack, d))
      BY <1>3, <1>7
    <2> QED
      BY <1>7, <1>9, <1>10, <2>1, <2>4, <2>5
  <1>12. TasksTraced'
    <2> SUFFICES ASSUME NEW u \in Tasks
                 PROVE  /\ IsFiniteSet(nested(todos(stack), RunsOf(u)))'
                        /\ progress(u)' = one(u, submitted)'
      BY <1>1, <1>9 DEF TasksTraced
    <2>1. /\ IsFiniteSet(nested(todos(stack), RunsOf(u)))
          /\ progress(u) = one(u, submitted)
      BY <1>1 DEF TasksTraced
    <2>2. count(mainToHub, ResultsOf(u)) \in Nat /\ count(stack, PrintsOf(u)) \in Nat
      BY <1>1, Counts
    <2>3. count(mainToHub', ResultsOf(u)) = count(mainToHub, ResultsOf(u))
      BY <1>5, <1>8, <2>2
    <2>4. count(stack', PrintsOf(u)) = count(stack, PrintsOf(u))
      BY <1>6, <1>7 DEF one
    <2> QED
      BY <1>7, <1>9, <2>1, <2>3, <2>4 DEF progress
  <1> QED
    BY <1>7, <1>8, <1>11, <1>12

LEMMA TaskPrintsKeeps ==
  ASSUME IInv, TaskPrints
  PROVE  IInv'
  <1>1. /\ TypeOK /\ FramesSound /\ stack # <<>> /\ top.call = "none" /\ top.job = "print"
        /\ printed < MaxPrints /\ printed' = printed + 1 /\ Running /\ call(top.task, "print")
        /\ UNCHANGED <<clientVars, link, toClient, hubVars, hubToMain, sessions, username, waiting,
                       revived, destroyed, events, failed>>
    BY DEF IInv, TaskPrints, Running
  <1>2. top \in Frame /\ FrameOK(top) /\ top.task \in Tasks
    BY <1>1, Top DEF FrameOK
  <1>3. FrameOK([top EXCEPT !.task = top.task, !.call = "print"])
    <2> DEFINE f == [top EXCEPT !.task = top.task, !.call = "print"]
    <2>1. "print" \in Calls
      BY DEF Calls
    <2>2. /\ f.todo = top.todo /\ f.job = top.job /\ f.task = top.task /\ f.call = "print"
          /\ f.answer = top.answer
      BY <1>2, <2>1 DEF Frame
    <2> HIDE DEF f
    <2>3. FrameOK(f)
      BY <1>1, <1>2, <2>2 DEF FrameOK
    <2> QED
      BY <2>3 DEF f
  <1>4. /\ stack' \in Seq(Frame) /\ mainToHub' \in Seq(ToHub) /\ todos(stack') = todos(stack)
        /\ FramesSound' /\ CallsTraced' /\ TasksTraced'
    <2>1. "print" \in Calls
      BY DEF Calls
    <2> QED
      BY <1>1, <1>2, <1>3, <2>1, CallEffect
  <1>5. ClientsServed' /\ SessionsTracked'
    BY <1>1, <1>4, MainSame
  <1>6. TypeOK'
    <2>1. printed' \in 0..MaxPrints
      BY <1>1, ApiSessionsAssumption DEF TypeOK
    <2> QED
      BY <1>1, <1>4, <2>1 DEF TypeOK, clientVars, hubVars
  <1> QED
    BY <1>4, <1>5, <1>6 DEF IInv

\* The handler at the top goes on, or is called back.
LEMMA TopGoesOn ==
  ASSUME IInv, stack # <<>>, top.call = "none" \/ top.answer # "none",
         NEW f \in Frame, FrameOK(f), f.todo = top.todo, f.call = "none", f.job = top.job,
         top.job = "print" => f.task = top.task,
         stack' = with_top(f), UNCHANGED <<hubVars, mainToHub, hubToMain, waiting>>
  PROVE  /\ stack' \in Seq(Frame) /\ todos(stack') = todos(stack)
         /\ FramesSound' /\ CallsTraced' /\ TasksTraced'
  <1>1. TypeOK /\ FramesSound /\ CallsTraced /\ TasksTraced
    BY DEF IInv
  <1>2. top \in Frame /\ top = stack[Len(stack)]
    BY <1>1, Top
  <1>3. /\ stack' \in Seq(Frame) /\ FramesSound' /\ todos(stack') = todos(stack)
        /\ \A d : awaits(stack', d) <=> IF d = Len(stack) THEN f.call # "none" /\ f.answer = "none"
                                        ELSE awaits(stack, d)
        /\ \A S : count(stack', S) + one(top, S) = count(stack, S) + one(f, S)
        /\ \A S : count(stack', S) \in Nat /\ count(stack, S) \in Nat
    BY <1>1, StackSet
  <1>4. \A d : awaits(stack', d) <=> awaits(stack, d)
    BY <1>2, <1>3 DEF awaits
  <1>5. \A u : count(stack', PrintsOf(u)) = count(stack, PrintsOf(u))
    <2>1. \A u : /\ one(f, PrintsOf(u)) = IF f.job = "print" /\ f.task = u THEN 1 ELSE 0
                 /\ one(top, PrintsOf(u)) = IF top.job = "print" /\ top.task = u THEN 1 ELSE 0
      BY <1>2, PrintsOfFrames
    <2>2. \A u : one(f, PrintsOf(u)) = one(top, PrintsOf(u)) /\ one(f, PrintsOf(u)) \in Nat
      BY <2>1
    <2> QED
      BY <1>3, <2>2
  <1>6. CallsTraced'
    BY <1>1, <1>3, <1>4, CallsSame DEF hubVars
  <1>7. TasksTraced'
    BY <1>1, <1>3, <1>5, TasksSame DEF hubVars
  <1> QED
    BY <1>3, <1>6, <1>7

\* The handler at the top ends; a task of the kind that prints returns its result.
LEMMA TopEnds ==
  ASSUME IInv, stack # <<>>, top.call = "none" \/ top.answer # "none", top.todo = <<>>,
         stack' = pop, UNCHANGED <<hubVars, hubToMain, waiting>>,
         IF top.job = "print"
         THEN \E raised \in BOOLEAN :
                  mainToHub' = Append(mainToHub, task_result(top.task, raised))
         ELSE mainToHub' = mainToHub
  PROVE  /\ stack' \in Seq(Frame) /\ mainToHub' \in Seq(ToHub) /\ todos(stack') = todos(stack)
         /\ FramesSound' /\ CallsTraced' /\ TasksTraced'
  <1>1. TypeOK /\ FramesSound /\ CallsTraced /\ TasksTraced
    BY DEF IInv
  <1>2. top \in Frame /\ top = stack[Len(stack)] /\ FrameOK(top)
    BY <1>1, Top
  <1>3. /\ stack' \in Seq(Frame) /\ FramesSound' /\ todos(stack') = todos(stack)
        /\ \A d : awaits(stack', d) <=> d # Len(stack) /\ awaits(stack, d)
        /\ \A S : count(stack', S) + one(top, S) = count(stack, S)
        /\ \A S : count(stack', S) \in Nat /\ count(stack, S) \in Nat
    BY <1>1, StackPop
  <1>4. \A d : awaits(stack', d) <=> awaits(stack, d)
    BY <1>2, <1>3 DEF awaits
  <1>5. \A u : one(top, PrintsOf(u)) = IF top.job = "print" /\ top.task = u THEN 1 ELSE 0
    BY <1>2, PrintsOfFrames
  <1>6. CASE top.job # "print"
    <2>1. \A u : count(stack', PrintsOf(u)) = count(stack, PrintsOf(u))
      BY <1>3, <1>5, <1>6
    <2>2. mainToHub' = mainToHub /\ mainToHub \in Seq(ToHub)
      BY <1>1, <1>6 DEF TypeOK
    <2>3. CallsTraced'
      BY <1>1, <1>3, <1>4, <2>2, CallsSame DEF hubVars
    <2>4. TasksTraced'
      BY <1>1, <1>3, <2>1, <2>2, TasksSame DEF hubVars
    <2> QED
      BY <1>3, <2>2, <2>3, <2>4
  <1>7. CASE top.job = "print"
    <2> PICK raised \in BOOLEAN : mainToHub' = Append(mainToHub, task_result(top.task, raised))
      BY <1>7
    <2> DEFINE m == task_result(top.task, raised)
    <2>1. top.task \in Tasks /\ mainToHub' = Append(mainToHub, m)
      BY <1>2, <1>7 DEF FrameOK
    <2>2. /\ m \in ToHub
          /\ \A e : one(m, CallsAt(e)) = 0
          /\ \A u : one(m, ResultsOf(u)) = IF u = top.task THEN 1 ELSE 0
      BY <2>1, HubMessages
    <2> HIDE DEF m
    <2>3. /\ mainToHub' \in Seq(ToHub)
          /\ \A S : count(mainToHub', S) = count(mainToHub, S) + one(m, S)
          /\ \A S : count(mainToHub, S) \in Nat
      BY <1>1, <2>1, <2>2, CountAppend, FiniteHits DEF TypeOK
    <2>4. /\ hubBatch' = hubBatch /\ callStack' = callStack /\ hubToMain' = hubToMain
          /\ waiting' = waiting /\ submitted' = submitted
      BY DEF hubVars
    <2>5. CallsTraced'
      <3>1. \A d : count(mainToHub', CallsAt(d)) = count(mainToHub, CallsAt(d))
        BY <2>2, <2>3
      <3> QED
        BY <1>1, <1>3, <1>4, <2>4, <3>1 DEF CallsTraced, traces
    <2>6. TasksTraced'
      <3> SUFFICES ASSUME NEW u \in Tasks
                   PROVE  /\ IsFiniteSet(nested(todos(stack), RunsOf(u)))'
                          /\ progress(u)' = one(u, submitted)'
        BY <1>1, <2>4 DEF TasksTraced
      <3>1. /\ IsFiniteSet(nested(todos(stack), RunsOf(u)))
            /\ progress(u) = one(u, submitted)
        BY <1>1 DEF TasksTraced
      <3>2. /\ count(mainToHub', ResultsOf(u))
                   = count(mainToHub, ResultsOf(u)) + IF u = top.task THEN 1 ELSE 0
            /\ count(stack', PrintsOf(u)) + (IF u = top.task THEN 1 ELSE 0)
                   = count(stack, PrintsOf(u))
        <4>1. one(top, PrintsOf(u)) = IF u = top.task THEN 1 ELSE 0
          BY <1>5, <1>7
        <4> QED
          BY <1>3, <2>2, <2>3, <4>1
      <3>3. /\ count(hubToMain, RunsOf(u)) \in Nat
            /\ Cardinality(nested(todos(stack), RunsOf(u))) \in Nat
            /\ count(hubBatch, ResultsOf(u)) \in Nat /\ count(mainToHub, ResultsOf(u)) \in Nat
            /\ one(u, waiting) \in Nat
        BY <1>1, Counts DEF one
      <3>4. count(stack', PrintsOf(u)) \in Nat /\ count(stack, PrintsOf(u)) \in Nat
        BY <1>3
      <3> QED
        <4>1. /\ IsFiniteSet(nested(todos(stack), RunsOf(u)))'
              /\ Cardinality(nested(todos(stack'), RunsOf(u)))
                     = Cardinality(nested(todos(stack), RunsOf(u)))
          BY <1>3, <3>1
        <4>2. progress(u)' =
                  count(hubToMain, RunsOf(u)) + Cardinality(nested(todos(stack), RunsOf(u)))
                  + count(stack', PrintsOf(u)) + one(u, waiting)
                  + count(mainToHub', ResultsOf(u)) + count(hubBatch, ResultsOf(u))
          BY <2>4, <4>1 DEF progress
        <4>3. progress(u)' = progress(u)
          <5>1. count(mainToHub, ResultsOf(u)) \in Nat
            BY <2>3
          <5>2. progress(u) =
                    count(hubToMain, RunsOf(u)) + Cardinality(nested(todos(stack), RunsOf(u)))
                    + count(stack, PrintsOf(u)) + one(u, waiting)
                    + count(mainToHub, ResultsOf(u)) + count(hubBatch, ResultsOf(u))
            BY DEF progress
          <5>3. count(stack', PrintsOf(u)) + count(mainToHub', ResultsOf(u))
                    = count(stack, PrintsOf(u)) + count(mainToHub, ResultsOf(u))
            BY <3>2, <3>4, <5>1
          <5> DEFINE a == count(hubToMain, RunsOf(u))
                     b == Cardinality(nested(todos(stack), RunsOf(u)))
                     c == count(stack, PrintsOf(u))
                     c2 == count(stack', PrintsOf(u))
                     e == one(u, waiting)
                     r == count(mainToHub, ResultsOf(u))
                     r2 == count(mainToHub', ResultsOf(u))
                     h == count(hubBatch, ResultsOf(u))
          <5>4. /\ progress(u) = a + b + c + e + r + h
                /\ progress(u)' = a + b + c2 + e + r2 + h
            BY <4>2, <5>2
          <5>5. c2 + r2 = c + r
            BY <5>3
          <5>6. c2 \in Nat /\ c \in Nat /\ r \in Nat
            BY <3>4, <5>1
          <5>7. a \in Nat /\ b \in Nat /\ e \in Nat /\ h \in Nat
            BY <3>3
          <5>8. r2 \in Nat
            BY <3>2, <5>1
          <5> HIDE DEF a, b, c, c2, e, r, r2, h
          <5>9. a + b + c2 + e + r2 + h = a + b + c + e + r + h
            BY <5>5, <5>6, <5>7, <5>8, SMTT(60)
          <5> QED
            BY <5>4, <5>9, Zenon
        <4>4. one(u, submitted)' = one(u, submitted)
          BY <2>4 DEF one
        <4> QED
          BY <3>1, <4>1, <4>3, <4>4
    <2> QED
      BY <1>3, <2>3, <2>5, <2>6
  <1> QED
    BY <1>6, <1>7

LEMMA TaskReturnsKeeps ==
  ASSUME IInv, NEW raised \in BOOLEAN, TaskReturns(raised)
  PROVE  IInv'
  <1>1. /\ stack # <<>> /\ top.call = "none" /\ top.job = "print" /\ stack' = pop
        /\ mainToHub' = Append(mainToHub, task_result(top.task, raised))
        /\ UNCHANGED <<clientVars, link, toClient, hubVars, hubToMain, sessions, username, waiting,
                       revived, destroyed, printed, events, failed>>
    BY DEF TaskReturns, Running
  <1>2. top.todo = <<>>
    BY <1>1, Top DEF IInv, FrameOK
  <1>3. /\ stack' \in Seq(Frame) /\ mainToHub' \in Seq(ToHub) /\ todos(stack') = todos(stack)
        /\ FramesSound' /\ CallsTraced' /\ TasksTraced'
    BY <1>1, <1>2, TopEnds
  <1>4. ClientsServed' /\ SessionsTracked'
    BY <1>1, <1>3, MainSame
  <1>5. TypeOK'
    BY <1>1, <1>3 DEF IInv, TypeOK, clientVars, hubVars
  <1> QED
    BY <1>3, <1>4, <1>5 DEF IInv

LEMMA FlushEndsKeeps ==
  ASSUME IInv, FlushEnds
  PROVE  IInv'
  <1>1. /\ stack # <<>> /\ top.call = "none" /\ top.job \in {"wait", "event"} /\ stack' = pop
        /\ UNCHANGED <<clientVars, link, toClient, hubVars, mainToHub, hubToMain, sessions,
                       username, waiting, revived, destroyed, printed, events, failed>>
    BY DEF FlushEnds, Running
  <1>2. top.todo = <<>>
    BY <1>1, Top DEF IInv, FrameOK
  <1>3. /\ stack' \in Seq(Frame) /\ mainToHub' \in Seq(ToHub) /\ todos(stack') = todos(stack)
        /\ FramesSound' /\ CallsTraced' /\ TasksTraced'
    BY <1>1, <1>2, TopEnds
  <1>4. ClientsServed' /\ SessionsTracked'
    BY <1>1, <1>3, MainSame
  <1>5. TypeOK'
    BY <1>1, <1>3 DEF IInv, TypeOK, clientVars, hubVars
  <1> QED
    BY <1>3, <1>4, <1>5 DEF IInv

LEMMA NotifyKeeps ==
  ASSUME IInv, NEW t \in Tasks, Notify(t)
  PROVE  IInv'
  <1>1. /\ TypeOK /\ FramesSound /\ stack # <<>> /\ top.call = "none" /\ Running
        /\ top.job \in {"wait", "event"}
        /\ UNCHANGED <<clientVars, link, toClient, hubVars, hubToMain, sessions, username, waiting,
                       revived, destroyed, printed, events, failed>>
    BY DEF IInv, Notify, Running
  <1>2. top \in Frame /\ FrameOK(top) /\ top.answer = "none" /\ top.todo = <<>>
    <2>1. top \in Frame /\ FrameOK(top)
      BY <1>1, Top
    <2> QED
      BY <1>1, <2>1 DEF FrameOK
  <1>3. /\ stack' \in Seq(Frame) /\ mainToHub' \in Seq(ToHub) /\ todos(stack') = todos(stack)
        /\ FramesSound' /\ CallsTraced' /\ TasksTraced'
    <2>1. ASSUME NEW what \in {"get_username", "set_busy_label"}, call(t, what)
          PROVE  /\ stack' \in Seq(Frame) /\ mainToHub' \in Seq(ToHub)
                 /\ todos(stack') = todos(stack)
                 /\ FramesSound' /\ CallsTraced' /\ TasksTraced'
      <3> DEFINE f == [top EXCEPT !.task = t, !.call = what]
      <3>1. what \in Calls
        BY DEF Calls
      <3>2. /\ f.todo = top.todo /\ f.job = top.job /\ f.task = t /\ f.call = what
            /\ f.answer = top.answer
        BY <1>2, <3>1 DEF Frame
      <3> HIDE DEF f
      <3>3. FrameOK(f)
        BY <1>1, <1>2, <3>2 DEF FrameOK
      <3>4. FrameOK([top EXCEPT !.task = t, !.call = what])
        BY <3>3 DEF f
      <3>5. top.job # "print"
        BY <1>1
      <3> QED
        BY <1>1, <2>1, <3>1, <3>4, <3>5, CallEffect
    <2>2. CASE /\ stack' = with_top([top EXCEPT !.labels = @ \ {t}, !.task = NoTask])
               /\ UNCHANGED mainToHub
      <3> DEFINE f == [top EXCEPT !.labels = @ \ {t}, !.task = NoTask]
      <3>1. /\ f \in Frame /\ f.todo = top.todo /\ f.job = top.job /\ f.call = top.call
            /\ f.answer = top.answer
        BY <1>2 DEF Frame
      <3>2. stack' = with_top(f)
        BY <2>2
      <3> HIDE DEF f
      <3>3. FrameOK(f) /\ top.job # "print" /\ f.call = "none"
        BY <1>1, <1>2, <3>1 DEF FrameOK
      <3>4. /\ stack' \in Seq(Frame) /\ todos(stack') = todos(stack)
            /\ FramesSound' /\ CallsTraced' /\ TasksTraced'
        BY <1>1, <2>2, <3>1, <3>2, <3>3, TopGoesOn
      <3> QED
        BY <1>1, <2>2, <3>4 DEF TypeOK
    <2> QED
      BY <2>1, <2>2 DEF Notify
  <1>4. ClientsServed' /\ SessionsTracked'
    BY <1>1, <1>3, MainSame
  <1>5. TypeOK'
    BY <1>1, <1>3 DEF TypeOK, clientVars, hubVars
  <1> QED
    BY <1>3, <1>4, <1>5 DEF IInv

LEMMA CallReturnsKeeps ==
  ASSUME IInv, CallReturns
  PROVE  IInv'
  <1> DEFINE back == [top EXCEPT !.call = "none", !.answer = "none"]
             noted == [back EXCEPT !.labels = @ \ {top.task}, !.task = NoTask]
  <1>1. /\ TypeOK /\ FramesSound /\ stack # <<>> /\ top.answer # "none"
        /\ UNCHANGED <<clientVars, link, toClient, hubVars, hubToMain, sessions, waiting, revived,
                       destroyed, printed, events>>
    BY DEF IInv, CallReturns
  <1>2. top \in Frame /\ FrameOK(top)
    BY <1>1, Top
  <1>3. top.todo = <<>> /\ top.task \in Tasks /\ top.call # "none" /\ top.job # "batch"
    BY <1>1, <1>2 DEF FrameOK
  <1>4. /\ back \in Frame /\ back.todo = top.todo /\ back.job = top.job /\ back.task = top.task
        /\ back.call = "none" /\ back.answer = "none"
    BY <1>2 DEF Frame
  <1>5. /\ noted \in Frame /\ noted.todo = top.todo /\ noted.job = top.job
        /\ noted.call = "none" /\ noted.answer = "none"
    BY <1>4 DEF Frame
  <1>6. \/ /\ stack' = with_top(back)
           /\ username' = [username EXCEPT ![top.task[1]] = cached(top.answer)]
           /\ UNCHANGED <<mainToHub, failed>>
        \/ stack' = with_top(noted) /\ top.call = "set_busy_label"
           /\ UNCHANGED <<username, mainToHub, failed>>
        \/ stack' = with_top(back) /\ UNCHANGED <<username, mainToHub, failed>>
        \/ /\ top.job = "print" /\ stack' = pop
           /\ mainToHub' = Append(mainToHub, task_result(top.task, TRUE))
           /\ UNCHANGED <<username, failed>>
        \/ top.job = "wait" /\ stack' = pop /\ UNCHANGED <<username, mainToHub, failed>>
        \/ failed' = "exception" /\ UNCHANGED <<username, stack, mainToHub>>
    BY DEF CallReturns
  <1> HIDE DEF noted, back
  <1>7. FrameOK(back) /\ (top.call = "set_busy_label" => FrameOK(noted) /\ top.job # "print")
    BY <1>2, <1>4, <1>5 DEF FrameOK
  <1>8. /\ stack' \in Seq(Frame) /\ mainToHub' \in Seq(ToHub) /\ todos(stack') = todos(stack)
        /\ FramesSound' /\ CallsTraced' /\ TasksTraced'
    <2>1. CASE stack' = with_top(back) /\ UNCHANGED mainToHub
      <3>1. /\ stack' \in Seq(Frame) /\ todos(stack') = todos(stack)
            /\ FramesSound' /\ CallsTraced' /\ TasksTraced'
        BY <1>1, <1>4, <1>7, <2>1, TopGoesOn
      <3> QED
        BY <1>1, <2>1, <3>1 DEF TypeOK
    <2>2. CASE stack' = with_top(noted) /\ UNCHANGED mainToHub /\ top.call = "set_busy_label"
      <3>1. /\ stack' \in Seq(Frame) /\ todos(stack') = todos(stack)
            /\ FramesSound' /\ CallsTraced' /\ TasksTraced'
        BY <1>1, <1>5, <1>7, <2>2, TopGoesOn
      <3> QED
        BY <1>1, <2>2, <3>1 DEF TypeOK
    <2>3. CASE stack' = pop /\ IF top.job = "print"
                               THEN \E raised \in BOOLEAN : mainToHub' =
                                        Append(mainToHub, task_result(top.task, raised))
                               ELSE mainToHub' = mainToHub
      BY <1>1, <1>3, <2>3, TopEnds
    <2>4. CASE UNCHANGED <<stack, mainToHub>>
      <3>1. UNCHANGED <<callStack, hubBatch, hubToMain, submitted, waiting>>
        BY <1>1 DEF hubVars
      <3>2. FramesSound' /\ CallsTraced' /\ TasksTraced'
        BY <2>4, <3>1 DEF IInv, FramesSound, CallsTraced, traces, TasksTraced, progress
      <3> QED
        BY <1>1, <2>4, <3>2 DEF TypeOK
    <2> QED
      BY <1>6, <2>1, <2>2, <2>3, <2>4
  <1>9. ClientsServed' /\ SessionsTracked'
    BY <1>1, <1>8, MainSame
  <1>10. TypeOK'
    <2>1. username' \in [Sessions -> {"unknown", "known", "None"}]
      <3>1. cached(top.answer) \in {"unknown", "known", "None"}
        BY DEF cached
      <3> QED
        BY <1>1, <1>6, <3>1 DEF TypeOK
    <2>2. failed' \in {"no", "lookup", "twice", "exception"}
      BY <1>1, <1>6 DEF TypeOK
    <2> QED
      BY <1>1, <1>8, <2>1, <2>2 DEF TypeOK, clientVars, hubVars
  <1> QED
    BY <1>8, <1>9, <1>10 DEF IInv

-----------------------------------------------------------------------------
\* The steps of server-main that start handlers

LEMMA MainReadsPipeKeeps ==
  ASSUME IInv, MainReadsPipe
  PROVE  IInv'
  <1> DEFINE q == sorted(hubToMain)
             f == [NoFrame EXCEPT !.todo = q]
             k == Len(stack) + 1
  <1>1. /\ stack' = Append(stack, f) /\ hubToMain' = <<>>
        /\ UNCHANGED <<clientVars, link, toClient, hubVars, mainToHub, sessions, username, waiting,
                       revived, destroyed, printed, events, failed>>
    BY DEF MainReadsPipe
  <1>2. /\ TypeOK /\ FramesSound /\ CallsTraced /\ TasksTraced /\ ClientsServed /\ SessionsTracked
        /\ stack \in Seq(Frame) /\ hubToMain \in Seq(ToMain)
    BY DEF IInv, TypeOK
  <1>3. /\ q \in Seq(ToMain) /\ Len(q) = Len(hubToMain)
        /\ \A i \in 1..Len(hubToMain) : \E p \in 1..Len(hubToMain) : q[p] = hubToMain[i]
        /\ \A S : count(q, S) = count(hubToMain, S)
    BY <1>2, SortedMessages
  <1> HIDE DEF q
  <1>4. f \in Frame /\ FrameOK(f) /\ f.todo = q /\ f.job = "batch" /\ f.call = "none"
    BY <1>3, NewFrames
  <1> HIDE DEF f
  <1>5. /\ stack' \in Seq(Frame) /\ FramesSound'
        /\ todos(stack') = [todos(stack) EXCEPT ![k] = f.todo]
        /\ todos(stack)[k] = <<>>
        /\ \A d : awaits(stack', d) <=> awaits(stack, d)
        /\ \A S : count(stack', S) = count(stack, S) + one(f, S)
        /\ \A S : count(stack', S) \in Nat /\ count(stack, S) \in Nat
    BY <1>1, <1>2, <1>4, StackPush
  <1>6. k \in Nat /\ todos(stack) \in [Nat -> Seq(ToMain)] /\ todos(stack') = [todos(stack) EXCEPT ![k] = q]
    <2>1. k \in Nat
      BY <1>2
    <2>2. todos(stack) \in [Nat -> Seq(ToMain)]
      BY <1>2, TodosType
    <2> QED
      BY <1>4, <1>5, <2>1, <2>2
  <1> HIDE DEF k
  <1>7. ASSUME NEW S, IsFiniteSet(nested(todos(stack), S))
        PROVE  /\ IsFiniteSet(nested(todos(stack'), S))
               /\ count(hubToMain', S) + Cardinality(nested(todos(stack'), S))
                  = count(hubToMain, S) + Cardinality(nested(todos(stack), S))
    <2>1. /\ IsFiniteSet(nested(todos(stack'), S))
          /\ Cardinality(nested(todos(stack), S)) \in Nat
          /\ Cardinality(nested(todos(stack'), S)) \in Nat
          /\ Cardinality(nested(todos(stack'), S)) + count(todos(stack)[k], S)
                 = Cardinality(nested(todos(stack), S)) + count(q, S)
      <3>1. todos(stack) \in sequences(Nat, ToMain) /\ k \in Nat /\ q \in Seq(ToMain)
        BY <1>2, <1>3, <1>6, TodosType
      <3>2. /\ IsFiniteSet(nested([todos(stack) EXCEPT ![k] = q], S))
            /\ Cardinality(nested(todos(stack), S)) \in Nat
            /\ Cardinality(nested([todos(stack) EXCEPT ![k] = q], S)) \in Nat
            /\ Cardinality(nested([todos(stack) EXCEPT ![k] = q], S)) + count(todos(stack)[k], S)
                   = Cardinality(nested(todos(stack), S)) + count(q, S)
        BY <1>7, <3>1, NestedChange
      <3> QED
        BY <1>6, <3>2
    <2>2. /\ count(todos(stack)[k], S) = 0 /\ count(hubToMain', S) = 0
          /\ count(q, S) = count(hubToMain, S) /\ count(hubToMain, S) \in Nat
      BY <1>1, <1>2, <1>3, <1>5, CountEmpty, FiniteHits
    <2> QED
      BY <2>1, <2>2
  <1>8. UNCHANGED <<mainToHub, callStack, hubBatch, submitted, waiting, session, sent>>
    BY <1>1 DEF hubVars
  <1>9. CallsTraced'
    <2> SUFFICES ASSUME NEW d \in Depths
                 PROVE  /\ IsFiniteSet(nested(callStack, StackedAt(d)))'
                        /\ IsFiniteSet(nested(todos(stack), ResultsAt(d)))'
                        /\ traces(d)' = IF awaits(stack', d) THEN 1 ELSE 0
      BY DEF CallsTraced
    <2>1. /\ IsFiniteSet(nested(callStack, StackedAt(d)))
          /\ IsFiniteSet(nested(todos(stack), ResultsAt(d)))
          /\ traces(d) = IF awaits(stack, d) THEN 1 ELSE 0
      BY <1>2 DEF CallsTraced
    <2>2. /\ IsFiniteSet(nested(todos(stack'), ResultsAt(d)))
          /\ count(hubToMain', ResultsAt(d)) + Cardinality(nested(todos(stack'), ResultsAt(d)))
             = count(hubToMain, ResultsAt(d)) + Cardinality(nested(todos(stack), ResultsAt(d)))
      BY <1>7, <2>1
    <2>3. /\ count(hubToMain', ResultsAt(d)) \in Nat
          /\ Cardinality(nested(todos(stack'), ResultsAt(d))) \in Nat
      BY <1>1, <2>2, CountEmpty, FS_CardinalityType
    <2>5. /\ count(mainToHub, CallsAt(d)) \in Nat /\ count(hubBatch, CallsAt(d)) \in Nat
          /\ Cardinality(nested(callStack, StackedAt(d))) \in Nat
          /\ count(hubToMain, ResultsAt(d)) \in Nat
          /\ Cardinality(nested(todos(stack), ResultsAt(d))) \in Nat
      BY <1>2, Counts
    <2>6. traces(d)' = count(mainToHub, CallsAt(d)) + count(hubBatch, CallsAt(d))
                       + Cardinality(nested(callStack, StackedAt(d)))
                       + count(hubToMain', ResultsAt(d))
                       + Cardinality(nested(todos(stack'), ResultsAt(d)))
      BY <1>8 DEF traces
    <2>4. traces(d)' = traces(d)
      BY <2>2, <2>3, <2>5, <2>6 DEF traces
    <2> QED
      BY <1>5, <1>8, <2>1, <2>2, <2>4
  <1>10. TasksTraced'
    <2> SUFFICES ASSUME NEW t \in Tasks
                 PROVE  /\ IsFiniteSet(nested(todos(stack), RunsOf(t)))'
                        /\ progress(t)' = one(t, submitted)'
      BY <1>2, <1>8 DEF TasksTraced
    <2>1. /\ IsFiniteSet(nested(todos(stack), RunsOf(t)))
          /\ progress(t) = one(t, submitted)
      BY <1>2 DEF TasksTraced
    <2>2. /\ IsFiniteSet(nested(todos(stack'), RunsOf(t)))
          /\ count(hubToMain', RunsOf(t)) + Cardinality(nested(todos(stack'), RunsOf(t)))
             = count(hubToMain, RunsOf(t)) + Cardinality(nested(todos(stack), RunsOf(t)))
      BY <1>7, <2>1
    <2>3. /\ count(hubToMain', RunsOf(t)) \in Nat
          /\ Cardinality(nested(todos(stack'), RunsOf(t))) \in Nat
      BY <1>1, <2>2, CountEmpty, FS_CardinalityType
    <2>4. count(stack', PrintsOf(t)) = count(stack, PrintsOf(t))
      <3>1. one(f, PrintsOf(t)) = 0
        BY <1>4, PrintsOfFrames
      <3> QED
        BY <1>5, <3>1
    <2>5. progress(t)' = progress(t)
      BY <1>2, <1>8, <2>2, <2>3, <2>4, Counts DEF progress
    <2> QED
      BY <1>8, <2>1, <2>2, <2>5
  <1>11. ClientsServed'
    BY <1>1, <1>2, <1>8, ClientsSame
  <1>12. SessionsTracked'
    <2>1. ASSUME NEW s, destroys(hubToMain, todos(stack), s)
          PROVE  destroys(hubToMain', todos(stack'), s)
      <3>1. \A e \in Nat : e # k => todos(stack')[e] = todos(stack)[e]
        BY <1>6
      <3>2. todos(stack')[k] = q /\ DOMAIN q = 1..Len(hubToMain) /\ DOMAIN hubToMain = 1..Len(hubToMain)
        BY <1>2, <1>3, <1>6
      <3>3. CASE \E i \in DOMAIN hubToMain : hubToMain[i] = [type |-> "destroy", session |-> s]
        <4>1. \E p \in DOMAIN todos(stack')[k] :
                  todos(stack')[k][p] = [type |-> "destroy", session |-> s]
          BY <1>3, <3>2, <3>3
        <4> QED
          BY <1>6, <4>1 DEF destroys
      <3>4. CASE \E e \in Nat : \E i \in DOMAIN todos(stack)[e] :
                     todos(stack)[e][i] = [type |-> "destroy", session |-> s]
        <4>1. PICK e \in Nat : \E i \in DOMAIN todos(stack)[e] :
                     todos(stack)[e][i] = [type |-> "destroy", session |-> s]
          BY <3>4
        <4>2. e # k
          BY <1>5, <4>1, EmptySeq
        <4>3. todos(stack')[e] = todos(stack)[e]
          BY <3>1, <4>2
        <4> QED
          BY <4>1, <4>3 DEF destroys
      <3> QED
        BY <2>1, <3>3, <3>4 DEF destroys
    <2> QED
      BY <1>1, <1>2, <1>5, <1>8, <2>1, SessionsKept
  <1>13. TypeOK'
    BY <1>1, <1>2, <1>5 DEF TypeOK, clientVars, hubVars
  <1> QED
    BY <1>5, <1>9, <1>10, <1>11, <1>12, <1>13 DEF IInv

\* The results of tasks that end together
LEMMA OrderedResults ==
  ASSUME NEW E \in SUBSET Tasks, IsFiniteSet(E), NEW q \in orders(E)
  PROVE  LET r == [i \in DOMAIN q |-> task_result(q[i], FALSE)] IN
         /\ r \in Seq(ToHub)
         /\ \A d : count(r, CallsAt(d)) = 0
         /\ \A t : count(r, ResultsOf(t)) = one(t, E)
  <1> DEFINE n == Cardinality(E)
             r == [i \in DOMAIN q |-> task_result(q[i], FALSE)]
  <1>1. n \in Nat /\ IsFiniteSet(1..n) /\ Cardinality(1..n) = n
    <2>1. n \in Nat
      BY FS_CardinalityType
    <2> HIDE DEF n
    <2>2. IsFiniteSet(1..n) /\ Cardinality(1..n) = IF 1 > n THEN 0 ELSE n - 1 + 1
      BY <2>1, FS_Interval
    <2> QED
      BY <2>1, <2>2
  <1>2. q \in [1..n -> E] /\ \A i, j \in 1..n : q[i] = q[j] => i = j
    BY DEF orders
  <1> HIDE DEF n
  <1>3. \A t \in E : \E i \in 1..n : q[i] = t
    <2>1. q \in Injection(1..n, E)
      BY <1>2, Fun_IsInj
    <2>2. q \in Surjection(1..n, E)
      BY <1>1, <2>1, FS_Injection DEF n
    <2>3. \A t \in E : \E i \in 1..n : q[i] = t
      BY <2>2 DEF Surjection
    <2> QED
      BY <2>3
  <1>4. DOMAIN q = 1..n /\ r = [i \in 1..n |-> task_result(q[i], FALSE)]
    BY <1>2
  <1> HIDE DEF r
  <1>5. \A i \in 1..n : /\ r[i] \in ToHub
                        /\ \A d : r[i] \notin CallsAt(d)
                        /\ \A t : r[i] \in ResultsOf(t) <=> q[i] = t
    <2> SUFFICES ASSUME NEW i \in 1..n
                 PROVE  /\ r[i] \in ToHub
                        /\ \A d : r[i] \notin CallsAt(d)
                        /\ \A t : r[i] \in ResultsOf(t) <=> q[i] = t
      OBVIOUS
    <2>1. q[i] \in Tasks /\ r[i] = task_result(q[i], FALSE)
      BY <1>2, <1>4
    <2> QED
      BY <2>1 DEF task_result, ToHub, CallsAt, ResultsOf
  <1>6. r \in Seq(ToHub) /\ DOMAIN r = 1..n /\ Len(r) = n
    <2>1. r \in [1..n -> ToHub]
      BY <1>4, <1>5
    <2> QED
      BY <1>1, <2>1
  <1>7. ASSUME NEW d PROVE count(r, CallsAt(d)) = 0
    BY <1>5, <1>6, FiniteHits
  <1>8. ASSUME NEW t PROVE count(r, ResultsOf(t)) = one(t, E)
    <2>1. CASE t \notin E
      <3>1. \A i \in 1..Len(r) : r[i] \notin ResultsOf(t)
        BY <1>2, <1>5, <1>6, <2>1
      <3> QED
        BY <1>6, <2>1, <3>1, FiniteHits DEF one
    <2>2. CASE t \in E
      <3>1. PICK i \in 1..n : q[i] = t
        BY <1>3, <2>2
      <3>2. hits(r, ResultsOf(t)) = {i}
        BY <1>2, <1>5, <1>6, <3>1 DEF hits
      <3> QED
        BY <2>2, <3>2, FS_Singleton DEF count, one
    <2> QED
      BY <2>1, <2>2
  <1> QED
    BY <1>6, <1>7, <1>8 DEF r

LEMMA BootEventKeeps ==
  ASSUME IInv, NEW ended \in SUBSET waiting, NEW labels \in SUBSET waiting,
         BootEvent(ended, labels)
  PROVE  IInv'
  <1> DEFINE f == [NoFrame EXCEPT !.job = "event", !.labels = labels]
  <1>1. /\ events < MaxEvents /\ events' = events + 1 /\ waiting' = waiting \ ended
        /\ \E q \in orders(ended) :
               mainToHub' = mainToHub \o [i \in DOMAIN q |-> task_result(q[i], FALSE)]
        /\ stack' = Append(stack, f)
        /\ UNCHANGED <<clientVars, link, toClient, hubVars, hubToMain, sessions, username, revived,
                       destroyed, printed, failed>>
    BY DEF BootEvent
  <1>2. /\ TypeOK /\ FramesSound /\ CallsTraced /\ TasksTraced /\ stack \in Seq(Frame)
        /\ waiting \in SUBSET Tasks /\ mainToHub \in Seq(ToHub) /\ IsFiniteSet(waiting)
    BY DEF IInv, TypeOK, TasksTraced
  <1>3. IsFiniteSet(ended) /\ ended \in SUBSET Tasks /\ IsFiniteSet(waiting')
    BY <1>1, <1>2, FS_Subset
  <1>4. PICK r \in Seq(ToHub) : /\ mainToHub' = mainToHub \o r
                                /\ \A d : count(r, CallsAt(d)) = 0
                                /\ \A t : count(r, ResultsOf(t)) = one(t, ended)
    <2>1. PICK q \in orders(ended) :
               mainToHub' = mainToHub \o [i \in DOMAIN q |-> task_result(q[i], FALSE)]
      BY <1>1
    <2> QED
      BY <1>3, <2>1, OrderedResults
  <1>5. f \in Frame /\ FrameOK(f) /\ f.todo = <<>> /\ f.job = "event" /\ f.call = "none"
    BY <1>2, NewFrames
  <1> HIDE DEF f
  <1>6. /\ stack' \in Seq(Frame) /\ FramesSound' /\ todos(stack') = todos(stack)
        /\ \A d : awaits(stack', d) <=> awaits(stack, d)
        /\ \A S : count(stack', S) = count(stack, S) + one(f, S)
    BY <1>1, <1>2, <1>5, StackPush
  <1>7. /\ mainToHub' \in Seq(ToHub)
        /\ \A S : count(mainToHub', S) = count(mainToHub, S) + count(r, S)
        /\ \A S : count(mainToHub, S) \in Nat
    BY <1>2, <1>4, CountConcat, FiniteHits
  <1>8. UNCHANGED <<hubToMain, callStack, hubBatch, submitted>>
    BY <1>1 DEF hubVars
  <1>9. CallsTraced'
    <2>1. \A d : count(mainToHub', CallsAt(d)) = count(mainToHub, CallsAt(d))
      BY <1>4, <1>7
    <2> QED
      BY <1>2, <1>6, <1>8, <2>1 DEF CallsTraced, traces
  <1>10. TasksTraced'
    <2> SUFFICES ASSUME NEW t \in Tasks
                 PROVE  /\ IsFiniteSet(nested(todos(stack), RunsOf(t)))'
                        /\ progress(t)' = one(t, submitted)'
      BY <1>3 DEF TasksTraced
    <2>1. /\ IsFiniteSet(nested(todos(stack), RunsOf(t)))
          /\ progress(t) = one(t, submitted)
      BY <1>2 DEF TasksTraced
    <2>2. /\ count(hubToMain, RunsOf(t)) \in Nat
          /\ Cardinality(nested(todos(stack), RunsOf(t))) \in Nat
          /\ count(stack, PrintsOf(t)) \in Nat
          /\ count(mainToHub, ResultsOf(t)) \in Nat /\ count(hubBatch, ResultsOf(t)) \in Nat
      BY <1>2, Counts
    <2>3. count(stack', PrintsOf(t)) = count(stack, PrintsOf(t))
      <3>1. one(f, PrintsOf(t)) = 0
        BY <1>5, PrintsOfFrames
      <3> QED
        BY <1>6, <2>2, <3>1
    <2>4. /\ count(mainToHub', ResultsOf(t)) = count(mainToHub, ResultsOf(t)) + one(t, ended)
          /\ one(t, waiting') + one(t, ended) = one(t, waiting)
          /\ one(t, ended) \in Nat /\ one(t, waiting') \in Nat
      <3>1. count(mainToHub', ResultsOf(t)) = count(mainToHub, ResultsOf(t)) + one(t, ended)
        BY <1>4, <1>7
      <3>2. waiting' = waiting \ ended
        BY <1>1
      <3> QED
        BY <3>1, <3>2 DEF one
    <2> QED
      BY <1>6, <1>8, <2>1, <2>2, <2>3, <2>4 DEF progress
  <1>11. ClientsServed' /\ SessionsTracked'
    BY <1>1, <1>6, MainSame
  <1>12. TypeOK'
    <2>1. events' \in 0..MaxEvents
      BY <1>1, <1>2, ApiSessionsAssumption DEF TypeOK
    <2>2. waiting' \in SUBSET Tasks
      BY <1>1, <1>2
    <2> QED
      BY <1>1, <1>2, <1>6, <1>7, <2>1, <2>2 DEF TypeOK, clientVars, hubVars
  <1> QED
    BY <1>6, <1>9, <1>10, <1>11, <1>12 DEF IInv

-----------------------------------------------------------------------------
\* The messages that server-main handles

\* The stack once the first message of the batch has been taken
Rest == with_top([top EXCEPT !.todo = Tail(@)])

\* The message taken is the only change to what the handlers have to do.
LEMMA HeadTaken ==
  ASSUME TypeOK, FramesSound, stack # <<>>, top.call = "none", top.job = "batch",
         top.todo # <<>>
  PROVE  /\ Rest \in Seq(Frame) /\ Len(Rest) = Len(stack) /\ DOMAIN Rest = DOMAIN stack
         /\ \A e \in DOMAIN stack : /\ FrameOK(Rest[e])
                                    /\ e # Len(stack) => Rest[e] = stack[e]
         /\ \A d : awaits(Rest, d) <=> awaits(stack, d)
         /\ \A t : count(Rest, PrintsOf(t)) = count(stack, PrintsOf(t))
         /\ Head(top.todo) \in ToMain
         /\ \A S : IsFiniteSet(nested(todos(stack), S)) =>
               /\ IsFiniteSet(nested(todos(Rest), S))
               /\ Cardinality(nested(todos(Rest), S)) \in Nat
               /\ Cardinality(nested(todos(Rest), S)) + one(Head(top.todo), S)
                      = Cardinality(nested(todos(stack), S))
         /\ \A s : destroys(hubToMain, todos(stack), s) =>
               \/ Head(top.todo) = [type |-> "destroy", session |-> s]
               \/ destroys(hubToMain, todos(Rest), s)
  <1> DEFINE k == Len(stack)
             q == top.todo
             f == [top EXCEPT !.todo = Tail(q)]
  <1>1. /\ k \in Depths /\ k \in 1..Len(stack) /\ DOMAIN stack = 1..Len(stack)
        /\ top = stack[k] /\ top \in Frame /\ FrameOK(top) /\ stack \in Seq(Frame)
    BY Top
  <1>2. /\ q \in Seq(ToMain) /\ q # <<>> /\ Tail(q) \in Seq(ToMain) /\ Head(q) \in ToMain
        /\ Len(q) \in Nat /\ Len(Tail(q)) = Len(q) - 1 /\ Head(q) = q[1]
        /\ \A i \in 2..Len(q) : i - 1 \in DOMAIN Tail(q) /\ Tail(q)[i - 1] = q[i]
        /\ DOMAIN q = 1..Len(q)
    <2>1. q \in Seq(ToMain) /\ q # <<>>
      BY <1>1 DEF Frame
    <2> HIDE DEF q
    <2> QED
      BY <2>1
  <1>3. /\ f \in Frame /\ f.todo = Tail(q) /\ f.job = top.job /\ f.task = top.task
        /\ f.call = top.call /\ f.answer = top.answer
    BY <1>1, <1>2 DEF Frame
  <1>4. Rest = [stack EXCEPT ![k] = f]
    BY <1>1 DEF Rest, with_top
  <1> HIDE DEF f, q, k
  <1>5. FrameOK(f)
    BY <1>1, <1>3 DEF FrameOK
  <1>6. /\ Rest \in Seq(Frame) /\ Len(Rest) = Len(stack) /\ DOMAIN Rest = DOMAIN stack
        /\ Rest[k] = f /\ \A e \in DOMAIN stack : e # k => Rest[e] = stack[e]
        /\ todos(Rest) = [todos(stack) EXCEPT ![k] = Tail(q)]
    <2>1. /\ Rest \in Seq(Frame) /\ Len(Rest) = Len(stack)
          /\ todos(Rest) = [todos(stack) EXCEPT ![k] = f.todo]
      BY <1>1, <1>3, <1>4, TodosSet
    <2> QED
      BY <1>1, <1>3, <1>4, <2>1
  <1>7. \A e \in DOMAIN stack : FrameOK(Rest[e])
    BY <1>5, <1>6 DEF FramesSound
  <1>8. \A d : awaits(Rest, d) <=> awaits(stack, d)
    BY <1>1, <1>3, <1>6 DEF awaits
  <1>9. ASSUME NEW t PROVE count(Rest, PrintsOf(t)) = count(stack, PrintsOf(t))
    <2>1. count([stack EXCEPT ![k] = f], PrintsOf(t)) + one(stack[k], PrintsOf(t))
          = count(stack, PrintsOf(t)) + one(f, PrintsOf(t))
      <3>1. stack \in Seq(Frame) /\ k \in 1..Len(stack) /\ f \in Frame
        BY <1>1, <1>3
      <3> QED
        BY <3>1, CountExcept
    <2>2. /\ one(f, PrintsOf(t)) = IF f.job = "print" /\ f.task = t THEN 1 ELSE 0
          /\ one(top, PrintsOf(t)) = IF top.job = "print" /\ top.task = t THEN 1 ELSE 0
      BY <1>1, <1>3, PrintsOfFrames
    <2>3. one(f, PrintsOf(t)) = 0 /\ one(stack[k], PrintsOf(t)) = 0
      BY <1>1, <1>3, <2>2
    <2>4. count(Rest, PrintsOf(t)) \in Nat /\ count(stack, PrintsOf(t)) \in Nat
      BY <1>1, <1>6, FiniteHits
    <2> QED
      BY <1>4, <2>1, <2>3, <2>4
  <1>10. todos(stack)[k] = q /\ k \in Nat /\ todos(stack) \in sequences(Nat, ToMain)
    <2>1. k \in Nat
      BY <1>1 DEF Depths
    <2> QED
      BY <1>1, <2>1, TodosType DEF todos, q
  <1>11. ASSUME NEW S, IsFiniteSet(nested(todos(stack), S))
         PROVE  /\ IsFiniteSet(nested(todos(Rest), S))
                /\ Cardinality(nested(todos(Rest), S)) \in Nat
                /\ Cardinality(nested(todos(Rest), S)) + one(Head(q), S)
                       = Cardinality(nested(todos(stack), S))
    <2>1. /\ IsFiniteSet(nested([todos(stack) EXCEPT ![k] = Tail(q)], S))
          /\ Cardinality(nested(todos(stack), S)) \in Nat
          /\ Cardinality(nested([todos(stack) EXCEPT ![k] = Tail(q)], S)) \in Nat
          /\ Cardinality(nested([todos(stack) EXCEPT ![k] = Tail(q)], S)) + count(todos(stack)[k], S)
                 = Cardinality(nested(todos(stack), S)) + count(Tail(q), S)
      <3> DEFINE r == Tail(q)
      <3>1. r \in Seq(ToMain)
        BY <1>2
      <3> HIDE DEF r
      <3>2. /\ IsFiniteSet(nested([todos(stack) EXCEPT ![k] = r], S))
            /\ Cardinality(nested(todos(stack), S)) \in Nat
            /\ Cardinality(nested([todos(stack) EXCEPT ![k] = r], S)) \in Nat
            /\ Cardinality(nested([todos(stack) EXCEPT ![k] = r], S)) + count(todos(stack)[k], S)
                   = Cardinality(nested(todos(stack), S)) + count(r, S)
        BY <1>10, <1>11, <3>1, NestedChange
      <3> QED
        BY <3>2 DEF r
    <2>2. /\ IsFiniteSet(nested(todos(Rest), S)) /\ Cardinality(nested(todos(Rest), S)) \in Nat
          /\ Cardinality(nested(todos(Rest), S)) + count(q, S)
                 = Cardinality(nested(todos(stack), S)) + count(Tail(q), S)
      BY <1>6, <1>10, <2>1
    <2>3. count(q, S) = count(Tail(q), S) + one(Head(q), S)
      BY <1>2, CountTail
    <2>4. count(Tail(q), S) \in Nat /\ one(Head(q), S) \in Nat
      BY <1>2, FiniteHits DEF one
    <2> QED
      BY <2>1, <2>2, <2>3, <2>4
  <1>12. ASSUME NEW s, destroys(hubToMain, todos(stack), s),
                Head(q) # [type |-> "destroy", session |-> s]
         PROVE  destroys(hubToMain, todos(Rest), s)
    <2> SUFFICES ASSUME NEW e \in Nat, NEW i \in DOMAIN todos(stack)[e],
                        todos(stack)[e][i] = [type |-> "destroy", session |-> s]
                 PROVE  \E j \in DOMAIN todos(Rest)[e] :
                            todos(Rest)[e][j] = [type |-> "destroy", session |-> s]
      BY <1>12 DEF destroys
    <2>1. CASE e # k
      <3>1. todos(Rest)[e] = todos(stack)[e]
        BY <1>6, <2>1
      <3> QED
        BY <3>1
    <2>2. CASE e = k
      <3>1. todos(Rest)[e] = Tail(q)
        BY <1>6, <1>10, <2>2, TodosType DEF sequences
      <3>2. i \in 2..Len(q)
        BY <1>2, <1>10, <1>12, <2>2
      <3> QED
        <4> DEFINE r == Tail(q)
        <4>1. i - 1 \in 1..Len(r) /\ r[i - 1] = q[i] /\ DOMAIN r = 1..Len(r)
          BY <1>2, <3>2
        <4>2. q[i] = [type |-> "destroy", session |-> s]
          BY <1>10, <2>2
        <4>3. todos(Rest)[e] = r
          BY <3>1
        <4> HIDE DEF r
        <4> QED
          BY <4>1, <4>2, <4>3
    <2> QED
      BY <2>1, <2>2
  <1> QED
    BY <1>2, <1>6, <1>7, <1>8, <1>9, <1>11, <1>12 DEF q, k

LEMMA Answered ==
  ASSUME NEW st \in Seq(Frame), NEW d \in 1..Len(st), NEW g \in Frame,
         g.todo = st[d].todo, g.job = st[d].job, g.task = st[d].task
  PROVE  /\ [st EXCEPT ![d] = g] \in Seq(Frame)
         /\ todos([st EXCEPT ![d] = g]) = todos(st)
         /\ \A t : count([st EXCEPT ![d] = g], PrintsOf(t)) = count(st, PrintsOf(t))
  <1> DEFINE new == [st EXCEPT ![d] = g]
  <1>1. new \in Seq(Frame) /\ todos(new) = todos(st)
    BY TodosSet, TodosSame
  <1>2. st[d] \in Frame
    OBVIOUS
  <1>3. \A S : count(new, S) + one(st[d], S) = count(st, S) + one(g, S)
    BY CountExcept
  <1>4. \A S : count(new, S) \in Nat /\ count(st, S) \in Nat
    BY <1>1, FiniteHits
  <1> HIDE DEF new
  <1>5. ASSUME NEW t PROVE count(new, PrintsOf(t)) = count(st, PrintsOf(t))
    <2>1. /\ one(g, PrintsOf(t)) = IF g.job = "print" /\ g.task = t THEN 1 ELSE 0
          /\ one(st[d], PrintsOf(t)) = IF st[d].job = "print" /\ st[d].task = t THEN 1 ELSE 0
      BY <1>2, PrintsOfFrames
    <2>2. one(g, PrintsOf(t)) = one(st[d], PrintsOf(t)) /\ one(g, PrintsOf(t)) \in Nat
      BY <2>1
    <2>3. count(new, PrintsOf(t)) + one(st[d], PrintsOf(t))
              = count(st, PrintsOf(t)) + one(g, PrintsOf(t))
      BY <1>3
    <2>4. count(new, PrintsOf(t)) \in Nat /\ count(st, PrintsOf(t)) \in Nat
      BY <1>4
    <2> DEFINE a == count(new, PrintsOf(t))
               b == count(st, PrintsOf(t))
               x == one(g, PrintsOf(t))
    <2>5. a \in Nat /\ b \in Nat /\ x \in Nat /\ a + x = b + x
      BY <2>2, <2>3, <2>4
    <2> HIDE DEF a, b, x
    <2>6. a = b
      BY <2>5
    <2> QED
      BY <2>6 DEF a, b
  <1> QED
    BY <1>1, <1>5 DEF new

AnswersCall ==
    /\ Head(top.todo).type = "result"
    /\ stack' = [Rest EXCEPT ![Head(top.todo).depth].answer = Head(top.todo).value]

\* The result of a call goes to the handler that waits for it.
LEMMA MainHandlesResult ==
  ASSUME IInv, stack # <<>>, top.call = "none", top.job = "batch", top.todo # <<>>,
         AnswersCall,
         UNCHANGED <<clientVars, link, toClient, hubVars, mainToHub, hubToMain, username,
                     printed, events, failed, sessions, waiting, revived, destroyed>>
  PROVE  IInv'
  <1> DEFINE m == Head(top.todo)
             d == m.depth
             v == m.value
             g == [Rest[d] EXCEPT !.answer = v]
  <1>1. TypeOK /\ FramesSound /\ CallsTraced /\ TasksTraced /\ ClientsServed /\ SessionsTracked
    BY DEF IInv
  <1>2. /\ Rest \in Seq(Frame) /\ Len(Rest) = Len(stack) /\ DOMAIN Rest = DOMAIN stack
        /\ \A e \in DOMAIN stack : /\ FrameOK(Rest[e])
                                   /\ e # Len(stack) => Rest[e] = stack[e]
        /\ \A e : awaits(Rest, e) <=> awaits(stack, e)
        /\ \A t : count(Rest, PrintsOf(t)) = count(stack, PrintsOf(t))
        /\ m \in ToMain
        /\ \A S : IsFiniteSet(nested(todos(stack), S)) =>
               /\ IsFiniteSet(nested(todos(Rest), S))
               /\ Cardinality(nested(todos(Rest), S)) \in Nat
               /\ Cardinality(nested(todos(Rest), S)) + one(m, S)
                      = Cardinality(nested(todos(stack), S))
        /\ \A s : destroys(hubToMain, todos(stack), s) =>
               \/ m = [type |-> "destroy", session |-> s]
               \/ destroys(hubToMain, todos(Rest), s)
    BY <1>1, HeadTaken
  <1>3. m.type = "result" /\ stack' = [Rest EXCEPT ![d].answer = v]
    BY DEF AnswersCall
  <1> HIDE DEF m
  <1>4. /\ d \in Depths /\ v \in Answers
        /\ \A e : one(m, ResultsAt(e)) = IF e = d THEN 1 ELSE 0
        /\ \A t : one(m, RunsOf(t)) = 0
        /\ \A s : m # [type |-> "destroy", session |-> s]
    BY <1>2, <1>3 DEF ToMain, ResultsAt, RunsOf, one
  <1> HIDE DEF d, v
  <1>5. awaits(stack, d)
    <2>1. /\ IsFiniteSet(nested(todos(stack), ResultsAt(d)))
          /\ traces(d) = IF awaits(stack, d) THEN 1 ELSE 0
      BY <1>1, <1>4 DEF CallsTraced
    <2>2. Cardinality(nested(todos(stack), ResultsAt(d))) >= 1
      BY <1>2, <1>4, <2>1
    <2>3. /\ count(mainToHub, CallsAt(d)) \in Nat /\ count(hubBatch, CallsAt(d)) \in Nat
          /\ Cardinality(nested(callStack, StackedAt(d))) \in Nat
          /\ count(hubToMain, ResultsAt(d)) \in Nat
          /\ Cardinality(nested(todos(stack), ResultsAt(d))) \in Nat
      BY <1>1, <1>4, Counts
    <2> QED
      BY <2>1, <2>2, <2>3 DEF traces
  <1>6. /\ d \in DOMAIN stack /\ d # Len(stack) /\ d \in 1..Len(Rest) /\ Rest[d] = stack[d]
        /\ Rest[d] \in Frame
    <2>1. d \in DOMAIN stack /\ stack[d].call # "none"
      BY <1>5 DEF awaits
    <2>2. d # Len(stack)
      BY <1>1, <2>1, Top
    <2>3. DOMAIN Rest = 1..Len(Rest)
      BY <1>2
    <2> QED
      BY <1>2, <2>1, <2>2, <2>3
  <1>7. /\ g \in Frame /\ g.todo = Rest[d].todo /\ g.job = Rest[d].job /\ g.task = Rest[d].task
        /\ g.call = Rest[d].call /\ g.answer = v
    BY <1>4, <1>6 DEF Frame
  <1>8. stack' = [Rest EXCEPT ![d] = g]
    BY <1>3
  <1> HIDE DEF g
  <1>9. FrameOK(g) /\ v # "none"
    <2>1. v # "none"
      BY <1>4 DEF Answers, Calls
    <2>2. FrameOK(Rest[d]) /\ Rest[d].call # "none"
      BY <1>2, <1>5, <1>6 DEF awaits
    <2> QED
      BY <1>7, <2>1, <2>2 DEF FrameOK
  <1>10. /\ stack' \in Seq(Frame) /\ DOMAIN stack' = DOMAIN stack /\ stack'[d] = g
         /\ \A e \in DOMAIN stack : e # d => stack'[e] = Rest[e]
         /\ todos(stack') = todos(Rest)
         /\ \A t : count(stack', PrintsOf(t)) = count(Rest, PrintsOf(t))
    <2> DEFINE new == [Rest EXCEPT ![d] = g]
    <2>1. /\ new \in Seq(Frame) /\ DOMAIN new = DOMAIN Rest /\ new[d] = g
          /\ \A e \in DOMAIN Rest : e # d => new[e] = Rest[e]
          /\ todos(new) = todos(Rest)
          /\ \A t : count(new, PrintsOf(t)) = count(Rest, PrintsOf(t))
      <3>1. Rest \in Seq(Frame) /\ d \in 1..Len(Rest) /\ g \in Frame
        BY <1>2, <1>6, <1>7
      <3>2. g.todo = Rest[d].todo /\ g.job = Rest[d].job /\ g.task = Rest[d].task
        BY <1>7
      <3>3. DOMAIN new = DOMAIN Rest /\ new[d] = g
            /\ \A e \in DOMAIN Rest : e # d => new[e] = Rest[e]
        BY <3>1
      <3>4. /\ new \in Seq(Frame) /\ todos(new) = todos(Rest)
            /\ \A t : count(new, PrintsOf(t)) = count(Rest, PrintsOf(t))
        BY <3>1, <3>2, Answered
      <3> QED
        BY <3>3, <3>4
    <2>2. stack' = new
      BY <1>8
    <2> HIDE DEF new
    <2> QED
      BY <1>2, <2>1, <2>2
  <1>11. FramesSound'
    BY <1>2, <1>9, <1>10 DEF FramesSound
  <1>12. \A e : awaits(stack', e) <=> e # d /\ awaits(stack, e)
    <2>1. \A e : awaits(stack', e) <=> e # d /\ awaits(Rest, e)
      BY <1>2, <1>7, <1>9, <1>10 DEF awaits
    <2> QED
      BY <1>2, <2>1
  <1>13. ASSUME NEW t PROVE count(stack', PrintsOf(t)) = count(stack, PrintsOf(t))
    BY <1>2, <1>10
  <1>14. UNCHANGED <<callStack, hubBatch, submitted, session, sent>>
    BY DEF hubVars
  <1>15. CallsTraced'
    <2> SUFFICES ASSUME NEW e \in Depths
                 PROVE  /\ IsFiniteSet(nested(callStack, StackedAt(e)))'
                        /\ IsFiniteSet(nested(todos(stack), ResultsAt(e)))'
                        /\ traces(e)' = IF awaits(stack', e) THEN 1 ELSE 0
      BY DEF CallsTraced
    <2>1. /\ IsFiniteSet(nested(callStack, StackedAt(e)))
          /\ IsFiniteSet(nested(todos(stack), ResultsAt(e)))
          /\ traces(e) = IF awaits(stack, e) THEN 1 ELSE 0
      BY <1>1 DEF CallsTraced
    <2>2. /\ IsFiniteSet(nested(todos(stack'), ResultsAt(e)))
          /\ Cardinality(nested(todos(stack'), ResultsAt(e))) \in Nat
          /\ Cardinality(nested(todos(stack'), ResultsAt(e))) + (IF e = d THEN 1 ELSE 0)
             = Cardinality(nested(todos(stack), ResultsAt(e)))
      BY <1>2, <1>4, <1>10, <2>1
    <2>3. /\ count(mainToHub, CallsAt(e)) \in Nat /\ count(hubBatch, CallsAt(e)) \in Nat
          /\ Cardinality(nested(callStack, StackedAt(e))) \in Nat
          /\ count(hubToMain, ResultsAt(e)) \in Nat
          /\ Cardinality(nested(todos(stack), ResultsAt(e))) \in Nat
      BY <1>1, Counts
    <2>4. traces(e)' = count(mainToHub, CallsAt(e)) + count(hubBatch, CallsAt(e))
                       + Cardinality(nested(callStack, StackedAt(e)))
                       + count(hubToMain, ResultsAt(e))
                       + Cardinality(nested(todos(stack'), ResultsAt(e)))
      BY <1>14 DEF traces
    <2>6. traces(e) = count(mainToHub, CallsAt(e)) + count(hubBatch, CallsAt(e))
                      + Cardinality(nested(callStack, StackedAt(e)))
                      + count(hubToMain, ResultsAt(e))
                      + Cardinality(nested(todos(stack), ResultsAt(e)))
      BY DEF traces
    <2>5. traces(e)' + (IF e = d THEN 1 ELSE 0) = traces(e) /\ traces(e)' \in Nat
      BY <2>2, <2>3, <2>4, <2>6
    <2> QED
      BY <1>5, <1>12, <1>14, <2>1, <2>2, <2>5
  <1>16. TasksTraced'
    <2> SUFFICES ASSUME NEW t \in Tasks
                 PROVE  /\ IsFiniteSet(nested(todos(stack), RunsOf(t)))'
                        /\ progress(t)' = one(t, submitted)'
      BY <1>1 DEF TasksTraced
    <2>1. /\ IsFiniteSet(nested(todos(stack), RunsOf(t)))
          /\ progress(t) = one(t, submitted)
      BY <1>1 DEF TasksTraced
    <2>2. /\ IsFiniteSet(nested(todos(stack'), RunsOf(t)))
          /\ Cardinality(nested(todos(stack'), RunsOf(t)))
             = Cardinality(nested(todos(stack), RunsOf(t)))
      BY <1>2, <1>4, <1>10, <2>1
    <2> QED
      BY <1>13, <1>14, <2>1, <2>2 DEF progress
  <1>17. ClientsServed'
    BY <1>1, <1>14, ClientsSame
  <1>18. SessionsTracked'
    <2>1. \A s : destroys(hubToMain, todos(stack), s) => destroys(hubToMain', todos(stack'), s)
      BY <1>2, <1>4, <1>10
    <2> QED
      BY <1>1, <1>10, <1>14, <2>1, SessionsKept DEF TypeOK
  <1>19. TypeOK'
    BY <1>1, <1>10 DEF TypeOK, clientVars, hubVars
  <1> QED
    BY <1>11, <1>15, <1>16, <1>17, <1>18, <1>19 DEF IInv

started(t, kind) == [NoFrame EXCEPT !.job = kind, !.task = t,
                                    !.labels = IF kind = "wait" THEN {t} ELSE {}]

LEMMA Started ==
  ASSUME NEW t \in Tasks, NEW kind \in Kinds
  PROVE  LET f == started(t, kind) IN
         /\ f \in Frame /\ FrameOK(f) /\ f.todo = <<>> /\ f.job = kind /\ f.task = t
         /\ f.call = "none"
  <1> DEFINE S == IF kind = "wait" THEN {t} ELSE {}
             f == started(t, kind)
  <1>1. S \in SUBSET Tasks
    OBVIOUS
  <1>2. f = [NoFrame EXCEPT !.job = kind, !.task = t, !.labels = S]
    BY DEF started
  <1> HIDE DEF S
  <1>3. f = [job |-> kind, todo |-> <<>>, task |-> t, labels |-> S, call |-> "none",
             answer |-> "none"]
    BY <1>2 DEF NoFrame
  <1> HIDE DEF f
  <1>4. f \in Frame
    BY <1>1, <1>3 DEF Frame
  <1>5. FrameOK(f)
    BY <1>3 DEF FrameOK, Kinds
  <1> QED
    BY <1>3, <1>4, <1>5 DEF f

RunsTask(t, kind) ==
    /\ Head(top.todo) = [type |-> "run", task |-> t, kind |-> kind]
    /\ stack' = Append(Rest, started(t, kind))
    /\ waiting' = IF kind = "wait" THEN waiting \cup {t} ELSE waiting
    /\ sessions' = sessions \cup {t[1]}
    /\ revived' = revived \cup ({t[1]} \cap destroyed)

\* A task starts: it runs, or waits for nodes, and its session is known.
LEMMA MainHandlesRun ==
  ASSUME IInv, stack # <<>>, top.call = "none", top.job = "batch", top.todo # <<>>,
         NEW t \in Tasks, NEW kind \in Kinds, RunsTask(t, kind),
         UNCHANGED <<clientVars, link, toClient, hubVars, mainToHub, hubToMain, username,
                     printed, events, failed, destroyed>>
  PROVE  IInv'
  <1> DEFINE m == Head(top.todo)
             f == started(t, kind)
  <1>1. /\ TypeOK /\ FramesSound /\ CallsTraced /\ TasksTraced /\ ClientsServed /\ SessionsTracked
        /\ t[1] \in Sessions
    BY DEF IInv, Tasks
  <1>2. /\ Rest \in Seq(Frame) /\ Len(Rest) = Len(stack) /\ DOMAIN Rest = DOMAIN stack
        /\ \A e \in DOMAIN stack : FrameOK(Rest[e])
        /\ \A e : awaits(Rest, e) <=> awaits(stack, e)
        /\ \A u : count(Rest, PrintsOf(u)) = count(stack, PrintsOf(u))
        /\ \A T : IsFiniteSet(nested(todos(stack), T)) =>
               /\ IsFiniteSet(nested(todos(Rest), T))
               /\ Cardinality(nested(todos(Rest), T)) \in Nat
               /\ Cardinality(nested(todos(Rest), T)) + one(m, T)
                      = Cardinality(nested(todos(stack), T))
        /\ \A s : destroys(hubToMain, todos(stack), s) =>
               \/ m = [type |-> "destroy", session |-> s]
               \/ destroys(hubToMain, todos(Rest), s)
    BY <1>1, HeadTaken
  <1>3. /\ m = [type |-> "run", task |-> t, kind |-> kind]
        /\ stack' = Append(Rest, f)
        /\ waiting' = IF kind = "wait" THEN waiting \cup {t} ELSE waiting
        /\ sessions' = sessions \cup {t[1]}
        /\ revived' = revived \cup ({t[1]} \cap destroyed)
    BY DEF RunsTask
  <1>4. /\ f \in Frame /\ FrameOK(f) /\ f.todo = <<>> /\ f.job = kind /\ f.task = t
        /\ f.call = "none"
    BY Started
  <1> HIDE DEF m, f
  <1>5. /\ \A d : one(m, ResultsAt(d)) = 0
        /\ \A u : one(m, RunsOf(u)) = IF u = t THEN 1 ELSE 0
        /\ \A s : m # [type |-> "destroy", session |-> s]
    <2>1. \A d : one(m, ResultsAt(d)) = 0
      BY <1>3, MainMessages
    <2>2. \A u : one(m, RunsOf(u)) = IF u = t THEN 1 ELSE 0
      BY <1>3, MainMessages
    <2>3. m.type = "run"
      BY <1>3
    <2> QED
      BY <2>1, <2>2, <2>3
  <1>6. /\ stack' \in Seq(Frame) /\ DOMAIN stack' = 1..Len(stack) + 1 /\ stack'[Len(stack) + 1] = f
        /\ \A e \in DOMAIN stack : stack'[e] = Rest[e]
        /\ DOMAIN stack = 1..Len(stack)
        /\ \A T : count(stack', T) = count(Rest, T) + one(f, T)
    <2>1. DOMAIN stack = 1..Len(stack)
      BY <1>1 DEF TypeOK
    <2> QED
      BY <1>2, <1>3, <1>4, <2>1, CountAppend
  <1>7. todos(stack') = todos(Rest)
    <2>1. /\ todos(stack') = [todos(Rest) EXCEPT ![Len(Rest) + 1] = f.todo]
          /\ todos(Rest)[Len(Rest) + 1] = <<>>
      BY <1>2, <1>3, <1>4, TodosPush
    <2>2. todos(Rest) \in [Nat -> Seq(ToMain)]
      BY <1>2, TodosType
    <2> QED
      BY <1>4, <2>1, <2>2
  <1>8. FramesSound'
    BY <1>2, <1>4, <1>6 DEF FramesSound
  <1>9. \A d : awaits(stack', d) <=> awaits(stack, d)
    <2>1. \A d : awaits(stack', d) <=> awaits(Rest, d)
      BY <1>2, <1>4, <1>6 DEF awaits
    <2> QED
      BY <1>2, <2>1
  <1>10. /\ callStack' = callStack /\ hubBatch' = hubBatch /\ submitted' = submitted
         /\ session' = session /\ sent' = sent
         /\ mainToHub' = mainToHub /\ hubToMain' = hubToMain
    BY DEF hubVars
  <1>11. CallsTraced'
    <2> SUFFICES ASSUME NEW e \in Depths
                 PROVE  /\ IsFiniteSet(nested(callStack, StackedAt(e)))'
                        /\ IsFiniteSet(nested(todos(stack), ResultsAt(e)))'
                        /\ traces(e)' = IF awaits(stack', e) THEN 1 ELSE 0
      BY DEF CallsTraced
    <2>1. /\ IsFiniteSet(nested(callStack, StackedAt(e)))
          /\ IsFiniteSet(nested(todos(stack), ResultsAt(e)))
          /\ traces(e) = IF awaits(stack, e) THEN 1 ELSE 0
      BY <1>1 DEF CallsTraced
    <2>2. /\ IsFiniteSet(nested(todos(stack'), ResultsAt(e)))
          /\ Cardinality(nested(todos(stack'), ResultsAt(e)))
             = Cardinality(nested(todos(stack), ResultsAt(e)))
      BY <1>2, <1>5, <1>7, <2>1
    <2> QED
      BY <1>9, <1>10, <2>1, <2>2 DEF traces
  <1>12. t \in submitted /\ t \notin waiting /\ \A u \in Tasks \ {t} : one(u, waiting') = one(u, waiting)
    <2>1. /\ IsFiniteSet(nested(todos(stack), RunsOf(t)))
          /\ progress(t) = one(t, submitted)
      BY <1>1 DEF TasksTraced
    <2>2. Cardinality(nested(todos(stack), RunsOf(t))) >= 1
      BY <1>2, <1>5, <2>1
    <2>3. /\ count(hubToMain, RunsOf(t)) \in Nat
          /\ Cardinality(nested(todos(stack), RunsOf(t))) \in Nat
          /\ count(stack, PrintsOf(t)) \in Nat
          /\ count(mainToHub, ResultsOf(t)) \in Nat /\ count(hubBatch, ResultsOf(t)) \in Nat
      BY <1>1, Counts
    <2>4. progress(t) >= 1 + one(t, waiting)
      BY <2>2, <2>3 DEF progress, one
    <2>5. t \in submitted /\ t \notin waiting
      BY <2>1, <2>4 DEF one
    <2>6. \A u \in Tasks \ {t} : one(u, waiting') = one(u, waiting)
      BY <1>3 DEF one
    <2> QED
      BY <2>5, <2>6
  <1>13. TasksTraced'
    <2>1. IsFiniteSet(waiting')
      BY <1>1, <1>3, FS_AddElement DEF TasksTraced
    <2> SUFFICES ASSUME NEW u \in Tasks
                 PROVE  /\ IsFiniteSet(nested(todos(stack), RunsOf(u)))'
                        /\ progress(u)' = one(u, submitted)'
      BY <2>1 DEF TasksTraced
    <2>2. /\ IsFiniteSet(nested(todos(stack), RunsOf(u)))
          /\ progress(u) = one(u, submitted)
      BY <1>1 DEF TasksTraced
    <2>3. /\ count(hubToMain, RunsOf(u)) \in Nat
          /\ Cardinality(nested(todos(stack), RunsOf(u))) \in Nat
          /\ count(stack, PrintsOf(u)) \in Nat
          /\ count(mainToHub, ResultsOf(u)) \in Nat /\ count(hubBatch, ResultsOf(u)) \in Nat
      BY <1>1, Counts
    <2>4. /\ IsFiniteSet(nested(todos(stack'), RunsOf(u)))
          /\ Cardinality(nested(todos(stack'), RunsOf(u))) \in Nat
          /\ Cardinality(nested(todos(stack'), RunsOf(u))) + (IF u = t THEN 1 ELSE 0)
             = Cardinality(nested(todos(stack), RunsOf(u)))
      BY <1>2, <1>5, <1>7, <2>2
    <2>5. count(stack', PrintsOf(u)) + one(u, waiting')
          = count(stack, PrintsOf(u)) + one(u, waiting) + (IF u = t THEN 1 ELSE 0)
      <3>1. count(stack', PrintsOf(u)) = count(stack, PrintsOf(u)) + one(f, PrintsOf(u))
        BY <1>2, <1>6
      <3>2. one(f, PrintsOf(u)) = IF kind = "print" /\ t = u THEN 1 ELSE 0
        BY <1>4, PrintsOfFrames
      <3>3. u = t => one(u, waiting) = 0 /\ one(u, waiting') = IF kind = "wait" THEN 1 ELSE 0
        BY <1>3, <1>12 DEF one
      <3>4. u # t => one(u, waiting') = one(u, waiting)
        BY <1>12
      <3>5. one(u, waiting) \in Nat /\ (kind = "wait" <=> kind # "print")
        BY DEF one, Kinds
      <3> QED
        BY <2>3, <3>1, <3>2, <3>3, <3>4, <3>5
    <2>6. /\ progress(u) = count(hubToMain, RunsOf(u)) + Cardinality(nested(todos(stack), RunsOf(u)))
                           + count(stack, PrintsOf(u)) + one(u, waiting)
                           + count(mainToHub, ResultsOf(u)) + count(hubBatch, ResultsOf(u))
          /\ one(u, waiting) \in Nat
      BY DEF progress, one
    <2>7. /\ progress(u)' = count(hubToMain, RunsOf(u)) + Cardinality(nested(todos(stack'), RunsOf(u)))
                            + count(stack', PrintsOf(u)) + one(u, waiting')
                            + count(mainToHub, ResultsOf(u)) + count(hubBatch, ResultsOf(u))
          /\ one(u, waiting') \in Nat
      BY <1>10 DEF progress, one
    <2>8. count(stack', PrintsOf(u)) \in Nat
      BY <1>6, FiniteHits
    <2>9. progress(u)' = progress(u)
      <3> DEFINE a == Cardinality(nested(todos(stack), RunsOf(u)))
                 b == Cardinality(nested(todos(stack'), RunsOf(u)))
                 c == count(stack, PrintsOf(u))
                 d == count(stack', PrintsOf(u))
                 x == one(u, waiting)
                 y == one(u, waiting')
                 k == IF u = t THEN 1 ELSE 0
                 p == count(hubToMain, RunsOf(u))
                 q == count(mainToHub, ResultsOf(u))
                 r == count(hubBatch, ResultsOf(u))
      <3>1. /\ a \in Nat /\ b \in Nat /\ c \in Nat /\ d \in Nat /\ x \in Nat /\ y \in Nat
            /\ k \in Nat /\ p \in Nat /\ q \in Nat /\ r \in Nat
        BY <2>3, <2>4, <2>6, <2>7, <2>8
      <3>2. b + k = a /\ d + y = c + x + k
        BY <2>4, <2>5
      <3>3. /\ progress(u) = p + a + c + x + q + r
            /\ progress(u)' = p + b + d + y + q + r
        BY <2>6, <2>7
      <3> HIDE DEF a, b, c, d, x, y, k, p, q, r
      <3>4. p + b + d + y + q + r = p + a + c + x + q + r
        BY <3>1, <3>2
      <3> QED
        BY <3>3, <3>4
    <2> QED
      BY <1>10, <2>2, <2>4, <2>9
  <1>14. ClientsServed'
    BY <1>1, <1>10, ClientsSame
  <1>15. SessionsTracked'
    <2>1. \A s : destroys(hubToMain, todos(stack), s) => destroys(hubToMain', todos(stack'), s)
      BY <1>2, <1>5, <1>7, <1>10
    <2>2. \A s : to_destroy(s) => to_destroy(s)'
      <3>1. stack \in Seq(Frame)
        BY <1>1 DEF TypeOK
      <3> QED
        BY <1>6, <2>1, <3>1, ToDestroy
    <2>3. t[1] \in sent
      BY <1>1, <1>12 DEF SessionsTracked
    <2> QED
      BY <1>1, <1>3, <1>10, <2>2, <2>3 DEF SessionsTracked
  <1>16. TypeOK'
    <2>1. waiting' \in SUBSET Tasks /\ sessions' \in SUBSET Sessions /\ revived' \in SUBSET Sessions
      BY <1>1, <1>3 DEF TypeOK
    <2> QED
      BY <1>1, <1>6, <2>1 DEF TypeOK, clientVars, hubVars
  <1> QED
    BY <1>8, <1>11, <1>13, <1>14, <1>15, <1>16 DEF IInv

Destroys(s) ==
    /\ Head(top.todo) = [type |-> "destroy", session |-> s]
    /\ stack' = Rest
    /\ sessions' = sessions \ {s}
    /\ destroyed' = destroyed \cup {s}

\* The session of a client that left is destroyed.
LEMMA MainHandlesDestroy ==
  ASSUME IInv, stack # <<>>, top.call = "none", top.job = "batch", top.todo # <<>>,
         NEW s \in Sessions, Destroys(s),
         UNCHANGED <<clientVars, link, toClient, hubVars, mainToHub, hubToMain, username,
                     printed, events, failed, waiting, revived>>
  PROVE  IInv'
  <1> DEFINE m == Head(top.todo)
  <1>1. TypeOK /\ FramesSound /\ CallsTraced /\ TasksTraced /\ ClientsServed /\ SessionsTracked
    BY DEF IInv
  <1>2. /\ Rest \in Seq(Frame) /\ Len(Rest) = Len(stack) /\ DOMAIN Rest = DOMAIN stack
        /\ \A e \in DOMAIN stack : FrameOK(Rest[e])
        /\ \A e : awaits(Rest, e) <=> awaits(stack, e)
        /\ \A u : count(Rest, PrintsOf(u)) = count(stack, PrintsOf(u))
        /\ \A T : IsFiniteSet(nested(todos(stack), T)) =>
               /\ IsFiniteSet(nested(todos(Rest), T))
               /\ Cardinality(nested(todos(Rest), T)) \in Nat
               /\ Cardinality(nested(todos(Rest), T)) + one(m, T)
                      = Cardinality(nested(todos(stack), T))
        /\ \A u : destroys(hubToMain, todos(stack), u) =>
               \/ m = [type |-> "destroy", session |-> u]
               \/ destroys(hubToMain, todos(Rest), u)
    BY <1>1, HeadTaken
  <1>3. /\ m = [type |-> "destroy", session |-> s]
        /\ stack' = Rest
        /\ sessions' = sessions \ {s}
        /\ destroyed' = destroyed \cup {s}
    BY DEF Destroys
  <1> HIDE DEF m
  <1>4. /\ \A d : one(m, ResultsAt(d)) = 0
        /\ \A u : one(m, RunsOf(u)) = 0
        /\ \A u : m = [type |-> "destroy", session |-> u] => u = s
    <2>1. \A d : one(m, ResultsAt(d)) = 0
      BY <1>3, MainMessages
    <2>2. \A u : one(m, RunsOf(u)) = 0
      BY <1>3, MainMessages
    <2>3. m.session = s
      BY <1>3
    <2> QED
      BY <2>1, <2>2, <2>3
  <1>5. /\ callStack' = callStack /\ hubBatch' = hubBatch /\ submitted' = submitted
        /\ session' = session /\ sent' = sent /\ waiting' = waiting
        /\ mainToHub' = mainToHub /\ hubToMain' = hubToMain
    BY DEF hubVars
  <1>6. FramesSound'
    BY <1>2, <1>3 DEF FramesSound
  <1>7. \A T : IsFiniteSet(nested(todos(stack), T)) /\ one(m, T) = 0 =>
            /\ IsFiniteSet(nested(todos(stack'), T))
            /\ Cardinality(nested(todos(stack'), T)) = Cardinality(nested(todos(stack), T))
    BY <1>2, <1>3
  <1>8. CallsTraced'
    <2> SUFFICES ASSUME NEW e \in Depths
                 PROVE  /\ IsFiniteSet(nested(callStack, StackedAt(e)))'
                        /\ IsFiniteSet(nested(todos(stack), ResultsAt(e)))'
                        /\ traces(e)' = IF awaits(stack', e) THEN 1 ELSE 0
      BY DEF CallsTraced
    <2>1. /\ IsFiniteSet(nested(callStack, StackedAt(e)))
          /\ IsFiniteSet(nested(todos(stack), ResultsAt(e)))
          /\ traces(e) = IF awaits(stack, e) THEN 1 ELSE 0
      BY <1>1 DEF CallsTraced
    <2>2. /\ IsFiniteSet(nested(todos(stack'), ResultsAt(e)))
          /\ Cardinality(nested(todos(stack'), ResultsAt(e)))
             = Cardinality(nested(todos(stack), ResultsAt(e)))
      BY <1>4, <1>7, <2>1
    <2>3. awaits(stack', e) <=> awaits(stack, e)
      BY <1>2, <1>3
    <2> QED
      BY <1>5, <2>1, <2>2, <2>3 DEF traces
  <1>9. TasksTraced'
    <2> SUFFICES ASSUME NEW t \in Tasks
                 PROVE  /\ IsFiniteSet(nested(todos(stack), RunsOf(t)))'
                        /\ progress(t)' = one(t, submitted)'
      BY <1>1, <1>5 DEF TasksTraced
    <2>1. /\ IsFiniteSet(nested(todos(stack), RunsOf(t)))
          /\ progress(t) = one(t, submitted)
      BY <1>1 DEF TasksTraced
    <2>2. /\ IsFiniteSet(nested(todos(stack'), RunsOf(t)))
          /\ Cardinality(nested(todos(stack'), RunsOf(t)))
             = Cardinality(nested(todos(stack), RunsOf(t)))
      BY <1>4, <1>7, <2>1
    <2>3. count(stack', PrintsOf(t)) = count(stack, PrintsOf(t))
      BY <1>2, <1>3
    <2> QED
      BY <1>5, <2>1, <2>2, <2>3 DEF progress
  <1>10. ClientsServed'
    BY <1>1, <1>5, ClientsSame
  <1>11. SessionsTracked'
    <2>1. \A u : u # s /\ destroys(hubToMain, todos(stack), u) => destroys(hubToMain', todos(stack'), u)
      BY <1>2, <1>3, <1>4, <1>5
    <2>2. \A u : u # s /\ to_destroy(u) => to_destroy(u)'
      <3>1. stack \in Seq(Frame) /\ stack' \in Seq(Frame)
        BY <1>1, <1>2, <1>3 DEF TypeOK
      <3> QED
        BY <2>1, <3>1, ToDestroy
    <2> QED
      BY <1>1, <1>3, <1>5, <2>2 DEF SessionsTracked
  <1>12. TypeOK'
    <2>1. sessions' \in SUBSET Sessions /\ destroyed' \in SUBSET Sessions /\ stack' \in Seq(Frame)
      BY <1>1, <1>2, <1>3 DEF TypeOK
    <2> QED
      BY <1>1, <2>1 DEF TypeOK, clientVars, hubVars
  <1> QED
    BY <1>6, <1>8, <1>9, <1>10, <1>11, <1>12 DEF IInv

LEMMA MainHandlesMessageKeeps ==
  ASSUME IInv, MainHandlesMessage
  PROVE  IInv'
  <1> DEFINE m == Head(top.todo)
             rest == with_top([top EXCEPT !.todo = Tail(@)])
             same == UNCHANGED <<clientVars, link, toClient, hubVars, mainToHub, hubToMain,
                                 username, printed, events, failed>>
  <1>1. /\ stack # <<>> /\ top.call = "none" /\ top.job = "batch"
        /\ \/ /\ top.todo = <<>>
              /\ stack' = pop
              /\ UNCHANGED <<sessions, waiting, revived, destroyed>>
           \/ /\ top.todo # <<>> /\ m.type = "result"
              /\ stack' = [rest EXCEPT ![m.depth].answer = m.value]
              /\ UNCHANGED <<sessions, waiting, revived, destroyed>>
           \/ /\ top.todo # <<>> /\ m.type = "run"
              /\ stack' = Append(rest, [NoFrame EXCEPT !.job = m.kind, !.task = m.task,
                          !.labels = IF m.kind = "wait" THEN {m.task} ELSE {}])
              /\ waiting' = IF m.kind = "wait" THEN waiting \cup {m.task} ELSE waiting
              /\ sessions' = sessions \cup {m.task[1]}
              /\ revived' = revived \cup ({m.task[1]} \cap destroyed)
              /\ UNCHANGED destroyed
           \/ /\ top.todo # <<>> /\ m.type = "destroy"
              /\ stack' = rest
              /\ sessions' = sessions \ {m.session}
              /\ destroyed' = destroyed \cup {m.session}
              /\ UNCHANGED <<waiting, revived>>
        /\ same
    BY DEF MainHandlesMessage, Running
  <1>2. rest = Rest
    BY DEF Rest
  <1>3. TypeOK /\ FramesSound
    BY DEF IInv
  <1>4. top.todo # <<>> => m \in ToMain
    BY <1>1, <1>3, HeadTaken
  <1> HIDE DEF m, rest
  <1>5. CASE /\ top.todo = <<>> /\ stack' = pop
             /\ UNCHANGED <<sessions, waiting, revived, destroyed>>
    <2>1. mainToHub' = mainToHub /\ top.job # "print"
      BY <1>1
    <2>2. /\ stack' \in Seq(Frame) /\ mainToHub' \in Seq(ToHub) /\ todos(stack') = todos(stack)
          /\ FramesSound' /\ CallsTraced' /\ TasksTraced'
      BY <1>1, <1>5, <2>1, TopEnds
    <2>3. ClientsServed' /\ SessionsTracked'
      BY <1>1, <1>5, <2>2, MainSame
    <2>4. TypeOK'
      BY <1>1, <1>3, <1>5, <2>2 DEF TypeOK, clientVars, hubVars
    <2> QED
      BY <2>2, <2>3, <2>4 DEF IInv
  <1>6. CASE /\ top.todo # <<>> /\ m.type = "result"
             /\ stack' = [rest EXCEPT ![m.depth].answer = m.value]
             /\ UNCHANGED <<sessions, waiting, revived, destroyed>>
    <2>1. AnswersCall
      BY <1>2, <1>6 DEF AnswersCall, m
    <2> QED
      BY <1>1, <1>6, <2>1, MainHandlesResult
  <1>7. CASE /\ top.todo # <<>> /\ m.type = "run"
             /\ stack' = Append(rest, [NoFrame EXCEPT !.job = m.kind, !.task = m.task,
                         !.labels = IF m.kind = "wait" THEN {m.task} ELSE {}])
             /\ waiting' = IF m.kind = "wait" THEN waiting \cup {m.task} ELSE waiting
             /\ sessions' = sessions \cup {m.task[1]}
             /\ revived' = revived \cup ({m.task[1]} \cap destroyed)
             /\ UNCHANGED destroyed
    <2>1. /\ m.task \in Tasks /\ m.kind \in Kinds
          /\ m = [type |-> "run", task |-> m.task, kind |-> m.kind]
      BY <1>4, <1>7 DEF ToMain
    <2>2. Head(top.todo) = [type |-> "run", task |-> m.task, kind |-> m.kind]
      BY <2>1 DEF m
    <2>3. stack' = Append(Rest, started(m.task, m.kind))
      BY <1>2, <1>7 DEF started
    <2>4. RunsTask(m.task, m.kind)
      BY <1>7, <2>2, <2>3 DEF RunsTask
    <2> QED
      BY <1>1, <1>7, <2>1, <2>4, MainHandlesRun
  <1>8. CASE /\ top.todo # <<>> /\ m.type = "destroy"
             /\ stack' = rest
             /\ sessions' = sessions \ {m.session}
             /\ destroyed' = destroyed \cup {m.session}
             /\ UNCHANGED <<waiting, revived>>
    <2>1. m.session \in Sessions /\ m = [type |-> "destroy", session |-> m.session]
      BY <1>4, <1>8 DEF ToMain
    <2>2. Head(top.todo) = [type |-> "destroy", session |-> m.session]
      BY <2>1 DEF m
    <2>3. Destroys(m.session)
      BY <1>2, <1>8, <2>2 DEF Destroys
    <2> QED
      BY <1>1, <1>8, <2>1, <2>3, MainHandlesDestroy
  <1> QED
    BY <1>1, <1>5, <1>6, <1>7, <1>8

-----------------------------------------------------------------------------
\* The steps of the hub

restacks(s, q) == callStack' = [callStack EXCEPT ![s] = q]

LEMMA HubCallsKept ==
  ASSUME IInv, UNCHANGED <<mainToHub, stack>>, NEW s \in Sessions, NEW q \in Seq(ClientTask),
         restacks(s, q),
         hubBatch' \in Seq(ToHub), hubToMain' \in Seq(ToMain),
         \A d \in Depths : count(hubBatch', CallsAt(d)) + count(q, StackedAt(d))
                               + count(hubToMain', ResultsAt(d))
                           = count(hubBatch, CallsAt(d)) + count(callStack[s], StackedAt(d))
                               + count(hubToMain, ResultsAt(d))
  PROVE  CallsTraced' /\ callStack' \in [Sessions -> Seq(ClientTask)]
  <1>1. /\ TypeOK /\ CallsTraced /\ TasksTraced /\ callStack \in [Sessions -> Seq(ClientTask)]
        /\ callStack[s] \in Seq(ClientTask)
    BY DEF IInv, TypeOK
  <1>2. callStack \in sequences(Sessions, ClientTask)
    BY <1>1 DEF sequences
  <1>4. ASSUME NEW S, IsFiniteSet(nested(callStack, S))
        PROVE  /\ IsFiniteSet(nested(callStack', S)) /\ Cardinality(nested(callStack', S)) \in Nat
               /\ Cardinality(nested(callStack', S)) + count(callStack[s], S)
                  = Cardinality(nested(callStack, S)) + count(q, S)
    <2>1. /\ IsFiniteSet(nested([callStack EXCEPT ![s] = q], S))
          /\ Cardinality(nested(callStack, S)) \in Nat
          /\ Cardinality(nested([callStack EXCEPT ![s] = q], S)) \in Nat
          /\ Cardinality(nested([callStack EXCEPT ![s] = q], S)) + count(callStack[s], S)
                 = Cardinality(nested(callStack, S)) + count(q, S)
      BY <1>2, <1>4, NestedChange
    <2> QED
      BY <2>1 DEF restacks
  <1>3. CallsTraced'
    <2> SUFFICES ASSUME NEW d \in Depths
                 PROVE  /\ IsFiniteSet(nested(callStack, StackedAt(d)))'
                        /\ IsFiniteSet(nested(todos(stack), ResultsAt(d)))'
                        /\ traces(d)' = IF awaits(stack', d) THEN 1 ELSE 0
      BY DEF CallsTraced
    <2> DEFINE a == count(mainToHub, CallsAt(d))
               b == count(hubBatch, CallsAt(d))
               bp == count(hubBatch', CallsAt(d))
               c == Cardinality(nested(callStack, StackedAt(d)))
               cp == Cardinality(nested(callStack', StackedAt(d)))
               e == count(hubToMain, ResultsAt(d))
               ep == count(hubToMain', ResultsAt(d))
               f == Cardinality(nested(todos(stack), ResultsAt(d)))
               g == count(callStack[s], StackedAt(d))
               gp == count(q, StackedAt(d))
    <2>1. /\ IsFiniteSet(nested(callStack, StackedAt(d)))
          /\ IsFiniteSet(nested(todos(stack), ResultsAt(d)))
          /\ traces(d) = IF awaits(stack, d) THEN 1 ELSE 0
      BY <1>1 DEF CallsTraced
    <2>2. IsFiniteSet(nested(callStack', StackedAt(d))) /\ cp \in Nat /\ cp + g = c + gp
      BY <1>4, <2>1
    <2>3. a \in Nat /\ b \in Nat /\ c \in Nat /\ e \in Nat /\ f \in Nat
      BY <1>1, Counts
    <2>4. g \in Nat /\ gp \in Nat /\ bp \in Nat /\ ep \in Nat
      BY <1>1, FiniteHits
    <2>5. bp + gp + ep = b + g + e
      OBVIOUS
    <2>6. traces(d) = a + b + c + e + f /\ traces(d)' = a + bp + cp + ep + f
      BY DEF traces
    <2> HIDE DEF a, b, bp, c, cp, e, ep, f, g, gp
    <2>7. a + bp + cp + ep + f = a + b + c + e + f
      BY <2>2, <2>3, <2>4, <2>5
    <2> QED
      BY <2>1, <2>2, <2>6, <2>7
  <1> QED
    BY <1>1, <1>3 DEF restacks

LEMMA HubTasksKept ==
  ASSUME IInv, UNCHANGED <<mainToHub, stack, waiting>>,
         hubBatch' \in Seq(ToHub), hubToMain' \in Seq(ToMain),
         \A t \in Tasks : count(hubToMain', RunsOf(t)) + count(hubBatch', ResultsOf(t))
                              + one(t, submitted)
                          = count(hubToMain, RunsOf(t)) + count(hubBatch, ResultsOf(t))
                              + one(t, submitted')
  PROVE  TasksTraced'
  <1>1. TypeOK /\ CallsTraced /\ TasksTraced
    BY DEF IInv
  <1> SUFFICES ASSUME NEW t \in Tasks
               PROVE  /\ IsFiniteSet(nested(todos(stack), RunsOf(t)))'
                      /\ progress(t)' = one(t, submitted)'
    BY <1>1 DEF TasksTraced
  <1> DEFINE a == count(hubToMain, RunsOf(t))
             ap == count(hubToMain', RunsOf(t))
             b == Cardinality(nested(todos(stack), RunsOf(t)))
             c == count(stack, PrintsOf(t))
             d == one(t, waiting)
             e == count(mainToHub, ResultsOf(t))
             f == count(hubBatch, ResultsOf(t))
             fp == count(hubBatch', ResultsOf(t))
             g == one(t, submitted)
             gp == one(t, submitted')
  <1>2. /\ IsFiniteSet(nested(todos(stack), RunsOf(t)))
        /\ progress(t) = g
    BY <1>1 DEF TasksTraced
  <1>3. a \in Nat /\ b \in Nat /\ c \in Nat /\ e \in Nat /\ f \in Nat
    BY <1>1, Counts
  <1>4. ap \in Nat /\ fp \in Nat /\ d \in Nat /\ g \in Nat /\ gp \in Nat
    BY FiniteHits DEF one
  <1>5. ap + fp + g = a + f + gp
    OBVIOUS
  <1>6. progress(t) = a + b + c + d + e + f /\ progress(t)' = ap + b + c + d + e + fp
    BY DEF progress
  <1> HIDE DEF a, ap, b, c, d, e, f, fp, g, gp
  <1>7. ap + b + c + d + e + fp = gp
    BY <1>2, <1>3, <1>4, <1>5, <1>6
  <1> QED
    BY <1>2, <1>6, <1>7 DEF gp

LEMMA StackSame ==
  ASSUME FramesSound, stack' = stack
  PROVE  FramesSound' /\ todos(stack') = todos(stack)
  BY DEF FramesSound

\* The messages on their way to server-main stay in the pipe.
LEMMA HubDestroys ==
  ASSUME stack' = stack,
         \A i \in DOMAIN hubToMain : \E j \in DOMAIN hubToMain' : hubToMain'[j] = hubToMain[i]
  PROVE  \A s : to_destroy(s) => to_destroy(s)'
  BY DEF to_destroy

LEMMA AppendKeeps ==
  ASSUME hubToMain \in Seq(ToMain), NEW m \in ToMain, hubToMain' = Append(hubToMain, m)
  PROVE  /\ hubToMain' \in Seq(ToMain)
         /\ \A i \in DOMAIN hubToMain : \E j \in DOMAIN hubToMain' : hubToMain'[j] = hubToMain[i]
         /\ \A S : count(hubToMain', S) = count(hubToMain, S) + one(m, S)
         /\ \A S : count(hubToMain, S) \in Nat
  <1>1. \A i \in DOMAIN hubToMain : i \in DOMAIN hubToMain' /\ hubToMain'[i] = hubToMain[i]
    OBVIOUS
  <1>2. \A S : count(hubToMain', S) = count(hubToMain, S) + one(m, S)
    BY CountAppend
  <1>3. \A S : count(hubToMain, S) \in Nat
    BY FiniteHits
  <1> QED
    BY <1>1, <1>2, <1>3

LEMMA HubReadsPipeKeeps ==
  ASSUME IInv, HubReadsPipe
  PROVE  IInv'
  <1> DEFINE q == sorted(mainToHub)
  <1>1. /\ hubBatch = <<>> /\ hubBatch' = q /\ mainToHub' = <<>>
        /\ UNCHANGED <<clientVars, link, toClient, session, sent, callStack, submitted, ignored,
                       hubToMain, mainVars, failed>>
    BY DEF HubReadsPipe
  <1>2. /\ TypeOK /\ FramesSound /\ CallsTraced /\ TasksTraced /\ ClientsServed /\ SessionsTracked
        /\ mainToHub \in Seq(ToHub)
    BY DEF IInv, TypeOK
  <1>3. q \in Seq(ToHub) /\ \A S : count(q, S) = count(mainToHub, S)
    BY <1>2, SortedMessages
  <1> HIDE DEF q
  <1>4. UNCHANGED <<stack, sessions, waiting, revived, destroyed>>
    BY <1>1 DEF mainVars
  <1>5. FramesSound' /\ todos(stack') = todos(stack)
    BY <1>2, <1>4, StackSame
  <1>6. \A S : count(mainToHub', S) + count(hubBatch', S) = count(mainToHub, S) + count(hubBatch, S)
    <2>1. \A S : count(<<>>, S) = 0 /\ count(mainToHub, S) \in Nat
      BY <1>2, CountEmpty, FiniteHits
    <2>2. \A S : /\ count(mainToHub', S) = 0 /\ count(hubBatch, S) = 0
                 /\ count(hubBatch', S) = count(mainToHub, S)
      BY <1>1, <1>3, <2>1
    <2> QED
      BY <2>1, <2>2
  <1>7. CallsTraced'
    <2>1. \A d \in Depths :
              /\ traces(d)' = count(mainToHub', CallsAt(d)) + count(hubBatch', CallsAt(d))
                              + Cardinality(nested(callStack, StackedAt(d)))
                              + count(hubToMain, ResultsAt(d))
                              + Cardinality(nested(todos(stack), ResultsAt(d)))
              /\ traces(d) = count(mainToHub, CallsAt(d)) + count(hubBatch, CallsAt(d))
                             + Cardinality(nested(callStack, StackedAt(d)))
                             + count(hubToMain, ResultsAt(d))
                             + Cardinality(nested(todos(stack), ResultsAt(d)))
      BY <1>1, <1>5 DEF traces
    <2>2. \A d \in Depths : traces(d)' = traces(d)
      BY <1>6, <2>1
    <2> QED
      BY <1>1, <1>2, <1>4, <2>2 DEF CallsTraced
  <1>8. TasksTraced'
    <2> SUFFICES ASSUME NEW t \in Tasks
                 PROVE  /\ IsFiniteSet(nested(todos(stack), RunsOf(t)))'
                        /\ progress(t)' = one(t, submitted)'
      BY <1>2, <1>4 DEF TasksTraced
    <2> DEFINE r == count(hubToMain, RunsOf(t)) + Cardinality(nested(todos(stack), RunsOf(t)))
                    + count(stack, PrintsOf(t)) + one(t, waiting)
               a == count(mainToHub, ResultsOf(t))
               b == count(hubBatch, ResultsOf(t))
               ap == count(mainToHub', ResultsOf(t))
               bp == count(hubBatch', ResultsOf(t))
    <2>1. progress(t) = r + a + b /\ progress(t)' = r + ap + bp
      BY <1>1, <1>4 DEF progress
    <2>2. a \in Nat /\ b = 0 /\ ap = 0 /\ bp = a
      BY <1>1, <1>2, <1>3, CountEmpty, FiniteHits
    <2>3. r \in Nat
      <3>1. /\ count(hubToMain, RunsOf(t)) \in Nat
            /\ Cardinality(nested(todos(stack), RunsOf(t))) \in Nat
            /\ count(stack, PrintsOf(t)) \in Nat
        BY <1>2, Counts
      <3> QED
        BY <3>1 DEF one
    <2> HIDE DEF r, a, b, ap, bp
    <2>4. progress(t)' = progress(t)
      BY <2>1, <2>2, <2>3
    <2> QED
      BY <1>1, <1>2, <1>4, <2>4 DEF TasksTraced
  <1>9. ClientsServed'
    BY <1>1, <1>2, ClientsSame
  <1>10. SessionsTracked'
    <2>1. stack \in Seq(Frame) /\ stack' \in Seq(Frame)
      BY <1>2, <1>4 DEF TypeOK
    <2> QED
      BY <1>1, <1>2, <1>4, <1>5, <2>1, SessionsSame
  <1>11. TypeOK'
    BY <1>1, <1>2, <1>3 DEF TypeOK, clientVars, mainVars
  <1> QED
    BY <1>5, <1>7, <1>8, <1>9, <1>10, <1>11 DEF IInv

LEMMA BatchTail ==
  ASSUME hubBatch \in Seq(ToHub), hubBatch # <<>>, hubBatch' = Tail(hubBatch)
  PROVE  /\ hubBatch' \in Seq(ToHub) /\ Head(hubBatch) \in ToHub
         /\ \A S : count(hubBatch, S) = count(hubBatch', S) + one(Head(hubBatch), S)
         /\ \A S : count(hubBatch, S) \in Nat /\ count(hubBatch', S) \in Nat
  <1>1. Tail(hubBatch) \in Seq(ToHub) /\ Head(hubBatch) \in ToHub
    OBVIOUS
  <1>2. \A S : count(hubBatch, S) = count(Tail(hubBatch), S) + one(Head(hubBatch), S)
    BY CountTail
  <1> QED
    BY <1>1, <1>2, FiniteHits

\* The client of a task that was submitted waits, and has been sent no result.
LEMMA TaskOwed ==
  ASSUME IInv, NEW t \in submitted, NEW s \in Sessions, t[1] = s
  PROVE  /\ client[s] # "ready" /\ count(fromClient[s], Requests) = 0
         /\ count(toClient[s], Ends) = 0 /\ Cardinality(pending(s)) = 1
         /\ \A i \in DOMAIN toClient[s] : toClient[s][i].type # "result"
         /\ t \in pending(s) /\ IsFiniteSet(pending(s))
         /\ s \in sent
  <1>1. TypeOK /\ Served(s) /\ SessionsTracked
    BY DEF IInv, ClientsServed, Served
  <1>2. t \in pending(s)
    BY DEF pending
  <1>3. /\ IsFiniteSet(pending(s)) /\ Cardinality(pending(s)) \in Nat
        /\ Cardinality(pending(s)) >= 1
        /\ count(fromClient[s], Requests) \in Nat /\ count(toClient[s], Ends) \in Nat
        /\ toClient[s] \in Seq(ToClient)
    BY <1>1, <1>2, Pending
  <1>4. /\ client[s] # "ready" /\ count(fromClient[s], Requests) = 0
        /\ count(toClient[s], Ends) = 0 /\ Cardinality(pending(s)) = 1
    BY <1>1, <1>3 DEF Served
  <1>5. ASSUME NEW i \in DOMAIN toClient[s] PROVE toClient[s][i].type # "result"
    <2>1. toClient[s][i] \in ToClient /\ i \in 1..Len(toClient[s])
      BY <1>3
    <2>2. toClient[s][i] \notin Ends
      BY <1>3, <1>4, <2>1, FiniteHits
    <2>3. toClient[s][i].type = "result" => toClient[s][i] = [type |-> "result"]
      BY <2>1, ClientMessages
    <2> QED
      BY <2>2, <2>3 DEF Ends
  <1> QED
    BY <1>1, <1>2, <1>3, <1>4, <1>5 DEF SessionsTracked

\* What write() does to the data for the client and to its connection
LEMMA WrittenEffect ==
  ASSUME TypeOK, NEW s \in Sessions, NEW m \in ToClient, written(s, m)
  PROVE  /\ toClient' \in [Sessions -> Seq(ToClient)]
         /\ link' \in [Sessions -> {"open", "left", "reset"}]
         /\ \A u \in Sessions : u # s => toClient'[u] = toClient[u] /\ link'[u] = link[u]
         /\ link[s] # "open" => link'[s] # "open"
         /\ toClient'[s] = toClient[s] \/ toClient'[s] = Append(toClient[s], m)
  <1>1. /\ toClient \in [Sessions -> Seq(ToClient)]
        /\ link \in [Sessions -> {"open", "left", "reset"}]
        /\ Append(toClient[s], m) \in Seq(ToClient)
    BY DEF TypeOK
  <1>2. /\ toClient' = IF link[s] # "open" THEN toClient
                       ELSE [toClient EXCEPT ![s] = Append(@, m)]
        /\ link' = IF link[s] = "left" THEN [link EXCEPT ![s] = "reset"] ELSE link
    BY DEF written
  <1>3. /\ link' \in [Sessions -> {"open", "left", "reset"}]
        /\ \A u \in Sessions : u # s => link'[u] = link[u]
        /\ link[s] # "open" => link'[s] # "open"
    BY <1>1, <1>2
  <1>4. /\ toClient' \in [Sessions -> Seq(ToClient)]
        /\ \A u \in Sessions : u # s => toClient'[u] = toClient[u]
        /\ toClient'[s] = toClient[s] \/ toClient'[s] = Append(toClient[s], m)
    BY <1>1, <1>2
  <1> QED
    BY <1>3, <1>4

\* A call that is written to a client that waits for its result
LEMMA CallWritten ==
  ASSUME IInv, NEW t \in submitted, NEW s \in Sessions, t[1] = s, NEW what \in Calls,
         written(s, [type |-> "call", what |-> what]), UNCHANGED <<clientVars, submitted>>
  PROVE  ClientsServed'
  <1> DEFINE m == [type |-> "call", what |-> what]
  <1>1. TypeOK /\ Served(s) /\ ClientsServed
    BY DEF IInv, ClientsServed, Served
  <1>2. m \in ToClient /\ one(m, Ends) = 0 /\ m.type # "result"
    BY ClientMessages
  <1>3. written(s, m)
    OBVIOUS
  <1> HIDE DEF m
  <1>4. /\ client[s] # "ready" /\ count(fromClient[s], Requests) = 0
        /\ count(toClient[s], Ends) = 0 /\ Cardinality(pending(s)) = 1
        /\ \A i \in DOMAIN toClient[s] : toClient[s][i].type # "result"
    BY TaskOwed
  <1>5. /\ \A u \in Sessions : u # s => toClient'[u] = toClient[u] /\ link'[u] = link[u]
        /\ link[s] # "open" => link'[s] # "open"
        /\ toClient'[s] = toClient[s] \/ toClient'[s] = Append(toClient[s], m)
    BY <1>1, <1>2, <1>3, WrittenEffect
  <1>6. /\ count(toClient'[s], Ends) = 0
        /\ \A i \in DOMAIN toClient'[s] : toClient'[s][i].type # "result"
    <2>1. toClient[s] \in Seq(ToClient)
      BY <1>1 DEF TypeOK
    <2>2. CASE toClient'[s] = toClient[s]
      BY <1>4, <2>2
    <2>3. CASE toClient'[s] = Append(toClient[s], m)
      <3>1. count(toClient'[s], Ends) = count(toClient[s], Ends) + one(m, Ends)
        BY <1>2, <2>1, <2>3, CountAppend
      <3>2. \A i \in DOMAIN toClient'[s] : toClient'[s][i].type # "result"
        BY <1>2, <1>4, <2>1, <2>3
      <3> QED
        BY <1>2, <1>4, <3>1, <3>2
    <2> QED
      BY <1>5, <2>2, <2>3
  <1>7. \A u : pending(u)' = pending(u)
    BY DEF pending
  <1>8. UNCHANGED <<client, requested, fromClient>>
    BY DEF clientVars
  <1>9. Served(s)'
    BY <1>1, <1>4, <1>5, <1>6, <1>7, <1>8 DEF Served
  <1> QED
    BY <1>1, <1>5, <1>7, <1>8, <1>9, OtherClients

\* The result of a task, when it is written to the client or dropped
LEMMA ResultDelivered ==
  ASSUME IInv, NEW t \in submitted, NEW s \in Sessions, t[1] = s,
         submitted' = submitted \ {t}, UNCHANGED clientVars,
         \/ UNCHANGED <<link, toClient>>
         \/ written(s, [type |-> "result"])
  PROVE  ClientsServed'
  <1> DEFINE m == [type |-> "result"]
  <1>1. TypeOK /\ Served(s) /\ ClientsServed
    BY DEF IInv, ClientsServed, Served
  <1>2. m \in ToClient /\ one(m, Ends) = 1
    BY ClientMessages
  <1>3. UNCHANGED <<link, toClient>> \/ written(s, m)
    OBVIOUS
  <1> HIDE DEF m
  <1>4. /\ client[s] # "ready" /\ count(fromClient[s], Requests) = 0
        /\ count(toClient[s], Ends) = 0 /\ Cardinality(pending(s)) = 1
        /\ \A i \in DOMAIN toClient[s] : toClient[s][i].type # "result"
        /\ t \in pending(s) /\ IsFiniteSet(pending(s))
    BY TaskOwed
  <1>5. /\ \A u \in Sessions : u # s => toClient'[u] = toClient[u] /\ link'[u] = link[u]
        /\ link[s] # "open" => link'[s] # "open"
        /\ toClient'[s] = toClient[s] \/ toClient'[s] = Append(toClient[s], m)
    BY <1>1, <1>2, <1>3, WrittenEffect
  <1>6. /\ count(toClient'[s], Ends) <= 1
        /\ \A i \in DOMAIN toClient'[s] : toClient'[s][i].type = "result" => i = Len(toClient'[s])
    <2>1. toClient[s] \in Seq(ToClient)
      BY <1>1 DEF TypeOK
    <2>2. CASE toClient'[s] = toClient[s]
      BY <1>4, <2>2
    <2>3. CASE toClient'[s] = Append(toClient[s], m)
      <3>1. count(toClient'[s], Ends) = count(toClient[s], Ends) + one(m, Ends)
        BY <1>2, <2>1, <2>3, CountAppend
      <3>2. \A i \in DOMAIN toClient'[s] : toClient'[s][i].type = "result" => i = Len(toClient'[s])
        BY <1>4, <2>1, <2>3
      <3> QED
        BY <1>2, <1>4, <3>1, <3>2
    <2> QED
      BY <1>5, <2>2, <2>3
  <1>7. /\ \A u : u # s => pending(u)' = pending(u)
        /\ pending(s)' = pending(s) \ {t}
    BY DEF pending
  <1>8. Cardinality(pending(s)') = 0
    <2>1. Cardinality(pending(s) \ {t}) = Cardinality(pending(s)) - 1
      BY <1>4, FS_RemoveElement
    <2> QED
      BY <1>4, <1>7, <2>1
  <1>9. UNCHANGED <<client, requested, fromClient>>
    BY DEF clientVars
  <1>10. count(toClient'[s], Ends) \in Nat
    <2>1. toClient[s] \in Seq(ToClient)
      BY <1>1 DEF TypeOK
    <2>2. Append(toClient[s], m) \in Seq(ToClient)
      BY <1>2, <2>1
    <2>3. toClient'[s] \in Seq(ToClient)
      BY <1>5, <2>1, <2>2
    <2> QED
      BY <2>3, FiniteHits
  <1>11. Served(s)'
    BY <1>1, <1>4, <1>5, <1>6, <1>8, <1>9, <1>10 DEF Served
  <1> QED
    BY <1>1, <1>5, <1>7, <1>9, <1>11, OtherClients

LEMMA Unstacked ==
  ASSUME TypeOK, NEW s \in Sessions, callStack' = callStack
  PROVE  restacks(s, callStack[s]) /\ callStack[s] \in Seq(ClientTask)
  BY DEF TypeOK, restacks

\* The task whose result the hub handles is submitted.
LEMMA ResultTaken ==
  ASSUME IInv, hubBatch # <<>>, Head(hubBatch).type = "result", hubBatch' = Tail(hubBatch),
         NEW t, t = Head(hubBatch).task
  PROVE  /\ t \in submitted /\ t \in Tasks /\ t[1] \in Sessions
         /\ hubBatch' \in Seq(ToHub)
         /\ \A d : /\ count(hubBatch', CallsAt(d)) = count(hubBatch, CallsAt(d))
                   /\ count(hubBatch, CallsAt(d)) \in Nat
         /\ \A u : /\ count(hubBatch, ResultsOf(u))
                          = count(hubBatch', ResultsOf(u)) + IF u = t THEN 1 ELSE 0
                   /\ count(hubBatch', ResultsOf(u)) \in Nat
  <1> DEFINE m == Head(hubBatch)
  <1>1. TypeOK /\ CallsTraced /\ TasksTraced /\ hubBatch \in Seq(ToHub)
    BY DEF IInv, TypeOK
  <1>2. /\ hubBatch' \in Seq(ToHub) /\ m \in ToHub
        /\ \A S : count(hubBatch, S) = count(hubBatch', S) + one(m, S)
        /\ \A S : count(hubBatch, S) \in Nat /\ count(hubBatch', S) \in Nat
    BY <1>1, BatchTail
  <1>3. m.type = "result" /\ t = m.task
    OBVIOUS
  <1> HIDE DEF m
  <1>4. t \in Tasks /\ m.raised \in BOOLEAN /\ m = task_result(t, m.raised)
    BY <1>2, <1>3 DEF ToHub, task_result
  <1>5. /\ \A d : one(m, CallsAt(d)) = 0
        /\ \A u : one(m, ResultsOf(u)) = IF u = t THEN 1 ELSE 0
    BY <1>4, HubMessages
  <1>6. t \in submitted
    <2> DEFINE a == count(hubToMain, RunsOf(t))
               b == Cardinality(nested(todos(stack), RunsOf(t)))
               c == count(stack, PrintsOf(t))
               d == one(t, waiting)
               e == count(mainToHub, ResultsOf(t))
               f == count(hubBatch, ResultsOf(t))
    <2>1. a \in Nat /\ b \in Nat /\ c \in Nat /\ e \in Nat
      BY <1>1, <1>4, Counts
    <2>2. d \in Nat
      BY DEF one
    <2>3. f \in Nat /\ f >= 1
      BY <1>2, <1>5
    <2>4. progress(t) = a + b + c + d + e + f
      BY DEF progress
    <2>5. progress(t) = one(t, submitted)
      BY <1>1, <1>4 DEF TasksTraced
    <2> HIDE DEF a, b, c, d, e, f
    <2>6. one(t, submitted) >= 1
      BY <2>1, <2>2, <2>3, <2>4, <2>5
    <2> QED
      BY <2>6 DEF one
  <1>7. t[1] \in Sessions
    BY <1>4 DEF Tasks
  <1> QED
    BY <1>2, <1>4, <1>5, <1>6, <1>7

LEMMA HubHandlesResultKeeps ==
  ASSUME IInv, HubHandlesResult
  PROVE  IInv'
  <1>1. PICK t : t = Head(hubBatch).task
    OBVIOUS
  <1>2. PICK s : s = t[1]
    OBVIOUS
  <1> DEFINE closes == close(s, callStack[s])
             writes == written(s, [type |-> "result"])
  <1>3. /\ hubBatch # <<>> /\ Head(hubBatch).type = "result" /\ hubBatch' = Tail(hubBatch)
        /\ submitted' = submitted \ {t} /\ ignored' \in {ignored, ignored \cup {t}}
        /\ UNCHANGED <<clientVars, sent, mainToHub, mainVars>>
        /\ \/ UNCHANGED <<link, toClient, session, callStack, hubToMain, failed>>
           \/ writes /\ UNCHANGED <<session, callStack, hubToMain, failed>>
           \/ /\ closes
              /\ IF left(callStack[s]) = 0
                 THEN session' = [session EXCEPT ![s] = "shut"] /\ UNCHANGED failed
                 ELSE failed' = "twice" /\ UNCHANGED session
              /\ UNCHANGED <<link, toClient>>
    BY <1>1, <1>2 DEF HubHandlesResult
  <1>4. /\ TypeOK /\ FramesSound /\ CallsTraced /\ TasksTraced /\ ClientsServed /\ SessionsTracked
        /\ callStack \in [Sessions -> Seq(ClientTask)] /\ hubToMain \in Seq(ToMain)
    BY DEF IInv, TypeOK
  <1>5. /\ t \in submitted /\ t \in Tasks /\ s \in Sessions
        /\ hubBatch' \in Seq(ToHub)
        /\ \A d : /\ count(hubBatch', CallsAt(d)) = count(hubBatch, CallsAt(d))
                  /\ count(hubBatch, CallsAt(d)) \in Nat
        /\ \A u : /\ count(hubBatch, ResultsOf(u))
                         = count(hubBatch', ResultsOf(u)) + IF u = t THEN 1 ELSE 0
                  /\ count(hubBatch', ResultsOf(u)) \in Nat
    BY <1>3, <1>1, <1>2, ResultTaken
  <1>6. closes => /\ hubToMain' \in Seq(ToMain)
                  /\ \E q \in Seq(ClientTask) :
                         /\ restacks(s, q)
                         /\ \A d \in Depths :
                                count(hubToMain', ResultsAt(d)) + count(q, StackedAt(d))
                                = count(hubToMain, ResultsAt(d)) + count(callStack[s], StackedAt(d))
                  /\ \A u : count(hubToMain', RunsOf(u)) = count(hubToMain, RunsOf(u))
                  /\ \A i \in DOMAIN hubToMain :
                         \E j \in DOMAIN hubToMain' : hubToMain'[j] = hubToMain[i]
                  /\ s \in sent /\ left(callStack[s]) = 0 =>
                         \E j \in DOMAIN hubToMain' :
                             hubToMain'[j] = [type |-> "destroy", session |-> s]
    <2>1. callStack[s] \in Seq(ClientTask)
      BY <1>4, <1>5
    <2> QED
      BY <1>4, <1>5, <2>1, CloseEffect DEF restacks
  <1>7. s \in sent
    BY <1>5, <1>2, TaskOwed
  <1> HIDE DEF closes
  <1>8. UNCHANGED <<stack, sessions, waiting, revived, destroyed>>
    BY <1>3 DEF mainVars
  <1>9. FramesSound' /\ todos(stack') = todos(stack)
    BY <1>4, <1>8, StackSame
  <1>10. /\ hubToMain' \in Seq(ToMain)
        /\ \E q \in Seq(ClientTask) :
               /\ restacks(s, q)
               /\ \A d \in Depths :
                      count(hubToMain', ResultsAt(d)) + count(q, StackedAt(d))
                      = count(hubToMain, ResultsAt(d)) + count(callStack[s], StackedAt(d))
        /\ \A u : count(hubToMain', RunsOf(u)) = count(hubToMain, RunsOf(u))
        /\ \A i \in DOMAIN hubToMain : \E j \in DOMAIN hubToMain' : hubToMain'[j] = hubToMain[i]
    <2>1. CASE UNCHANGED <<callStack, hubToMain>>
      BY <1>4, <1>5, <2>1, Unstacked
    <2> QED
      BY <1>3, <1>6, <2>1
  <1>11. CallsTraced' /\ callStack' \in [Sessions -> Seq(ClientTask)]
    <2>1. PICK q \in Seq(ClientTask) :
              /\ restacks(s, q)
              /\ \A d \in Depths :
                     count(hubToMain', ResultsAt(d)) + count(q, StackedAt(d))
                     = count(hubToMain, ResultsAt(d)) + count(callStack[s], StackedAt(d))
      BY <1>10
    <2>2. ASSUME NEW d \in Depths
          PROVE  count(hubBatch', CallsAt(d)) + count(q, StackedAt(d))
                     + count(hubToMain', ResultsAt(d))
                 = count(hubBatch, CallsAt(d)) + count(callStack[s], StackedAt(d))
                     + count(hubToMain, ResultsAt(d))
      <3> DEFINE a == count(hubBatch, CallsAt(d))
                 b == count(q, StackedAt(d))
                 c == count(hubToMain', ResultsAt(d))
                 e == count(callStack[s], StackedAt(d))
                 f == count(hubToMain, ResultsAt(d))
      <3>1. count(hubBatch', CallsAt(d)) = a /\ a \in Nat
        BY <1>5
      <3>2. b \in Nat /\ c \in Nat /\ e \in Nat /\ f \in Nat
        BY <1>4, <1>5, <1>10, FiniteHits
      <3>3. c + b = f + e
        BY <2>1
      <3> HIDE DEF a, b, c, e, f
      <3>4. a + b + c = a + e + f
        BY <3>1, <3>2, <3>3
      <3> QED
        BY <3>1, <3>4 DEF a, b, c, e, f
    <2> QED
      BY <1>3, <1>5, <1>8, <1>10, <2>1, <2>2, HubCallsKept
  <1>12. TasksTraced'
    <2>1. ASSUME NEW u \in Tasks
          PROVE  count(hubToMain', RunsOf(u)) + count(hubBatch', ResultsOf(u)) + one(u, submitted)
                 = count(hubToMain, RunsOf(u)) + count(hubBatch, ResultsOf(u)) + one(u, submitted')
      <3>1. count(hubToMain, RunsOf(u)) \in Nat
        BY <1>4, FiniteHits
      <3>2. one(u, submitted) = one(u, submitted') + IF u = t THEN 1 ELSE 0
        BY <1>3, <1>5 DEF one
      <3>3. one(u, submitted') \in Nat
        BY DEF one
      <3> QED
        BY <1>5, <1>10, <3>1, <3>2, <3>3
    <2> QED
      BY <1>3, <1>5, <1>8, <1>10, <2>1, HubTasksKept
  <1>13. ClientsServed'
    <2>1. t[1] = s
      BY <1>2
    <2>2. UNCHANGED <<link, toClient>> \/ written(s, [type |-> "result"])
      BY <1>3
    <2> QED
      BY <1>3, <1>5, <2>1, <2>2, ResultDelivered
  <1>14. SessionsTracked'
    <2>1. \A u : to_destroy(u) => to_destroy(u)'
      BY <1>8, <1>10, HubDestroys
    <2>2. CASE session' = session
      BY <1>3, <1>4, <1>8, <2>1, <2>2 DEF SessionsTracked
    <2>3. CASE /\ closes /\ left(callStack[s]) = 0 
               /\ session' = [session EXCEPT ![s] = "shut"]
      <3>1. \E j \in DOMAIN hubToMain' : hubToMain'[j] = [type |-> "destroy", session |-> s]
        BY <1>6, <1>7, <2>3
      <3>2. to_destroy(s)'
        BY <3>1 DEF to_destroy
      <3>3. \A u \in Sessions : u # s => session'[u] = session[u]
        BY <1>4, <2>3 DEF TypeOK
      <3>4. sessions \subseteq Sessions /\ sent \subseteq Sessions
        BY <1>4 DEF TypeOK
      <3> QED
        BY <1>3, <1>4, <1>8, <2>1, <3>2, <3>3, <3>4 DEF SessionsTracked
    <2> QED
      BY <1>3, <2>2, <2>3
  <1>15. TypeOK'
    <2>1. /\ toClient' \in [Sessions -> Seq(ToClient)]
          /\ link' \in [Sessions -> {"open", "left", "reset"}]
      <3>1. CASE UNCHANGED <<link, toClient>>
        BY <1>4, <3>1 DEF TypeOK
      <3>2. CASE writes
        BY <1>4, <1>5, <3>2, WrittenEffect, ClientMessages
      <3> QED
        BY <1>3, <3>1, <3>2
    <2> HIDE DEF writes
    <2>2. /\ session' \in [Sessions -> {"open", "shut", "closed", "aborted"}]
          /\ failed' \in {"no", "lookup", "twice", "exception"}
          /\ submitted' \in SUBSET Tasks /\ ignored' \in SUBSET Tasks
      BY <1>3, <1>4, <1>5 DEF TypeOK
    <2> QED
      BY <1>3, <1>4, <1>5, <1>10, <1>11, <2>1, <2>2 DEF TypeOK, clientVars, mainVars
  <1> QED
    BY <1>9, <1>11, <1>12, <1>13, <1>14, <1>15 DEF IInv

\* A call taken from the batch: it is answered to server-main, or pushed on the stack of
\* the session.
LEMMA CallHandled ==
  ASSUME IInv, hubBatch # <<>>, Head(hubBatch).type = "call", hubBatch' = Tail(hubBatch),
         UNCHANGED <<clientVars, session, sent, submitted, ignored, mainToHub, mainVars, failed>>,
         NEW s \in Sessions, NEW q \in Seq(ClientTask), restacks(s, q),
         hubToMain' \in Seq(ToMain),
         \A d \in Depths : count(hubToMain', ResultsAt(d)) + count(q, StackedAt(d))
                           = count(hubToMain, ResultsAt(d)) + count(callStack[s], StackedAt(d))
                             + IF d = Head(hubBatch).depth THEN 1 ELSE 0,
         \A u \in Tasks : count(hubToMain', RunsOf(u)) = count(hubToMain, RunsOf(u)),
         \A i \in DOMAIN hubToMain : \E j \in DOMAIN hubToMain' : hubToMain'[j] = hubToMain[i],
         toClient' \in [Sessions -> Seq(ToClient)],
         link' \in [Sessions -> {"open", "left", "reset"}],
         ClientsServed'
  PROVE  IInv'
  <1> DEFINE m == Head(hubBatch)
  <1>1. /\ TypeOK /\ FramesSound /\ SessionsTracked /\ CallsTraced /\ TasksTraced
        /\ hubBatch \in Seq(ToHub) /\ hubToMain \in Seq(ToMain)
        /\ callStack[s] \in Seq(ClientTask)
    BY DEF IInv, TypeOK
  <1>2. /\ hubBatch' \in Seq(ToHub) /\ m \in ToHub
        /\ \A S : count(hubBatch, S) = count(hubBatch', S) + one(m, S)
        /\ \A S : count(hubBatch, S) \in Nat /\ count(hubBatch', S) \in Nat
    BY <1>1, BatchTail
  <1>3. m.type = "call"
    OBVIOUS
  <1>4. \A d : m.depth = d <=> d = Head(hubBatch).depth
    OBVIOUS
  <1> HIDE DEF m
  <1>5. /\ \A d : one(m, CallsAt(d)) = IF d = Head(hubBatch).depth THEN 1 ELSE 0
        /\ \A u : one(m, ResultsOf(u)) = 0
    BY <1>2, <1>3, <1>4 DEF one, CallsAt, ResultsOf
  <1>6. UNCHANGED <<stack, sessions, waiting, revived, destroyed>>
    BY DEF mainVars
  <1>7. FramesSound' /\ todos(stack') = todos(stack)
    BY <1>1, <1>6, StackSame
  <1>8. CallsTraced' /\ callStack' \in [Sessions -> Seq(ClientTask)]
    <2>1. ASSUME NEW d \in Depths
          PROVE  count(hubBatch', CallsAt(d)) + count(q, StackedAt(d))
                     + count(hubToMain', ResultsAt(d))
                 = count(hubBatch, CallsAt(d)) + count(callStack[s], StackedAt(d))
                     + count(hubToMain, ResultsAt(d))
      <3> DEFINE a == count(hubBatch, CallsAt(d))
                 ap == count(hubBatch', CallsAt(d))
                 b == count(q, StackedAt(d))
                 c == count(hubToMain', ResultsAt(d))
                 e == count(callStack[s], StackedAt(d))
                 f == count(hubToMain, ResultsAt(d))
                 x == IF d = Head(hubBatch).depth THEN 1 ELSE 0
      <3>1. a = ap + x /\ ap \in Nat /\ x \in Nat
        BY <1>2, <1>5
      <3>2. b \in Nat /\ c \in Nat /\ e \in Nat /\ f \in Nat
        BY <1>1, FiniteHits
      <3>3. c + b = f + e + x
        OBVIOUS
      <3> HIDE DEF a, ap, b, c, e, f, x
      <3>4. ap + b + c = a + e + f
        BY <3>1, <3>2, <3>3
      <3> QED
        BY <3>4 DEF a, ap, b, c, e, f
    <2> QED
      BY <1>2, <1>6, <2>1, HubCallsKept
  <1>9. TasksTraced'
    <2>1. ASSUME NEW u \in Tasks
          PROVE  count(hubToMain', RunsOf(u)) + count(hubBatch', ResultsOf(u)) + one(u, submitted)
                 = count(hubToMain, RunsOf(u)) + count(hubBatch, ResultsOf(u)) + one(u, submitted')
      <3>1. count(hubBatch', ResultsOf(u)) = count(hubBatch, ResultsOf(u))
        BY <1>2, <1>5
      <3> QED
        BY <3>1
    <2> QED
      BY <1>2, <1>6, <2>1, HubTasksKept
  <1>10. SessionsTracked'
    <2>1. \A u : to_destroy(u) => to_destroy(u)'
      BY <1>6, HubDestroys
    <2> QED
      BY <1>1, <1>6, <2>1 DEF SessionsTracked
  <1>11. TypeOK'
    BY <1>1, <1>2, <1>8 DEF TypeOK, clientVars, mainVars
  <1> QED
    BY <1>7, <1>8, <1>9, <1>10, <1>11 DEF IInv

LEMMA StackedCall ==
  ASSUME NEW calls \in Seq(ClientTask), NEW depth \in Depths, NEW over \in BOOLEAN
  PROVE  LET c == [depth |-> depth, over |-> over] IN
         /\ Append(calls, c) \in Seq(ClientTask)
         /\ \A d \in Depths : count(Append(calls, c), StackedAt(d)) = count(calls, StackedAt(d))
                                  + IF d = depth /\ ~over THEN 1 ELSE 0
  <1> DEFINE c == [depth |-> depth, over |-> over]
  <1>1. c \in ClientTask /\ \A d \in Depths : one(c, StackedAt(d)) = IF d = depth /\ ~over THEN 1 ELSE 0
    BY DEF ClientTask, one, StackedAt
  <1> HIDE DEF c
  <1>2. \A S : count(Append(calls, c), S) = count(calls, S) + one(c, S)
    BY <1>1, CountAppend
  <1>3. Append(calls, c) \in Seq(ClientTask)
    BY <1>1
  <1> QED
    BY <1>1, <1>2, <1>3 DEF c

LEMMA HubHandlesCallKeeps ==
  ASSUME IInv, HubHandlesCall
  PROVE  IInv'
  <1>1. PICK m : m = Head(hubBatch)
    OBVIOUS
  <1>2. PICK s : s = m.task[1]
    OBVIOUS
  <1>3. /\ hubBatch # <<>> /\ m.type = "call"
        /\ \/ /\ failed' = "lookup"
              /\ UNCHANGED <<link, toClient, callStack, hubBatch, hubToMain>>
           \/ /\ hubToMain' = Append(hubToMain, result(m.depth, "None"))
              /\ hubBatch' = Tail(hubBatch)
              /\ UNCHANGED <<link, toClient, callStack, failed>>
           \/ /\ m.task \in submitted
              /\ callStack' = [callStack EXCEPT ![s] =
                                  Append(@, [depth |-> m.depth, over |-> FALSE])]
              /\ written(s, [type |-> "call", what |-> m.what])
              /\ hubBatch' = Tail(hubBatch)
              /\ UNCHANGED <<hubToMain, failed>>
           \/ /\ callStack' = [callStack EXCEPT ![s] =
                                  Append(@, [depth |-> m.depth, over |-> TRUE])]
              /\ hubToMain' = Append(hubToMain, result(m.depth, "exception"))
              /\ hubBatch' = Tail(hubBatch)
              /\ UNCHANGED <<link, toClient, failed>>
        /\ UNCHANGED <<clientVars, session, sent, submitted, ignored, mainToHub, mainVars>>
    BY <1>1, <1>2 DEF HubHandlesCall, known
  <1>4. /\ TypeOK /\ FramesSound /\ CallsTraced /\ TasksTraced /\ ClientsServed /\ SessionsTracked
        /\ callStack \in [Sessions -> Seq(ClientTask)] /\ hubToMain \in Seq(ToMain)
        /\ hubBatch \in Seq(ToHub)
        /\ toClient \in [Sessions -> Seq(ToClient)]
        /\ link \in [Sessions -> {"open", "left", "reset"}]
    BY DEF IInv, TypeOK
  <1>5. m \in ToHub
    BY <1>1, <1>3, <1>4
  <1>6. m.depth \in Depths /\ m.what \in Calls /\ m.task \in Tasks /\ s \in Sessions
    <2>1. m.depth \in Depths /\ m.what \in Calls /\ m.task \in Tasks
      BY <1>3, <1>5 DEF ToHub
    <2> QED
      BY <1>2, <2>1 DEF Tasks
  <1>7. callStack[s] \in Seq(ClientTask)
    BY <1>4, <1>6
  <1>8. ASSUME UNCHANGED <<link, toClient>> PROVE ClientsServed'
    BY <1>3, <1>4, <1>8, ClientsSame
  <1>9. \A d \in Depths : /\ count(hubToMain, ResultsAt(d)) \in Nat
                          /\ count(callStack[s], StackedAt(d)) \in Nat
    BY <1>4, <1>7, FiniteHits
  <1>10. ASSUME NEW v \in Answers, hubToMain' = Append(hubToMain, result(m.depth, v))
         PROVE  /\ hubToMain' \in Seq(ToMain)
                /\ \A i \in DOMAIN hubToMain :
                       \E j \in DOMAIN hubToMain' : hubToMain'[j] = hubToMain[i]
                /\ \A d \in Depths : count(hubToMain', ResultsAt(d))
                       = count(hubToMain, ResultsAt(d)) + IF d = m.depth THEN 1 ELSE 0
                /\ \A u \in Tasks : count(hubToMain', RunsOf(u)) = count(hubToMain, RunsOf(u))
    <2> DEFINE r == result(m.depth, v)
    <2>1. /\ r \in ToMain
          /\ \A d \in Depths : one(r, ResultsAt(d)) = IF d = m.depth THEN 1 ELSE 0
          /\ \A u \in Tasks : one(r, RunsOf(u)) = 0
      BY <1>6, MainMessages
    <2>2. hubToMain' = Append(hubToMain, r)
      BY <1>10
    <2> HIDE DEF r
    <2>3. /\ hubToMain' \in Seq(ToMain)
          /\ \A i \in DOMAIN hubToMain :
                 \E j \in DOMAIN hubToMain' : hubToMain'[j] = hubToMain[i]
          /\ \A S : count(hubToMain', S) = count(hubToMain, S) + one(r, S)
          /\ \A S : count(hubToMain, S) \in Nat
      BY <1>4, <2>1, <2>2, AppendKeeps
    <2> QED
      BY <2>1, <2>3
  <1>15. hubBatch # <<>> /\ Head(hubBatch).type = "call"
    BY <1>1, <1>3
  <1>11. CASE /\ failed' = "lookup"
              /\ UNCHANGED <<link, toClient, callStack, hubBatch, hubToMain>>
    <2>1. UNCHANGED <<hubVars, mainToHub, hubToMain, mainVars>>
      BY <1>3, <1>11 DEF hubVars
    <2>2. FramesSound' /\ CallsTraced' /\ TasksTraced' /\ SessionsTracked'
      BY <1>4, <2>1, ServerSame
    <2>3. TypeOK'
      BY <1>3, <1>4, <1>11, <2>1 DEF TypeOK, clientVars, mainVars, hubVars
    <2> QED
      BY <1>8, <1>11, <2>2, <2>3 DEF IInv
  <1>12. CASE /\ hubToMain' = Append(hubToMain, result(m.depth, "None"))
              /\ hubBatch' = Tail(hubBatch)
              /\ UNCHANGED <<link, toClient, callStack, failed>>
    <2>1. "None" \in Answers
      BY DEF Answers
    <2>2. restacks(s, callStack[s])
      BY <1>4, <1>6, <1>12, Unstacked
    <2>3. /\ hubToMain' \in Seq(ToMain)
          /\ \A i \in DOMAIN hubToMain :
                 \E j \in DOMAIN hubToMain' : hubToMain'[j] = hubToMain[i]
          /\ \A u \in Tasks : count(hubToMain', RunsOf(u)) = count(hubToMain, RunsOf(u))
          /\ \A d \in Depths : count(hubToMain', ResultsAt(d))
                       = count(hubToMain, ResultsAt(d)) + IF d = m.depth THEN 1 ELSE 0
      BY <1>10, <1>12, <2>1
    <2>4. \A d \in Depths :
              count(hubToMain', ResultsAt(d)) + count(callStack[s], StackedAt(d))
              = count(hubToMain, ResultsAt(d)) + count(callStack[s], StackedAt(d))
                + IF d = m.depth THEN 1 ELSE 0
      BY <1>9, <2>3
    <2>5. ClientsServed'
      BY <1>8, <1>12
    <2>6. UNCHANGED <<link, toClient, failed>> /\ hubBatch' = Tail(hubBatch)
      BY <1>12
    <2>7. /\ toClient' \in [Sessions -> Seq(ToClient)]
          /\ link' \in [Sessions -> {"open", "left", "reset"}]
      BY <1>4, <2>6
    <2>8. UNCHANGED <<clientVars, session, sent, submitted, ignored, mainToHub, mainVars, failed>>
      BY <1>3, <2>6
    <2>9. \A d \in Depths :
              count(hubToMain', ResultsAt(d)) + count(callStack[s], StackedAt(d))
              = count(hubToMain, ResultsAt(d)) + count(callStack[s], StackedAt(d))
                + IF d = Head(hubBatch).depth THEN 1 ELSE 0
      BY <1>1, <2>4
    <2>10. hubBatch' = Tail(hubBatch)
      BY <1>12
    <2> QED
      BY <1>6, <1>7, <1>15, <2>2, <2>3, <2>5, <2>7, <2>8, <2>9, <2>10, CallHandled
  <1>13. CASE /\ m.task \in submitted
              /\ callStack' = [callStack EXCEPT ![s] =
                                  Append(@, [depth |-> m.depth, over |-> FALSE])]
              /\ written(s, [type |-> "call", what |-> m.what])
              /\ hubBatch' = Tail(hubBatch)
              /\ UNCHANGED <<hubToMain, failed>>
    <2> DEFINE q == Append(callStack[s], [depth |-> m.depth, over |-> FALSE])
    <2>1. restacks(s, q)
      BY <1>4, <1>6, <1>13 DEF restacks
    <2>2. /\ q \in Seq(ClientTask)
          /\ \A d \in Depths : count(q, StackedAt(d)) = count(callStack[s], StackedAt(d))
                                   + IF d = m.depth /\ ~FALSE THEN 1 ELSE 0
      BY <1>6, <1>7, StackedCall
    <2> HIDE DEF q
    <2>3. \A d \in Depths :
              count(hubToMain', ResultsAt(d)) + count(q, StackedAt(d))
              = count(hubToMain, ResultsAt(d)) + count(callStack[s], StackedAt(d))
                + IF d = m.depth THEN 1 ELSE 0
      BY <1>9, <1>13, <2>2
    <2>4. \A u \in Tasks : count(hubToMain', RunsOf(u)) = count(hubToMain, RunsOf(u))
      BY <1>13
    <2>5. /\ toClient' \in [Sessions -> Seq(ToClient)]
          /\ link' \in [Sessions -> {"open", "left", "reset"}]
      BY <1>4, <1>6, <1>13, WrittenEffect, ClientMessages
    <2>6. ClientsServed'
      BY <1>2, <1>3, <1>6, <1>13, CallWritten
    <2>7. hubToMain' = hubToMain /\ hubToMain' \in Seq(ToMain)
      BY <1>4, <1>13
    <2>8. failed' = failed /\ hubBatch' = Tail(hubBatch)
      BY <1>13
    <2> QED
      BY <1>1, <1>3, <1>6, <2>1, <2>2, <2>3, <2>4, <2>5, <2>6, <2>7, <2>8, CallHandled
  <1>14. CASE /\ callStack' = [callStack EXCEPT ![s] =
                                  Append(@, [depth |-> m.depth, over |-> TRUE])]
              /\ hubToMain' = Append(hubToMain, result(m.depth, "exception"))
              /\ hubBatch' = Tail(hubBatch)
              /\ UNCHANGED <<link, toClient, failed>>
    <2> DEFINE q == Append(callStack[s], [depth |-> m.depth, over |-> TRUE])
    <2>1. "exception" \in Answers
      BY DEF Answers
    <2>2. restacks(s, q)
      BY <1>4, <1>6, <1>14 DEF restacks
    <2>3. /\ q \in Seq(ClientTask)
          /\ \A d \in Depths : count(q, StackedAt(d)) = count(callStack[s], StackedAt(d))
                                   + IF d = m.depth /\ ~TRUE THEN 1 ELSE 0
      BY <1>6, <1>7, StackedCall
    <2> HIDE DEF q
    <2>4. /\ hubToMain' \in Seq(ToMain)
          /\ \A i \in DOMAIN hubToMain :
                 \E j \in DOMAIN hubToMain' : hubToMain'[j] = hubToMain[i]
          /\ \A u \in Tasks : count(hubToMain', RunsOf(u)) = count(hubToMain, RunsOf(u))
          /\ \A d \in Depths : count(hubToMain', ResultsAt(d))
                       = count(hubToMain, ResultsAt(d)) + IF d = m.depth THEN 1 ELSE 0
      BY <1>10, <1>14, <2>1
    <2>5. \A d \in Depths :
              count(hubToMain', ResultsAt(d)) + count(q, StackedAt(d))
              = count(hubToMain, ResultsAt(d)) + count(callStack[s], StackedAt(d))
                + IF d = m.depth THEN 1 ELSE 0
      BY <1>9, <2>3, <2>4
    <2>6. ClientsServed'
      BY <1>8, <1>14
    <2>7. UNCHANGED <<link, toClient, failed>> /\ hubBatch' = Tail(hubBatch)
      BY <1>14
    <2>8. /\ toClient' \in [Sessions -> Seq(ToClient)]
          /\ link' \in [Sessions -> {"open", "left", "reset"}]
      BY <1>4, <2>7
    <2>9. UNCHANGED <<clientVars, session, sent, submitted, ignored, mainToHub, mainVars, failed>>
      BY <1>3, <2>7
    <2>10. \A d \in Depths :
              count(hubToMain', ResultsAt(d)) + count(q, StackedAt(d))
              = count(hubToMain, ResultsAt(d)) + count(callStack[s], StackedAt(d))
                + IF d = Head(hubBatch).depth THEN 1 ELSE 0
      BY <1>1, <2>5
    <2>11. hubBatch' = Tail(hubBatch)
      BY <1>14
    <2> QED
      BY <1>6, <1>15, <2>2, <2>3, <2>4, <2>6, <2>8, <2>9, <2>10, <2>11, CallHandled
  <1> QED
    BY <1>3, <1>11, <1>12, <1>13, <1>14

\* The session of a client that leaves: its calls are answered, and server-main destroys
\* it if close() is not interrupted.
LEMMA SessionRemoved ==
  ASSUME IInv, NEW s \in Sessions, NEW calls \in Seq(ClientTask), removed(s, calls),
         \A d \in Depths : count(calls, StackedAt(d)) = count(callStack[s], StackedAt(d)),
         UNCHANGED <<client, requested, link, toClient, sent, submitted, ignored, hubBatch, mainToHub,
                     mainVars, failed>>,
         fromClient' \in [Sessions -> Seq(FromClient)],
         ClientsServed'
  PROVE  IInv'
  <1>1. /\ close(s, calls)
        /\ session' = [session EXCEPT ![s] = IF @ = "shut" \/ left(calls) = 0 THEN "closed"
                                             ELSE "aborted"]
    BY DEF removed
  <1>2. /\ TypeOK /\ FramesSound /\ SessionsTracked /\ CallsTraced /\ TasksTraced
        /\ callStack \in [Sessions -> Seq(ClientTask)] /\ hubToMain \in Seq(ToMain)
        /\ hubBatch \in Seq(ToHub) /\ callStack[s] \in Seq(ClientTask)
    BY DEF IInv, TypeOK
  <1>3. UNCHANGED <<stack, sessions, waiting, revived, destroyed>>
    BY DEF mainVars
  <1>4. FramesSound' /\ todos(stack') = todos(stack)
    BY <1>2, <1>3, StackSame
  <1>5. /\ hubToMain' \in Seq(ToMain)
        /\ \E q \in Seq(ClientTask) :
               /\ restacks(s, q)
               /\ \A d \in Depths : count(hubToMain', ResultsAt(d)) + count(q, StackedAt(d))
                                    = count(hubToMain, ResultsAt(d)) + count(calls, StackedAt(d))
        /\ \A u : count(hubToMain', RunsOf(u)) = count(hubToMain, RunsOf(u))
        /\ \A i \in DOMAIN hubToMain : \E j \in DOMAIN hubToMain' : hubToMain'[j] = hubToMain[i]
        /\ s \in sent /\ left(calls) = 0 =>
               \E j \in DOMAIN hubToMain' : hubToMain'[j] = [type |-> "destroy", session |-> s]
    BY <1>1, <1>2, CloseEffect DEF restacks
  <1>6. CallsTraced' /\ callStack' \in [Sessions -> Seq(ClientTask)]
    <2>1. PICK q \in Seq(ClientTask) :
              /\ restacks(s, q)
              /\ \A d \in Depths : count(hubToMain', ResultsAt(d)) + count(q, StackedAt(d))
                                   = count(hubToMain, ResultsAt(d)) + count(calls, StackedAt(d))
      BY <1>5
    <2>2. ASSUME NEW d \in Depths
          PROVE  count(hubBatch', CallsAt(d)) + count(q, StackedAt(d))
                     + count(hubToMain', ResultsAt(d))
                 = count(hubBatch, CallsAt(d)) + count(callStack[s], StackedAt(d))
                     + count(hubToMain, ResultsAt(d))
      <3> DEFINE a == count(hubBatch, CallsAt(d))
                 b == count(q, StackedAt(d))
                 c == count(hubToMain', ResultsAt(d))
                 e == count(callStack[s], StackedAt(d))
                 f == count(hubToMain, ResultsAt(d))
      <3>1. count(hubBatch', CallsAt(d)) = a
        OBVIOUS
      <3>2. a \in Nat /\ b \in Nat /\ c \in Nat /\ e \in Nat /\ f \in Nat
        BY <1>2, <1>5, FiniteHits
      <3>3. c + b = f + e
        BY <2>1
      <3> HIDE DEF a, b, c, e, f
      <3>4. a + b + c = a + e + f
        BY <3>2, <3>3
      <3> QED
        BY <3>1, <3>4 DEF a, b, c, e, f
    <2> QED
      BY <1>2, <1>3, <1>5, <2>1, <2>2, HubCallsKept
  <1>7. TasksTraced'
    <2>1. ASSUME NEW u \in Tasks
          PROVE  count(hubToMain', RunsOf(u)) + count(hubBatch', ResultsOf(u)) + one(u, submitted)
                 = count(hubToMain, RunsOf(u)) + count(hubBatch, ResultsOf(u)) + one(u, submitted')
      BY <1>5
    <2> QED
      BY <1>2, <1>3, <1>5, <2>1, HubTasksKept
  <1>8. SessionsTracked'
    <2>1. \A u : to_destroy(u) => to_destroy(u)'
      BY <1>3, <1>5, HubDestroys
    <2>2. /\ \A u \in Sessions : u # s => session'[u] = session[u]
          /\ session'[s] = IF session[s] = "shut" \/ left(calls) = 0 THEN "closed" ELSE "aborted"
          /\ sessions \subseteq Sessions /\ sent \subseteq Sessions
      BY <1>1, <1>2 DEF TypeOK
    <2>3. s \in sent /\ left(calls) = 0 => to_destroy(s)'
      BY <1>5 DEF to_destroy
    <2> QED
      BY <1>2, <1>3, <2>1, <2>2, <2>3 DEF SessionsTracked
  <1>9. TypeOK'
    <2>1. session' \in [Sessions -> {"open", "shut", "closed", "aborted"}]
      BY <1>1, <1>2 DEF TypeOK
    <2> QED
      BY <1>2, <1>5, <1>6, <2>1 DEF TypeOK, mainVars
  <1> QED
    BY <1>4, <1>6, <1>7, <1>8, <1>9 DEF IInv

LEMMA HubRemovesClientKeeps ==
  ASSUME IInv, NEW s \in Sessions, HubRemovesClient(s)
  PROVE  IInv'
  <1>1. /\ removed(s, callStack[s])
        /\ UNCHANGED <<clientVars, link, toClient, sent, submitted, ignored, hubBatch, mainToHub,
                       mainVars, failed>>
    BY DEF HubRemovesClient
  <1>2. callStack[s] \in Seq(ClientTask) /\ fromClient \in [Sessions -> Seq(FromClient)]
        /\ ClientsServed
    BY DEF IInv, TypeOK
  <1>3. UNCHANGED <<client, requested, fromClient>>
    BY <1>1 DEF clientVars
  <1>4. ClientsServed'
    BY <1>1, <1>2, ClientsSame
  <1> QED
    BY <1>1, <1>2, <1>3, <1>4, SessionRemoved

\* The next message of a client
LEMMA ClientTail ==
  ASSUME TypeOK, NEW s \in Sessions, fromClient[s] # <<>>,
         fromClient' = [fromClient EXCEPT ![s] = Tail(@)]
  PROVE  /\ fromClient' \in [Sessions -> Seq(FromClient)]
         /\ Head(fromClient[s]) \in FromClient
         /\ count(fromClient[s], Requests)
                = count(fromClient'[s], Requests) + one(Head(fromClient[s]), Requests)
         /\ count(fromClient'[s], Requests) \in Nat
         /\ \A u \in Sessions : u # s => fromClient'[u] = fromClient[u]
  <1>1. fromClient \in [Sessions -> Seq(FromClient)] /\ fromClient[s] \in Seq(FromClient)
    BY DEF TypeOK
  <1>2. Tail(fromClient[s]) \in Seq(FromClient) /\ Head(fromClient[s]) \in FromClient
    BY <1>1
  <1>3. /\ fromClient' \in [Sessions -> Seq(FromClient)]
        /\ fromClient'[s] = Tail(fromClient[s])
        /\ \A u \in Sessions : u # s => fromClient'[u] = fromClient[u]
    BY <1>1, <1>2
  <1>4. count(fromClient[s], Requests)
            = count(Tail(fromClient[s]), Requests) + one(Head(fromClient[s]), Requests)
    BY <1>1, CountTail
  <1>5. count(Tail(fromClient[s]), Requests) \in Nat
    BY <1>2, FiniteHits
  <1> QED
    BY <1>2, <1>3, <1>4, <1>5

\* The answers of a client are not requests.
LEMMA AnswerRead ==
  ASSUME IInv, NEW s \in Sessions, fromClient[s] # <<>>,
         Head(fromClient[s]).type = "answer", fromClient' = [fromClient EXCEPT ![s] = Tail(@)],
         UNCHANGED <<client, requested, link, toClient, submitted>>
  PROVE  ClientsServed' /\ fromClient' \in [Sessions -> Seq(FromClient)]
  <1>1. TypeOK /\ ClientsServed /\ Served(s)
    BY DEF IInv, ClientsServed, Served
  <1>2. /\ fromClient' \in [Sessions -> Seq(FromClient)]
        /\ count(fromClient[s], Requests)
               = count(fromClient'[s], Requests) + one(Head(fromClient[s]), Requests)
        /\ count(fromClient'[s], Requests) \in Nat
        /\ \A u \in Sessions : u # s => fromClient'[u] = fromClient[u]
    BY <1>1, ClientTail
  <1>3. one(Head(fromClient[s]), Requests) = 0
    BY DEF one, Requests
  <1>4. count(fromClient'[s], Requests) = count(fromClient[s], Requests)
    BY <1>2, <1>3
  <1>5. \A u : pending(u)' = pending(u)
    BY DEF pending
  <1>6. Served(s)'
    BY <1>1, <1>4, <1>5 DEF Served
  <1> QED
    BY <1>1, <1>2, <1>5, <1>6, OtherClients

\* The last call of a session, answered by its client
AnswersLast(s, value) ==
    /\ callStack[s] # <<>> /\ ~callStack[s][Len(callStack[s])].over
    /\ restacks(s, SubSeq(callStack[s], 1, Len(callStack[s]) - 1))
    /\ hubToMain' = Append(hubToMain, result(callStack[s][Len(callStack[s])].depth, value))

LEMMA LastCallAnswered ==
  ASSUME IInv, NEW s \in Sessions, NEW value \in Answers, AnswersLast(s, value),
         fromClient' \in [Sessions -> Seq(FromClient)], ClientsServed',
         UNCHANGED <<client, requested, link, toClient, session, sent, submitted, ignored, hubBatch,
                     mainToHub, mainVars, failed>>
  PROVE  IInv'
  <1>1. PICK calls : calls = callStack[s]
    OBVIOUS
  <1> DEFINE last == calls[Len(calls)]
             others == SubSeq(calls, 1, Len(calls) - 1)
  <1>2. /\ TypeOK /\ FramesSound /\ SessionsTracked /\ CallsTraced /\ TasksTraced
        /\ callStack \in [Sessions -> Seq(ClientTask)] /\ hubToMain \in Seq(ToMain)
        /\ hubBatch \in Seq(ToHub) /\ callStack[s] \in Seq(ClientTask)
    BY DEF IInv, TypeOK
  <1>3. calls \in Seq(ClientTask) /\ calls # <<>> /\ ~last.over
    BY <1>1, <1>2 DEF AnswersLast
  <1>4. last \in ClientTask
    BY <1>3
  <1>5. /\ others \in Seq(ClientTask)
        /\ \A S : count(calls, S) = count(others, S) + one(last, S)
    BY <1>3, CountPop
  <1>6. restacks(s, others) /\ hubToMain' = Append(hubToMain, result(last.depth, value))
    BY <1>1 DEF AnswersLast
  <1> HIDE DEF last, others
  <1>7. last.depth \in Depths /\ last = [depth |-> last.depth, over |-> FALSE]
    BY <1>3, <1>4 DEF ClientTask
  <1>8. \A d \in Depths : one(last, StackedAt(d)) = IF d = last.depth THEN 1 ELSE 0
    BY <1>7 DEF one, StackedAt
  <1> DEFINE r == result(last.depth, value)
  <1>9. /\ r \in ToMain
        /\ \A d \in Depths : one(r, ResultsAt(d)) = IF d = last.depth THEN 1 ELSE 0
        /\ \A u \in Tasks : one(r, RunsOf(u)) = 0
    BY <1>7, MainMessages
  <1>10. hubToMain' = Append(hubToMain, r)
    BY <1>6
  <1> HIDE DEF r
  <1>11. /\ hubToMain' \in Seq(ToMain)
         /\ \A i \in DOMAIN hubToMain : \E j \in DOMAIN hubToMain' : hubToMain'[j] = hubToMain[i]
         /\ \A S : count(hubToMain', S) = count(hubToMain, S) + one(r, S)
         /\ \A S : count(hubToMain, S) \in Nat
    BY <1>2, <1>9, <1>10, AppendKeeps
  <1>12. UNCHANGED <<stack, sessions, waiting, revived, destroyed>>
    BY DEF mainVars
  <1>13. FramesSound' /\ todos(stack') = todos(stack)
    BY <1>2, <1>12, StackSame
  <1>14. CallsTraced' /\ callStack' \in [Sessions -> Seq(ClientTask)]
    <2>1. ASSUME NEW d \in Depths
          PROVE  count(hubBatch', CallsAt(d)) + count(others, StackedAt(d))
                     + count(hubToMain', ResultsAt(d))
                 = count(hubBatch, CallsAt(d)) + count(callStack[s], StackedAt(d))
                     + count(hubToMain, ResultsAt(d))
      <3> DEFINE a == count(hubBatch, CallsAt(d))
                 b == count(others, StackedAt(d))
                 c == count(hubToMain', ResultsAt(d))
                 e == count(callStack[s], StackedAt(d))
                 f == count(hubToMain, ResultsAt(d))
                 x == IF d = last.depth THEN 1 ELSE 0
      <3>1. count(hubBatch', CallsAt(d)) = a
        OBVIOUS
      <3>2. a \in Nat /\ b \in Nat /\ f \in Nat /\ x \in Nat
        BY <1>2, <1>5, FiniteHits
      <3>3. c = f + x /\ e = b + x
        BY <1>1, <1>5, <1>8, <1>9, <1>11
      <3> HIDE DEF a, b, c, e, f, x
      <3>4. a + b + c = a + e + f
        BY <3>2, <3>3
      <3> QED
        BY <3>1, <3>4 DEF a, b, c, e, f
    <2> QED
      BY <1>2, <1>5, <1>6, <1>11, <1>12, <2>1, HubCallsKept
  <1>15. TasksTraced'
    <2>1. ASSUME NEW u \in Tasks
          PROVE  count(hubToMain', RunsOf(u)) + count(hubBatch', ResultsOf(u)) + one(u, submitted)
                 = count(hubToMain, RunsOf(u)) + count(hubBatch, ResultsOf(u)) + one(u, submitted')
      <3>1. count(hubToMain', RunsOf(u)) = count(hubToMain, RunsOf(u))
        BY <1>9, <1>11
      <3> QED
        BY <3>1
    <2> QED
      BY <1>2, <1>11, <1>12, <2>1, HubTasksKept
  <1>16. SessionsTracked'
    <2>1. \A u : to_destroy(u) => to_destroy(u)'
      BY <1>11, <1>12, HubDestroys
    <2> QED
      BY <1>2, <1>12, <2>1 DEF SessionsTracked
  <1>17. TypeOK'
    BY <1>2, <1>11, <1>14 DEF TypeOK, mainVars
  <1> QED
    BY <1>13, <1>14, <1>15, <1>16, <1>17 DEF IInv

\* The request of a client becomes a task, which was not submitted before.
Submits(s, t, kind) ==
    /\ t = <<s, requested[s]>>
    /\ sent' = sent \cup {s}
    /\ submitted' = submitted \cup {t}
    /\ hubToMain' = Append(hubToMain, [type |-> "run", task |-> t, kind |-> kind])

LEMMA RequestSubmitted ==
  ASSUME IInv, NEW s \in Sessions, NEW t, NEW kind \in Kinds, Submits(s, t, kind),
         session[s] = "open", fromClient[s] # <<>>,
         Head(fromClient[s]).type = "request", fromClient' = [fromClient EXCEPT ![s] = Tail(@)],
         UNCHANGED <<client, requested, link, toClient, session, callStack, ignored, hubBatch, mainToHub,
                     mainVars, failed>>
  PROVE  IInv'
  <1>1. /\ TypeOK /\ FramesSound /\ SessionsTracked /\ CallsTraced /\ TasksTraced /\ ClientsServed
        /\ callStack \in [Sessions -> Seq(ClientTask)] /\ hubToMain \in Seq(ToMain)
        /\ hubBatch \in Seq(ToHub) /\ callStack[s] \in Seq(ClientTask)
    BY DEF IInv, TypeOK
  <1>2. Served(s)
    BY <1>1 DEF ClientsServed, Served
  <1>3. /\ fromClient' \in [Sessions -> Seq(FromClient)]
        /\ Head(fromClient[s]) \in FromClient
        /\ count(fromClient[s], Requests)
               = count(fromClient'[s], Requests) + one(Head(fromClient[s]), Requests)
        /\ count(fromClient'[s], Requests) \in Nat
        /\ \A u \in Sessions : u # s => fromClient'[u] = fromClient[u]
    BY <1>1, ClientTail
  <1>4. count(fromClient[s], Requests) = count(fromClient'[s], Requests) + 1
    BY <1>3 DEF one, Requests
  <1>5. /\ IsFiniteSet(pending(s)) /\ Cardinality(pending(s)) \in Nat
        /\ \A u \in pending(s) : Cardinality(pending(s)) >= 1
        /\ count(toClient[s], Ends) \in Nat
    BY <1>1, Pending
  <1>6. /\ client[s] # "ready" /\ Cardinality(pending(s)) = 0 /\ count(toClient[s], Ends) = 0
        /\ count(fromClient'[s], Requests) = 0 /\ requested[s] # 0
    BY <1>2, <1>3, <1>4, <1>5 DEF Served
  <1>7. t \notin submitted
    <2>1. t \in submitted => t \in pending(s)
      BY DEF pending, Submits
    <2> QED
      BY <1>5, <1>6, <2>1
  <1>8. t \in Tasks /\ t[1] = s
    <2>1. requested[s] \in 0..MaxRequests
      BY <1>1 DEF TypeOK
    <2>2. requested[s] \in 1..MaxRequests
      BY <1>6, <2>1, ApiSessionsAssumption
    <2> QED
      BY <2>2 DEF Submits, Tasks
  <1> DEFINE r == [type |-> "run", task |-> t, kind |-> kind]
  <1>9. /\ r \in ToMain
        /\ \A d \in Depths : one(r, ResultsAt(d)) = 0
        /\ \A u \in Tasks : one(r, RunsOf(u)) = IF u = t THEN 1 ELSE 0
    BY <1>8, MainMessages
  <1>10. /\ hubToMain' = Append(hubToMain, r)
         /\ sent' = sent \cup {s} /\ submitted' = submitted \cup {t}
    BY DEF Submits
  <1> HIDE DEF r
  <1>11. /\ hubToMain' \in Seq(ToMain)
         /\ \A i \in DOMAIN hubToMain : \E j \in DOMAIN hubToMain' : hubToMain'[j] = hubToMain[i]
         /\ \A S : count(hubToMain', S) = count(hubToMain, S) + one(r, S)
         /\ \A S : count(hubToMain, S) \in Nat
    BY <1>1, <1>9, <1>10, AppendKeeps
  <1>12. UNCHANGED <<stack, sessions, waiting, revived, destroyed>>
    BY DEF mainVars
  <1>13. FramesSound' /\ todos(stack') = todos(stack)
    BY <1>1, <1>12, StackSame
  <1>14. CallsTraced'
    <2>1. restacks(s, callStack[s])
      BY <1>1, Unstacked
    <2>2. \A d \in Depths : count(hubToMain', ResultsAt(d)) = count(hubToMain, ResultsAt(d))
      BY <1>9, <1>11
    <2>3. \A d \in Depths :
              count(hubBatch', CallsAt(d)) + count(callStack[s], StackedAt(d))
                  + count(hubToMain', ResultsAt(d))
              = count(hubBatch, CallsAt(d)) + count(callStack[s], StackedAt(d))
                  + count(hubToMain, ResultsAt(d))
      BY <2>2
    <2> QED
      BY <1>1, <1>11, <1>12, <2>1, <2>3, HubCallsKept
  <1>15. TasksTraced'
    <2>1. ASSUME NEW u \in Tasks
          PROVE  count(hubToMain', RunsOf(u)) + count(hubBatch', ResultsOf(u)) + one(u, submitted)
                 = count(hubToMain, RunsOf(u)) + count(hubBatch, ResultsOf(u)) + one(u, submitted')
      <3> DEFINE a == count(hubToMain, RunsOf(u))
                 ap == count(hubToMain', RunsOf(u))
                 b == count(hubBatch, ResultsOf(u))
                 c == one(u, submitted)
                 cp == one(u, submitted')
                 x == IF u = t THEN 1 ELSE 0
      <3>1. count(hubBatch', ResultsOf(u)) = b
        OBVIOUS
      <3>2. ap = a + x /\ a \in Nat /\ b \in Nat
        BY <1>1, <1>9, <1>11, FiniteHits
      <3>3. cp = c + x /\ c \in Nat /\ x \in Nat
        BY <1>7, <1>10 DEF one
      <3> HIDE DEF a, ap, b, c, cp, x
      <3>4. ap + b + c = a + b + cp
        BY <3>2, <3>3
      <3> QED
        BY <3>1, <3>4 DEF a, ap, b, c, cp
    <2> QED
      BY <1>1, <1>11, <1>12, <2>1, HubTasksKept
  <1>16. ClientsServed'
    <2>1. /\ \A u \in Sessions : u # s => pending(u)' = pending(u)
          /\ pending(s)' = pending(s) \cup {t} /\ t \notin pending(s)
      BY <1>7, <1>8, <1>10 DEF pending
    <2>2. Cardinality(pending(s) \cup {t}) = Cardinality(pending(s)) + 1
      BY <1>5, <2>1, FS_AddElement
    <2>3. Cardinality(pending(s)') = 1
      BY <1>6, <2>1, <2>2
    <2>4. Served(s)'
      BY <1>2, <1>6, <2>3 DEF Served
    <2> QED
      BY <1>1, <1>3, <2>1, <2>4, OtherClients
  <1>17. SessionsTracked'
    <2>1. \A u : to_destroy(u) => to_destroy(u)'
      BY <1>11, <1>12, HubDestroys
    <2> QED
      BY <1>1, <1>8, <1>10, <1>12, <2>1 DEF SessionsTracked
  <1>18. TypeOK'
    BY <1>1, <1>3, <1>8, <1>10, <1>11 DEF TypeOK, mainVars
  <1> QED
    BY <1>13, <1>14, <1>15, <1>16, <1>17, <1>18 DEF IInv

LEMMA HubReadsClientKeeps ==
  ASSUME IInv, NEW s \in Sessions, HubReadsClient(s)
  PROVE  IInv'
  <1>1. PICK m : m = Head(fromClient[s])
    OBVIOUS
  <1>2. PICK t : t = <<s, requested[s]>>
    OBVIOUS
  <1>3. PICK calls : calls = callStack[s]
    OBVIOUS
  <1> DEFINE last == calls[Len(calls)]
             others == SubSeq(calls, 1, Len(calls) - 1)
  <1>4. /\ session[s] = "open" /\ fromClient[s] # <<>>
        /\ fromClient' = [fromClient EXCEPT ![s] = Tail(@)]
        /\ \/ /\ m.type = "request"
              /\ sent' = sent \cup {s}
              /\ submitted' = submitted \cup {t}
              /\ hubToMain' = Append(hubToMain, [type |-> "run", task |-> t, kind |-> m.kind])
              /\ UNCHANGED <<session, callStack>>
           \/ /\ m.type = "answer" /\ calls # <<>> /\ ~last.over
              /\ callStack' = [callStack EXCEPT ![s] = others]
              /\ hubToMain' = Append(hubToMain, result(last.depth, m.what))
              /\ UNCHANGED <<session, sent, submitted>>
           \/ /\ m.type = "answer" /\ (calls = <<>> \/ last.over)
              /\ removed(s, IF calls = <<>> THEN calls ELSE others)
              /\ UNCHANGED <<sent, submitted>>
        /\ UNCHANGED <<client, requested, link, toClient, ignored, hubBatch, mainToHub, mainVars, failed>>
    BY <1>1, <1>2, <1>3 DEF HubReadsClient
  <1>5. TypeOK /\ calls \in Seq(ClientTask)
    BY <1>3 DEF IInv, TypeOK
  <1>6. m \in FromClient
    BY <1>1, <1>4, <1>5, ClientTail
  <1>7. CASE /\ m.type = "request"
             /\ sent' = sent \cup {s}
             /\ submitted' = submitted \cup {t}
             /\ hubToMain' = Append(hubToMain, [type |-> "run", task |-> t, kind |-> m.kind])
             /\ UNCHANGED <<session, callStack>>
    <2>1. m.kind \in Kinds
      BY <1>6, <1>7 DEF FromClient
    <2>2. Submits(s, t, m.kind)
      BY <1>2, <1>7 DEF Submits
    <2>3. Head(fromClient[s]).type = "request"
      BY <1>1, <1>7
    <2>4. UNCHANGED <<session, callStack>>
      BY <1>7
    <2> QED
      BY <1>4, <2>1, <2>2, <2>3, <2>4, RequestSubmitted
  <1>8. CASE /\ m.type = "answer" /\ calls # <<>> /\ ~last.over
             /\ callStack' = [callStack EXCEPT ![s] = others]
             /\ hubToMain' = Append(hubToMain, result(last.depth, m.what))
             /\ UNCHANGED <<session, sent, submitted>>
    <2>1. m.what \in Answers
      BY <1>6, <1>8 DEF FromClient, Answers
    <2>2. AnswersLast(s, m.what)
      BY <1>3, <1>8 DEF AnswersLast, restacks
    <2>3. UNCHANGED <<session, sent, submitted>>
      BY <1>8
    <2>4. ClientsServed' /\ fromClient' \in [Sessions -> Seq(FromClient)]
      BY <1>1, <1>4, <1>8, <2>3, AnswerRead
    <2> QED
      BY <1>4, <2>1, <2>2, <2>3, <2>4, LastCallAnswered
  <1>9. CASE /\ m.type = "answer" /\ (calls = <<>> \/ last.over)
             /\ removed(s, IF calls = <<>> THEN calls ELSE others)
             /\ UNCHANGED <<sent, submitted>>
    <2>1. ClientsServed' /\ fromClient' \in [Sessions -> Seq(FromClient)]
      BY <1>1, <1>4, <1>9, AnswerRead
    <2>2. CASE calls = <<>>
      <3>1. removed(s, calls) /\ callStack[s] = calls
        BY <1>3, <1>9, <2>2
      <3> QED
        BY <1>4, <1>5, <1>9, <2>1, <3>1, SessionRemoved
    <2>3. CASE calls # <<>>
      <3>1. /\ others \in Seq(ClientTask)
            /\ \A S : count(calls, S) = count(others, S) + one(last, S)
            /\ \A S : count(others, S) \in Nat
        BY <1>5, <2>3, CountPop, FiniteHits
      <3>2. removed(s, others) /\ last.over
        BY <1>9, <2>3
      <3> HIDE DEF last, others
      <3>3. \A d \in Depths : one(last, StackedAt(d)) = 0
        BY <3>2 DEF one, StackedAt
      <3>4. \A d \in Depths : count(others, StackedAt(d)) = count(callStack[s], StackedAt(d))
        BY <1>3, <3>1, <3>3
      <3> QED
        BY <1>4, <1>9, <2>1, <3>1, <3>2, <3>4, SessionRemoved
    <2> QED
      BY <2>2, <2>3
  <1> QED
    BY <1>4, <1>7, <1>8, <1>9

-----------------------------------------------------------------------------
\* The theorems

LEMMA StutterKeeps ==
  ASSUME IInv, UNCHANGED vars
  PROVE  IInv'
  <1>1. /\ TypeOK /\ FramesSound /\ CallsTraced /\ TasksTraced /\ ClientsServed /\ SessionsTracked
        /\ UNCHANGED <<clientVars, link, toClient, hubVars, mainToHub, hubToMain, mainVars, failed>>
    BY DEF IInv, vars
  <1>2. FramesSound' /\ CallsTraced' /\ TasksTraced' /\ SessionsTracked'
    BY <1>1, ServerSame
  <1>3. ClientsServed'
    <2>1. submitted' = submitted
      BY <1>1 DEF hubVars
    <2> QED
      BY <1>1, <2>1, ClientsSame
  <1>4. TypeOK'
    BY <1>1 DEF TypeOK, clientVars, hubVars, mainVars
  <1> QED
    BY <1>2, <1>3, <1>4 DEF IInv

LEMMA StepKeeps ==
  ASSUME IInv, [Next]_vars
  PROVE  IInv'
  <1>1. CASE ClientStep
    <2>1. PICK s \in Sessions :
              ClientReads(s) \/ ClientLeaves(s) \/ \E kind \in Commands[s] : ClientRequests(s, kind)
      BY <1>1 DEF ClientStep
    <2>2. ASSUME NEW kind \in Commands[s], ClientRequests(s, kind) PROVE IInv'
      <3>1. kind \in Kinds
        BY ApiSessionsAssumption DEF Kinds
      <3> QED
        BY <2>2, <3>1, ClientRequestsKeeps
    <2> QED
      BY <2>1, <2>2, ClientReadsKeeps, ClientLeavesKeeps
  <1>2. CASE HubStep
    BY <1>2, HubReadsPipeKeeps, HubHandlesResultKeeps, HubHandlesCallKeeps, HubReadsClientKeeps,
       HubRemovesClientKeeps DEF HubStep
  <1>3. CASE MainStep
    BY <1>3, MainReadsPipeKeeps, MainHandlesMessageKeeps, TaskPrintsKeeps, TaskReturnsKeeps,
       FlushEndsKeeps, CallReturnsKeeps, NotifyKeeps DEF MainStep
  <1>4. CASE \E ended, labels \in SUBSET waiting : BootEvent(ended, labels)
    BY <1>4, BootEventKeeps
  <1>5. CASE UNCHANGED vars
    BY <1>5, StutterKeeps
  <1> QED
    BY <1>1, <1>2, <1>3, <1>4, <1>5 DEF Next

\* The places where CallInOnePlace looks for a call are those of the traces.
LEMMA SamePlaces ==
  ASSUME TypeOK, NEW d \in DOMAIN stack
  PROVE  d \in Depths /\ places(d) = traces(d) + IF stack[d].answer # "none" THEN 1 ELSE 0
  <1>1. /\ mainToHub \in Seq(ToHub) /\ hubBatch \in Seq(ToHub) /\ hubToMain \in Seq(ToMain)
        /\ stack \in Seq(Frame) /\ callStack \in [Sessions -> Seq(ClientTask)]
    BY DEF TypeOK
  <1>2. d \in Depths /\ DOMAIN stack \subseteq Nat
    BY <1>1 DEF Depths
  <1>3. ASSUME NEW q \in Seq(ToHub) PROVE calls_of(q, d) = hits(q, CallsAt(d))
    <2>1. \A i \in DOMAIN q : q[i] \in ToHub
      OBVIOUS
    <2> QED
      BY <2>1 DEF calls_of, hits, CallsAt
  <1>4. ASSUME NEW q \in Seq(ToMain) PROVE results_of(q, d) = hits(q, ResultsAt(d))
    <2>1. \A i \in DOMAIN q : q[i] \in ToMain
      OBVIOUS
    <2> QED
      BY <2>1 DEF results_of, hits, ResultsAt
  <1>5. UNION {{s} \X stacked_for(s, d) : s \in Sessions} = nested(callStack, StackedAt(d))
    <2>1. \A s \in Sessions : stacked_for(s, d) = hits(callStack[s], StackedAt(d))
      BY DEF stacked_for, hits, StackedAt
    <2>2. DOMAIN callStack = Sessions
      BY <1>1
    <2> QED
      BY <2>1, <2>2 DEF nested
  <1>6. UNION {{e} \X results_of(stack[e].todo, d) : e \in DOMAIN stack}
        = nested(todos(stack), ResultsAt(d))
    <2>1. \A e \in DOMAIN stack : stack[e].todo \in Seq(ToMain)
      <3>1. \A e \in DOMAIN stack : stack[e] \in Frame
        BY <1>1
      <3> QED
        BY <3>1 DEF Frame
    <2>2. \A e \in DOMAIN stack : results_of(stack[e].todo, d) = hits(stack[e].todo, ResultsAt(d))
      BY <1>4, <2>1
    <2>3. /\ DOMAIN todos(stack) = Nat
          /\ \A e \in DOMAIN stack : todos(stack)[e] = stack[e].todo
          /\ \A e \in Nat : e \notin DOMAIN stack => todos(stack)[e] = <<>>
      BY <1>2 DEF todos
    <2>4. hits(<<>>, ResultsAt(d)) = {}
      BY EmptySeq DEF hits
    <2>5. \A e \in DOMAIN stack :
              results_of(stack[e].todo, d) = hits(todos(stack)[e], ResultsAt(d))
      BY <2>2, <2>3
    <2>6. \A e \in Nat : e \notin DOMAIN stack => hits(todos(stack)[e], ResultsAt(d)) = {}
      BY <2>3, <2>4
    <2>7. nested(todos(stack), ResultsAt(d))
          = UNION {{e} \X hits(todos(stack)[e], ResultsAt(d)) : e \in Nat}
      BY <2>3 DEF nested
    <2> DEFINE H(e) == hits(todos(stack)[e], ResultsAt(d))
               R(e) == results_of(stack[e].todo, d)
    <2>8. /\ \A e \in DOMAIN stack : R(e) = H(e)
          /\ \A e \in Nat : e \notin DOMAIN stack => H(e) = {}
      BY <2>5, <2>6
    <2> HIDE DEF H, R
    <2>9. UNION {{e} \X R(e) : e \in DOMAIN stack} = UNION {{e} \X H(e) : e \in Nat}
      BY <1>2, <2>8
    <2> QED
      BY <2>7, <2>9 DEF H, R
  <1> QED
    BY <1>1, <1>2, <1>3, <1>4, <1>5, <1>6 DEF places, traces, count

LEMMA OnePlace ==
  ASSUME IInv
  PROVE  CallInOnePlace
  <1> SUFFICES ASSUME NEW d \in DOMAIN stack
               PROVE  places(d) = IF stack[d].call # "none" THEN 1 ELSE 0
    BY DEF CallInOnePlace
  <1>1. TypeOK /\ FramesSound /\ CallsTraced
    BY DEF IInv
  <1>2. d \in Depths /\ places(d) = traces(d) + IF stack[d].answer # "none" THEN 1 ELSE 0
    BY <1>1, SamePlaces
  <1>3. traces(d) = IF stack[d].call # "none" /\ stack[d].answer = "none" THEN 1 ELSE 0
    BY <1>1, <1>2 DEF CallsTraced, awaits
  <1>4. stack[d].answer # "none" => stack[d].call # "none"
    BY <1>1 DEF FramesSound, FrameOK
  <1> QED
    BY <1>2, <1>3, <1>4

LEMMA InvariantHolds == Spec => []IInv
  <1>1. Init => IInv
    BY InitInv
  <1>2. IInv /\ [Next]_vars => IInv'
    BY StepKeeps
  <1> QED
    BY <1>1, <1>2, PTL DEF Spec

\* The variables of the hub, of server-main, of the pipes and of the clients keep their
\* types, the nested handlers and the messages they hold included (process.py,
\* hub/client.py).
THEOREM TypeCorrect == Spec => []TypeOK
  <1>1. IInv => TypeOK
    BY DEF IInv
  <1> QED
    BY <1>1, InvariantHolds, PTL

\* A call that a handler of server-main waits for is in exactly one place, as a call or
\* as its result, however deep the handlers nest, whatever the clients answer, and
\* whether or not a close() is interrupted (sync_runner(), process.py, and
\* stack_of_client_tasks, hub/client.py).
THEOREM CallsKept == Spec => []CallInOnePlace
  BY InvariantHolds, OnePlace, PTL

\* A task the hub keeps in submitted_tasks is at one stage: its message is on its way, or
\* it runs, or waits for nodes, or its result is on its way. A result the hub takes is
\* thus always the first and only one of a task it knows (handle_api_call(), process.py).
THEOREM TasksKept == Spec => []TasksTraced
  <1>1. IInv => TasksTraced
    BY DEF IInv
  <1> QED
    BY <1>1, InvariantHolds, PTL

\* A client is sent nothing after the result of its request and before it sends another
\* one, whatever the calls that flush() makes for it from nested handlers
\* (handle_api_call(), process.py).
THEOREM ResultsLast == Spec => []ClientsExpectCalls
  <1>1. IInv => ClientsExpectCalls
    BY DEF IInv, ClientsServed, ClientsExpectCalls
  <1> QED
    BY <1>1, InvariantHolds, PTL

\* Main keeps a session only for a client that is connected, or until the destroy_session
\* on its way, apart from the two exceptions the property names (main/apisession.py).
THEOREM SessionsReleased == Spec => []SessionsFollowClients
  <1>1. IInv => SessionsFollowClients
    BY DEF IInv, SessionsTracked, SessionsFollowClients
  <1> QED
    BY <1>1, InvariantHolds, PTL
=============================================================================
