----------------------- MODULE NetworkTopologyProofs -----------------------
(***************************************************************************)
(* Proofs about NetworkTopology and the operators of LinkLayer.            *)
(*                                                                         *)
(* Induction over data is done with sets instead of predicates: a set of   *)
(* naturals that is not empty has a least element (NatMin), and a function *)
(* whose value at x depends on its values at smaller arguments only exists *)
(* (Recursion). The folds and the recursive functions of LinkLayer thus    *)
(* satisfy their equations.                                                *)
(***************************************************************************)
EXTENDS NetworkTopology, FiniteSetTheorems, WellFoundedInduction, TLAPS

-----------------------------------------------------------------------------
\* Induction

\* A set of naturals that is not empty has a least element.
LEMMA NatMin ==
    ASSUME NEW T \in SUBSET Nat, T # {}
    PROVE \E x \in T : \A y \in T : x <= y
<1> DEFINE R == OpToRel(<, Nat)
<1>1. IsWellFoundedOn(R, Nat)
    BY NatLessThanWellFounded
<1>2. PICK x \in T : \A y \in T : <<y, x>> \notin R
  <2> HIDE DEF R
  <2> QED
    BY <1>1, WFMin
<1>3. \A y \in T : <<y, x>> \notin R => x <= y
    BY DEF OpToRel
<1> QED
    BY <1>2, <1>3

\* A set of arguments that is not empty has one of the least measure.
LEMMA LeastMeasure ==
    ASSUME NEW D, NEW m \in [D -> Nat], NEW T \in SUBSET D, T # {}
    PROVE \E x \in T : \A y \in T : m[x] <= m[y]
<1> DEFINE S == {m[x] : x \in T}
<1>0. S \in SUBSET Nat /\ S # {}
    OBVIOUS
<1>1. PICK n \in S : \A k \in S : n <= k
  <2> HIDE DEF S
  <2> QED
    BY <1>0, NatMin
<1> QED
    BY <1>1

\* The value of F at x depends on the values of f at smaller arguments, given by m, only.
Coherent(D, V, m, F) ==
    \A x \in D : \A f, g \in [D -> V] :
        (\A y \in D : m[y] < m[x] => f[y] = g[y]) => F[<<x, f>>] = F[<<x, g>>]

\* Two functions that satisfy the equation of F below n are equal there.
LEMMA EqualBelow ==
    ASSUME NEW D, NEW V, NEW m \in [D -> Nat], NEW F, Coherent(D, V, m, F), NEW n \in Nat,
           NEW f \in [D -> V], \A x \in D : m[x] < n => f[x] = F[<<x, f>>],
           NEW g \in [D -> V], \A x \in D : m[x] < n => g[x] = F[<<x, g>>]
    PROVE \A x \in D : m[x] < n => f[x] = g[x]
<1> DEFINE T == {x \in D : m[x] < n /\ f[x] # g[x]}
<1> SUFFICES ASSUME T # {} PROVE FALSE
    OBVIOUS
<1>1. PICK x \in T : \A y \in T : m[x] <= m[y]
  <2> HIDE DEF T
  <2>1. T \in SUBSET D
    BY DEF T
  <2> QED
    BY <2>1, LeastMeasure
<1>2. \A y \in D : m[y] < m[x] => f[y] = g[y]
  <2> SUFFICES ASSUME NEW y \in D, m[y] < m[x], f[y] # g[y] PROVE FALSE
    OBVIOUS
  <2>1. m[y] \in Nat /\ m[x] \in Nat /\ m[x] < n
    BY <1>1
  <2>2. y \in T
    BY <2>1
  <2> QED
    BY <1>1, <2>1, <2>2
<1>3. F[<<x, f>>] = F[<<x, g>>]
    BY <1>1, <1>2 DEF Coherent
<1> QED
    BY <1>1, <1>3

Recursive(D, V, m, F) ==
    V # {} /\ m \in [D -> Nat] /\ F \in [D \X [D -> V] -> V] /\ Coherent(D, V, m, F)

Solves(f, D, V, F) == f \in [D -> V] /\ \A x \in D : f[x] = F[<<x, f>>]

\* The equation of F has a solution.
LEMMA Recursion ==
    ASSUME NEW D, NEW V, NEW m, NEW F, Recursive(D, V, m, F)
    PROVE \E f : Solves(f, D, V, F)
<1> USE DEF Recursive
<1> DEFINE Good(n, f) == \A x \in D : m[x] < n => f[x] = F[<<x, f>>]
           N == {n \in Nat : \E f \in [D -> V] : Good(n, f)}
<1>1. N = Nat
  <2> SUFFICES ASSUME Nat \ N # {} PROVE FALSE
    OBVIOUS
  <2>1. PICK n \in Nat \ N : \A k \in Nat \ N : n <= k
    <3> HIDE DEF N
    <3> QED
      BY NatMin
  <2>2. PICK f0 \in [D -> V] : Good(0, f0)
    <3>1. PICK v \in V : TRUE
      OBVIOUS
    <3>2. [x \in D |-> v] \in [D -> V] /\ Good(0, [x \in D |-> v])
      OBVIOUS
    <3> QED
      BY <3>2
  <2>3. n # 0
    BY <2>1, <2>2
  <2>4. n - 1 \in Nat /\ n - 1 \in N
    <3> HIDE DEF N
    <3> QED
      BY <2>1, <2>3
  <2>5. PICK f \in [D -> V] : Good(n - 1, f)
    BY <2>4
  <2> DEFINE g == [x \in D |-> F[<<x, f>>]]
  <2>6. g \in [D -> V]
    OBVIOUS
  <2>7. ASSUME NEW x \in D, m[x] < n PROVE g[x] = F[<<x, g>>]
    <3>1. \A y \in D : m[y] < m[x] => f[y] = g[y]
      <4> SUFFICES ASSUME NEW y \in D, m[y] < m[x] PROVE f[y] = g[y]
        OBVIOUS
      <4>1. m[y] < n - 1
        BY <2>1, <2>7
      <4> QED
        BY <4>1, <2>5
    <3> HIDE DEF g
    <3>2. F[<<x, f>>] = F[<<x, g>>]
      BY <2>6, <3>1 DEF Coherent
    <3> QED
      BY <3>2 DEF g
  <2> HIDE DEF g
  <2>8. n \in N
    BY <2>1, <2>6, <2>7
  <2> QED
    BY <2>1, <2>8
<1>2. PICK h \in [Nat -> [D -> V]] : \A n \in Nat : Good(n, h[n])
  <2> HIDE DEF Good
  <2> DEFINE h == [n \in Nat |-> CHOOSE f \in [D -> V] : Good(n, f)]
  <2>1. \A n \in Nat : h[n] \in [D -> V] /\ Good(n, h[n])
    BY <1>1
  <2> QED
    BY <2>1
<1> DEFINE f == [x \in D |-> h[m[x] + 1][x]]
<1>3. f \in [D -> V]
    OBVIOUS
<1>4. ASSUME NEW x \in D PROVE f[x] = F[<<x, f>>]
  <2> DEFINE n == m[x] + 1
  <2>1. n \in Nat /\ m[x] \in Nat
    OBVIOUS
  <2>2. h[n] \in [D -> V] /\ f[x] = F[<<x, h[n]>>]
    <3>1. m[x] < n /\ f[x] = h[n][x]
      BY <2>1
    <3>2. Good(n, h[n])
      BY <1>2, <2>1
    <3> HIDE DEF n, f
    <3> QED
      BY <2>1, <3>1, <3>2
  <2>3. ASSUME NEW y \in D, m[y] < m[x] PROVE h[n][y] = f[y]
    <3> DEFINE k == m[y] + 1
    <3>1. k \in Nat /\ m[y] < k /\ k <= n /\ m[y] \in Nat
      BY <2>1, <2>3
    <3>2. Good(k, h[k]) /\ Good(n, h[n])
      BY <1>2, <2>1, <3>1
    <3>3. h[k] \in [D -> V] /\ h[n] \in [D -> V]
      BY <2>1, <3>1
    <3> HIDE DEF n
    <3>4. h[n][y] = h[k][y]
      <4> HIDE DEF k
      <4>1. Good(k, h[n])
        <5> SUFFICES ASSUME NEW z \in D, m[z] < k PROVE h[n][z] = F[<<z, h[n]>>]
          OBVIOUS
        <5>1. m[z] < n
          <6>1. m[z] \in Nat
            OBVIOUS
          <6> QED
            BY <2>1, <3>1, <6>1
        <5> QED
          BY <3>2, <5>1
      <4> DEFINE p == h[k]
                 q == h[n]
      <4>2. k \in Nat
        BY <3>1
      <4>3. p \in [D -> V] /\ \A z \in D : m[z] < k => p[z] = F[<<z, p>>]
        BY <3>2, <3>3
      <4>4. q \in [D -> V] /\ \A z \in D : m[z] < k => q[z] = F[<<z, q>>]
        BY <3>3, <4>1
      <4>5. \A z \in D : m[z] < k => q[z] = p[z]
        <5> HIDE DEF p, q, f
        <5> QED
          BY <4>2, <4>3, <4>4, EqualBelow
      <4> QED
        BY <3>1, <4>5
    <3> QED
      BY <3>4
  <2> HIDE DEF n, f
  <2> QED
    BY <1>3, <2>2, <2>3 DEF Coherent
<1> HIDE DEF f
<1> QED
    BY <1>3, <1>4 DEF Solves

-----------------------------------------------------------------------------
\* Folds

\* The subsets of a finite set are counted.
LEMMA SubsetSizes ==
    ASSUME NEW D, IsFiniteSet(D)
    PROVE /\ [s \in SUBSET D |-> Cardinality(s)] \in [SUBSET D -> Nat]
          /\ \A s \in SUBSET D : \A x \in s :
                 s \ {x} \in SUBSET D /\ Cardinality(s \ {x}) < Cardinality(s)
          /\ \A s \in SUBSET D : IsFiniteSet(s) /\ Cardinality(s) \in Nat
<1>1. \A s \in SUBSET D : IsFiniteSet(s)
    BY FS_Subset
<1>2. \A s \in SUBSET D : Cardinality(s) \in Nat
    BY <1>1, FS_CardinalityType
<1>3. \A s \in SUBSET D : \A x \in s : Cardinality(s \ {x}) = Cardinality(s) - 1
    BY <1>1, FS_RemoveElement
<1> QED
    BY <1>1, <1>2, <1>3

\* The fold of op over the subsets of D: at each step it takes the element given by c.
Foldable(D, V, base, c, op) ==
    /\ IsFiniteSet(D) /\ base \in V /\ op \in [D \X V -> V]
    /\ \A s \in SUBSET D : s # {} => c[s] \in s

IsFold(iter, D, V, base, c, op) ==
    /\ iter \in [SUBSET D -> V]
    /\ \A s \in SUBSET D : iter[s] = IF s = {} THEN base ELSE op[<<c[s], iter[s \ {c[s]}]>>]

\* A fold over a finite set satisfies its equation.
LEMMA Fold ==
    ASSUME NEW D, NEW V, NEW base, NEW c, NEW op, Foldable(D, V, base, c, op)
    PROVE \E iter : IsFold(iter, D, V, base, c, op)
<1> USE DEF Foldable
<1> DEFINE m == [s \in SUBSET D |-> Cardinality(s)]
           P == SUBSET D
           F == [q \in P \X [P -> V] |->
                    IF q[1] = {} THEN base ELSE op[<<c[q[1]], q[2][q[1] \ {c[q[1]]}]>>]]
<1>1. m \in [P -> Nat]
    BY SubsetSizes
<1>2. \A s \in P : s # {} => c[s] \in s /\ s \ {c[s]} \in P /\ m[s \ {c[s]}] < m[s]
    BY SubsetSizes
<1>3. \A s \in P : \A f \in [P -> V] :
        F[<<s, f>>] = IF s = {} THEN base ELSE op[<<c[s], f[s \ {c[s]}]>>]
    OBVIOUS
<1> HIDE DEF m
<1>4. F \in [P \X [P -> V] -> V]
  <2> SUFFICES ASSUME NEW s \in P, NEW f \in [P -> V]
               PROVE (IF s = {} THEN base ELSE op[<<c[s], f[s \ {c[s]}]>>]) \in V
    BY <1>3
  <2>1. CASE s # {}
    <3>1. c[s] \in D /\ f[s \ {c[s]}] \in V
      BY <1>2, <2>1
    <3> QED
      BY <2>1, <3>1
  <2> QED
    BY <2>1
<1> HIDE DEF P, F
<1>5. Coherent(P, V, m, F)
  <2> SUFFICES ASSUME NEW s \in P, NEW f \in [P -> V], NEW g \in [P -> V],
                      \A r \in P : m[r] < m[s] => f[r] = g[r]
               PROVE F[<<s, f>>] = F[<<s, g>>]
    BY DEF Coherent
  <2>1. CASE s # {}
    <3>1. f[s \ {c[s]}] = g[s \ {c[s]}]
      BY <1>2, <2>1
    <3>2. F[<<s, f>>] = op[<<c[s], f[s \ {c[s]}]>>] /\ F[<<s, g>>] = op[<<c[s], g[s \ {c[s]}]>>]
      BY <1>3, <2>1
    <3> QED
      BY <3>1, <3>2
  <2>2. CASE s = {}
    BY <1>3, <2>2
  <2> QED
    BY <2>1, <2>2
<1>6. Recursive(P, V, m, F)
    BY <1>1, <1>4, <1>5 DEF Recursive
<1>7. PICK iter : Solves(iter, P, V, F)
    BY <1>6, Recursion
<1>8. IsFold(iter, D, V, base, c, op)
    BY <1>3, <1>7 DEF IsFold, Solves, P
<1> QED
    BY <1>8

\* What choose() gives in FoldSet and FoldLeft
any(s) == CHOOSE x \in s : TRUE

\* Max() is in a set of numbers, and bounds it.
LEMMA MaxIn ==
    ASSUME NEW n \in Nat, NEW s \in SUBSET (1..n), s # {}
    PROVE Max(s) \in s /\ \A y \in s : y <= Max(s)
<1> DEFINE T == {n - x : x \in s}
<1>1. T \in SUBSET Nat /\ T # {}
  <2>1. \A x \in s : x \in 1..n
    OBVIOUS
  <2>2. \A x \in 1..n : n - x \in Nat
    OBVIOUS
  <2> QED
    BY <2>1, <2>2
<1>2. PICK k \in T : \A j \in T : k <= j
  <2> HIDE DEF T
  <2> QED
    BY <1>1, NatMin
<1>3. PICK x \in s : k = n - x
    OBVIOUS
<1>4. \A y \in s : x >= y
  <2> SUFFICES ASSUME NEW y \in s PROVE x >= y
    OBVIOUS
  <2>1. x \in 1..n /\ y \in 1..n
    BY <1>3
  <2>2. n - x <= n - y
    BY <1>2, <1>3
  <2> QED
    BY <2>1, <2>2
<1>5. \A y \in s : y \in Int
    OBVIOUS
<1> QED
    BY <1>4 DEF Max

\* A set that has a subset of D as soon as it has all smaller ones has them all.
LEMMA SetInduction ==
    ASSUME NEW D, IsFiniteSet(D), NEW Q,
           \A s \in SUBSET D : (\A r \in SUBSET s : r # s => r \in Q) => s \in Q
    PROVE \A s \in SUBSET D : s \in Q
<1> DEFINE T == {s \in SUBSET D : s \notin Q}
           m == [s \in SUBSET D |-> Cardinality(s)]
<1> SUFFICES ASSUME T # {} PROVE FALSE
    OBVIOUS
<1>1. m \in [SUBSET D -> Nat] /\ T \in SUBSET (SUBSET D)
    BY SubsetSizes
<1>2. PICK s \in T : \A r \in T : m[s] <= m[r]
  <2> HIDE DEF T, m
  <2> QED
    BY <1>1, LeastMeasure
<1>3. \A r \in SUBSET D : Cardinality(r) \in Nat /\ m[r] = Cardinality(r)
    BY SubsetSizes
<1>4. ASSUME NEW r \in SUBSET s, r # s PROVE r \in Q
  <2>1. r \in SUBSET D /\ s \in SUBSET D
    BY <1>2
  <2>2. IsFiniteSet(s)
    BY <2>1, FS_Subset
  <2>3. Cardinality(r) < Cardinality(s)
    <3>1. Cardinality(r) <= Cardinality(s) /\ (Cardinality(s) = Cardinality(r) => s = r)
      BY <1>4, <2>2, FS_Subset
    <3>2. Cardinality(r) \in Nat /\ Cardinality(s) \in Nat
      BY <1>3, <2>1
    <3> QED
      BY <1>4, <3>1, <3>2
  <2>4. r \notin T
    <3> HIDE DEF m, T
    <3> QED
      BY <1>2, <1>3, <2>1, <2>3
  <2> QED
    BY <2>1, <2>4
<1> QED
    BY <1>2, <1>4

-----------------------------------------------------------------------------
\* Groups of connected devices

\* No link crosses C.
Cut(C, links) == \A l \in links : l.a \in C <=> l.b \in C

\* No way leads from x to y.
Apart(x, y, links) == \E C : Cut(C, links) /\ ~(x \in C <=> y \in C)

\* The groups cover the links, are disjoint, and are not cut.
GroupsOf(groups, links) ==
    /\ \A l \in links : \E g \in groups : l.a \in g /\ l.b \in g
    /\ \A g, h \in groups : \A x \in g : x \in h => g = h
    /\ \A C : Cut(C, links) => \A g \in groups : \A x, y \in g : x \in C <=> y \in C

\* group_items() keeps this: the groups it joins are connected by the new link.
LEMMA GroupItems ==
    ASSUME NEW links, NEW groups, GroupsOf(groups, links), NEW l
    PROVE GroupsOf(group_items(l, groups), links \cup {l})
<1> DEFINE touched == {g \in groups : g \cap ends(l) # {}}
           new == ends(l) \cup UNION touched
           result == group_items(l, groups)
<1>1. result = (groups \ touched) \cup {new}
    BY DEF group_items
<1>2. l.a \in new /\ l.b \in new
    BY DEF ends
<1>3. \A g \in touched : g \subseteq new /\ g \in groups /\ (l.a \in g \/ l.b \in g)
    BY DEF ends
<1>4. \A g \in groups : g \in touched \/ (l.a \notin g /\ l.b \notin g)
    BY DEF ends
<1>5. \A x \in new : x = l.a \/ x = l.b \/ \E g \in touched : x \in g
    BY DEF ends
<1> HIDE DEF touched, new, result
<1>6. \A k \in links \cup {l} : \E g \in result : k.a \in g /\ k.b \in g
    BY <1>1, <1>2, <1>3 DEF GroupsOf
<1>7. \A g, h \in result : \A x \in g : x \in h => g = h
  <2>1. \A g \in groups \ touched : \A x \in g : x \notin new
    BY <1>3, <1>4, <1>5 DEF GroupsOf
  <2> QED
    BY <1>1, <2>1 DEF GroupsOf
<1>8. ASSUME NEW C, Cut(C, links \cup {l}), NEW g \in result, NEW x \in g, NEW y \in g
      PROVE x \in C <=> y \in C
  <2>1. Cut(C, links) /\ (l.a \in C <=> l.b \in C)
    BY <1>8 DEF Cut
  <2>2. CASE g \in groups
    BY <2>1, <2>2 DEF GroupsOf
  <2>3. CASE g = new
    <3>1. \A z \in new : z \in C <=> l.a \in C
      BY <1>3, <1>5, <2>1 DEF GroupsOf
    <3> QED
      BY <2>3, <3>1
  <2> QED
    BY <1>1, <2>2, <2>3
<1>9. \A C : Cut(C, links \cup {l}) => \A g \in result : \A x, y \in g : x \in C <=> y \in C
    BY <1>8
<1> QED
    BY <1>6, <1>7, <1>9 DEF GroupsOf, result

\* Grouper computes the groups of the links (grouper.py).
LEMMA Groups ==
    ASSUME NEW links, IsFiniteSet(links)
    PROVE GroupsOf(groups_of(links), links)
<1> DEFINE U == UNION {ends(l) : l \in links}
           V == SUBSET (SUBSET U)
           c == [s \in SUBSET links |-> any(s)]
           op == [q \in links \X V |-> group_items(q[1], q[2])]
<1>1. \A l \in links : \A groups \in V : group_items(l, groups) \in V
    BY DEF group_items, ends
<1>2. op \in [links \X V -> V]
    BY <1>1
<1>3. \A s \in SUBSET links : s # {} => any(s) \in s
    BY DEF any
<1>4. {} \in V
    OBVIOUS
<1>5. \A l \in links : \A groups \in V : op[<<l, groups>>] = group_items(l, groups)
    OBVIOUS
<1>6. \A s \in SUBSET links : c[s] = any(s)
    OBVIOUS
<1> HIDE DEF V, op, c
<1>7. Foldable(links, V, {}, c, op)
    BY <1>2, <1>3, <1>4, <1>6 DEF Foldable
<1>8. PICK iter : IsFold(iter, links, V, {}, c, op)
    BY <1>7, Fold
<1>9. iter = [s \in SUBSET links |->
                 IF s = {} THEN {} ELSE group_items(any(s), iter[s \ {any(s)}])]
  <2>1. \A s \in SUBSET links :
            iter[s] = IF s = {} THEN {} ELSE group_items(any(s), iter[s \ {any(s)}])
    <3> SUFFICES ASSUME NEW s \in SUBSET links, s # {}
                 PROVE iter[s] = group_items(any(s), iter[s \ {any(s)}])
      BY <1>8 DEF IsFold
    <3>1. any(s) \in links /\ iter[s \ {any(s)}] \in V
      BY <1>3, <1>8 DEF IsFold
    <3>2. iter[s] = op[<<any(s), iter[s \ {any(s)}]>>]
      BY <1>6, <1>8 DEF IsFold
    <3> QED
      BY <1>5, <3>1, <3>2
  <2>2. iter = [s \in SUBSET links |-> iter[s]]
    BY <1>8 DEF IsFold
  <2> QED
    BY <2>1, <2>2
<1> DEFINE fold == CHOOSE it : it = [s \in SUBSET links |->
                       IF s = {} THEN {} ELSE group_items(any(s), it[s \ {any(s)}])]
<1>10. fold = [s \in SUBSET links |->
                  IF s = {} THEN {} ELSE group_items(any(s), fold[s \ {any(s)}])]
    BY <1>9
<1>11. groups_of(links) = fold[links]
    BY DEF groups_of, FoldSet, MapThenFoldSet, any
<1> HIDE DEF fold
<1> DEFINE Q == {s \in SUBSET links : GroupsOf(fold[s], s)}
<1>12. ASSUME NEW s \in SUBSET links, \A r \in SUBSET s : r # s => r \in Q PROVE s \in Q
  <2>1. CASE s = {}
    BY <1>10, <2>1 DEF GroupsOf
  <2>2. CASE s # {}
    <3>1. any(s) \in s /\ GroupsOf(fold[s \ {any(s)}], s \ {any(s)})
      BY <1>3, <1>12, <2>2
    <3>2. fold[s] = group_items(any(s), fold[s \ {any(s)}])
      BY <1>10, <2>2
    <3>3. GroupsOf(fold[s], (s \ {any(s)}) \cup {any(s)})
      BY <3>1, <3>2, GroupItems
    <3>4. (s \ {any(s)}) \cup {any(s)} = s
      BY <3>1
    <3> QED
      BY <3>3, <3>4
  <2> QED
    BY <2>1, <2>2
<1>13. links \in Q
  <2> HIDE DEF Q
  <2> QED
    BY <1>12, SetInduction
<1> QED
    BY <1>11, <1>13

\* Two devices are in the same group when a way leads from one to the other.
THEOREM GroupsAreComponents ==
    ASSUME NEW links, IsFiniteSet(links), NEW x, NEW y
    PROVE is_same_group(x, y, links) <=> ~Apart(x, y, links)
<1>1. GroupsOf(groups_of(links), links)
    BY Groups
<1>2. is_same_group(x, y, links) => ~Apart(x, y, links)
    BY <1>1 DEF is_same_group, GroupsOf, Apart
<1>3. ASSUME ~is_same_group(x, y, links) PROVE Apart(x, y, links)
  <2>1. x # y /\ ~\E g \in groups_of(links) : x \in g /\ y \in g
    BY <1>3 DEF is_same_group
  <2>2. ASSUME NEW g \in groups_of(links), x \in g PROVE Apart(x, y, links)
    <3>1. Cut(g, links)
      BY <1>1 DEF GroupsOf, Cut
    <3> QED
      BY <2>1, <2>2, <3>1 DEF Apart
  <2>3. ASSUME ~\E g \in groups_of(links) : x \in g PROVE Apart(x, y, links)
    <3>1. Cut({x}, links)
      BY <1>1, <2>3 DEF GroupsOf, Cut
    <3> QED
      BY <2>1, <3>1 DEF Apart
  <2> QED
    BY <2>2, <2>3
<1> QED
    BY <1>2, <1>3

-----------------------------------------------------------------------------
\* Forests

\* Without a link, its ends are apart: there is no loop.
Loopless(links) == \A l \in links : Apart(l.a, l.b, links \ {l})

\* acyclic() means that links have no loop.
LEMMA AcyclicLoopless ==
    ASSUME NEW links, IsFiniteSet(links)
    PROVE acyclic(links) <=> Loopless(links)
<1>1. ASSUME NEW l \in links
      PROVE is_same_group(l.a, l.b, links \ {l}) <=> ~Apart(l.a, l.b, links \ {l})
  <2>1. IsFiniteSet(links \ {l})
    BY FS_RemoveElement
  <2> QED
    BY <2>1, GroupsAreComponents
<1> QED
    BY <1>1 DEF acyclic, Loopless

\* Fewer links do not connect more.
LEMMA ApartSubset ==
    ASSUME NEW links, NEW S \in SUBSET links, NEW x, NEW y, Apart(x, y, links)
    PROVE Apart(x, y, S)
    BY DEF Apart, Cut

\* A part of a forest is a forest.
LEMMA LooplessSubset ==
    ASSUME NEW links, Loopless(links), NEW S \in SUBSET links
    PROVE Loopless(S)
<1>1. \A l \in S : S \ {l} \in SUBSET (links \ {l})
    OBVIOUS
<1> QED
    BY <1>1, ApartSubset DEF Loopless

\* A link between two devices that were apart does not close a loop.
LEMMA LooplessAdd ==
    ASSUME NEW links, Loopless(links), NEW l, Apart(l.a, l.b, links)
    PROVE Loopless(links \cup {l})
<1>1. PICK B : Cut(B, links) /\ ~(l.a \in B <=> l.b \in B)
    BY DEF Apart
<1>2. ASSUME NEW m \in links \cup {l} PROVE Apart(m.a, m.b, (links \cup {l}) \ {m})
  <2>1. CASE m = l
    <3>1. (links \cup {l}) \ {m} \in SUBSET links
      BY <2>1
    <3> QED
      BY <2>1, <3>1, ApartSubset
  <2>2. CASE m # l
    <3>1. PICK C : Cut(C, links \ {m}) /\ ~(m.a \in C <=> m.b \in C)
      BY <1>2, <2>2 DEF Loopless, Apart
    <3>2. m.a \in B <=> m.b \in B
      BY <1>1, <1>2, <2>2 DEF Cut
    <3> DEFINE others == (links \cup {l}) \ {m}
               Separates(S) == Cut(S, others) /\ ~(m.a \in S <=> m.b \in S)
    <3>3. \A S : Cut(S, links \ {m}) /\ (l.a \in S <=> l.b \in S) => Cut(S, others)
      BY DEF Cut
    <3>4. Cut(B, links \ {m})
      BY <1>1 DEF Cut
    <3>5. /\ Cut(B \cap C, links \ {m}) /\ Cut(B \cup C, links \ {m})
          /\ Cut(B \ C, links \ {m}) /\ Cut(C \ B, links \ {m})
      BY <3>1, <3>4 DEF Cut
    <3>6. \E S \in {B \cap C, B \cup C, B \ C, C \ B} :
              (l.a \in S <=> l.b \in S) /\ ~(m.a \in S <=> m.b \in S)
      <4>1. CASE m.a \in B
        <5>1. (l.a \in B \cap C <=> l.b \in B \cap C) \/ (l.a \in B \ C <=> l.b \in B \ C)
          BY <1>1
        <5>2. /\ ~(m.a \in B \cap C <=> m.b \in B \cap C)
              /\ ~(m.a \in B \ C <=> m.b \in B \ C)
          BY <3>1, <3>2, <4>1
        <5> QED
          BY <5>1, <5>2
      <4>2. CASE m.a \notin B
        <5>1. (l.a \in B \cup C <=> l.b \in B \cup C) \/ (l.a \in C \ B <=> l.b \in C \ B)
          BY <1>1
        <5>2. /\ ~(m.a \in B \cup C <=> m.b \in B \cup C)
              /\ ~(m.a \in C \ B <=> m.b \in C \ B)
          BY <3>1, <3>2, <4>2
        <5> QED
          BY <5>1, <5>2
      <4> QED
        BY <4>1, <4>2
    <3> HIDE DEF others
    <3>7. \E S : Cut(S, others) /\ ~(m.a \in S <=> m.b \in S)
      BY <3>3, <3>5, <3>6
    <3> QED
      BY <3>7 DEF Apart, others
  <2> QED
    BY <2>1, <2>2
<1> QED
    BY <1>2 DEF Loopless

\* Forests that have no device in common make a forest.
LEMMA LooplessUnion ==
    ASSUME NEW A, Loopless(A), NEW R, Loopless(R), NEW known,
           \A k \in A : k.a \in known /\ k.b \in known,
           \A l \in R : l.a \notin known /\ l.b \notin known
    PROVE Loopless(A \cup R)
<1>1. ASSUME NEW m \in A PROVE Apart(m.a, m.b, (A \cup R) \ {m})
  <2>1. PICK C : Cut(C, A \ {m}) /\ ~(m.a \in C <=> m.b \in C)
    BY DEF Loopless, Apart
  <2>2. Cut(C \cap known, (A \cup R) \ {m}) /\ ~(m.a \in C \cap known <=> m.b \in C \cap known)
    BY <2>1 DEF Cut
  <2> QED
    BY <2>2 DEF Apart
<1>2. ASSUME NEW m \in R PROVE Apart(m.a, m.b, (A \cup R) \ {m})
  <2>1. PICK C : Cut(C, R \ {m}) /\ ~(m.a \in C <=> m.b \in C)
    BY DEF Loopless, Apart
  <2>2. Cut(C \ known, (A \cup R) \ {m}) /\ ~(m.a \in C \ known <=> m.b \in C \ known)
    BY <2>1 DEF Cut
  <2> QED
    BY <2>2 DEF Apart
<1> QED
    BY <1>1, <1>2 DEF Loopless

\* Links between the same devices as those of a forest, h, make a forest.
LEMMA LooplessImage ==
    ASSUME NEW links, Loopless(links), NEW S, NEW h,
           \A l \in S : h[l] \in links /\ h[l].a = l.a /\ h[l].b = l.b,
           \A l, m \in S : h[l] = h[m] => l = m
    PROVE Loopless(S)
<1>1. ASSUME NEW l \in S PROVE Apart(l.a, l.b, S \ {l})
  <2>1. PICK C : Cut(C, links \ {h[l]}) /\ ~(h[l].a \in C <=> h[l].b \in C)
    BY DEF Loopless, Apart
  <2>2. \A m \in S \ {l} : h[m] \in links \ {h[l]}
    OBVIOUS
  <2>3. Cut(C, S \ {l}) /\ ~(l.a \in C <=> l.b \in C)
    BY <2>1, <2>2 DEF Cut
  <2> QED
    BY <2>3 DEF Apart
<1> QED
    BY <1>1 DEF Loopless

-----------------------------------------------------------------------------
\* cleanup()

\* The links of a way are among those of the forest it is taken from.
LEMMA WalkLinks ==
    ASSUME NEW links, NEW w \in walks(links)
    PROVE w \subseteq links
<1> DEFINE closing == {l \in links : is_same_group(l.a, l.b, links \ {l})}
           W(k, l) == {path(P, k.a, l.a) \cup path(P, k.a, l.b) \cup {l} :
                         P \in {P \in SUBSET (links \ {l}) :
                                   /\ acyclic(P)
                                   /\ is_same_group(k.a, l.a, P) /\ is_same_group(k.a, l.b, P)}}
<1>1. PICK k \in closing, l \in closing : w \in W(k, l)
  <2>1. walks(links) = UNION {W(k, l) : k \in closing, l \in closing}
    BY DEF walks
  <2> HIDE DEF closing, W
  <2> QED
    BY <2>1
<1>2. \A forest, x, y : path(forest, x, y) \subseteq forest
    BY DEF path
<1> QED
    BY <1>1, <1>2

\* The links of a forest that lead from x to y connect them.
LEMMA PathConnects ==
    ASSUME NEW forest, IsFiniteSet(forest), Loopless(forest), NEW x, NEW y, ~Apart(x, y, forest)
    PROVE ~Apart(x, y, path(forest, x, y))
<1> DEFINE Q == {T \in SUBSET forest : Apart(x, y, T)}
<1>1. PICK T \in SUBSET forest : ~Apart(x, y, T) /\ \A U \in SUBSET T : U # T => Apart(x, y, U)
  <2>1. forest \notin Q
    OBVIOUS
  <2>2. ~\A T \in SUBSET forest : (\A U \in SUBSET T : U # T => U \in Q) => T \in Q
    <3> HIDE DEF Q
    <3> QED
      BY <2>1, SetInduction
  <2> QED
    BY <2>2
<1>2. ASSUME NEW e \in T PROVE Apart(x, y, forest \ {e})
  <2>1. PICK C : Cut(C, forest \ {e}) /\ ~(e.a \in C <=> e.b \in C)
    BY DEF Loopless, Apart
  <2>2. PICK D : Cut(D, T \ {e}) /\ ~(x \in D <=> y \in D)
    <3>1. T \ {e} \in SUBSET T /\ T \ {e} # T
      OBVIOUS
    <3> QED
      BY <1>1, <3>1 DEF Apart
  <2> SUFFICES ASSUME x \in C <=> y \in C PROVE FALSE
    BY <2>1 DEF Apart
  <2>3. /\ Cut(C \cap D, T \ {e}) /\ Cut(C \cup D, T \ {e})
        /\ Cut(C \ D, T \ {e}) /\ Cut(D \ C, T \ {e})
    BY <2>1, <2>2 DEF Cut
  <2>4. \A S : Cut(S, T \ {e}) /\ (e.a \in S <=> e.b \in S) => Cut(S, T)
    BY DEF Cut
  <2>5. \E S \in {C \cap D, C \cup D, C \ D, D \ C} :
            (e.a \in S <=> e.b \in S) /\ ~(x \in S <=> y \in S)
    <3>1. CASE x \in C
      <4>1. (e.a \in C \cap D <=> e.b \in C \cap D) \/ (e.a \in C \ D <=> e.b \in C \ D)
        BY <2>1
      <4>2. ~(x \in C \cap D <=> y \in C \cap D) /\ ~(x \in C \ D <=> y \in C \ D)
        BY <2>2, <3>1
      <4> QED
        BY <4>1, <4>2
    <3>2. CASE x \notin C
      <4>1. (e.a \in C \cup D <=> e.b \in C \cup D) \/ (e.a \in D \ C <=> e.b \in D \ C)
        BY <2>1
      <4>2. ~(x \in C \cup D <=> y \in C \cup D) /\ ~(x \in D \ C <=> y \in D \ C)
        BY <2>2, <3>2
      <4> QED
        BY <4>1, <4>2
    <3> QED
      BY <3>1, <3>2
  <2>6. \E S : Cut(S, T) /\ ~(x \in S <=> y \in S)
    BY <2>3, <2>4, <2>5
  <2> QED
    BY <1>1, <2>6 DEF Apart
<1>3. ASSUME x # y PROVE T \subseteq path(forest, x, y)
  <2> SUFFICES ASSUME NEW e \in T PROVE ~is_same_group(x, y, forest \ {e})
    BY <1>3 DEF path
  <2>1. IsFiniteSet(forest \ {e})
    BY FS_RemoveElement
  <2> QED
    BY <1>2, <2>1, GroupsAreComponents
<1>4. CASE x = y
    BY <1>4 DEF Apart
<1>5. CASE x # y
    BY <1>1, <1>3, <1>5, ApartSubset
<1> QED
    BY <1>4, <1>5

\* A way goes through a link that is not in a given forest.
LEMMA WalkBeyond ==
    ASSUME NEW links, IsFiniteSet(links), NEW Y \in SUBSET links, Loopless(Y), NEW w \in walks(links)
    PROVE \E l \in w : l \notin Y
<1> DEFINE closing == {l \in links : is_same_group(l.a, l.b, links \ {l})}
           forests(k, l) == {P \in SUBSET (links \ {l}) :
                               /\ acyclic(P)
                               /\ is_same_group(k.a, l.a, P) /\ is_same_group(k.a, l.b, P)}
           W(k, l) == {path(P, k.a, l.a) \cup path(P, k.a, l.b) \cup {l} : P \in forests(k, l)}
<1>1. PICK k \in closing, l \in closing : w \in W(k, l)
  <2>1. walks(links) = UNION {W(k, l) : k \in closing, l \in closing}
    BY DEF walks
  <2> HIDE DEF closing, W
  <2> QED
    BY <2>1
<1>2. PICK P \in forests(k, l) : w = path(P, k.a, l.a) \cup path(P, k.a, l.b) \cup {l}
  <2> HIDE DEF forests
  <2> QED
    BY <1>1
<1>3. /\ P \in SUBSET (links \ {l}) /\ acyclic(P)
      /\ is_same_group(k.a, l.a, P) /\ is_same_group(k.a, l.b, P)
    BY <1>2
<1> SUFFICES ASSUME w \subseteq Y PROVE FALSE
    OBVIOUS
<1>4. IsFiniteSet(P)
    BY <1>3, FS_Subset
<1>5. Loopless(P) /\ ~Apart(k.a, l.a, P) /\ ~Apart(k.a, l.b, P)
    BY <1>3, <1>4, AcyclicLoopless, GroupsAreComponents
<1>6. ~Apart(k.a, l.a, path(P, k.a, l.a)) /\ ~Apart(k.a, l.b, path(P, k.a, l.b))
    BY <1>4, <1>5, PathConnects
<1>7. path(P, k.a, l.a) \in SUBSET (Y \ {l}) /\ path(P, k.a, l.b) \in SUBSET (Y \ {l})
  <2>1. \A x, y : path(P, x, y) \subseteq P
    BY DEF path
  <2> QED
    BY <1>2, <1>3, <2>1
<1>8. ~Apart(k.a, l.a, Y \ {l}) /\ ~Apart(k.a, l.b, Y \ {l})
    BY <1>6, <1>7, ApartSubset
<1>9. Apart(l.a, l.b, Y \ {l})
    BY <1>2 DEF Loopless
<1> QED
    BY <1>8, <1>9 DEF Apart

\* Confirmed links that make a forest, and that are more recent than the other ones
Recent(Y, links) ==
    /\ Y \subseteq {l \in links : l.confirmed} /\ Loopless(Y)
    /\ \A k \in Y, l \in links \ Y : l.confirmed => ~(k.last_seen <= l.last_seen)

\* None of them is the oldest one of a loop.
LEMMA RecentStay ==
    ASSUME NEW links, IsFiniteSet(links), NEW Y, Recent(Y, links),
           NEW w \in walks({l \in links : l.confirmed}), NEW l \in oldest(w)
    PROVE l \notin Y
<1> DEFINE confirmed == {k \in links : k.confirmed}
<1>1. IsFiniteSet(confirmed)
    BY FS_Subset
<1>2. Y \in SUBSET confirmed /\ Loopless(Y)
    BY DEF Recent
<1>3. w \in walks(confirmed)
    OBVIOUS
<1> HIDE DEF confirmed
<1>4. PICK m \in w : m \notin Y
    BY <1>1, <1>2, <1>3, WalkBeyond
<1>5. m \in confirmed
    BY <1>3, WalkLinks
<1>6. l.last_seen <= m.last_seen
    BY DEF oldest
<1> QED
    BY <1>4, <1>5, <1>6 DEF Recent, confirmed

\* Step 1: the confirmed links that are kept are a forest, and recent ones that have no loop
\* stay.
LEMMA WithoutLoops ==
    ASSUME NEW links, IsFiniteSet(links), NEW S \in without_loops(links), NEW Y
    PROVE /\ S \subseteq links /\ Loopless({l \in S : l.confirmed})
          /\ Recent(Y, links) => Y \subseteq S
<1> DEFINE P == SUBSET links
           V == SUBSET P
           m == [T \in P |-> Cardinality(T)]
           confirmed(T) == {l \in T : l.confirmed}
           popped(T) == UNION {oldest(w) : w \in walks(confirmed(T))}
           Step(T, f) == IF acyclic(confirmed(T)) THEN {T}
                         ELSE UNION {f[T \ {l}] : l \in popped(T)}
           F == [q \in P \X [P -> V] |-> Step(q[1], q[2])]
<1>1. \A T \in P : popped(T) \subseteq T
    BY WalkLinks DEF oldest
<1>2. \A T \in P : \A l \in popped(T) : T \ {l} \in P /\ m[T \ {l}] < m[T]
    BY <1>1, SubsetSizes
<1>3. m \in [P -> Nat]
    BY SubsetSizes
<1>4. ASSUME NEW T \in P, NEW f \in [P -> V] PROVE Step(T, f) \in V /\ F[<<T, f>>] = Step(T, f)
  <2>1. \A l \in popped(T) : f[T \ {l}] \in V
    BY <1>2
  <2>2. {T} \in V
    OBVIOUS
  <2> HIDE DEF popped, confirmed
  <2>3. UNION {f[T \ {l}] : l \in popped(T)} \in V
    <3>1. \A X \in SUBSET V : UNION X \in V
      OBVIOUS
    <3>2. {f[T \ {l}] : l \in popped(T)} \in SUBSET V
      <4> HIDE DEF V
      <4> QED
        BY <2>1
    <3> QED
      BY <3>1, <3>2
  <2>4. F[<<T, f>>] = Step(T, f)
    OBVIOUS
  <2> QED
    BY <2>2, <2>3, <2>4
<1>5. F \in [P \X [P -> V] -> V]
  <2> HIDE DEF Step, V, P
  <2> QED
    BY <1>4
<1> HIDE DEF m, F, popped
<1>6. ASSUME NEW T \in P, NEW f \in [P -> V], NEW g \in [P -> V],
             \A U \in P : m[U] < m[T] => f[U] = g[U]
      PROVE F[<<T, f>>] = F[<<T, g>>]
  <2>1. \A l \in popped(T) : f[T \ {l}] = g[T \ {l}]
    BY <1>2, <1>6
  <2>2. {f[T \ {l}] : l \in popped(T)} = {g[T \ {l}] : l \in popped(T)}
    BY <2>1
  <2> QED
    BY <1>4, <2>2
<1>7. Recursive(P, V, m, F)
  <2>1. Coherent(P, V, m, F)
    BY <1>6 DEF Coherent
  <2>2. V # {}
    OBVIOUS
  <2> QED
    BY <1>3, <1>5, <2>1, <2>2 DEF Recursive
<1>8. PICK f : Solves(f, P, V, F)
    BY <1>7, Recursion
<1>9. f = [T \in P |-> Step(T, f)]
  <2>1. \A T \in P : f[T] = Step(T, f)
    BY <1>4, <1>8 DEF Solves
  <2>2. f = [T \in P |-> f[T]]
    BY <1>8 DEF Solves
  <2> QED
    BY <2>1, <2>2
<1> DEFINE fix == CHOOSE g : g = [T \in P |-> Step(T, g)]
<1>10. fix = [T \in P |-> Step(T, fix)]
  <2> HIDE DEF Step
  <2> QED
    BY <1>9
<1>11. without_loops(links) = fix[links]
    BY DEF without_loops, popped
<1> HIDE DEF fix
<1> DEFINE Kept(T) == \A R \in fix[T] : /\ R \subseteq T /\ Loopless(confirmed(R))
                                        /\ Recent(Y, T) => Y \subseteq R
           Q == {T \in P : Kept(T)}
<1>12. ASSUME NEW T \in P, \A U \in SUBSET T : U # T => U \in Q PROVE T \in Q
  <2> SUFFICES ASSUME NEW R \in fix[T]
               PROVE R \subseteq T /\ Loopless(confirmed(R)) /\ (Recent(Y, T) => Y \subseteq R)
    OBVIOUS
  <2>1. R \in Step(T, fix)
    <3> HIDE DEF Step
    <3> QED
      BY <1>10
  <2>2. CASE acyclic(confirmed(T))
    <3>1. IsFiniteSet(confirmed(T))
      BY FS_Subset
    <3>2. R = T
      BY <2>1, <2>2
    <3> QED
      BY <2>2, <3>1, <3>2, AcyclicLoopless DEF Recent
  <2>3. CASE ~acyclic(confirmed(T))
    <3>1. PICK l \in popped(T) : R \in fix[T \ {l}]
      BY <2>1, <2>3
    <3>2. T \ {l} \in SUBSET T /\ T \ {l} # T
      BY <1>1, <3>1
    <3>3. Recent(Y, T) => Recent(Y, T \ {l})
      <4> SUFFICES ASSUME Recent(Y, T) PROVE Recent(Y, T \ {l})
        OBVIOUS
      <4>1. IsFiniteSet(T)
        BY FS_Subset
      <4>2. PICK w \in walks({k \in T : k.confirmed}) : l \in oldest(w)
        BY <3>1 DEF popped
      <4>3. l \notin Y
        BY <4>1, <4>2, RecentStay
      <4> QED
        BY <4>3 DEF Recent
    <3>4. /\ R \subseteq T \ {l} /\ Loopless(confirmed(R))
          /\ Recent(Y, T \ {l}) => Y \subseteq R
      BY <1>12, <3>1, <3>2
    <3> QED
      BY <3>3, <3>4
  <2> QED
    BY <2>2, <2>3
<1>13. links \in Q
  <2> HIDE DEF Q
  <2>1. \A T \in P : (\A U \in SUBSET T : U # T => U \in Q) => T \in Q
    BY <1>12
  <2> QED
    BY <2>1, SetInduction
<1> QED
    BY <1>11, <1>13

\* Steps 2 and 3: the unconfirmed links that are kept close no loop. Those that nothing
\* connects to the accepted ones are a part of the past topology, which is a forest. The
\* confirmed ones are all kept.
LEMMA Accepted ==
    ASSUME NEW confirmed, IsFiniteSet(confirmed), Loopless(confirmed),
           NEW unconfirmed, IsFiniteSet(unconfirmed), Loopless(unconfirmed),
           NEW S \in accepted(confirmed, unconfirmed)
    PROVE S \subseteq confirmed \cup unconfirmed /\ Loopless(S) /\ confirmed \subseteq S
<1> DEFINE P == SUBSET (confirmed \cup unconfirmed)
           W == SUBSET unconfirmed
           D == P \X W
           V == SUBSET P
           m == [d \in D |-> Cardinality(d[2])]
           known(A) == UNION pairs(A)
           inside(A, R) == {l \in R : ends(l) \subseteq known(A)}
           looping(A, R) == {l \in inside(A, R) : is_same_group(l.a, l.b, A)}
           touching(A, R) == {l \in R : ends(l) \cap known(A) # {}}
           Step(A, R, f) ==
               IF looping(A, R) # {} THEN f[<<A, R \ looping(A, R)>>]
               ELSE IF inside(A, R) # {}
               THEN UNION {f[<<A \cup {l}, R \ {l}>>] : l \in inside(A, R)}
               ELSE IF touching(A, R) # {}
               THEN UNION {f[<<A \cup {l}, R \ {l}>>] : l \in touching(A, R)}
               ELSE {A \cup R}
           F == [q \in D \X [D -> V] |-> Step(q[1][1], q[1][2], q[2])]
<1>1. ASSUME NEW R \in W, NEW T \in SUBSET R, T # {}
      PROVE R \ T \in W /\ Cardinality(R \ T) < Cardinality(R)
  <2>1. R \ T \in W /\ R \ T # R /\ R \ T \in SUBSET R
    BY <1>1
  <2>2. IsFiniteSet(R)
    BY FS_Subset
  <2>3. Cardinality(R \ T) <= Cardinality(R) /\ Cardinality(R \ T) # Cardinality(R)
    BY <2>1, <2>2, FS_Subset
  <2>4. Cardinality(R \ T) \in Nat /\ Cardinality(R) \in Nat
    BY <2>1, SubsetSizes
  <2> QED
    BY <2>1, <2>3, <2>4
<1>2. ASSUME NEW A \in P, NEW R \in W
      PROVE /\ looping(A, R) \in SUBSET R
            /\ \A l \in inside(A, R) \cup touching(A, R) : l \in R /\ A \cup {l} \in P
    OBVIOUS
<1>3. \A A \in P, R \in W : <<A, R>> \in D /\ m[<<A, R>>] = Cardinality(R)
    OBVIOUS
<1>4. m \in [D -> Nat]
    BY SubsetSizes
\* The arguments of f in its equation
<1> DEFINE after(A, R) ==
               IF looping(A, R) # {} THEN {<<A, R \ looping(A, R)>>}
               ELSE IF inside(A, R) # {}
               THEN {<<A \cup {l}, R \ {l}>> : l \in inside(A, R)}
               ELSE {<<A \cup {l}, R \ {l}>> : l \in touching(A, R)}
<1> HIDE DEF m, known, inside, looping, touching, P, W
<1>5. ASSUME NEW A \in P, NEW R \in W, NEW d \in after(A, R)
      PROVE d \in D /\ m[d] < m[<<A, R>>]
  <2>1. CASE looping(A, R) # {}
    <3>1. R \ looping(A, R) \in W /\ Cardinality(R \ looping(A, R)) < Cardinality(R)
      BY <1>1, <1>2, <2>1
    <3> QED
      BY <1>3, <1>5, <2>1, <3>1
  <2>2. CASE looping(A, R) = {}
    <3>1. PICK l \in inside(A, R) \cup touching(A, R) : d = <<A \cup {l}, R \ {l}>>
      BY <1>5, <2>2
    <3>2. A \cup {l} \in P /\ R \ {l} \in W /\ Cardinality(R \ {l}) < Cardinality(R)
      BY <1>1, <1>2
    <3> QED
      BY <1>3, <3>1, <3>2
  <2> QED
    BY <2>1, <2>2
<1>6. ASSUME NEW A \in P, NEW R \in W, NEW f
      PROVE Step(A, R, f) = IF after(A, R) # {} THEN UNION {f[d] : d \in after(A, R)}
                            ELSE {A \cup R}
  <2>1. CASE looping(A, R) # {}
    <3>1. after(A, R) = {<<A, R \ looping(A, R)>>}
      BY <2>1
    <3>2. Step(A, R, f) = f[<<A, R \ looping(A, R)>>]
      BY <2>1
    <3> HIDE DEF Step, after
    <3> QED
      BY <3>1, <3>2
  <2>2. CASE looping(A, R) = {} /\ inside(A, R) # {}
    <3>1. after(A, R) = {<<A \cup {l}, R \ {l}>> : l \in inside(A, R)}
      BY <2>2
    <3>2. Step(A, R, f) = UNION {f[<<A \cup {l}, R \ {l}>>] : l \in inside(A, R)}
      BY <2>2
    <3> HIDE DEF Step, after
    <3> QED
      BY <2>2, <3>1, <3>2
  <2>3. CASE looping(A, R) = {} /\ inside(A, R) = {}
    <3>1. after(A, R) = {<<A \cup {l}, R \ {l}>> : l \in touching(A, R)}
      BY <2>3
    <3>2. Step(A, R, f) = IF touching(A, R) # {}
                          THEN UNION {f[<<A \cup {l}, R \ {l}>>] : l \in touching(A, R)}
                          ELSE {A \cup R}
      BY <2>3
    <3> HIDE DEF Step, after
    <3> QED
      BY <3>1, <3>2
  <2> QED
    BY <2>1, <2>2, <2>3
<1> HIDE DEF Step, after
<1>7. ASSUME NEW A \in P, NEW R \in W, NEW f \in [D -> V] PROVE Step(A, R, f) \in V
  <2>1. \A d \in after(A, R) : f[d] \in V
    BY <1>5
  <2>2. {f[d] : d \in after(A, R)} \in SUBSET V
    BY <2>1
  <2>3. \A X \in SUBSET V : UNION X \in V
    OBVIOUS
  <2>4. UNION {f[d] : d \in after(A, R)} \in V
    BY <2>2, <2>3
  <2>5. {A \cup R} \in V
    BY DEF P, W
  <2> QED
    BY <1>6, <2>4, <2>5
<1>8. F \in [D \X [D -> V] -> V]
  <2>1. \A d \in D, f \in [D -> V] : Step(d[1], d[2], f) \in V
    BY <1>7
  <2> HIDE DEF D, V
  <2> QED
    BY <2>1
<1>9. \A d \in D, f \in [D -> V] : F[<<d, f>>] = Step(d[1], d[2], f)
    OBVIOUS
<1> HIDE DEF F
<1>10. Coherent(D, V, m, F)
  <2> SUFFICES ASSUME NEW d \in D, NEW f \in [D -> V], NEW g \in [D -> V],
                      \A e \in D : m[e] < m[d] => f[e] = g[e]
               PROVE F[<<d, f>>] = F[<<d, g>>]
    BY DEF Coherent
  <2> DEFINE A == d[1]
             R == d[2]
  <2>1. A \in P /\ R \in W /\ d = <<A, R>>
    OBVIOUS
  <2> HIDE DEF A, R, V
  <2>2. \A e \in after(A, R) : f[e] = g[e]
    BY <1>5, <2>1
  <2>3. {f[e] : e \in after(A, R)} = {g[e] : e \in after(A, R)}
    BY <2>2
  <2>4. Step(A, R, f) = Step(A, R, g)
    <3>1. Step(A, R, f) = IF after(A, R) # {} THEN UNION {f[e] : e \in after(A, R)}
                          ELSE {A \cup R}
      BY <1>6, <2>1
    <3>2. Step(A, R, g) = IF after(A, R) # {} THEN UNION {g[e] : e \in after(A, R)}
                          ELSE {A \cup R}
      BY <1>6, <2>1
    <3> QED
      BY <2>3, <3>1, <3>2
  <2> QED
    BY <1>9, <2>4 DEF A, R
<1>11. Recursive(D, V, m, F)
  <2>1. V # {}
    OBVIOUS
  <2> QED
    BY <1>4, <1>8, <1>10, <2>1 DEF Recursive
<1>12. PICK f : Solves(f, D, V, F)
    BY <1>11, Recursion
<1>13. f = [d \in D |-> Step(d[1], d[2], f)]
  <2>1. \A d \in D : f[d] = Step(d[1], d[2], f)
    BY <1>9, <1>12 DEF Solves
  <2>2. f = [d \in D |-> f[d]]
    BY <1>12 DEF Solves
  <2> HIDE DEF D
  <2> QED
    BY <2>1, <2>2
<1> DEFINE fix == CHOOSE g : g = [d \in D |-> Step(d[1], d[2], g)]
<1>14. fix = [d \in D |-> Step(d[1], d[2], fix)]
  <2> HIDE DEF D
  <2> QED
    BY <1>13
<1>15. accepted(confirmed, unconfirmed) = fix[<<confirmed, unconfirmed>>]
    BY DEF accepted, Step, known, inside, looping, touching, P, W
<1> HIDE DEF fix
<1>16. \A A \in P, R \in W : fix[<<A, R>>] = Step(A, R, fix)
    BY <1>14
<1> DEFINE Sound(A, R) ==
               \A T \in fix[<<A, R>>] : T \subseteq A \cup R /\ Loopless(T) /\ A \subseteq T
           Q == {R \in W : Loopless(R) => \A A \in P : Loopless(A) => Sound(A, R)}
<1>17. ASSUME NEW R \in W, \A U \in SUBSET R : U # R => U \in Q PROVE R \in Q
  <2> SUFFICES ASSUME Loopless(R), NEW A \in P, Loopless(A) PROVE Sound(A, R)
    OBVIOUS
  <2>1. fix[<<A, R>>] = IF after(A, R) # {} THEN UNION {fix[d] : d \in after(A, R)}
                        ELSE {A \cup R}
    BY <1>6, <1>16
  <2>2. IsFiniteSet(A)
    BY FS_Union, FS_Subset DEF P
  <2>3. ASSUME NEW l \in R, Apart(l.a, l.b, A), A \cup {l} \in P PROVE Sound(A \cup {l}, R \ {l})
    <3>1. R \ {l} \in SUBSET R /\ R \ {l} # R
      OBVIOUS
    <3>2. Loopless(R \ {l}) /\ Loopless(A \cup {l})
      BY <2>3, <3>1, LooplessSubset, LooplessAdd
    <3>3. R \ {l} \in Q
      BY <1>17, <3>1
    <3> HIDE DEF Sound
    <3> QED
      BY <2>3, <3>2, <3>3
  <2>4. \A k \in A : k.a \in known(A) /\ k.b \in known(A)
    BY DEF known, pairs, ends
  <2>5. ASSUME NEW l \in inside(A, R), l \notin looping(A, R) PROVE Sound(A \cup {l}, R \ {l})
    <3>1. l \in R /\ A \cup {l} \in P
      BY <1>2
    <3>2. Apart(l.a, l.b, A)
      BY <2>2, <2>5, GroupsAreComponents DEF looping
    <3> QED
      BY <2>3, <3>1, <3>2
  <2>6. ASSUME NEW l \in touching(A, R), l \notin inside(A, R) PROVE Sound(A \cup {l}, R \ {l})
    <3>1. l \in R /\ A \cup {l} \in P
      BY <1>2
    <3>2. Cut(known(A), A) /\ ~(l.a \in known(A) <=> l.b \in known(A))
      BY <2>4, <2>6 DEF touching, inside, ends, Cut
    <3> QED
      BY <2>3, <3>1, <3>2 DEF Apart
  <2>7. CASE looping(A, R) # {}
    <3>1. after(A, R) = {<<A, R \ looping(A, R)>>}
      BY <2>7 DEF after
    <3>2. R \ looping(A, R) \in SUBSET R /\ R \ looping(A, R) # R
      BY <1>2, <2>7
    <3>3. Loopless(R \ looping(A, R))
      BY <3>2, LooplessSubset
    <3>4. Sound(A, R \ looping(A, R))
      <4>1. R \ looping(A, R) \in Q
        BY <1>17, <3>2
      <4> HIDE DEF Sound
      <4> QED
        BY <3>3, <4>1
    <3>5. fix[<<A, R>>] = fix[<<A, R \ looping(A, R)>>]
      BY <2>1, <3>1
    <3> SUFFICES ASSUME NEW T \in fix[<<A, R>>]
                 PROVE T \subseteq A \cup R /\ Loopless(T) /\ A \subseteq T
      OBVIOUS
    <3>6. T \subseteq A \cup (R \ looping(A, R)) /\ Loopless(T) /\ A \subseteq T
      BY <3>4, <3>5
    <3> QED
      BY <3>6
  <2>8. CASE looping(A, R) = {} /\ after(A, R) # {}
    <3>1. \A d \in after(A, R) : \E l \in R : d = <<A \cup {l}, R \ {l}>> /\ Sound(A \cup {l}, R \ {l})
      <4>1. CASE inside(A, R) # {}
        <5>1. after(A, R) = {<<A \cup {l}, R \ {l}>> : l \in inside(A, R)}
          BY <2>8, <4>1 DEF after
        <5> QED
          BY <1>2, <2>5, <2>8, <5>1
      <4>2. CASE inside(A, R) = {}
        <5>1. after(A, R) = {<<A \cup {l}, R \ {l}>> : l \in touching(A, R)}
          BY <2>8, <4>2 DEF after
        <5> QED
          BY <1>2, <2>6, <4>2, <5>1
      <4> QED
        BY <4>1, <4>2
    <3> SUFFICES ASSUME NEW T \in fix[<<A, R>>]
                 PROVE T \subseteq A \cup R /\ Loopless(T) /\ A \subseteq T
      OBVIOUS
    <3>2. PICK d \in after(A, R) : T \in fix[d]
      BY <2>1, <2>8
    <3>3. PICK l \in R : d = <<A \cup {l}, R \ {l}>> /\ Sound(A \cup {l}, R \ {l})
      BY <3>1
    <3>4. T \subseteq (A \cup {l}) \cup (R \ {l}) /\ Loopless(T) /\ A \cup {l} \subseteq T
      BY <3>2, <3>3
    <3> QED
      BY <3>4
  <2>9. CASE looping(A, R) = {} /\ after(A, R) = {}
    <3>1. inside(A, R) = {} /\ touching(A, R) = {}
      <4>1. inside(A, R) = {}
        BY <2>9 DEF after
      <4> QED
        BY <2>9, <4>1 DEF after
    <3>2. \A l \in R : l.a \notin known(A) /\ l.b \notin known(A)
      BY <3>1 DEF touching, ends
    <3>3. Loopless(A \cup R)
      BY <2>4, <3>2, LooplessUnion
    <3>4. fix[<<A, R>>] = {A \cup R}
      BY <2>1, <2>9
    <3> QED
      BY <3>3, <3>4
  <2> QED
    BY <2>7, <2>8, <2>9
<1>18. unconfirmed \in Q
  <2> HIDE DEF Q
  <2>1. \A T \in W : (\A U \in SUBSET T : U # T => U \in Q) => T \in Q
    BY <1>17
  <2> QED
    BY <2>1, SetInduction DEF W
<1> QED
    BY <1>15, <1>18 DEF P
\* A node keeps one link, and the one that has priority over its other ones.
OnePer(T, links, nodes) ==
    /\ T \subseteq links
    /\ \A n \in nodes : \A k, l \in T : n \in ends(k) /\ n \in ends(l) => k = l
    /\ \A k \in links : ends(k) \cap nodes = {} => k \in T
    /\ \A k \in T : ends(k) \cap nodes = {} \/ \E n \in nodes : ends(k) \cap nodes = {n}
    /\ \A n \in nodes : \A k \in of_node(links, n, nodes) :
          (\A m \in of_node(links, n, nodes) : ~lower(k, m) /\ (m # k => lower(m, k))) => k \in T

\* Step 0 of cleanup(): what one_per_node() keeps.
LEMMA OnePerNodeKept ==
    ASSUME NEW links, NEW nodes, NEW T \in one_per_node(links, nodes)
    PROVE OnePer(T, links, nodes)
<1> DEFINE others == {l \in links : ends(l) \cap nodes = {}}
           linked == {n \in nodes : of_node(links, n, nodes) # {}}
           kept == SUBSET UNION {of_node(links, n, nodes) : n \in nodes}
           best(n) == {l \in of_node(links, n, nodes) :
                          \A m \in of_node(links, n, nodes) : ~lower(l, m)}
           chosen == {K \in kept : \A n \in linked : \E l \in best(n) : of_node(K, n, nodes) = {l}}
<1>1. one_per_node(links, nodes) = {others \cup K : K \in chosen}
    BY DEF one_per_node
<1>2. PICK K \in kept : /\ T = others \cup K
                        /\ \A n \in linked : \E l \in best(n) : of_node(K, n, nodes) = {l}
  <2>1. PICK K \in chosen : T = others \cup K
    <3> HIDE DEF chosen, others
    <3> QED
      BY <1>1
  <2>2. \A n \in linked : \E l \in best(n) : of_node(K, n, nodes) = {l}
    <3> HIDE DEF kept, linked, best
    <3> QED
      OBVIOUS
  <2>3. K \in kept
    <3> HIDE DEF kept, linked, best
    <3> QED
      OBVIOUS
  <2> HIDE DEF linked, best, chosen, kept
  <2> QED
    BY <2>1, <2>2, <2>3
<1>3. \A l \in K : l \in links /\ \E n \in linked : ends(l) \cap nodes = {n}
    BY DEF of_node
<1>4. \A n \in linked : \A l \in best(n) :
          l \in of_node(links, n, nodes) /\ \A m \in of_node(links, n, nodes) : ~lower(l, m)
    OBVIOUS
<1>5. \A k \in others : k \in links /\ ends(k) \cap nodes = {}
    OBVIOUS
<1>6. \A k \in links : ends(k) \cap nodes = {} => k \in others
    OBVIOUS
<1>7. \A n \in nodes : \A k \in of_node(links, n, nodes) : n \in linked
    OBVIOUS
<1>8. \A n \in linked : n \in nodes
    OBVIOUS
<1> HIDE DEF others, linked, kept, best, chosen
<1>9. \A n \in nodes : \A k, l \in T : n \in ends(k) /\ n \in ends(l) => k = l
  <2> SUFFICES ASSUME NEW n \in nodes, NEW k \in T, NEW l \in T, n \in ends(k), n \in ends(l)
               PROVE k = l
    OBVIOUS
  <2>1. k \in K /\ l \in K
    BY <1>2, <1>5
  <2>2. k \in of_node(K, n, nodes) /\ l \in of_node(K, n, nodes) /\ n \in linked
    BY <1>3, <2>1 DEF of_node
  <2> QED
    BY <1>2, <2>2
<1>10. ASSUME NEW n \in nodes, NEW k \in of_node(links, n, nodes),
              \A m \in of_node(links, n, nodes) : ~lower(k, m) /\ (m # k => lower(m, k))
       PROVE k \in T
  <2>1. PICK l \in best(n) : of_node(K, n, nodes) = {l}
    BY <1>2, <1>7
  <2>2. l \in of_node(links, n, nodes) /\ ~lower(l, k)
    BY <1>4, <1>7
  <2>3. l = k
    BY <1>10, <2>2
  <2>4. k \in K
    BY <2>1, <2>3 DEF of_node
  <2> QED
    BY <1>2, <2>4
<1>11. \A k \in T : ends(k) \cap nodes = {} \/ \E n \in nodes : ends(k) \cap nodes = {n}
    BY <1>2, <1>3, <1>5, <1>8
<1>12. T \subseteq links
    BY <1>2, <1>3, <1>5
<1> QED
    BY <1>2, <1>6, <1>9, <1>10, <1>11, <1>12 DEF OnePer

\* What cleanup() does after it has kept one link for each node
LEMMA Cleanup ==
    ASSUME NEW links, IsFiniteSet(links), NEW nodes, Loopless({l \in links : ~l.confirmed}),
           NEW S \in cleanup(links, nodes)
    PROVE \E T : /\ OnePer(T, links, nodes) /\ S \subseteq T /\ Loopless(S)
                 /\ \A Y : Recent(Y, T) => Y \subseteq S
<1> DEFINE accepted_of(U) == accepted({l \in U : l.confirmed}, {l \in U : ~l.confirmed})
<1>1. PICK T \in one_per_node(links, nodes) : \E U \in without_loops(T) : S \in accepted_of(U)
    BY DEF cleanup
<1>2. PICK U \in without_loops(T) : S \in accepted_of(U)
    BY <1>1
<1>3. OnePer(T, links, nodes)
    BY OnePerNodeKept
<1>4. T \subseteq links /\ IsFiniteSet(T)
    BY <1>3, FS_Subset DEF OnePer
<1>5. U \subseteq T /\ Loopless({l \in U : l.confirmed})
    BY <1>4, WithoutLoops
<1>6. Loopless({l \in U : ~l.confirmed})
  <2>1. {l \in U : ~l.confirmed} \in SUBSET {l \in links : ~l.confirmed}
    BY <1>4, <1>5
  <2> QED
    BY <2>1, LooplessSubset
<1>7. IsFiniteSet({l \in U : l.confirmed}) /\ IsFiniteSet({l \in U : ~l.confirmed})
  <2>1. {l \in U : l.confirmed} \in SUBSET T /\ {l \in U : ~l.confirmed} \in SUBSET T
    BY <1>5
  <2> QED
    BY <1>4, <2>1, FS_Subset
<1>8. /\ S \subseteq {l \in U : l.confirmed} \cup {l \in U : ~l.confirmed} /\ Loopless(S)
      /\ {l \in U : l.confirmed} \subseteq S
    BY <1>2, <1>5, <1>6, <1>7, Accepted
<1>9. ASSUME NEW Y, Recent(Y, T) PROVE Y \subseteq S
  <2>1. Y \subseteq U
    BY <1>4, <1>9, WithoutLoops
  <2> QED
    BY <1>8, <1>9, <2>1 DEF Recent
<1>10. S \subseteq T
    BY <1>5, <1>8
<1> QED
    BY <1>3, <1>8, <1>9, <1>10

\* What cleanup() returns is a part of the links, without a loop, and each node has one
\* link at most (topology.py).
THEOREM CleanupMakesForest ==
    ASSUME NEW links, IsFiniteSet(links), NEW nodes, Loopless({l \in links : ~l.confirmed}),
           NEW S \in cleanup(links, nodes)
    PROVE /\ S \subseteq links /\ Loopless(S)
          /\ \A n \in nodes : \A k, l \in S : n \in ends(k) /\ n \in ends(l) => k = l
<1>1. PICK T : OnePer(T, links, nodes) /\ S \subseteq T /\ Loopless(S)
    BY Cleanup
<1> QED
    BY <1>1 DEF OnePer

-----------------------------------------------------------------------------
\* Links, and what merge_other() does of them

LinksAt(date) ==
    [a : Macs, b : Macs, port_a : Ports \cup {NULL}, port_b : Ports \cup {NULL},
     confirmed : BOOLEAN, last_seen : 0..date]

\* The dates of links are known.
Dated(links) == \A l \in links : l.last_seen # NULL

\* There are finitely many links.
LEMMA LinksFinite ==
    ASSUME NEW date \in Nat
    PROVE IsFiniteSet(LinksAt(date))
<1> DEFINE L == LinksAt(date)
           Q == Ports \cup {NULL}
           T == (Macs \X Macs) \X ((Q \X Q) \X (BOOLEAN \X (0..date)))
           r == [t \in T |-> [a |-> t[1][1], b |-> t[1][2],
                              port_a |-> t[2][1][1], port_b |-> t[2][1][2],
                              confirmed |-> t[2][2][1], last_seen |-> t[2][2][2]]]
<1>1. IsFiniteSet(Macs)
    BY AddressAssumption, FS_Union DEF Macs
<1>2. IsFiniteSet(Q)
    BY AddressAssumption, FS_AddElement
<1>3. IsFiniteSet(0..date) /\ IsFiniteSet(BOOLEAN)
  <2>1. IsFiniteSet(0..date)
    BY FS_Interval
  <2>2. IsFiniteSet({TRUE, FALSE})
    <3>1. IsFiniteSet({} \cup {TRUE})
      BY FS_EmptySet, FS_AddElement
    <3>2. IsFiniteSet(({} \cup {TRUE}) \cup {FALSE})
      BY <3>1, FS_AddElement
    <3>3. ({} \cup {TRUE}) \cup {FALSE} = {TRUE, FALSE}
      OBVIOUS
    <3> QED
      BY <3>2, <3>3
  <2>3. BOOLEAN = {TRUE, FALSE}
    OBVIOUS
  <2> QED
    BY <2>1, <2>2, <2>3
<1>4. IsFiniteSet(T)
    BY <1>1, <1>2, <1>3, FS_Product
<1>5. r \in Surjection(T, L)
  <2>1. r \in [T -> L]
    BY DEF LinksAt
  <2>2. ASSUME NEW l \in L PROVE \E t \in T : r[t] = l
    <3> DEFINE t == <<<<l.a, l.b>>, <<<<l.port_a, l.port_b>>, <<l.confirmed, l.last_seen>>>>>>
    <3>1. t \in T
      BY DEF LinksAt
    <3>2. r[t] = l
      BY <3>1 DEF LinksAt
    <3> QED
      BY <3>1, <3>2
  <2> QED
    BY <2>1, <2>2 DEF Surjection
<1> QED
    BY <1>4, <1>5, FS_Surjection

\* The ends, the date and the state of the link that is trusted are kept.
LEMMA MergedInfo ==
    ASSUME NEW date \in Nat, NEW l \in LinksAt(date), NEW m \in LinksAt(date)
    PROVE /\ merge_links_info(l, m) \in LinksAt(date)
          /\ merge_links_info(l, m).confirmed = l.confirmed
          /\ merge_links_info(l, m).last_seen = l.last_seen
          /\ merge_links_info(l, m).a = l.a /\ merge_links_info(l, m).b = l.b
    BY DEF LinksAt, merge_links_info

\* A link that both have keeps one of the two dates, and is confirmed when one is.
LEMMA Common ==
    ASSUME NEW date \in Nat, NEW mine \in SUBSET LinksAt(date),
           NEW others \in SUBSET LinksAt(date), NEW k \in common(mine, others)
    PROVE /\ k \in LinksAt(date)
          /\ \E l \in mine : \E m \in others :
                /\ k.last_seen \in {l.last_seen, m.last_seen}
                /\ l.confirmed => k.confirmed
<1>1. PICK p \in pairs(mine) \cap pairs(others) :
          LET l == CHOOSE i \in of_pair(mine, p) : TRUE
              m == CHOOSE i \in of_pair(others, p) : TRUE IN
          k = IF lower(l, m) THEN merge_links_info(m, l) ELSE merge_links_info(l, m)
    BY DEF common
<1> DEFINE l == CHOOSE i \in of_pair(mine, p) : TRUE
           m == CHOOSE i \in of_pair(others, p) : TRUE
<1>2. of_pair(mine, p) # {} /\ of_pair(others, p) # {}
    BY DEF pairs, of_pair
<1>3. l \in mine /\ m \in others
    BY <1>2 DEF of_pair
<1>4. k = IF lower(l, m) THEN merge_links_info(m, l) ELSE merge_links_info(l, m)
    BY <1>1
<1> HIDE DEF l, m
<1>5. CASE lower(l, m)
  <2>1. l.confirmed => m.confirmed
    BY <1>3, <1>5 DEF lower, LinksAt
  <2> QED
    BY <1>3, <1>4, <1>5, <2>1, MergedInfo
<1>6. CASE ~lower(l, m)
    BY <1>3, <1>4, <1>6, MergedInfo
<1> QED
    BY <1>5, <1>6

\* There is one such link for each pair of devices that both have.
LEMMA CommonPair ==
    ASSUME NEW date \in Nat, NEW mine \in SUBSET LinksAt(date),
           NEW others \in SUBSET LinksAt(date), NEW k \in common(mine, others)
    PROVE /\ ends(k) \in pairs(mine) /\ ends(k) \in pairs(others)
          /\ LET l == CHOOSE i \in of_pair(mine, ends(k)) : TRUE
                 m == CHOOSE i \in of_pair(others, ends(k)) : TRUE IN
             /\ l \in of_pair(mine, ends(k)) /\ m \in of_pair(others, ends(k))
             /\ k = IF lower(l, m) THEN merge_links_info(m, l) ELSE merge_links_info(l, m)
<1>1. PICK p \in pairs(mine) \cap pairs(others) :
          LET l == CHOOSE i \in of_pair(mine, p) : TRUE
              m == CHOOSE i \in of_pair(others, p) : TRUE IN
          k = IF lower(l, m) THEN merge_links_info(m, l) ELSE merge_links_info(l, m)
    BY DEF common
<1> DEFINE l == CHOOSE i \in of_pair(mine, p) : TRUE
           m == CHOOSE i \in of_pair(others, p) : TRUE
<1>2. of_pair(mine, p) # {} /\ of_pair(others, p) # {}
    BY DEF pairs, of_pair
<1>3. l \in of_pair(mine, p) /\ m \in of_pair(others, p)
    BY <1>2
<1>4. k = IF lower(l, m) THEN merge_links_info(m, l) ELSE merge_links_info(l, m)
    BY <1>1
<1>5. ends(k) = p
  <2>1. l \in mine /\ m \in others /\ ends(l) = p /\ ends(m) = p
    BY <1>3 DEF of_pair
  <2> HIDE DEF l, m
  <2> QED
    BY <1>4, <2>1, MergedInfo DEF ends
<1> QED
    BY <1>3, <1>4, <1>5

Locations == Macs \X (Ports \cup {NULL})

\* What the loop of merge_other() over the links of all goes through, and its outcomes:
\* comparing known dates does not fail.
Acc(all, outcomes) ==
    [links : SUBSET all,
     locations : SUBSET [loc : Locations, neighbor : Macs, link : all],
     failed : outcomes]

Outcomes(all, outcomes) == outcomes \subseteq BOOLEAN /\ (TRUE \in outcomes \/ Dated(all))

\* One end of a link, in the loop of merge_other(): its links are never more, and comparing
\* dates that are known does not fail.
LEMMA AtLocation ==
    ASSUME NEW all, NEW outcomes, Outcomes(all, outcomes), NEW acc \in Acc(all, outcomes), NEW l \in all,
           NEW loc \in Locations, NEW neighbor \in Macs
    PROVE at_location(acc, l, loc, neighbor) \in Acc(all, outcomes)
<1> DEFINE found == {e \in acc.locations : e.loc = loc}
           old == CHOOSE e \in found : TRUE
           key == IF neighbor = l.b THEN <<loc[1], old.neighbor>> ELSE <<old.neighbor, loc[1]>>
           entry == [loc |-> loc, neighbor |-> neighbor, link |-> l]
           first == [acc EXCEPT !.locations = @ \cup {entry}]
           fails_ == [acc EXCEPT !.failed = TRUE]
           replaced == [acc EXCEPT !.links = {m \in @ : <<m.a, m.b>> # key},
                                   !.locations = (@ \ found) \cup {entry}]
           popped == [acc EXCEPT !.links = @ \ {l}]
<1>1. entry \in [loc : Locations, neighbor : Macs, link : all]
    OBVIOUS
<1>2. first \in Acc(all, outcomes)
    BY <1>1 DEF Acc
<1>3. replaced \in Acc(all, outcomes)
    BY <1>1 DEF Acc
<1>4. popped \in Acc(all, outcomes)
    BY DEF Acc
<1>5. found # {} => old \in acc.locations
    OBVIOUS
<1>6. found # {} => old.link \in all
    BY <1>5 DEF Acc
<1>7. found # {} /\ incomparable(old.link, l) => fails_ \in Acc(all, outcomes)
  <2>1. found # {} /\ incomparable(old.link, l) => ~Dated(all)
    BY <1>6 DEF incomparable, Dated
  <2> QED
    BY <2>1 DEF Acc, Outcomes
<1>8. at_location(acc, l, loc, neighbor) =
          IF loc[2] = NULL THEN acc
          ELSE IF found = {} THEN first
          ELSE IF incomparable(old.link, l) THEN fails_
          ELSE IF lower(old.link, l) THEN replaced
          ELSE popped
    BY DEF at_location
<1> HIDE DEF found, old, first, fails_, replaced, popped
<1> QED
    BY <1>2, <1>3, <1>4, <1>7, <1>8

\* The states that the loop over the links of q goes through
Steps(step, all, outcomes, start, n, q) ==
    /\ step \in [0..n -> Acc(all, outcomes)] /\ step[0] = start
    /\ \A i \in 1..n : step[i] = both_ends(step[i - 1], q[i])

\* The loop keeps this, whatever the order of the links.
LEMMA FoldBothEnds ==
    ASSUME NEW date \in Nat, NEW all \in SUBSET LinksAt(date),
           NEW outcomes, Outcomes(all, outcomes), NEW start \in Acc(all, outcomes),
           NEW n \in Nat, NEW q \in [1..n -> all]
    PROVE \E step : /\ Steps(step, all, outcomes, start, n, q)
                    /\ FoldLeft(both_ends, start, q) = step[n]
<1> DEFINE D == 1..n
           V == Acc(all, outcomes)
           c == [s \in SUBSET D |-> Max(s)]
           op == [p \in D \X V |-> both_ends(p[2], q[p[1]])]
<1>1. ASSUME NEW l \in all, NEW acc \in V PROVE both_ends(acc, l) \in V
  <2>1. l.a \in Macs /\ l.b \in Macs /\ <<l.a, l.port_a>> \in Locations /\ <<l.b, l.port_b>> \in Locations
    BY DEF LinksAt, Locations
  <2>2. at_location(acc, l, <<l.a, l.port_a>>, l.b) \in V
    BY <2>1, AtLocation
  <2> HIDE DEF V
  <2> QED
    BY <2>1, <2>2, AtLocation DEF both_ends, V
<1>2. \A i \in D : \A acc \in V : op[<<i, acc>>] = both_ends(acc, q[i]) /\ op[<<i, acc>>] \in V
    BY <1>1
<1>3. op \in [D \X V -> V]
    BY <1>1
<1>4. \A s \in SUBSET D : c[s] = Max(s) /\ (s # {} => Max(s) \in s)
    BY MaxIn
<1>5. IsFiniteSet(D)
    BY FS_Interval
<1> HIDE DEF V, op, c
<1>6. Foldable(D, V, start, c, op)
    BY <1>3, <1>4, <1>5 DEF Foldable, V
<1>7. PICK iter : IsFold(iter, D, V, start, c, op)
    BY <1>6, Fold
<1>8. iter = [s \in SUBSET D |->
                 IF s = {} THEN start ELSE both_ends(iter[s \ {Max(s)}], q[Max(s)])]
  <2>1. \A s \in SUBSET D :
            iter[s] = IF s = {} THEN start ELSE both_ends(iter[s \ {Max(s)}], q[Max(s)])
    <3> SUFFICES ASSUME NEW s \in SUBSET D, s # {}
                 PROVE iter[s] = both_ends(iter[s \ {Max(s)}], q[Max(s)])
      BY <1>7 DEF IsFold
    <3>1. Max(s) \in D /\ iter[s \ {Max(s)}] \in V
      BY <1>4, <1>7 DEF IsFold
    <3>2. iter[s] = op[<<Max(s), iter[s \ {Max(s)}]>>]
      BY <1>4, <1>7 DEF IsFold
    <3> QED
      BY <1>2, <3>1, <3>2
  <2>2. iter = [s \in SUBSET D |-> iter[s]]
    BY <1>7 DEF IsFold
  <2> QED
    BY <2>1, <2>2
<1> DEFINE fold == CHOOSE it : it = [s \in SUBSET D |->
                       IF s = {} THEN start ELSE both_ends(it[s \ {Max(s)}], q[Max(s)])]
<1>9. fold = [s \in SUBSET D |->
                 IF s = {} THEN start ELSE both_ends(fold[s \ {Max(s)}], q[Max(s)])]
    BY <1>8
<1>10. DOMAIN q = D
    OBVIOUS
<1>11. FoldLeft(both_ends, start, q) = fold[D]
  <2>1. FoldLeft(both_ends, start, q) =
            (CHOOSE it : it = [s \in SUBSET DOMAIN q |->
                IF s = {} THEN start ELSE both_ends(it[s \ {Max(s)}], q[Max(s)])])[DOMAIN q]
    BY DEF FoldLeft, MapThenFoldSet
  <2> QED
    BY <1>10, <2>1
<1> HIDE DEF fold
<1> DEFINE Q == {s \in SUBSET D : fold[s] \in V}
<1>12. ASSUME NEW s \in SUBSET D, \A r \in SUBSET s : r # s => r \in Q PROVE s \in Q
  <2>1. CASE s = {}
    BY <1>9, <2>1 DEF V
  <2>2. CASE s # {}
    <3>1. Max(s) \in s
      BY <1>4, <2>2
    <3>2. fold[s \ {Max(s)}] \in V
      BY <1>12, <3>1
    <3>3. fold[s] = both_ends(fold[s \ {Max(s)}], q[Max(s)])
      BY <1>9, <2>2
    <3>4. q[Max(s)] \in all
      BY <3>1
    <3> QED
      BY <1>1, <3>2, <3>3, <3>4
  <2> QED
    BY <2>1, <2>2
<1>13. SUBSET D \subseteq Q
  <2> HIDE DEF Q, D
  <2>1. \A s \in SUBSET D : (\A r \in SUBSET s : r # s => r \in Q) => s \in Q
    BY <1>12
  <2>2. \A s \in SUBSET D : s \in Q
    BY <1>5, <2>1, SetInduction
  <2> QED
    BY <2>2
<1> DEFINE step == [i \in 0..n |-> fold[1..i]]
<1>14. step \in [0..n -> V]
    BY <1>13
<1>15. step[0] = start
  <2>1. 1..0 = {} /\ 0 \in 0..n
    OBVIOUS
  <2> QED
    BY <1>9, <2>1
<1>16. ASSUME NEW i \in 1..n PROVE step[i] = both_ends(step[i - 1], q[i])
  <2>0. i \in 1..i /\ i \in 0..n /\ i - 1 \in 0..n /\ i \in Nat
    OBVIOUS
  <2>1. 1..i \in SUBSET D /\ 1..i # {}
    <3>1. \A j \in 1..i : j \in 1..n
      BY <2>0
    <3> QED
      BY <2>0, <3>1
  <2>2. Max(1..i) = i
    <3> DEFINE m == Max(1..i)
    <3>1. m \in 1..i /\ \A y \in 1..i : y <= m
      BY <2>1, MaxIn
    <3> HIDE DEF m
    <3>2. i <= m /\ m <= i
      BY <2>0, <3>1
    <3> QED
      BY <2>0, <3>1, <3>2 DEF m
  <2>3. (1..i) \ {i} = 1..(i - 1)
    OBVIOUS
  <2> QED
    BY <1>9, <2>0, <2>1, <2>2, <2>3
<1>17. step[n] = fold[D]
    OBVIOUS
<1> QED
    BY <1>11, <1>14, <1>15, <1>16, <1>17 DEF Steps, V
\* An order of a finite set has each of its elements once.
Lists(q, S) ==
    /\ Len(q) \in Nat /\ q \in [1..Len(q) -> S]
    /\ \A i, j \in 1..Len(q) : q[i] = q[j] => i = j
    /\ \A x \in S : \E i \in 1..Len(q) : q[i] = x

\* A list of a set has its elements, once each.
LEMMA Orders ==
    ASSUME NEW S, IsFiniteSet(S), NEW q \in SetToSeqs(S)
    PROVE Lists(q, S)
<1> DEFINE m == Cardinality(S)
           D == 1..m
<1>1. m \in Nat
    BY FS_CardinalityType
<1>2. q \in [D -> S] /\ \A i, j \in D : i # j => q[i] # q[j]
    BY DEF SetToSeqs
<1>3. IsFiniteSet(D) /\ Cardinality(D) = m
    BY <1>1, FS_Interval
<1> HIDE DEF m
<1>4. q \in Injection(D, S)
    BY <1>2 DEF Injection, IsInjective
<1>5. q \in Surjection(D, S)
    BY <1>3, <1>4, FS_Injection DEF m
<1>6. Len(q) = m /\ q \in [1..Len(q) -> S]
    BY <1>1, <1>2
<1> QED
    BY <1>1, <1>2, <1>5, <1>6 DEF Lists, Surjection

\* One list after the other
Appends(q, q1, q2) ==
    /\ \A i \in 1..Len(q1) : i \in 1..Len(q) /\ q[i] = q1[i]
    /\ \A i \in 1..Len(q2) : i + Len(q1) \in 1..Len(q) /\ q[i + Len(q1)] = q2[i]
    /\ \A i \in 1..Len(q) : i > Len(q1) => i - Len(q1) \in 1..Len(q2) /\ q[i] = q2[i - Len(q1)]

\* Two lists, one after the other.
LEMMA Append2 ==
    ASSUME NEW S1, NEW S2, S1 \cap S2 = {}, NEW q1, Lists(q1, S1), NEW q2, Lists(q2, S2)
    PROVE Lists(q1 \o q2, S1 \cup S2) /\ Appends(q1 \o q2, q1, q2)
<1> DEFINE q == q1 \o q2
           S == S1 \cup S2
<1>0. q1 \in Seq(S) /\ q2 \in Seq(S) /\ Len(q1) \in Nat /\ Len(q2) \in Nat
  <2>1. q1 \in [1..Len(q1) -> S] /\ q2 \in [1..Len(q2) -> S] /\ Len(q1) \in Nat /\ Len(q2) \in Nat
    BY DEF Lists
  <2> QED
    BY <2>1
<1>1. /\ Len(q) = Len(q1) + Len(q2) /\ q \in Seq(S)
      /\ \A i \in 1..Len(q) : q[i] = IF i <= Len(q1) THEN q1[i] ELSE q2[i - Len(q1)]
    BY <1>0
<1> HIDE DEF q, S
<1>2. Len(q) \in Nat /\ q \in [1..Len(q) -> S]
    BY <1>1
<1>3. Appends(q, q1, q2)
  <2>1. ASSUME NEW i \in 1..Len(q1) PROVE i \in 1..Len(q) /\ q[i] = q1[i]
    <3>1. i \in 1..Len(q) /\ i <= Len(q1)
      BY <1>0, <1>1
    <3> QED
      BY <1>1, <3>1
  <2>2. ASSUME NEW i \in 1..Len(q2)
        PROVE i + Len(q1) \in 1..Len(q) /\ q[i + Len(q1)] = q2[i]
    <3> DEFINE j == i + Len(q1)
    <3>1. j \in 1..Len(q) /\ ~(j <= Len(q1)) /\ j - Len(q1) = i
      BY <1>0, <1>1
    <3> HIDE DEF j
    <3>2. q[j] = q2[i]
      BY <1>1, <3>1
    <3> QED
      BY <3>1, <3>2 DEF j
  <2>3. ASSUME NEW i \in 1..Len(q), i > Len(q1)
        PROVE i - Len(q1) \in 1..Len(q2) /\ q[i] = q2[i - Len(q1)]
    <3>0. ~(i <= Len(q1))
      BY <1>0, <1>1, <2>3
    <3>1. i - Len(q1) \in 1..Len(q2) /\ ~(i <= Len(q1))
      BY <1>0, <1>1, <3>0
    <3> QED
      BY <1>1, <3>1
  <2> QED
    BY <2>1, <2>2, <2>3 DEF Appends
<1>4. /\ \A i \in 1..Len(q1) : q1[i] \in S1
      /\ \A i \in 1..Len(q2) : q2[i] \in S2
    BY DEF Lists
<1>5. \A i \in 1..Len(q) : IF i <= Len(q1) THEN i \in 1..Len(q1) /\ q[i] = q1[i]
                           ELSE i - Len(q1) \in 1..Len(q2) /\ q[i] = q2[i - Len(q1)]
    BY <1>0, <1>1
<1>6. ASSUME NEW i \in 1..Len(q), NEW j \in 1..Len(q), q[i] = q[j] PROVE i = j
  <2>1. CASE i <= Len(q1) /\ j <= Len(q1)
    BY <1>5, <1>6, <2>1 DEF Lists
  <2>2. CASE i > Len(q1) /\ j > Len(q1)
    <3> DEFINE h == i - Len(q1)
               k == j - Len(q1)
    <3>0. ~(i <= Len(q1)) /\ ~(j <= Len(q1))
      BY <1>0, <1>2, <2>2
    <3>1. h \in 1..Len(q2) /\ k \in 1..Len(q2) /\ q2[h] = q[i] /\ q2[k] = q[j]
      BY <1>5, <3>0
    <3>2. i = h + Len(q1) /\ j = k + Len(q1)
      BY <1>0, <1>1
    <3> HIDE DEF h, k
    <3>3. h = k
      BY <1>6, <3>1 DEF Lists
    <3> QED
      BY <3>2, <3>3
  <2>3. CASE ~(i <= Len(q1) <=> j <= Len(q1))
    <3>1. ~(q[i] \in S1 <=> q[j] \in S1)
      BY <1>4, <1>5, <2>3
    <3> QED
      BY <1>6, <3>1
  <2> QED
    BY <1>0, <2>1, <2>2, <2>3
<1>7. ASSUME NEW x \in S PROVE \E i \in 1..Len(q) : q[i] = x
  <2>1. CASE x \in S1
    <3>1. PICK i \in 1..Len(q1) : q1[i] = x
      BY <2>1 DEF Lists
    <3> QED
      BY <1>3, <3>1 DEF Appends
  <2>2. CASE x \in S2
    <3>1. PICK i \in 1..Len(q2) : q2[i] = x
      BY <2>2 DEF Lists
    <3> QED
      BY <1>3, <3>1 DEF Appends
  <2> QED
    BY <1>7, <2>1, <2>2 DEF S
<1>8. Lists(q, S)
    BY <1>2, <1>6, <1>7 DEF Lists
<1> QED
    BY <1>3, <1>8 DEF q, S

\* What both have, or one side has alone; what is merged, the first side first
First(mine, others) == common(mine, others) \cup alone(mine, others)

Union(mine, others) == First(mine, others) \cup alone(others, mine)

\* How merge_other() goes through the links that share a location
Run(r, mine, others, outcomes, q, step) ==
    LET all == Union(mine, others) IN
    /\ Outcomes(all, outcomes)
    /\ Lists(q, all \cap contested(all))
    /\ \A i, j \in 1..Len(q) : q[i] \in alone(others, mine) /\ q[j] \in First(mine, others) => j < i
    /\ step \in [0..Len(q) -> Acc(all, outcomes)]
    /\ step[0].links = all /\ step[0].locations = {}
    /\ \A i \in 1..Len(q) : step[i] = both_ends(step[i - 1], q[i])
    /\ r = [links |-> step[Len(q)].links, failed |-> step[Len(q)].failed]

\* A result of merge_other() comes from the loop over some list of the links.
LEMMA MergeRun ==
    ASSUME NEW date \in Nat, NEW mine \in SUBSET LinksAt(date),
           NEW others \in SUBSET LinksAt(date), NEW r \in merge_other(mine, others)
    PROVE /\ Union(mine, others) \subseteq LinksAt(date)
          /\ \E outcomes, q, step :
                /\ Run(r, mine, others, outcomes, q, step)
                /\ Dated(mine) /\ Dated(others) => outcomes = {FALSE} /\ Dated(Union(mine, others))
<1> DEFINE both == common(mine, others)
           own == alone(mine, others)
           rest == alone(others, mine)
           all == both \cup own \cup rest
           disputed == contested(all)
           start == [links |-> all, locations |-> {},
                     failed |-> \E l \in mine : \E m \in of_pair(others, ends(l)) : incomparable(l, m)]
           orders(S) == SetToSeqs(S \cap disputed)
           fold(q1, q2, q3) == FoldLeft(both_ends, start, q1 \o q2 \o q3)
           folds == {fold(q1, q2, q3) :
                        q1 \in orders(both), q2 \in orders(own), q3 \in orders(rest)}
           outcomes == IF Dated(mine) /\ Dated(others) THEN {FALSE} ELSE BOOLEAN
<1>1. merge_other(mine, others) = {[links |-> f.links, failed |-> f.failed] : f \in folds}
    BY DEF merge_other
<1>2. own \subseteq mine /\ rest \subseteq others
    BY DEF alone
<1>3. both \subseteq LinksAt(date)
    BY Common
<1>4. all \in SUBSET LinksAt(date)
    BY <1>2, <1>3
<1>5. Dated(mine) /\ Dated(others) => Dated(all)
  <2> SUFFICES ASSUME Dated(mine), Dated(others), NEW k \in all PROVE k.last_seen # NULL
    BY DEF Dated
  <2>1. CASE k \in both
    BY <2>1, Common DEF Dated
  <2>2. CASE k \in own \cup rest
    BY <1>2, <2>2 DEF Dated
  <2> QED
    BY <2>1, <2>2
<1>6. Dated(mine) /\ Dated(others) => start.failed = FALSE
    BY DEF of_pair, incomparable, Dated
<1>7. Outcomes(all, outcomes)
    BY <1>5 DEF Outcomes
<1>8. start.failed \in outcomes
    BY <1>6
<1>9. start \in Acc(all, outcomes) /\ start.links = all /\ start.locations = {}
    BY <1>8 DEF Acc
<1>10. IsFiniteSet(both \cap disputed) /\ IsFiniteSet(own \cap disputed) /\ IsFiniteSet(rest \cap disputed)
  <2>1. \A S \in SUBSET LinksAt(date) : IsFiniteSet(S)
    BY LinksFinite, FS_Subset
  <2> HIDE DEF both, own, rest, disputed
  <2>2. both \cap disputed \in SUBSET LinksAt(date)
    BY <1>3
  <2>3. own \cap disputed \in SUBSET LinksAt(date)
    BY <1>2
  <2>4. rest \cap disputed \in SUBSET LinksAt(date)
    BY <1>2
  <2> QED
    BY <2>1, <2>2, <2>3, <2>4
<1>11. both \cap own = {} /\ (both \cup own) \cap rest = {}
  <2>1. \A k \in both : ends(k) \in pairs(mine) /\ ends(k) \in pairs(others)
    BY CommonPair
  <2>2. \A k \in own : ends(k) \in pairs(mine) /\ ends(k) \notin pairs(others)
    BY DEF alone, pairs
  <2>3. \A k \in rest : ends(k) \notin pairs(mine)
    BY DEF alone
  <2> HIDE DEF both, own, rest
  <2> QED
    BY <2>1, <2>2, <2>3
<1>12. Union(mine, others) = all /\ First(mine, others) = both \cup own
    BY DEF Union, First
<1> HIDE DEF both, own, rest, disputed, start, outcomes
<1>13. PICK f \in folds : r = [links |-> f.links, failed |-> f.failed]
  <2> HIDE DEF folds
  <2> QED
    BY <1>1
<1>14. PICK q1 \in orders(both), q2 \in orders(own), q3 \in orders(rest) : f = fold(q1, q2, q3)
  <2> HIDE DEF fold, orders
  <2> QED
    BY <1>13
<1> DEFINE q12 == q1 \o q2
           q == q12 \o q3
<1>15. /\ Lists(q1, both \cap disputed) /\ Lists(q2, own \cap disputed)
       /\ Lists(q3, rest \cap disputed)
    BY <1>10, <1>14, Orders
<1>16. Lists(q12, (both \cup own) \cap disputed)
  <2>1. Lists(q12, (both \cap disputed) \cup (own \cap disputed))
    BY <1>11, <1>15, Append2
  <2>2. (both \cap disputed) \cup (own \cap disputed) = (both \cup own) \cap disputed
    OBVIOUS
  <2> QED
    BY <2>1, <2>2
<1>17. Lists(q, all \cap disputed) /\ Appends(q, q12, q3)
  <2> HIDE DEF q12
  <2>1. /\ Lists(q, ((both \cup own) \cap disputed) \cup (rest \cap disputed))
        /\ Appends(q, q12, q3)
    BY <1>11, <1>15, <1>16, Append2
  <2>2. ((both \cup own) \cap disputed) \cup (rest \cap disputed) = all \cap disputed
    OBVIOUS
  <2> QED
    BY <2>1, <2>2
<1>18. q1 \o q2 \o q3 = q
    OBVIOUS
<1> HIDE DEF q12, q
<1>19. ASSUME NEW i \in 1..Len(q), NEW j \in 1..Len(q), q[i] \in rest, q[j] \in both \cup own
       PROVE j < i
  <2>1. i > Len(q12)
    <3> SUFFICES ASSUME i <= Len(q12) PROVE FALSE
      BY <1>16, <1>17 DEF Lists
    <3>1. i \in 1..Len(q12)
      BY <1>16, <1>17 DEF Lists
    <3>2. q[i] = q12[i] /\ q12[i] \in both \cup own
      BY <1>16, <1>17, <3>1 DEF Lists, Appends
    <3> QED
      BY <1>11, <1>19, <3>2
  <2>2. j <= Len(q12)
    <3> SUFFICES ASSUME j > Len(q12) PROVE FALSE
      BY <1>16, <1>17 DEF Lists
    <3>1. q[j] = q3[j - Len(q12)] /\ j - Len(q12) \in 1..Len(q3)
      BY <1>17 DEF Appends
    <3>2. q[j] \in rest
      <4> DEFINE i3 == j - Len(q12)
      <4>1. Lists(q3, rest \cap disputed) /\ i3 \in 1..Len(q3)
        BY <1>15, <3>1
      <4> HIDE DEF i3
      <4>2. q3[i3] \in rest \cap disputed
        BY <4>1 DEF Lists
      <4>3. q3[j - Len(q12)] \in rest
        BY <4>2 DEF i3
      <4> QED
        BY <3>1, <4>3
    <3> QED
      BY <1>11, <1>19, <3>2
  <2> QED
    BY <1>16, <2>1, <2>2 DEF Lists
<1> HIDE DEF all
<1>20. Len(q) \in Nat /\ q \in [1..Len(q) -> all]
    BY <1>17 DEF Lists
<1>21. PICK step : Steps(step, all, outcomes, start, Len(q), q)
                   /\ FoldLeft(both_ends, start, q) = step[Len(q)]
    BY <1>4, <1>7, <1>9, <1>20, FoldBothEnds
<1>22. Run(r, mine, others, outcomes, q, step)
  <2>1. f = step[Len(q)]
    BY <1>14, <1>18, <1>21
  <2>2. /\ Lists(q, all \cap contested(all))
        /\ \A i, j \in 1..Len(q) : q[i] \in alone(others, mine) /\ q[j] \in both \cup own => j < i
    BY <1>17, <1>19 DEF disputed, rest
  <2>3. /\ step \in [0..Len(q) -> Acc(all, outcomes)]
        /\ step[0].links = all /\ step[0].locations = {}
        /\ \A i \in 1..Len(q) : step[i] = both_ends(step[i - 1], q[i])
    BY <1>9, <1>21 DEF Steps
  <2> QED
    BY <1>7, <1>12, <1>13, <2>1, <2>2, <2>3 DEF Run
<1>23. Dated(mine) /\ Dated(others) => outcomes = {FALSE} /\ Dated(all)
    BY <1>5 DEF outcomes
<1> HIDE DEF outcomes, both, own, rest, orders, fold, folds, start, disputed
<1>24. Union(mine, others) \subseteq LinksAt(date)
    BY <1>4, <1>12
<1>25. Dated(mine) /\ Dated(others) => outcomes = {FALSE} /\ Dated(Union(mine, others))
    BY <1>12, <1>23
<1> QED
    BY Zenon, <1>22, <1>24, <1>25

\* What merge_other() may return is a part of what is common and what one side has alone,
\* and it does not fail when dates are known.
Merged(r, mine, others, date) ==
    /\ r.links \subseteq Union(mine, others)
    /\ r.links \subseteq LinksAt(date)
    /\ Dated(mine) /\ Dated(others) => Dated(r.links) /\ r.failed = FALSE

\* What merge_other() returns is among the merged links, and it does not fail when dates
\* are known.
LEMMA MergeOther ==
    ASSUME NEW date \in Nat, NEW mine \in SUBSET LinksAt(date),
           NEW others \in SUBSET LinksAt(date), NEW r \in merge_other(mine, others)
    PROVE Merged(r, mine, others, date)
<1> DEFINE all == Union(mine, others)
<1>1. PICK outcomes, q, step :
          /\ Run(r, mine, others, outcomes, q, step)
          /\ Dated(mine) /\ Dated(others) => outcomes = {FALSE} /\ Dated(all)
    BY MergeRun
<1>2. all \subseteq LinksAt(date)
    BY MergeRun
<1> HIDE DEF all
<1>3. step[Len(q)] \in Acc(all, outcomes)
    BY <1>1 DEF Run, Lists, all
<1>4. r.links \subseteq all /\ r.failed \in outcomes
    BY <1>1, <1>3 DEF Run, Acc
<1>5. Dated(mine) /\ Dated(others) => r.failed = FALSE
    BY <1>1, <1>4
<1>6. Dated(mine) /\ Dated(others) => Dated(r.links)
    BY <1>1, <1>4 DEF Dated
<1> QED
    BY <1>2, <1>4, <1>5, <1>6 DEF Merged, all

-----------------------------------------------------------------------------
\* What links say, and the links that are registered for facts, are of devices of the network.
LEMMA FactsOf ==
    ASSUME NEW date \in Nat, NEW links \in SUBSET LinksAt(date)
    PROVE facts_of(links) \subseteq Facts
<1> SUFFICES ASSUME NEW f \in facts_of(links) PROVE f \in Facts
    OBVIOUS
<1>1. PICK l \in links : /\ f \in {[mac |-> l.a, port |-> l.port_a, neighbor |-> l.b],
                                  [mac |-> l.b, port |-> l.port_b, neighbor |-> l.a]}
                         /\ f.port # NULL
    BY DEF facts_of
<1> QED
    BY <1>1 DEF LinksAt, Facts

\* register_neighbor() gives links with a date.
LEMMA Registered ==
    ASSUME NEW date \in Nat, NEW links \in SUBSET LinksAt(date), NEW facts \in SUBSET Facts,
           NEW t \in 1..date
    PROVE /\ registered(links, facts, t) \subseteq LinksAt(date)
          /\ Dated(links) => Dated(registered(links, facts, t))
<1> DEFINE known(S, mac, neighbor) == {f \in S : f.mac = mac /\ f.neighbor = neighbor}
           found(mac, neighbor) == IF known(facts, mac, neighbor) # {}
                                   THEN known(facts, mac, neighbor)
                                   ELSE known(facts_of(links), mac, neighbor)
           port_of(mac, neighbor) == IF found(mac, neighbor) = {} THEN NULL
                                     ELSE (CHOOSE f \in found(mac, neighbor) : TRUE).port
           kept == {l \in links : ends(l) \notin {{f.mac, f.neighbor} : f \in facts}}
           new == {link(f.mac, f.neighbor, f.port, port_of(f.neighbor, f.mac), TRUE, t) : f \in facts}
<1>1. registered(links, facts, t) = kept \cup new
    BY DEF registered
<1>2. ASSUME NEW mac, NEW neighbor PROVE port_of(mac, neighbor) \in Ports \cup {NULL}
  <2>1. found(mac, neighbor) \subseteq Facts
    BY FactsOf
  <2>2. CASE found(mac, neighbor) # {}
    <3>1. (CHOOSE f \in found(mac, neighbor) : TRUE) \in found(mac, neighbor)
      BY <2>2
    <3> HIDE DEF found
    <3>2. (CHOOSE f \in found(mac, neighbor) : TRUE) \in Facts
      BY <2>1, <3>1
    <3> QED
      BY <3>2 DEF Facts
  <2>3. CASE found(mac, neighbor) = {}
    BY <2>3
  <2> QED
    BY <2>2, <2>3
<1> HIDE DEF port_of
<1>3. ASSUME NEW f \in facts
      PROVE /\ link(f.mac, f.neighbor, f.port, port_of(f.neighbor, f.mac), TRUE, t) \in LinksAt(date)
            /\ link(f.mac, f.neighbor, f.port, port_of(f.neighbor, f.mac), TRUE, t).last_seen = t
  <2>1. f.mac \in Macs /\ f.neighbor \in Macs /\ f.port \in Ports \cup {NULL}
    BY DEF Facts
  <2>2. t \in 0..date
    OBVIOUS
  <2> DEFINE q == port_of(f.neighbor, f.mac)
  <2>3. q \in Ports \cup {NULL}
    BY <1>2
  <2> HIDE DEF q
  <2>4. /\ link(f.mac, f.neighbor, f.port, q, TRUE, t) \in LinksAt(date)
        /\ link(f.mac, f.neighbor, f.port, q, TRUE, t).last_seen = t
    <3> HIDE DEF port_of, kept, new
    <3> QED
      BY <2>1, <2>2, <2>3 DEF link, LinksAt
  <2> QED
    BY <2>4 DEF q
<1>4. kept \cup new \subseteq LinksAt(date)
    BY <1>3
<1>5. Dated(links) => Dated(kept \cup new)
  <2>1. \A k \in kept : k \in links
    OBVIOUS
  <2>2. \A k \in new : k.last_seen = t
    BY <1>3
  <2> HIDE DEF kept, new
  <2> QED
    BY <2>1, <2>2 DEF Dated, NULL
<1> QED
    BY <1>1, <1>4, <1>5

\* So does the analysis of the forwarding tables.
LEMMA Deduced ==
    ASSUME NEW date \in Nat, NEW facts \in SUBSET Facts, NEW t \in Nat, 1 <= t, t + 1 <= date,
           NEW links \in deduce_link_layer_topology(facts, Switches, t)
    PROVE links \subseteq LinksAt(date) /\ Dated(links)
<1> DEFINE inner == {f \in facts : f.neighbor \in Switches}
           edge == registered({}, unique(facts \ inner), t)
<1>1. PICK b \in backbone(inner) : links = registered(edge, unique(b), t + 1)
    BY DEF deduce_link_layer_topology
<1>2. unique(facts \ inner) \in SUBSET Facts
    BY DEF unique
<1>3. b \subseteq inner
    BY <1>1 DEF backbone
<1>4. unique(b) \in SUBSET Facts
    BY <1>3 DEF unique
<1>5. t \in 1..date /\ t + 1 \in 1..date
    OBVIOUS
<1>6. edge \in SUBSET LinksAt(date) /\ Dated(edge)
    BY <1>2, <1>5, Registered DEF Dated
<1> HIDE DEF edge
<1> QED
    BY <1>1, <1>4, <1>5, <1>6, Registered

\* set_confirm_all() changes whether links are confirmed, not their dates.
LEMMA Confirmed ==
    ASSUME NEW date \in Nat, NEW links \in SUBSET LinksAt(date), NEW value \in BOOLEAN
    PROVE /\ set_confirm_all(links, value) \subseteq LinksAt(date)
          /\ \A k \in set_confirm_all(links, value) : k.confirmed = value
          /\ Dated(links) => Dated(set_confirm_all(links, value))
<1>1. \A l \in links : /\ [l EXCEPT !.confirmed = value] \in LinksAt(date)
                       /\ [l EXCEPT !.confirmed = value].confirmed = value
                       /\ [l EXCEPT !.confirmed = value].last_seen = l.last_seen
    BY DEF LinksAt
<1> QED
    BY <1>1 DEF set_confirm_all, Dated

\* unconfirm() keeps a forest a forest, with its dates.
LEMMA Unconfirmed ==
    ASSUME NEW date \in Nat, NEW links \in SUBSET LinksAt(date), NEW macs
    PROVE /\ unconfirm(links, macs) \subseteq LinksAt(date)
          /\ Dated(links) => Dated(unconfirm(links, macs))
          /\ Loopless(links) => Loopless(unconfirm(links, macs))
<1> DEFINE un(l) == [l EXCEPT !.confirmed = @ /\ ends(l) \cap macs = {}]
           h == [k \in unconfirm(links, macs) |-> CHOOSE l \in links : un(l) = k]
<1>1. \A l \in links : /\ un(l) \in LinksAt(date) /\ un(l).last_seen = l.last_seen
                       /\ un(l).a = l.a /\ un(l).b = l.b
    BY DEF LinksAt
<1>2. unconfirm(links, macs) = {un(l) : l \in links}
    BY DEF unconfirm
<1> HIDE DEF un
<1>3. \A k \in unconfirm(links, macs) : h[k] \in links /\ un(h[k]) = k
    BY <1>2
<1> HIDE DEF h
<1>4. Loopless(links) => Loopless(unconfirm(links, macs))
    BY <1>1, <1>3, LooplessImage
<1> QED
    BY <1>1, <1>2, <1>4 DEF Dated

-----------------------------------------------------------------------------
\* The invariant

OnePerNode(links) ==
    \A n \in EndNodes : \A k, l \in links : n \in ends(k) /\ n \in ends(l) => k = l

\* Links have dates up to now, on devices of the network.
LinksTyped ==
    /\ cabling \subseteq Facts /\ table \subseteq LinksAt(now)
    /\ job \in [step : {"idle", "query", "save"}, devices : SUBSET Switches, left : SUBSET Switches,
                lldp : SUBSET LinksAt(now), bridge : SUBSET Facts, links : SUBSET LinksAt(now),
                moved : BOOLEAN]
    /\ job.left \subseteq job.devices
    /\ failed \in BOOLEAN /\ reported \in BOOLEAN
    /\ now \in Nat /\ scans \in 0..MaxScans /\ changes \in 0..MaxChanges

\* The table, and what a rescan is about to save, are forests whose nodes are leaves.
ForestInv ==
    /\ Loopless(table) /\ OnePerNode(table)
    /\ Loopless(job.links) /\ OnePerNode(job.links)

\* Only a report of a node brings a link whose date is not known.
DatesInv ==
    /\ Dated(job.lldp)
    /\ ~reported => failed = FALSE /\ Dated(table) /\ Dated(job.links)

IInv == LinksTyped /\ ForestInv /\ DatesInv

\* Links of a date are links of a later one.
LEMMA LaterLinks ==
    ASSUME NEW date \in Nat, NEW later \in Nat, date <= later
    PROVE LinksAt(date) \subseteq LinksAt(later)
    BY DEF LinksAt

\* What is merged by a rescan: the links that are not confirmed come from the table, and
\* it does not fail when its dates are known.
LEMMA MergedLinks ==
    ASSUME IInv,
           NEW by_bridge \in deduce_link_layer_topology(job.bridge \cup facts_of(job.lldp),
                                                        Switches, now + 1),
           NEW new \in merge_other(job.lldp, set_confirm_all(by_bridge, FALSE)),
           NEW all \in merge_other(set_confirm_all(new.links, TRUE), unconfirm(table, job.devices))
    PROVE /\ all.links \subseteq LinksAt(now + 2)
          /\ Loopless({l \in all.links : ~l.confirmed})
          /\ new.failed = FALSE
          /\ Dated(table) => all.failed = FALSE /\ Dated(all.links)
<1> DEFINE date == now + 2
           L == LinksAt(date)
           mine == set_confirm_all(new.links, TRUE)
           past == unconfirm(table, job.devices)
<1>1. now \in Nat /\ date \in Nat /\ 1 <= now + 1 /\ (now + 1) + 1 <= date
    BY DEF IInv, LinksTyped
<1>2. job.lldp \in SUBSET L /\ table \in SUBSET L
  <2>1. LinksAt(now) \subseteq LinksAt(date)
    BY <1>1, LaterLinks
  <2> QED
    BY <2>1 DEF IInv, LinksTyped
<1>3. job.bridge \cup facts_of(job.lldp) \in SUBSET Facts
  <2>1. facts_of(job.lldp) \subseteq Facts
    BY <1>1, <1>2, FactsOf
  <2> QED
    BY <2>1 DEF IInv, LinksTyped
<1> HIDE DEF date
<1>4. by_bridge \in SUBSET L /\ Dated(by_bridge)
    BY <1>1, <1>3, Deduced
<1> DEFINE seen == set_confirm_all(by_bridge, FALSE)
<1>5. seen \in SUBSET L /\ Dated(seen)
    BY <1>1, <1>4, Confirmed
<1>6. new.links \in SUBSET L /\ new.failed = FALSE /\ Dated(new.links)
  <2>1. Dated(job.lldp)
    BY DEF IInv, DatesInv
  <2>2. new \in merge_other(job.lldp, seen)
    OBVIOUS
  <2> HIDE DEF seen
  <2>3. Merged(new, job.lldp, seen, date)
    BY <1>1, <1>2, <1>5, <2>2, MergeOther
  <2> QED
    BY <1>5, <2>1, <2>3 DEF Merged
<1>7. mine \in SUBSET L /\ Dated(mine) /\ \A k \in mine : k.confirmed = TRUE
    BY <1>1, <1>6, Confirmed
<1>8. past \in SUBSET L /\ Loopless(past) /\ (Dated(table) => Dated(past))
  <2>1. Loopless(table)
    BY DEF IInv, ForestInv
  <2> QED
    BY <1>1, <1>2, <2>1, Unconfirmed
<1>12. all \in merge_other(mine, past)
    OBVIOUS
<1> HIDE DEF mine, past, L
<1>9. /\ all.links \subseteq common(mine, past) \cup alone(mine, past) \cup alone(past, mine)
      /\ all.links \subseteq L
      /\ Dated(table) => Dated(all.links) /\ all.failed = FALSE
  <2>1. Merged(all, mine, past, date)
    BY <1>1, <1>7, <1>8, <1>12, MergeOther DEF L
  <2> QED
    BY <1>7, <1>8, <2>1 DEF Merged, L, Union, First
<1>10. {l \in all.links : ~l.confirmed} \in SUBSET past
  <2> SUFFICES ASSUME NEW k \in all.links, ~k.confirmed PROVE k \in past
    OBVIOUS
  <2>1. k \notin common(mine, past)
    <3> SUFFICES ASSUME k \in common(mine, past) PROVE FALSE
      OBVIOUS
    <3>1. PICK l \in mine : l.confirmed => k.confirmed
      BY <1>1, <1>7, <1>8, Common DEF L
    <3> QED
      BY <1>7, <3>1
  <2>2. k \notin alone(mine, past)
    BY <1>7 DEF alone
  <2> QED
    BY <1>9, <2>1, <2>2 DEF alone
<1>11. Loopless({l \in all.links : ~l.confirmed})
    BY <1>8, <1>10, LooplessSubset
<1> QED
    BY <1>6, <1>9, <1>11 DEF L, date

\* The invariant holds at first.
LEMMA InitInv == Init => IInv
<1> SUFFICES ASSUME Init PROVE IInv
    OBVIOUS
<1>1. InitialCabling \subseteq Facts
    BY CablingAssumption DEF Wired
<1>2. LinksTyped
  <2>1. job.left \subseteq job.devices /\ now \in Nat /\ table \subseteq LinksAt(now)
    BY DEF Init, NoJob
  <2>2. job \in [step : {"idle", "query", "save"}, devices : SUBSET Switches,
                left : SUBSET Switches, lldp : SUBSET LinksAt(now), bridge : SUBSET Facts,
                links : SUBSET LinksAt(now), moved : BOOLEAN]
    BY DEF Init, NoJob
  <2>3. failed \in BOOLEAN /\ reported \in BOOLEAN
    BY DEF Init
  <2>4. scans \in 0..MaxScans /\ changes \in 0..MaxChanges /\ cabling \subseteq Facts
    BY <1>1, BoundAssumption DEF Init, BoundAssumption
  <2> QED
    BY <2>1, <2>2, <2>3, <2>4 DEF LinksTyped
<1>3. ForestInv
    BY DEF Init, ForestInv, NoJob, Loopless, OnePerNode
<1>4. DatesInv
    BY DEF Init, DatesInv, NoJob, Dated
<1> QED
    BY <1>2, <1>3, <1>4 DEF IInv

-----------------------------------------------------------------------------
\* Each action keeps the invariant

\* The devices behind a port are devices of the network.
LEMMA ReachMacs == \A mac, facts : reach(mac, facts) \subseteq Macs
    BY DEF reach

\* A cable is moved: links stay as they are.
LEMMA RecableInv ==
    ASSUME IInv, NEW f \in cabling, NEW y \in Switches, NEW q \in Ports, Recable(f, y, q)
    PROVE IInv'
<1> USE DEF IInv
<1>1. LinksTyped'
  <2>1. y \in Macs /\ f \in Facts
    BY DEF Macs, LinksTyped
  <2>2. /\ [mac |-> f.mac, port |-> f.port, neighbor |-> y] \in Facts
        /\ [mac |-> y, port |-> q, neighbor |-> f.mac] \in Facts
    BY <2>1 DEF Facts
  <2>3. cabling' \subseteq Facts
    BY <2>2 DEF Recable, unplugged, LinksTyped
  <2>4. changes' \in 0..MaxChanges
    BY BoundAssumption DEF Recable, LinksTyped, BoundAssumption
  <2>5. job' \in [step : {"idle", "query", "save"}, devices : SUBSET Switches,
                  left : SUBSET Switches, lldp : SUBSET LinksAt(now), bridge : SUBSET Facts,
                  links : SUBSET LinksAt(now), moved : BOOLEAN] /\ job'.left \subseteq job'.devices
    BY DEF Recable, LinksTyped
  <2> QED
    BY <2>3, <2>4, <2>5 DEF Recable, LinksTyped, LinksAt
<1>2. job'.lldp = job.lldp /\ job'.links = job.links
    BY DEF Recable, LinksTyped
<1>3. ForestInv'
    BY <1>2 DEF Recable, ForestInv, Loopless, OnePerNode
<1>4. DatesInv'
    BY <1>2 DEF Recable, DatesInv, Dated
<1> QED
    BY <1>1, <1>3, <1>4

\* A rescan starts with nothing collected.
LEMMA StartRescanInv ==
    ASSUME IInv, NEW S \in SUBSET Switches, StartRescan(S)
    PROVE IInv'
<1> USE DEF IInv
<1>1. job' \in [step : {"idle", "query", "save"}, devices : SUBSET Switches,
                left : SUBSET Switches, lldp : SUBSET LinksAt(now), bridge : SUBSET Facts,
                links : SUBSET LinksAt(now), moved : BOOLEAN] /\ job'.left \subseteq job'.devices
    BY DEF StartRescan, NoJob
<1>2. scans' \in 0..MaxScans
    BY BoundAssumption DEF StartRescan, LinksTyped, BoundAssumption
<1>3. LinksTyped'
    BY <1>1, <1>2 DEF StartRescan, LinksTyped, LinksAt
<1>4. job'.lldp = {} /\ job'.links = {}
    BY DEF StartRescan, NoJob
<1>5. ForestInv'
    BY <1>4 DEF StartRescan, ForestInv, Loopless, OnePerNode
<1>6. DatesInv'
    BY <1>4 DEF StartRescan, DatesInv, Dated
<1> QED
    BY <1>3, <1>5, <1>6

\* A device is queried: LLDP links have the date of the query.
LEMMA QueryInv ==
    ASSUME IInv, NEW d \in job.left, NEW silent, NEW errors, Query(d, silent, errors)
    PROVE IInv'
<1> USE DEF IInv
<1> DEFINE at_d == {f \in cabling : f.mac = d}
           neighbors == {f \in at_d : f.neighbor \notin silent}
           learned == UNION {{[mac |-> d, port |-> f.port, neighbor |-> m] : m \in behind(f) \ silent} :
                            f \in at_d}
<1>1. /\ now' = now + 1 /\ now \in Nat /\ now' \in Nat /\ now <= now' /\ now' \in 1..now'
    BY DEF Query, LinksTyped
<1>2. LinksAt(now) \subseteq LinksAt(now')
    BY <1>1, LaterLinks
<1>3. neighbors \in SUBSET Facts
    BY DEF LinksTyped
<1>4. learned \subseteq Facts
  <2>1. d \in Macs
    BY DEF LinksTyped, Macs
  <2>2. ASSUME NEW f \in at_d, NEW m \in behind(f) \ silent
        PROVE [mac |-> d, port |-> f.port, neighbor |-> m] \in Facts
    <3>1. f \in Facts
      BY DEF LinksTyped
    <3>2. m \in Macs
      BY ReachMacs DEF behind
    <3> QED
      BY <2>1, <3>1, <3>2 DEF Facts
  <2> QED
    BY <2>2
<1>5. job.lldp \in SUBSET LinksAt(now') /\ Dated(job.lldp)
    BY <1>2 DEF LinksTyped, DatesInv
<1>6. /\ registered(job.lldp, neighbors, now') \subseteq LinksAt(now')
      /\ Dated(registered(job.lldp, neighbors, now'))
  <2> HIDE DEF neighbors
  <2> QED
    BY <1>1, <1>3, <1>5, Registered
<1>7. job' = [job EXCEPT
            !.left = @ \ {d},
            !.lldp = IF d \in Speakers /\ "lldp" \notin errors
                     THEN registered(@, neighbors, now') ELSE @,
            !.bridge = IF d \in Bridges /\ "bridge" \notin errors THEN @ \cup learned ELSE @]
    BY DEF Query
<1> HIDE DEF neighbors, learned
<1>8. /\ job'.step = job.step /\ job'.devices = job.devices /\ job'.left = job.left \ {d}
      /\ job'.lldp \in {registered(job.lldp, neighbors, now'), job.lldp}
      /\ job'.bridge \subseteq job.bridge \cup learned
      /\ job'.links = job.links /\ job'.moved = job.moved
    BY <1>7 DEF LinksTyped
<1>9. LinksTyped'
  <2>1. job' \in [step : {"idle", "query", "save"}, devices : SUBSET Switches,
                  left : SUBSET Switches, lldp : SUBSET LinksAt(now'), bridge : SUBSET Facts,
                  links : SUBSET LinksAt(now'), moved : BOOLEAN]
    <3>1. job' = [step |-> job'.step, devices |-> job'.devices, left |-> job'.left,
                  lldp |-> job'.lldp, bridge |-> job'.bridge, links |-> job'.links,
                  moved |-> job'.moved]
      BY <1>7 DEF LinksTyped
    <3>2. /\ job'.step \in {"idle", "query", "save"} /\ job'.devices \in SUBSET Switches
          /\ job'.left \in SUBSET Switches /\ job'.moved \in BOOLEAN
      BY <1>8 DEF LinksTyped
    <3>3. job'.lldp \in SUBSET LinksAt(now') /\ job'.links \in SUBSET LinksAt(now')
      BY <1>2, <1>5, <1>6, <1>8 DEF LinksTyped
    <3>4. job'.bridge \in SUBSET Facts
      BY <1>4, <1>8 DEF LinksTyped
    <3> QED
      BY <3>1, <3>2, <3>3, <3>4
  <2>2. job'.left \subseteq job'.devices
    BY <1>8 DEF LinksTyped
  <2>3. changes' \in 0..MaxChanges
    BY BoundAssumption DEF Query, LinksTyped, BoundAssumption
  <2>4. cabling' \subseteq Facts /\ table' \subseteq LinksAt(now')
    BY <1>2 DEF Query, LinksTyped
  <2>5. LinksAt(now)' = LinksAt(now')
    BY DEF LinksAt
  <2> QED
    BY <1>1, <2>1, <2>2, <2>3, <2>4, <2>5 DEF Query, LinksTyped
<1>10. ForestInv'
    BY <1>8 DEF Query, ForestInv, Loopless, OnePerNode
<1>11. DatesInv'
  <2>1. Dated(job'.lldp)
    BY <1>5, <1>6, <1>8
  <2> QED
    BY <1>8, <2>1 DEF Query, DatesInv, Dated
<1> QED
    BY <1>9, <1>10, <1>11

\* The links to save are a forest, and the rescan does not fail when dates are known.
LEMMA MergeInv ==
    ASSUME IInv, Merge
    PROVE IInv'
<1> USE DEF IInv
<1> DEFINE Result(all, ok) ==
               IF ~ok THEN job' = NoJob /\ failed' = TRUE
               ELSE /\ \E links \in cleanup(all.links, EndNodes) :
                           job' = [job EXCEPT !.step = "save", !.links = links]
                    /\ UNCHANGED failed
<1>1. PICK by_bridge \in deduce_link_layer_topology(job.bridge \cup facts_of(job.lldp),
                                                    Switches, now + 1) :
        \E new \in merge_other(job.lldp, set_confirm_all(by_bridge, FALSE)) :
        \E all \in merge_other(set_confirm_all(new.links, TRUE), unconfirm(table, job.devices)) :
            Result(all, ~(new.failed \/ all.failed \/ fails(all.links, EndNodes)))
    BY DEF Merge
<1>2. PICK new \in merge_other(job.lldp, set_confirm_all(by_bridge, FALSE)) :
        \E all \in merge_other(set_confirm_all(new.links, TRUE), unconfirm(table, job.devices)) :
            Result(all, ~(new.failed \/ all.failed \/ fails(all.links, EndNodes)))
  <2> HIDE DEF Result
  <2> QED
    BY <1>1
<1>3. PICK all \in merge_other(set_confirm_all(new.links, TRUE), unconfirm(table, job.devices)) :
            Result(all, ~(new.failed \/ all.failed \/ fails(all.links, EndNodes)))
  <2> HIDE DEF Result
  <2> QED
    BY <1>2
<1>4. /\ all.links \subseteq LinksAt(now + 2)
      /\ Loopless({l \in all.links : ~l.confirmed})
      /\ new.failed = FALSE
      /\ Dated(table) => all.failed = FALSE /\ Dated(all.links)
    BY MergedLinks
<1>5. Dated(table) => ~(new.failed \/ all.failed \/ fails(all.links, EndNodes))
  <2> SUFFICES ASSUME Dated(table) PROVE ~fails(all.links, EndNodes)
    BY <1>4
  <2>1. \A l \in all.links : l.last_seen # NULL
    BY <1>4 DEF Dated
  <2> QED
    BY <2>1 DEF fails, of_node, incomparable
<1>6. /\ now' = now + 2 /\ now \in Nat /\ now' \in Nat /\ now <= now'
      /\ cabling' = cabling /\ table' = table /\ reported' = reported /\ scans' = scans
      /\ changes' = changes
  <2>1. now' = now + 2 /\ UNCHANGED <<cabling, table, reported, scans, changes>>
    BY Zenon DEF Merge
  <2> QED
    BY <2>1 DEF LinksTyped
<1>7. LinksAt(now) \subseteq LinksAt(now')
    BY <1>6, LaterLinks
<1>8. LinksAt(now)' = LinksAt(now')
    BY DEF LinksAt
<1>9. ASSUME job'.links \in SUBSET LinksAt(now'), job'.left \subseteq job'.devices,
             job' \in [step : {"idle", "query", "save"}, devices : SUBSET Switches,
                       left : SUBSET Switches, lldp : SUBSET LinksAt(now'), bridge : SUBSET Facts,
                       links : SUBSET LinksAt(now'), moved : BOOLEAN],
             failed' \in BOOLEAN
      PROVE LinksTyped'
    BY <1>6, <1>7, <1>8, <1>9 DEF LinksTyped
<1>10. CASE new.failed \/ all.failed \/ fails(all.links, EndNodes)
  <2>1. job' = NoJob /\ failed' = TRUE
    BY <1>3, <1>10
  <2>2. job'.lldp = {} /\ job'.links = {}
    BY <2>1 DEF NoJob
  <2>3. LinksTyped'
    <3>1. NoJob \in [step : {"idle", "query", "save"}, devices : SUBSET Switches,
                     left : SUBSET Switches, lldp : SUBSET LinksAt(now'), bridge : SUBSET Facts,
                     links : SUBSET LinksAt(now'), moved : BOOLEAN]
          /\ NoJob.left \subseteq NoJob.devices
      BY DEF NoJob
    <3> QED
      BY <1>9, <2>1, <2>2, <3>1
  <2>4. ForestInv'
    BY <1>6, <2>2 DEF ForestInv, Loopless, OnePerNode
  <2>5. reported
    BY <1>5, <1>10 DEF DatesInv
  <2>6. DatesInv'
    BY <1>6, <2>2, <2>5 DEF DatesInv, Dated
  <2> QED
    BY <2>3, <2>4, <2>6
<1>11. CASE ~(new.failed \/ all.failed \/ fails(all.links, EndNodes))
  <2>1. PICK links \in cleanup(all.links, EndNodes) :
            job' = [job EXCEPT !.step = "save", !.links = links]
    BY <1>3, <1>11
  <2>2. failed' = failed
    BY <1>3, <1>11
  <2>3. IsFiniteSet(all.links)
    <3>1. IsFiniteSet(LinksAt(now + 2))
      BY <1>6, LinksFinite
    <3> QED
      BY <1>4, <3>1, FS_Subset
  <2>4. /\ links \subseteq all.links /\ Loopless(links)
        /\ \A n \in EndNodes : \A k, l \in links : n \in ends(k) /\ n \in ends(l) => k = l
    BY <1>4, <2>3, CleanupMakesForest
  <2>5. /\ job'.links = links /\ job'.lldp = job.lldp /\ job'.left = job.left
        /\ job'.devices = job.devices
    BY <2>1 DEF LinksTyped
  <2>6. links \in SUBSET LinksAt(now')
    BY <1>4, <1>6, <2>4
  <2>7. LinksTyped'
    <3>1. job' \in [step : {"idle", "query", "save"}, devices : SUBSET Switches,
                    left : SUBSET Switches, lldp : SUBSET LinksAt(now'), bridge : SUBSET Facts,
                    links : SUBSET LinksAt(now'), moved : BOOLEAN]
      BY <1>7, <2>1, <2>6 DEF LinksTyped
    <3> QED
      BY <1>9, <2>2, <2>5, <2>6, <3>1 DEF LinksTyped
  <2>8. ForestInv'
    BY <1>6, <2>4, <2>5 DEF ForestInv, OnePerNode, Loopless
  <2>9. DatesInv'
    BY <1>4, <1>6, <2>2, <2>4, <2>5 DEF DatesInv, Dated
  <2> QED
    BY <2>7, <2>8, <2>9
<1> QED
    BY <1>10, <1>11

\* The table becomes what was computed.
LEMMA SaveInv ==
    ASSUME IInv, Save
    PROVE IInv'
<1> USE DEF IInv
<1>1. job'.lldp = {} /\ job'.links = {} /\ table' = job.links
    BY DEF Save, NoJob
<1>2. LinksTyped'
  <2>1. NoJob \in [step : {"idle", "query", "save"}, devices : SUBSET Switches,
                   left : SUBSET Switches, lldp : SUBSET LinksAt(now), bridge : SUBSET Facts,
                   links : SUBSET LinksAt(now), moved : BOOLEAN]
        /\ NoJob.left \subseteq NoJob.devices
    BY DEF NoJob
  <2>2. table' \subseteq LinksAt(now)
    BY <1>1 DEF LinksTyped
  <2> QED
    BY <2>1, <2>2 DEF Save, LinksTyped, LinksAt
<1>3. ForestInv'
    BY <1>1 DEF ForestInv, Loopless, OnePerNode
<1>4. DatesInv'
    BY <1>1 DEF Save, DatesInv, Dated
<1> QED
    BY <1>2, <1>3, <1>4

\* Links are removed.
LEMMA ForgetLocationInv ==
    ASSUME IInv, NEW n \in EndNodes, ForgetLocation(n)
    PROVE IInv'
<1> USE DEF IInv
<1>1. table' \in SUBSET table
    BY DEF ForgetLocation
<1>2. LinksTyped'
  <2>1. changes' \in 0..MaxChanges
    BY BoundAssumption DEF ForgetLocation, LinksTyped, BoundAssumption
  <2>2. table' \subseteq LinksAt(now)
    BY <1>1 DEF LinksTyped
  <2> QED
    BY <2>1, <2>2 DEF ForgetLocation, LinksTyped, LinksAt
<1>3. Loopless(table')
    BY <1>1, LooplessSubset DEF ForestInv
<1>4. OnePerNode(table')
    BY <1>1 DEF ForestInv, OnePerNode
<1>5. job' = job
    BY DEF ForgetLocation
<1>6. ForestInv'
    BY <1>3, <1>4, <1>5 DEF ForestInv, Loopless, OnePerNode
<1>7. DatesInv'
    BY <1>1, <1>5 DEF ForgetLocation, DatesInv, Dated
<1> QED
    BY <1>2, <1>6, <1>7

\* The node's link is confirmed where it is, or replaced.
LEMMA NodeReportsInv ==
    ASSUME IInv, NEW f \in cabling, NodeReports(f)
    PROVE IInv'
<1> USE DEF IInv
<1> DEFINE n == f.neighbor
           sw == f.mac
           locs == {l \in table : n \in ends(l)}
           others == table \ (IF Cardinality(locs) = 1 THEN locs ELSE {})
           new == link(n, sw, NULL, f.port, TRUE, NULL)
<1>1. n \in EndNodes /\ sw \in Switches /\ n \in Macs /\ sw \in Macs /\ f.port \in Ports
    BY AddressAssumption DEF NodeReports, LinksTyped, Facts, Macs
<1>2. /\ now \in Nat /\ table \subseteq LinksAt(now)
      /\ table' = update_node_location(n, sw, f.port)
    BY DEF NodeReports, LinksTyped
<1>3. ASSUME Cardinality(locs) = 1 /\ locs \subseteq at(table, sw, f.port)
      PROVE table' \subseteq LinksAt(now) /\ Loopless(table') /\ OnePerNode(table')
  <2>1. PICK x : locs = {x}
    <3>1. IsFiniteSet(locs)
      <4>1. IsFiniteSet(LinksAt(now))
        BY <1>2, LinksFinite
      <4>2. locs \in SUBSET LinksAt(now)
        BY <1>2
      <4> QED
        BY <4>1, <4>2, FS_Subset
    <3> HIDE DEF locs
    <3> QED
      BY <1>3, <3>1, FS_Singleton
  <2> DEFINE y == [x EXCEPT !.confirmed = TRUE]
             h == [k \in table' |-> IF k \in table \ {x} THEN k ELSE x]
  <2>2. table' = (table \ {x}) \cup {y}
    BY <1>2, <1>3, <2>1 DEF update_node_location, set_confirm_all
  <2>3. x \in table
    BY <2>1
  <2>4. y \in LinksAt(now) /\ y.a = x.a /\ y.b = x.b
    BY <1>2, <2>3 DEF LinksAt
  <2> HIDE DEF y, locs
  <2>5. \A k \in table' : h[k] \in table /\ h[k].a = k.a /\ h[k].b = k.b
    BY <2>2, <2>3, <2>4
  <2>6. \A k, l \in table' : h[k] = h[l] => k = l
    BY <2>2, <2>3
  <2> HIDE DEF h
  <2>7. Loopless(table')
    BY <2>5, <2>6, LooplessImage DEF ForestInv
  <2>8. OnePerNode(table')
    BY <2>5, <2>6 DEF ForestInv, OnePerNode, ends
  <2> QED
    BY <1>2, <2>2, <2>4, <2>7, <2>8
<1>4. ASSUME ~(Cardinality(locs) = 1 /\ locs \subseteq at(table, sw, f.port))
      PROVE table' \subseteq LinksAt(now) /\ Loopless(table') /\ OnePerNode(table')
  <2> DEFINE kept == others \ at(others, sw, f.port)
  <2>1. table' = kept \cup {new}
    BY <1>2, <1>4 DEF update_node_location
  <2>2. kept \subseteq table
    OBVIOUS
  <2>3. \A l \in kept : n \notin ends(l)
    <3>1. CASE Cardinality(locs) = 1
      BY <3>1
    <3>2. CASE Cardinality(locs) # 1
      <4> SUFFICES ASSUME NEW x \in locs PROVE FALSE
        OBVIOUS
      <4>1. \A l \in locs : l = x
        BY <1>1 DEF ForestInv, OnePerNode
      <4>2. locs = {x}
        BY <4>1
      <4> HIDE DEF locs
      <4> QED
        BY <3>2, <4>2, FS_Singleton
    <3> QED
      BY <3>1, <3>2
  <2>4. /\ new \in LinksAt(now) /\ {new.a, new.b} = {n, sw}
    BY <1>1, <1>2 DEF link, LinksAt, NULL
  <2>5. n # sw
    BY <1>1, AddressAssumption
  <2> HIDE DEF kept, new
  <2>6. Loopless(table')
    <3>1. Loopless(kept)
      BY <2>2, LooplessSubset DEF ForestInv
    <3>2. Cut({n}, kept)
      BY <2>3 DEF Cut, ends
    <3>3. ~(new.a \in {n} <=> new.b \in {n})
      BY <2>4, <2>5
    <3>4. Apart(new.a, new.b, kept)
      BY <3>2, <3>3 DEF Apart
    <3> QED
      BY <2>1, <3>1, <3>4, LooplessAdd
  <2>7. OnePerNode(table')
    <3>1. ASSUME NEW e \in EndNodes, NEW k \in table', NEW l \in table', e \in ends(k), e \in ends(l)
          PROVE k = l
      <4>1. CASE e = n
        BY <2>1, <2>3, <3>1, <4>1
      <4>2. CASE e # n
        <5>1. e # sw
          BY <1>1, AddressAssumption
        <5>2. e \notin ends(new)
          BY <2>4, <4>2, <5>1 DEF ends
        <5> QED
          BY <2>1, <2>2, <3>1, <5>2 DEF ForestInv, OnePerNode
      <4> QED
        BY <4>1, <4>2
    <3> QED
      BY <3>1 DEF OnePerNode
  <2> QED
    BY <1>2, <2>1, <2>2, <2>4, <2>6, <2>7
<1>5. table' \subseteq LinksAt(now) /\ Loopless(table') /\ OnePerNode(table')
    BY <1>3, <1>4
<1>6. job' = job
    BY DEF NodeReports
<1>7. LinksTyped'
  <2>1. changes' \in 0..MaxChanges
    BY BoundAssumption DEF NodeReports, LinksTyped, BoundAssumption
  <2>2. reported' \in BOOLEAN
    BY DEF NodeReports, LinksTyped
  <2> QED
    BY <1>5, <2>1, <2>2 DEF NodeReports, LinksTyped, LinksAt
<1>8. ForestInv'
    BY <1>5, <1>6 DEF ForestInv, Loopless, OnePerNode
<1>9. DatesInv'
  <2>1. ~reported' => ~reported /\ Dated(table')
    BY DEF NodeReports, Dated, LinksTyped
  <2> QED
    BY <1>6, <2>1 DEF NodeReports, DatesInv, Dated
<1> QED
    BY <1>7, <1>8, <1>9

\* The invariant is inductive.
LEMMA NextInv == IInv /\ [Next]_vars => IInv'
<1> SUFFICES ASSUME IInv, [Next]_vars PROVE IInv'
    OBVIOUS
<1>1. ASSUME NEW f \in cabling, NEW y \in Switches, NEW q \in Ports, Recable(f, y, q) PROVE IInv'
    BY <1>1, RecableInv
<1>2. ASSUME NEW S \in {Switches} \cup {{s} : s \in Switches}, StartRescan(S) PROVE IInv'
  <2>1. S \in SUBSET Switches
    OBVIOUS
  <2> QED
    BY <1>2, <2>1, StartRescanInv
<1>3. ASSUME NEW d \in job.left, NEW silent \in SUBSET EndNodes,
             NEW errors \in SUBSET {"lldp", "bridge"}, Query(d, silent, errors) PROVE IInv'
    BY <1>3, QueryInv
<1>4. CASE Merge
    BY <1>4, MergeInv
<1>5. CASE Save
    BY <1>5, SaveInv
<1>6. ASSUME NEW f \in cabling, NodeReports(f) PROVE IInv'
    BY <1>6, NodeReportsInv
<1>7. ASSUME NEW n \in EndNodes, ForgetLocation(n) PROVE IInv'
    BY <1>7, ForgetLocationInv
<1>8. CASE UNCHANGED vars
    BY <1>8 DEF vars, IInv, LinksTyped, LinksAt, ForestInv, Loopless, OnePerNode, DatesInv, Dated
<1> QED
    BY <1>1, <1>2, <1>3, <1>4, <1>5, <1>6, <1>7, <1>8 DEF Next

\* It holds in each state.
LEMMA InvHolds == Spec => []IInv
    BY InitInv, NextInv, PTL DEF Spec

\* Whatever part of the network is rescanned, whatever was reported or forgotten, and
\* whichever cables were moved before or during the rescan, the table topology has no
\* loop, and a node is at one place at most (cleanup(), update_node_location()).
THEOREM TableIsForest == Spec => []Forest
<1>1. IInv => Forest
  <2> SUFFICES ASSUME IInv PROVE Forest
    OBVIOUS
  <2>1. IsFiniteSet(table)
    <3>1. IsFiniteSet(LinksAt(now)) /\ table \subseteq LinksAt(now)
      BY LinksFinite DEF IInv, LinksTyped
    <3> QED
      BY <3>1, FS_Subset
  <2>2. acyclic(table)
    BY <2>1, AcyclicLoopless DEF IInv, ForestInv
  <2>3. ASSUME NEW n \in EndNodes PROVE Cardinality({l \in table : n \in ends(l)}) <= 1
    <3> DEFINE locs == {l \in table : n \in ends(l)}
    <3>1. \A k, l \in locs : k = l
      BY DEF IInv, ForestInv, OnePerNode
    <3>2. CASE locs = {}
      BY <3>2, FS_EmptySet
    <3>3. CASE locs # {}
      <4>1. PICK x : x \in locs
        BY <3>3
      <4>2. locs = {x}
        BY <3>1, <4>1
      <4>3. Cardinality(locs) = 1
        <5> HIDE DEF locs
        <5> QED
          BY <4>2, FS_Singleton
      <4> QED
        BY <4>3
    <3> QED
      BY <3>2, <3>3
  <2> QED
    BY <2>2, <2>3 DEF Forest
<1> QED
    BY <1>1, InvHolds, PTL

\* A rescan ends with an exception only after a node has reported its location: no merge
\* and no clean-up loses the date of a link that was scanned (merge_other(), cleanup()).
THEOREM ScansFailOnReports == Spec => []FailsOnReports
<1>1. IInv => FailsOnReports
    BY DEF IInv, DatesInv, FailsOnReports
<1> QED
    BY <1>1, InvHolds, PTL

\* Link l is at location loc, where its neighbor is n.
Located(l, loc, n) ==
    \/ loc = <<l.a, l.port_a>> /\ n = l.b
    \/ loc = <<l.b, l.port_b>> /\ n = l.a

At(l, loc) == loc = <<l.a, l.port_a>> \/ loc = <<l.b, l.port_b>>

\* Two links have a location in common.
Shares(k, l) ==
    \E f \in facts_of({k}), g \in facts_of({l}) : f.mac = g.mac /\ f.port = g.port

\* Links at the same location share it.
LEMMA SharesAt ==
    ASSUME NEW k, NEW l, NEW loc, loc[2] # NULL, At(k, loc), At(l, loc)
    PROVE Shares(k, l)
<1> DEFINE ka == [mac |-> k.a, port |-> k.port_a, neighbor |-> k.b]
           kb == [mac |-> k.b, port |-> k.port_b, neighbor |-> k.a]
           la == [mac |-> l.a, port |-> l.port_a, neighbor |-> l.b]
           lb == [mac |-> l.b, port |-> l.port_b, neighbor |-> l.a]
<1>1. /\ loc = <<ka.mac, ka.port>> \/ loc = <<kb.mac, kb.port>>
      /\ loc = <<la.mac, la.port>> \/ loc = <<lb.mac, lb.port>>
    BY DEF At
<1>2. /\ facts_of({k}) = {f \in {ka, kb} : f.port # NULL}
      /\ facts_of({l}) = {f \in {la, lb} : f.port # NULL}
    BY DEF facts_of
<1> HIDE DEF ka, kb, la, lb
<1>3. PICK f \in {ka, kb} : loc = <<f.mac, f.port>>
    BY <1>1
<1>4. PICK g \in {la, lb} : loc = <<g.mac, g.port>>
    BY <1>1
<1>5. f.port # NULL /\ g.port # NULL /\ f.mac = g.mac /\ f.port = g.port
    BY <1>3, <1>4
<1> QED
    BY <1>2, <1>5 DEF Shares

\* Link k of A has nothing to fear from merge_other(): no other link of A is between the same
\* devices or at the same location, and the links of R there do not have priority.
Safe(k, A, R) ==
    /\ k \in A /\ k \notin R /\ k.a # k.b
    /\ \A m \in A \cup R : ends(m) = ends(k) => m = k
    /\ \A m \in A : Shares(k, m) => m = k
    /\ \A m \in R : Shares(k, m) => ~lower(k, m)

\* What the loop of merge_other() keeps about k.
Keeps(k, acc, all) ==
    /\ k \in acc.links
    /\ \A e \in acc.locations :
          e.link \in all /\ e.loc[2] # NULL /\ Located(e.link, e.loc, e.neighbor)
    /\ \A e \in acc.locations : At(k, e.loc) => e.link = k

Taken(acc, loc) == \E e \in acc.locations : e.loc = loc

\* Link l was considered at location loc: k stays, and a link of lower priority there is popped.
KeptThere(k, acc, new, l, loc, all) ==
    /\ Keeps(k, new, all) /\ new.links \subseteq acc.links
    /\ \A x : x # loc => (Taken(new, x) <=> Taken(acc, x))
    /\ Taken(acc, loc) \/ (l = k /\ At(k, loc) /\ loc[2] # NULL) => Taken(new, loc)
    /\ At(k, loc) /\ loc[2] # NULL /\ l # k /\ ~incomparable(k, l) => l \notin new.links

\* One end of a link l, when links at the locations of k come after k
LEMMA KeptAt ==
    ASSUME NEW k, NEW A, NEW R, Safe(k, A, R), NEW outcomes,
           NEW acc \in Acc(A \cup R, outcomes), Keeps(k, acc, A \cup R),
           NEW l \in A \cup R, NEW loc, NEW neighbor, Located(l, loc, neighbor),
           At(k, loc) /\ loc[2] # NULL => (l = k <=> ~Taken(acc, loc))
    PROVE KeptThere(k, acc, at_location(acc, l, loc, neighbor), l, loc, A \cup R)
<1> SUFFICES
        LET new == at_location(acc, l, loc, neighbor) IN
        /\ Keeps(k, new, A \cup R) /\ new.links \subseteq acc.links
        /\ \A x : x # loc => (Taken(new, x) <=> Taken(acc, x))
        /\ Taken(acc, loc) \/ (l = k /\ At(k, loc) /\ loc[2] # NULL) => Taken(new, loc)
        /\ At(k, loc) /\ loc[2] # NULL /\ l # k /\ ~incomparable(k, l) => l \notin new.links
    BY DEF KeptThere
<1> DEFINE found == {e \in acc.locations : e.loc = loc}
           old == CHOOSE e \in found : TRUE
           key == IF neighbor = l.b THEN <<loc[1], old.neighbor>> ELSE <<old.neighbor, loc[1]>>
           entry == [loc |-> loc, neighbor |-> neighbor, link |-> l]
           first == [acc EXCEPT !.locations = @ \cup {entry}]
           fails_ == [acc EXCEPT !.failed = TRUE]
           replaced == [acc EXCEPT !.links = {m \in @ : <<m.a, m.b>> # key},
                                   !.locations = (@ \ found) \cup {entry}]
           popped == [acc EXCEPT !.links = @ \ {l}]
           new == at_location(acc, l, loc, neighbor)
<1>1. new =
          IF loc[2] = NULL THEN acc
          ELSE IF found = {} THEN first
          ELSE IF incomparable(old.link, l) THEN fails_
          ELSE IF lower(old.link, l) THEN replaced
          ELSE popped
    BY DEF at_location
<1>2. found = {} <=> ~Taken(acc, loc)
    BY DEF Taken
<1>3. found # {} => old \in acc.locations /\ old.loc = loc
    BY DEF found
<1>4. /\ fails_.links = acc.links /\ fails_.locations = acc.locations
      /\ first.links = acc.links /\ first.locations = acc.locations \cup {entry}
      /\ popped.links = acc.links \ {l} /\ popped.locations = acc.locations
      /\ replaced.links = {m \in acc.links : <<m.a, m.b>> # key}
      /\ replaced.locations = (acc.locations \ found) \cup {entry}
    BY DEF Acc
<1>5. entry.loc = loc /\ entry.link = l /\ entry.neighbor = neighbor
    OBVIOUS
<1>6. At(l, loc)
    BY DEF Located, At
<1>7. \A e \in found : e.loc = loc
    OBVIOUS
<1>9. found \subseteq acc.locations
    OBVIOUS
<1>8. key \in {<<loc[1], old.neighbor>>, <<old.neighbor, loc[1]>>}
    OBVIOUS
<1> HIDE DEF found, old, entry, first, fails_, replaced, popped, new, key
<1>10. CASE loc[2] = NULL
  <2>1. new = acc
    BY <1>1, <1>10
  <2> QED
    BY <1>10, <2>1 DEF new
<1>20. CASE loc[2] # NULL /\ found = {}
  <2>1. new = first
    BY <1>1, <1>20
  <2>2. At(k, loc) => l = k
    BY <1>2, <1>20
  <2>3. Keeps(k, new, A \cup R)
    BY <1>4, <1>5, <1>20, <2>1, <2>2 DEF Keeps
  <2>4. \A x : Taken(new, x) <=> Taken(acc, x) \/ x = loc
    BY <1>4, <1>5, <2>1 DEF Taken
  <2> QED
    BY <1>4, <2>1, <2>2, <2>3, <2>4 DEF new
<1>30. CASE loc[2] # NULL /\ found # {}
  <2>1. At(k, loc) => l # k /\ old.link = k /\ l \in R /\ ~lower(k, l)
    <3> SUFFICES ASSUME At(k, loc) PROVE l # k /\ old.link = k /\ l \in R /\ ~lower(k, l)
      OBVIOUS
    <3>1. l # k /\ old.link = k
      BY <1>2, <1>3, <1>30 DEF Keeps
    <3>2. Shares(k, l)
      BY <1>6, <1>30, SharesAt
    <3> QED
      BY <3>1, <3>2 DEF Safe
  <2>2. l = k => ~At(k, loc)
    BY <2>1
  <2>3. l # k
    BY <1>6, <2>2
  <2>4. CASE incomparable(old.link, l)
    <3>1. new = fails_
      BY <1>1, <1>30, <2>4
    <3>2. Keeps(k, new, A \cup R) /\ \A x : Taken(new, x) <=> Taken(acc, x)
      BY <1>4, <3>1 DEF Keeps, Taken
    <3> QED
      BY <1>2, <1>4, <1>30, <2>1, <2>4, <3>1, <3>2 DEF new
  <2>5. CASE ~incomparable(old.link, l) /\ ~lower(old.link, l)
    <3>1. new = popped
      BY <1>1, <1>30, <2>5
    <3>2. Keeps(k, new, A \cup R) /\ \A x : Taken(new, x) <=> Taken(acc, x)
      BY <1>4, <2>3, <3>1 DEF Keeps, Taken
    <3> QED
      BY <1>2, <1>4, <1>30, <3>1, <3>2 DEF new
  <2>6. CASE ~incomparable(old.link, l) /\ lower(old.link, l)
    <3>1. new = replaced
      BY <1>1, <1>30, <2>6
    <3>2. ~At(k, loc)
      BY <2>1, <2>6
    <3>3. <<k.a, k.b>> # key
      <4> SUFFICES ASSUME <<k.a, k.b>> = key PROVE FALSE
        OBVIOUS
      <4>1. Located(old.link, loc, old.neighbor) /\ old.link \in A \cup R
        BY <1>3, <1>30 DEF Keeps
      <4>2. {k.a, k.b} = {loc[1], old.neighbor}
        BY <1>8
      <4>3. {loc[1], old.neighbor} = ends(old.link)
        BY <4>1 DEF Located, ends
      <4>4. old.link = k
        BY <4>1, <4>2, <4>3 DEF Safe, ends
      <4> QED
        BY <3>2, <4>1, <4>4 DEF Located, At
    <3>4. Keeps(k, new, A \cup R)
      <4>1. k \in new.links
        BY <1>4, <3>1, <3>3 DEF Keeps
      <4>2. \A e \in new.locations : e \in acc.locations \/ e = entry
        BY <1>4, <3>1
      <4> QED
        BY <1>5, <1>30, <3>2, <4>1, <4>2 DEF Keeps
    <3>5. \A x : x # loc => (Taken(new, x) <=> Taken(acc, x))
      BY <1>4, <1>5, <1>7, <1>9, <3>1 DEF Taken
    <3>6. Taken(new, loc) /\ new.links \subseteq acc.links
      BY <1>4, <1>5, <3>1 DEF Taken
    <3> QED
      BY <3>2, <3>4, <3>5, <3>6 DEF new
  <2> QED
    BY <2>4, <2>5, <2>6
<1> QED
    BY <1>10, <1>20, <1>30

\* What the loop keeps about k when the links of done have been considered: the entries at
\* its locations are its own, and the links of R that came there were popped.
Kept(k, acc, A, R, done) ==
    /\ Keeps(k, acc, A \cup R)
    /\ \A loc : At(k, loc) /\ loc[2] # NULL => (Taken(acc, loc) <=> k \in done)
    /\ \A m \in R \cap done : Shares(k, m) /\ ~incomparable(k, m) => m \notin acc.links

\* Both ends of a link, when links at the locations of k come after k.
LEMMA KeptBothEnds ==
    ASSUME NEW k, NEW A, NEW R, Safe(k, A, R), NEW outcomes,
           NEW acc \in Acc(A \cup R, outcomes), NEW done, Kept(k, acc, A, R, done),
           NEW l \in A \cup R, l \notin done, l \in R /\ Shares(k, l) => k \in done,
           at_location(acc, l, <<l.a, l.port_a>>, l.b) \in Acc(A \cup R, outcomes)
    PROVE Kept(k, both_ends(acc, l), A, R, done \cup {l})
<1> DEFINE loc1 == <<l.a, l.port_a>>
           loc2 == <<l.b, l.port_b>>
           mid == at_location(acc, l, loc1, l.b)
           new == at_location(mid, l, loc2, l.a)
<1>1. new = both_ends(acc, l)
    BY DEF both_ends
<1>2. Located(l, loc1, l.b) /\ Located(l, loc2, l.a) /\ At(l, loc1) /\ At(l, loc2)
    BY DEF Located, At
<1>3. \A loc : At(l, loc) <=> loc \in {loc1, loc2}
    BY DEF At
<1>4. l = k => loc1 # loc2
    BY DEF Safe
<1>5. mid \in Acc(A \cup R, outcomes)
    OBVIOUS
<1>6. \A loc : At(k, loc) /\ loc[2] # NULL => (Taken(acc, loc) <=> k \in done)
    BY DEF Kept
<1>7. \A loc : At(l, loc) /\ At(k, loc) /\ loc[2] # NULL => l = k \/ (l \in R /\ k \in done)
    BY SharesAt DEF Safe
<1> HIDE DEF loc1, loc2, mid, new
<1>8. At(k, loc1) /\ loc1[2] # NULL => (l = k <=> ~Taken(acc, loc1))
    BY <1>2, <1>6, <1>7 DEF Safe
<1>9. /\ Keeps(k, mid, A \cup R) /\ mid.links \subseteq acc.links
      /\ \A x : x # loc1 => (Taken(mid, x) <=> Taken(acc, x))
      /\ Taken(acc, loc1) \/ (l = k /\ At(k, loc1) /\ loc1[2] # NULL) => Taken(mid, loc1)
      /\ At(k, loc1) /\ loc1[2] # NULL /\ l # k /\ ~incomparable(k, l) => l \notin mid.links
  <2>1. Keeps(k, acc, A \cup R)
    BY DEF Kept
  <2>2. KeptThere(k, acc, mid, l, loc1, A \cup R)
    BY <1>2, <1>8, <2>1, KeptAt DEF mid
  <2> QED
    BY <2>2 DEF KeptThere
<1>10. At(k, loc2) /\ loc2[2] # NULL => (l = k <=> ~Taken(mid, loc2))
  <2> SUFFICES ASSUME At(k, loc2), loc2[2] # NULL PROVE l = k <=> ~Taken(mid, loc2)
    OBVIOUS
  <2>1. CASE l = k
    BY <1>4, <1>6, <1>9, <2>1 DEF Safe
  <2>2. CASE l # k
    <3>1. Taken(acc, loc2)
      BY <1>2, <1>6, <1>7, <2>2
    <3> QED
      BY <1>9, <2>2, <3>1
  <2> QED
    BY <2>1, <2>2
<1>11. /\ Keeps(k, new, A \cup R) /\ new.links \subseteq mid.links
       /\ \A x : x # loc2 => (Taken(new, x) <=> Taken(mid, x))
       /\ Taken(mid, loc2) \/ (l = k /\ At(k, loc2) /\ loc2[2] # NULL) => Taken(new, loc2)
       /\ At(k, loc2) /\ loc2[2] # NULL /\ l # k /\ ~incomparable(k, l) => l \notin new.links
  <2>1. Keeps(k, mid, A \cup R)
    BY <1>9
  <2>2. KeptThere(k, mid, new, l, loc2, A \cup R)
    BY <1>2, <1>5, <1>10, <2>1, KeptAt DEF new
  <2> QED
    BY <2>2 DEF KeptThere
<1>12. ASSUME NEW loc, At(k, loc), loc[2] # NULL
       PROVE Taken(new, loc) <=> k \in done \cup {l}
  <2>1. CASE l = k
    <3>1. loc \in {loc1, loc2}
      BY <1>3, <1>12, <2>1
    <3> QED
      BY <1>9, <1>11, <1>12, <2>1, <3>1
  <2>2. CASE l # k /\ At(l, loc)
    <3>1. k \in done /\ Taken(acc, loc)
      BY <1>6, <1>7, <1>12, <2>2
    <3>2. Taken(new, loc)
      BY <1>9, <1>11, <3>1
    <3> QED
      BY <3>1, <3>2
  <2>3. CASE l # k /\ ~At(l, loc)
    <3>1. loc # loc1 /\ loc # loc2
      BY <1>2, <2>3
    <3> QED
      BY <1>6, <1>9, <1>11, <1>12, <2>3, <3>1
  <2> QED
    BY <2>1, <2>2, <2>3
<1>13. ASSUME NEW m \in R \cap (done \cup {l}), Shares(k, m), ~incomparable(k, m)
       PROVE m \notin new.links
  <2>1. CASE m \in done
    BY <1>9, <1>11, <1>13, <2>1 DEF Kept
  <2>2. CASE m = l
    <3>1. PICK loc : At(k, loc) /\ At(l, loc) /\ loc[2] # NULL
      <4>1. PICK f \in facts_of({k}), g \in facts_of({l}) : f.mac = g.mac /\ f.port = g.port
        BY <1>13, <2>2 DEF Shares
      <4>2. At(k, <<f.mac, f.port>>) /\ At(l, <<g.mac, g.port>>) /\ f.port # NULL
        BY <4>1 DEF facts_of, At
      <4> QED
        BY <4>1, <4>2
    <3>2. l # k
      BY <1>13, <2>2 DEF Safe
    <3> QED
      BY <1>3, <1>9, <1>11, <1>13, <2>2, <3>1, <3>2
  <2> QED
    BY <1>13, <2>1, <2>2
<1> QED
    BY <1>1, <1>11, <1>12, <1>13 DEF Kept

\* Two links that share a location are both considered.
LEMMA SharesContested ==
    ASSUME NEW all, NEW k \in all, NEW m \in all, k # m, Shares(k, m)
    PROVE k \in contested(all)
<1>1. PICK f \in facts_of({k}), g \in facts_of({m}) : f.mac = g.mac /\ f.port = g.port
    BY DEF Shares
<1>2. m \in at(all, f.mac, f.port)
    BY <1>1 DEF facts_of, at
<1>3. at(all, f.mac, f.port) # {k}
    BY <1>2
<1> QED
    BY <1>3 DEF contested

\* Sharing a location goes both ways.
LEMMA SharesSymmetric == \A k, m : Shares(k, m) => Shares(m, k)
    BY DEF Shares

\* merge_other() keeps a link that is safe, and drops the links of the other side that come
\* at its locations.
LEMMA MergeKept ==
    ASSUME NEW mine, NEW others, NEW outcomes, NEW q, NEW step, NEW r,
           Run(r, mine, others, outcomes, q, step), NEW k, NEW R, R = alone(others, mine),
           Safe(k, First(mine, others), R),
           \A acc \in Acc(Union(mine, others), outcomes) : \A l \in Union(mine, others) :
               at_location(acc, l, <<l.a, l.port_a>>, l.b) \in Acc(Union(mine, others), outcomes)
    PROVE /\ k \in r.links
          /\ \A m \in R : Shares(k, m) /\ ~incomparable(k, m) => m \notin r.links
<1> DEFINE A == First(mine, others)
           all == A \cup R
           n == Len(q)
           done(i) == {q[j] : j \in 1..i}
           Bad == {i \in 0..n : ~Kept(k, step[i], A, R, done(i))}
<1>1. /\ Lists(q, all \cap contested(all))
      /\ \A i, j \in 1..n : q[i] \in R /\ q[j] \in A => j < i
      /\ step \in [0..n -> Acc(all, outcomes)]
      /\ step[0].links = all /\ step[0].locations = {}
      /\ \A i \in 1..n : step[i] = both_ends(step[i - 1], q[i])
      /\ r = [links |-> step[n].links, failed |-> step[n].failed]
    BY DEF Run, Union
<1>2. /\ n \in Nat /\ \A i \in 1..n : q[i] \in all
      /\ \A i, j \in 1..n : q[i] = q[j] => i = j
      /\ \A x \in all \cap contested(all) : \E i \in 1..n : q[i] = x
    BY <1>1 DEF Lists
<1>3. Safe(k, A, R) /\ k \in A
    BY DEF Safe
<1>4. \A acc \in Acc(all, outcomes) : \A l \in all :
          at_location(acc, l, <<l.a, l.port_a>>, l.b) \in Acc(all, outcomes)
    BY DEF Union
<1> HIDE DEF A, n
<1>5. 0 \notin Bad
  <2>1. done(0) = {}
    OBVIOUS
  <2>2. Kept(k, step[0], A, R, {})
    BY <1>1, <1>3 DEF Kept, Keeps, Taken
  <2> HIDE DEF done
  <2> QED
    BY <2>1, <2>2
<1>6. ASSUME NEW i \in 1..n, i - 1 \notin Bad PROVE i \notin Bad
  <2>1. i - 1 \in 0..n /\ i \in 0..n /\ i \in Nat
    BY <1>2
  <2>2. Kept(k, step[i - 1], A, R, done(i - 1))
    BY <1>6, <2>1
  <2>3. done(i) = done(i - 1) \cup {q[i]}
    <3>1. \A j : j \in 1..i <=> j \in 1..(i - 1) \/ j = i
      BY <2>1
    <3> QED
      BY <3>1
  <2>4. q[i] \in all /\ step[i - 1] \in Acc(all, outcomes)
    BY <1>1, <1>2, <2>1
  <2>5. q[i] \notin done(i - 1)
    <3> SUFFICES ASSUME NEW j \in 1..(i - 1), q[i] = q[j] PROVE FALSE
      OBVIOUS
    <3>1. j \in 1..n /\ j # i
      BY <1>2, <2>1
    <3> QED
      BY <1>2, <3>1
  <2>6. ASSUME q[i] \in R, Shares(k, q[i]) PROVE k \in done(i - 1)
    <3>1. k \in all \cap contested(all)
      BY <1>3, <2>6, SharesContested DEF Safe
    <3>2. PICK j \in 1..n : q[j] = k
      BY <1>2, <3>1
    <3>3. j < i
      BY <1>1, <1>3, <2>6, <3>2
    <3>4. j \in 1..(i - 1)
      BY <1>2, <2>1, <3>3
    <3> QED
      BY <3>2, <3>4
  <2> HIDE DEF done, all
  <2>7. Kept(k, both_ends(step[i - 1], q[i]), A, R, done(i - 1) \cup {q[i]})
    <3> DEFINE l == q[i]
               acc == step[i - 1]
               D == done(i - 1)
    <3>1. acc \in Acc(A \cup R, outcomes) /\ l \in A \cup R
      BY <2>4 DEF all
    <3>2. Kept(k, acc, A, R, D) /\ l \notin D /\ (l \in R /\ Shares(k, l) => k \in D)
      BY <2>2, <2>5, <2>6
    <3>3. at_location(acc, l, <<l.a, l.port_a>>, l.b) \in Acc(A \cup R, outcomes)
      BY <1>4, <3>1 DEF all
    <3> HIDE DEF l, acc, D
    <3>4. Kept(k, both_ends(acc, l), A, R, D \cup {l})
      BY <1>3, <3>1, <3>2, <3>3, KeptBothEnds
    <3> QED
      BY <3>4 DEF l, acc, D
  <2> QED
    BY <1>1, <2>3, <2>7
<1>7. Bad = {}
  <2> SUFFICES ASSUME Bad # {} PROVE FALSE
    OBVIOUS
  <2>1. Bad \in SUBSET Nat
    BY <1>2
  <2>2. PICK i \in Bad : \A j \in Bad : i <= j
    <3> HIDE DEF Bad
    <3> QED
      BY <2>1, NatMin
  <2>3. i \in 1..n /\ i - 1 < i
    <3>1. i \in 0..n /\ i # 0
      BY <1>5, <2>2
    <3> QED
      BY <1>2, <3>1
  <2> HIDE DEF Bad
  <2>4. i - 1 \notin Bad
    BY <1>2, <2>2, <2>3
  <2> QED
    BY <1>6, <2>2, <2>3, <2>4
<1>8. Kept(k, step[n], A, R, done(n))
  <2>1. n \in 0..n
    BY <1>2
  <2> HIDE DEF done
  <2> QED
    BY <1>7, <2>1
<1>9. k \in r.links /\ r.links = step[n].links
    BY <1>1, <1>8 DEF Kept, Keeps
<1>10. ASSUME NEW m \in R, Shares(k, m), ~incomparable(k, m) PROVE m \notin r.links
  <2>1. m \in all \cap contested(all)
    BY <1>3, <1>10, SharesContested, SharesSymmetric DEF Safe
  <2>2. PICK j \in 1..n : q[j] = m
    BY <1>2, <2>1
  <2>3. m \in done(n)
    BY <2>2
  <2> HIDE DEF done
  <2> QED
    BY <1>8, <1>9, <1>10, <2>3 DEF Kept
<1> QED
    BY <1>9, <1>10

\* Whatever the order in which merge_other() considers links, a link of the first side that
\* shares no location with another one of that side, nor with one of the second side that has
\* priority, is in the result, and links of the second side at its locations are not.
THEOREM MergeSafe ==
    ASSUME NEW date \in Nat, NEW mine \in SUBSET LinksAt(date), NEW others \in SUBSET LinksAt(date),
           NEW r \in merge_other(mine, others), NEW k, NEW R, R = alone(others, mine),
           Safe(k, First(mine, others), R)
    PROVE /\ k \in r.links
          /\ \A m \in R : Shares(k, m) /\ ~incomparable(k, m) => m \notin r.links
<1> DEFINE all == Union(mine, others)
<1>1. all \subseteq LinksAt(date)
    BY MergeRun
<1>2. PICK outcomes, q, step :
          /\ Run(r, mine, others, outcomes, q, step)
          /\ Dated(mine) /\ Dated(others) => outcomes = {FALSE} /\ Dated(Union(mine, others))
    BY MergeRun
<1>3. Outcomes(all, outcomes)
    BY <1>2 DEF Run
<1> HIDE DEF all
<1>4. ASSUME NEW acc \in Acc(all, outcomes), NEW l \in all
      PROVE at_location(acc, l, <<l.a, l.port_a>>, l.b) \in Acc(all, outcomes)
  <2>1. l.b \in Macs /\ <<l.a, l.port_a>> \in Locations
    BY <1>1 DEF LinksAt, Locations
  <2> QED
    BY <1>3, <2>1, AtLocation
<1> QED
    BY <1>2, <1>4, MergeKept DEF all

-----------------------------------------------------------------------------
\* The network

\* No cable crosses C.
Closed(C, facts) == \A f \in facts : f.mac \in C <=> f.neighbor \in C

\* A link gives a fact for each end whose port is known.
LEMMA OneLink ==
    ASSUME NEW l
    PROVE facts_of({l}) = {f \in {[mac |-> l.a, port |-> l.port_a, neighbor |-> l.b],
                                  [mac |-> l.b, port |-> l.port_b, neighbor |-> l.a]} : f.port # NULL}
    BY DEF facts_of

\* A link that register_neighbor() gives
shown(x, y, port_x, port_y, date) == link(x, y, port_x, port_y, TRUE, date)

\* The ends of a link are those it was made for.
LEMMA LinkEnds ==
    ASSUME NEW x, NEW y, NEW p, NEW q, NEW t
    PROVE ends(shown(x, y, p, q, t)) = {x, y}
    BY DEF link, shown, ends

\* Its facts are about the ports it was given.
LEMMA LinkFacts ==
    ASSUME NEW x, NEW y, NEW p, NEW q, NEW t, NEW l, l = shown(x, y, p, q, t)
    PROVE facts_of({l}) = {f \in {[mac |-> x, port |-> p, neighbor |-> y],
                                  [mac |-> y, port |-> q, neighbor |-> x]} : f.port # NULL}
<1>1. \/ l.a = x /\ l.b = y /\ l.port_a = p /\ l.port_b = q
      \/ l.a = y /\ l.b = x /\ l.port_a = q /\ l.port_b = p
    BY DEF link, shown
<1> DEFINE A == {[mac |-> l.a, port |-> l.port_a, neighbor |-> l.b],
                [mac |-> l.b, port |-> l.port_b, neighbor |-> l.a]}
           B == {[mac |-> x, port |-> p, neighbor |-> y], [mac |-> y, port |-> q, neighbor |-> x]}
<1>2. A = B
    BY <1>1
<1>3. facts_of({l}) = {f \in A : f.port # NULL}
    BY OneLink
<1> HIDE DEF A, B
<1>4. facts_of({l}) = {f \in B : f.port # NULL}
    BY <1>2, <1>3
<1> QED
    BY <1>4 DEF B

\* A device is reached when no closed set of devices separates it.
LEMMA Reach ==
    ASSUME NEW facts \in SUBSET Facts, NEW x, NEW m
    PROVE m \in reach(x, facts) <=>
              m \in Macs /\ \A C : Closed(C, facts) => (x \in C <=> m \in C)
<1> DEFINE links == registered({}, facts, 1)
           port_of(mac, neighbor) ==
             LET known(S) == {f \in S : f.mac = mac /\ f.neighbor = neighbor}
                 found == IF known(facts) # {} THEN known(facts) ELSE known(facts_of({})) IN
             IF found = {} THEN NULL ELSE (CHOOSE f \in found : TRUE).port
<1>1. IsFiniteSet(links)
  <2>1. {} \in SUBSET LinksAt(1) /\ 1 \in Nat /\ 1 \in 1..1
    OBVIOUS
  <2>2. links \subseteq LinksAt(1)
    BY <2>1, Registered
  <2> QED
    BY <2>2, LinksFinite, FS_Subset
<1>2. links = {link(f.mac, f.neighbor, f.port, port_of(f.neighbor, f.mac), TRUE, 1) : f \in facts}
    BY DEF registered
<1> HIDE DEF links, port_of
<1>3. ASSUME NEW C PROVE Cut(C, links) <=> Closed(C, facts)
  <2>1. \A f \in facts :
          LET l == link(f.mac, f.neighbor, f.port, port_of(f.neighbor, f.mac), TRUE, 1) IN
          (l.a \in C <=> l.b \in C) <=> (f.mac \in C <=> f.neighbor \in C)
    BY DEF link
  <2> QED
    BY <1>2, <2>1 DEF Cut, Closed
<1>4. is_same_group(x, m, links) <=> ~Apart(x, m, links)
    BY <1>1, GroupsAreComponents
<1> QED
    BY <1>3, <1>4 DEF reach, Apart, links

\* Unplugging a cable removes its facts, and no other.
LEMMA Unplugged ==
    ASSUME NEW f, NEW facts \in SUBSET Facts
    PROVE /\ unplugged(f, facts) \in SUBSET Facts
          /\ \A g \in facts : g \in unplugged(f, facts) <=>
                 ~((g.mac = f.mac /\ g.neighbor = f.neighbor) \/ (g.mac = f.neighbor /\ g.neighbor = f.mac))
<1>1. \A g : {g.mac, g.neighbor} = {f.mac, f.neighbor} <=>
          ((g.mac = f.mac /\ g.neighbor = f.neighbor) \/ (g.mac = f.neighbor /\ g.neighbor = f.mac))
    OBVIOUS
<1> QED
    BY <1>1 DEF unplugged

\* A cable is the only way between its ends.
LEMMA Separated ==
    ASSUME NEW facts \in SUBSET Facts, Wired(facts), NEW f \in facts
    PROVE /\ \E C : Closed(C, unplugged(f, facts)) /\ f.neighbor \in C /\ f.mac \notin C
          /\ f.mac # f.neighbor
<1>1. f.neighbor \notin reach(f.mac, unplugged(f, facts)) /\ f.neighbor \in Macs
    BY DEF Wired, Facts
<1>2. PICK C : Closed(C, unplugged(f, facts)) /\ ~(f.mac \in C <=> f.neighbor \in C)
    BY <1>1, Unplugged, Reach
<1>3. CASE f.neighbor \in C
    BY <1>2, <1>3
<1>4. CASE f.neighbor \notin C
  <2> DEFINE D == Macs \ C
  <2>1. Closed(D, unplugged(f, facts))
    BY <1>2, Unplugged DEF Closed, Facts
  <2>2. f.neighbor \in D /\ f.mac \notin D
    BY <1>1, <1>2, <1>4
  <2> QED
    BY <2>1, <2>2
<1> QED
    BY <1>3, <1>4

\* A device is behind one cable of another at most, and not behind its own ones.
LEMMA AtOnePort ==
    ASSUME NEW facts \in SUBSET Facts, Wired(facts), NEW c \in facts, NEW m,
           m \in reach(c.neighbor, unplugged(c, facts))
    PROVE /\ m # c.mac
          /\ \A d \in facts : d.mac = c.mac /\ m \in reach(d.neighbor, unplugged(d, facts)) => d = c
<1>1. PICK C : Closed(C, unplugged(c, facts)) /\ c.neighbor \in C /\ c.mac \notin C
    BY Separated
<1>2. m \in C
    BY <1>1, Unplugged, Reach
<1>3. ASSUME NEW d \in facts, d.mac = c.mac, m \in reach(d.neighbor, unplugged(d, facts)), d # c
      PROVE FALSE
  <2>1. PICK D : Closed(D, unplugged(d, facts)) /\ d.neighbor \in D /\ d.mac \notin D
    BY Separated
  <2>2. m \in D
    BY <1>3, <2>1, Unplugged, Reach
  <2>3. d.neighbor # c.neighbor
    BY <1>3 DEF Wired
  <2>4. c \in unplugged(d, facts) /\ d \in unplugged(c, facts)
    BY <1>3, <2>3, Unplugged, Separated
  <2>5. c.neighbor \notin D /\ d.neighbor \notin C
    BY <1>1, <1>3, <2>1, <2>4 DEF Closed
  <2>6. Closed(C \cap D, unplugged(d, facts))
    <3> SUFFICES ASSUME NEW g \in unplugged(d, facts)
                 PROVE g.mac \in C \cap D <=> g.neighbor \in C \cap D
      BY DEF Closed
    <3>1. g \in facts /\ (g.mac \in D <=> g.neighbor \in D)
      BY <2>1 DEF unplugged, Closed
    <3>2. CASE g \in unplugged(c, facts)
      BY <1>1, <3>1, <3>2 DEF Closed
    <3>3. CASE g \notin unplugged(c, facts)
      <4>1. {g.mac, g.neighbor} = {c.mac, c.neighbor}
        BY <3>1, <3>3 DEF unplugged
      <4> QED
        BY <1>1, <2>5, <4>1
    <3> QED
      BY <3>2, <3>3
  <2>7. d.neighbor \in C \cap D <=> m \in C \cap D
    BY <1>3, <2>6, Unplugged, Reach
  <2> QED
    BY <1>2, <2>2, <2>5, <2>7
<1> QED
    BY <1>1, <1>2, <1>3

\* A device that is not at the other end of the cable is behind a switch.
LEMMA FirstHop ==
    ASSUME NEW facts \in SUBSET Facts, Wired(facts), NEW c \in facts, NEW m,
           m \in reach(c.neighbor, unplugged(c, facts))
    PROVE /\ c.neighbor \in reach(c.neighbor, unplugged(c, facts))
          /\ m # c.neighbor => c.neighbor \in Switches
<1>1. c.neighbor \in reach(c.neighbor, unplugged(c, facts))
    BY Unplugged, Reach DEF Facts
<1>2. ASSUME c.neighbor \notin Switches PROVE m = c.neighbor
  <2>1. c.neighbor \in EndNodes
    BY <1>2 DEF Facts, Macs
  <2>2. PICK g \in facts : g.mac = c.neighbor /\ g.neighbor = c.mac
    BY DEF Wired
  <2>3. \A h \in facts : h.mac = c.neighbor => h = g
    BY <2>1, <2>2 DEF Wired
  <2>4. \A h \in facts : h.neighbor = c.neighbor => h.mac = c.mac
    <3> SUFFICES ASSUME NEW h \in facts, h.neighbor = c.neighbor PROVE h.mac = c.mac
      OBVIOUS
    <3>1. PICK i \in facts : i.mac = h.neighbor /\ i.neighbor = h.mac
      BY DEF Wired
    <3> QED
      BY <2>2, <2>3, <3>1
  <2>5. Closed({c.neighbor}, unplugged(c, facts))
    BY <2>2, <2>3, <2>4, Unplugged DEF Closed, unplugged
  <2> QED
    BY <2>5, Unplugged, Reach
<1> QED
    BY <1>1, <1>2

\* Both ends of a cable are behind the same cable of another device.
LEMMA SameSide ==
    ASSUME NEW facts \in SUBSET Facts, Wired(facts), NEW c \in facts, NEW f \in facts,
           f.mac # c.mac, f.neighbor # c.mac
    PROVE f.mac \in reach(c.neighbor, unplugged(c, facts))
              <=> f.neighbor \in reach(c.neighbor, unplugged(c, facts))
<1>1. f \in unplugged(c, facts)
    BY Unplugged
<1>2. f.mac \in Macs /\ f.neighbor \in Macs
    BY DEF Facts
<1> QED
    BY <1>1, <1>2, Unplugged, Reach DEF Closed

\* The cables as links, which are the same from both ends
cable_of(f) == link(f.mac, f.neighbor, NULL, NULL, TRUE, 0)

cables(facts) == {cable_of(f) : f \in facts}

\* There is one cable for two devices.
LEMMA CableOf ==
    ASSUME NEW f \in Facts, NEW g \in Facts
    PROVE /\ cable_of(f) = cable_of(g) <=> {f.mac, f.neighbor} = {g.mac, g.neighbor}
          /\ \A C : (cable_of(f).a \in C <=> cable_of(f).b \in C)
                     <=> (f.mac \in C <=> f.neighbor \in C)
<1>1. f.mac \in Nat /\ f.neighbor \in Nat /\ g.mac \in Nat /\ g.neighbor \in Nat
    BY AddressAssumption DEF AddressAssumption, Facts, Macs
<1>2. /\ {cable_of(f).a, cable_of(f).b} = {f.mac, f.neighbor}
      /\ {cable_of(g).a, cable_of(g).b} = {g.mac, g.neighbor}
    BY DEF cable_of, link
<1>3. cable_of(f) = cable_of(g) => {f.mac, f.neighbor} = {g.mac, g.neighbor}
    BY <1>2
<1>4. ASSUME {f.mac, f.neighbor} = {g.mac, g.neighbor} PROVE cable_of(f) = cable_of(g)
  <2>1. (f.mac = g.mac /\ f.neighbor = g.neighbor) \/ (f.mac = g.neighbor /\ f.neighbor = g.mac)
    BY <1>4
  <2>2. ASSUME NEW x \in Nat, NEW y \in Nat
        PROVE link(x, y, NULL, NULL, TRUE, 0) = link(y, x, NULL, NULL, TRUE, 0)
    <3>1. x < y \/ y < x \/ x = y
      OBVIOUS
    <3>2. ~(x < y /\ y < x)
      OBVIOUS
    <3> QED
      BY <3>1, <3>2 DEF link
  <2> QED
    BY <1>1, <2>1, <2>2 DEF cable_of
<1>5. \A C : (cable_of(f).a \in C <=> cable_of(f).b \in C) <=> (f.mac \in C <=> f.neighbor \in C)
    BY DEF cable_of, link
<1> QED
    BY <1>3, <1>4, <1>5

\* The network is a tree, or several, when its cables have no loop.
LEMMA Trees ==
    ASSUME NEW facts \in SUBSET Facts
    PROVE /\ Loopless(cables(facts)) <=>
                 \A f \in facts : f.neighbor \notin reach(f.mac, unplugged(f, facts))
          /\ \A x, y : Apart(x, y, cables(facts)) <=>
                 \E C : Closed(C, facts) /\ ~(x \in C <=> y \in C)
<1>1. ASSUME NEW S \in SUBSET facts, NEW C PROVE Cut(C, cables(S)) <=> Closed(C, S)
    BY CableOf DEF Cut, Closed, cables
<1>2. ASSUME NEW f \in facts PROVE cables(facts) \ {cable_of(f)} = cables(unplugged(f, facts))
    BY CableOf DEF cables, unplugged
<1>3. ASSUME NEW f \in facts
      PROVE Apart(cable_of(f).a, cable_of(f).b, cables(facts) \ {cable_of(f)})
                <=> f.neighbor \notin reach(f.mac, unplugged(f, facts))
  <2>1. \A C : Cut(C, cables(facts) \ {cable_of(f)}) <=> Closed(C, unplugged(f, facts))
    <3>1. unplugged(f, facts) \in SUBSET facts
      BY DEF unplugged
    <3> QED
      BY <1>1, <1>2, <3>1
  <2>2. f.neighbor \in Macs
    BY DEF Facts
  <2>3. f.neighbor \in reach(f.mac, unplugged(f, facts)) <=>
            \A C : Closed(C, unplugged(f, facts)) => (f.mac \in C <=> f.neighbor \in C)
    BY <2>2, Unplugged, Reach
  <2> QED
    BY <2>1, <2>3, CableOf DEF Apart
<1>4. Loopless(cables(facts)) <=>
          \A f \in facts : f.neighbor \notin reach(f.mac, unplugged(f, facts))
    BY <1>3 DEF Loopless, cables
<1>5. \A x, y : Apart(x, y, cables(facts)) <=>
          \E C : Closed(C, facts) /\ ~(x \in C <=> y \in C)
    BY <1>1 DEF Apart
<1> QED
    BY <1>4, <1>5

\* A cable that is moved keeps the network a tree.
LEMMA RecableWired ==
    ASSUME LinksTyped, Wired(cabling), NEW f \in cabling, NEW y \in Switches, NEW q \in Ports,
           Recable(f, y, q)
    PROVE Wired(cabling')
<1> DEFINE U == unplugged(f, cabling)
           n1 == [mac |-> f.mac, port |-> f.port, neighbor |-> y]
           n2 == [mac |-> y, port |-> q, neighbor |-> f.mac]
           new == U \cup {n1, n2}
<1>1. cabling' = new /\ y \notin reach(f.mac, U) /\ free(y, q)
    BY DEF Recable
<1>2. cabling \in SUBSET Facts /\ U \in SUBSET Facts /\ U \subseteq cabling /\ f \in Facts
    BY DEF LinksTyped, unplugged
<1>3. y \in Macs /\ y \notin EndNodes /\ f.mac \in Macs /\ f.port \in Ports
    BY <1>2, AddressAssumption DEF Macs, Facts, AddressAssumption
<1>4. n1 \in Facts /\ n2 \in Facts /\ new \in SUBSET Facts
    BY <1>2, <1>3 DEF Facts
<1>5. PICK B : Closed(B, U) /\ ~(f.mac \in B <=> y \in B)
    BY <1>1, <1>2, <1>3, Reach
<1>6. y # f.mac
    BY <1>5
<1>7. f \notin U /\ \A g \in U : ~(g.mac = f.mac /\ g.neighbor = y) /\ ~(g.mac = y /\ g.neighbor = f.mac)
    BY <1>5 DEF Closed, unplugged
<1>8. /\ n1.mac = f.mac /\ n1.port = f.port /\ n1.neighbor = y
      /\ n2.mac = y /\ n2.port = q /\ n2.neighbor = f.mac
    OBVIOUS
<1> HIDE DEF n1, n2
<1>9. ASSUME NEW g \in new PROVE \E h \in new : h.mac = g.neighbor /\ h.neighbor = g.mac
  <2>1. CASE g \in U
    <3>1. PICK h \in cabling : h.mac = g.neighbor /\ h.neighbor = g.mac
      BY <1>2, <2>1 DEF Wired
    <3>2. {h.mac, h.neighbor} = {g.mac, g.neighbor}
      BY <3>1
    <3>3. h \in U
      BY <2>1, <3>2 DEF unplugged
    <3> QED
      BY <3>1, <3>3
  <2>2. CASE g = n1
    BY <1>8, <2>2
  <2>3. CASE g = n2
    BY <1>8, <2>3
  <2> QED
    BY <2>1, <2>2, <2>3
<1>10. ASSUME NEW g \in new, NEW h \in new, g.mac = h.mac,
              g.port = h.port \/ g.neighbor = h.neighbor \/ g.mac \in EndNodes
       PROVE g = h
  <2>1. ASSUME NEW i \in U, NEW j \in {n1, n2}, i.mac = j.mac,
               i.port = j.port \/ i.neighbor = j.neighbor \/ i.mac \in EndNodes
        PROVE FALSE
    <3>1. i \in cabling /\ i # f
      BY <1>2, <1>7
    <3>2. CASE j = n1
      <4>1. i.neighbor # j.neighbor
        BY <1>7, <1>8, <2>1, <3>2
      <4> QED
        BY <1>8, <2>1, <3>1, <3>2, <4>1 DEF Wired
    <3>3. CASE j = n2
      <4>1. i.neighbor # j.neighbor
        BY <1>7, <1>8, <2>1, <3>3
      <4> QED
        BY <1>1, <1>3, <1>8, <2>1, <3>1, <3>3, <4>1 DEF free
    <3> QED
      BY <3>2, <3>3
  <2>2. CASE g \in U /\ h \in U
    BY <1>2, <1>10, <2>2 DEF Wired
  <2>3. CASE g \in {n1, n2} /\ h \in {n1, n2}
    BY <1>6, <1>8, <1>10, <2>3
  <2> QED
    BY <1>10, <2>1, <2>2, <2>3
<1>11. \A g \in new : g.neighbor \notin reach(g.mac, unplugged(g, new))
  <2>1. Loopless(cables(U))
    <3>1. Loopless(cables(cabling))
      BY <1>2, Trees DEF Wired
    <3>2. cables(U) \in SUBSET cables(cabling)
      BY <1>2 DEF cables
    <3> QED
      BY <3>1, <3>2, LooplessSubset
  <2>2. cable_of(n1) = cable_of(n2) /\ \A C : (cable_of(n1).a \in C <=> cable_of(n1).b \in C)
                                                 <=> (f.mac \in C <=> y \in C)
    BY <1>4, <1>8, CableOf
  <2>3. Apart(cable_of(n1).a, cable_of(n1).b, cables(U))
    <3>1. Apart(f.mac, y, cables(U))
      BY <1>2, <1>5, Trees
    <3> QED
      BY <2>2, <3>1 DEF Apart
  <2>4. cables(new) = cables(U) \cup {cable_of(n1)}
    BY <2>2 DEF cables
  <2>5. Loopless(cables(new))
    BY <2>1, <2>3, <2>4, LooplessAdd
  <2> HIDE DEF new
  <2> QED
    BY <1>4, <2>5, Trees
<1> HIDE DEF new
<1>12. \A g \in new : g \in Facts
    BY <1>4
<1>13. Wired(new)
    BY <1>9, <1>10, <1>11, <1>12 DEF Wired
<1> QED
    BY <1>1, <1>13

-----------------------------------------------------------------------------
\* What links say

Once(links) == \A k, l \in links : ends(k) = ends(l) => k = l

FromSwitches(facts) == \A f \in facts : f.mac \in Switches

\* What links say is what each of them says.
LEMMA FactsUnion ==
    \A links : \A f : f \in facts_of(links) <=> \E l \in links : f \in facts_of({l})
    BY DEF facts_of

\* The facts of a link are about its ends.
LEMMA FactEnds ==
    ASSUME NEW l, NEW f \in facts_of({l})
    PROVE /\ ends(l) = {f.mac, f.neighbor} /\ f.port # NULL
          /\ l.a # l.b => f.mac # f.neighbor
          /\ \A g \in facts_of({l}) : g # f /\ l.a # l.b => g.mac = f.neighbor /\ g.neighbor = f.mac
    BY DEF facts_of, ends

\* A link that register_neighbor() gives says what a fact says, and what was known of the
\* other end.
NewLink(k, f, facts, links, t) ==
    /\ f \in facts_of({k}) /\ ends(k) = {f.mac, f.neighbor}
    /\ k.confirmed = TRUE /\ k.last_seen = t /\ (f.mac # f.neighbor => k.a < k.b)
    /\ facts_of({k}) \subseteq facts \cup facts_of(links)

\* register_neighbor() keeps links about other devices, and adds what the facts say.
LEMMA RegisteredFacts ==
    ASSUME NEW date \in Nat, NEW links \in SUBSET LinksAt(date), NEW facts \in SUBSET Facts, NEW t,
           NEW k \in registered(links, facts, t)
    PROVE \/ k \in links /\ \A f \in facts : ends(k) # {f.mac, f.neighbor}
          \/ \E f \in facts : NewLink(k, f, facts, links, t)
<1> DEFINE known(S, mac, neighbor) == {f \in S : f.mac = mac /\ f.neighbor = neighbor}
           found(mac, neighbor) == IF known(facts, mac, neighbor) # {}
                                   THEN known(facts, mac, neighbor)
                                   ELSE known(facts_of(links), mac, neighbor)
           port_of(mac, neighbor) == IF found(mac, neighbor) = {} THEN NULL
                                     ELSE (CHOOSE f \in found(mac, neighbor) : TRUE).port
           kept == {l \in links : ends(l) \notin {{f.mac, f.neighbor} : f \in facts}}
           new == {link(f.mac, f.neighbor, f.port, port_of(f.neighbor, f.mac), TRUE, t) : f \in facts}
<1>1. registered(links, facts, t) = kept \cup new
    BY DEF registered
<1>2. ASSUME NEW f \in facts, k = link(f.mac, f.neighbor, f.port, port_of(f.neighbor, f.mac), TRUE, t)
      PROVE NewLink(k, f, facts, links, t)
  <2> DEFINE x == f.mac
             y == f.neighbor
             q == port_of(y, x)
             g == [mac |-> y, port |-> q, neighbor |-> x]
  <2>0. q = IF found(y, x) = {} THEN NULL ELSE (CHOOSE h \in found(y, x) : TRUE).port
    OBVIOUS
  <2>1. found(y, x) \subseteq facts \cup facts_of(links)
        /\ \A h \in found(y, x) : h.mac = y /\ h.neighbor = x
    OBVIOUS
  <2>2. f \in Facts /\ f.port # NULL /\ f = [mac |-> x, port |-> f.port, neighbor |-> y]
    BY AddressAssumption DEF Facts, AddressAssumption
  <2> HIDE DEF found, port_of, q
  <2>3. q # NULL => g \in facts \cup facts_of(links)
    <3> SUFFICES ASSUME q # NULL PROVE g \in facts \cup facts_of(links)
      OBVIOUS
    <3>1. PICK h \in found(y, x) : q = h.port
      BY <2>0
    <3>2. h \in Facts
      BY <2>1, FactsOf
    <3>3. h = g
      BY <2>1, <3>1, <3>2 DEF Facts
    <3> QED
      BY <2>1, <3>1, <3>3
  <2>4. k = shown(x, y, f.port, q, t)
    BY <1>2 DEF q, shown
  <2> HIDE DEF x, y, known, kept, new
  <2>5. ends(k) = {x, y} /\ k.confirmed = TRUE /\ k.last_seen = t /\ (x # y => k.a < k.b)
    <3>1. ends(k) = {x, y}
      BY <2>4, LinkEnds
    <3>2. k.confirmed = TRUE /\ k.last_seen = t
      BY <2>4 DEF shown, link
    <3>3. x # y => k.a < k.b
      <4>1. x \in Nat /\ y \in Nat
        BY <2>2, AddressAssumption DEF AddressAssumption, Facts, Macs
      <4> QED
        BY <2>4, <4>1 DEF shown, link
    <3> QED
      BY <3>1, <3>2, <3>3
  <2>6. facts_of({k}) = {h \in {f, g} : h.port # NULL} /\ g.port = q
    <3>1. facts_of({k}) = {h \in {[mac |-> x, port |-> f.port, neighbor |-> y], g} : h.port # NULL}
      BY <2>4, LinkFacts
    <3> QED
      BY <2>2, <3>1
  <2> HIDE DEF g
  <2> QED
    BY <2>2, <2>3, <2>5, <2>6 DEF NewLink, x, y
<1> HIDE DEF port_of
<1>3. CASE k \in kept
    BY <1>3
<1>4. CASE k \in new
    BY <1>2, <1>4
<1> QED
    BY <1>1, <1>3, <1>4

\* Facts give one port between two devices, which differ.
Functional(facts) ==
    /\ \A f, g \in facts : f.mac = g.mac /\ f.neighbor = g.neighbor => f = g
    /\ \A f \in facts : f.mac # f.neighbor

\* Then they are registered once for two devices.
LEMMA RegisteredOnce ==
    ASSUME NEW links, Once(links), NEW facts \in SUBSET Facts, Functional(facts), NEW t
    PROVE Once(registered(links, facts, t))
<1> DEFINE known(S, mac, neighbor) == {f \in S : f.mac = mac /\ f.neighbor = neighbor}
           found(mac, neighbor) == IF known(facts, mac, neighbor) # {}
                                   THEN known(facts, mac, neighbor)
                                   ELSE known(facts_of(links), mac, neighbor)
           port_of(mac, neighbor) == IF found(mac, neighbor) = {} THEN NULL
                                     ELSE (CHOOSE f \in found(mac, neighbor) : TRUE).port
           made(f) == link(f.mac, f.neighbor, f.port, port_of(f.neighbor, f.mac), TRUE, t)
           kept == {l \in links : ends(l) \notin {{f.mac, f.neighbor} : f \in facts}}
           new == {made(f) : f \in facts}
<1>1. registered(links, facts, t) = kept \cup new
    BY DEF registered
<1>2. ASSUME NEW g \in facts PROVE port_of(g.mac, g.neighbor) = g.port
  <2>1. known(facts, g.mac, g.neighbor) = {g}
    BY DEF Functional
  <2>2. found(g.mac, g.neighbor) = {g}
    BY <2>1
  <2> HIDE DEF found
  <2> QED
    BY <2>2
<1> HIDE DEF port_of
<1>3. ASSUME NEW f PROVE made(f) = shown(f.mac, f.neighbor, f.port, port_of(f.neighbor, f.mac), t)
    BY DEF shown
<1>4. ASSUME NEW f PROVE ends(made(f)) = {f.mac, f.neighbor}
  <2> DEFINE q == port_of(f.neighbor, f.mac)
  <2>1. made(f) = shown(f.mac, f.neighbor, f.port, q, t)
    BY <1>3
  <2> HIDE DEF q, made, kept, new
  <2> QED
    BY <2>1, LinkEnds
<1> HIDE DEF made
<1>5. ASSUME NEW f \in facts, NEW g \in facts, ends(made(f)) = ends(made(g)) PROVE made(f) = made(g)
  <2>1. {f.mac, f.neighbor} = {g.mac, g.neighbor}
    BY <1>4, <1>5
  <2>2. CASE f = g
    BY <2>2
  <2>3. CASE f # g
    <3>1. f.mac = g.neighbor /\ f.neighbor = g.mac /\ f.mac # f.neighbor
      BY <2>1, <2>3 DEF Functional
    <3>2. f.mac \in Nat /\ f.neighbor \in Nat
      BY AddressAssumption DEF AddressAssumption, Facts, Macs
    <3>3. /\ made(f) = shown(f.mac, f.neighbor, f.port, g.port, t)
          /\ made(g) = shown(f.neighbor, f.mac, g.port, f.port, t)
      BY <1>2, <1>3, <3>1
    <3> QED
      BY <3>1, <3>2, <3>3 DEF shown, link
  <2> QED
    BY <2>2, <2>3
<1>6. Once(kept \cup new)
    BY <1>4, <1>5 DEF Once
<1> QED
    BY <1>1, <1>6

-----------------------------------------------------------------------------
\* What a rescan collects, when no cable is moved meanwhile

\* LLDP shows cables.
Shown(l) ==
    l.confirmed /\ facts_of({l}) # {} /\ facts_of({l}) \subseteq cabling

\* A forwarding table has devices that are behind the port.
Learned(f) == \E c \in cabling : c.mac = f.mac /\ c.port = f.port /\ f.neighbor \in behind(c)

\* It has all switches.
Complete(facts) ==
    \A f \in facts : \A c \in cabling : c.mac = f.mac =>
        \A m \in behind(c) \cap Switches : [mac |-> c.mac, port |-> c.port, neighbor |-> m] \in facts

ScanInv ==
    ~job.moved =>
        /\ \A l \in job.lldp : Shown(l)
        /\ \A f \in job.bridge : Learned(f)
        /\ Complete(job.bridge)

\* Links of LLDP are more recent than the table, one for each pair of devices; ports are those
\* of switches.
SeenInv ==
    /\ Once(job.lldp)
    /\ \A l \in job.lldp : l.confirmed = TRUE
    /\ \A l \in job.lldp : \A m \in table : m.last_seen < l.last_seen
    /\ FromSwitches(facts_of(table)) /\ FromSwitches(facts_of(job.lldp))
    /\ FromSwitches(facts_of(job.links)) /\ FromSwitches(job.bridge)
    /\ \A l \in table \cup job.lldp \cup job.links : l.a < l.b
    /\ \A f \in job.bridge : f.mac # f.neighbor
    /\ job.step = "idle" => job.lldp = {} /\ job.bridge = {}
    /\ job.step # "query" => job.left = {}

\* A query keeps what a rescan has collected true, when no cable is moved.
LEMMA QuerySeen ==
    ASSUME IInv, Wired(cabling), ScanInv, SeenInv, NEW d \in job.left, NEW silent \in SUBSET EndNodes,
           NEW errors, Query(d, silent, errors)
    PROVE ScanInv' /\ SeenInv' /\ job'.step = "query" /\ cabling' = cabling
<1> DEFINE at_d == {f \in cabling : f.mac = d}
           neighbors == {f \in at_d : f.neighbor \notin silent}
           learned == UNION {{[mac |-> d, port |-> f.port, neighbor |-> m] : m \in behind(f) \ silent} :
                               f \in at_d}
           lldp == IF d \in Speakers /\ "lldp" \notin errors
                   THEN registered(job.lldp, neighbors, now') ELSE job.lldp
           bridge == IF d \in Bridges /\ "bridge" \notin errors THEN job.bridge \cup learned
                     ELSE job.bridge
<1>1. /\ job' = [job EXCEPT !.left = @ \ {d}, !.lldp = lldp, !.bridge = bridge]
      /\ now' = now + 1 /\ cabling' = cabling /\ table' = table
    BY DEF Query
<1>2. /\ cabling \subseteq Facts /\ table \subseteq LinksAt(now) /\ job.lldp \subseteq LinksAt(now)
      /\ now \in Nat /\ job.left \subseteq Switches
    BY DEF IInv, LinksTyped
<1>3. /\ job'.lldp = lldp /\ job'.bridge = bridge /\ job'.left = job.left \ {d}
      /\ job'.links = job.links /\ job'.moved = job.moved /\ job'.step = job.step
    BY <1>1 DEF IInv, LinksTyped
<1>4. job.step = "query" /\ d \in Switches
    BY <1>2 DEF SeenInv
<1>5. neighbors \in SUBSET Facts /\ neighbors \subseteq cabling /\ FromSwitches(neighbors)
    BY <1>2, <1>4 DEF FromSwitches
<1>6. /\ FromSwitches(learned) /\ \A f \in learned : Learned(f)
    BY <1>4 DEF FromSwitches, Learned
<1>7. \A c \in cabling : c.mac = d =>
          \A m \in behind(c) \cap Switches : [mac |-> c.mac, port |-> c.port, neighbor |-> m] \in learned
  <2> SUFFICES ASSUME NEW c \in cabling, c.mac = d, NEW m \in behind(c) \cap Switches
               PROVE [mac |-> c.mac, port |-> c.port, neighbor |-> m] \in learned
    OBVIOUS
  <2>1. m \in behind(c) \ silent /\ c \in at_d
    BY AddressAssumption DEF AddressAssumption
  <2> QED
    BY <2>1
<1>8. \A f \in learned : f.mac = d /\ f.mac # f.neighbor
    BY <1>2, AtOnePort DEF behind
<1> HIDE DEF learned
<1>9. \A k \in registered(job.lldp, neighbors, now') :
          \/ k \in job.lldp
          \/ \E f \in neighbors : NewLink(k, f, neighbors, job.lldp, now')
    BY <1>2, <1>5, RegisteredFacts
<1>10. Functional(neighbors)
  <2>1. \A f \in neighbors : f.mac = d /\ f \in cabling
    OBVIOUS
  <2>2. cabling \in SUBSET Facts
    BY <1>2
  <2> HIDE DEF neighbors
  <2>3. \A f \in cabling : f.mac # f.neighbor
    BY <2>2, Separated
  <2> QED
    BY <2>1, <2>3 DEF Wired, Functional
<1> HIDE DEF neighbors
<1>11. \A k \in lldp : k \in job.lldp \/ \E f \in neighbors : NewLink(k, f, neighbors, job.lldp, now')
    BY <1>9
<1>12. Once(lldp)
    BY <1>5, <1>10, RegisteredOnce DEF SeenInv
<1>13. FromSwitches(facts_of(lldp))
  <2>1. \A k \in lldp : facts_of({k}) \subseteq neighbors \cup facts_of(job.lldp)
    BY <1>11, FactsUnion DEF NewLink
  <2>2. facts_of(lldp) \subseteq neighbors \cup facts_of(job.lldp)
    BY <2>1, FactsUnion
  <2> QED
    BY <1>5, <2>2 DEF SeenInv, FromSwitches
<1>14. FromSwitches(bridge)
    BY <1>6 DEF SeenInv, FromSwitches
<1> HIDE DEF lldp
<1>15. SeenInv'
  <2>1. \A l \in lldp : \A m \in table : m.last_seen < l.last_seen
    <3>1. ASSUME NEW l, l.last_seen = now', NEW m \in table PROVE m.last_seen < l.last_seen
      BY <1>1, <1>2, <3>1 DEF LinksAt
    <3> QED
      BY <1>11, <3>1 DEF NewLink, SeenInv
  <2>2. \A l \in lldp : l.a < l.b
    BY <1>10, <1>11 DEF NewLink, SeenInv, Functional
  <2>3. \A f \in bridge : f.mac # f.neighbor
    BY <1>8 DEF SeenInv
  <2>4. \A l \in lldp : l.confirmed = TRUE
    BY <1>11 DEF NewLink, SeenInv
  <2> HIDE DEF bridge
  <2> QED
    BY <1>1, <1>3, <1>4, <1>12, <1>13, <1>14, <2>1, <2>2, <2>3, <2>4 DEF SeenInv, Once, FromSwitches, facts_of, ends
<1>16. ScanInv'
  <2> SUFFICES ASSUME ~job.moved
               PROVE (\A l \in lldp : Shown(l)) /\ (\A f \in bridge : Learned(f)) /\ Complete(bridge)
    BY <1>1, <1>3 DEF ScanInv, Shown, Learned, Complete, behind
  <2>1. (\A l \in job.lldp : Shown(l)) /\ (\A f \in job.bridge : Learned(f)) /\ Complete(job.bridge)
    BY DEF ScanInv
  <2>2. facts_of(job.lldp) \subseteq cabling
    BY <2>1, FactsUnion DEF Shown
  <2>3. \A l \in lldp : Shown(l)
    BY <1>5, <1>11, <2>1, <2>2 DEF Shown, NewLink
  <2>4. \A f \in bridge : Learned(f)
    BY <1>6, <2>1
  <2>5. Complete(bridge)
    BY <1>7, <1>8, <2>1 DEF Complete
  <2> QED
    BY <2>3, <2>4, <2>5
<1> QED
    BY <1>1, <1>3, <1>4, <1>15, <1>16

-----------------------------------------------------------------------------
\* What is deduced from the forwarding tables

\* All facts are true, and those of a forwarding table are given for all switches.
Truthful(facts) ==
    /\ \A f \in facts : Learned(f)
    /\ \A f \in facts : f \in cabling \/
          \A c \in cabling : c.mac = f.mac =>
              \A m \in behind(c) \cap Switches : [mac |-> c.mac, port |-> c.port, neighbor |-> m] \in facts

\* When what the forwarding tables and LLDP give is true, and each forwarding table has all the
\* switches, the analysis of the backbone never deduces a link that is not a cable
\* (BridgeTopology).
THEOREM Backbone ==
    ASSUME Wired(cabling), cabling \in SUBSET Facts, NEW facts \in SUBSET Facts, Truthful(facts),
           NEW b \in backbone(facts), NEW f \in unique(b)
    PROVE f \in cabling
<1>1. ASSUME NEW g \in facts
      PROVE \E c \in facts \cap cabling : c.mac = g.mac /\ c.port = g.port
  <2>1. PICK c \in cabling : c.mac = g.mac /\ c.port = g.port /\ g.neighbor \in behind(c)
    BY DEF Truthful, Learned
  <2>2. c.neighbor \in behind(c) /\ (g.neighbor # c.neighbor => c.neighbor \in Switches)
    BY <2>1, FirstHop DEF behind
  <2>3. c = [mac |-> c.mac, port |-> c.port, neighbor |-> c.neighbor]
        /\ g = [mac |-> g.mac, port |-> g.port, neighbor |-> g.neighbor]
    BY DEF Facts
  <2>4. CASE g \in cabling
    BY <2>4
  <2>5. CASE g \notin cabling
    <3>1. g.neighbor # c.neighbor
      BY <2>1, <2>3, <2>5
    <3>2. c \in facts
      BY <2>1, <2>2, <2>3, <2>5, <3>1 DEF Truthful
    <3> QED
      BY <2>1, <3>2
  <2> QED
    BY <2>4, <2>5
<1>2. ASSUME NEW c \in facts \cap cabling PROVE c \notin not_there(facts)
  <2> SUFFICES ASSUME NEW g \in facts, NEW h \in facts, g.mac = h.mac, g.port # h.port,
                      g.neighbor = c.neighbor, h.neighbor = c.mac
               PROVE FALSE
    BY DEF not_there
  <2>1. PICK i \in cabling : i.mac = g.mac /\ i.port = g.port /\ c.neighbor \in behind(i)
    BY DEF Truthful, Learned
  <2>2. PICK j \in cabling : j.mac = h.mac /\ j.port = h.port /\ c.mac \in behind(j)
    BY DEF Truthful, Learned
  <2>3. c.neighbor # i.mac /\ c.mac # i.mac
    BY <2>1, <2>2, AtOnePort DEF behind
  <2>4. c.mac \in behind(i)
    BY <2>1, <2>3, SameSide DEF behind
  <2>5. i = j
    BY <2>1, <2>2, <2>4, AtOnePort DEF behind
  <2> QED
    BY <2>1, <2>2, <2>5
<1>3. f \in b /\ \A c \in b : c.mac = f.mac /\ c.port = f.port => c.neighbor = f.neighbor
    BY DEF unique, candidates
<1>4. b \subseteq facts
    BY DEF backbone
<1>5. ASSUME NEW c \in b \cap cabling, c.mac = f.mac, c.port = f.port PROVE f \in cabling
  <2>1. c \in Facts /\ f \in Facts /\ c.neighbor = f.neighbor
    BY <1>3, <1>4, <1>5
  <2>2. c = f
    BY <1>5, <2>1 DEF Facts
  <2> QED
    BY <2>2
<1>6. PICK c \in facts \cap cabling : c.mac = f.mac /\ c.port = f.port
    BY <1>1, <1>3, <1>4
<1>7. CASE b = facts \/ b = facts \ not_there(facts)
    BY <1>2, <1>5, <1>6, <1>7
<1>8. ASSUME NEW k \in facing(facts), b = {g \in facts : g.mac = k.mac /\ g.port = k.port => g = k}
      PROVE f \in cabling
  <2>1. CASE c \in b
    BY <1>5, <1>6, <2>1
  <2>2. CASE c \notin b
    <3>1. f = k
      BY <1>3, <1>6, <1>8, <2>2
    <3>2. PICK g \in facts : /\ g.mac = k.neighbor /\ g.neighbor = k.mac
                             /\ candidates(facts, g.mac, g.port) = {k.mac}
      BY DEF facing
    <3>3. PICK d \in facts \cap cabling : d.mac = g.mac /\ d.port = g.port
      BY <1>1
    <3>4. d.mac = k.neighbor /\ d.neighbor = k.mac
      BY <3>2, <3>3 DEF candidates
    <3>5. PICK r \in cabling : r.mac = k.mac /\ r.neighbor = k.neighbor
      BY <3>4 DEF Wired
    <3>6. k \in facts
      BY DEF facing
    <3>7. PICK i \in cabling : i.mac = k.mac /\ i.port = k.port /\ k.neighbor \in behind(i)
      BY <3>6 DEF Truthful, Learned
    <3>8. r.neighbor \in behind(r)
      <4>1. r.neighbor \in Macs
        BY DEF Facts
      <4> QED
        BY <4>1, Unplugged, Reach DEF behind
    <3>9. i = r
      BY <3>5, <3>7, <3>8, AtOnePort DEF behind
    <3>10. k = r
      BY <3>5, <3>6, <3>7, <3>9 DEF Facts
    <3> QED
      BY <3>1, <3>10
  <2> QED
    BY <2>1, <2>2
<1>9. \/ b = facts \/ b = facts \ not_there(facts)
      \/ \E k \in facing(facts) : b = {g \in facts : g.mac = k.mac /\ g.port = k.port => g = k}
    BY DEF backbone
<1> QED
    BY <1>7, <1>8, <1>9

\* A link that is deduced says facts that are unique, of nodes or of the backbone.
DeducedLink(k, known, t) ==
    /\ \E f \in known : f \in facts_of({k}) /\ (f.mac # f.neighbor => k.a < k.b)
    /\ k.last_seen \in {t, t + 1} /\ facts_of({k}) \subseteq known

\* What is deduced is unique in the tables of edge devices, or after the analysis of the
\* backbone.
LEMMA DeducedFacts ==
    ASSUME NEW facts \in SUBSET Facts, NEW t \in Nat, 1 <= t,
           NEW links \in deduce_link_layer_topology(facts, Switches, t)
    PROVE \E b \in backbone({f \in facts : f.neighbor \in Switches}) :
              LET known == unique({f \in facts : f.neighbor \notin Switches}) \cup unique(b) IN
              /\ \A k \in links : DeducedLink(k, known, t)
              /\ Functional(known) => Once(links)
<1> DEFINE inner == {f \in facts : f.neighbor \in Switches}
           outer == {f \in facts : f.neighbor \notin Switches}
           edge == registered({}, unique(outer), t)
<1>1. PICK b \in backbone(inner) : links = registered(edge, unique(b), t + 1)
  <2>1. facts \ inner = outer
    OBVIOUS
  <2> QED
    BY <2>1 DEF deduce_link_layer_topology
<1> DEFINE known == unique(outer) \cup unique(b)
<1>2. unique(outer) \in SUBSET Facts
    BY DEF unique
<1>3. unique(b) \in SUBSET Facts
    BY <1>1 DEF backbone, unique
<1>4. edge \in SUBSET LinksAt(t)
  <2>1. {} \in SUBSET LinksAt(t) /\ t \in 1..t
    OBVIOUS
  <2> QED
    BY <1>2, <2>1, Registered
<1>5. ASSUME NEW k \in edge PROVE DeducedLink(k, unique(outer), t)
  <2> HIDE DEF outer
  <2>1. PICK f \in unique(outer) : NewLink(k, f, unique(outer), {}, t)
    BY <1>2, RegisteredFacts
  <2>2. facts_of({}) = {}
    BY DEF facts_of
  <2> QED
    BY <2>1, <2>2 DEF NewLink, DeducedLink
<1>6. facts_of(edge) \subseteq unique(outer)
    BY <1>5, FactsUnion DEF DeducedLink
<1> HIDE DEF edge, outer, inner
<1>7. ASSUME NEW k \in links PROVE DeducedLink(k, known, t)
  <2>1. CASE k \in edge
    BY <1>5, <2>1 DEF DeducedLink
  <2>2. CASE k \notin edge
    <3>1. PICK f \in unique(b) : NewLink(k, f, unique(b), edge, t + 1)
      BY <1>1, <1>3, <1>4, <2>2, RegisteredFacts
    <3> QED
      BY <1>6, <3>1 DEF NewLink, DeducedLink
  <2> QED
    BY <2>1, <2>2
<1>8. ASSUME Functional(known) PROVE Once(links)
  <2>1. Functional(unique(outer)) /\ Functional(unique(b))
    BY <1>8 DEF Functional
  <2>2. Once({})
    BY DEF Once
  <2>3. Once(edge)
    BY <1>2, <2>1, <2>2, RegisteredOnce DEF edge
  <2>4. Once(registered(edge, unique(b), t + 1))
    BY <1>3, <2>1, <2>3, RegisteredOnce
  <2> QED
    BY <1>1, <2>4
<1> QED
    BY <1>7, <1>8 DEF outer, inner

\* Deduced links say what was collected: ports of switches.
LEMMA DeducedSwitches ==
    ASSUME IInv, SeenInv, NEW t \in Nat, 1 <= t,
           NEW links \in deduce_link_layer_topology(job.bridge \cup facts_of(job.lldp), Switches, t)
    PROVE /\ \A k \in links : k.a < k.b /\ t <= k.last_seen
          /\ FromSwitches(facts_of(links))
<1> DEFINE facts == job.bridge \cup facts_of(job.lldp)
           inner == {f \in facts : f.neighbor \in Switches}
           outer == {f \in facts : f.neighbor \notin Switches}
<1>1. facts \in SUBSET Facts
    BY FactsOf DEF IInv, LinksTyped
<1>2. FromSwitches(facts)
    BY DEF SeenInv, FromSwitches
<1>3. \A f \in facts : f.mac # f.neighbor
  <2> SUFFICES ASSUME NEW f \in facts_of(job.lldp) PROVE f.mac # f.neighbor
    BY DEF SeenInv
  <2>1. PICK l \in job.lldp : f \in facts_of({l})
    BY FactsUnion
  <2>2. l.a # l.b
    <3>1. l \in LinksAt(now) /\ l.a < l.b
      BY DEF IInv, LinksTyped, SeenInv
    <3> QED
      BY <3>1, AddressAssumption DEF LinksAt, Macs, AddressAssumption
  <2> QED
    BY <2>1, <2>2, FactEnds
<1> HIDE DEF facts
<1>4. PICK b \in backbone(inner) :
          \A k \in links : DeducedLink(k, unique(outer) \cup unique(b), t)
    BY <1>1, DeducedFacts DEF facts
<1>5. unique(outer) \cup unique(b) \subseteq facts
    BY DEF backbone, unique
<1>6. \A k \in links : facts_of({k}) \subseteq facts
    BY <1>4, <1>5 DEF DeducedLink
<1>7. ASSUME NEW k \in links PROVE k.a < k.b /\ t <= k.last_seen
  <2>1. DeducedLink(k, unique(outer) \cup unique(b), t)
    BY <1>4
  <2>2. k.a < k.b
    BY <1>3, <1>5, <2>1 DEF DeducedLink
  <2>3. k.last_seen \in {t, t + 1}
    BY <2>1 DEF DeducedLink
  <2> QED
    BY <2>2, <2>3
<1> QED
    BY <1>2, <1>6, <1>7, FactsUnion DEF FromSwitches

\* When no cable was moved, a deduced link is a cable, or misled by a forwarding table that
\* has one node only at the port.
LEMMA DeducedTrue ==
    ASSUME IInv, Wired(cabling), ScanInv, SeenInv, ~job.moved, NEW t \in Nat, 1 <= t,
           NEW links \in deduce_link_layer_topology(job.bridge \cup facts_of(job.lldp), Switches, t)
    PROVE /\ Once(links)
          /\ \A k \in links : facts_of({k}) # {} /\ facts_of({k}) \subseteq cabling \cup misled
<1> DEFINE facts == job.bridge \cup facts_of(job.lldp)
           inner == {f \in facts : f.neighbor \in Switches}
           outer == {f \in facts : f.neighbor \notin Switches}
<1>1. /\ cabling \in SUBSET Facts /\ job.bridge \in SUBSET Facts /\ job.lldp \in SUBSET LinksAt(now)
      /\ now \in Nat
    BY DEF IInv, LinksTyped
<1>2. facts \in SUBSET Facts
    BY <1>1, FactsOf
<1>3. facts_of(job.lldp) \subseteq cabling
    BY FactsUnion DEF ScanInv, Shown
<1>4. \A f \in cabling : Learned(f)
  <2> SUFFICES ASSUME NEW f \in cabling PROVE f.neighbor \in behind(f)
    BY DEF Learned
  <2>1. f.neighbor \in Macs
    BY <1>1 DEF Facts
  <2> QED
    BY <1>1, <2>1, Unplugged, Reach DEF behind
<1>5. \A f \in facts : Learned(f)
    BY <1>3, <1>4 DEF ScanInv
<1>6. Truthful(inner)
  <2>1. ASSUME NEW f \in inner, f \notin cabling, NEW c \in cabling, c.mac = f.mac,
               NEW m \in behind(c) \cap Switches
        PROVE [mac |-> c.mac, port |-> c.port, neighbor |-> m] \in inner
    <3>1. f \in job.bridge
      BY <1>3, <2>1
    <3>2. [mac |-> c.mac, port |-> c.port, neighbor |-> m] \in job.bridge
      BY <2>1, <3>1 DEF ScanInv, Complete
    <3> QED
      BY <3>2
  <2> QED
    BY <1>5, <2>1 DEF Truthful
<1>7. unique(outer) \subseteq cabling \cup misled
  <2> SUFFICES ASSUME NEW f \in unique(outer), f \notin cabling PROVE f \in misled
    OBVIOUS
  <2> DEFINE nodes == {g \in job.bridge : g.neighbor \in EndNodes}
  <2>1. f \in outer /\ candidates(outer, f.mac, f.port) = {f.neighbor}
    BY DEF unique
  <2>2. \A g \in nodes : g \in outer
    BY AddressAssumption DEF AddressAssumption
  <2>3. f \in nodes
    <3>1. f \in job.bridge /\ f \in Facts /\ f.neighbor \notin Switches
      BY <1>1, <1>3, <2>1
    <3> QED
      BY <3>1 DEF Facts, Macs
  <2> HIDE DEF nodes, outer
  <2>4. candidates(nodes, f.mac, f.port) = {f.neighbor}
    BY <2>1, <2>2, <2>3 DEF candidates
  <2> QED
    BY <2>3, <2>4 DEF misled, unique, nodes
<1>8. PICK b \in backbone(inner) :
          LET known == unique(outer) \cup unique(b) IN
          (\A k \in links : DeducedLink(k, known, t)) /\ (Functional(known) => Once(links))
  <2> HIDE DEF facts
  <2> QED
    BY <1>2, DeducedFacts DEF facts
<1>9. inner \in SUBSET Facts
    BY <1>2
<1>10. outer \in SUBSET Facts /\ \A f \in outer : Learned(f)
    BY <1>2, <1>5
<1> HIDE DEF inner, outer
<1>11. unique(b) \subseteq cabling
    BY <1>1, <1>6, <1>9, Backbone
<1>12. unique(outer) \cup unique(b) \in SUBSET Facts
    BY <1>1, <1>10, <1>11 DEF unique
<1>13. \A f \in unique(outer) \cup unique(b) : Learned(f)
    BY <1>4, <1>10, <1>11 DEF unique
<1> DEFINE known == unique(outer) \cup unique(b)
<1>14. known \subseteq cabling \cup misled
    BY <1>7, <1>11
<1> HIDE DEF known
<1>15. Functional(known)
  <2>1. ASSUME NEW f \in known PROVE f.mac # f.neighbor
    <3>1. PICK c \in cabling : c.mac = f.mac /\ f.neighbor \in behind(c)
      BY <1>13 DEF Learned, known
    <3> QED
      BY <1>1, <3>1, AtOnePort DEF behind
  <2>2. ASSUME NEW f \in known, NEW g \in known, f.mac = g.mac, f.neighbor = g.neighbor PROVE f = g
    <3>1. PICK c \in cabling : c.mac = f.mac /\ c.port = f.port /\ f.neighbor \in behind(c)
      BY <1>13 DEF Learned, known
    <3>2. PICK d \in cabling : d.mac = g.mac /\ d.port = g.port /\ g.neighbor \in behind(d)
      BY <1>13 DEF Learned, known
    <3>3. c = d
      BY <1>1, <2>2, <3>1, <3>2, AtOnePort DEF behind
    <3>4. f \in Facts /\ g \in Facts /\ f.port = g.port
      BY <1>12, <3>1, <3>2, <3>3 DEF known
    <3> QED
      BY <2>2, <3>4 DEF Facts
  <2> QED
    BY <2>1, <2>2 DEF Functional
<1>16. Once(links) /\ \A k \in links : DeducedLink(k, known, t)
    BY <1>8, <1>15 DEF known
<1>17. \A k \in links : facts_of({k}) # {} /\ facts_of({k}) \subseteq cabling \cup misled
    BY <1>14, <1>16 DEF DeducedLink
<1> QED
    BY <1>16, <1>17

-----------------------------------------------------------------------------
\* What merge_other() does of the links of the first side, when it has priority

Ordered(links) == \A l \in links : l.a < l.b

\* The order of the ends makes links between the same devices have the same ends a and b.
LEMMA OrderedEnds ==
    ASSUME NEW date \in Nat, NEW k \in LinksAt(date), k.a < k.b
    PROVE /\ k.a # k.b /\ k.a \in Nat /\ k.b \in Nat
          /\ \A l \in LinksAt(date) : l.a < l.b /\ ends(k) = ends(l) => k.a = l.a /\ k.b = l.b
<1>1. \A l \in LinksAt(date) : l.a \in Nat /\ l.b \in Nat
    BY AddressAssumption DEF LinksAt, Macs, AddressAssumption
<1> QED
    BY <1>1 DEF ends

\* Link k says what link l says, and facts about the ends where l says nothing.
Refines(k, l, facts) ==
    /\ k.a = l.a /\ k.b = l.b /\ k.last_seen = l.last_seen
    /\ k.port_a = l.port_a \/ l.port_a = NULL
    /\ k.port_b = l.port_b \/ l.port_b = NULL
    /\ facts_of({l}) \subseteq facts_of({k}) /\ facts_of({k}) \subseteq facts_of({l}) \cup facts
    /\ \A f \in facts_of({k}) \ facts_of({l}) : \A g \in facts_of({l}) : g.mac # f.mac

\* A link says what it says.
LEMMA RefinesItself == \A l, facts : Refines(l, l, facts)
    BY DEF Refines

\* The merge of two links keeps what the one of higher priority says.
LEMMA MergedRefines ==
    ASSUME NEW date \in Nat, NEW l \in LinksAt(date), NEW m \in LinksAt(date),
           l.a = m.a, l.b = m.b, l.a # l.b, NEW k, k = merge_links_info(l, m)
    PROVE Refines(k, l, facts_of({m}))
<1>1. /\ k.a = l.a /\ k.b = l.b /\ k.last_seen = l.last_seen
      /\ k.port_a = IF l.port_a = NULL THEN m.port_a ELSE l.port_a
      /\ k.port_b = IF l.port_b = NULL THEN m.port_b ELSE l.port_b
    BY DEF merge_links_info, LinksAt
<1> DEFINE A(p) == [mac |-> l.a, port |-> p, neighbor |-> l.b]
           B(p) == [mac |-> l.b, port |-> p, neighbor |-> l.a]
<1>2. \A p, q : A(p).port = p /\ A(p).mac = l.a /\ B(q).port = q /\ B(q).mac = l.b
    OBVIOUS
<1>3. /\ facts_of({l}) = {f \in {A(l.port_a), B(l.port_b)} : f.port # NULL}
      /\ facts_of({m}) = {f \in {A(m.port_a), B(m.port_b)} : f.port # NULL}
      /\ facts_of({k}) = {f \in {A(k.port_a), B(k.port_b)} : f.port # NULL}
  <2>1. facts_of({l}) = {f \in {A(l.port_a), B(l.port_b)} : f.port # NULL}
    BY OneLink
  <2>2. facts_of({m}) = {f \in {[mac |-> m.a, port |-> m.port_a, neighbor |-> m.b],
                                [mac |-> m.b, port |-> m.port_b, neighbor |-> m.a]} : f.port # NULL}
    BY OneLink
  <2>3. facts_of({k}) = {f \in {[mac |-> k.a, port |-> k.port_a, neighbor |-> k.b],
                                [mac |-> k.b, port |-> k.port_b, neighbor |-> k.a]} : f.port # NULL}
    BY OneLink
  <2> QED
    BY <1>1, <2>1, <2>2, <2>3
<1> HIDE DEF A, B
<1>4. facts_of({l}) \subseteq facts_of({k}) /\ facts_of({k}) \subseteq facts_of({l}) \cup facts_of({m})
    BY <1>1, <1>2, <1>3
<1>5. ASSUME NEW f \in facts_of({k}), f \notin facts_of({l}), NEW g \in facts_of({l})
      PROVE g.mac # f.mac
  <2>1. f \in {A(k.port_a), B(k.port_b)} /\ f.port # NULL /\ g \in {A(l.port_a), B(l.port_b)} /\ g.port # NULL
    BY <1>3, <1>5
  <2>2. CASE f = A(k.port_a)
    <3>1. f # A(l.port_a)
      BY <1>3, <1>5, <2>1
    <3>2. l.port_a = NULL
      BY <1>1, <2>2, <3>1
    <3>3. A(l.port_a).port = NULL
      BY <1>2, <3>2
    <3>4. g = B(l.port_b)
      BY <2>1, <3>3
    <3> QED
      BY <1>2, <2>2, <3>4
  <2>3. CASE f = B(k.port_b)
    <3>1. f # B(l.port_b)
      BY <1>3, <1>5, <2>1
    <3>2. l.port_b = NULL
      BY <1>1, <2>3, <3>1
    <3>3. B(l.port_b).port = NULL
      BY <1>2, <3>2
    <3>4. g = A(l.port_a)
      BY <2>1, <3>3
    <3> QED
      BY <1>2, <2>3, <3>4
  <2> QED
    BY <2>1, <2>2, <2>3
<1> QED
    BY <1>1, <1>4, <1>5 DEF Refines

\* More facts may be said.
LEMMA RefinesMore ==
    ASSUME NEW k, NEW l, NEW F, NEW G, Refines(k, l, F), F \subseteq G
    PROVE Refines(k, l, G)
    BY DEF Refines

\* The links of mine have priority over those of others.
Prior(mine, others) == \A l \in mine, m \in others : ~lower(l, m)

\* Links of the first side with priority keep what they say.
LEMMA FirstRefines ==
    ASSUME NEW date \in Nat, NEW mine \in SUBSET LinksAt(date), NEW others \in SUBSET LinksAt(date),
           Ordered(mine), Ordered(others), Prior(mine, others), NEW k \in First(mine, others)
    PROVE \E l \in mine : Refines(k, l, facts_of(others)) /\ k.confirmed = l.confirmed
                          /\ ends(k) = ends(l)
<1>1. CASE k \in alone(mine, others)
    BY <1>1, RefinesItself DEF alone
<1>2. CASE k \in common(mine, others)
  <2> DEFINE l == CHOOSE i \in of_pair(mine, ends(k)) : TRUE
             m == CHOOSE i \in of_pair(others, ends(k)) : TRUE
  <2>1. /\ l \in of_pair(mine, ends(k)) /\ m \in of_pair(others, ends(k))
        /\ k = IF lower(l, m) THEN merge_links_info(m, l) ELSE merge_links_info(l, m)
    BY <1>2, CommonPair
  <2> HIDE DEF l, m
  <2>2. l \in mine /\ m \in others /\ ends(l) = ends(k) /\ ends(m) = ends(k)
    BY <2>1 DEF of_pair
  <2>3. k = merge_links_info(l, m)
    BY <2>1, <2>2 DEF Prior
  <2>4. l.a = m.a /\ l.b = m.b /\ l.a # l.b
    BY <2>2, OrderedEnds DEF Ordered
  <2>5. Refines(k, l, facts_of({m})) /\ k.confirmed = l.confirmed
    BY <2>2, <2>3, <2>4, MergedRefines, MergedInfo
  <2>6. facts_of({m}) \subseteq facts_of(others)
    BY <2>2, FactsUnion
  <2> QED
    BY <2>2, <2>5, <2>6, RefinesMore
<1> QED
    BY <1>1, <1>2 DEF First

\* A pair of devices that mine has once is there once.
LEMMA FirstOnce ==
    ASSUME NEW date \in Nat, NEW mine \in SUBSET LinksAt(date), NEW others \in SUBSET LinksAt(date),
           Once(mine)
    PROVE /\ Once(First(mine, others))
          /\ \A l \in mine : \E k \in First(mine, others) : ends(k) = ends(l)
          /\ Once(others) => Once(Union(mine, others))
<1>1. ASSUME NEW k \in common(mine, others), NEW m \in common(mine, others), ends(k) = ends(m)
      PROVE k = m
  <2> DEFINE p(i) == CHOOSE j \in of_pair(mine, i) : TRUE
             q(i) == CHOOSE j \in of_pair(others, i) : TRUE
             r(i) == IF lower(p(i), q(i)) THEN merge_links_info(q(i), p(i))
                     ELSE merge_links_info(p(i), q(i))
  <2>1. k = r(ends(k))
    BY CommonPair
  <2>2. m = r(ends(m))
    BY CommonPair
  <2> HIDE DEF r
  <2> QED
    BY <1>1, <2>1, <2>2
<1>2. \A k \in common(mine, others) : ends(k) \in pairs(mine) /\ ends(k) \in pairs(others)
    BY CommonPair
<1>3. /\ \A k \in alone(mine, others) : k \in mine /\ ends(k) \in pairs(mine) /\ ends(k) \notin pairs(others)
      /\ \A k \in alone(others, mine) : k \in others /\ ends(k) \notin pairs(mine)
    BY DEF alone, pairs
<1>4. Once(First(mine, others))
    BY <1>1, <1>2, <1>3 DEF Once, First
<1>5. ASSUME NEW l \in mine PROVE \E k \in First(mine, others) : ends(k) = ends(l)
  <2>1. CASE ends(l) \notin pairs(others)
    BY <2>1 DEF First, alone
  <2>2. CASE ends(l) \in pairs(others)
    <3> DEFINE i == CHOOSE j \in of_pair(mine, ends(l)) : TRUE
               m == CHOOSE j \in of_pair(others, ends(l)) : TRUE
               k == IF lower(i, m) THEN merge_links_info(m, i) ELSE merge_links_info(i, m)
    <3>1. ends(l) \in pairs(mine)
      BY DEF pairs
    <3>2. k \in common(mine, others)
      <4> DEFINE p(j) == CHOOSE h \in of_pair(mine, j) : TRUE
                 q(j) == CHOOSE h \in of_pair(others, j) : TRUE
                 r(j) == IF lower(p(j), q(j)) THEN merge_links_info(q(j), p(j))
                         ELSE merge_links_info(p(j), q(j))
      <4>1. common(mine, others) = {r(j) : j \in pairs(mine) \cap pairs(others)}
        BY DEF common
      <4>2. k = r(ends(l))
        OBVIOUS
      <4> HIDE DEF r, k
      <4> QED
        BY <2>2, <3>1, <4>1, <4>2
    <3>3. i \in of_pair(mine, ends(l)) /\ m \in of_pair(others, ends(l))
      BY <2>2, <3>1 DEF of_pair, pairs
    <3>4. i \in mine /\ m \in others /\ ends(i) = ends(l) /\ ends(m) = ends(l)
      BY <3>3 DEF of_pair
    <3> HIDE DEF i, m
    <3>5. ends(k) = ends(l)
      BY <3>4, MergedInfo DEF ends
    <3> HIDE DEF k
    <3> QED
      BY <3>2, <3>5 DEF First
  <2> QED
    BY <2>1, <2>2
<1>6. Once(others) => Once(Union(mine, others))
    BY <1>2, <1>3, <1>4 DEF Once, First, Union
<1> QED
    BY <1>4, <1>5, <1>6

\* Nothing is said that neither side said.
LEMMA UnionSwitches ==
    ASSUME NEW date \in Nat, NEW mine \in SUBSET LinksAt(date), NEW others \in SUBSET LinksAt(date),
           Ordered(mine), Ordered(others), Prior(mine, others),
           FromSwitches(facts_of(mine)), FromSwitches(facts_of(others)), NEW links,
           links \subseteq Union(mine, others)
    PROVE Ordered(links) /\ FromSwitches(facts_of(links))
<1>1. ASSUME NEW k \in links
      PROVE k.a < k.b /\ facts_of({k}) \subseteq facts_of(mine) \cup facts_of(others)
  <2>1. CASE k \in First(mine, others)
    <3>1. PICK l \in mine : Refines(k, l, facts_of(others))
      BY <2>1, FirstRefines
    <3>2. facts_of({l}) \subseteq facts_of(mine)
      BY FactsUnion
    <3> QED
      BY <3>1, <3>2 DEF Refines, Ordered
  <2>2. CASE k \in alone(others, mine)
    <3>1. k \in others
      BY <2>2 DEF alone
    <3> QED
      BY <3>1, FactsUnion DEF Ordered
  <2> QED
    BY <2>1, <2>2 DEF Union
<1> QED
    BY <1>1, FactsUnion DEF Ordered, FromSwitches

\* Links that only differ in being confirmed
Alike(k, l) ==
    /\ k.a = l.a /\ k.b = l.b /\ k.port_a = l.port_a /\ k.port_b = l.port_b
    /\ k.last_seen = l.last_seen

\* Links that are alike say the same.
LEMMA AlikeFacts == \A k, l : Alike(k, l) => facts_of({k}) = facts_of({l}) /\ ends(k) = ends(l)
<1> SUFFICES ASSUME NEW k, NEW l, Alike(k, l)
             PROVE facts_of({k}) = facts_of({l}) /\ ends(k) = ends(l)
    OBVIOUS
<1> QED
    BY OneLink DEF Alike, ends

\* set_confirm_all() gives links that are alike.
LEMMA ConfirmAlike ==
    ASSUME NEW date \in Nat, NEW links \in SUBSET LinksAt(date), NEW value
    PROVE /\ \A k \in set_confirm_all(links, value) :
                 k.confirmed = value /\ \E l \in links : Alike(k, l) /\ k = [l EXCEPT !.confirmed = value]
          /\ \A l \in links : \E k \in set_confirm_all(links, value) : Alike(k, l)
<1>1. \A l \in links : /\ [l EXCEPT !.confirmed = value] \in set_confirm_all(links, value)
                       /\ [l EXCEPT !.confirmed = value].confirmed = value
                       /\ Alike([l EXCEPT !.confirmed = value], l)
    BY DEF set_confirm_all, LinksAt, Alike
<1>2. ASSUME NEW k \in set_confirm_all(links, value)
      PROVE k.confirmed = value /\ \E l \in links : Alike(k, l) /\ k = [l EXCEPT !.confirmed = value]
  <2>1. PICK l \in links : k = [l EXCEPT !.confirmed = value]
    BY DEF set_confirm_all
  <2> QED
    BY <1>1, <2>1
<1>3. ASSUME NEW l \in links PROVE \E k \in set_confirm_all(links, value) : Alike(k, l)
  <2>1. [l EXCEPT !.confirmed = value] \in set_confirm_all(links, value)
    BY <1>1
  <2>2. Alike([l EXCEPT !.confirmed = value], l)
    BY <1>1
  <2> QED
    BY <2>1, <2>2
<1> QED
    BY <1>2, <1>3

\* So does unconfirm().
LEMMA UnconfirmAlike ==
    ASSUME NEW date \in Nat, NEW links \in SUBSET LinksAt(date), NEW macs
    PROVE \A k \in unconfirm(links, macs) : \E l \in links : Alike(k, l)
    BY DEF unconfirm, LinksAt, Alike

\* Links that are alike keep the order of their ends, and ports of switches.
LEMMA AlikeSets ==
    ASSUME NEW S, NEW links, \A k \in S : \E l \in links : Alike(k, l)
    PROVE /\ facts_of(S) \subseteq facts_of(links)
          /\ Ordered(links) => Ordered(S)
          /\ FromSwitches(facts_of(links)) => FromSwitches(facts_of(S))
<1>1. facts_of(S) \subseteq facts_of(links)
  <2> SUFFICES ASSUME NEW f \in facts_of(S) PROVE f \in facts_of(links)
    OBVIOUS
  <2>1. PICK k \in S : f \in facts_of({k})
    BY FactsUnion
  <2>2. PICK l \in links : Alike(k, l)
    OBVIOUS
  <2>3. f \in facts_of({l})
    BY <2>1, <2>2, AlikeFacts
  <2> QED
    BY <2>3, FactsUnion
<1> QED
    BY <1>1 DEF Alike, Ordered, FromSwitches

-----------------------------------------------------------------------------
\* The first merge of a rescan: what LLDP shows has priority over what is deduced.

\* Links that say more, as LLDP shows them or deduced
LEMMA FirstMerge ==
    ASSUME IInv, SeenInv,
           NEW by_bridge \in deduce_link_layer_topology(job.bridge \cup facts_of(job.lldp),
                                                        Switches, now + 1),
           NEW seen, seen = set_confirm_all(by_bridge, FALSE),
           NEW new \in merge_other(job.lldp, seen)
    PROVE /\ job.lldp \in SUBSET LinksAt(now + 2) /\ seen \in SUBSET LinksAt(now + 2)
          /\ Prior(job.lldp, seen) /\ Ordered(job.lldp) /\ Ordered(seen)
          /\ new.links \in SUBSET LinksAt(now + 2) /\ new.links \subseteq Union(job.lldp, seen)
          /\ Ordered(new.links) /\ FromSwitches(facts_of(new.links)) /\ FromSwitches(facts_of(seen))
          /\ \A k \in new.links, m \in table : m.last_seen < k.last_seen
<1> DEFINE date == now + 2
<1>1. now \in Nat /\ date \in Nat /\ 1 <= now + 1 /\ (now + 1) + 1 <= date
    BY DEF IInv, LinksTyped
<1>2. job.lldp \in SUBSET LinksAt(date) /\ table \in SUBSET LinksAt(now)
  <2>1. LinksAt(now) \subseteq LinksAt(date)
    BY <1>1, LaterLinks
  <2> QED
    BY <2>1 DEF IInv, LinksTyped
<1>3. job.bridge \cup facts_of(job.lldp) \in SUBSET Facts
  <2>1. facts_of(job.lldp) \subseteq Facts
    BY <1>1, <1>2, FactsOf
  <2> QED
    BY <2>1 DEF IInv, LinksTyped
<1> HIDE DEF date
<1>4. by_bridge \in SUBSET LinksAt(date)
    BY <1>1, <1>3, Deduced
<1>5. seen \in SUBSET LinksAt(date)
    BY <1>1, <1>4, Confirmed
<1>6. /\ \A k \in by_bridge : k.a < k.b /\ now + 1 <= k.last_seen
      /\ FromSwitches(facts_of(by_bridge))
  <2> DEFINE t == now + 1
  <2>1. t \in Nat /\ 1 <= t
    BY <1>1
  <2>2. by_bridge \in deduce_link_layer_topology(job.bridge \cup facts_of(job.lldp), Switches, t)
    OBVIOUS
  <2> HIDE DEF t
  <2>3. (\A k \in by_bridge : k.a < k.b /\ t <= k.last_seen) /\ FromSwitches(facts_of(by_bridge))
    BY <2>1, <2>2, DeducedSwitches
  <2> QED
    BY <2>3 DEF t
<1>7. \A k \in seen : k.confirmed = FALSE /\ \E l \in by_bridge : Alike(k, l)
    BY <1>1, <1>4, ConfirmAlike
<1>8. Ordered(seen) /\ FromSwitches(facts_of(seen)) /\ \A k \in seen : now + 1 <= k.last_seen
  <2>1. Ordered(by_bridge)
    BY <1>6 DEF Ordered
  <2>2. \A k \in seen : now + 1 <= k.last_seen
    BY <1>6, <1>7 DEF Alike
  <2> QED
    BY <1>6, <1>7, <2>1, <2>2, AlikeSets
<1>9. Ordered(job.lldp) /\ FromSwitches(facts_of(job.lldp))
    BY DEF SeenInv, Ordered
<1>10. Prior(job.lldp, seen)
    BY <1>7 DEF Prior, lower, SeenInv
<1>11. new.links \subseteq Union(job.lldp, seen) /\ new.links \subseteq LinksAt(date)
    BY <1>1, <1>2, <1>5, MergeOther DEF Merged
<1>12. Ordered(new.links) /\ FromSwitches(facts_of(new.links))
    BY <1>1, <1>2, <1>5, <1>8, <1>9, <1>10, <1>11, UnionSwitches
<1>13. ASSUME NEW k \in new.links, NEW m \in table PROVE m.last_seen < k.last_seen
  <2>1. m.last_seen \in 0..now
    BY <1>2 DEF LinksAt
  <2>2. CASE k \in First(job.lldp, seen)
    <3>1. PICK l \in job.lldp : Refines(k, l, facts_of(seen))
      BY <1>1, <1>2, <1>5, <1>8, <1>9, <1>10, <2>2, FirstRefines
    <3> QED
      BY <3>1 DEF Refines, SeenInv
  <2>3. CASE k \in alone(seen, job.lldp)
    <3>0. k \in seen
      BY <2>3 DEF alone
    <3>1. now + 1 <= k.last_seen /\ k.last_seen \in 0..date
      BY <1>5, <1>8, <3>0 DEF LinksAt
    <3> QED
      BY <1>1, <2>1, <3>1
  <2> QED
    BY <1>11, <2>2, <2>3 DEF Union
<1> QED
    BY <1>2, <1>5, <1>8, <1>9, <1>10, <1>11, <1>12, <1>13 DEF date

\* What the network is believed to be: no port has two links that say it.
Believed(k, l, links) ==
    /\ k \in links /\ Refines(k, l, cabling) /\ facts_of({k}) \subseteq cabling
    /\ \A m \in links : Shares(k, m) => m = k

\* When no cable was moved, each link that LLDP shows is there, alone at its ports.
LEMMA FirstBelieved ==
    ASSUME IInv, Wired(cabling), ScanInv, SeenInv, ~job.moved,
           NEW by_bridge \in deduce_link_layer_topology(job.bridge \cup facts_of(job.lldp),
                                                        Switches, now + 1),
           NEW seen, seen = set_confirm_all(by_bridge, FALSE),
           NEW new \in merge_other(job.lldp, seen)
    PROVE /\ Once(new.links)
          /\ \A k \in new.links : facts_of({k}) # {} /\ facts_of({k}) \subseteq cabling \cup misled
          /\ \A l \in job.lldp : \E k \in new.links : Believed(k, l, new.links)
<1> DEFINE date == now + 2
           L == job.lldp
<1>1. /\ L \in SUBSET LinksAt(date) /\ seen \in SUBSET LinksAt(date)
      /\ Prior(L, seen) /\ Ordered(L) /\ Ordered(seen)
      /\ new.links \in SUBSET LinksAt(date) /\ new.links \subseteq Union(L, seen)
      /\ FromSwitches(facts_of(seen))
    BY FirstMerge
<1>2. now \in Nat /\ date \in Nat /\ 1 <= now + 1 /\ cabling \in SUBSET Facts
    BY DEF IInv, LinksTyped
<1> HIDE DEF date
<1>3. by_bridge \in SUBSET LinksAt(date)
  <2>1. job.bridge \cup facts_of(job.lldp) \in SUBSET Facts
    BY <1>2, <1>1, FactsOf DEF IInv, LinksTyped
  <2> QED
    BY <1>2, <2>1, Deduced DEF date
<1>4. /\ Once(by_bridge)
      /\ \A k \in by_bridge : facts_of({k}) # {} /\ facts_of({k}) \subseteq cabling \cup misled
  <2> DEFINE t == now + 1
  <2>1. t \in Nat /\ 1 <= t
    BY <1>2
  <2>2. by_bridge \in deduce_link_layer_topology(job.bridge \cup facts_of(job.lldp), Switches, t)
    OBVIOUS
  <2> HIDE DEF t
  <2> QED
    BY <2>1, <2>2, DeducedTrue
<1>5. \A k \in seen : /\ k.confirmed = FALSE
                      /\ \E l \in by_bridge : Alike(k, l) /\ k = [l EXCEPT !.confirmed = FALSE]
    BY <1>2, <1>3, ConfirmAlike
<1>6. Once(seen)
  <2> SUFFICES ASSUME NEW k \in seen, NEW m \in seen, ends(k) = ends(m) PROVE k = m
    BY DEF Once
  <2>1. PICK i \in by_bridge : Alike(k, i) /\ k = [i EXCEPT !.confirmed = FALSE]
    BY <1>5
  <2>2. PICK j \in by_bridge : Alike(m, j) /\ m = [j EXCEPT !.confirmed = FALSE]
    BY <1>5
  <2>3. i = j
    BY <1>4, <2>1, <2>2, AlikeFacts DEF Once
  <2> QED
    BY <2>1, <2>2, <2>3
<1>7. ASSUME NEW k \in seen
      PROVE facts_of({k}) # {} /\ facts_of({k}) \subseteq cabling \cup misled
  <2>1. PICK i \in by_bridge : Alike(k, i)
    BY <1>5
  <2> QED
    BY <1>4, <2>1, AlikeFacts
<1>8. Once(L) /\ \A l \in L : l.confirmed = TRUE /\ Shown(l)
    BY DEF SeenInv, ScanInv
<1>9. Once(First(L, seen)) /\ Once(Union(L, seen))
      /\ \A l \in L : \E k \in First(L, seen) : ends(k) = ends(l)
  <2>1. date \in Nat /\ L \in SUBSET LinksAt(date) /\ seen \in SUBSET LinksAt(date) /\ Once(L)
    BY <1>1, <1>2, <1>8
  <2> HIDE DEF L
  <2>2. Once(First(L, seen)) /\ \A l \in L : \E k \in First(L, seen) : ends(k) = ends(l)
    BY <2>1, FirstOnce
  <2>3. Once(Union(L, seen))
    BY <1>6, <2>1, FirstOnce
  <2> QED
    BY <2>2, <2>3
<1>10. ASSUME NEW k \in First(L, seen), NEW l \in L, Refines(k, l, facts_of(seen)), ends(k) = ends(l)
       PROVE facts_of({k}) \subseteq cabling
  <2> SUFFICES ASSUME NEW f \in facts_of({k}), f \notin cabling PROVE FALSE
    OBVIOUS
  <2>1. f \notin facts_of({l}) /\ facts_of({l}) # {} /\ facts_of({l}) \subseteq cabling
    BY <1>8 DEF Shown
  <2>2. f \in facts_of(seen) /\ \A g \in facts_of({l}) : g.mac # f.mac
    BY <1>10, <2>1 DEF Refines
  <2>3. PICK m \in seen : f \in facts_of({m})
    BY <2>2, FactsUnion
  <2>4. f \in misled /\ f.mac \in Switches
    BY <1>1, <1>7, <2>2, <2>3 DEF FromSwitches
  <2>5. f.neighbor \in EndNodes
    BY <2>4 DEF misled, unique
  <2>6. PICK g \in facts_of({l}) : TRUE
    BY <2>1
  <2>7. g.mac \in Switches
    BY <2>6, FactsUnion DEF SeenInv, FromSwitches
  <2>8. ends(l) = {g.mac, g.neighbor} /\ ends(k) = {f.mac, f.neighbor}
    BY <2>6, FactEnds
  <2>9. g.mac = f.mac
    BY <1>10, <2>5, <2>7, <2>8, AddressAssumption DEF AddressAssumption
  <2> QED
    BY <2>2, <2>6, <2>9
<1>11. ASSUME NEW k \in First(L, seen)
       PROVE /\ facts_of({k}) # {} /\ facts_of({k}) \subseteq cabling
             /\ \E l \in L : Refines(k, l, cabling) /\ k.confirmed = TRUE /\ ends(k) = ends(l)
  <2>1. PICK l \in L : Refines(k, l, facts_of(seen)) /\ k.confirmed = l.confirmed /\ ends(k) = ends(l)
    <3> HIDE DEF L
    <3> QED
      BY <1>1, <1>2, FirstRefines
  <2>2. facts_of({k}) \subseteq cabling
    BY <1>10, <2>1
  <2>3. facts_of({k}) # {}
    BY <1>8, <2>1 DEF Refines, Shown
  <2>4. Refines(k, l, cabling)
    BY <2>1, <2>2 DEF Refines
  <2> QED
    BY <1>8, <2>1, <2>2, <2>3, <2>4
<1>12. ASSUME NEW k \in First(L, seen), NEW m \in First(L, seen), Shares(k, m) PROVE m = k
  <2>1. PICK f \in facts_of({k}), g \in facts_of({m}) : f.mac = g.mac /\ f.port = g.port
    BY <1>12 DEF Shares
  <2>2. f \in cabling /\ g \in cabling
    BY <1>11
  <2>3. f = g
    BY <2>1, <2>2 DEF Wired
  <2>4. ends(k) = ends(m)
    BY <2>1, <2>3, FactEnds
  <2> QED
    BY <1>9, <2>4 DEF Once
<1>13. ASSUME NEW k \in First(L, seen)
       PROVE k \in new.links /\ \A m \in new.links : Shares(k, m) => m = k
  <2> DEFINE R == alone(seen, L)
             A == First(L, seen)
  <2>1. k.confirmed = TRUE /\ k \in A /\ k.a < k.b
    BY <1>1, <1>11 DEF Ordered, Refines
  <2>2. \A m \in R : m \in seen /\ m.confirmed = FALSE /\ ends(m) \notin pairs(L)
    BY <1>5 DEF alone
  <2>3. ends(k) \in pairs(L)
    BY <1>11 DEF pairs
  <2> HIDE DEF R, A
  <2>4. \A m \in R : ~lower(k, m) /\ ~incomparable(k, m)
    BY <2>1, <2>2 DEF lower, incomparable
  <2>5. k.a # k.b
    <3>1. k \in LinksAt(date)
      BY <1>1, <1>2, MergeRun DEF Union
    <3> QED
      BY <1>2, <2>1, <3>1, OrderedEnds
  <2>6. Safe(k, A, R)
    <3>1. \A m \in A : Shares(k, m) => m = k
      BY <1>12 DEF A
    <3>2. \A m \in A \cup R : ends(m) = ends(k) => m = k
      BY <1>9, <2>2, <2>3 DEF A, Once
    <3>3. k \notin R
      BY <2>2, <2>3
    <3> QED
      BY <2>1, <2>4, <2>5, <3>1, <3>2, <3>3 DEF Safe
  <2>7. k \in new.links /\ \A m \in R : Shares(k, m) /\ ~incomparable(k, m) => m \notin new.links
    BY <1>1, <1>2, <2>6, MergeSafe DEF A, R
  <2>8. ASSUME NEW m \in new.links, Shares(k, m) PROVE m = k
    <3>1. m \in A \/ m \in R
      BY <1>1, <2>8 DEF A, R, Union
    <3> QED
      BY <1>12, <2>4, <2>7, <2>8, <3>1 DEF A
  <2> QED
    BY <2>7, <2>8
<1>14. Once(new.links)
    BY <1>1, <1>9 DEF Once
<1>15. ASSUME NEW k \in new.links
       PROVE facts_of({k}) # {} /\ facts_of({k}) \subseteq cabling \cup misled
  <2>1. k \in First(L, seen) \/ k \in seen
    BY <1>1 DEF Union, alone
  <2> QED
    BY <1>7, <1>11, <2>1
<1>16. ASSUME NEW l \in L PROVE \E k \in new.links : Believed(k, l, new.links)
  <2>1. PICK k \in First(L, seen) : ends(k) = ends(l)
    BY <1>9
  <2>2. PICK i \in L : Refines(k, i, cabling) /\ ends(k) = ends(i)
    BY <1>11
  <2>3. i = l
    BY <1>8, <2>1, <2>2 DEF Once
  <2> QED
    BY <1>11, <1>13, <2>2, <2>3 DEF Believed
<1> QED
    BY <1>14, <1>15, <1>16

-----------------------------------------------------------------------------
\* The second merge of a rescan: what was scanned has priority over the past topology.

\* The past topology says what the table says.
LEMMA Past ==
    ASSUME IInv, SeenInv, NEW past, past = unconfirm(table, job.devices)
    PROVE /\ past \in SUBSET LinksAt(now + 2) /\ Ordered(past) /\ FromSwitches(facts_of(past))
          /\ \A p \in past : \E l \in table : Alike(p, l)
<1>1. now \in Nat /\ table \in SUBSET LinksAt(now) /\ now + 2 \in Nat
    BY DEF IInv, LinksTyped
<1>2. LinksAt(now) \subseteq LinksAt(now + 2)
    BY <1>1, LaterLinks
<1>3. past \subseteq LinksAt(now)
    BY <1>1, Unconfirmed
<1>4. \A p \in past : \E l \in table : Alike(p, l)
    BY <1>1, UnconfirmAlike
<1>5. Ordered(table) /\ FromSwitches(facts_of(table))
    BY DEF SeenInv, Ordered
<1> QED
    BY <1>2, <1>3, <1>4, <1>5, AlikeSets

\* What was scanned has priority; the result is about ports of switches.
LEMMA SecondMerge ==
    ASSUME IInv, SeenInv,
           NEW links \in SUBSET LinksAt(now + 2), Ordered(links), FromSwitches(facts_of(links)),
           \A k \in links, m \in table : m.last_seen < k.last_seen,
           NEW mine, mine = set_confirm_all(links, TRUE),
           NEW past, past = unconfirm(table, job.devices),
           NEW all \in merge_other(mine, past)
    PROVE /\ mine \in SUBSET LinksAt(now + 2) /\ Ordered(mine) /\ FromSwitches(facts_of(mine))
          /\ \A k \in mine : k.confirmed = TRUE /\ \A p \in past : p.last_seen < k.last_seen
          /\ Prior(mine, past)
          /\ all.links \subseteq Union(mine, past) /\ all.links \in SUBSET LinksAt(now + 2)
          /\ Ordered(all.links) /\ FromSwitches(facts_of(all.links))
<1>1. /\ past \in SUBSET LinksAt(now + 2) /\ Ordered(past) /\ FromSwitches(facts_of(past))
      /\ \A p \in past : \E l \in table : Alike(p, l)
    BY Past
<1> DEFINE date == now + 2
<1>2. date \in Nat
    BY DEF IInv, LinksTyped
<1> HIDE DEF date
<1>3. mine \in SUBSET LinksAt(date) /\ links \in SUBSET LinksAt(date) /\ past \in SUBSET LinksAt(date)
    BY <1>1, <1>2, Confirmed DEF date
<1>4. \A k \in mine : k.confirmed = TRUE /\ \E l \in links : Alike(k, l)
    BY <1>2, <1>3, ConfirmAlike
<1>5. Ordered(mine) /\ FromSwitches(facts_of(mine))
    BY <1>4, AlikeSets
<1>6. ASSUME NEW k \in mine, NEW p \in past PROVE p.last_seen < k.last_seen
  <2>1. PICK l \in links : Alike(k, l)
    BY <1>4
  <2>2. PICK m \in table : Alike(p, m)
    BY <1>1
  <2> QED
    BY <2>1, <2>2 DEF Alike
<1>7. Prior(mine, past)
  <2> SUFFICES ASSUME NEW k \in mine, NEW p \in past PROVE ~lower(k, p)
    BY DEF Prior
  <2>1. k.confirmed = TRUE /\ p.last_seen < k.last_seen
    BY <1>4, <1>6
  <2>2. k.last_seen \in 0..date /\ p.last_seen \in 0..date
    BY <1>3 DEF LinksAt
  <2> QED
    BY <1>2, <2>1, <2>2 DEF lower
<1>8. all.links \subseteq Union(mine, past) /\ all.links \subseteq LinksAt(date)
    BY <1>2, <1>3, MergeOther DEF Merged
<1>9. Ordered(all.links) /\ FromSwitches(facts_of(all.links))
    BY <1>1, <1>2, <1>3, <1>5, <1>7, <1>8, UnionSwitches
<1> QED
    BY <1>3, <1>4, <1>5, <1>6, <1>7, <1>8, <1>9 DEF date

\* What a rescan has collected, when no cable was moved: each pair of devices once, true or
\* misled by a forwarding table, and what LLDP shows alone at its ports.
Collected(links) ==
    /\ Once(links)
    /\ \A k \in links : facts_of({k}) # {} /\ facts_of({k}) \subseteq cabling \cup misled
    /\ \A l \in job.lldp : \E k \in links : Believed(k, l, links)

\* Confirming the links does not change what was collected.
LEMMA CollectedConfirmed ==
    ASSUME NEW date \in Nat, NEW links \in SUBSET LinksAt(date), Collected(links),
           NEW mine, mine = set_confirm_all(links, TRUE)
    PROVE Collected(mine)
<1>1. /\ \A k \in mine : \E l \in links : Alike(k, l) /\ k = [l EXCEPT !.confirmed = TRUE]
      /\ \A l \in links : \E k \in mine : Alike(k, l)
  <2> DEFINE v == TRUE
  <2>1. mine = set_confirm_all(links, v)
    OBVIOUS
  <2> HIDE DEF v
  <2>2. \A k \in mine : \E l \in links : Alike(k, l) /\ k = [l EXCEPT !.confirmed = v]
    BY <2>1, ConfirmAlike
  <2>3. \A l \in links : \E k \in mine : Alike(k, l)
    BY <2>1, ConfirmAlike
  <2> QED
    BY <2>2, <2>3 DEF v
<1>2. ASSUME NEW k \in mine, NEW m \in mine, ends(k) = ends(m) PROVE k = m
  <2>1. PICK i \in links : Alike(k, i) /\ k = [i EXCEPT !.confirmed = TRUE]
    BY <1>1
  <2>2. PICK j \in links : Alike(m, j) /\ m = [j EXCEPT !.confirmed = TRUE]
    BY <1>1
  <2>3. i = j
    BY <1>2, <2>1, <2>2, AlikeFacts DEF Collected, Once
  <2> QED
    BY <2>1, <2>2, <2>3
<1>3. ASSUME NEW k \in mine
      PROVE facts_of({k}) # {} /\ facts_of({k}) \subseteq cabling \cup misled
  <2>1. PICK i \in links : Alike(k, i)
    BY <1>1
  <2> QED
    BY <2>1, AlikeFacts DEF Collected
<1>4. ASSUME NEW l \in job.lldp PROVE \E k \in mine : Believed(k, l, mine)
  <2>1. PICK i \in links : Believed(i, l, links)
    BY DEF Collected
  <2>2. PICK k \in mine : Alike(k, i)
    BY <1>1, <2>1 DEF Believed
  <2>3. facts_of({k}) = facts_of({i}) /\ ends(k) = ends(i)
    BY <2>2, AlikeFacts
  <2>4. Refines(k, l, cabling)
    BY <2>1, <2>2, <2>3 DEF Refines, Alike, Believed
  <2>5. ASSUME NEW m \in mine, Shares(k, m) PROVE m = k
    <3>1. PICK j \in links : Alike(m, j)
      BY <1>1
    <3>2. facts_of({m}) = facts_of({j}) /\ ends(m) = ends(j)
      BY <3>1, AlikeFacts
    <3>3. Shares(i, j)
      BY <2>3, <2>5, <3>2 DEF Shares
    <3>4. j = i
      BY <2>1, <3>3 DEF Believed
    <3> QED
      BY <1>2, <2>3, <3>2, <3>4
  <2> QED
    BY <2>1, <2>3, <2>4, <2>5 DEF Believed
<1> QED
    BY <1>2, <1>3, <1>4 DEF Collected, Once

\* A port that is filled in from the past topology is recalled.
LEMMA FilledRecalled ==
    ASSUME IInv, SeenInv, Wired(cabling), NEW mine, Collected(mine), FromSwitches(facts_of(mine)),
           NEW past, past = unconfirm(table, job.devices),
           NEW j \in mine, NEW m, Refines(m, j, facts_of(past)), ends(m) = ends(j),
           NEW g \in facts_of({m}), g \notin facts_of({j})
    PROVE g \in recalled
<1>1. g \in facts_of(past) /\ \A h \in facts_of({j}) : h.mac # g.mac
    BY DEF Refines
<1>2. PICK p \in past : g \in facts_of({p})
    BY <1>1, FactsUnion
<1>3. PICK x \in table : Alike(p, x)
    BY <1>2, Past
<1>4. g \in facts_of({x}) /\ ends(x) = {g.mac, g.neighbor} /\ ends(m) = {g.mac, g.neighbor}
    BY <1>2, <1>3, AlikeFacts, FactEnds
<1>5. g.mac \in Switches
    BY <1>4, FactsUnion DEF SeenInv, FromSwitches
<1>6. PICK h \in facts_of({j}) : TRUE
    BY DEF Collected
<1>7. h.mac = g.neighbor /\ h.neighbor = g.mac /\ h.mac \in Switches
  <2>1. ends(j) = {h.mac, h.neighbor}
    BY <1>6, FactEnds
  <2>2. h.mac \in Switches
    BY <1>6, FactsUnion DEF FromSwitches
  <2> QED
    BY <1>1, <1>4, <1>6, <2>1, <2>2
<1>8. h \in cabling
  <2>1. h \in cabling \cup misled
    BY <1>6 DEF Collected
  <2>2. h \notin misled
    BY <1>5, <1>7, AddressAssumption DEF misled, unique, AddressAssumption
  <2> QED
    BY <2>1, <2>2
<1>9. \E c \in cabling : c.mac = g.mac /\ c.neighbor = g.neighbor
    BY <1>7, <1>8 DEF Wired
<1>10. ASSUME NEW i \in facts_of(job.lldp), i.mac = g.mac, i.neighbor = g.neighbor PROVE FALSE
  <2>1. PICK l \in job.lldp : i \in facts_of({l})
    BY FactsUnion
  <2>2. PICK k \in mine : Believed(k, l, mine)
    BY DEF Collected
  <2>3. ends(k) = ends(l) /\ ends(l) = {g.mac, g.neighbor}
    <3>1. ends(l) = {i.mac, i.neighbor}
      BY <2>1, FactEnds
    <3>2. k.a = l.a /\ k.b = l.b
      BY <2>2 DEF Believed, Refines
    <3> QED
      BY <1>10, <3>1, <3>2 DEF ends
  <2>4. k = j
    BY <1>4, <2>3 DEF Collected, Once
  <2>5. i \in facts_of({j})
    BY <2>1, <2>2, <2>4 DEF Believed, Refines
  <2> QED
    BY <1>1, <1>10, <2>5
<1>11. g \in facts_of({y \in table : ends(y) \subseteq Switches})
  <2>1. x \in {y \in table : ends(y) \subseteq Switches}
    BY <1>4, <1>5, <1>7
  <2> QED
    BY <1>4, <2>1, FactsUnion
<1> QED
    BY <1>9, <1>10, <1>11 DEF recalled

\* The two exceptions: a node alone in a forwarding table, and a port that is recalled
Excused(l) ==
    \/ \E f \in misled : f.neighbor \in ends(l)
    \/ \E f \in recalled :
          /\ f.mac \in ends(l)
          /\ f \notin cabling \/ \E g \in misled : g.mac = f.mac /\ g.port = f.port

\* What was scanned, merged with the past topology
Scanned(links, past) ==
    /\ Once(links)
    /\ \A k \in links : /\ k \in LinksAt(now + 2) /\ k.confirmed = TRUE /\ k.a < k.b
                        /\ \A p \in past : p.last_seen < k.last_seen
                        /\ \E f \in cabling \cup misled : f.mac \in Switches /\ ends(k) = {f.mac, f.neighbor}

\* Each link says what a link that was scanned says, and the other way round.
Refined(links, mine, past) ==
    /\ \A k \in links : \E j \in mine : Refines(k, j, facts_of(past)) /\ ends(k) = ends(j)
    /\ \A j \in mine : \E k \in links : Refines(k, j, facts_of(past)) /\ ends(k) = ends(j)

\* What was scanned stays more recent than the past topology, and says what it said.
LEMMA SecondScanned ==
    ASSUME IInv, SeenInv, NEW past, past = unconfirm(table, job.devices),
           NEW mine \in SUBSET LinksAt(now + 2), Ordered(mine), FromSwitches(facts_of(mine)),
           Collected(mine), Prior(mine, past),
           \A k \in mine : k.confirmed = TRUE /\ \A p \in past : p.last_seen < k.last_seen
    PROVE Scanned(First(mine, past), past) /\ Refined(First(mine, past), mine, past)
<1> DEFINE date == now + 2
           Y == First(mine, past)
<1>1. date \in Nat
    BY DEF IInv, LinksTyped
<1>2. past \in SUBSET LinksAt(date) /\ Ordered(past)
    BY Past
<1>3. mine \in SUBSET LinksAt(date)
    OBVIOUS
<1>4. Y \subseteq LinksAt(date)
  <2> HIDE DEF date
  <2>1. \A k \in common(mine, past) : k \in LinksAt(date)
    BY <1>1, <1>2, <1>3, Common
  <2> QED
    BY <1>3, <2>1 DEF First, alone
<1>5. Once(Y) /\ \A j \in mine : \E k \in Y : ends(k) = ends(j)
  <2> HIDE DEF date
  <2> QED
    BY <1>1, <1>2, <1>3, FirstOnce DEF Collected
<1>6. ASSUME NEW k \in Y
      PROVE \E j \in mine : Refines(k, j, facts_of(past)) /\ k.confirmed = j.confirmed /\ ends(k) = ends(j)
  <2> HIDE DEF date
  <2> QED
    BY <1>1, <1>2, <1>3, FirstRefines
<1> HIDE DEF date, Y
<1>7. ASSUME NEW k \in Y
      PROVE /\ k.confirmed = TRUE /\ k.a < k.b
            /\ \A p \in past : p.last_seen < k.last_seen
            /\ \E f \in cabling \cup misled : f.mac \in Switches /\ ends(k) = {f.mac, f.neighbor}
  <2>1. PICK j \in mine : Refines(k, j, facts_of(past)) /\ k.confirmed = j.confirmed /\ ends(k) = ends(j)
    BY <1>6
  <2>2. PICK f \in facts_of({j}) : f \in cabling \cup misled
    BY DEF Collected
  <2>3. f.mac \in Switches
    BY <2>2, FactsUnion DEF FromSwitches
  <2>4. ends(j) = {f.mac, f.neighbor}
    BY <2>2, FactEnds
  <2>5. k.confirmed = TRUE /\ k.a < k.b /\ \A p \in past : p.last_seen < k.last_seen
    BY <2>1 DEF Refines, Ordered
  <2> QED
    BY <2>1, <2>2, <2>3, <2>4, <2>5
<1>8. Scanned(Y, past)
    BY <1>4, <1>5, <1>7 DEF Scanned, date
<1>9. ASSUME NEW j \in mine PROVE \E k \in Y : Refines(k, j, facts_of(past)) /\ ends(k) = ends(j)
  <2>1. PICK k \in Y : ends(k) = ends(j)
    BY <1>5
  <2>2. PICK i \in mine : Refines(k, i, facts_of(past)) /\ ends(k) = ends(i)
    BY <1>6
  <2>3. i = j
    BY <2>1, <2>2 DEF Collected, Once
  <2> QED
    BY <2>1, <2>2, <2>3
<1> QED
    BY <1>6, <1>8, <1>9 DEF Y, Refined

\* No port that LLDP shows, or that is recalled, is taken by another link, but for the exceptions.
LEMMA Undisputed ==
    ASSUME IInv, SeenInv, Wired(cabling), NEW past, past = unconfirm(table, job.devices),
           NEW mine, FromSwitches(facts_of(mine)), Collected(mine),
           NEW l \in job.lldp, ~Excused(l), NEW i \in mine, Believed(i, l, mine),
           NEW k, Refines(k, i, facts_of(past)), ends(k) = ends(i),
           NEW j \in mine, NEW m, Refines(m, j, facts_of(past)), ends(m) = ends(j), Shares(k, m)
    PROVE i = j
<1> SUFFICES ASSUME i # j PROVE FALSE
    OBVIOUS
<1>1. PICK f \in facts_of({k}), g \in facts_of({m}) : f.mac = g.mac /\ f.port = g.port
    BY DEF Shares
<1>2. ends(k) = {f.mac, f.neighbor} /\ ends(m) = {g.mac, g.neighbor} /\ ends(l) = ends(k)
    BY <1>1, FactEnds DEF Believed, Refines, ends
<1>3. f # g
    BY <1>2 DEF Collected, Once
<1>4. f \notin facts_of({i}) => f \in recalled
    BY FilledRecalled
<1>5. g \notin facts_of({j}) => g \in recalled
    BY FilledRecalled
<1>6. f \in facts_of({i}) => f \in cabling
    BY DEF Believed
<1>7. f \in recalled => f \in cabling /\ \A h \in misled : ~(h.mac = f.mac /\ h.port = f.port)
    BY <1>2 DEF Excused
<1>8. g \in recalled => g \in cabling
    BY <1>1, <1>2 DEF Excused
<1>9. ~(f \in cabling /\ g \in cabling)
    BY <1>1, <1>3 DEF Wired
<1>10. f \in cabling
    BY <1>4, <1>6, <1>7
<1>11. g \in facts_of({j}) /\ g \in misled
    BY <1>5, <1>8, <1>9, <1>10 DEF Collected
<1>12. f \in facts_of({i})
    BY <1>1, <1>4, <1>7, <1>11
<1>13. Shares(i, j)
    BY <1>1, <1>11, <1>12 DEF Shares
<1> QED
    BY <1>13 DEF Believed

\* A link that LLDP has shown is in the result of the merge, but for the exceptions.
LEMMA SecondBelieved ==
    ASSUME IInv, SeenInv, Wired(cabling), NEW past, past = unconfirm(table, job.devices),
           NEW mine \in SUBSET LinksAt(now + 2), Ordered(mine), FromSwitches(facts_of(mine)),
           Collected(mine), Prior(mine, past),
           \A k \in mine : k.confirmed = TRUE /\ \A p \in past : p.last_seen < k.last_seen,
           NEW all \in merge_other(mine, past), NEW l \in job.lldp, ~Excused(l)
    PROVE \E k \in First(mine, past) : k \in all.links /\ same(k, l)
<1> DEFINE date == now + 2
           Y == First(mine, past)
           R == alone(past, mine)
<1>1. date \in Nat /\ past \in SUBSET LinksAt(date) /\ mine \in SUBSET LinksAt(date)
    BY Past DEF IInv, LinksTyped
<1>2. Scanned(Y, past) /\ Refined(Y, mine, past)
    BY SecondScanned
<1>3. PICK i \in mine : Believed(i, l, mine)
    BY DEF Collected
<1>4. PICK k \in Y : Refines(k, i, facts_of(past)) /\ ends(k) = ends(i)
    BY <1>2 DEF Refined
<1>5. \A m \in R : m \in past /\ ends(m) \notin pairs(mine)
    BY DEF alone
<1>6. ends(k) \in pairs(mine)
    BY <1>4 DEF pairs
<1> HIDE DEF Y, R, date
<1>7. k \in LinksAt(date) /\ k.confirmed = TRUE /\ k.a < k.b /\ \A p \in past : p.last_seen < k.last_seen
    BY <1>2 DEF Scanned, date
<1>8. k.a # k.b
    BY <1>1, <1>7, OrderedEnds
<1>9. \A m \in Y : Shares(k, m) => m = k
  <2> SUFFICES ASSUME NEW m \in Y, Shares(k, m) PROVE m = k
    OBVIOUS
  <2>1. PICK j \in mine : Refines(m, j, facts_of(past)) /\ ends(m) = ends(j)
    BY <1>2 DEF Refined
  <2>2. i = j
    BY <1>3, <1>4, <2>1, Undisputed
  <2> QED
    BY <1>2, <1>4, <2>1, <2>2 DEF Scanned, Once
<1>10. \A m \in R : ~lower(k, m)
  <2> SUFFICES ASSUME NEW m \in R PROVE ~lower(k, m)
    OBVIOUS
  <2>1. m.last_seen < k.last_seen /\ m.last_seen \in 0..date /\ k.last_seen \in 0..date
    BY <1>1, <1>5, <1>7 DEF LinksAt
  <2> QED
    BY <1>1, <1>7, <2>1 DEF lower
<1>11. \A m \in Y \cup R : ends(m) = ends(k) => m = k
    BY <1>2, <1>5, <1>6 DEF Scanned, Once
<1>12. k \notin R
    BY <1>5, <1>6
<1>13. Safe(k, Y, R)
    BY <1>8, <1>9, <1>10, <1>11, <1>12 DEF Safe
<1>14. k \in all.links
    BY <1>1, <1>13, MergeSafe DEF Y, R
<1>15. same(k, l)
  <2>1. ends(k) = ends(l)
    BY <1>3, <1>4 DEF Believed, Refines, ends
  <2> QED
    BY <1>3, <1>4, <1>7, <2>1 DEF same, Believed, Refines
<1> QED
    BY <1>14, <1>15 DEF Y

-----------------------------------------------------------------------------
\* What cleanup() does of the links that were scanned

\* Nodes that have one link each, to a switch, do not close a loop.
LEMMA LeavesLoopless ==
    ASSUME NEW links, NEW nodes, Loopless({k \in links : ends(k) \cap nodes = {}}),
           \A k \in links : k.a # k.b,
           \A k \in links : ends(k) \cap nodes = {} \/ \E n \in nodes : ends(k) \cap nodes = {n},
           \A n \in nodes : \A k, l \in links : n \in ends(k) /\ n \in ends(l) => k = l
    PROVE Loopless(links)
<1> DEFINE inner == {k \in links : ends(k) \cap nodes = {}}
<1>1. ASSUME NEW l \in links, l \in inner PROVE Apart(l.a, l.b, links \ {l})
  <2>1. PICK C : Cut(C, inner \ {l}) /\ ~(l.a \in C <=> l.b \in C)
    BY <1>1 DEF Loopless, Apart
  <2> DEFINE hanging == {n \in nodes : \E k \in links : \E m \in C : m \notin nodes /\ ends(k) = {n, m}}
             B == (C \ nodes) \cup hanging
  <2>2. \A x : x \notin nodes => (x \in B <=> x \in C)
    OBVIOUS
  <2>3. ASSUME NEW k \in links, NEW n \in nodes, NEW m, m \notin nodes, ends(k) = {n, m}
        PROVE n \in B <=> m \in C
    <3>1. m \in C => n \in B
      BY <2>3
    <3>2. ASSUME n \in B PROVE m \in C
      <4>1. PICK j \in links : \E x \in C : x \notin nodes /\ ends(j) = {n, x}
        BY <3>2
      <4>2. j = k
        BY <2>3, <4>1
      <4> QED
        BY <2>3, <4>1, <4>2
    <3> QED
      BY <3>1, <3>2
  <2> HIDE DEF B
  <2>4. ASSUME NEW k \in links \ {l} PROVE k.a \in B <=> k.b \in B
    <3>1. CASE ends(k) \cap nodes = {}
      <4>1. k \in inner \ {l} /\ k.a \notin nodes /\ k.b \notin nodes
        BY <3>1 DEF ends
      <4> QED
        BY <2>1, <2>2, <4>1 DEF Cut
    <3>2. CASE ends(k) \cap nodes # {}
      <4>1. PICK n \in nodes : ends(k) \cap nodes = {n}
        BY <2>4, <3>2
      <4>2. CASE k.a = n
        <5>1. k.b \notin nodes /\ ends(k) = {n, k.b}
          BY <2>4, <4>1, <4>2 DEF ends
        <5> QED
          BY <2>2, <2>3, <2>4, <4>2, <5>1
      <4>3. CASE k.b = n
        <5>1. k.a \notin nodes /\ ends(k) = {n, k.a}
          BY <2>4, <4>1, <4>3 DEF ends
        <5> QED
          BY <2>2, <2>3, <2>4, <4>3, <5>1
      <4> QED
        BY <4>1, <4>2, <4>3 DEF ends
    <3> QED
      BY <3>1, <3>2
  <2>5. l.a \notin nodes /\ l.b \notin nodes
    BY <1>1 DEF ends
  <2> QED
    BY <2>1, <2>2, <2>4, <2>5 DEF Apart, Cut
<1>2. ASSUME NEW l \in links, l \notin inner PROVE Apart(l.a, l.b, links \ {l})
  <2>1. PICK n \in nodes : ends(l) \cap nodes = {n}
    BY <1>2
  <2>2. Cut({n}, links \ {l})
    BY <2>1 DEF Cut, ends
  <2>3. ~(l.a \in {n} <=> l.b \in {n})
    BY <2>1 DEF ends
  <2> QED
    BY <2>2, <2>3 DEF Apart
<1> QED
    BY <1>1, <1>2 DEF Loopless

\* Links between switches that were scanned are cables, which make trees.
LEMMA InnerLoopless ==
    ASSUME IInv, Wired(cabling), NEW links, NEW past, Scanned(links, past),
           NEW inner \in SUBSET links, \A k \in inner : ends(k) \cap EndNodes = {}
    PROVE Loopless(inner)
<1>1. cabling \subseteq Facts /\ now + 2 \in Nat
    BY DEF IInv, LinksTyped
<1>2. Loopless(cables(cabling))
    BY <1>1, Trees DEF Wired
<1>3. ASSUME NEW k \in inner PROVE \E c \in cables(cabling) : c.a = k.a /\ c.b = k.b
  <2>1. PICK f \in cabling \cup misled : ends(k) = {f.mac, f.neighbor}
    BY DEF Scanned
  <2>2. f.neighbor \notin EndNodes
    BY <2>1
  <2>3. f \in cabling
    BY <2>1, <2>2 DEF misled, unique
  <2>4. k.a < k.b /\ k.a \in Nat /\ k.b \in Nat
    BY <1>1, AddressAssumption DEF Scanned, LinksAt, Macs, AddressAssumption
  <2>5. cable_of(f).a = k.a /\ cable_of(f).b = k.b
    BY <2>1, <2>4 DEF cable_of, link, ends
  <2> QED
    BY <2>3, <2>5 DEF cables
<1> DEFINE h == [k \in inner |-> CHOOSE c \in cables(cabling) : c.a = k.a /\ c.b = k.b]
<1>4. \A k \in inner : h[k] \in cables(cabling) /\ h[k].a = k.a /\ h[k].b = k.b
    BY <1>3
<1>5. \A k, l \in inner : h[k] = h[l] => k = l
  <2> HIDE DEF h
  <2> QED
    BY <1>4 DEF Scanned, Once, ends
<1> HIDE DEF h
<1> QED
    BY <1>2, <1>4, <1>5, LooplessImage

\* A link that was scanned, without a misled one at its ends, stays.
LEMMA CleanupScanned ==
    ASSUME IInv, Wired(cabling), NEW past \in SUBSET LinksAt(now + 2),
           NEW scanned, Scanned(scanned, past), NEW links \in SUBSET (scanned \cup past),
           NEW T, OnePer(T, links, EndNodes),
           NEW k \in scanned, k \in links, \A f \in misled : f.neighbor \notin ends(k)
    PROVE Recent(scanned \cap T, T) /\ k \in scanned \cap T
<1> DEFINE date == now + 2
<1>1. /\ date \in Nat /\ past \subseteq LinksAt(date) /\ scanned \subseteq LinksAt(date)
      /\ \A l \in scanned : l.confirmed = TRUE /\ \A p \in past : p.last_seen < l.last_seen
    BY DEF IInv, LinksTyped, Scanned
<1> HIDE DEF date
<1>2. \A l \in LinksAt(date) : l.last_seen \in Nat /\ l.confirmed \in BOOLEAN
    BY <1>1 DEF LinksAt
<1> DEFINE young == scanned \cap T
<1>3. Recent(young, T)
  <2>1. young \subseteq {l \in T : l.confirmed}
    BY <1>1
  <2>2. ASSUME NEW l \in young, NEW m \in T \ young PROVE ~(l.last_seen <= m.last_seen)
    <3>1. m \in past
      BY DEF OnePer
    <3> QED
      BY <1>1, <1>2, <3>1
  <2>3. Loopless({l \in young : ends(l) \cap EndNodes = {}})
    <3>1. {l \in young : ends(l) \cap EndNodes = {}} \in SUBSET scanned
      OBVIOUS
    <3> QED
      BY <3>1, InnerLoopless
  <2>4. \A l \in young : l.a # l.b
    BY <1>1, OrderedEnds DEF Scanned
  <2>5. Loopless(young)
    <3>1. \A l \in young : ends(l) \cap EndNodes = {} \/ \E n \in EndNodes : ends(l) \cap EndNodes = {n}
      BY DEF OnePer
    <3>2. \A n \in EndNodes : \A j, l \in young : n \in ends(j) /\ n \in ends(l) => j = l
      BY DEF OnePer
    <3> HIDE DEF young
    <3> QED
      BY <2>3, <2>4, <3>1, <3>2, LeavesLoopless
  <2> QED
    BY <2>1, <2>2, <2>5 DEF Recent
<1>4. PICK f \in cabling \cup misled : f.mac \in Switches /\ ends(k) = {f.mac, f.neighbor}
    BY DEF Scanned
<1>5. f \in cabling
    BY <1>4
<1>6. f.mac \notin EndNodes
    BY <1>4, AddressAssumption DEF AddressAssumption
<1>7. CASE f.neighbor \notin EndNodes
  <2>1. ends(k) \cap EndNodes = {}
    BY <1>4, <1>6, <1>7
  <2>2. k \in T
    BY <2>1 DEF OnePer
  <2> QED
    BY <1>3, <2>2
<1>8. CASE f.neighbor \in EndNodes
  <2> DEFINE n == f.neighbor
  <2>1. k \in of_node(links, n, EndNodes)
    BY <1>4, <1>6, <1>8 DEF of_node
  <2>2. ASSUME NEW m \in of_node(links, n, EndNodes), m \in scanned PROVE m = k
    <3>1. PICK g \in cabling \cup misled : g.mac \in Switches /\ ends(m) = {g.mac, g.neighbor}
      BY <2>2 DEF Scanned
    <3>2. n = g.neighbor
      BY <1>8, <2>2, <3>1, AddressAssumption DEF of_node, AddressAssumption
    <3>3. g \in cabling
      BY <1>4, <3>1, <3>2
    <3>4. PICK f2 \in cabling : f2.mac = f.neighbor /\ f2.neighbor = f.mac
      BY <1>5 DEF Wired
    <3>5. PICK g2 \in cabling : g2.mac = g.neighbor /\ g2.neighbor = g.mac
      BY <3>3 DEF Wired
    <3>6. f2 = g2
      BY <1>8, <3>2, <3>4, <3>5 DEF Wired
    <3>7. ends(m) = ends(k)
      BY <1>4, <3>1, <3>2, <3>4, <3>5, <3>6
    <3> QED
      BY <2>2, <3>7 DEF Scanned, Once
  <2>3. ASSUME NEW m \in of_node(links, n, EndNodes)
        PROVE ~lower(k, m) /\ (m # k => lower(m, k))
    <3>1. CASE m = k
      <4>1. k.last_seen \in Nat
        BY <1>1, <1>2
      <4> QED
        BY <3>1, <4>1 DEF lower
    <3>2. CASE m # k
      <4>1. m \in past
        BY <2>2, <2>3, <3>2 DEF of_node
      <4>2. /\ m.last_seen < k.last_seen /\ ~(k.last_seen < m.last_seen)
            /\ k.confirmed = TRUE /\ m.confirmed \in {TRUE, FALSE}
        <5>1. k \in LinksAt(date) /\ m \in LinksAt(date)
          BY <1>1, <4>1
        <5>2. k.confirmed = TRUE /\ m.last_seen < k.last_seen
          BY <1>1, <4>1
        <5>3. k.last_seen \in Nat /\ m.last_seen \in Nat /\ m.confirmed \in BOOLEAN
          BY <1>2, <5>1
        <5>4. ~(k.last_seen < m.last_seen)
          BY <5>2, <5>3
        <5> QED
          BY <5>2, <5>3, <5>4
      <4>3. CASE m.confirmed = TRUE
        BY <4>2, <4>3 DEF lower
      <4>4. CASE m.confirmed = FALSE
        BY <4>2, <4>4 DEF lower
      <4> QED
        BY <4>2, <4>3, <4>4
    <3> QED
      BY <3>1, <3>2
  <2>4. k \in T
    BY <1>8, <2>1, <2>3 DEF OnePer
  <2> QED
    BY <1>3, <2>4
<1> QED
    BY <1>7, <1>8

\* What a rescan is about to save: ports of switches; and what LLDP has shown, but for the
\* exceptions, when no cable was moved.
LEMMA RescanResult ==
    ASSUME IInv, Wired(cabling), ScanInv, SeenInv,
           NEW by_bridge \in deduce_link_layer_topology(job.bridge \cup facts_of(job.lldp),
                                                        Switches, now + 1),
           NEW new \in merge_other(job.lldp, set_confirm_all(by_bridge, FALSE)),
           NEW all \in merge_other(set_confirm_all(new.links, TRUE), unconfirm(table, job.devices)),
           NEW links \in cleanup(all.links, EndNodes)
    PROVE /\ Ordered(links) /\ FromSwitches(facts_of(links))
          /\ ~job.moved => \A l \in job.lldp : Excused(l) \/ \E k \in links : same(k, l)
<1> DEFINE date == now + 2
           mine == set_confirm_all(new.links, TRUE)
           past == unconfirm(table, job.devices)
           scanned == First(mine, past)
<1>1. date \in Nat
    BY DEF IInv, LinksTyped
<1>2. /\ new.links \in SUBSET LinksAt(date) /\ Ordered(new.links)
      /\ FromSwitches(facts_of(new.links))
      /\ \A k \in new.links, m \in table : m.last_seen < k.last_seen
    BY FirstMerge
<1>3. /\ mine \in SUBSET LinksAt(date) /\ Ordered(mine) /\ FromSwitches(facts_of(mine))
      /\ \A k \in mine : k.confirmed = TRUE /\ \A p \in past : p.last_seen < k.last_seen
      /\ Prior(mine, past)
      /\ all.links \subseteq Union(mine, past) /\ all.links \in SUBSET LinksAt(date)
      /\ Ordered(all.links) /\ FromSwitches(facts_of(all.links))
    BY <1>2, SecondMerge
<1>4. past \in SUBSET LinksAt(date)
    BY Past
<1>5. IsFiniteSet(all.links) /\ Loopless({l \in all.links : ~l.confirmed})
  <2>1. IsFiniteSet(LinksAt(date))
    BY <1>1, LinksFinite
  <2>2. Loopless({l \in all.links : ~l.confirmed})
    BY MergedLinks
  <2> QED
    BY <1>3, <2>1, <2>2, FS_Subset
<1>6. PICK T : /\ OnePer(T, all.links, EndNodes) /\ links \subseteq T
               /\ \A Y : Recent(Y, T) => Y \subseteq links
    BY <1>5, Cleanup
<1>7. links \subseteq all.links
    BY <1>6 DEF OnePer
<1>8. Ordered(links) /\ FromSwitches(facts_of(links))
    BY <1>3, <1>7, FactsUnion DEF Ordered, FromSwitches
<1>9. ASSUME ~job.moved, NEW l \in job.lldp, ~Excused(l) PROVE \E k \in links : same(k, l)
  <2>1. Collected(new.links)
    BY <1>9, FirstBelieved DEF Collected
  <2>2. Collected(mine)
    BY <1>1, <1>2, <2>1, CollectedConfirmed
  <2>3. Scanned(scanned, past)
    BY <1>3, <2>2, SecondScanned DEF date
  <2>4. PICK k \in scanned : k \in all.links /\ same(k, l)
    BY <1>3, <1>9, <2>2, SecondBelieved DEF date
  <2>5. all.links \subseteq scanned \cup past
    BY <1>3 DEF Union, alone
  <2>6. \A f \in misled : f.neighbor \notin ends(k)
    BY <1>9, <2>4 DEF Excused, same
  <2> HIDE DEF scanned, past, mine
  <2>7. Recent(scanned \cap T, T) /\ k \in scanned \cap T
    BY <1>4, <1>6, <2>3, <2>4, <2>5, <2>6, CleanupScanned DEF date
  <2> QED
    BY <1>6, <2>4, <2>7
<1> QED
    BY <1>8, <1>9

-----------------------------------------------------------------------------
\* Each action keeps what rescans rely on.

BelievedInv == Wired(cabling) /\ ScanInv /\ SeenInv /\ LldpBelieved

\* What was collected stays true when neither it nor a cable changes.
LEMMA ScanKept ==
    ASSUME ScanInv, cabling' = cabling, job'.moved = job.moved, job'.lldp = job.lldp,
           job'.bridge = job.bridge
    PROVE ScanInv'
<1>1. \A l : Shown(l)' <=> Shown(l)
    BY DEF Shown
<1>2. \A f : Learned(f)' <=> Learned(f)
    BY DEF Learned, behind
<1>3. \A S : Complete(S)' <=> Complete(S)
    BY DEF Complete, behind
<1> QED
    BY <1>1, <1>2, <1>3 DEF ScanInv

\* Without a rescan, nothing is collected.
LEMMA NothingCollected ==
    /\ job.lldp = {} /\ job.bridge = {} => ScanInv
    /\ job.step # "save" => LldpBelieved
    BY DEF ScanInv, Complete, LldpBelieved

\* No link says nothing.
LEMMA NoFacts == facts_of({}) = {}
    BY DEF facts_of

\* Nothing is collected at first.
LEMMA InitBelieved == Init => BelievedInv
<1> SUFFICES ASSUME Init PROVE BelievedInv
    OBVIOUS
<1>1. /\ job.lldp = {} /\ job.bridge = {} /\ job.links = {} /\ job.left = {} /\ job.step = "idle"
      /\ table = {} /\ cabling = InitialCabling
    BY DEF Init, NoJob
<1>2. SeenInv
    BY <1>1, NoFacts DEF SeenInv, Once, FromSwitches
<1>3. Wired(cabling)
    BY <1>1, CablingAssumption
<1> QED
    BY <1>1, <1>2, <1>3, NothingCollected DEF BelievedInv

\* A cable that is moved during a rescan is remembered.
LEMMA RecableBelieved ==
    ASSUME IInv, BelievedInv, NEW f \in cabling, NEW y \in Switches, NEW q \in Ports,
           Recable(f, y, q)
    PROVE BelievedInv'
<1>1. Wired(cabling)'
    BY RecableWired DEF IInv, BelievedInv
<1>2. /\ job'.step = job.step /\ job'.left = job.left /\ job'.lldp = job.lldp
      /\ job'.bridge = job.bridge /\ job'.links = job.links /\ table' = table
      /\ job'.moved = (job.step # "idle")
    BY DEF Recable, IInv, LinksTyped
<1>3. SeenInv'
    BY <1>2 DEF BelievedInv, SeenInv
<1>4. ScanInv' /\ LldpBelieved'
  <2>1. CASE job.step = "idle"
    <3>1. job'.lldp = {} /\ job'.bridge = {} /\ job'.step # "save"
      BY <1>2, <2>1 DEF BelievedInv, SeenInv
    <3> QED
      BY <3>1 DEF ScanInv, Complete, LldpBelieved
  <2>2. CASE job.step # "idle"
    <3>1. job'.moved
      BY <1>2, <2>2
    <3> QED
      BY <3>1 DEF ScanInv, LldpBelieved
  <2> QED
    BY <2>1, <2>2
<1> QED
    BY <1>1, <1>3, <1>4 DEF BelievedInv

\* A rescan starts with nothing collected.
LEMMA StartRescanBelieved ==
    ASSUME IInv, BelievedInv, NEW S, StartRescan(S)
    PROVE BelievedInv'
<1>1. /\ job'.lldp = {} /\ job'.bridge = {} /\ job'.links = {} /\ job'.step = "query"
      /\ table' = table /\ cabling' = cabling
    BY DEF StartRescan, NoJob
<1>2. SeenInv'
    BY <1>1, NoFacts DEF BelievedInv, SeenInv, Once, FromSwitches
<1>3. ScanInv' /\ LldpBelieved'
    BY <1>1 DEF ScanInv, Complete, LldpBelieved
<1> QED
    BY <1>1, <1>2, <1>3 DEF BelievedInv

\* A device is queried.
LEMMA QueryBelieved ==
    ASSUME IInv, BelievedInv, NEW d \in job.left, NEW silent \in SUBSET EndNodes, NEW errors,
           Query(d, silent, errors)
    PROVE BelievedInv'
<1>1. ScanInv' /\ SeenInv' /\ job'.step = "query" /\ cabling' = cabling
    BY QuerySeen DEF BelievedInv
<1> QED
    BY <1>1 DEF BelievedInv, LldpBelieved

\* Whether it fails or not, the rescan has what LLDP has shown.
LEMMA MergeBelieved ==
    ASSUME IInv, BelievedInv, Merge
    PROVE BelievedInv'
<1> DEFINE Result(new, all) ==
               IF new.failed \/ all.failed \/ fails(all.links, EndNodes)
               THEN job' = NoJob /\ failed' = TRUE
               ELSE /\ \E links \in cleanup(all.links, EndNodes) :
                           job' = [job EXCEPT !.step = "save", !.links = links]
                    /\ UNCHANGED failed
           Merges(new) ==
               \E all \in merge_other(set_confirm_all(new.links, TRUE), unconfirm(table, job.devices)) :
                   Result(new, all)
<1>1. PICK by_bridge \in deduce_link_layer_topology(job.bridge \cup facts_of(job.lldp),
                                                    Switches, now + 1) :
        \E new \in merge_other(job.lldp, set_confirm_all(by_bridge, FALSE)) : Merges(new)
    BY DEF Merge
<1>2. PICK new \in merge_other(job.lldp, set_confirm_all(by_bridge, FALSE)) : Merges(new)
  <2> HIDE DEF Merges
  <2> QED
    BY <1>1
<1>3. PICK all \in merge_other(set_confirm_all(new.links, TRUE), unconfirm(table, job.devices)) :
            Result(new, all)
  <2> HIDE DEF Result
  <2> QED
    BY <1>2
<1>4. cabling' = cabling /\ table' = table
  <2>1. UNCHANGED <<cabling, table, reported, scans, changes>>
    BY Zenon DEF Merge
  <2> QED
    BY <2>1
<1>5. job.left = {}
    BY Zenon DEF Merge
<1>6. CASE job' = NoJob
  <2>1. /\ job'.lldp = {} /\ job'.bridge = {} /\ job'.links = {} /\ job'.step = "idle"
        /\ job'.left = {}
    BY <1>6 DEF NoJob
  <2>2. SeenInv'
    BY <1>4, <2>1, NoFacts DEF BelievedInv, SeenInv, Once, FromSwitches
  <2>3. ScanInv' /\ LldpBelieved'
    BY <2>1 DEF ScanInv, Complete, LldpBelieved
  <2> QED
    BY <1>4, <2>2, <2>3 DEF BelievedInv
<1>7. CASE job' # NoJob
  <2>1. PICK links \in cleanup(all.links, EndNodes) :
            job' = [job EXCEPT !.step = "save", !.links = links]
    BY <1>3, <1>7
  <2>2. /\ job'.step = "save" /\ job'.left = job.left /\ job'.lldp = job.lldp
        /\ job'.bridge = job.bridge /\ job'.links = links /\ job'.moved = job.moved
    BY <2>1 DEF IInv, LinksTyped
  <2>3. /\ Ordered(links) /\ FromSwitches(facts_of(links))
        /\ ~job.moved => \A l \in job.lldp : Excused(l) \/ \E k \in links : same(k, l)
    BY RescanResult DEF BelievedInv
  <2>4. ScanInv'
    BY <1>4, <2>2, ScanKept DEF BelievedInv
  <2>5. SeenInv'
    BY <1>4, <1>5, <2>2, <2>3 DEF BelievedInv, SeenInv, Ordered
  <2>6. misled' = misled /\ recalled' = recalled
    BY <1>4, <2>2 DEF misled, recalled
  <2>7. LldpBelieved'
    BY <1>4, <2>2, <2>3, <2>6 DEF LldpBelieved, Excused
  <2> QED
    BY <1>4, <2>4, <2>5, <2>7 DEF BelievedInv
<1> QED
    BY <1>6, <1>7

\* Nothing is left of the rescan.
LEMMA SaveBelieved ==
    ASSUME IInv, BelievedInv, Save
    PROVE BelievedInv'
<1>1. /\ job'.lldp = {} /\ job'.bridge = {} /\ job'.links = {} /\ job'.step = "idle"
      /\ job'.left = {} /\ table' = job.links /\ cabling' = cabling
    BY DEF Save, NoJob
<1>2. SeenInv'
    BY <1>1, NoFacts DEF BelievedInv, SeenInv, Once, FromSwitches
<1>3. ScanInv' /\ LldpBelieved'
    BY <1>1 DEF ScanInv, Complete, LldpBelieved
<1> QED
    BY <1>1, <1>2, <1>3 DEF BelievedInv

\* The port that a node reports is one of a switch.
LEMMA NodeReportsBelieved ==
    ASSUME IInv, BelievedInv, NEW f \in cabling, NodeReports(f)
    PROVE BelievedInv'
<1> DEFINE n == f.neighbor
           sw == f.mac
           new == link(n, sw, NULL, f.port, TRUE, NULL)
<1>1. /\ job' = job /\ cabling' = cabling /\ job.step = "idle"
      /\ table' = update_node_location(n, sw, f.port)
      /\ n \in EndNodes /\ sw \in Switches /\ n \in Nat /\ sw \in Nat /\ n # sw
    BY AddressAssumption DEF NodeReports, IInv, LinksTyped, AddressAssumption
<1>2. job.lldp = {}
    BY <1>1 DEF BelievedInv, SeenInv
<1>3. ASSUME NEW l \in table' PROVE l = new \/ \E k \in table : Alike(l, k)
  <2> DEFINE locs == {k \in table : n \in ends(k)}
  <2>1. table' \subseteq table \cup {new} \cup set_confirm_all(locs, TRUE)
    BY <1>1 DEF update_node_location
  <2>2. \A k \in set_confirm_all(locs, TRUE) : \E m \in table : Alike(k, m)
    <3>1. now \in Nat /\ locs \in SUBSET LinksAt(now)
      BY DEF IInv, LinksTyped
    <3> DEFINE v == TRUE
    <3>2. locs \subseteq table
      OBVIOUS
    <3> HIDE DEF locs, v
    <3>3. \A k \in set_confirm_all(locs, v) : \E m \in locs : Alike(k, m)
      BY <3>1, ConfirmAlike
    <3> QED
      BY <3>2, <3>3 DEF v
  <2>3. \A k \in table : Alike(k, k)
    BY DEF Alike
  <2> HIDE DEF locs, new
  <2> QED
    BY <2>1, <2>2, <2>3
<1>4. new.a < new.b /\ \A g \in facts_of({new}) : g.mac \in Switches
  <2>1. new.a < new.b
    BY <1>1 DEF link
  <2>2. facts_of({new}) \subseteq {[mac |-> sw, port |-> f.port, neighbor |-> n]}
    <3>1. new = shown(n, sw, NULL, f.port, NULL)
      BY DEF shown
    <3> HIDE DEF new, n, sw
    <3> QED
      BY <3>1, LinkFacts
  <2> HIDE DEF new, sw, n
  <2> QED
    BY <1>1, <2>1, <2>2
<1> HIDE DEF new
<1>5. \A k \in table : k.a < k.b /\ \A g \in facts_of({k}) : g.mac \in Switches
    BY FactsUnion DEF BelievedInv, SeenInv, FromSwitches
<1>6. \A l \in table' : l.a < l.b /\ \A g \in facts_of({l}) : g.mac \in Switches
  <2> SUFFICES ASSUME NEW l \in table', NEW k \in table, Alike(l, k)
               PROVE l.a < l.b /\ \A g \in facts_of({l}) : g.mac \in Switches
    BY <1>3, <1>4
  <2> QED
    BY <1>5, AlikeFacts DEF Alike
<1>7. FromSwitches(facts_of(table'))
    BY <1>6, FactsUnion DEF FromSwitches
<1>8. SeenInv'
    BY <1>1, <1>2, <1>6, <1>7 DEF BelievedInv, SeenInv
<1>9. ScanInv'
    BY <1>1, ScanKept DEF BelievedInv
<1> QED
    BY <1>1, <1>8, <1>9 DEF BelievedInv, LldpBelieved

\* Locations of nodes are not ports that are recalled.
LEMMA ForgetLocationBelieved ==
    ASSUME IInv, BelievedInv, NEW n \in EndNodes, ForgetLocation(n)
    PROVE BelievedInv'
<1>1. job' = job /\ cabling' = cabling /\ table' = {l \in table : n \notin ends(l)}
    BY DEF ForgetLocation
<1>2. table' \subseteq table
    BY <1>1
<1>3. FromSwitches(facts_of(table'))
  <2>1. facts_of(table') \subseteq facts_of(table)
    BY <1>2, FactsUnion
  <2>2. FromSwitches(facts_of(table))
    BY DEF BelievedInv, SeenInv
  <2> QED
    BY <2>1, <2>2 DEF FromSwitches
<1>4. SeenInv'
    BY <1>1, <1>2, <1>3 DEF BelievedInv, SeenInv
<1>5. ScanInv'
    BY <1>1, ScanKept DEF BelievedInv
<1>6. {m \in table' : ends(m) \subseteq Switches} = {m \in table : ends(m) \subseteq Switches}
    BY <1>1, AddressAssumption DEF AddressAssumption
<1>7. misled' = misled /\ recalled' = recalled
    BY <1>1, <1>6 DEF misled, recalled
<1>8. LldpBelieved'
    BY <1>1, <1>7 DEF BelievedInv, LldpBelieved
<1> QED
    BY <1>1, <1>4, <1>5, <1>8 DEF BelievedInv

\* The invariant is inductive.
LEMMA NextBelieved == IInv /\ BelievedInv /\ [Next]_vars => BelievedInv'
<1> SUFFICES ASSUME IInv, BelievedInv, [Next]_vars PROVE BelievedInv'
    OBVIOUS
<1>1. ASSUME NEW f \in cabling, NEW y \in Switches, NEW q \in Ports, Recable(f, y, q)
      PROVE BelievedInv'
    BY <1>1, RecableBelieved
<1>2. ASSUME NEW S \in {Switches} \cup {{s} : s \in Switches}, StartRescan(S) PROVE BelievedInv'
    BY <1>2, StartRescanBelieved
<1>3. ASSUME NEW d \in job.left, NEW silent \in SUBSET EndNodes,
             NEW errors \in SUBSET {"lldp", "bridge"}, Query(d, silent, errors) PROVE BelievedInv'
    BY <1>3, QueryBelieved
<1>4. CASE Merge
    BY <1>4, MergeBelieved
<1>5. CASE Save
    BY <1>5, SaveBelieved
<1>6. ASSUME NEW f \in cabling, NodeReports(f) PROVE BelievedInv'
    BY <1>6, NodeReportsBelieved
<1>7. ASSUME NEW n \in EndNodes, ForgetLocation(n) PROVE BelievedInv'
    BY <1>7, ForgetLocationBelieved
<1>8. CASE UNCHANGED vars
  <2>1. cabling' = cabling /\ table' = table /\ job' = job
    BY <1>8 DEF vars
  <2>2. ScanInv'
    BY <2>1, ScanKept DEF BelievedInv
  <2>3. SeenInv'
    BY <2>1 DEF BelievedInv, SeenInv
  <2>4. misled' = misled /\ recalled' = recalled
    BY <2>1 DEF misled, recalled
  <2>5. LldpBelieved'
    BY <2>1, <2>4 DEF BelievedInv, LldpBelieved
  <2> QED
    BY <2>1, <2>2, <2>3, <2>5 DEF BelievedInv
<1> QED
    BY <1>1, <1>2, <1>3, <1>4, <1>5, <1>6, <1>7, <1>8 DEF Next

\* Both invariants hold in each state.
LEMMA BelievedHolds == Spec => [](IInv /\ BelievedInv)
<1>1. Init => IInv /\ BelievedInv
    BY InitInv, InitBelieved
<1>2. (IInv /\ BelievedInv) /\ [Next]_vars => (IInv /\ BelievedInv)'
    BY NextInv, NextBelieved
<1> QED
    BY <1>1, <1>2, PTL DEF Spec

\* Types of the state: facts and links are about devices and ports of the network, and the ends
\* of a link are two, in order (LinkLayerTopology).
THEOREM TypeCorrect == Spec => []TypeOK
<1>1. IInv /\ BelievedInv => TypeOK
  <2> SUFFICES ASSUME IInv, BelievedInv PROVE TypeOK
    OBVIOUS
  <2>1. \A l \in table \cup job.lldp \cup job.links : l \in LinksAt(now) /\ l.a < l.b
    BY DEF IInv, LinksTyped, BelievedInv, SeenInv
  <2>2. \A l \in table \cup job.lldp \cup job.links : IsLink(l)
    BY <2>1 DEF IsLink, LinksAt
  <2> QED
    BY <2>2 DEF TypeOK, IInv, LinksTyped
<1> QED
    BY <1>1, BelievedHolds, PTL

\* Unless a cable is moved during a rescan, each link that LLDP has shown is in its result,
\* confirmed and at the same ports, but for two exceptions: a node that a forwarding table
\* has alone at a port, and a port recalled from the past topology that is obsolete, or where
\* a forwarding table has a node alone (rescan(), merge_other(), cleanup()).
THEOREM LldpShown == Spec => []LldpBelieved
<1>1. BelievedInv => LldpBelieved
    BY DEF BelievedInv
<1> QED
    BY <1>1, BelievedHolds, PTL
=============================================================================
