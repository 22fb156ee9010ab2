--------------------------- MODULE Pipeline_proofs --------------------------
(***************************************************************************)
(* Proofs about the compilation of a corpus and what becomes of its        *)
(* artifact, for every corpus, configuration and limit.                    *)
(***************************************************************************)
EXTENDS Pipeline, FiniteSetTheorems, SequenceTheorems, TLAPS

-----------------------------------------------------------------------------
(* A strict order of a set, given by what precedes each element.           *)
IsOrder(S, preceding) ==
  /\ preceding \in [S -> SUBSET S]
  /\ \A x \in S : x \notin preceding[x]
  /\ \A x, y, z \in S : x \in preceding[y] /\ y \in preceding[z] => x \in preceding[z]
  /\ \A x, y \in S : x = y \/ x \in preceding[y] \/ y \in preceding[x]

(* In a finite order of n elements, as many as 0, 1, ... n - 1 precede one *)
(* of them: the number grows along the order, and so each is met.          *)
LEMMA RanksAreMet ==
  ASSUME NEW S, IsFiniteSet(S), NEW preceding, IsOrder(S, preceding)
  PROVE  /\ \A x \in S : Cardinality(preceding[x]) \in 0 .. Cardinality(S) - 1
         /\ \A x, y \in S : x \in preceding[y] =>
              Cardinality(preceding[x]) < Cardinality(preceding[y])
         /\ \A k \in 0 .. Cardinality(S) - 1 : \E x \in S : Cardinality(preceding[x]) = k
<1> DEFINE n == Cardinality(S)
           rank == [x \in S |-> Cardinality(preceding[x])]
<1>1. n \in Nat
  BY FS_CardinalityType
<1>2. \A x \in S : /\ preceding[x] \in SUBSET S /\ x \notin preceding[x]
                   /\ IsFiniteSet(preceding[x]) /\ Cardinality(preceding[x]) \in Nat
  <2> SUFFICES ASSUME NEW x \in S
               PROVE  /\ preceding[x] \in SUBSET S /\ x \notin preceding[x]
                      /\ IsFiniteSet(preceding[x]) /\ Cardinality(preceding[x]) \in Nat
    OBVIOUS
  <2>1. preceding[x] \in SUBSET S /\ x \notin preceding[x]
    BY DEF IsOrder
  <2>2. IsFiniteSet(preceding[x])
    BY <2>1, FS_Subset
  <2> QED BY <2>1, <2>2, FS_CardinalityType
<1>3. \A x \in S : Cardinality(preceding[x]) \in 0 .. n - 1
  <2> SUFFICES ASSUME NEW x \in S PROVE Cardinality(preceding[x]) \in 0 .. n - 1
    OBVIOUS
  <2>1. Cardinality(preceding[x]) <= n /\ (n = Cardinality(preceding[x]) => S = preceding[x])
    BY <1>2, FS_Subset
  <2>2. Cardinality(preceding[x]) # n
    BY <1>2, <2>1
  <2> QED BY <1>1, <1>2, <2>1, <2>2
<1>4. \A x, y \in S : x \in preceding[y] =>
        Cardinality(preceding[x]) < Cardinality(preceding[y])
  <2> SUFFICES ASSUME NEW x \in S, NEW y \in S, x \in preceding[y]
               PROVE  Cardinality(preceding[x]) < Cardinality(preceding[y])
    OBVIOUS
  <2>1. preceding[x] \in SUBSET preceding[y]
    BY <1>2 DEF IsOrder
  <2>2. preceding[x] # preceding[y]
    BY <1>2
  <2>3. /\ Cardinality(preceding[x]) <= Cardinality(preceding[y])
        /\ Cardinality(preceding[y]) = Cardinality(preceding[x]) => preceding[y] = preceding[x]
    BY <1>2, <2>1, FS_Subset
  <2>4. Cardinality(preceding[x]) \in Nat /\ Cardinality(preceding[y]) \in Nat
    BY <1>2
  <2> QED BY <2>2, <2>3, <2>4
<1>5. rank \in Injection(S, 0 .. n - 1)
  <2>1. rank \in [S -> 0 .. n - 1]
    BY <1>3
  <2>2. \A x, y \in S : rank[x] = rank[y] => x = y
    <3> SUFFICES ASSUME NEW x \in S, NEW y \in S, x # y PROVE rank[x] # rank[y]
      OBVIOUS
    <3>1. x \in preceding[y] \/ y \in preceding[x]
      BY DEF IsOrder
    <3>2. rank[x] < rank[y] \/ rank[y] < rank[x]
      BY <1>4, <3>1
    <3>3. rank[x] \in Nat /\ rank[y] \in Nat
      BY <1>2
    <3> QED BY <3>2, <3>3
  <2> QED BY <2>1, <2>2 DEF Injection, IsInjective
<1> HIDE DEF rank
<1>6. rank \in Surjection(S, 0 .. n - 1)
  <2>1. IsFiniteSet(0 .. n - 1) /\ Cardinality(0 .. n - 1) = n
    BY SMTT(30), <1>1, FS_Interval
  <2> QED BY <1>5, <2>1, FS_Injection
<1>7. \A k \in 0 .. n - 1 : \E x \in S : Cardinality(preceding[x]) = k
  BY <1>6 DEF Surjection, rank
<1> QED BY <1>3, <1>4, <1>7

(* OrderOf lists the set, each element once and behind what precedes it.   *)
LEMMA OrderIs ==
  ASSUME NEW S, IsFiniteSet(S), NEW preceding, IsOrder(S, preceding)
  PROVE  LET order == OrderOf(S, preceding)
         IN  /\ order \in Seq(S) /\ Len(order) = Cardinality(S)
             /\ \A k, l \in 1 .. Len(order) : k < l => order[k] \in preceding[order[l]]
             /\ \A x \in S : \E k \in 1 .. Len(order) : order[k] = x
<1> DEFINE n == Cardinality(S)
           order == OrderOf(S, preceding)
<1>1. n \in Nat
  BY FS_CardinalityType
<1>2. \A k \in 1 .. n : order[k] \in S /\ Cardinality(preceding[order[k]]) = k - 1
  <2> SUFFICES ASSUME NEW k \in 1 .. n
               PROVE  order[k] \in S /\ Cardinality(preceding[order[k]]) = k - 1
    OBVIOUS
  <2>1. k - 1 \in 0 .. n - 1
    BY <1>1
  <2>2. \E x \in S : Cardinality(preceding[x]) = k - 1
    BY <2>1, RanksAreMet
  <2>3. order[k] = CHOOSE x \in S : Cardinality(preceding[x]) = k - 1
    BY DEF OrderOf
  <2> QED BY <2>2, <2>3
<1>3. order \in Seq(S) /\ Len(order) = n
  <2>1. order = [k \in 1 .. n |-> order[k]]
    BY DEF OrderOf
  <2> HIDE DEF order
  <2>2. order \in [1 .. n -> S]
    BY <1>2, <2>1
  <2> QED BY <1>1, <2>2
<1> HIDE DEF order, n
<1>4. \A k, l \in 1 .. n : k < l => order[k] \in preceding[order[l]]
  <2> SUFFICES ASSUME NEW k \in 1 .. n, NEW l \in 1 .. n, k < l
               PROVE  order[k] \in preceding[order[l]]
    OBVIOUS
  <2>1. /\ order[k] \in S /\ Cardinality(preceding[order[k]]) = k - 1
        /\ order[l] \in S /\ Cardinality(preceding[order[l]]) = l - 1
    BY <1>2
  <2>2. order[k] # order[l]
    BY <2>1
  <2>3. order[l] \notin preceding[order[k]]
    <3>1. order[l] \in preceding[order[k]] => l - 1 < k - 1
      BY <2>1, RanksAreMet
    <3> QED BY <1>1, <3>1
  <2> QED BY <2>1, <2>2, <2>3 DEF IsOrder
<1>5. \A x \in S : \E k \in 1 .. n : order[k] = x
  <2> SUFFICES ASSUME NEW x \in S PROVE \E k \in 1 .. n : order[k] = x
    OBVIOUS
  <2> DEFINE k == Cardinality(preceding[x]) + 1
  <2>1. Cardinality(preceding[x]) \in 0 .. n - 1
    BY RanksAreMet DEF n
  <2>2. k \in 1 .. n /\ k - 1 = Cardinality(preceding[x]) /\ k - 1 \in Nat
    BY <1>1, <2>1
  <2>3. order[k] \in S /\ Cardinality(preceding[order[k]]) = Cardinality(preceding[x])
    BY <1>2, <2>2
  <2> HIDE DEF k
  <2>4. order[k] \notin preceding[x] /\ x \notin preceding[order[k]]
    <3>1. order[k] \in preceding[x] =>
            Cardinality(preceding[order[k]]) < Cardinality(preceding[x])
      BY <2>3, RanksAreMet
    <3>2. x \in preceding[order[k]] =>
            Cardinality(preceding[x]) < Cardinality(preceding[order[k]])
      BY <2>3, RanksAreMet
    <3> QED BY <2>2, <2>3, <3>1, <3>2
  <2>5. order[k] = x
    BY <2>3, <2>4 DEF IsOrder
  <2> QED BY <2>2, <2>5
<1> QED BY <1>3, <1>4, <1>5 DEF n, order

-----------------------------------------------------------------------------
(* Least and greatest numbers.                                             *)
Nothing(none, same, v, e) == v

Numbers ==
  INSTANCE RankedInsert_proofs WITH Capacity <- 0, Before <- LAMBDA x, y : x < y,
    Step <- Nothing

LEMMA MinIs ==
  ASSUME NEW S \in SUBSET Nat, S # {}
  PROVE  Min(S) \in S /\ \A y \in S : Min(S) <= y
<1>1. \E x \in S : \A y \in S : x <= y
  BY Numbers!NatHasMin
<1> QED BY <1>1 DEF Min

LEMMA MaxIs ==
  ASSUME NEW n \in Nat, NEW S \in SUBSET (0 .. n), S # {}
  PROVE  Max(S) \in S /\ \A y \in S : y <= Max(S)
<1> DEFINE Below == {n - x : x \in S}
<1>1. Below \in SUBSET Nat /\ Below # {}
  <2>1. \A x \in S : n - x \in Nat
    OBVIOUS
  <2> QED BY <2>1
<1>2. PICK b \in Below : \A c \in Below : b <= c
  BY <1>1, Numbers!NatHasMin
<1>3. PICK x \in S : b = n - x
  BY <1>2
<1>4. \A y \in S : x >= y
  <2> SUFFICES ASSUME NEW y \in S PROVE x >= y
    OBVIOUS
  <2>1. n - y \in Below /\ x \in 0 .. n /\ y \in 0 .. n
    OBVIOUS
  <2>2. n - x <= n - y
    BY <1>2, <1>3, <2>1
  <2> HIDE DEF Below
  <2> QED BY <2>1, <2>2
<1>5. Max(S) \in S /\ \A y \in S : Max(S) >= y
  BY <1>3, <1>4 DEF Max
<1>6. \A y \in S : y \in Nat
  <2>1. \A y \in 0 .. n : y \in Nat
    OBVIOUS
  <2>2. S \subseteq 0 .. n
    OBVIOUS
  <2> HIDE DEF Below
  <2> QED BY ONLY <2>1, <2>2
<1>7. \A y \in S : y <= Max(S)
  BY <1>5, <1>6
<1> QED BY <1>5, <1>7

(* Of finitely or infinitely many natural numbers one is the least.        *)
LEMMA SomeNearest ==
  ASSUME NEW I, I # {}, NEW f \in [I -> Nat]
  PROVE  \E p \in I : \A q \in I : f[p] <= f[q]
<1> DEFINE S == {f[p] : p \in I}
<1>1. S \in SUBSET Nat /\ S # {}
  OBVIOUS
<1>2. PICK x \in S : \A y \in S : x <= y
  BY <1>1, Numbers!NatHasMin
<1> QED BY <1>2

-----------------------------------------------------------------------------
(* The order of contexts: they agree up to a place, and there the left one *)
(* ends or has the smaller token.                                          *)
AgreeFor(left, right, n) == \A i \in 1 .. n : left[i] = right[i]

LEMMA FrontsAgree ==
  ASSUME NEW left \in Seq(Nat), NEW right \in Seq(Nat),
         NEW n \in Nat, n <= Len(left), n <= Len(right)
  PROVE  SubSeq(left, 1, n) = SubSeq(right, 1, n) <=> AgreeFor(left, right, n)
<1>1. /\ SubSeq(left, 1, n) \in Seq(Nat) /\ Len(SubSeq(left, 1, n)) = n
      /\ \A i \in 1 .. n : SubSeq(left, 1, n)[i] = left[i]
  OBVIOUS
<1>2. /\ SubSeq(right, 1, n) \in Seq(Nat) /\ Len(SubSeq(right, 1, n)) = n
      /\ \A i \in 1 .. n : SubSeq(right, 1, n)[i] = right[i]
  OBVIOUS
<1>3. (\A i \in 1 .. n : SubSeq(left, 1, n)[i] = SubSeq(right, 1, n)[i])
        => SubSeq(left, 1, n) = SubSeq(right, 1, n)
  BY <1>1, <1>2, SeqEqual
<1> QED BY <1>1, <1>2, <1>3 DEF AgreeFor

LEMMA BeforeIs ==
  ASSUME NEW left \in Seq(Nat), NEW right \in Seq(Nat)
  PROVE  ContextBefore(left, right) <=>
           \E n \in Nat : /\ n <= Len(left) /\ n < Len(right) /\ AgreeFor(left, right, n)
                          /\ n = Len(left) \/ left[n + 1] < right[n + 1]
<1>1. Len(left) \in Nat /\ Len(right) \in Nat
  OBVIOUS
<1>2. \A n \in Nat : n <= Len(left) /\ n < Len(right) =>
        (SubSeq(left, 1, n) = SubSeq(right, 1, n) <=> AgreeFor(left, right, n))
  <2> SUFFICES ASSUME NEW n \in Nat, n <= Len(left), n < Len(right)
               PROVE  SubSeq(left, 1, n) = SubSeq(right, 1, n) <=> AgreeFor(left, right, n)
    OBVIOUS
  <2>1. n <= Len(right)
    BY <1>1
  <2> QED BY <2>1, FrontsAgree
<1> QED BY <1>1, <1>2 DEF ContextBefore

LEMMA BeforeIsIrreflexive ==
  ASSUME NEW c \in Seq(Nat)
  PROVE  ~ ContextBefore(c, c)
<1>1. Len(c) \in Nat
  OBVIOUS
<1>2. \A n \in Nat : n < Len(c) => c[n + 1] \in Nat
  OBVIOUS
<1> QED BY <1>1, <1>2, BeforeIs

LEMMA BeforeIsTransitive ==
  ASSUME NEW a \in Seq(Nat), NEW b \in Seq(Nat), NEW c \in Seq(Nat),
         ContextBefore(a, b), ContextBefore(b, c)
  PROVE  ContextBefore(a, c)
<1>1. /\ Len(a) \in Nat /\ Len(b) \in Nat /\ Len(c) \in Nat
      /\ \A i \in 1 .. Len(a) : a[i] \in Nat
      /\ \A i \in 1 .. Len(b) : b[i] \in Nat
      /\ \A i \in 1 .. Len(c) : c[i] \in Nat
  OBVIOUS
<1>2. PICK m \in Nat : /\ m <= Len(a) /\ m < Len(b) /\ AgreeFor(a, b, m)
                       /\ m = Len(a) \/ a[m + 1] < b[m + 1]
  BY BeforeIs
<1>3. PICK n \in Nat : /\ n <= Len(b) /\ n < Len(c) /\ AgreeFor(b, c, n)
                       /\ n = Len(b) \/ b[n + 1] < c[n + 1]
  BY BeforeIs
<1>4. CASE m < n
  <2>1. AgreeFor(a, c, m) /\ m <= Len(a) /\ m < Len(c)
    BY <1>2, <1>3, <1>4, <1>1 DEF AgreeFor
  <2>2. m + 1 \in 1 .. n /\ b[m + 1] = c[m + 1]
    BY <1>3, <1>4 DEF AgreeFor
  <2>3. m = Len(a) \/ a[m + 1] < c[m + 1]
    BY <1>2, <2>2
  <2> QED BY <2>1, <2>3, BeforeIs
<1>5. CASE m = n
  <2>1. AgreeFor(a, c, m) /\ m <= Len(a) /\ m < Len(c)
    BY <1>2, <1>3, <1>5, <1>1 DEF AgreeFor
  <2>2. m # Len(a) => a[m + 1] < b[m + 1] /\ b[m + 1] < c[m + 1]
    BY <1>1, <1>2, <1>3, <1>5
  <2>3. m # Len(a) => m + 1 \in 1 .. Len(a) /\ m + 1 \in 1 .. Len(b) /\ m + 1 \in 1 .. Len(c)
    BY SMTT(30), <1>1, <1>2, <2>1
  <2>4. m # Len(a) => a[m + 1] < c[m + 1]
    BY SMTT(30), <1>1, <2>2, <2>3
  <2> QED BY <2>1, <2>4, BeforeIs
<1>6. CASE n < m
  <2>1. AgreeFor(a, c, n) /\ n <= Len(a) /\ n < Len(c)
    BY SMTT(30), <1>2, <1>3, <1>6, <1>1 DEF AgreeFor
  <2>2. n + 1 \in 1 .. m /\ a[n + 1] = b[n + 1] /\ n # Len(b)
    BY <1>1, <1>2, <1>6 DEF AgreeFor
  <2>3. a[n + 1] < c[n + 1]
    BY <1>3, <2>2
  <2> QED BY <2>1, <2>3, BeforeIs
<1> QED BY <1>4, <1>5, <1>6

LEMMA BeforeIsTotal ==
  ASSUME NEW a \in Seq(Nat), NEW b \in Seq(Nat), a # b
  PROVE  ContextBefore(a, b) \/ ContextBefore(b, a)
<1> DEFINE Ends(n) == n = Len(a) \/ n = Len(b) \/ a[n + 1] # b[n + 1]
           E == {n \in Nat : n <= Len(a) /\ n <= Len(b) /\ Ends(n)}
<1>1. /\ Len(a) \in Nat /\ Len(b) \in Nat
      /\ \A i \in 1 .. Len(a) : a[i] \in Nat
      /\ \A i \in 1 .. Len(b) : b[i] \in Nat
  OBVIOUS
<1>2. E \in SUBSET Nat /\ E # {}
  <2>1. Len(a) \in E \/ Len(b) \in E
    BY <1>1
  <2> QED BY <2>1
<1> HIDE DEF E
<1>3. PICK n \in E : \A m \in E : n <= m
  BY <1>2, Numbers!NatHasMin
<1>4. n \in Nat /\ n <= Len(a) /\ n <= Len(b) /\ Ends(n)
  BY <1>3 DEF E
<1>5. AgreeFor(a, b, n)
  <2> SUFFICES ASSUME NEW i \in 1 .. n PROVE a[i] = b[i]
    BY DEF AgreeFor
  <2>1. i - 1 \in Nat /\ i - 1 < n /\ i - 1 < Len(a) /\ i - 1 < Len(b) /\ (i - 1) + 1 = i
    BY <1>1, <1>4
  <2>2. i - 1 \notin E
    BY <1>3, <1>4, <2>1
  <2> QED BY <2>1, <2>2, <1>1 DEF E
<1>6. AgreeFor(b, a, n)
  BY <1>5 DEF AgreeFor
<1>7. CASE n = Len(a) /\ n = Len(b)
  <2>1. a = b
    BY <1>5, <1>7, SeqEqual DEF AgreeFor
  <2> QED BY <2>1
<1>8. CASE n = Len(a) /\ n # Len(b)
  <2>1. n < Len(b)
    BY <1>1, <1>4, <1>8
  <2> QED BY <1>4, <1>5, <1>8, <2>1, BeforeIs
<1>9. CASE n # Len(a) /\ n = Len(b)
  <2>1. n < Len(a)
    BY <1>1, <1>4, <1>9
  <2> QED BY <1>4, <1>6, <1>9, <2>1, BeforeIs
<1>10. CASE n # Len(a) /\ n # Len(b)
  <2>1. n < Len(a) /\ n < Len(b) /\ a[n + 1] # b[n + 1]
    BY <1>1, <1>4, <1>10
  <2>2. n + 1 \in 1 .. Len(a) /\ n + 1 \in 1 .. Len(b)
    BY <1>1, <1>4, <2>1
  <2>3. a[n + 1] \in Nat /\ b[n + 1] \in Nat
    BY <1>1, <2>2
  <2>4. a[n + 1] < b[n + 1] \/ b[n + 1] < a[n + 1]
    BY <2>1, <2>3
  <2> QED BY <1>4, <1>5, <1>6, <2>1, <2>4, BeforeIs
<1> QED BY <1>7, <1>8, <1>9, <1>10

-----------------------------------------------------------------------------
(* The stable sort lists every observation, in the order of the contexts.  *)
Ascends(list) ==
  \A k, l \in 1 .. Len(list) : k < l =>
    \/ ContextBefore(list[k].context, list[l].context)
    \/ list[k].context = list[l].context

LEMMA ContextType ==
  ASSUME NEW o \in Observation
  PROVE  o.context \in Seq(Nat)
<1>1. o.context \in Seq(Tokens)
  BY ContextsAreTokens DEF Observation
<1> DEFINE c == o.context
<1>2. Len(c) \in Nat /\ c = [i \in 1 .. Len(c) |-> c[i]] /\ \A i \in 1 .. Len(c) : c[i] \in Tokens
  BY <1>1
<1>3. \A i \in 1 .. Len(c) : c[i] \in Nat
  BY <1>2, TokensAssumption
<1> HIDE DEF c
<1>4. c \in Seq(Nat)
  BY <1>2, <1>3
<1> QED BY <1>4 DEF c

LEMMA SortedIs ==
  ASSUME NEW obs \in Seq(Observation)
  PROVE  /\ SortedByContext(obs) \in Seq(Observation)
         /\ ToSet(SortedByContext(obs)) = ToSet(obs)
         /\ Ascends(SortedByContext(obs))
<1> DEFINE S == DOMAIN obs
           Before(i, j) == \/ ContextBefore(obs[i].context, obs[j].context)
                           \/ obs[i].context = obs[j].context /\ i < j
           preceding == [j \in S |-> {i \in S : Before(i, j)}]
           order == OrderOf(S, preceding)
           sorted == SortedByContext(obs)
<1>1. S = 1 .. Len(obs) /\ Len(obs) \in Nat /\ \A i \in S : obs[i].context \in Seq(Nat)
  BY ContextType
<1>2. IsFiniteSet(S) /\ Cardinality(S) = Len(obs)
  <2> DEFINE m == Len(obs)
  <2>1. m \in Nat /\ S = 1 .. m
    BY <1>1
  <2> HIDE DEF m, S
  <2>2. IsFiniteSet(1 .. m) /\ Cardinality(1 .. m) = m
    BY <2>1, FS_Interval
  <2> QED BY <2>1, <2>2 DEF m
<1>3. sorted = [k \in DOMAIN order |-> obs[order[k]]]
  BY DEF SortedByContext, InOrder
<1>4. IsOrder(S, preceding)
  <2>1. preceding \in [S -> SUBSET S]
    OBVIOUS
  <2>2. \A i, j \in S : i \in preceding[j] <=> Before(i, j)
    OBVIOUS
  <2>3. \A i \in S : ~ Before(i, i)
    BY <1>1, BeforeIsIrreflexive
  <2>4. \A i, j, k \in S : Before(i, j) /\ Before(j, k) => Before(i, k)
    <3> SUFFICES ASSUME NEW i \in S, NEW j \in S, NEW k \in S, Before(i, j), Before(j, k)
                 PROVE  Before(i, k)
      OBVIOUS
    <3> DEFINE a == obs[i].context
               b == obs[j].context
               c == obs[k].context
    <3>1. a \in Seq(Nat) /\ b \in Seq(Nat) /\ c \in Seq(Nat)
      BY <1>1
    <3>2. ContextBefore(a, b) /\ ContextBefore(b, c) => ContextBefore(a, c)
      BY <3>1, BeforeIsTransitive
    <3>3. i \in Nat /\ j \in Nat /\ k \in Nat
      BY <1>1
    <3>4. i < j /\ j < k => i < k
      BY <3>3
    <3> QED BY <3>2, <3>4
  <2>5. \A i, j \in S : i = j \/ Before(i, j) \/ Before(j, i)
    <3> SUFFICES ASSUME NEW i \in S, NEW j \in S, i # j PROVE Before(i, j) \/ Before(j, i)
      OBVIOUS
    <3>1. CASE obs[i].context = obs[j].context
      <4>1. i < j \/ j < i
        BY <1>1
      <4> QED BY <3>1, <4>1
    <3>2. CASE obs[i].context # obs[j].context
      BY <1>1, <3>2, BeforeIsTotal
    <3> QED BY <3>1, <3>2
  <2> HIDE DEF preceding, Before
  <2> QED BY <2>1, <2>2, <2>3, <2>4, <2>5 DEF IsOrder
<1> HIDE DEF order
<1>5. /\ order \in Seq(S) /\ Len(order) = Len(obs)
      /\ \A k, l \in 1 .. Len(order) : k < l => order[k] \in preceding[order[l]]
      /\ \A i \in S : \E k \in 1 .. Len(order) : order[k] = i
  <2> HIDE DEF S, preceding
  <2> QED BY <1>2, <1>4, OrderIs DEF order
<1> HIDE DEF sorted
<1>6. /\ sorted \in Seq(Observation) /\ Len(sorted) = Len(obs)
      /\ \A k \in 1 .. Len(obs) : order[k] \in S /\ sorted[k] = obs[order[k]]
  <2>1. \A k \in 1 .. Len(obs) : order[k] \in S /\ obs[order[k]] \in Observation
    BY SMTT(30), <1>5
  <2>2. DOMAIN order = 1 .. Len(obs)
    BY <1>5
  <2>3. sorted = [k \in 1 .. Len(obs) |-> obs[order[k]]]
    BY <1>3, <2>2
  <2> QED BY <1>1, <2>1, <2>3
<1>7. ToSet(sorted) = ToSet(obs)
  <2>1. ToSet(sorted) = {sorted[k] : k \in 1 .. Len(obs)}
    BY <1>6 DEF ToSet
  <2>2. ToSet(obs) = {obs[i] : i \in S}
    BY DEF ToSet
  <2>3. \A i \in S : \E k \in 1 .. Len(obs) : sorted[k] = obs[i]
    BY SMTT(30), <1>5, <1>6
  <2> QED BY <1>6, <2>1, <2>2, <2>3
<1>8. Ascends(sorted)
  <2> SUFFICES ASSUME NEW k \in 1 .. Len(obs), NEW l \in 1 .. Len(obs), k < l
               PROVE  \/ ContextBefore(sorted[k].context, sorted[l].context)
                      \/ sorted[k].context = sorted[l].context
    BY <1>6 DEF Ascends
  <2>1. order[k] \in preceding[order[l]]
    BY <1>5
  <2>2. Before(order[k], order[l])
    BY <1>6, <2>1
  <2> QED BY <1>6, <2>2
<1> QED BY <1>6, <1>7, <1>8 DEF sorted

-----------------------------------------------------------------------------
(* The loop that keeps equal neighbours once.                              *)
CanonicalRound(none, same, kept, o) ==
  IF kept.error # "none" THEN kept
  ELSE IF Len(o.context) > MaxContext THEN [kept EXCEPT !.error = "FormatLimit"]
  ELSE IF kept.obs # << >> /\ Last(kept.obs).context = o.context
       THEN IF Last(kept.obs) = o THEN kept
            ELSE [kept EXCEPT !.error = "ConflictingContext"]
  ELSE [kept EXCEPT !.obs = Append(@, o)]

CanonicalLoop ==
  INSTANCE RankedInsert_proofs WITH Capacity <- 0, Before <- LAMBDA x, y : x < y,
    Step <- CanonicalRound

NoneKept == [obs |-> << >>, error |-> "none"]

LEMMA CanonicalLoops ==
  ASSUME NEW obs
  PROVE  Canonical(obs) = CanonicalLoop!Folded(0, 0, NoneKept, SortedByContext(obs))
BY DEF Canonical, CanonicalLoop!Folded, CanonicalRound, NoneKept, FoldLeft, MapThenFoldSet, Max,
       CanonicalLoop!MapThenFoldSet, CanonicalLoop!Greatest

Conflict(seen) == \E a, b \in seen : a.context = b.context /\ a # b

StrictlyAscends(list) ==
  \A i, j \in DOMAIN list : i < j => ContextBefore(list[i].context, list[j].context)

FitsContext(seen) == \A o \in seen : Len(o.context) <= MaxContext

(* What is kept of the first n observations of a sorted list.              *)
KeptOf(list, n) ==
  {kept \in [obs : Seq(Observation), error : {"none", "FormatLimit", "ConflictingContext"}] :
     /\ kept.error = "none" =>
          /\ ToSet(kept.obs) = {list[k] : k \in 1 .. n}
          /\ StrictlyAscends(kept.obs)
          /\ FitsContext(ToSet(kept.obs))
          /\ n > 0 => kept.obs # << >> /\ Last(kept.obs) = list[n]
     /\ kept.error = "ConflictingContext" => Conflict(ToSet(list))}

LEMMA CanonicalRoundKeeps ==
  ASSUME NEW list \in Seq(Observation), Ascends(list), NEW n \in 1 .. Len(list),
         NEW kept \in KeptOf(list, n - 1)
  PROVE  CanonicalRound(0, 0, kept, list[n]) \in KeptOf(list, n)
<1> DEFINE o == list[n]
           next == CanonicalRound(0, 0, kept, o)
<1>1. /\ n \in Nat /\ n - 1 \in Nat /\ o \in Observation /\ Len(list) \in Nat
      /\ kept \in [obs : Seq(Observation), error : {"none", "FormatLimit", "ConflictingContext"}]
  BY DEF KeptOf
<1>2. CASE kept.error # "none"
  <2>1. next = kept
    BY <1>2 DEF CanonicalRound
  <2> QED BY <1>1, <1>2, <2>1 DEF KeptOf
<1>3. CASE kept.error = "none" /\ Len(o.context) > MaxContext
  <2>1. next = [kept EXCEPT !.error = "FormatLimit"]
    BY <1>3 DEF CanonicalRound
  <2> QED BY <1>1, <2>1 DEF KeptOf
<1>4. CASE kept.error = "none" /\ ~ Len(o.context) > MaxContext
  <2> DEFINE obs == kept.obs
  <2>1. /\ obs \in Seq(Observation) /\ Len(obs) \in Nat /\ DOMAIN obs = 1 .. Len(obs)
        /\ ToSet(obs) = {list[k] : k \in 1 .. n - 1}
        /\ StrictlyAscends(obs)
        /\ FitsContext(ToSet(obs))
        /\ n - 1 > 0 => obs # << >> /\ Last(obs) = list[n - 1]
    BY <1>1, <1>4 DEF KeptOf
  <2>2. obs # << >> => /\ n - 1 \in 1 .. Len(list) /\ n - 1 < n
                       /\ Last(obs) = list[n - 1] /\ Len(obs) \in DOMAIN obs
    <3> SUFFICES ASSUME obs # << >>
                 PROVE  /\ n - 1 \in 1 .. Len(list) /\ n - 1 < n
                        /\ Last(obs) = list[n - 1] /\ Len(obs) \in DOMAIN obs
      OBVIOUS
    <3>1. Len(obs) \in DOMAIN obs
      <4>1. Len(obs) # 0
        BY <2>1
      <4> QED BY <2>1, <4>1
    <3>2. obs[Len(obs)] \in ToSet(obs)
      BY <3>1 DEF ToSet
    <3>3. PICK k \in 1 .. n - 1 : TRUE
      BY <2>1, <3>2
    <3>4. n - 1 > 0
      BY <1>1, <3>3
    <3> QED BY <1>1, <2>1, <3>1, <3>4
  <2>3. \A k \in 1 .. n : k \in 1 .. n - 1 \/ k = n
    BY <1>1
  <2>4. {list[k] : k \in 1 .. n} = ToSet(obs) \cup {o}
    <3>1. n \in 1 .. n /\ \A k \in 1 .. n - 1 : k \in 1 .. n
      BY <1>1
    <3> QED BY <2>1, <2>3, <3>1
  <2> HIDE DEF o
  <2>5. CASE obs # << >> /\ Last(obs).context = o.context /\ Last(obs) = o
    <3>1. next = kept
      BY <1>4, <2>5 DEF CanonicalRound
    <3>2. Last(obs) \in ToSet(obs)
      BY <2>2, <2>5 DEF Last, ToSet
    <3>3. ToSet(obs) \cup {o} = ToSet(obs)
      BY <2>5, <3>2
    <3> QED BY <1>1, <1>4, <2>1, <2>4, <2>5, <3>1, <3>3 DEF KeptOf, o
  <2>6. CASE obs # << >> /\ Last(obs).context = o.context /\ Last(obs) # o
    <3>1. next = [kept EXCEPT !.error = "ConflictingContext"]
      BY <1>4, <2>6 DEF CanonicalRound
    <3>2. list[n - 1] \in ToSet(list) /\ o \in ToSet(list)
      <4>1. n - 1 \in DOMAIN list /\ n \in DOMAIN list
        BY <1>1, <2>2, <2>6
      <4> QED BY <4>1 DEF ToSet, o
    <3>3. Conflict(ToSet(list))
      BY <2>2, <2>6, <3>2 DEF Conflict
    <3>4. next \in KeptOf(list, n)
      BY <1>1, <3>1, <3>3 DEF KeptOf
    <3> QED BY <3>4 DEF o
  <2>7. CASE ~ (obs # << >> /\ Last(obs).context = o.context)
    <3> DEFINE more == Append(obs, o)
    <3>1. next = [kept EXCEPT !.obs = Append(obs, o)]
      BY <1>4, <2>7 DEF CanonicalRound
    <3>2. /\ more \in Seq(Observation) /\ Len(more) = Len(obs) + 1 /\ more # << >>
          /\ DOMAIN more = 1 .. Len(obs) + 1
          /\ more[Len(obs) + 1] = o /\ \A i \in 1 .. Len(obs) : more[i] = obs[i]
      <4>1. o \in Observation
        BY <1>1 DEF o
      <4> QED BY <2>1, <4>1, AppendProperties
    <3> HIDE DEF more
    <3>3. Last(more) = o
      BY <3>2 DEF Last
    <3>4. ToSet(more) = ToSet(obs) \cup {o}
      <4>1. \A i \in 1 .. Len(obs) + 1 : i \in 1 .. Len(obs) \/ i = Len(obs) + 1
        BY <2>1
      <4>2. Len(obs) + 1 \in 1 .. Len(obs) + 1 /\ \A i \in 1 .. Len(obs) : i \in 1 .. Len(obs) + 1
        BY <2>1
      <4> QED BY <2>1, <3>2, <4>1, <4>2 DEF ToSet
    <3>5. \A i \in DOMAIN obs : ContextBefore(obs[i].context, o.context)
      <4> SUFFICES ASSUME NEW i \in DOMAIN obs PROVE ContextBefore(obs[i].context, o.context)
        OBVIOUS
      <4> DEFINE b == list[n - 1].context
                 c == o.context
      <4>1. obs # << >>
        OBVIOUS
      <4>2. obs[Len(obs)] = list[n - 1] /\ Len(obs) \in DOMAIN obs
        BY <2>2, <4>1 DEF Last
      <4>3. n - 1 \in 1 .. Len(list) /\ n \in 1 .. Len(list) /\ n - 1 < n
        BY <2>2, <4>1
      <4>4. ContextBefore(b, c) \/ b = c
        BY <4>3 DEF Ascends, o
      <4>5. b # c
        BY <2>2, <2>7, <4>1
      <4>6. obs[i].context \in Seq(Nat) /\ b \in Seq(Nat) /\ c \in Seq(Nat)
        <5>1. obs[i] \in Observation /\ list[n - 1] \in Observation /\ list[n] \in Observation
          BY <2>1, <4>3
        <5> QED BY <5>1, ContextType DEF o
      <4>7. CASE i = Len(obs)
        BY <4>2, <4>4, <4>5, <4>7
      <4>8. CASE i # Len(obs)
        <5>1. i < Len(obs)
          BY <2>1, <4>8
        <5>2. ContextBefore(obs[i].context, b)
          BY <2>1, <4>2, <5>1 DEF StrictlyAscends
        <5> HIDE DEF b, c
        <5> QED BY <4>4, <4>5, <4>6, <5>2, BeforeIsTransitive DEF c
      <4> QED BY <4>7, <4>8
    <3>6. StrictlyAscends(more)
      <4> SUFFICES ASSUME NEW i \in DOMAIN more, NEW j \in DOMAIN more, i < j
                   PROVE  ContextBefore(more[i].context, more[j].context)
        BY DEF StrictlyAscends
      <4>1. i \in DOMAIN obs /\ more[i] = obs[i]
        <5>1. i \in 1 .. Len(obs)
          BY <2>1, <3>2
        <5> QED BY <2>1, <3>2, <5>1
      <4>2. CASE j = Len(obs) + 1
        BY <3>2, <3>5, <4>1, <4>2
      <4>3. CASE j # Len(obs) + 1
        <5>1. j \in 1 .. Len(obs)
          BY <2>1, <3>2, <4>3
        <5> QED BY <2>1, <3>2, <4>1, <5>1 DEF StrictlyAscends
      <4> QED BY <4>2, <4>3
    <3>7. /\ next.obs = more /\ next.error = "none"
          /\ next \in [obs : Seq(Observation), error : {"none", "FormatLimit", "ConflictingContext"}]
      BY <1>1, <1>4, <3>1, <3>2 DEF more
    <3> HIDE DEF next
    <3>8. more # << >> /\ Last(more) = list[n]
      BY <3>2, <3>3 DEF o
    <3>9. ToSet(more) = {list[k] : k \in 1 .. n}
      BY <2>4, <3>4
    <3>10. FitsContext(ToSet(more))
      <4>1. \A x \in ToSet(obs) : Len(x.context) <= MaxContext
        BY <2>1 DEF FitsContext
      <4>2. Len(o.context) <= MaxContext
        <5>1. Len(o.context) \in Nat
          BY <1>1, ContextType DEF o
        <5> QED BY <1>4, <5>1, MaxContextAssumption DEF o
      <4> QED BY <3>4, <4>1, <4>2 DEF FitsContext
    <3>11. next \in KeptOf(list, n)
      BY <3>6, <3>7, <3>8, <3>9, <3>10 DEF KeptOf
    <3> QED BY <3>11 DEF next, o
  <2> QED BY <2>5, <2>6, <2>7
<1> QED BY <1>2, <1>3, <1>4 DEF o

(* What the canonical observations are, and when there are none.           *)
LEMMA CanonicalIs ==
  ASSUME NEW obs \in Seq(Observation)
  PROVE  LET canonical == Canonical(obs)
         IN  /\ canonical.obs \in Seq(Observation)
             /\ canonical.error \in {"none", "FormatLimit", "ConflictingContext"}
             /\ canonical.error = "none" => /\ ToSet(canonical.obs) = ToSet(obs)
                                            /\ StrictlyAscends(canonical.obs)
                                            /\ FitsContext(ToSet(canonical.obs))
             /\ canonical.error = "ConflictingContext" => Conflict(ToSet(obs))
<1> DEFINE list == SortedByContext(obs)
           canonical == Canonical(obs)
           V == [n \in 0 .. Len(list) |-> KeptOf(list, n)]
<1>1. list \in Seq(Observation) /\ ToSet(list) = ToSet(obs) /\ Ascends(list)
  BY SortedIs
<1> HIDE DEF list
<1>2. Len(list) \in Nat /\ \A n \in 0 .. Len(list) : V[n] = KeptOf(list, n)
  BY <1>1
<1>3. NoneKept \in V[0]
  <2>1. ToSet(<< >>) = {} /\ {list[k] : k \in 1 .. 0} = {}
    BY DEF ToSet
  <2>2. StrictlyAscends(<< >>)
    BY DEF StrictlyAscends
  <2>3. FitsContext(ToSet(<< >>))
    BY <2>1 DEF FitsContext
  <2>4. NoneKept \in KeptOf(list, 0)
    BY <2>1, <2>2, <2>3 DEF NoneKept, KeptOf
  <2> QED BY <1>2, <2>4
<1>4. \A n \in 1 .. Len(list) : \A v \in V[n - 1] : CanonicalRound(0, 0, v, list[n]) \in V[n]
  <2> SUFFICES ASSUME NEW n \in 1 .. Len(list), NEW v \in V[n - 1]
               PROVE  CanonicalRound(0, 0, v, list[n]) \in V[n]
    OBVIOUS
  <2>1. n \in 0 .. Len(list) /\ n - 1 \in 0 .. Len(list)
    BY <1>2
  <2>2. V[n] = KeptOf(list, n) /\ V[n - 1] = KeptOf(list, n - 1)
    BY <1>2, <2>1
  <2> HIDE DEF V
  <2> QED BY <1>1, <2>2, CanonicalRoundKeeps
<1> HIDE DEF V
<1>5. CanonicalLoop!Folded(0, 0, NoneKept, list) \in V[Len(list)]
  BY <1>1, <1>3, <1>4, CanonicalLoop!FoldKeeps
<1>6. canonical \in KeptOf(list, Len(list))
  <2>1. Len(list) \in 0 .. Len(list)
    BY <1>2
  <2> QED BY <1>2, <1>5, <2>1, CanonicalLoops DEF list
<1> HIDE DEF canonical
<1>7. {list[k] : k \in 1 .. Len(list)} = ToSet(list)
  BY <1>1 DEF ToSet
<1> QED BY <1>1, <1>6, <1>7 DEF KeptOf, canonical

(* In a strictly ascending list no two observations differ under one       *)
(* context.                                                                *)
LEMMA AscendingAgree ==
  ASSUME NEW list \in Seq(Observation), StrictlyAscends(list)
  PROVE  ~ Conflict(ToSet(list))
<1> SUFFICES ASSUME NEW i \in DOMAIN list, NEW j \in DOMAIN list,
                    list[i].context = list[j].context, list[i] # list[j]
             PROVE  FALSE
  BY DEF Conflict, ToSet
<1>1. i < j \/ j < i
  OBVIOUS
<1>2. ContextBefore(list[i].context, list[i].context)
  BY <1>1 DEF StrictlyAscends
<1> QED BY <1>2, ContextType, BeforeIsIrreflexive

-----------------------------------------------------------------------------
LEMMA DistanceType ==
  ASSUME NEW left \in Code, NEW right \in Code
  PROVE  Distance(left, right) \in 0 .. Cardinality(Bits)
<1>1. (left \ right) \cup (right \ left) \in SUBSET Bits
  BY DEF Code
<1> DEFINE between == (left \ right) \cup (right \ left)
<1> HIDE DEF between
<1>2. IsFiniteSet(between) /\ Cardinality(between) <= Cardinality(Bits)
  BY <1>1, BitsAssumption, FS_Subset DEF between
<1>3. Cardinality(between) \in Nat /\ Cardinality(Bits) \in Nat
  BY <1>2, BitsAssumption, FS_CardinalityType
<1> QED BY <1>2, <1>3 DEF Distance, between

-----------------------------------------------------------------------------
(* What the phases have filled in, and the types of the compiler's part.   *)
Begun ==
  /\ phase = "corpus" => observations = << >> /\ prototypes = << >>
  /\ phase \in {"corpus", "seed"} => members = << >> /\ paths = << >>

Types ==
  /\ corpus \in Corpora /\ config \in Configs
  /\ phase \in {"corpus", "seed", "paths", "done", "failed"}
  /\ observations \in Seq(Observation)
  /\ prototypes \in Seq(Code) /\ Len(prototypes) <= Len(observations)
  /\ passes \in 0 .. config.iterations
  /\ members \in Seq(SUBSET DOMAIN observations)
  /\ children \in Seq(Nat)
  /\ result.error \in
       {"none", "InvalidConfiguration", "EmptyCorpus", "ConflictingContext", "FormatLimit",
        "SelfValidation"}
  /\ (result.error # "none") = (phase = "failed")
  /\ result = [artifact |-> result.artifact, error |-> result.error]

(* The canonical observations, once they are taken.                        *)
Canonicalized ==
  /\ phase \notin {"corpus", "failed"} =>
       /\ ToSet(observations) = ToSet(corpus) /\ StrictlyAscends(observations)
       /\ FitsContext(ToSet(observations))
  /\ result.error = "ConflictingContext" => Conflict(ToSet(corpus))

(* The tree of the paths as it grows: the root's path is <<0>>, and every  *)
(* other one adds to the path of an earlier region a slot that region has  *)
(* counted.                                                                *)
Rooted ==
  \A c \in DOMAIN paths :
    /\ c = 1 => paths[c] = <<0>>
    /\ c > 1 => \E p \in 1 .. c - 1 : \E slot \in 1 .. children[p] :
                  paths[c] = Append(paths[p], slot)

Tree ==
  /\ paths \in Seq(Seq(Nat)) /\ Len(paths) <= Len(prototypes)
  /\ phase \in {"paths", "done"} => Len(children) = Len(prototypes)
  /\ paths # << >> => Len(children) = Len(prototypes)
  /\ IsInjective(paths)
  /\ \A c \in DOMAIN paths : Len(paths[c]) \in 1 .. MaxRouteDepth
  /\ Rooted

IInv == Types /\ Begun /\ Canonicalized /\ Tree

LEMMA ConfigFacts ==
  ASSUME Types
  PROVE  /\ config.max_regions \in Nat /\ config.iterations \in Nat
         /\ config.overlap_margin \in Nat /\ config.max_region_emissions \in Nat
         /\ config.include_exact \in BOOLEAN
         /\ RegionCount \in 0 .. Len(observations)
<1>1. config \in Config
  BY ConfigsAssumption DEF Types
<1>2. /\ config.max_regions \in Nat /\ config.iterations \in Nat
      /\ config.overlap_margin \in Nat /\ config.max_region_emissions \in Nat
      /\ config.include_exact \in BOOLEAN
  BY <1>1 DEF Config
<1>3. Len(observations) \in Nat
  BY DEF Types
<1> QED BY <1>2, <1>3 DEF RegionCount, Smaller

(* The distances the induction of the prototypes works with.               *)
LEMMA SignatureFacts ==
  ASSUME Types, NEW i \in DOMAIN observations
  PROVE  /\ SignatureAt(i) \in Code
         /\ observations[i] \in Observation
<1>1. observations[i] \in Observation
  BY DEF Types
<1>2. observations[i].context \in Contexts
  BY <1>1 DEF Observation
<1> QED BY <1>1, <1>2, SignatureOfAssumption DEF SignatureAt

LEMMA NearestIs ==
  ASSUME Types, NEW i \in DOMAIN observations, NEW among \in Seq(Code), among # << >>
  PROVE  /\ NearestDistance(i, among) \in 0 .. Cardinality(Bits)
         /\ \A c \in DOMAIN among :
              NearestDistance(i, among) <= Distance(SignatureAt(i), among[c])
         /\ \E c \in DOMAIN among :
              NearestDistance(i, among) = Distance(SignatureAt(i), among[c])
<1> DEFINE S == {Distance(SignatureAt(i), among[c]) : c \in DOMAIN among}
<1>1. SignatureAt(i) \in Code /\ \A c \in DOMAIN among : among[c] \in Code
  BY SignatureFacts
<1>2. \A c \in DOMAIN among : Distance(SignatureAt(i), among[c]) \in 0 .. Cardinality(Bits)
  BY <1>1, DistanceType
<1>3. Cardinality(Bits) \in Nat
  BY BitsAssumption, FS_CardinalityType
<1>4. S \in SUBSET Nat /\ S # {}
  <2>1. 1 \in DOMAIN among
    <3>1. DOMAIN among = 1 .. Len(among) /\ Len(among) \in Nat /\ Len(among) # 0
      OBVIOUS
    <3> QED BY <3>1
  <2> QED BY <1>2, <1>3, <2>1
<1>5. Min(S) \in S /\ \A y \in S : Min(S) <= y
  BY <1>4, MinIs
<1>6. NearestDistance(i, among) = Min(S)
  BY DEF NearestDistance
<1> QED BY <1>2, <1>5, <1>6

LEMMA FarthestIs ==
  ASSUME Types, prototypes # << >>, observations # << >>
  PROVE  Farthest \in DOMAIN observations
<1> DEFINE S == {NearestDistance(i, prototypes) : i \in DOMAIN observations}
           far == {i \in DOMAIN observations : NearestDistance(i, prototypes) = Max(S)}
<1>1. DOMAIN observations \in SUBSET Nat /\ 1 \in DOMAIN observations
  <2>1. observations \in Seq(Observation)
    BY DEF Types
  <2>2. /\ DOMAIN observations = 1 .. Len(observations)
        /\ Len(observations) \in Nat /\ Len(observations) # 0
    BY <2>1
  <2> QED BY <2>2
<1>2. \A i \in DOMAIN observations : NearestDistance(i, prototypes) \in 0 .. Cardinality(Bits)
  BY NearestIs DEF Types
<1>3. Cardinality(Bits) \in Nat
  BY BitsAssumption, FS_CardinalityType
<1>4. S \in SUBSET (0 .. Cardinality(Bits)) /\ S # {}
  BY <1>1, <1>2
<1>5. Max(S) \in S
  BY <1>3, <1>4, MaxIs
<1>6. far \in SUBSET Nat /\ far # {}
  <2>1. far \in SUBSET Nat
    BY <1>1
  <2>2. \E i \in DOMAIN observations : NearestDistance(i, prototypes) = Max(S)
    BY <1>5
  <2> QED BY <2>1, <2>2
<1>7. Min(far) \in far
  BY <1>6, MinIs
<1> QED BY <1>7 DEF Farthest

(* The region a path is derived from: an earlier one with room below.      *)
LEMMA ParentIs ==
  ASSUME Types, Tree, NEW c \in DOMAIN prototypes, c = Len(paths) + 1, c > 1
  PROVE  ParentOf(c) \in DOMAIN paths /\ Len(paths[ParentOf(c)]) < MaxRouteDepth
<1> DEFINE room == {p \in 1 .. c - 1 : Len(paths[p]) < MaxRouteDepth}
           to == [p \in room |-> Distance(prototypes[c], prototypes[p])]
           near == {p \in room : \A q \in room : to[p] <= to[q]}
<1>1. /\ Len(paths) \in Nat /\ DOMAIN paths = 1 .. c - 1 /\ c \in Nat
      /\ DOMAIN prototypes = 1 .. Len(prototypes) /\ Len(prototypes) \in Nat
  BY DEF Types, Tree
<1>2. 1 \in room
  <2>1. 1 \in DOMAIN paths
    BY <1>1
  <2>3. paths[1] = <<0>>
    BY <2>1 DEF Tree, Rooted
  <2>2. Len(<<0>>) = 1
    OBVIOUS
  <2> QED BY <1>1, <2>1, <2>2, <2>3, DepthAssumption
<1>3. \A p \in room : Distance(prototypes[c], prototypes[p]) \in Nat
  <2> SUFFICES ASSUME NEW p \in room PROVE Distance(prototypes[c], prototypes[p]) \in Nat
    OBVIOUS
  <2>1. p \in DOMAIN prototypes
    BY <1>1
  <2>2. prototypes[c] \in Code /\ prototypes[p] \in Code
    BY <2>1 DEF Types
  <2> QED BY <2>2, DistanceType, BitsAssumption, FS_CardinalityType
<1>4. to \in [room -> Nat] /\ room # {}
  BY <1>2, <1>3
<1>5. \E p \in room : \A q \in room : to[p] <= to[q]
  <2> HIDE DEF to, room
  <2> QED BY <1>4, SomeNearest
<1>6. near \in SUBSET Nat /\ near # {}
  <2>1. room \in SUBSET Nat
    BY <1>1
  <2> HIDE DEF to, room
  <2> QED BY <1>5, <2>1
<1>7. Min(near) \in near
  BY <1>6, MinIs
<1>8. ParentOf(c) = Min(near)
  BY DEF ParentOf
<1> QED BY <1>1, <1>7, <1>8

-----------------------------------------------------------------------------
(* A path added under a region is a new one, one slot longer.              *)
LEMMA AppendedPath ==
  ASSUME NEW path \in Seq(Nat), NEW slot \in Nat
  PROVE  /\ Append(path, slot) \in Seq(Nat)
         /\ Len(Append(path, slot)) = Len(path) + 1
         /\ Front(Append(path, slot)) = path
         /\ \A other \in Seq(Nat) : \A s \in Nat :
              Append(path, slot) = Append(other, s) => path = other /\ slot = s
<1>1. Append(path, slot) \in Seq(Nat) /\ Len(Append(path, slot)) = Len(path) + 1
  OBVIOUS
<1>2. \A other \in Seq(Nat) : \A s \in Nat :
        Append(path, slot) = Append(other, s) => path = other /\ slot = s
  BY AppendInjective
<1>3. SubSeq(Append(path, slot), 1, Len(path)) = path
  OBVIOUS
<1>4. Len(Append(path, slot)) - 1 = Len(path)
  BY <1>1
<1> QED BY <1>1, <1>2, <1>3, <1>4 DEF Front

-----------------------------------------------------------------------------
(* The steps of a compilation.                                             *)
LEMMA InitIInv == Init => IInv
<1> SUFFICES ASSUME Init PROVE IInv
  OBVIOUS
<1>1. config.iterations \in Nat
  BY ConfigsAssumption DEF Init, Config
<1>2. Types
  BY <1>1 DEF Init, Types
<1>3. Begun /\ Canonicalized
  BY DEF Init, Begun, Canonicalized
<1>4. Tree
  BY DEF Init, Tree, Rooted, IsInjective
<1> QED BY <1>2, <1>3, <1>4 DEF IInv

LEMMA FailStep ==
  ASSUME IInv, NEW error \in {"InvalidConfiguration", "EmptyCorpus", "ConflictingContext",
                              "FormatLimit", "SelfValidation"},
         error = "ConflictingContext" => Conflict(ToSet(corpus)),
         Fail(error),
         UNCHANGED <<corpus, config, observations, prototypes, passes, members, paths, children>>
  PROVE  IInv'
<1>1. result' = [artifact |-> result.artifact, error |-> error] /\ phase' = "failed"
  BY DEF Fail, IInv, Types
<1>2. result'.error = error /\ result' = [artifact |-> result'.artifact, error |-> result'.error]
  BY <1>1
<1>3. Types'
  BY <1>1, <1>2 DEF IInv, Types
<1>4. Begun' /\ Canonicalized'
  BY <1>1, <1>2 DEF Begun, Canonicalized
<1>5. Tree'
  BY <1>1 DEF IInv, Tree, Rooted
<1> QED BY <1>3, <1>4, <1>5 DEF IInv

LEMMA CanonicalizeStep == IInv /\ Canonicalize => IInv'
<1> SUFFICES ASSUME IInv, Canonicalize PROVE IInv'
  OBVIOUS
<1> DEFINE canonical == Canonical(corpus)
           refusal == Refusal(canonical)
<1>1. corpus \in Seq(Observation)
  BY CorporaAssumption DEF IInv, Types
<1>2. /\ canonical.obs \in Seq(Observation)
      /\ canonical.error \in {"none", "FormatLimit", "ConflictingContext"}
      /\ canonical.error = "none" => /\ ToSet(canonical.obs) = ToSet(corpus)
                                     /\ StrictlyAscends(canonical.obs)
                                     /\ FitsContext(ToSet(canonical.obs))
      /\ canonical.error = "ConflictingContext" => Conflict(ToSet(corpus))
  BY <1>1, CanonicalIs
<1> HIDE DEF canonical
<1>3. /\ phase = "corpus"
      /\ refusal # "none" => Fail(refusal) /\ UNCHANGED observations
      /\ refusal = "none" => observations' = canonical.obs /\ phase' = "seed" /\ UNCHANGED result
      /\ UNCHANGED <<corpus, config, prototypes, passes, members, paths, children>>
  BY DEF Canonicalize, canonical
<1>4. CASE refusal # "none"
  <2>1. /\ refusal \in {"InvalidConfiguration", "EmptyCorpus", "ConflictingContext", "FormatLimit"}
        /\ refusal = "ConflictingContext" => canonical.error = "ConflictingContext"
    BY <1>2, <1>4 DEF Refusal
  <2> HIDE DEF refusal
  <2> QED BY <1>2, <1>3, <1>4, <2>1, FailStep
<1>5. CASE refusal = "none"
  <2>1. canonical.error = "none"
    BY <1>5 DEF Refusal
  <2> HIDE DEF refusal
  <2>2. observations' = canonical.obs /\ phase' = "seed" /\ UNCHANGED result
    BY <1>3, <1>5
  <2>3. prototypes = << >> /\ members = << >> /\ paths = << >>
    BY <1>3 DEF IInv, Begun
  <2>4. Types'
    <3>1. Len(prototypes) <= Len(canonical.obs)
      BY <1>2, <2>3
    <3>2. members' \in Seq(SUBSET DOMAIN observations')
      BY <1>3, <2>3
    <3> QED BY <1>2, <1>3, <2>2, <2>3, <3>1, <3>2 DEF IInv, Types
  <2>5. Begun'
    BY <1>3, <2>2, <2>3 DEF Begun
  <2>6. Canonicalized'
    BY <1>2, <1>3, <2>1, <2>2 DEF IInv, Canonicalized
  <2>7. Tree'
    BY <1>3, <2>2, <2>3 DEF IInv, Tree, Rooted
  <2> QED BY <2>4, <2>5, <2>6, <2>7 DEF IInv
<1> QED BY <1>4, <1>5

LEMMA SeedStep == IInv /\ Seed => IInv'
<1> SUFFICES ASSUME IInv, Seed PROVE IInv'
  OBVIOUS
<1> DEFINE i == IF prototypes = << >> THEN 1 ELSE Farthest
<1>1. /\ phase = "seed" /\ Len(prototypes) < RegionCount
      /\ prototypes' = Append(prototypes, SignatureAt(i))
      /\ UNCHANGED <<corpus, config, phase, observations, passes, members, paths,
                     children, result>>
  BY DEF Seed
<1>2. Len(prototypes) + 1 <= Len(observations) /\ Len(prototypes) \in Nat /\ Len(observations) \in Nat
  <2>1. RegionCount \in 0 .. Len(observations)
    BY ConfigFacts DEF IInv
  <2>2. Len(prototypes) \in Nat /\ Len(observations) \in Nat
    BY DEF IInv, Types
  <2> QED BY <1>1, <2>1, <2>2
<1>3. i \in DOMAIN observations
  <2>1. 1 \in DOMAIN observations
    BY <1>2 DEF IInv, Types
  <2>2. observations # << >>
    BY <1>2
  <2> QED BY <2>1, <2>2, FarthestIs DEF IInv
<1> HIDE DEF i
<1>4. SignatureAt(i) \in Code
  BY <1>3, SignatureFacts DEF IInv
<1>5. prototypes' \in Seq(Code) /\ Len(prototypes') = Len(prototypes) + 1
  BY <1>1, <1>4 DEF IInv, Types
<1>6. Types'
  BY <1>1, <1>2, <1>5 DEF IInv, Types
<1>7. Begun' /\ Canonicalized'
  BY <1>1 DEF IInv, Begun, Canonicalized
<1>8. Tree'
  <2>1. paths = << >>
    BY <1>1 DEF IInv, Begun
  <2> QED BY <1>1, <1>5, <2>1 DEF IInv, Tree, Rooted
<1> QED BY <1>6, <1>7, <1>8 DEF IInv

LEMMA PassStep == IInv /\ Pass => IInv'
<1> SUFFICES ASSUME IInv, Pass PROVE IInv'
  OBVIOUS
<1>1. /\ phase = "seed" /\ passes < config.iterations
      /\ prototypes' = AfterPass /\ passes' = passes + 1
      /\ UNCHANGED <<corpus, config, phase, observations, members, paths, children, result>>
  BY DEF Pass
<1>2. AfterPass \in Seq(Code) /\ Len(AfterPass) = Len(prototypes)
  <2>1. \A c \in DOMAIN prototypes : AfterPass[c] \in Code
    <3>1. \A group : MajorityBits(group) \in Code
      BY DEF MajorityBits, Code
    <3>2. \A c \in DOMAIN prototypes : prototypes[c] \in Code
      BY DEF IInv, Types
    <3> QED BY <3>1, <3>2 DEF AfterPass
  <2>2. DOMAIN AfterPass = DOMAIN prototypes /\ AfterPass = [c \in DOMAIN prototypes |-> AfterPass[c]]
    BY DEF AfterPass
  <2>3. DOMAIN prototypes = 1 .. Len(prototypes) /\ Len(prototypes) \in Nat
    BY DEF IInv, Types
  <2> QED BY <2>1, <2>2, <2>3
<1>3. passes + 1 \in 0 .. config.iterations
  BY <1>1, ConfigFacts DEF IInv, Types
<1>4. Types'
  BY <1>1, <1>2, <1>3 DEF IInv, Types
<1>5. Begun' /\ Canonicalized'
  BY <1>1 DEF IInv, Begun, Canonicalized
<1>6. Tree'
  <2>1. paths = << >>
    BY <1>1 DEF IInv, Begun
  <2> QED BY <1>1, <1>2, <2>1 DEF IInv, Tree, Rooted
<1> QED BY <1>4, <1>5, <1>6 DEF IInv

LEMMA AssignMembershipsStep == IInv /\ AssignMemberships => IInv'
<1> SUFFICES ASSUME IInv, AssignMemberships PROVE IInv'
  OBVIOUS
<1> DEFINE assigned == [c \in DOMAIN prototypes |-> MembersOf(c)]
<1>1. /\ phase = "seed"
      /\ \/ Fail("FormatLimit") /\ UNCHANGED <<members, children>>
         \/ /\ members' = assigned /\ children' = [c \in DOMAIN prototypes |-> 0]
            /\ phase' = "paths" /\ UNCHANGED result
      /\ UNCHANGED <<corpus, config, observations, prototypes, passes, paths>>
  BY DEF AssignMemberships
<1>2. CASE Fail("FormatLimit") /\ UNCHANGED <<members, children>>
  BY <1>1, <1>2, FailStep
<1>3. CASE /\ members' = assigned /\ children' = [c \in DOMAIN prototypes |-> 0]
           /\ phase' = "paths" /\ UNCHANGED result
  <2>1. DOMAIN prototypes = 1 .. Len(prototypes) /\ Len(prototypes) \in Nat
    BY DEF IInv, Types
  <2>2. members' \in Seq(SUBSET DOMAIN observations)
    <3>1. \A c \in DOMAIN prototypes : assigned[c] \in SUBSET DOMAIN observations
      BY DEF MembersOf
    <3> HIDE DEF assigned
    <3>2. assigned = [c \in 1 .. Len(prototypes) |-> assigned[c]]
      BY <2>1 DEF assigned
    <3> QED BY <1>3, <2>1, <3>1, <3>2
  <2>3. children' \in Seq(Nat) /\ Len(children') = Len(prototypes)
    BY <1>3, <2>1
  <2>4. Types'
    BY <1>1, <1>3, <2>2, <2>3 DEF IInv, Types
  <2>5. Begun' /\ Canonicalized'
    BY <1>1, <1>3 DEF IInv, Begun, Canonicalized
  <2>6. Tree'
    <3>1. paths = << >>
      BY <1>1 DEF IInv, Begun
    <3> QED BY <1>1, <1>3, <2>3, <3>1 DEF IInv, Tree, Rooted
  <2> QED BY <2>4, <2>5, <2>6 DEF IInv
<1> QED BY <1>1, <1>2, <1>3

(* The first region's path is the root's; every other one is its parent's  *)
(* with the next slot below it, which no earlier region has.               *)
LEMMA DerivePathStep == IInv /\ DerivePath => IInv'
<1> SUFFICES ASSUME IInv, DerivePath PROVE IInv'
  OBVIOUS
<1> DEFINE c == Len(paths) + 1
           p == ParentOf(c)
<1>1. /\ phase = "paths" /\ c <= Len(prototypes)
      /\ c = 1 => paths' = << <<0>> >> /\ UNCHANGED children
      /\ c # 1 => /\ paths' = Append(paths, Append(paths[p], children[p] + 1))
                  /\ children' = [children EXCEPT ![p] = @ + 1]
      /\ UNCHANGED <<corpus, config, phase, observations, prototypes, passes, members, result>>
  BY DEF DerivePath
<1>2. /\ paths \in Seq(Seq(Nat)) /\ Len(paths) \in Nat /\ DOMAIN paths = 1 .. Len(paths)
      /\ Len(prototypes) \in Nat /\ DOMAIN prototypes = 1 .. Len(prototypes)
      /\ children \in Seq(Nat) /\ Len(children) = Len(prototypes)
      /\ DOMAIN children = 1 .. Len(prototypes)
  BY <1>1 DEF IInv, Types, Tree
<1>3. Begun' /\ Canonicalized'
  BY <1>1 DEF IInv, Begun, Canonicalized
<1>4. CASE c = 1
  <2>1. Len(<<0>>) = 1 /\ <<0>> \in Seq(Nat) /\ 1 \in 1 .. MaxRouteDepth
    BY DepthAssumption
  <2> DEFINE root == <<0>>
  <2>9. paths' = <<root>> /\ root \in Seq(Nat)
    BY <1>1, <1>4, <2>1
  <2> HIDE DEF root
  <2>2. /\ paths' \in Seq(Seq(Nat)) /\ Len(paths') = 1 /\ DOMAIN paths' = 1 .. 1
        /\ paths'[1] = <<0>>
    <3>1. <<root>> \in Seq(Seq(Nat)) /\ Len(<<root>>) = 1
      BY <2>9
    <3>2. DOMAIN <<root>> = 1 .. 1 /\ <<root>>[1] = root
      OBVIOUS
    <3> QED BY <2>9, <3>1, <3>2 DEF root
  <2>3. \A d \in DOMAIN paths' : d = 1
    BY <2>2
  <2>4. Types'
    BY <1>1, <1>4 DEF IInv, Types
  <2>5. IsInjective(paths') /\ \A d \in DOMAIN paths' : Len(paths'[d]) \in 1 .. MaxRouteDepth
    BY <2>1, <2>2, <2>3 DEF IsInjective
  <2>6. Rooted'
    BY <2>2, <2>3 DEF Rooted
  <2>7. UNCHANGED <<children, prototypes, phase>>
    BY <1>1, <1>4
  <2>8. Tree'
    BY <1>1, <1>2, <1>4, <2>2, <2>5, <2>6, <2>7 DEF Tree
  <2> QED BY <1>3, <2>4, <2>8 DEF IInv
<1>5. CASE c # 1
  <2> DEFINE new == Append(paths[p], children[p] + 1)
  <2>1. c \in DOMAIN prototypes /\ c > 1 /\ c \in Nat
    BY <1>1, <1>2, <1>5
  <2>2. p \in DOMAIN paths /\ Len(paths[p]) < MaxRouteDepth
    <3> HIDE DEF c
    <3>1. c = Len(paths) + 1
      BY DEF c
    <3> QED BY <2>1, <3>1, ParentIs DEF IInv
  <2> HIDE DEF p
  <2>3. /\ paths[p] \in Seq(Nat) /\ p \in 1 .. Len(paths) /\ p \in DOMAIN children
        /\ children[p] \in Nat /\ children[p] + 1 \in Nat
    BY SMTT(30), <1>1, <1>2, <2>2
  <2>4. /\ new \in Seq(Nat) /\ Len(new) = Len(paths[p]) + 1 /\ Front(new) = paths[p]
        /\ \A other \in Seq(Nat) : \A s \in Nat :
             new = Append(other, s) => paths[p] = other /\ children[p] + 1 = s
    BY <2>3, AppendedPath
  <2> HIDE DEF new
  <2>5. paths' = Append(paths, new) /\ children' = [children EXCEPT ![p] = children[p] + 1]
    BY <1>1, <1>5 DEF new
  <2>6. /\ paths' \in Seq(Seq(Nat)) /\ Len(paths') = Len(paths) + 1 /\ paths'[c] = new
        /\ \A d \in DOMAIN paths : paths'[d] = paths[d]
        /\ DOMAIN paths' = 1 .. c
    BY <1>2, <2>4, <2>5
  <2> DEFINE m == Len(paths)
  <2>7. /\ m \in Nat /\ c = m + 1 /\ DOMAIN paths = 1 .. m /\ p \in 1 .. m
        /\ \A d \in DOMAIN paths' : d \in DOMAIN paths \/ d = c
    BY <1>2, <2>2, <2>6
  <2> HIDE DEF m, c
  <2>8. /\ children' \in Seq(Nat) /\ Len(children') = Len(children)
        /\ \A d \in DOMAIN children : children'[d] \in Nat /\ children[d] \in Nat
                                      /\ children'[d] >= children[d]
        /\ children'[p] = children[p] + 1
    <3> DEFINE more == [children EXCEPT ![p] = children[p] + 1]
    <3>1. more \in Seq(Nat) /\ Len(more) = Len(children)
      BY <1>2, <2>3
    <3>2. \A d \in DOMAIN children : more[d] = IF d = p THEN children[p] + 1 ELSE children[d]
      OBVIOUS
    <3>3. \A d \in DOMAIN children : children[d] \in Nat
      BY <1>2
    <3> HIDE DEF more
    <3>4. \A d \in DOMAIN children : more[d] \in Nat /\ more[d] >= children[d]
      BY <2>3, <3>2, <3>3
    <3>5. more[p] = children[p] + 1
      BY <2>3, <3>2
    <3> QED BY <2>5, <3>1, <3>3, <3>4, <3>5 DEF more
  <2>9. Len(new) \in 1 .. MaxRouteDepth
    BY SMTT(30), <2>2, <2>3, <2>4, DepthAssumption DEF IInv, Tree
  <2>10. \A d \in DOMAIN paths' : Len(paths'[d]) \in 1 .. MaxRouteDepth
    BY <2>6, <2>7, <2>9 DEF IInv, Tree
  <2>11. \A d \in DOMAIN paths : paths[d] # new
    <3> SUFFICES ASSUME NEW d \in DOMAIN paths, paths[d] = new PROVE FALSE
      OBVIOUS
    <3>1. CASE d = 1
      <4>1. paths[d] = <<0>>
        BY <3>1 DEF IInv, Tree, Rooted
      <4>2. Len(paths[d]) = 1
        BY <4>1
      <4>3. Len(paths[p]) \in 1 .. MaxRouteDepth
        BY <2>2 DEF IInv, Tree
      <4>4. Len(paths[p]) \in Nat /\ Len(paths[p]) > 0
        BY <4>3, DepthAssumption
      <4>5. Len(paths[p]) + 1 = 1
        BY <2>4, <4>2
      <4> QED BY <4>4, <4>5
    <3>2. CASE d # 1
      <4>1. d > 1
        BY <2>7, <3>2
      <4>2. PICK q \in 1 .. d - 1 : \E s \in 1 .. children[q] : paths[d] = Append(paths[q], s)
        BY <4>1 DEF IInv, Tree, Rooted
      <4>6. PICK slot \in 1 .. children[q] : paths[d] = Append(paths[q], slot)
        BY <4>2
      <4>3. q \in DOMAIN paths /\ paths[q] \in Seq(Nat) /\ slot \in Nat
        <5>1. d \in 1 .. m /\ q \in 1 .. m
          BY <2>7, <4>2
        <5>2. children[q] \in Nat
          <6>1. m + 1 <= Len(prototypes) /\ m \in Nat /\ Len(prototypes) \in Nat
            BY <1>1, <1>2, <2>7 DEF c, m
          <6>2. q \in DOMAIN children
            BY <1>2, <5>1, <6>1
          <6> QED BY <2>8, <6>2
        <5>3. paths[q] \in Seq(Nat)
          BY <1>2, <2>7, <5>1
        <5> QED BY <2>7, <5>1, <5>2, <5>3
      <4>4. paths[p] = paths[q] /\ children[p] + 1 = slot
        BY <2>4, <4>3, <4>6
      <4>5. p = q
        BY <2>2, <4>3, <4>4 DEF IInv, Tree, IsInjective
      <4>7. slot <= children[p]
        BY <2>3, <4>5
      <4> QED BY <2>3, <4>4, <4>7
    <3> QED BY <3>1, <3>2
  <2>12. IsInjective(paths')
    <3> SUFFICES ASSUME NEW d \in DOMAIN paths', NEW e \in DOMAIN paths', paths'[d] = paths'[e]
                 PROVE  d = e
      BY DEF IsInjective
    <3>1. CASE d \in DOMAIN paths /\ e \in DOMAIN paths
      BY <2>6, <3>1 DEF IInv, Tree, IsInjective
    <3>2. CASE d \notin DOMAIN paths \/ e \notin DOMAIN paths
      BY <2>6, <2>7, <2>11, <3>2
    <3> QED BY <3>1, <3>2
  <2>13. Rooted'
    <3> SUFFICES ASSUME NEW d \in DOMAIN paths'
                 PROVE  /\ d = 1 => paths'[d] = <<0>>
                        /\ d > 1 => \E q \in 1 .. d - 1 : \E slot \in 1 .. children'[q] :
                                      paths'[d] = Append(paths'[q], slot)
      BY DEF Rooted
    <3>1. CASE d = c
      <4>1. d > 1 /\ p \in 1 .. d - 1
        BY <2>1, <2>7, <3>1
      <4>2. children[p] + 1 \in 1 .. children'[p]
        BY <2>3, <2>8
      <4>3. paths'[d] = Append(paths'[p], children[p] + 1)
        BY <2>2, <2>6, <3>1 DEF new
      <4> QED BY <4>1, <4>2, <4>3
    <3>2. CASE d # c
      <4>1. d \in DOMAIN paths /\ paths'[d] = paths[d]
        BY <2>6, <2>7, <3>2
      <4>2. d = 1 => paths'[d] = <<0>>
        BY <4>1 DEF IInv, Tree, Rooted
      <4>3. ASSUME d > 1
            PROVE  \E q \in 1 .. d - 1 : \E slot \in 1 .. children'[q] :
                     paths'[d] = Append(paths'[q], slot)
        <5>1. PICK q \in 1 .. d - 1 : \E s \in 1 .. children[q] : paths[d] = Append(paths[q], s)
          BY <4>1, <4>3 DEF IInv, Tree, Rooted
        <5>6. PICK slot \in 1 .. children[q] : paths[d] = Append(paths[q], slot)
          BY <5>1
        <5>2. q \in 1 .. m /\ d \in 1 .. m
          BY <2>7, <4>1, <5>1
        <5>3. paths'[q] = paths[q]
          BY <2>6, <2>7, <5>2
        <5>4. children'[q] \in Nat /\ children[q] \in Nat /\ children'[q] >= children[q]
          <6>1. q \in DOMAIN children
            BY <1>1, <1>2, <2>7, <5>2
          <6> QED BY <2>8, <6>1
        <5>5. slot \in 1 .. children'[q]
          BY <5>4
        <5> QED BY <4>1, <5>3, <5>5, <5>6
      <4> QED BY <4>2, <4>3
    <3> QED BY <3>1, <3>2
  <2>14. Types'
    BY <1>1, <2>8 DEF IInv, Types
  <2>15. Tree'
    <3>1. Len(paths') <= Len(prototypes') /\ Len(children') = Len(prototypes')
      BY <1>1, <1>2, <2>6, <2>7, <2>8 DEF c
    <3> QED BY <2>6, <2>10, <2>12, <2>13, <3>1 DEF Tree
  <2> QED BY <1>3, <2>14, <2>15 DEF IInv
<1> QED BY <1>4, <1>5

LEMMA WriteArtifactStep == IInv /\ WriteArtifact => IInv'
<1> SUFFICES ASSUME IInv, WriteArtifact PROVE IInv'
  OBVIOUS
<1>1. /\ phase = "paths"
      /\ \/ Fail("FormatLimit")
         \/ Fail("SelfValidation")
         \/ result' = [result EXCEPT !.artifact = View(Pack(Compiled))] /\ phase' = "done"
      /\ UNCHANGED <<corpus, config, observations, prototypes, passes, members, paths, children>>
  BY DEF WriteArtifact
<1>2. CASE Fail("FormatLimit") \/ Fail("SelfValidation")
  BY <1>1, <1>2, FailStep
<1>3. CASE result' = [result EXCEPT !.artifact = View(Pack(Compiled))] /\ phase' = "done"
  <2>1. /\ result'.error = result.error
        /\ result' = [artifact |-> result'.artifact, error |-> result'.error]
    BY <1>3 DEF IInv, Types
  <2>2. Types'
    BY <1>1, <1>3, <2>1 DEF IInv, Types
  <2>3. Begun' /\ Canonicalized'
    BY <1>1, <1>3, <2>1 DEF IInv, Begun, Canonicalized
  <2>4. Tree'
    BY <1>1, <1>3 DEF IInv, Tree, Rooted
  <2> QED BY <2>2, <2>3, <2>4 DEF IInv
<1> QED BY <1>1, <1>2, <1>3

LEMMA NextIInv == IInv /\ [Next]_vars => IInv'
<1> SUFFICES ASSUME IInv, [Next]_vars PROVE IInv'
  OBVIOUS
<1>1. CASE UNCHANGED vars
  BY <1>1 DEF vars, IInv, Types, Begun, Canonicalized, Tree, Rooted
<1>2. CASE Next
  BY <1>2, CanonicalizeStep, SeedStep, PassStep, AssignMembershipsStep, DerivePathStep,
     WriteArtifactStep DEF Next
<1> QED BY <1>1, <1>2

(* The export and the measurement only read what the compiler left.        *)
LEMMA OthersRead == [PipelineNext]_pipelineVars => [Next]_vars
BY DEF PipelineNext, pipelineVars, vars, ExportNext, ExportR4G1, Replay, ReplayR4G1, ParityNext,
       BeginEvaluation, MeasureOne, Judge

LEMMA PipelineIInv == PipelineSpec => []IInv
<1>1. PipelineInit => IInv
  BY InitIInv DEF PipelineInit
<1>2. IInv /\ [PipelineNext]_pipelineVars => IInv'
  BY NextIInv, OthersRead
<1> QED BY <1>1, <1>2, PTL DEF PipelineSpec

-----------------------------------------------------------------------------
(* Whatever order the corpus lists its observations in and however often   *)
(* it repeats one, the compiler works on the different ones in the order   *)
(* of their contexts, and it reports a conflict only where two of them     *)
(* differ under one context (canonical_observations, compiler.rs:185).     *)
THEOREM CorpusOrderIsForgotten == PipelineSpec => []CanonicalForgetsOrder
<1>1. IInv => CanonicalForgetsOrder
  <2> SUFFICES ASSUME IInv PROVE CanonicalForgetsOrder
    OBVIOUS
  <2>1. phase \notin {"corpus", "failed"} => ~ Conflict(ToSet(corpus))
    BY AscendingAgree DEF IInv, Types, Canonicalized
  <2> QED BY <2>1 DEF IInv, Canonicalized, CanonicalForgetsOrder, Conflict, StrictlyAscends
<1> QED BY <1>1, PipelineIInv, PTL

(* However many regions there are and whichever of them are near each      *)
(* other, no two regions get one path, no path is deeper than the format   *)
(* allows, and every path below the root extends an earlier one by a slot  *)
(* (derive_paths, compiler.rs:330).                                        *)
THEOREM PathsAreATree == PipelineSpec => []PathsFormATree
<1>1. IInv => PathsFormATree
  <2> SUFFICES ASSUME IInv PROVE PathsFormATree
    OBVIOUS
  <2>1. \A c \in DOMAIN paths : c > 1 => \E p \in 1 .. c - 1 : Front(paths[c]) = paths[p]
    <3> SUFFICES ASSUME NEW c \in DOMAIN paths, c > 1
                 PROVE  \E p \in 1 .. c - 1 : Front(paths[c]) = paths[p]
      OBVIOUS
    <3>1. PICK p \in 1 .. c - 1 : \E s \in 1 .. children[p] : paths[c] = Append(paths[p], s)
      BY DEF IInv, Tree, Rooted
    <3>3. PICK slot \in 1 .. children[p] : paths[c] = Append(paths[p], slot)
      BY <3>1
    <3>2. paths[p] \in Seq(Nat) /\ slot \in Nat
      <4>1. c \in 1 .. Len(paths) /\ Len(paths) \in Nat
        BY SMTT(30) DEF IInv, Tree
      <4>2. p \in 1 .. Len(paths)
        BY <3>1, <4>1
      <4> QED BY <4>2 DEF IInv, Tree
    <3> QED BY <3>2, <3>3, AppendedPath
  <2> QED BY <2>1 DEF IInv, Tree, PathsFormATree
<1> QED BY <1>1, PipelineIInv, PTL

-----------------------------------------------------------------------------
(* The concatenation of lists.  FlattenSeq recurses over their positions:  *)
(* flat is that function for the first n of them.                          *)
IsFlat(flat, lists, n) ==
  flat = [i \in 1 .. n |-> IF i = 1 THEN lists[i] ELSE flat[i - 1] \o lists[i]]

LEMMA FlatExists ==
  ASSUME NEW lists, NEW n \in Nat
  PROVE  \E flat : IsFlat(flat, lists, n)
<1> DEFINE Wrong == {m \in Nat : ~ \E flat : IsFlat(flat, lists, m)}
<1>1. Wrong = {}
  <2> SUFFICES ASSUME Wrong # {} PROVE FALSE
    OBVIOUS
  <2>1. PICK m \in Wrong : \A k \in Wrong : m <= k
    BY Numbers!NatHasMin
  <2>2. m \in Nat /\ ~ \E flat : IsFlat(flat, lists, m)
    BY <2>1
  <2>3. m # 0
    <3> DEFINE flat == [i \in 1 .. 0 |-> 0]
    <3>1. flat = [i \in 1 .. 0 |-> IF i = 1 THEN lists[i] ELSE flat[i - 1] \o lists[i]]
      OBVIOUS
    <3>2. IsFlat(flat, lists, 0)
      BY <3>1 DEF IsFlat
    <3> QED BY <2>2, <3>2
  <2>4. m - 1 \in Nat /\ m - 1 \notin Wrong
    BY <2>1, <2>2, <2>3
  <2>5. PICK flat : IsFlat(flat, lists, m - 1)
    BY <2>4
  <2> DEFINE more == [i \in 1 .. m |-> IF i = 1 THEN lists[i] ELSE flat[i - 1] \o lists[i]]
  <2>6. \A i \in 1 .. m - 1 : more[i] = flat[i]
    <3> SUFFICES ASSUME NEW i \in 1 .. m - 1 PROVE more[i] = flat[i]
      OBVIOUS
    <3>1. i \in 1 .. m
      BY <2>2
    <3>2. flat[i] = IF i = 1 THEN lists[i] ELSE flat[i - 1] \o lists[i]
      BY <2>5 DEF IsFlat
    <3> QED BY <3>1, <3>2
  <2>7. \A i \in 1 .. m : more[i] = IF i = 1 THEN lists[i] ELSE more[i - 1] \o lists[i]
    <3> SUFFICES ASSUME NEW i \in 1 .. m
                 PROVE  more[i] = IF i = 1 THEN lists[i] ELSE more[i - 1] \o lists[i]
      OBVIOUS
    <3>1. more[i] = IF i = 1 THEN lists[i] ELSE flat[i - 1] \o lists[i]
      OBVIOUS
    <3>2. i # 1 => i - 1 \in 1 .. m - 1
      BY <2>2
    <3> HIDE DEF more
    <3>3. i # 1 => more[i - 1] = flat[i - 1]
      BY <2>6, <3>2
    <3> QED BY <3>1, <3>3
  <2>8. more = [i \in 1 .. m |-> more[i]]
    OBVIOUS
  <2> HIDE DEF more
  <2>9. IsFlat(more, lists, m)
    BY <2>7, <2>8 DEF IsFlat
  <2> QED BY <2>2, <2>9
<1> QED BY <1>1

AlikeUpTo(lists, others, n) == \A i \in 1 .. n : lists[i] = others[i]

LEMMA FlatsAgree ==
  ASSUME NEW lists, NEW others, NEW n \in Nat, NEW m \in Nat, n <= m,
         AlikeUpTo(lists, others, n),
         NEW flat, IsFlat(flat, lists, n), NEW more, IsFlat(more, others, m)
  PROVE  \A i \in 1 .. n : flat[i] = more[i]
<1> DEFINE Wrong == {i \in 1 .. n : flat[i] # more[i]}
<1> SUFFICES ASSUME Wrong # {} PROVE FALSE
  OBVIOUS
<1>1. PICK i \in Wrong : \A j \in Wrong : i <= j
  <2>1. Wrong \in SUBSET Nat
    OBVIOUS
  <2> QED BY <2>1, Numbers!NatHasMin
<1>2. i \in 1 .. n /\ i \in 1 .. m /\ flat[i] # more[i]
  OBVIOUS
<1>3. flat[i] = IF i = 1 THEN lists[i] ELSE flat[i - 1] \o lists[i]
  BY <1>2 DEF IsFlat
<1>4. more[i] = IF i = 1 THEN others[i] ELSE more[i - 1] \o others[i]
  BY <1>2 DEF IsFlat
<1>5. i # 1 => i - 1 \in 1 .. n /\ i - 1 < i
  BY <1>2
<1>6. i # 1 => flat[i - 1] = more[i - 1]
  BY <1>1, <1>5
<1>7. lists[i] = others[i]
  BY <1>2 DEF AlikeUpTo
<1> QED BY <1>2, <1>3, <1>4, <1>6, <1>7

(* The first n of the lists, one after another.                            *)
Joined(lists, n) == FlattenSeq(SubSeq(lists, 1, n))

LEMMA JoinedIsFlat ==
  ASSUME NEW S, NEW lists \in Seq(Seq(S)), NEW n \in 1 .. Len(lists),
         NEW flat, IsFlat(flat, lists, n)
  PROVE  Joined(lists, n) = flat[n]
<1> DEFINE front == SubSeq(lists, 1, n)
           some == CHOOSE f : IsFlat(f, front, n)
<1>1. /\ front \in Seq(Seq(S)) /\ Len(front) = n /\ n \in Nat /\ n # 0 /\ n \in 1 .. n
      /\ \A i \in 1 .. n : front[i] = lists[i]
  OBVIOUS
<1> HIDE DEF front
<1>2. FlattenSeq(front) =
        (CHOOSE f : f = [i \in 1 .. n |-> IF i = 1 THEN front[i] ELSE f[i - 1] \o front[i]])[n]
  BY <1>1 DEF FlattenSeq
<1>3. FlattenSeq(front) = some[n]
  BY <1>2 DEF IsFlat
<1>4. IsFlat(some, front, n)
  BY <1>1, FlatExists
<1> HIDE DEF some
<1>5. n <= n
  BY <1>1
<1>6. \A i \in 1 .. n : some[i] = flat[i]
  <2>1. n \in Nat /\ AlikeUpTo(front, lists, n)
    BY <1>1 DEF AlikeUpTo
  <2>2. IsFlat(flat, lists, n)
    OBVIOUS
  <2> QED BY <1>4, <1>5, <2>1, <2>2, FlatsAgree
<1> QED BY <1>1, <1>3, <1>6 DEF Joined, front

LEMMA JoinedNext ==
  ASSUME NEW S, NEW lists \in Seq(Seq(S))
  PROVE  /\ Joined(lists, 0) = << >>
         /\ Joined(lists, Len(lists)) = FlattenSeq(lists)
         /\ \A n \in 1 .. Len(lists) :
              /\ Joined(lists, n - 1) \in Seq(S) /\ Joined(lists, n) \in Seq(S)
              /\ Joined(lists, n) = Joined(lists, n - 1) \o lists[n]
<1>1. Joined(lists, 0) = << >>
  <2>1. SubSeq(lists, 1, 0) = << >> /\ Len(<< >>) = 0
    OBVIOUS
  <2> QED BY <2>1 DEF Joined, FlattenSeq
<1>2. Joined(lists, Len(lists)) = FlattenSeq(lists)
  <2>1. SubSeq(lists, 1, Len(lists)) = lists
    OBVIOUS
  <2> QED BY <2>1 DEF Joined
<1>3. Len(lists) \in Nat
  OBVIOUS
<1>4. PICK flat : IsFlat(flat, lists, Len(lists))
  BY <1>3, FlatExists
<1>5. \A n \in 1 .. Len(lists) : Joined(lists, n) = flat[n]
  <2> SUFFICES ASSUME NEW n \in 1 .. Len(lists) PROVE Joined(lists, n) = flat[n]
    OBVIOUS
  <2>1. n \in Nat /\ n <= Len(lists) /\ n \in 1 .. n
    BY <1>3
  <2>2. PICK part : IsFlat(part, lists, n)
    BY <2>1, FlatExists
  <2>3. \A i \in 1 .. n : part[i] = flat[i]
    <3>1. AlikeUpTo(lists, lists, n)
      BY DEF AlikeUpTo
    <3> QED BY <1>3, <1>4, <2>1, <2>2, <3>1, FlatsAgree
  <2>4. Joined(lists, n) = part[n]
    BY <2>2, JoinedIsFlat
  <2> QED BY <2>1, <2>3, <2>4
<1>6. \A n \in 1 .. Len(lists) : Joined(lists, n) = Joined(lists, n - 1) \o lists[n]
  <2> SUFFICES ASSUME NEW n \in 1 .. Len(lists)
               PROVE  Joined(lists, n) = Joined(lists, n - 1) \o lists[n]
    OBVIOUS
  <2>1. flat[n] = IF n = 1 THEN lists[n] ELSE flat[n - 1] \o lists[n]
    BY <1>4 DEF IsFlat
  <2>2. CASE n = 1
    <3>1. << >> \o lists[n] = lists[n]
      <4>1. lists[n] \in Seq(S)
        OBVIOUS
      <4> QED BY <4>1
    <3> QED BY <1>1, <1>5, <2>1, <2>2, <3>1
  <2>3. CASE n # 1
    <3>1. n - 1 \in 1 .. Len(lists)
      BY <1>3, <2>3
    <3> QED BY <1>5, <2>1, <2>3, <3>1
  <2> QED BY <2>2, <2>3
<1> DEFINE Wrong == {n \in 0 .. Len(lists) : Joined(lists, n) \notin Seq(S)}
<1>7. Wrong = {}
  <2> SUFFICES ASSUME Wrong # {} PROVE FALSE
    OBVIOUS
  <2>1. Wrong \in SUBSET Nat
    OBVIOUS
  <2>2. PICK n \in Wrong : \A k \in Wrong : n <= k
    BY <2>1, Numbers!NatHasMin
  <2>3. n # 0
    <3>1. << >> \in Seq(S)
      OBVIOUS
    <3>2. Joined(lists, 0) \in Seq(S)
      BY <1>1, <3>1
    <3> QED BY <2>2, <3>2
  <2>4. n \in 1 .. Len(lists) /\ n - 1 \in 0 .. Len(lists) /\ n - 1 < n
    BY <1>3, <2>2, <2>3
  <2>5. Joined(lists, n - 1) \in Seq(S)
    BY <2>2, <2>4
  <2>6. lists[n] \in Seq(S)
    BY <2>4
  <2>7. Joined(lists, n - 1) \o lists[n] \in Seq(S)
    BY <2>5, <2>6
  <2> QED BY <1>6, <2>2, <2>4, <2>7
<1>8. \A n \in 1 .. Len(lists) : Joined(lists, n - 1) \in Seq(S) /\ Joined(lists, n) \in Seq(S)
  <2>1. \A n \in 0 .. Len(lists) : Joined(lists, n) \in Seq(S)
    BY <1>7
  <2>2. \A n \in 1 .. Len(lists) : n \in 0 .. Len(lists) /\ n - 1 \in 0 .. Len(lists)
    BY <1>3
  <2> QED BY <2>1, <2>2
<1> QED BY <1>1, <1>2, <1>6, <1>8

(* What was joined stays where it is when more is joined.                  *)
LEMMA JoinedGrows ==
  ASSUME NEW S, NEW lists \in Seq(Seq(S)),
         NEW n \in 0 .. Len(lists), NEW m \in 0 .. Len(lists), n <= m
  PROVE  /\ Joined(lists, n) \in Seq(S) /\ Joined(lists, m) \in Seq(S)
         /\ Len(Joined(lists, n)) <= Len(Joined(lists, m))
         /\ \A i \in 1 .. Len(Joined(lists, n)) : Joined(lists, m)[i] = Joined(lists, n)[i]
<1> DEFINE J(k) == Joined(lists, k)
           Kept(k) == /\ Len(J(n)) <= Len(J(k))
                      /\ \A i \in 1 .. Len(J(n)) : J(k)[i] = J(n)[i]
           Wrong == {k \in n .. Len(lists) : ~ Kept(k)}
<1>1. Len(lists) \in Nat /\ n \in Nat /\ m \in Nat
  OBVIOUS
<1>2. \A k \in 0 .. Len(lists) : J(k) \in Seq(S)
  <2>1. << >> \in Seq(S)
    OBVIOUS
  <2>2. J(0) \in Seq(S)
    BY <2>1, JoinedNext
  <2>3. \A k \in 1 .. Len(lists) : J(k) \in Seq(S)
    BY JoinedNext
  <2>4. \A k \in 0 .. Len(lists) : k = 0 \/ k \in 1 .. Len(lists)
    BY <1>1
  <2> HIDE DEF J
  <2> QED BY <2>2, <2>3, <2>4
<1>3. \A k \in 1 .. Len(lists) : J(k) = J(k - 1) \o lists[k]
  BY JoinedNext
<1>4. Wrong = {}
  <2> SUFFICES ASSUME Wrong # {} PROVE FALSE
    OBVIOUS
  <2>1. Wrong \in SUBSET Nat
    BY <1>1
  <2>2. PICK k \in Wrong : \A l \in Wrong : k <= l
    BY <2>1, Numbers!NatHasMin
  <2> HIDE DEF J
  <2>3. Kept(n)
    BY <1>2
  <2>4. k # n /\ k \in n .. Len(lists)
    BY <2>2, <2>3
  <2>5. k - 1 \in n .. Len(lists) /\ k \in 1 .. Len(lists) /\ k - 1 \in 0 .. Len(lists)
    BY <1>1, <2>4
  <2>6. k - 1 \notin Wrong
    BY <1>1, <2>2, <2>4
  <2>7. Kept(k - 1)
    BY <2>5, <2>6
  <2> DEFINE a == J(k - 1)
             b == lists[k]
  <2>8. a \in Seq(S) /\ b \in Seq(S) /\ J(n) \in Seq(S) /\ J(k) = a \o b
    <3>1. a \in Seq(S) /\ J(n) \in Seq(S)
      BY <1>2, <2>5
    <3>2. b \in Seq(S)
      BY <2>5
    <3>3. J(k) = a \o b
      BY <1>3, <2>5
    <3> QED BY <3>1, <3>2, <3>3
  <2> HIDE DEF a, b
  <2>9. /\ Len(a \o b) = Len(a) + Len(b) /\ Len(a) \in Nat /\ Len(b) \in Nat /\ Len(J(n)) \in Nat
        /\ \A i \in 1 .. Len(a) : (a \o b)[i] = a[i]
    BY <2>8
  <2>10. Len(J(n)) <= Len(a) /\ \A i \in 1 .. Len(J(n)) : a[i] = J(n)[i]
    BY <2>7 DEF a
  <2>11. Len(J(n)) <= Len(J(k))
    BY <2>8, <2>9, <2>10
  <2>12. \A i \in 1 .. Len(J(n)) : J(k)[i] = J(n)[i]
    BY <2>8, <2>9, <2>10
  <2> QED BY <2>2, <2>11, <2>12
<1>5. Kept(m)
  <2> HIDE DEF Kept
  <2> QED BY <1>1, <1>4
<1> QED BY <1>2, <1>5

(* Every list is found again at its place.                                 *)
LEMMA ListIsFound ==
  ASSUME NEW S, NEW lists \in Seq(Seq(S)), NEW n \in 1 .. Len(lists)
  PROVE  LET start == Len(Joined(lists, n - 1))
             all == FlattenSeq(lists)
         IN  /\ all \in Seq(S) /\ start \in Nat /\ Len(lists[n]) \in Nat
             /\ start + Len(lists[n]) <= Len(all)
             /\ start + Len(lists[n]) = Len(Joined(lists, n))
             /\ SubSeq(all, start + 1, start + Len(lists[n])) = lists[n]
<1> DEFINE a == Joined(lists, n - 1)
           b == lists[n]
           ab == Joined(lists, n)
           all == FlattenSeq(lists)
<1>1. Len(lists) \in Nat /\ n \in 0 .. Len(lists) /\ Len(lists) \in 0 .. Len(lists) /\ n <= Len(lists)
  OBVIOUS
<1>2. a \in Seq(S) /\ b \in Seq(S) /\ ab = a \o b /\ all = Joined(lists, Len(lists))
  <2>1. b \in Seq(S)
    OBVIOUS
  <2>2. a \in Seq(S) /\ ab = a \o lists[n]
    BY JoinedNext
  <2>3. all = Joined(lists, Len(lists))
    BY JoinedNext
  <2> QED BY <2>1, <2>2, <2>3
<1>3. /\ all \in Seq(S) /\ Len(ab) <= Len(all)
      /\ \A i \in 1 .. Len(ab) : all[i] = ab[i]
  <2>1. PICK m \in 0 .. Len(lists) : m = Len(lists) /\ n <= m
    BY <1>1
  <2>2. /\ Joined(lists, m) \in Seq(S) /\ Len(Joined(lists, n)) <= Len(Joined(lists, m))
        /\ \A i \in 1 .. Len(Joined(lists, n)) : Joined(lists, m)[i] = Joined(lists, n)[i]
    BY <1>1, <2>1, JoinedGrows
  <2>3. all = Joined(lists, m)
    BY <1>2, <2>1
  <2> QED BY <2>2, <2>3
<1> HIDE DEF a, b, ab, all
<1>4. /\ Len(a) \in Nat /\ Len(b) \in Nat /\ Len(ab) = Len(a) + Len(b) /\ Len(all) \in Nat
      /\ \A i \in 1 .. Len(b) : ab[Len(a) + i] = b[i]
  BY <1>2, <1>3
<1> DEFINE part == SubSeq(all, Len(a) + 1, Len(a) + Len(b))
<1>5. \A i \in 1 .. Len(b) : Len(a) + i \in 1 .. Len(ab)
  BY <1>4
<1>6. /\ part \in Seq(S) /\ Len(part) = Len(b)
      /\ \A i \in 1 .. Len(b) : part[i] = all[Len(a) + i]
  <2> DEFINE x == Len(a)
             y == Len(b)
  <2>1. x \in Nat /\ y \in Nat /\ x + y <= Len(all) /\ all \in Seq(S)
    BY <1>3, <1>4
  <2> HIDE DEF x, y
  <2>2. /\ SubSeq(all, x + 1, x + y) \in Seq(S) /\ Len(SubSeq(all, x + 1, x + y)) = y
        /\ \A i \in 1 .. y : SubSeq(all, x + 1, x + y)[i] = all[x + i]
    BY <2>1
  <2> QED BY <2>2 DEF x, y
<1> HIDE DEF part
<1>7. \A i \in 1 .. Len(b) : part[i] = b[i]
  BY <1>3, <1>4, <1>5, <1>6
<1>8. part = b
  BY <1>2, <1>6, <1>7, SeqEqual
<1> QED BY <1>3, <1>4, <1>8 DEF a, b, ab, all, part

LEMMA FlattenIsList ==
  ASSUME NEW S, NEW lists \in Seq(Seq(S))
  PROVE  FlattenSeq(lists) \in Seq(S)
<1>1. Len(lists) \in 0 .. Len(lists) /\ Len(lists) <= Len(lists)
  OBVIOUS
<1>2. Joined(lists, Len(lists)) \in Seq(S)
  BY <1>1, JoinedGrows
<1> QED BY <1>2, JoinedNext

-----------------------------------------------------------------------------
(* The scores of a token's emissions and their sum.  MapThenSumSet recurses*)
(* over the subsets of what it adds: sum is that function for the sets in  *)
(* D.                                                                      *)
ScoreAt(e) == observations[e[1]].emissions[e[2]].score

IsSum(sum, D) ==
  sum = [s \in D |-> IF s = {} THEN 0
                     ELSE LET x == CHOOSE y \in s : TRUE IN ScoreAt(x) + sum[s \ {x}]]

(* The subsets of T of at most k elements.                                 *)
UpTo(T, k) == {s \in SUBSET T : Cardinality(s) <= k}

LEMMA SmallerSubset ==
  ASSUME NEW T, IsFiniteSet(T), NEW s \in SUBSET T, s # {}, NEW x \in s
  PROVE  /\ s \ {x} \in SUBSET T /\ IsFiniteSet(s)
         /\ Cardinality(s) \in Nat /\ Cardinality(s \ {x}) \in Nat
         /\ Cardinality(s) = Cardinality(s \ {x}) + 1
<1>1. IsFiniteSet(s)
  BY FS_Subset
<1>2. Cardinality(s \ {x}) = Cardinality(s) - 1 /\ IsFiniteSet(s \ {x})
  BY <1>1, FS_RemoveElement
<1> QED BY <1>1, <1>2, FS_CardinalityType

LEMMA SumExists ==
  ASSUME NEW T, IsFiniteSet(T), NEW n \in Nat
  PROVE  \E sum : IsSum(sum, UpTo(T, n))
<1> DEFINE Wrong == {k \in Nat : ~ \E sum : IsSum(sum, UpTo(T, k))}
           Chosen(s) == CHOOSE y \in s : TRUE
<1> SUFFICES ASSUME Wrong # {} PROVE FALSE
  OBVIOUS
<1>1. PICK k \in Wrong : \A j \in Wrong : k <= j
  BY Numbers!NatHasMin
<1>2. k \in Nat /\ ~ \E sum : IsSum(sum, UpTo(T, k))
  BY <1>1
<1>3. \A s \in SUBSET T : s # {} =>
        /\ Chosen(s) \in s /\ s \ {Chosen(s)} \in SUBSET T
        /\ Cardinality(s) \in Nat /\ Cardinality(s \ {Chosen(s)}) \in Nat
        /\ Cardinality(s) = Cardinality(s \ {Chosen(s)}) + 1
  <2> SUFFICES ASSUME NEW s \in SUBSET T, s # {}
               PROVE  /\ Chosen(s) \in s /\ s \ {Chosen(s)} \in SUBSET T
                      /\ Cardinality(s) \in Nat /\ Cardinality(s \ {Chosen(s)}) \in Nat
                      /\ Cardinality(s) = Cardinality(s \ {Chosen(s)}) + 1
    OBVIOUS
  <2>1. Chosen(s) \in s
    OBVIOUS
  <2> HIDE DEF Chosen
  <2> QED BY <2>1, SmallerSubset
<1>4. PICK less : \A s \in UpTo(T, k) : s # {} =>
        less[s \ {Chosen(s)}] =
          IF s \ {Chosen(s)} = {} THEN 0
          ELSE ScoreAt(Chosen(s \ {Chosen(s)}))
                 + less[(s \ {Chosen(s)}) \ {Chosen(s \ {Chosen(s)})}]
  <2>1. CASE k = 0
    <3>1. \A s \in UpTo(T, k) : s = {}
      <4> SUFFICES ASSUME NEW s \in UpTo(T, k), s # {} PROVE FALSE
        OBVIOUS
      <4> HIDE DEF Chosen
      <4>1. s \in SUBSET T /\ Cardinality(s) <= 0
        BY <2>1 DEF UpTo
      <4> DEFINE all == Cardinality(s)
                 less == Cardinality(s \ {Chosen(s)})
      <4>2. all \in Nat /\ less \in Nat /\ all = less + 1
        BY <1>3, <4>1
      <4>3. all <= 0
        BY <4>1
      <4> HIDE DEF all, less
      <4> QED BY <4>2, <4>3
    <3> QED BY <3>1
  <2>2. CASE k # 0
    <3>1. k - 1 \in Nat /\ k - 1 \notin Wrong
      BY <1>1, <1>2, <2>2
    <3>2. PICK less : IsSum(less, UpTo(T, k - 1))
      BY <3>1
    <3>3. \A u \in UpTo(T, k - 1) :
            less[u] = IF u = {} THEN 0 ELSE ScoreAt(Chosen(u)) + less[u \ {Chosen(u)}]
      BY <3>2 DEF IsSum
    <3>4. \A s \in UpTo(T, k) : s # {} => s \ {Chosen(s)} \in UpTo(T, k - 1)
      <4> HIDE DEF Chosen
      <4> SUFFICES ASSUME NEW s \in UpTo(T, k), s # {} PROVE s \ {Chosen(s)} \in UpTo(T, k - 1)
        OBVIOUS
      <4>1. s \in SUBSET T /\ Cardinality(s) <= k
        BY DEF UpTo
      <4>2. s \ {Chosen(s)} \in SUBSET T /\ Cardinality(s \ {Chosen(s)}) <= k - 1
        BY <1>2, <1>3, <4>1
      <4> QED BY <4>2 DEF UpTo
    <3> HIDE DEF Chosen
    <3> QED BY <3>3, <3>4
  <2> QED BY <2>1, <2>2
<1> DEFINE sum == [s \in UpTo(T, k) |-> IF s = {} THEN 0
                                        ELSE ScoreAt(Chosen(s)) + less[s \ {Chosen(s)}]]
<1>5. \A s \in UpTo(T, k) : s # {} => /\ s \ {Chosen(s)} \in UpTo(T, k)
                                      /\ sum[s \ {Chosen(s)}] = less[s \ {Chosen(s)}]
  <2> SUFFICES ASSUME NEW s \in UpTo(T, k), s # {}
               PROVE  /\ s \ {Chosen(s)} \in UpTo(T, k)
                      /\ sum[s \ {Chosen(s)}] = less[s \ {Chosen(s)}]
    OBVIOUS
  <2> HIDE DEF Chosen
  <2>1. s \in SUBSET T /\ Cardinality(s) <= k
    BY DEF UpTo
  <2>2. s \ {Chosen(s)} \in SUBSET T /\ Cardinality(s \ {Chosen(s)}) <= k
    BY <1>2, <1>3, <2>1
  <2>3. s \ {Chosen(s)} \in UpTo(T, k)
    BY <2>2 DEF UpTo
  <2> QED BY <1>4, <2>3
<1>6. \A s \in UpTo(T, k) :
        sum[s] = IF s = {} THEN 0 ELSE ScoreAt(Chosen(s)) + sum[s \ {Chosen(s)}]
  <2> HIDE DEF Chosen
  <2>1. \A s \in UpTo(T, k) :
          sum[s] = IF s = {} THEN 0 ELSE ScoreAt(Chosen(s)) + less[s \ {Chosen(s)}]
    OBVIOUS
  <2> HIDE DEF sum
  <2> QED BY <1>5, <2>1
<1>7. sum = [s \in UpTo(T, k) |-> sum[s]]
  OBVIOUS
<1> HIDE DEF sum
<1>8. IsSum(sum, UpTo(T, k))
  BY <1>6, <1>7 DEF IsSum
<1> QED BY <1>2, <1>8

LEMMA SumOfAll ==
  ASSUME NEW T, IsFiniteSet(T)
  PROVE  \E sum : IsSum(sum, SUBSET T) /\ MapThenSumSet(ScoreAt, T) = sum[T]
<1> DEFINE all == CHOOSE sum : IsSum(sum, SUBSET T)
<1>1. Cardinality(T) \in Nat /\ UpTo(T, Cardinality(T)) = SUBSET T
  <2>1. \A s \in SUBSET T : Cardinality(s) <= Cardinality(T)
    BY FS_Subset
  <2> QED BY <2>1, FS_CardinalityType DEF UpTo
<1>2. \E sum : IsSum(sum, SUBSET T)
  <2>1. \E sum : IsSum(sum, UpTo(T, Cardinality(T)))
    BY <1>1, SumExists
  <2> QED BY <1>1, <2>1
<1>3. IsSum(all, SUBSET T)
  BY <1>2
<1>4. MapThenSumSet(ScoreAt, T) = all[T]
  BY DEF MapThenSumSet, MapThenFoldSet, IsSum
<1> QED BY <1>3, <1>4

(* A sum of n scores is no more than n times the largest and no less than  *)
(* n times the smallest.                                                   *)
LEMMA SumIsBounded ==
  ASSUME NEW T, IsFiniteSet(T), \A e \in T : ScoreAt(e) \in Score
  PROVE  /\ MapThenSumSet(ScoreAt, T) \in Int
         /\ ScoreMin * Cardinality(T) <= MapThenSumSet(ScoreAt, T)
         /\ MapThenSumSet(ScoreAt, T) <= ScoreMax * Cardinality(T)
<1>1. PICK sum : IsSum(sum, SUBSET T) /\ MapThenSumSet(ScoreAt, T) = sum[T]
  BY SumOfAll
<1> DEFINE Right(s) == /\ sum[s] \in Int
                       /\ ScoreMin * Cardinality(s) <= sum[s]
                       /\ sum[s] <= ScoreMax * Cardinality(s)
           Wrong == {k \in Nat : \E s \in SUBSET T : Cardinality(s) = k /\ ~ Right(s)}
<1>2. ASSUME Wrong # {} PROVE FALSE
  <2>1. PICK k \in Wrong : \A j \in Wrong : k <= j
    BY <1>2, Numbers!NatHasMin
  <2>2. k \in Nat
    BY <2>1
  <2>3. PICK s \in SUBSET T : Cardinality(s) = k /\ ~ Right(s)
    BY <2>1
  <2> DEFINE x == CHOOSE y \in s : TRUE
             u == s \ {x}
  <2>4. sum[s] = IF s = {} THEN 0 ELSE ScoreAt(x) + sum[u]
    BY <1>1 DEF IsSum
  <2>5. s # {}
    <3> SUFFICES ASSUME s = {} PROVE FALSE
      OBVIOUS
    <3>1. sum[s] = 0 /\ Cardinality(s) = 0
      BY <2>4, FS_EmptySet
    <3>2. ScoreMin * 0 = 0 /\ ScoreMax * 0 = 0
      BY ScoreAssumption
    <3> QED BY <2>3, <3>1, <3>2
  <2>6. x \in s
    BY <2>5
  <2>7. ScoreAt(x) \in Score
    BY <2>6
  <2>8. sum[s] = ScoreAt(x) + sum[u]
    BY <2>4, <2>5
  <2> HIDE DEF x
  <2>9. u \in SUBSET T /\ Cardinality(u) \in Nat /\ k = Cardinality(u) + 1
    BY <2>3, <2>5, <2>6, SmallerSubset
  <2> HIDE DEF u
  <2>10. Right(u)
    BY <2>1, <2>2, <2>9
  <2>11. /\ ScoreMin * (Cardinality(u) + 1) = ScoreMin * Cardinality(u) + ScoreMin
         /\ ScoreMax * (Cardinality(u) + 1) = ScoreMax * Cardinality(u) + ScoreMax
         /\ ScoreMin * Cardinality(u) \in Int /\ ScoreMax * Cardinality(u) \in Int
    <3> DEFINE c == Cardinality(u)
    <3>1. c \in Int /\ ScoreMin \in Int /\ ScoreMax \in Int
      BY <2>9, ScoreAssumption
    <3> HIDE DEF c
    <3>2. \A a, b \in Int : a * (b + 1) = a * b + a /\ a * b \in Int
      OBVIOUS
    <3>3. /\ ScoreMin * (c + 1) = ScoreMin * c + ScoreMin
          /\ ScoreMax * (c + 1) = ScoreMax * c + ScoreMax
          /\ ScoreMin * c \in Int /\ ScoreMax * c \in Int
      BY <3>1, <3>2
    <3> QED BY <3>3 DEF c
  <2>12. Right(s)
    <3> DEFINE low == ScoreMin * Cardinality(u)
               high == ScoreMax * Cardinality(u)
               low_all == ScoreMin * Cardinality(s)
               high_all == ScoreMax * Cardinality(s)
               score == ScoreAt(x)
    <3>1. /\ low \in Int /\ high \in Int /\ low_all = low + ScoreMin /\ high_all = high + ScoreMax
          /\ sum[u] \in Int /\ low <= sum[u] /\ sum[u] <= high
          /\ sum[s] = score + sum[u]
          /\ score \in Int /\ ScoreMin <= score /\ score <= ScoreMax
          /\ ScoreMin \in Int /\ ScoreMax \in Int
      <4>1. low \in Int /\ high \in Int /\ low_all = low + ScoreMin /\ high_all = high + ScoreMax
        BY <2>3, <2>9, <2>11
      <4>2. sum[u] \in Int /\ low <= sum[u] /\ sum[u] <= high
        BY <2>10
      <4>3. score \in Int /\ ScoreMin <= score /\ score <= ScoreMax
        BY <2>7, ScoreAssumption DEF Score
      <4> QED BY <2>8, <4>1, <4>2, <4>3, ScoreAssumption
    <3> HIDE DEF low, high, low_all, high_all, score
    <3>2. sum[s] \in Int /\ low_all <= sum[s] /\ sum[s] <= high_all
      BY <3>1
    <3> QED BY <3>2 DEF low_all, high_all
  <2> QED BY <2>3, <2>12
<1>3. Right(T)
  <2>1. Cardinality(T) \in Nat /\ T \in SUBSET T
    BY FS_CardinalityType
  <2> HIDE DEF Right
  <2> QED BY <1>2, <2>1
<1> QED BY <1>1, <1>3

(* So the average of scores is a score: the division truncates towards     *)
(* zero.                                                                   *)
LEMMA AverageIsScore ==
  ASSUME NEW sum \in Int, NEW count \in Nat, count > 0,
         ScoreMin * count <= sum, sum <= ScoreMax * count
  PROVE  Quotient(sum, count) \in Score
<1>1. ScoreMin \in Int /\ ScoreMax \in Int /\ ScoreMin < 0 /\ 0 < ScoreMax
  BY ScoreAssumption
<1>2. \A a, h \in Nat : a <= h * count => a \div count \in Nat /\ a \div count <= h
  <2> SUFFICES ASSUME NEW a \in Nat, NEW h \in Nat, a <= h * count
               PROVE  a \div count \in Nat /\ a \div count <= h
    OBVIOUS
  <2> DEFINE q == a \div count
  <2>1. q \in Nat /\ q * count <= a
    OBVIOUS
  <2> HIDE DEF q
  <2>2. ~ (q > h)
    <3> SUFFICES ASSUME q > h PROVE FALSE
      OBVIOUS
    <3>1. (h + 1) * count <= q * count
      BY <2>1
    <3>2. (h + 1) * count = h * count + count
      OBVIOUS
    <3> QED BY <2>1, <3>1, <3>2
  <2> QED BY <2>1, <2>2 DEF q
<1>3. CASE sum < 0
  <2>1. -sum \in Nat /\ -ScoreMin \in Nat /\ -sum <= (-ScoreMin) * count
    BY <1>1, <1>3
  <2>2. (-sum) \div count \in Nat /\ (-sum) \div count <= -ScoreMin
    BY <1>2, <2>1
  <2>3. Quotient(sum, count) = -((-sum) \div count)
    BY <1>3 DEF Quotient
  <2> DEFINE q == (-sum) \div count
  <2> HIDE DEF q
  <2>4. q \in Nat /\ q <= -ScoreMin /\ Quotient(sum, count) = -q
    BY <2>2, <2>3 DEF q
  <2> QED BY <1>1, <2>4 DEF Score
<1>4. CASE ~ (sum < 0)
  <2>1. sum \in Nat /\ ScoreMax \in Nat /\ sum <= ScoreMax * count
    BY <1>1, <1>4
  <2>2. sum \div count \in Nat /\ sum \div count <= ScoreMax
    BY <1>2, <2>1
  <2>3. Quotient(sum, count) = sum \div count
    BY <1>4 DEF Quotient
  <2> QED BY <1>1, <2>2, <2>3 DEF Score
<1> QED BY <1>3, <1>4

LEMMA ImageIsFinite ==
  ASSUME NEW S, IsFiniteSet(S), NEW T, NEW f \in [S -> T],
         \A y \in T : \E x \in S : f[x] = y
  PROVE  IsFiniteSet(T)
<1>1. f \in Surjection(S, T)
  BY DEF Surjection
<1> QED BY <1>1, FS_Surjection

-----------------------------------------------------------------------------
(* The emissions a region stores: of each token the members emit, the      *)
(* average of its scores.                                                  *)
EmittedBy(group) == UNION {{<<i, p>> : p \in DOMAIN observations[i].emissions} : i \in group}

TokenAt(e) == observations[e[1]].emissions[e[2]].token

OfToken(group, token) == {e \in EmittedBy(group) : TokenAt(e) = token}

AverageOf(group, token) ==
  [token |-> token,
   score |-> Quotient(MapThenSumSet(ScoreAt, OfToken(group, token)),
                      Cardinality(OfToken(group, token)))]

LEMMA AveragesAre ==
  ASSUME NEW group
  PROVE  AverageEmissions(group) =
           {AverageOf(group, token) : token \in {TokenAt(e) : e \in EmittedBy(group)}}
BY DEF AverageEmissions, AverageOf, OfToken, TokenAt, EmittedBy, ScoreAt, MapThenSumSet,
       MapThenFoldSet

LEMMA EmittedIs ==
  ASSUME Types, NEW group \in SUBSET DOMAIN observations
  PROVE  /\ IsFiniteSet(EmittedBy(group))
         /\ \A e \in EmittedBy(group) : TokenAt(e) \in Tokens /\ ScoreAt(e) \in Score
         /\ \A i \in group : \A p \in DOMAIN observations[i].emissions :
              <<i, p>> \in EmittedBy(group)
<1> DEFINE Of(i) == {<<i, p>> : p \in DOMAIN observations[i].emissions}
           Lists == {Of(i) : i \in group}
<1>1. \A i \in group : /\ observations[i].emissions \in Seq(TokenScore)
                       /\ i \in 1 .. Len(observations)
  <2> SUFFICES ASSUME NEW i \in group
               PROVE  observations[i].emissions \in Seq(TokenScore) /\ i \in 1 .. Len(observations)
    OBVIOUS
  <2>1. i \in DOMAIN observations /\ observations \in Seq(Observation)
    BY DEF Types
  <2>2. observations[i] \in Observation /\ i \in 1 .. Len(observations)
    BY <2>1
  <2> QED BY <2>2 DEF Observation, Emissions
<1>2. IsFiniteSet(group)
  <2> DEFINE n == Len(observations)
  <2>1. n \in Nat
    BY DEF Types
  <2>2. group \in SUBSET (1 .. n)
    BY <1>1
  <2> HIDE DEF n
  <2>3. IsFiniteSet(1 .. n)
    BY <2>1, FS_Interval
  <2> QED BY <2>2, <2>3, FS_Subset
<1>3. \A i \in group : IsFiniteSet(Of(i))
  <2> SUFFICES ASSUME NEW i \in group PROVE IsFiniteSet(Of(i))
    OBVIOUS
  <2> DEFINE m == Len(observations[i].emissions)
             pair == [p \in 1 .. m |-> <<i, p>>]
  <2>1. m \in Nat /\ DOMAIN observations[i].emissions = 1 .. m
    BY <1>1
  <2>2. pair \in [1 .. m -> Of(i)] /\ \A y \in Of(i) : \E p \in 1 .. m : pair[p] = y
    BY <2>1
  <2> HIDE DEF m, pair, Of
  <2>3. IsFiniteSet(1 .. m)
    BY <2>1, FS_Interval
  <2> QED BY <2>2, <2>3, ImageIsFinite
<1>4. IsFiniteSet(Lists)
  <2> DEFINE list == [i \in group |-> Of(i)]
  <2> HIDE DEF Of
  <2>1. list \in [group -> Lists] /\ \A y \in Lists : \E i \in group : list[i] = y
    OBVIOUS
  <2> HIDE DEF list, Lists
  <2> QED BY <1>2, <2>1, ImageIsFinite
<1>5. EmittedBy(group) = UNION Lists
  BY DEF EmittedBy
<1>6. \A e \in EmittedBy(group) : TokenAt(e) \in Tokens /\ ScoreAt(e) \in Score
  <2> SUFFICES ASSUME NEW e \in EmittedBy(group) PROVE TokenAt(e) \in Tokens /\ ScoreAt(e) \in Score
    OBVIOUS
  <2>1. PICK i \in group : e \in Of(i)
    BY DEF EmittedBy
  <2>2. PICK p \in DOMAIN observations[i].emissions : e = <<i, p>>
    BY <2>1
  <2>3. observations[i].emissions[p] \in TokenScore
    BY <1>1, <2>2
  <2>4. e[1] = i /\ e[2] = p
    BY <2>2
  <2> QED BY <2>3, <2>4 DEF TokenAt, ScoreAt, TokenScore
<1>7. \A i \in group : \A p \in DOMAIN observations[i].emissions : <<i, p>> \in EmittedBy(group)
  BY DEF EmittedBy
<1> HIDE DEF Lists
<1>8. \A T \in Lists : IsFiniteSet(T)
  BY <1>3 DEF Lists
<1>9. IsFiniteSet(EmittedBy(group))
  BY <1>4, <1>5, <1>8, FS_UNION
<1> QED BY <1>6, <1>7, <1>9

LEMMA AveragesAreScores ==
  ASSUME Types, NEW group \in SUBSET DOMAIN observations
  PROVE  /\ IsFiniteSet(AverageEmissions(group))
         /\ AverageEmissions(group) \subseteq TokenScore
         /\ \A a, b \in AverageEmissions(group) : a.token = b.token => a = b
         /\ EmittedBy(group) # {} => AverageEmissions(group) # {}
<1> DEFINE emitted == EmittedBy(group)
           tokens == {TokenAt(e) : e \in emitted}
           average == [token \in tokens |-> AverageOf(group, token)]
<1>1. /\ IsFiniteSet(emitted)
      /\ \A e \in emitted : TokenAt(e) \in Tokens /\ ScoreAt(e) \in Score
  BY EmittedIs
<1>2. AverageEmissions(group) = {average[token] : token \in tokens}
  <2>1. AverageEmissions(group) = {AverageOf(group, token) : token \in tokens}
    BY AveragesAre
  <2> HIDE DEF tokens
  <2> QED BY <2>1
<1>3. IsFiniteSet(tokens)
  <2> DEFINE token == [e \in emitted |-> TokenAt(e)]
  <2>1. token \in [emitted -> tokens] /\ \A y \in tokens : \E e \in emitted : token[e] = y
    OBVIOUS
  <2> HIDE DEF token, emitted, tokens
  <2> QED BY <1>1, <2>1, ImageIsFinite
<1>4. \A token \in tokens : average[token] \in TokenScore /\ average[token].token = token
  <2> SUFFICES ASSUME NEW token \in tokens
               PROVE  average[token] \in TokenScore /\ average[token].token = token
    OBVIOUS
  <2> DEFINE of == OfToken(group, token)
             sum == MapThenSumSet(ScoreAt, of)
             count == Cardinality(of)
  <2>1. PICK e \in emitted : token = TokenAt(e)
    OBVIOUS
  <2>2. of \in SUBSET emitted /\ e \in of
    BY <2>1 DEF OfToken
  <2>3. IsFiniteSet(of) /\ \A d \in of : ScoreAt(d) \in Score
    BY <1>1, <2>2, FS_Subset
  <2> HIDE DEF of
  <2>4. count \in Nat /\ count > 0
    BY <2>2, <2>3, FS_CardinalityType, FS_EmptySet
  <2>5. sum \in Int /\ ScoreMin * count <= sum /\ sum <= ScoreMax * count
    BY <2>3, SumIsBounded
  <2> HIDE DEF sum, count
  <2>6. Quotient(sum, count) \in Score
    BY <2>4, <2>5, AverageIsScore
  <2>7. average[token] = [token |-> token, score |-> Quotient(sum, count)]
    BY DEF AverageOf, sum, count, of
  <2>8. token \in Tokens
    BY <1>1, <2>1
  <2> HIDE DEF average
  <2> QED BY <2>6, <2>7, <2>8 DEF TokenScore
<1>5. /\ average \in [tokens -> AverageEmissions(group)]
      /\ \A a \in AverageEmissions(group) : \E token \in tokens : average[token] = a
  <2>1. \A token \in tokens : average[token] \in AverageEmissions(group)
    BY <1>2
  <2>2. average = [token \in tokens |-> average[token]]
    OBVIOUS
  <2> HIDE DEF average, tokens
  <2> QED BY <1>2, <2>1, <2>2
<1>6. emitted # {} => tokens # {}
  OBVIOUS
<1> HIDE DEF average, tokens, emitted
<1>7. IsFiniteSet(AverageEmissions(group))
  BY <1>3, <1>5, ImageIsFinite
<1>8. \A a \in AverageEmissions(group) : \E token \in tokens : a = average[token]
  BY <1>5
<1>9. AverageEmissions(group) \subseteq TokenScore
  BY <1>4, <1>8
<1>10. \A a, b \in AverageEmissions(group) : a.token = b.token => a = b
  BY <1>4, <1>8
<1>11. emitted # {} => AverageEmissions(group) # {}
  BY <1>2, <1>6
<1> QED BY <1>7, <1>9, <1>10, <1>11 DEF emitted

LEMMA RegionEmissionsAre ==
  ASSUME Types, NEW group \in SUBSET DOMAIN observations
  PROVE  /\ RegionEmissions(group) \in Seq(TokenScore)
         /\ EmittedBy(group) # {} /\ config.max_region_emissions > 0
              => RegionEmissions(group) # << >>
<1> DEFINE S == AverageEmissions(group)
           preceding == [x \in S |-> {y \in S : TokenPrecedes(y, x)}]
           ranked == OrderOf(S, preceding)
           limit == config.max_region_emissions
           size == Smaller(Len(ranked), limit)
<1>1. /\ IsFiniteSet(S) /\ S \subseteq TokenScore
      /\ \A a, b \in S : a.token = b.token => a = b
      /\ EmittedBy(group) # {} => S # {}
  BY AveragesAreScores
<1>2. RegionEmissions(group) = SubSeq(ranked, 1, size)
  BY DEF RegionEmissions, InOrder
<1> HIDE DEF S
<1>3. IsOrder(S, preceding)
  <2>1. \A x \in S : x.score \in Int /\ x.token \in Nat
    <3>1. \A x \in TokenScore : x.score \in Int /\ x.token \in Nat
      <4>1. \A n \in Score : n \in Int
        BY ScoreAssumption DEF Score
      <4>2. \A x \in TokenScore : x.score \in Score /\ x.token \in Tokens
        BY DEF TokenScore
      <4> QED BY <4>1, <4>2, TokensAssumption
    <3> QED BY <1>1, <3>1
  <2>2. preceding \in [S -> SUBSET S]
    OBVIOUS
  <2>3. \A x, y \in S : x \in preceding[y] <=> TokenPrecedes(x, y)
    OBVIOUS
  <2>4. \A x \in S : ~ TokenPrecedes(x, x)
    BY <2>1 DEF TokenPrecedes
  <2>5. \A x, y, z \in S : TokenPrecedes(x, y) /\ TokenPrecedes(y, z) => TokenPrecedes(x, z)
    BY <2>1 DEF TokenPrecedes
  <2>6. \A x, y \in S : x = y \/ TokenPrecedes(x, y) \/ TokenPrecedes(y, x)
    <3> SUFFICES ASSUME NEW x \in S, NEW y \in S, x # y
                 PROVE  TokenPrecedes(x, y) \/ TokenPrecedes(y, x)
      OBVIOUS
    <3>1. x.token # y.token
      BY <1>1
    <3> QED BY <2>1, <3>1 DEF TokenPrecedes
  <2> HIDE DEF preceding
  <2> QED BY <2>2, <2>3, <2>4, <2>5, <2>6 DEF IsOrder
<1> HIDE DEF preceding
<1>4. ranked \in Seq(S) /\ Len(ranked) = Cardinality(S)
  BY <1>1, <1>3, OrderIs
<1>5. Len(ranked) \in Nat /\ limit \in Nat
  BY <1>4, ConfigFacts
<1>6. size \in Nat /\ size <= Len(ranked) /\ (Len(ranked) > 0 /\ limit > 0 => size > 0)
  BY <1>5 DEF Smaller
<1>7. ranked \in Seq(TokenScore)
  BY <1>1, <1>4, SeqMonotonic
<1> HIDE DEF ranked, size, limit
<1>8. SubSeq(ranked, 1, size) \in Seq(TokenScore) /\ Len(SubSeq(ranked, 1, size)) = size
  BY <1>6, <1>7
<1>9. EmittedBy(group) # {} /\ limit > 0 => size > 0
  <2>1. S # {} => Cardinality(S) # 0
    BY <1>1, FS_EmptySet
  <2> QED BY <1>1, <1>4, <1>5, <1>6, <2>1
<1>10. size > 0 => SubSeq(ranked, 1, size) # << >>
  <2> DEFINE front == SubSeq(ranked, 1, size)
  <2>1. Len(front) = size
    BY <1>8
  <2> HIDE DEF front
  <2>2. size > 0 => front # << >>
    <3>1. Len(<< >>) = 0
      OBVIOUS
    <3> QED BY <2>1, <3>1
  <2> QED BY <2>2 DEF front
<1> QED BY <1>2, <1>8, <1>9, <1>10 DEF limit

-----------------------------------------------------------------------------
(* The region index of a list of regions, whatever is in them: a bucket is *)
(* a list of regions, and holds every region that is near it.              *)
IndexRound(regions, bucket, kept, i) ==
  IF NearBucket(regions[i], bucket) THEN Append(kept, i) ELSE kept

IndexLoop ==
  INSTANCE RankedInsert_proofs WITH Capacity <- 0, Before <- LAMBDA x, y : x < y,
    Step <- IndexRound

LEMMA IndexLoops ==
  ASSUME NEW regions, NEW bucket \in Buckets
  PROVE  BuildRegionIndex(regions)[bucket]
           = IndexLoop!Folded(regions, bucket, << >>, [i \in DOMAIN regions |-> i])
BY DEF BuildRegionIndex, IndexLoop!Folded, IndexRound,
       FoldLeftDomain, FoldLeft, MapThenFoldSet, Max,
       IndexLoop!MapThenFoldSet, IndexLoop!Greatest

(* The bucket after the first n regions.                                   *)
Listed(regions, bucket, n) ==
  {list \in Seq(1 .. Len(regions)) :
     \A i \in 1 .. n : NearBucket(regions[i], bucket) => \E k \in 1 .. Len(list) : list[k] = i}

LEMMA IndexRoundLists ==
  ASSUME NEW R, NEW regions \in Seq(R), NEW bucket, NEW n \in 1 .. Len(regions),
         NEW list \in Listed(regions, bucket, n - 1)
  PROVE  IndexRound(regions, bucket, list, n) \in Listed(regions, bucket, n)
<1>1. /\ list \in Seq(1 .. Len(regions)) /\ Len(list) \in Nat /\ n \in Nat
      /\ \A i \in 1 .. n - 1 :
           NearBucket(regions[i], bucket) => \E k \in 1 .. Len(list) : list[k] = i
  BY DEF Listed
<1>2. \A i \in 1 .. n : i \in 1 .. n - 1 \/ i = n
  BY <1>1
<1>3. CASE NearBucket(regions[n], bucket)
  <2> DEFINE more == Append(list, n)
  <2>1. /\ more \in Seq(1 .. Len(regions)) /\ Len(more) = Len(list) + 1
        /\ more[Len(list) + 1] = n /\ \A k \in 1 .. Len(list) : more[k] = list[k]
    BY <1>1, AppendProperties
  <2>2. IndexRound(regions, bucket, list, n) = more
    BY <1>3 DEF IndexRound
  <2> HIDE DEF more
  <2>3. Len(list) + 1 \in 1 .. Len(more) /\ \A k \in 1 .. Len(list) : k \in 1 .. Len(more)
    BY <1>1, <2>1
  <2>4. \A i \in 1 .. n : NearBucket(regions[i], bucket) => \E k \in 1 .. Len(more) : more[k] = i
    <3> SUFFICES ASSUME NEW i \in 1 .. n, NearBucket(regions[i], bucket)
                 PROVE  \E k \in 1 .. Len(more) : more[k] = i
      OBVIOUS
    <3>1. CASE i = n
      BY <2>1, <2>3, <3>1
    <3>2. CASE i # n
      <4>1. PICK k \in 1 .. Len(list) : list[k] = i
        BY <1>1, <1>2, <3>2
      <4> QED BY <2>1, <2>3, <4>1
    <3> QED BY <3>1, <3>2
  <2> QED BY <2>1, <2>2, <2>4 DEF Listed
<1>4. CASE ~ NearBucket(regions[n], bucket)
  <2>1. IndexRound(regions, bucket, list, n) = list
    BY <1>4 DEF IndexRound
  <2> QED BY <1>1, <1>2, <1>4, <2>1 DEF Listed
<1> QED BY <1>3, <1>4

LEMMA IndexIs ==
  ASSUME NEW R, NEW regions \in Seq(R)
  PROVE  /\ BuildRegionIndex(regions) \in [Buckets -> Seq(1 .. Len(regions))]
         /\ \A bucket \in Buckets : \A i \in 1 .. Len(regions) :
              NearBucket(regions[i], bucket) =>
                \E k \in 1 .. Len(BuildRegionIndex(regions)[bucket]) :
                  BuildRegionIndex(regions)[bucket][k] = i
<1> DEFINE index == BuildRegionIndex(regions)
           numbers == [i \in DOMAIN regions |-> i]
           n == Len(regions)
<1>1. n \in Nat /\ numbers \in Seq(1 .. n) /\ Len(numbers) = n /\ \A i \in 1 .. n : numbers[i] = i
  OBVIOUS
<1>2. \A bucket \in Buckets : index[bucket] \in Listed(regions, bucket, n)
  <2> SUFFICES ASSUME NEW bucket \in Buckets PROVE index[bucket] \in Listed(regions, bucket, n)
    OBVIOUS
  <2> DEFINE V == [m \in 0 .. n |-> Listed(regions, bucket, m)]
  <2>1. \A m \in 0 .. n : V[m] = Listed(regions, bucket, m)
    OBVIOUS
  <2>2. << >> \in V[0]
    <3>1. << >> \in Seq(1 .. n) /\ \A i \in 1 .. 0 : FALSE
      OBVIOUS
    <3>2. << >> \in Listed(regions, bucket, 0)
      BY <3>1 DEF Listed
    <3> QED BY <1>1, <2>1, <3>2
  <2> HIDE DEF V
  <2>3. \A m \in 1 .. n : \A list \in V[m - 1] :
          IndexRound(regions, bucket, list, numbers[m]) \in V[m]
    <3> SUFFICES ASSUME NEW m \in 1 .. n, NEW list \in V[m - 1]
                 PROVE  IndexRound(regions, bucket, list, m) \in V[m]
      BY <1>1
    <3>1. m \in 0 .. n /\ m - 1 \in 0 .. n
      BY <1>1
    <3>2. V[m] = Listed(regions, bucket, m) /\ V[m - 1] = Listed(regions, bucket, m - 1)
      BY <2>1, <3>1
    <3> QED BY <3>2, IndexRoundLists
  <2>4. index[bucket] = IndexLoop!Folded(regions, bucket, << >>, numbers)
    BY IndexLoops
  <2>5. n \in 0 .. n
    BY <1>1
  <2> HIDE DEF numbers, n
  <2>6. IndexLoop!Folded(regions, bucket, << >>, numbers) \in V[n]
    <3>1. Len(numbers) = n /\ numbers \in Seq(1 .. n)
      BY <1>1
    <3> QED BY <2>2, <2>3, <3>1, IndexLoop!FoldKeeps
  <2> QED BY <2>1, <2>4, <2>5, <2>6
<1>3. index = [bucket \in Buckets |-> index[bucket]]
  BY DEF BuildRegionIndex
<1> HIDE DEF index
<1> QED BY <1>2, <1>3 DEF Listed, index

(* The buckets in some order, each of them once.                           *)
LEMMA BucketOrderIs ==
  /\ BucketOrder \in Seq(Buckets)
  /\ \A bucket \in Buckets : \E b \in 1 .. Len(BucketOrder) : BucketOrder[b] = bucket
  /\ \A a, b \in 1 .. Len(BucketOrder) : BucketOrder[a] = BucketOrder[b] => a = b
<1> DEFINE n == Cardinality(Buckets)
<1>1. IsFiniteSet(Buckets)
  <2>1. IsFiniteSet(LowBits)
    BY BitsAssumption, LowBitsAssumption, FS_Subset
  <2> QED BY <2>1, FS_SUBSET DEF Buckets
<1>2. n \in Nat /\ ExistsBijection(1 .. n, Buckets)
  BY <1>1, FS_CardinalityType
<1>3. IsFiniteSet(1 .. n) /\ Cardinality(1 .. n) = n
  <2> HIDE DEF n
  <2> QED BY <1>2, FS_Interval
<1>4. PICK f : f \in Bijection(1 .. n, Buckets)
  BY <1>2 DEF ExistsBijection
<1>5. f \in [1 .. n -> Buckets] /\ IsInjective(f)
  BY <1>4 DEF Bijection, Injection, Surjection, IsInjective
<1>6. BucketOrder \in [1 .. n -> Buckets] /\ IsInjective(BucketOrder)
  BY <1>5 DEF BucketOrder, SetToSeq
<1> HIDE DEF n
<1>7. BucketOrder \in Seq(Buckets) /\ Len(BucketOrder) = n
  BY <1>2, <1>6
<1>8. BucketOrder \in Injection(1 .. n, Buckets)
  BY <1>6 DEF Injection, IsInjective
<1>9. BucketOrder \in Surjection(1 .. n, Buckets)
  BY <1>1, <1>3, <1>8, FS_Injection DEF n
<1> QED BY <1>6, <1>7, <1>9 DEF IsInjective, Surjection

-----------------------------------------------------------------------------
(* What the compiler hands to the writer.                                  *)
CompiledRegion ==
  [region_id : Nat, path_id : Nat, depth : Nat, radius : Nat, path : Seq(Nat),
   prototype : Code, mask : Code, emissions : Emissions]

Writable(a) ==
  /\ a = [exact |-> a.exact, regions |-> a.regions, index |-> a.index]
  /\ a.exact \in Seq(ExactRecord)
  /\ a.regions \in Seq(CompiledRegion)
  /\ a.index \in [Buckets -> Seq(1 .. Len(a.regions))]

(* The lists it concatenates: the emissions of the records, first those of *)
(* the exact ones, and the buckets of the index.                           *)
ListsOf(a) ==
  [k \in DOMAIN a.exact |-> a.exact[k].emissions]
    \o [k \in DOMAIN a.regions |-> a.regions[k].emissions]

BucketsOf(a) == [b \in DOMAIN BucketOrder |-> a.index[BucketOrder[b]]]

Packed(record, start) ==
  [record |-> [record EXCEPT !.emissions = << >>],
   emission_start |-> start, emission_len |-> Len(record.emissions)]

LEMMA ListsAre ==
  ASSUME NEW a, Writable(a)
  PROVE  /\ ListsOf(a) \in Seq(Emissions)
         /\ Len(ListsOf(a)) = Len(a.exact) + Len(a.regions)
         /\ Len(a.exact) \in Nat /\ Len(a.regions) \in Nat
         /\ \A k \in 1 .. Len(a.exact) : ListsOf(a)[k] = a.exact[k].emissions
         /\ \A k \in 1 .. Len(a.regions) : ListsOf(a)[Len(a.exact) + k] = a.regions[k].emissions
         /\ BucketsOf(a) \in Seq(Seq(1 .. Len(a.regions)))
         /\ Len(BucketsOf(a)) = Len(BucketOrder) /\ Len(BucketOrder) \in Nat
         /\ \A b \in 1 .. Len(BucketOrder) : BucketsOf(a)[b] = a.index[BucketOrder[b]]
<1> DEFINE exact == [k \in DOMAIN a.exact |-> a.exact[k].emissions]
           regions == [k \in DOMAIN a.regions |-> a.regions[k].emissions]
<1>1. /\ exact \in Seq(Emissions) /\ Len(exact) = Len(a.exact) /\ Len(a.exact) \in Nat
      /\ \A k \in 1 .. Len(a.exact) : exact[k] = a.exact[k].emissions
  <2>1. a.exact \in Seq(ExactRecord)
    BY DEF Writable
  <2>2. Len(a.exact) \in Nat /\ DOMAIN a.exact = 1 .. Len(a.exact)
    BY <2>1
  <2>3. \A k \in 1 .. Len(a.exact) : a.exact[k] \in ExactRecord
    BY <2>1
  <2>4. \A k \in 1 .. Len(a.exact) : a.exact[k].emissions \in Emissions
    BY <2>3 DEF ExactRecord
  <2>5. \A k \in 1 .. Len(a.exact) : exact[k] = a.exact[k].emissions
    BY <2>2
  <2> QED BY <2>2, <2>4, <2>5
<1>2. /\ regions \in Seq(Emissions) /\ Len(regions) = Len(a.regions) /\ Len(a.regions) \in Nat
      /\ \A k \in 1 .. Len(a.regions) : regions[k] = a.regions[k].emissions
  <2>1. a.regions \in Seq(CompiledRegion)
    BY DEF Writable
  <2>2. Len(a.regions) \in Nat /\ DOMAIN a.regions = 1 .. Len(a.regions)
    BY <2>1
  <2>3. \A k \in 1 .. Len(a.regions) : a.regions[k] \in CompiledRegion
    BY <2>1
  <2>4. \A k \in 1 .. Len(a.regions) : a.regions[k].emissions \in Emissions
    BY <2>3 DEF CompiledRegion
  <2>5. \A k \in 1 .. Len(a.regions) : regions[k] = a.regions[k].emissions
    BY <2>2
  <2> QED BY <2>2, <2>4, <2>5
<1>3. /\ BucketsOf(a) \in Seq(Seq(1 .. Len(a.regions)))
      /\ Len(BucketsOf(a)) = Len(BucketOrder) /\ Len(BucketOrder) \in Nat
      /\ \A b \in 1 .. Len(BucketOrder) : BucketsOf(a)[b] = a.index[BucketOrder[b]]
  <2>1. BucketOrder \in Seq(Buckets)
    BY BucketOrderIs
  <2>2. Len(BucketOrder) \in Nat /\ DOMAIN BucketOrder = 1 .. Len(BucketOrder)
    BY <2>1
  <2>3. \A b \in 1 .. Len(BucketOrder) : BucketOrder[b] \in Buckets
    BY <2>1
  <2>4. \A b \in 1 .. Len(BucketOrder) : a.index[BucketOrder[b]] \in Seq(1 .. Len(a.regions))
    BY <2>3 DEF Writable
  <2>5. \A b \in 1 .. Len(BucketOrder) : BucketsOf(a)[b] = a.index[BucketOrder[b]]
    BY <2>2 DEF BucketsOf
  <2> QED BY <2>2, <2>4, <2>5 DEF BucketsOf
<1>4. ListsOf(a) = exact \o regions
  BY DEF ListsOf
<1> HIDE DEF exact, regions
<1> DEFINE ne == Len(a.exact)
           nr == Len(a.regions)
<1>a. /\ exact \in Seq(Emissions) /\ Len(exact) = ne /\ ne \in Nat
      /\ regions \in Seq(Emissions) /\ Len(regions) = nr /\ nr \in Nat
      /\ \A k \in 1 .. ne : exact[k] = a.exact[k].emissions
      /\ \A k \in 1 .. nr : regions[k] = a.regions[k].emissions
  BY <1>1, <1>2
<1> HIDE DEF ne, nr
<1>5. /\ exact \o regions \in Seq(Emissions)
      /\ Len(exact \o regions) = ne + nr
      /\ \A i \in 1 .. ne + nr :
           (exact \o regions)[i] = IF i <= ne THEN exact[i] ELSE regions[i - ne]
  <2>1. exact \in Seq(Emissions) /\ regions \in Seq(Emissions)
    BY <1>a
  <2>2. /\ exact \o regions \in Seq(Emissions)
        /\ Len(exact \o regions) = Len(exact) + Len(regions)
    BY <2>1
  <2>3. \A i \in 1 .. Len(exact) + Len(regions) :
           (exact \o regions)[i] = IF i <= Len(exact) THEN exact[i] ELSE regions[i - Len(exact)]
    BY <2>1, ConcatProperties
  <2> QED BY <1>a, <2>2, <2>3
<1>6. \A k \in 1 .. Len(a.exact) : ListsOf(a)[k] = a.exact[k].emissions
  <2> SUFFICES ASSUME NEW k \in 1 .. ne PROVE ListsOf(a)[k] = a.exact[k].emissions
    BY DEF ne
  <2>1. k \in 1 .. ne + nr /\ k <= ne
    BY <1>a
  <2> QED BY <1>a, <1>4, <1>5, <2>1
<1>7. \A k \in 1 .. Len(a.regions) : ListsOf(a)[Len(a.exact) + k] = a.regions[k].emissions
  <2> SUFFICES ASSUME NEW k \in 1 .. nr
               PROVE  ListsOf(a)[ne + k] = a.regions[k].emissions
    BY DEF ne, nr
  <2> DEFINE i == ne + k
  <2>1. i \in 1 .. ne + nr /\ ~ (i <= ne) /\ i - ne = k
    BY <1>a
  <2> HIDE DEF i
  <2>2. (exact \o regions)[i] = regions[k]
    BY <1>5, <2>1
  <2> QED BY <1>a, <1>4, <2>2 DEF i
<1> QED BY <1>a, <1>3, <1>4, <1>5, <1>6, <1>7 DEF ne, nr

LEMMA StartsAre ==
  ASSUME NEW S, NEW lists \in Seq(S)
  PROVE  /\ Starts(lists) \in [1 .. Len(lists) -> {Len(Joined(lists, k - 1)) : k \in 1 .. Len(lists)}]
         /\ \A k \in 1 .. Len(lists) : Starts(lists)[k] = Len(Joined(lists, k - 1))
<1>1. DOMAIN lists = 1 .. Len(lists)
  OBVIOUS
<1> QED BY <1>1 DEF Starts, Joined

(* The file, told by its lists.                                            *)
LEMMA PackIs ==
  ASSUME NEW a, Writable(a)
  PROVE  LET file == Pack(a)
             lists == ListsOf(a)
             buckets == BucketsOf(a)
             all == FlattenSeq(buckets)
         IN  /\ file.exact = [k \in 1 .. Len(a.exact) |->
                                Packed(a.exact[k], Len(Joined(lists, k - 1)))]
             /\ file.regions = [k \in 1 .. Len(a.regions) |->
                                  Packed(a.regions[k],
                                         Len(Joined(lists, Len(a.exact) + k - 1)))]
             /\ file.emissions = FlattenSeq(lists)
             /\ Len(file.positions) = Len(BucketOrder) + 1
             /\ DOMAIN file.positions = 1 .. Len(BucketOrder) + 1
             /\ \A b \in 1 .. Len(BucketOrder) + 1 :
                  file.positions[b] = Len(Joined(buckets, b - 1))
             /\ file.entries = [p \in DOMAIN all |-> all[p] - 1]
<1> DEFINE lists == ListsOf(a)
           buckets == BucketsOf(a)
           all == FlattenSeq(buckets)
           starts == Starts(lists)
           ne == Len(a.exact)
           nr == Len(a.regions)
           nb == Len(BucketOrder)
           file == Pack(a)
           rest == SubSeq(starts, Len([k \in DOMAIN a.exact |-> a.exact[k].emissions]) + 1,
                          Len(starts))
<1>1. /\ file.exact = PackRecords(a.exact, starts)
      /\ file.regions = PackRecords(a.regions, rest)
      /\ file.emissions = FlattenSeq(lists)
      /\ file.positions = Append(Starts(buckets), Len(all))
      /\ file.entries = [p \in DOMAIN all |-> all[p] - 1]
  BY DEF Pack, ListsOf, BucketsOf
<1>2. /\ lists \in Seq(Emissions) /\ Len(lists) = ne + nr /\ ne \in Nat /\ nr \in Nat
      /\ buckets \in Seq(Seq(1 .. nr)) /\ Len(buckets) = nb /\ nb \in Nat
  BY ListsAre
<1>3. DOMAIN a.exact = 1 .. ne /\ DOMAIN a.regions = 1 .. nr
  BY DEF Writable
<1>4. Len([k \in DOMAIN a.exact |-> a.exact[k].emissions]) = ne
  BY <1>2, <1>3
<1> HIDE DEF lists, buckets
<1>5. /\ DOMAIN starts = 1 .. ne + nr
      /\ \A k \in 1 .. ne + nr : starts[k] = Len(Joined(lists, k - 1))
  BY <1>2, StartsAre
<1> HIDE DEF starts, ne, nr, nb
<1>6. \A k \in 1 .. ne : k \in 1 .. ne + nr
  BY <1>2
<1>7. file.exact = [k \in 1 .. ne |-> Packed(a.exact[k], Len(Joined(lists, k - 1)))]
  <2>1. \A k \in 1 .. ne : starts[k] = Len(Joined(lists, k - 1))
    BY <1>5, <1>6
  <2>2. file.exact = [k \in 1 .. ne |-> Packed(a.exact[k], starts[k])]
    BY <1>1, <1>3 DEF PackRecords, Packed
  <2> QED BY <2>1, <2>2
<1>8. \A k \in 1 .. nr : rest[k] = starts[ne + k]
  <2>1. Len(starts) = ne + nr
    <3>1. ne + nr \in Nat
      BY <1>2
    <3> QED BY <1>5, <3>1
  <2>2. rest = SubSeq(starts, ne + 1, ne + nr)
    BY <1>4, <2>1
  <2>3. \A m, n \in Int : \A i \in 1 .. n - m + 1 : SubSeq(starts, m, n)[i] = starts[m + i - 1]
    BY DEF SubSeq
  <2> SUFFICES ASSUME NEW k \in 1 .. nr PROVE rest[k] = starts[ne + k]
    OBVIOUS
  <2>4. /\ ne + 1 \in Int /\ ne + nr \in Int /\ (ne + nr) - (ne + 1) + 1 = nr
        /\ ne + 1 + k - 1 = ne + k
    BY <1>2
  <2>5. SubSeq(starts, ne + 1, ne + nr)[k] = starts[ne + 1 + k - 1]
    BY <2>3, <2>4
  <2> QED BY <2>2, <2>4, <2>5
<1> HIDE DEF rest
<1>9. file.regions = [k \in 1 .. nr |-> Packed(a.regions[k], Len(Joined(lists, ne + k - 1)))]
  <2>1. \A k \in 1 .. nr : ne + k \in 1 .. ne + nr
    BY <1>2
  <2>2. \A k \in 1 .. nr : rest[k] = Len(Joined(lists, ne + k - 1))
    <3> SUFFICES ASSUME NEW k \in 1 .. nr PROVE rest[k] = Len(Joined(lists, ne + k - 1))
      OBVIOUS
    <3> DEFINE i == ne + k
    <3>0. i - 1 = ne + k - 1
      BY <1>2
    <3>1. i \in 1 .. ne + nr /\ rest[k] = starts[i]
      BY <1>8, <2>1
    <3> HIDE DEF i
    <3>2. rest[k] = Len(Joined(lists, i - 1))
      BY <1>5, <3>1
    <3> QED BY <3>0, <3>2
  <2>3. file.regions = [k \in 1 .. nr |-> Packed(a.regions[k], rest[k])]
    BY <1>1, <1>3 DEF PackRecords, Packed
  <2> QED BY <2>2, <2>3
<1>10. /\ DOMAIN Starts(buckets) = 1 .. nb /\ Len(Starts(buckets)) = nb
       /\ \A b \in 1 .. nb : Starts(buckets)[b] = Len(Joined(buckets, b - 1))
  <2>1. /\ DOMAIN Starts(buckets) = 1 .. nb
        /\ \A b \in 1 .. nb : Starts(buckets)[b] = Len(Joined(buckets, b - 1))
    BY <1>2, StartsAre
  <2> QED BY <1>2, <2>1
<1>11. Len(all) = Len(Joined(buckets, nb))
  BY <1>2, JoinedNext
<1> HIDE DEF all, file
<1>12. /\ Len(file.positions) = nb + 1 /\ DOMAIN file.positions = 1 .. nb + 1
       /\ \A b \in 1 .. nb + 1 : file.positions[b] = Len(Joined(buckets, b - 1))
  <2> DEFINE few == Starts(buckets)
             last == Len(all)
             any == {few[b] : b \in 1 .. nb} \cup {last}
             more == Append(few, last)
  <2>1. few = [b \in 1 .. nb |-> few[b]]
    BY <1>10 DEF Starts
  <2>2. file.positions = more
    BY <1>1
  <2>3. few[1] = few[1] /\ \A b \in 1 .. nb : few[b] \in any
    OBVIOUS
  <2>4. last \in any
    OBVIOUS
  <2>5. DOMAIN few = 1 .. nb /\ Len(few) = nb
    BY <1>10
  <2> HIDE DEF few, last, any
  <2>6. few \in Seq(any)
    <3>1. few \in [1 .. nb -> any]
      BY <2>1, <2>3
    <3> QED BY <1>2, <3>1
  <2>7. /\ more \in Seq(any) /\ Len(more) = nb + 1
        /\ \A b \in 1 .. nb : more[b] = few[b] /\ more[nb + 1] = last
    BY <2>4, <2>5, <2>6, AppendProperties
  <2>8. more[nb + 1] = last
    BY <2>4, <2>5, <2>6, AppendProperties
  <2> HIDE DEF more
  <2>9. DOMAIN more = 1 .. nb + 1
    BY <2>7
  <2>10. \A b \in 1 .. nb + 1 : more[b] = Len(Joined(buckets, b - 1))
    <3> SUFFICES ASSUME NEW b \in 1 .. nb + 1 PROVE more[b] = Len(Joined(buckets, b - 1))
      OBVIOUS
    <3>1. CASE b \in 1 .. nb
      BY <1>10, <2>7, <3>1 DEF few
    <3>2. CASE b \notin 1 .. nb
      <4>1. b = nb + 1 /\ b - 1 = nb
        BY <1>2, <3>2
      <4> QED BY <1>11, <2>8, <4>1 DEF last
    <3> QED BY <3>1, <3>2
  <2> QED BY <2>2, <2>7, <2>9, <2>10
<1> QED BY <1>1, <1>7, <1>9, <1>12 DEF lists, buckets, all, ne, nr, nb, file

(* A record with its emissions taken out and put back is the record.       *)
LEMMA RecordRestored ==
  /\ \A r \in ExactRecord :
       [[r EXCEPT !.emissions = << >>] EXCEPT !.emissions = r.emissions] = r
  /\ \A r \in CompiledRegion :
       [[r EXCEPT !.emissions = << >>] EXCEPT !.emissions = r.emissions] = r
BY DEF ExactRecord, CompiledRegion

(* A packed list of records is read back from the shared table.            *)
Read(records, emissions) ==
  [k \in DOMAIN records |->
     [records[k].record EXCEPT !.emissions =
        SubSeq(emissions, records[k].emission_start + 1,
               records[k].emission_start + records[k].emission_len)]]

LEMMA ReadBack ==
  ASSUME NEW R, R = ExactRecord \/ R = CompiledRegion,
         NEW records \in Seq(R), NEW lists \in Seq(Emissions), NEW before \in Nat,
         before + Len(records) <= Len(lists),
         \A k \in 1 .. Len(records) : lists[before + k] = records[k].emissions
  PROVE  LET packed == [k \in 1 .. Len(records) |->
                          Packed(records[k], Len(Joined(lists, before + k - 1)))]
         IN  /\ Read(packed, FlattenSeq(lists)) = records
             /\ \A k \in 1 .. Len(records) :
                  packed[k].emission_start + packed[k].emission_len <= Len(FlattenSeq(lists))
<1> DEFINE n == Len(records)
           all == FlattenSeq(lists)
           start == [k \in 1 .. n |-> Len(Joined(lists, before + k - 1))]
           packed == [k \in 1 .. n |-> Packed(records[k], Len(Joined(lists, before + k - 1)))]
<1>1. n \in Nat /\ DOMAIN records = 1 .. n /\ records = [k \in 1 .. n |-> records[k]]
      /\ Len(lists) \in Nat
  OBVIOUS
<1>2. \A k \in 1 .. n : records[k] \in R
  OBVIOUS
<1>3. \A k \in 1 .. n :
        /\ start[k] \in Nat /\ Len(records[k].emissions) \in Nat
        /\ start[k] + Len(records[k].emissions) <= Len(all)
        /\ SubSeq(all, start[k] + 1, start[k] + Len(records[k].emissions)) = records[k].emissions
  <2> SUFFICES ASSUME NEW k \in 1 .. n
               PROVE  /\ start[k] \in Nat /\ Len(records[k].emissions) \in Nat
                      /\ start[k] + Len(records[k].emissions) <= Len(all)
                      /\ SubSeq(all, start[k] + 1, start[k] + Len(records[k].emissions))
                           = records[k].emissions
    OBVIOUS
  <2> DEFINE i == before + k
  <2>1. i \in 1 .. Len(lists) /\ i - 1 = before + k - 1
    BY <1>1
  <2>2. lists[i] = records[k].emissions
    OBVIOUS
  <2>3. start[k] = Len(Joined(lists, i - 1))
    BY <2>1
  <2> HIDE DEF i, start, all, n
  <2>4. /\ Len(Joined(lists, i - 1)) \in Nat /\ Len(lists[i]) \in Nat
        /\ Len(Joined(lists, i - 1)) + Len(lists[i]) <= Len(all)
        /\ SubSeq(all, Len(Joined(lists, i - 1)) + 1, Len(Joined(lists, i - 1)) + Len(lists[i]))
             = lists[i]
    BY <2>1, ListIsFound DEF Emissions, all
  <2> QED BY <2>2, <2>3, <2>4
<1>4. /\ DOMAIN packed = 1 .. n
      /\ \A k \in 1 .. n : packed[k] = Packed(records[k], start[k])
  OBVIOUS
<1> HIDE DEF packed, start, all, n
<1>5. \A k \in 1 .. n : /\ packed[k].record = [records[k] EXCEPT !.emissions = << >>]
                        /\ packed[k].emission_start = start[k]
                        /\ packed[k].emission_len = Len(records[k].emissions)
  <2> SUFFICES ASSUME NEW k \in 1 .. n
               PROVE  /\ packed[k].record = [records[k] EXCEPT !.emissions = << >>]
                      /\ packed[k].emission_start = start[k]
                      /\ packed[k].emission_len = Len(records[k].emissions)
    OBVIOUS
  <2> DEFINE r == records[k]
             bare == [r EXCEPT !.emissions = << >>]
             len == Len(r.emissions)
             s == start[k]
  <2>1. packed[k] = [record |-> bare, emission_start |-> s, emission_len |-> len]
    BY <1>4 DEF Packed
  <2> HIDE DEF bare, len, s
  <2>2. packed[k].record = bare /\ packed[k].emission_start = s /\ packed[k].emission_len = len
    BY <2>1
  <2> QED BY <2>2 DEF bare, len, s
<1>6. \A k \in 1 .. n :
        [packed[k].record EXCEPT !.emissions =
           SubSeq(all, packed[k].emission_start + 1,
                  packed[k].emission_start + packed[k].emission_len)] = records[k]
  <2> SUFFICES ASSUME NEW k \in 1 .. n
               PROVE  [packed[k].record EXCEPT !.emissions =
                         SubSeq(all, packed[k].emission_start + 1,
                                packed[k].emission_start + packed[k].emission_len)] = records[k]
    OBVIOUS
  <2> DEFINE r == records[k]
             part == SubSeq(all, packed[k].emission_start + 1,
                            packed[k].emission_start + packed[k].emission_len)
  <2>1. part = r.emissions
    BY <1>3, <1>5
  <2>2. [[r EXCEPT !.emissions = << >>] EXCEPT !.emissions = r.emissions] = r
    <3>1. r \in ExactRecord \/ r \in CompiledRegion
      BY <1>2
    <3> HIDE DEF r
    <3> QED BY <3>1, RecordRestored
  <2>3. packed[k].record = [r EXCEPT !.emissions = << >>]
    BY <1>5
  <2> HIDE DEF part, r
  <2>4. [packed[k].record EXCEPT !.emissions = part] = r
    BY <2>1, <2>2, <2>3
  <2> QED BY <2>4 DEF part, r
<1>7. Read(packed, all) = [k \in 1 .. n |-> records[k]]
  BY <1>4, <1>6 DEF Read
<1>8. \A k \in 1 .. n : packed[k].emission_start + packed[k].emission_len <= Len(all)
  BY <1>3, <1>5
<1> QED BY <1>1, <1>7, <1>8 DEF n, packed, all

(* The index is read back from its entries and positions.                  *)
NumberOf(bucket) == CHOOSE b \in DOMAIN BucketOrder : BucketOrder[b] = bucket

LEMMA NumberIs ==
  ASSUME NEW bucket \in Buckets
  PROVE  NumberOf(bucket) \in 1 .. Len(BucketOrder) /\ BucketOrder[NumberOf(bucket)] = bucket
<1>1. DOMAIN BucketOrder = 1 .. Len(BucketOrder)
  BY BucketOrderIs
<1>2. \E b \in DOMAIN BucketOrder : BucketOrder[b] = bucket
  BY <1>1, BucketOrderIs
<1> QED BY <1>1, <1>2 DEF NumberOf

LEMMA PartIs ==
  ASSUME NEW S, NEW list \in Seq(S), NEW start \in Nat, NEW n \in Nat, start + n <= Len(list)
  PROVE  LET part == SubSeq(list, start + 1, start + n)
         IN  /\ part \in Seq(S) /\ Len(part) = n
             /\ \A p \in 1 .. n : part[p] = list[start + p] /\ start + p \in 1 .. Len(list)
<1>1. Len(list) \in Nat /\ \A p \in 1 .. n : start + p \in 1 .. Len(list)
  OBVIOUS
<1>2. \A i \in start + 1 .. start + n : list[i] \in S
  <2>1. \A i \in start + 1 .. start + n : i \in 1 .. Len(list)
    BY <1>1
  <2> QED BY <2>1
<1> DEFINE a == start + 1
           b == start + n
<1>3. a \in Int /\ b \in Int /\ b - a + 1 = n /\ (a <= b <=> n # 0)
  OBVIOUS
<1>4. \A p \in 1 .. n : a + p - 1 = start + p
  OBVIOUS
<1> HIDE DEF a, b
<1>5. /\ SubSeq(list, a, b) \in Seq(S)
      /\ Len(SubSeq(list, a, b)) = IF a <= b THEN b - a + 1 ELSE 0
      /\ \A i \in 1 .. b - a + 1 : SubSeq(list, a, b)[i] = list[a + i - 1]
  BY <1>2, <1>3, SubSeqProperties DEF a, b
<1>6. Len(SubSeq(list, a, b)) = n
  BY <1>3, <1>5
<1>7. \A p \in 1 .. n : SubSeq(list, a, b)[p] = list[start + p]
  BY <1>3, <1>4, <1>5
<1> QED BY <1>1, <1>5, <1>6, <1>7 DEF a, b

Raised(part) == [p \in DOMAIN part |-> part[p] + 1]

LEMMA BucketReadBack ==
  ASSUME NEW m \in Nat, NEW buckets \in Seq(Seq(1 .. m)), NEW b \in 1 .. Len(buckets),
         NEW entries, entries = [p \in DOMAIN FlattenSeq(buckets) |-> FlattenSeq(buckets)[p] - 1]
  PROVE  LET part == SubSeq(entries, Len(Joined(buckets, b - 1)) + 1, Len(Joined(buckets, b)))
         IN  Raised(part) = buckets[b]
<1> DEFINE all == FlattenSeq(buckets)
           start == Len(Joined(buckets, b - 1))
           end == Len(Joined(buckets, b))
           list == buckets[b]
           n == Len(list)
           part == SubSeq(entries, start + 1, end)
           old == SubSeq(all, start + 1, end)
<1>1. /\ all \in Seq(1 .. m) /\ start \in Nat /\ n \in Nat /\ start + n <= Len(all)
      /\ end = start + n /\ SubSeq(all, start + 1, start + n) = list
  BY ListIsFound
<1>2. list \in Seq(1 .. m)
  OBVIOUS
<1> HIDE DEF all, start, end, list
<1>3. Len(all) \in Nat /\ DOMAIN all = 1 .. Len(all) /\ \A p \in 1 .. Len(all) : all[p] \in Int
  BY <1>1
<1>4. entries \in Seq(Int) /\ Len(entries) = Len(all)
      /\ \A p \in 1 .. Len(all) : entries[p] = all[p] - 1
  BY <1>3 DEF all
<1>5. n \in Nat /\ DOMAIN list = 1 .. n /\ list = [p \in 1 .. n |-> list[p]]
  BY <1>2
<1> HIDE DEF n
<1>6. /\ part \in Seq(Int) /\ Len(part) = n
      /\ \A p \in 1 .. n : part[p] = entries[start + p]
  <2>1. start + n <= Len(entries) /\ end = start + n /\ start \in Nat /\ n \in Nat
    BY <1>1, <1>4, <1>5
  <2>2. /\ SubSeq(entries, start + 1, start + n) \in Seq(Int)
        /\ Len(SubSeq(entries, start + 1, start + n)) = n
        /\ \A p \in 1 .. n : SubSeq(entries, start + 1, start + n)[p] = entries[start + p]
    <3> DEFINE S == Int
    <3>1. entries \in Seq(S)
      BY <1>4
    <3> HIDE DEF S
    <3>2. /\ SubSeq(entries, start + 1, start + n) \in Seq(S)
          /\ Len(SubSeq(entries, start + 1, start + n)) = n
          /\ \A p \in 1 .. n : SubSeq(entries, start + 1, start + n)[p] = entries[start + p]
      BY <2>1, <3>1, PartIs
    <3> QED BY <3>2 DEF S
  <2> QED BY <2>1, <2>2
<1>7. \A p \in 1 .. n : list[p] = all[start + p] /\ start + p \in 1 .. Len(all)
  <2>1. \A p \in 1 .. n : /\ SubSeq(all, start + 1, start + n)[p] = all[start + p]
                          /\ start + p \in 1 .. Len(all)
    BY <1>1, <1>5, PartIs
  <2> QED BY <1>1, <2>1
<1> HIDE DEF part
<1>8. DOMAIN part = 1 .. n
  BY <1>6
<1>9. \A p \in 1 .. n : part[p] + 1 = list[p]
  <2> SUFFICES ASSUME NEW p \in 1 .. n PROVE part[p] + 1 = list[p]
    OBVIOUS
  <2>1. start + p \in 1 .. Len(all)
    BY <1>7
  <2>2. part[p] = all[start + p] - 1 /\ all[start + p] \in Int
    BY <1>3, <1>4, <1>6, <2>1
  <2> QED BY <1>7, <2>2
<1>10. Raised(part) = [p \in 1 .. n |-> list[p]]
  BY <1>8, <1>9 DEF Raised
<1> QED BY <1>5, <1>10 DEF part, list, start, end

(* What was written is read back.                                          *)
LEMMA ViewOfPack ==
  ASSUME NEW a, Writable(a)
  PROVE  View(Pack(a)) = a
<1> DEFINE file == Pack(a)
           lists == ListsOf(a)
           buckets == BucketsOf(a)
           all == FlattenSeq(buckets)
           index == [bucket \in Buckets |->
                       LET entries == SubSeq(file.entries,
                                             file.positions[NumberOf(bucket)] + 1,
                                             file.positions[NumberOf(bucket) + 1])
                       IN  [p \in DOMAIN entries |-> entries[p] + 1]]
<1>1. View(file) = [exact |-> Read(file.exact, file.emissions),
                    regions |-> Read(file.regions, file.emissions), index |-> index]
  BY DEF View, Read, NumberOf
<1>2. /\ lists \in Seq(Emissions) /\ Len(lists) = Len(a.exact) + Len(a.regions)
      /\ Len(a.exact) \in Nat /\ Len(a.regions) \in Nat
      /\ \A k \in 1 .. Len(a.exact) : lists[k] = a.exact[k].emissions
      /\ \A k \in 1 .. Len(a.regions) : lists[Len(a.exact) + k] = a.regions[k].emissions
      /\ buckets \in Seq(Seq(1 .. Len(a.regions)))
      /\ Len(buckets) = Len(BucketOrder) /\ Len(BucketOrder) \in Nat
      /\ \A b \in 1 .. Len(BucketOrder) : buckets[b] = a.index[BucketOrder[b]]
  BY ListsAre
<1>3. /\ a.exact \in Seq(ExactRecord) /\ a.regions \in Seq(CompiledRegion)
      /\ a.index \in [Buckets -> Seq(1 .. Len(a.regions))]
      /\ a = [exact |-> a.exact, regions |-> a.regions, index |-> a.index]
  BY DEF Writable
<1>4. /\ file.exact = [k \in 1 .. Len(a.exact) |->
                         Packed(a.exact[k], Len(Joined(lists, k - 1)))]
      /\ file.regions = [k \in 1 .. Len(a.regions) |->
                           Packed(a.regions[k], Len(Joined(lists, Len(a.exact) + k - 1)))]
      /\ file.emissions = FlattenSeq(lists)
      /\ \A b \in 1 .. Len(BucketOrder) + 1 : file.positions[b] = Len(Joined(buckets, b - 1))
      /\ file.entries = [p \in DOMAIN all |-> all[p] - 1]
  BY PackIs
<1> HIDE DEF file, lists, buckets
<1>5. Read(file.exact, file.emissions) = a.exact
  <2> DEFINE packed == [k \in 1 .. Len(a.exact) |->
                          Packed(a.exact[k], Len(Joined(lists, 0 + k - 1)))]
  <2>1. \A k \in 1 .. Len(a.exact) : 0 + k - 1 = k - 1 /\ 0 + k = k
    BY <1>2
  <2>2. file.exact = packed
    BY <1>4, <2>1
  <2>3. 0 + Len(a.exact) <= Len(lists) /\ 0 \in Nat
    <3> DEFINE ne == Len(a.exact)
               nr == Len(a.regions)
    <3>1. ne \in Nat /\ nr \in Nat /\ Len(lists) = ne + nr
      BY <1>2
    <3> HIDE DEF ne, nr
    <3>2. 0 + ne <= Len(lists)
      BY <3>1
    <3> QED BY <3>2 DEF ne
  <2>4. \A k \in 1 .. Len(a.exact) : lists[0 + k] = a.exact[k].emissions
    BY <1>2, <2>1
  <2>5. Read(packed, FlattenSeq(lists)) = a.exact
    BY <1>2, <1>3, <2>3, <2>4, ReadBack
  <2> QED BY <1>4, <2>2, <2>5
<1>6. Read(file.regions, file.emissions) = a.regions
  <2>1. Len(a.exact) + Len(a.regions) <= Len(lists)
    BY <1>2
  <2>2. Read([k \in 1 .. Len(a.regions) |->
                Packed(a.regions[k], Len(Joined(lists, Len(a.exact) + k - 1)))],
             FlattenSeq(lists)) = a.regions
    BY <1>2, <1>3, <2>1, ReadBack
  <2> QED BY <1>4, <2>2
<1>7. \A bucket \in Buckets : index[bucket] = a.index[bucket]
  <2> SUFFICES ASSUME NEW bucket \in Buckets PROVE index[bucket] = a.index[bucket]
    OBVIOUS
  <2> DEFINE b == NumberOf(bucket)
             entries == SubSeq(file.entries, file.positions[b] + 1, file.positions[b + 1])
  <2>1. b \in 1 .. Len(BucketOrder) /\ BucketOrder[b] = bucket
    BY NumberIs
  <2>2. index[bucket] = Raised(entries)
    BY DEF Raised
  <2> HIDE DEF b, index
  <2>3. /\ b \in 1 .. Len(BucketOrder) + 1 /\ b + 1 \in 1 .. Len(BucketOrder) + 1
        /\ b + 1 - 1 = b /\ b \in 1 .. Len(buckets)
    BY <1>2, <2>1
  <2>4. /\ file.positions[b] = Len(Joined(buckets, b - 1))
        /\ file.positions[b + 1] = Len(Joined(buckets, b))
    BY <1>4, <2>3
  <2>5. entries = SubSeq(file.entries, Len(Joined(buckets, b - 1)) + 1, Len(Joined(buckets, b)))
    BY <2>4
  <2> HIDE DEF entries
  <2>6. Raised(entries) = buckets[b]
    <3> DEFINE m == Len(a.regions)
    <3>1. m \in Nat /\ buckets \in Seq(Seq(1 .. m))
      BY <1>2
    <3> HIDE DEF m
    <3> QED BY <1>4, <2>3, <2>5, <3>1, BucketReadBack
  <2> QED BY <1>2, <2>1, <2>2, <2>6
<1>8. index = a.index
  <2>1. index = [bucket \in Buckets |-> index[bucket]]
    OBVIOUS
  <2>2. a.index = [bucket \in Buckets |-> a.index[bucket]]
    BY <1>3
  <2> HIDE DEF index
  <2> QED BY <1>7, <2>1, <2>2
<1> QED BY <1>1, <1>3, <1>5, <1>6, <1>8 DEF file

-----------------------------------------------------------------------------
(* What was written is accepted, if the writer's own limits let it pass.   *)
LEMMA SectionsFollow ==
  ASSUME NEW a, Writable(a)
  PROVE  SectionsAccepted(Pack(a))
<1> DEFINE file == Pack(a)
           lists == ListsOf(a)
           all == FlattenSeq(BucketsOf(a))
           ne == Len(a.exact)
           nr == Len(a.regions)
           nb == Len(BucketOrder)
           nm == Len(FlattenSeq(lists))
           nn == Len(all)
           exact_end == HeaderBytes + ExactRecordBytes * ne
           region_end == exact_end + RegionRecordBytes * nr
           emission_end == region_end + EmissionRecordBytes * nm
           index_bytes == IndexTableBytes + 4 * nn
<1>1. /\ file.exact_offset = HeaderBytes /\ file.region_offset = exact_end
      /\ file.emission_offset = region_end /\ file.index_offset = emission_end
      /\ file.index_bytes = index_bytes /\ file.total = emission_end + index_bytes
      /\ file.emissions = FlattenSeq(lists)
  BY DEF Pack, ListsOf, BucketsOf
<1>2. Len(file.exact) = ne /\ Len(file.regions) = nr
  <2>1. /\ file.exact = [k \in 1 .. ne |-> Packed(a.exact[k], Len(Joined(lists, k - 1)))]
        /\ file.regions = [k \in 1 .. nr |-> Packed(a.regions[k], Len(Joined(lists, ne + k - 1)))]
    BY PackIs
  <2>2. ne \in Nat /\ nr \in Nat
    BY ListsAre
  <2> HIDE DEF file, ne, nr
  <2> QED BY <2>1, <2>2
<1>3. ne \in Nat /\ nr \in Nat /\ nb \in Nat
  BY ListsAre
<1>4. nm \in Nat /\ nn \in Nat
  <2>1. lists \in Seq(Seq(TokenScore)) /\ BucketsOf(a) \in Seq(Seq(1 .. nr))
    BY ListsAre DEF Emissions
  <2> HIDE DEF lists
  <2>2. FlattenSeq(lists) \in Seq(TokenScore)
    BY <2>1, FlattenIsList
  <2>3. all \in Seq(1 .. nr)
    BY <2>1, FlattenIsList
  <2> QED BY <2>2, <2>3
<1> HIDE DEF file, ne, nr, nm, nn
<1>5. /\ HeaderBytes = 256 /\ ExactRecordBytes = 256 /\ RegionRecordBytes = 128
      /\ EmissionRecordBytes = 8 /\ IndexTableBytes = 4 * (nb + 1)
  BY DEF HeaderBytes, ExactRecordBytes, RegionRecordBytes, EmissionRecordBytes, IndexTableBytes
<1>6. index_bytes >= IndexTableBytes /\ index_bytes - IndexTableBytes = 4 * nn
  <2> HIDE DEF nb
  <2> QED BY <1>3, <1>4, <1>5
<1>7. (4 * nn) % 4 = 0
  BY <1>4
<1>8. /\ exact_end = 256 + 256 * ne /\ exact_end \in Nat /\ region_end = exact_end + 128 * nr
      /\ region_end \in Nat /\ emission_end = region_end + 8 * nm /\ emission_end \in Nat
      /\ index_bytes \in Nat
  <2> HIDE DEF nb
  <2> QED BY <1>3, <1>4, <1>5
<1> HIDE DEF exact_end, region_end, emission_end, index_bytes
<1>9. /\ file.exact_offset >= HeaderBytes
      /\ file.region_offset >= file.exact_offset + ExactRecordBytes * Len(file.exact)
      /\ file.emission_offset >= file.region_offset + RegionRecordBytes * Len(file.regions)
      /\ file.index_offset = file.emission_offset + EmissionRecordBytes * Len(file.emissions)
  <2>1. Len(file.emissions) = nm
    BY <1>1 DEF nm
  <2>2. /\ 256 >= HeaderBytes /\ exact_end >= HeaderBytes + ExactRecordBytes * ne
        /\ region_end >= exact_end + RegionRecordBytes * nr
        /\ emission_end = region_end + EmissionRecordBytes * nm
    BY <1>3, <1>4, <1>5, <1>8
  <2> QED BY <1>1, <1>2, <1>5, <2>1, <2>2
<1>10. /\ file.index_bytes >= IndexTableBytes
       /\ file.index_offset + file.index_bytes = file.total
       /\ (file.index_bytes - IndexTableBytes) % 4 = 0
  BY <1>1, <1>6, <1>7
<1> QED BY <1>9, <1>10 DEF SectionsAccepted, file

LEMMA IndexFollows ==
  ASSUME NEW a, Writable(a)
  PROVE  IndexAccepted(Pack(a))
<1> DEFINE file == Pack(a)
           buckets == BucketsOf(a)
           all == FlattenSeq(buckets)
           nr == Len(a.regions)
           nb == Len(BucketOrder)
<1>1. /\ DOMAIN file.positions = 1 .. nb + 1
      /\ \A b \in 1 .. nb + 1 : file.positions[b] = Len(Joined(buckets, b - 1))
      /\ file.entries = [p \in DOMAIN all |-> all[p] - 1]
  BY PackIs
<1>2. buckets \in Seq(Seq(1 .. nr)) /\ Len(buckets) = nb /\ nb \in Nat /\ nr \in Nat
  BY ListsAre
<1>3. Len(file.regions) = nr
  <2>1. file.regions = [k \in 1 .. nr |-> Packed(a.regions[k],
                                            Len(Joined(ListsOf(a), Len(a.exact) + k - 1)))]
    BY PackIs
  <2> HIDE DEF file, nr
  <2> QED BY <1>2, <2>1
<1> HIDE DEF file, buckets, nr, nb
<1>4. all \in Seq(1 .. nr) /\ all = Joined(buckets, nb)
  BY <1>2, FlattenIsList, JoinedNext
<1>5. Len(file.entries) = Len(all) /\ DOMAIN file.entries = 1 .. Len(all) /\ Len(all) \in Nat
  BY <1>1, <1>4
<1>6. \A p \in DOMAIN file.entries : file.entries[p] < Len(file.regions)
  <2>1. \A p \in 1 .. Len(all) : all[p] \in 1 .. nr
    <3> DEFINE S == 1 .. nr
    <3> HIDE DEF all
    <3>1. all \in Seq(S)
      BY <1>4
    <3> HIDE DEF S
    <3>2. \A p \in 1 .. Len(all) : all[p] \in S
      BY <3>1
    <3> QED BY <3>2 DEF S
  <2>2. \A p \in 1 .. Len(all) : file.entries[p] = all[p] - 1
    BY <1>1, <1>5
  <2>3. \A p \in 1 .. Len(all) : file.entries[p] < nr
    BY <1>2, <2>1, <2>2
  <2> QED BY <1>3, <1>5, <2>3
<1>7. \A b \in 1 .. nb + 1 : file.positions[b] <= Len(file.entries)
  <2> SUFFICES ASSUME NEW b \in 1 .. nb + 1 PROVE file.positions[b] <= Len(file.entries)
    OBVIOUS
  <2> DEFINE i == b - 1
  <2>1. i \in 0 .. Len(buckets) /\ nb \in 0 .. Len(buckets) /\ i <= nb
    BY <1>2
  <2> HIDE DEF i
  <2>2. Len(Joined(buckets, i)) <= Len(Joined(buckets, nb))
    BY <1>2, <2>1, JoinedGrows
  <2> QED BY <1>1, <1>4, <1>5, <2>2 DEF i
<1>8. \A b \in 1 .. nb + 1 : b > 1 => file.positions[b - 1] <= file.positions[b]
  <2> SUFFICES ASSUME NEW b \in 1 .. nb + 1, b > 1
               PROVE  file.positions[b - 1] <= file.positions[b]
    OBVIOUS
  <2> DEFINE i == b - 1
             h == i - 1
  <2>1. /\ i \in 0 .. Len(buckets) /\ h \in 0 .. Len(buckets) /\ h <= i
        /\ i \in 1 .. nb + 1
    BY <1>2
  <2>2. file.positions[i] = Len(Joined(buckets, h)) /\ file.positions[b] = Len(Joined(buckets, i))
    BY <1>1, <2>1
  <2> HIDE DEF h
  <2>3. Len(Joined(buckets, h)) <= Len(Joined(buckets, i))
    BY <1>2, <2>1, JoinedGrows
  <2> QED BY <2>2, <2>3
<1> QED BY <1>1, <1>6, <1>7, <1>8 DEF IndexAccepted, file

LEMMA PackedFields ==
  /\ \A r \in ExactRecord : \A start :
       LET packed == Packed(r, start)
       IN  packed.record.hash = r.hash /\ packed.record.context = r.context
  /\ \A r \in CompiledRegion : \A start : Packed(r, start).record.depth = r.depth
BY DEF Packed, ExactRecord, CompiledRegion

LEMMA RecordsFollow ==
  ASSUME NEW a, Writable(a),
         \A k \in 1 .. Len(a.exact) :
           /\ Len(a.exact[k].context) <= MaxContext
           /\ k > 1 => a.exact[k - 1].hash <= a.exact[k].hash,
         \A k \in 1 .. Len(a.regions) : a.regions[k].depth <= MaxRouteDepth
  PROVE  RecordsAccepted(Pack(a), MaxRouteDepth)
<1> DEFINE file == Pack(a)
           lists == ListsOf(a)
           ne == Len(a.exact)
           nr == Len(a.regions)
           exact == [k \in 1 .. ne |-> Packed(a.exact[k], Len(Joined(lists, 0 + k - 1)))]
           regions == [k \in 1 .. nr |-> Packed(a.regions[k], Len(Joined(lists, ne + k - 1)))]
<1>1. /\ lists \in Seq(Emissions) /\ Len(lists) = ne + nr /\ ne \in Nat /\ nr \in Nat
      /\ \A k \in 1 .. ne : lists[k] = a.exact[k].emissions
      /\ \A k \in 1 .. nr : lists[ne + k] = a.regions[k].emissions
  BY ListsAre
<1>2. a.exact \in Seq(ExactRecord) /\ a.regions \in Seq(CompiledRegion)
  BY DEF Writable
<1>3. /\ file.exact = [k \in 1 .. ne |-> Packed(a.exact[k], Len(Joined(lists, k - 1)))]
      /\ file.regions = regions /\ file.emissions = FlattenSeq(lists)
  BY PackIs
<1>4. file.exact = exact
  <2> HIDE DEF ne, lists
  <2>1. \A k \in 1 .. ne : 0 + k - 1 = k - 1
    BY <1>1
  <2> QED BY <1>3, <2>1
<1> HIDE DEF file, lists
<1>5. \A k \in 1 .. ne :
        exact[k].emission_start + exact[k].emission_len <= Len(FlattenSeq(lists))
  <2>1. 0 + ne <= Len(lists) /\ 0 \in Nat
    <3> HIDE DEF ne, nr
    <3> QED BY <1>1
  <2>2. \A k \in 1 .. ne : lists[0 + k] = a.exact[k].emissions
    <3>1. \A k \in 1 .. ne : 0 + k = k
      OBVIOUS
    <3> QED BY <1>1, <3>1
  <2> QED BY <1>1, <1>2, <2>1, <2>2, ReadBack
<1>6. \A k \in 1 .. nr :
        regions[k].emission_start + regions[k].emission_len <= Len(FlattenSeq(lists))
  <2>1. ne + nr <= Len(lists)
    <3> HIDE DEF ne, nr
    <3> QED BY <1>1
  <2> QED BY <1>1, <1>2, <2>1, ReadBack
<1>7. \A k \in 1 .. ne : /\ exact[k].record.context = a.exact[k].context
                         /\ exact[k].record.hash = a.exact[k].hash
  <2> SUFFICES ASSUME NEW k \in 1 .. ne
               PROVE  /\ exact[k].record.context = a.exact[k].context
                      /\ exact[k].record.hash = a.exact[k].hash
    OBVIOUS
  <2> DEFINE r == a.exact[k]
             start == Len(Joined(lists, 0 + k - 1))
  <2>1. r \in ExactRecord /\ exact[k] = Packed(r, start)
    BY <1>2
  <2> HIDE DEF exact, r, start
  <2> QED BY <2>1, PackedFields DEF r
<1>8. \A k \in 1 .. nr : regions[k].record.depth = a.regions[k].depth
  <2> SUFFICES ASSUME NEW k \in 1 .. nr PROVE regions[k].record.depth = a.regions[k].depth
    OBVIOUS
  <2> DEFINE r == a.regions[k]
             start == Len(Joined(lists, ne + k - 1))
  <2>1. r \in CompiledRegion /\ regions[k] = Packed(r, start)
    BY <1>2
  <2> HIDE DEF regions, r, start
  <2> QED BY <2>1, PackedFields DEF r
<1>9. DOMAIN exact = 1 .. ne /\ DOMAIN regions = 1 .. nr
  OBVIOUS
<1>10. \A k \in 1 .. ne : k > 1 => k - 1 \in 1 .. ne
  <2> HIDE DEF ne
  <2> QED BY <1>1
<1> HIDE DEF exact, regions
<1>11. \A k \in 1 .. ne : k > 1 => exact[k - 1].record.hash <= exact[k].record.hash
  BY <1>7, <1>10
<1> QED BY <1>3, <1>4, <1>5, <1>6, <1>7, <1>8, <1>9, <1>11 DEF RecordsAccepted, file

LEMMA CompiledKept ==
  ASSUME UNCHANGED <<config, observations, prototypes, members, paths>>
  PROVE  Compiled' = Compiled
<1>1. \A i : SignatureAt(i)' = SignatureAt(i)
  BY DEF SignatureAt
<1>2. \A group : AverageEmissions(group)' = AverageEmissions(group)
  <2>1. \A e : TokenAt(e)' = TokenAt(e) /\ ScoreAt(e)' = ScoreAt(e)
    BY DEF TokenAt, ScoreAt
  <2>2. \A group : EmittedBy(group)' = EmittedBy(group)
    BY DEF EmittedBy
  <2>3. \A group, token : OfToken(group, token)' = OfToken(group, token)
    BY <2>1, <2>2 DEF OfToken
  <2>4. \A S : MapThenSumSet(ScoreAt, S)' = MapThenSumSet(ScoreAt, S)
    BY <2>1 DEF MapThenSumSet, MapThenFoldSet
  <2>5. \A group, token : AverageOf(group, token)' = AverageOf(group, token)
    BY <2>3, <2>4 DEF AverageOf
  <2>6. \A group : AverageEmissions(group)' =
           {AverageOf(group, token)' : token \in {TokenAt(e)' : e \in EmittedBy(group)'}}
    BY DEF AverageEmissions, AverageOf, OfToken, TokenAt, EmittedBy, ScoreAt, MapThenSumSet,
           MapThenFoldSet
  <2> SUFFICES ASSUME NEW group PROVE AverageEmissions(group)' = AverageEmissions(group)
    OBVIOUS
  <2>7. AverageEmissions(group) =
           {AverageOf(group, token) : token \in {TokenAt(e) : e \in EmittedBy(group)}}
    BY AveragesAre
  <2>8. {TokenAt(e)' : e \in EmittedBy(group)'} = {TokenAt(e) : e \in EmittedBy(group)}
    BY <2>1, <2>2
  <2> QED BY <2>5, <2>6, <2>7, <2>8
<1>3. \A group : RegionEmissions(group)' = RegionEmissions(group)
  BY <1>2 DEF RegionEmissions, InOrder
<1>4. \A c : Radius(c)' = Radius(c)
  BY <1>1 DEF Radius
<1>5. \A c : RegionAt(c)' = RegionAt(c)
  BY <1>3, <1>4 DEF RegionAt
<1>6. ExactRecords' = ExactRecords
  BY DEF ExactRecords, InOrder
<1> QED BY <1>5, <1>6 DEF Compiled

-----------------------------------------------------------------------------
(* The configuration is one the compiler runs with, there is something to  *)
(* compile, and the memberships are those of the prototypes at the end.    *)
Placed ==
  /\ phase \notin {"corpus", "failed"} => ~ BadConfig /\ observations # << >>
  /\ phase \in {"paths", "done"} =>
       prototypes # << >> /\ members = [c \in DOMAIN prototypes |-> MembersOf(c)]
  /\ phase = "done" => Len(paths) = Len(prototypes)

LEMMA MembersKept ==
  ASSUME UNCHANGED <<config, observations, prototypes>>
  PROVE  \A c : MembersOf(c)' = MembersOf(c)
<1>1. \A i : SignatureAt(i)' = SignatureAt(i)
  BY DEF SignatureAt
<1>2. \A i : NearestDistance(i, prototypes)' = NearestDistance(i, prototypes)
  BY <1>1 DEF NearestDistance
<1> QED BY <1>1, <1>2 DEF MembersOf

LEMMA PlacedStep == IInv /\ Placed /\ [Next]_vars => Placed'
<1> SUFFICES ASSUME IInv, Placed, [Next]_vars PROVE Placed'
  OBVIOUS
<1>1. CASE UNCHANGED vars
  <2>1. \A c : MembersOf(c)' = MembersOf(c)
    BY <1>1, MembersKept DEF vars
  <2> QED BY <1>1, <2>1 DEF Placed, BadConfig, vars
<1>2. CASE Canonicalize
  <2>1. phase' \in {"seed", "failed"} \/ UNCHANGED phase
    BY <1>2 DEF Canonicalize, Fail
  <2>2. phase' = "seed" => ~ BadConfig /\ observations' # << >>
    BY <1>2 DEF Canonicalize, Fail, Refusal
  <2>3. UNCHANGED config /\ phase = "corpus"
    BY <1>2 DEF Canonicalize
  <2> QED BY <2>1, <2>2, <2>3 DEF Placed, BadConfig
<1>3. CASE Seed \/ Pass
  <2>1. phase = "seed" /\ UNCHANGED <<phase, config, observations>>
    BY <1>3 DEF Seed, Pass
  <2> QED BY <2>1 DEF Placed, BadConfig
<1>4. CASE AssignMemberships
  <2>1. /\ phase = "seed" /\ phase' \in {"failed", "paths"}
        /\ UNCHANGED <<config, observations, prototypes>>
        /\ phase' = "paths" => members' = [c \in DOMAIN prototypes |-> MembersOf(c)]
        /\ Len(prototypes) = RegionCount
    BY <1>4 DEF AssignMemberships, Fail
  <2>2. \A c : MembersOf(c)' = MembersOf(c)
    BY <2>1, MembersKept
  <2>3. prototypes # << >>
    <3>1. ~ BadConfig /\ observations # << >>
      BY <2>1 DEF Placed
    <3>2. Len(observations) \in Nat /\ Len(observations) # 0
      BY <3>1 DEF IInv, Types
    <3>3. config.max_regions \in Nat /\ config.max_regions # 0
      BY <3>1, ConfigFacts DEF IInv, BadConfig
    <3>4. RegionCount # 0
      BY <3>2, <3>3 DEF RegionCount, Smaller
    <3> QED BY <2>1, <3>4
  <2> QED BY <2>1, <2>2, <2>3 DEF Placed, BadConfig
<1>5. CASE DerivePath \/ WriteArtifact
  <2>1. /\ phase = "paths" /\ phase' \in {"failed", "paths", "done"}
        /\ UNCHANGED <<config, observations, prototypes, members>>
        /\ phase' = "done" => Len(paths') = Len(prototypes')
    BY <1>5 DEF DerivePath, WriteArtifact, Fail
  <2>2. \A c : MembersOf(c)' = MembersOf(c)
    BY <2>1, MembersKept
  <2> QED BY <2>1, <2>2 DEF Placed, BadConfig
<1> QED BY <1>1, <1>2, <1>3, <1>4, <1>5 DEF Next

-----------------------------------------------------------------------------
(* What is compiled: the exact records in the order of their hashes, one   *)
(* for each observation, and the regions.                                  *)
RecordOf(i) ==
  [hash |-> HashOf(observations[i].context), context |-> observations[i].context,
   emissions |-> observations[i].emissions]

LEMMA ExactRecordsAre ==
  ASSUME Types
  PROVE  /\ ExactRecords \in Seq(ExactRecord)
         /\ \A k \in 1 .. Len(ExactRecords) :
              \E i \in DOMAIN observations : ExactRecords[k] = RecordOf(i)
         /\ \A i \in DOMAIN observations :
              \E k \in 1 .. Len(ExactRecords) : ExactRecords[k] = RecordOf(i)
         /\ \A k, l \in 1 .. Len(ExactRecords) :
              k < l => ExactRecords[k].hash <= ExactRecords[l].hash
<1> DEFINE S == DOMAIN observations
           hash == [i \in S |-> HashOf(observations[i].context)]
           Before(i, j) == hash[i] < hash[j] \/ (hash[i] = hash[j] /\ i < j)
           preceding == [j \in S |-> {i \in S : Before(i, j)}]
           order == OrderOf(S, preceding)
           n == Len(order)
<1>1. S = 1 .. Len(observations) /\ Len(observations) \in Nat
  BY DEF Types
<1>2. \A i \in S : /\ observations[i] \in Observation /\ observations[i].context \in Contexts
                   /\ observations[i].emissions \in Emissions /\ hash[i] \in Nat
  <2> SUFFICES ASSUME NEW i \in S
               PROVE  /\ observations[i] \in Observation /\ observations[i].context \in Contexts
                      /\ observations[i].emissions \in Emissions /\ hash[i] \in Nat
    OBVIOUS
  <2>1. observations[i] \in Observation
    BY SignatureFacts
  <2>2. observations[i].context \in Contexts /\ observations[i].emissions \in Emissions
    BY <2>1 DEF Observation
  <2>3. hash[i] = HashOf(observations[i].context)
    OBVIOUS
  <2> QED BY <2>1, <2>2, <2>3, HashOfAssumption
<1>3. IsFiniteSet(S)
  <2> DEFINE m == Len(observations)
  <2>1. m \in Nat /\ S = 1 .. m
    BY <1>1
  <2> HIDE DEF m, S
  <2> QED BY SMTT(30), <2>1, FS_Interval
<1>4. ExactRecords = [k \in DOMAIN order |-> RecordOf(order[k])]
  <2>1. order = OrderOf(S, [j \in S |-> {i \in S :
                    \/ HashOf(observations[i].context) < HashOf(observations[j].context)
                    \/ /\ HashOf(observations[i].context) = HashOf(observations[j].context)
                       /\ i < j}])
    OBVIOUS
  <2> QED BY Zenon, <2>1 DEF ExactRecords, InOrder, RecordOf
<1>5. IsOrder(S, preceding)
  <2> HIDE DEF hash
  <2>1. preceding \in [S -> SUBSET S]
    OBVIOUS
  <2>2. \A i, j \in S : i \in preceding[j] <=> Before(i, j)
    OBVIOUS
  <2>3. \A i \in S : i \in Nat /\ hash[i] \in Nat
    BY <1>1, <1>2
  <2> HIDE DEF preceding, S
  <2>4. \A i \in S : ~ Before(i, i)
    BY <2>3
  <2>5. \A i, j, k \in S : Before(i, j) /\ Before(j, k) => Before(i, k)
    BY <2>3
  <2>6. \A i, j \in S : i = j \/ Before(i, j) \/ Before(j, i)
    BY <2>3
  <2> HIDE DEF Before
  <2> QED BY <2>1, <2>2, <2>4, <2>5, <2>6 DEF IsOrder
<1>6. /\ order \in Seq(S) /\ \A k, l \in 1 .. n : k < l => order[k] \in preceding[order[l]]
      /\ \A i \in S : \E k \in 1 .. n : order[k] = i
  <2> HIDE DEF S, preceding
  <2> QED BY <1>3, <1>5, OrderIs
<1>7. DOMAIN order = 1 .. n /\ n \in Nat /\ \A k \in 1 .. n : order[k] \in S
  <2> HIDE DEF S, order
  <2> QED BY <1>6
<1>8. \A k, l \in 1 .. n : k < l => hash[order[k]] <= hash[order[l]]
  <2> SUFFICES ASSUME NEW k \in 1 .. n, NEW l \in 1 .. n, k < l
               PROVE  hash[order[k]] <= hash[order[l]]
    BY Zenon
  <2>1. order[k] \in S /\ order[l] \in S /\ order[k] \in preceding[order[l]]
    BY Zenon, <1>6, <1>7
  <2> HIDE DEF S, order, hash
  <2>2. Before(order[k], order[l]) /\ hash[order[k]] \in Nat /\ hash[order[l]] \in Nat
    BY <1>2, <2>1
  <2> QED BY SMTT(30), <2>2
<1>9. \A i \in S : RecordOf(i) \in ExactRecord /\ RecordOf(i).hash = hash[i]
  BY <1>2, HashOfAssumption DEF RecordOf, ExactRecord
<1> HIDE DEF S, order, hash, n
<1>10. /\ ExactRecords = [k \in 1 .. n |-> RecordOf(order[k])]
       /\ \A k \in 1 .. n : ExactRecords[k] = RecordOf(order[k])
  BY <1>4, <1>7
<1>11. ExactRecords \in Seq(ExactRecord) /\ Len(ExactRecords) = n
  <2>1. \A k \in 1 .. n : RecordOf(order[k]) \in ExactRecord
    BY <1>7, <1>9
  <2> QED BY <1>7, <1>10, <2>1
<1>12. \A k \in 1 .. n : \E i \in S : ExactRecords[k] = RecordOf(i)
  BY <1>7, <1>10
<1>13. \A i \in S : \E k \in 1 .. n : ExactRecords[k] = RecordOf(i)
  BY <1>6, <1>10
<1>14. \A k, l \in 1 .. n : k < l => ExactRecords[k].hash <= ExactRecords[l].hash
  BY <1>7, <1>8, <1>9, <1>10
<1> QED BY <1>11, <1>12, <1>13, <1>14 DEF S

LEMMA RadiusIs ==
  ASSUME Types, NEW c \in DOMAIN prototypes, NEW group \in SUBSET DOMAIN observations,
         members[c] = group
  PROVE  /\ Radius(c) \in Nat
         /\ \A i \in group : Distance(SignatureAt(i), prototypes[c]) <= Radius(c)
<1> DEFINE To(i) == Distance(SignatureAt(i), prototypes[c])
           S == {0} \cup {To(i) : i \in group}
           n == Cardinality(Bits)
<1>1. n \in Nat
  BY BitsAssumption, FS_CardinalityType
<1>2. \A i \in group : To(i) \in 0 .. n
  <2> SUFFICES ASSUME NEW i \in group PROVE To(i) \in 0 .. n
    OBVIOUS
  <2>1. SignatureAt(i) \in Code
    BY SignatureFacts
  <2>2. prototypes[c] \in Code
    BY DEF Types
  <2> QED BY <2>1, <2>2, DistanceType
<1>3. Radius(c) = Smaller(Max(S) + config.overlap_margin, n)
  BY DEF Radius
<1> HIDE DEF To, n
<1>4. S \in SUBSET (0 .. n) /\ 0 \in S
  BY <1>1, <1>2
<1>5. \A i \in group : To(i) \in S
  OBVIOUS
<1> HIDE DEF S
<1>6. Max(S) \in S /\ \A y \in S : y <= Max(S)
  BY <1>1, <1>4, MaxIs
<1>7. config.overlap_margin \in Nat
  BY ConfigFacts
<1>8. Max(S) \in 0 .. n
  BY <1>4, <1>6
<1>9. Radius(c) \in Nat
  BY <1>1, <1>3, <1>7, <1>8 DEF Smaller
<1>10. \A i \in group : To(i) <= Radius(c)
  BY <1>1, <1>2, <1>3, <1>5, <1>6, <1>7, <1>8 DEF Smaller
<1> QED BY <1>9, <1>10 DEF To

LEMMA RegionAtIs ==
  ASSUME IInv, Placed, phase \in {"paths", "done"}, Len(paths) = Len(prototypes),
         NEW c \in DOMAIN prototypes
  PROVE  /\ RegionAt(c) \in CompiledRegion
         /\ RegionAt(c).depth <= MaxRouteDepth
         /\ RegionAt(c).radius = Radius(c) /\ RegionAt(c).prototype = prototypes[c]
         /\ RegionAt(c).mask = Bits
         /\ RegionAt(c).emissions = RegionEmissions(MembersOf(c))
         /\ members[c] = MembersOf(c) /\ MembersOf(c) \in SUBSET DOMAIN observations
<1>1. members[c] = MembersOf(c) /\ MembersOf(c) \in SUBSET DOMAIN observations
  BY DEF Placed, MembersOf
<1>2. c \in DOMAIN paths /\ c \in Nat
  BY DEF IInv, Types, Tree
<1>3. paths[c] \in Seq(Nat) /\ Len(paths[c]) \in 1 .. MaxRouteDepth
  BY <1>2 DEF IInv, Tree
<1>4. Len(paths[c]) \in Nat /\ Len(paths[c]) <= MaxRouteDepth
  BY <1>3, DepthAssumption
<1>5. Radius(c) \in Nat
  BY <1>1, RadiusIs DEF IInv
<1>6. prototypes[c] \in Code /\ Bits \in Code
  BY DEF IInv, Types, Code
<1>7. RegionEmissions(MembersOf(c)) \in Emissions
  BY <1>1, RegionEmissionsAre DEF IInv, Emissions
<1>8. RegionAt(c) = [region_id |-> c, path_id |-> c, depth |-> Len(paths[c]),
                     radius |-> Radius(c), path |-> paths[c], prototype |-> prototypes[c],
                     mask |-> Bits, emissions |-> RegionEmissions(MembersOf(c))]
  BY <1>1 DEF RegionAt
<1> QED BY <1>1, <1>2, <1>3, <1>4, <1>5, <1>6, <1>7, <1>8 DEF CompiledRegion

(* The compiled artifact is one the writer can write and the parser reads. *)
LEMMA CompiledIsAccepted ==
  ASSUME IInv, Placed, phase \in {"paths", "done"}, Len(paths) = Len(prototypes)
  PROVE  /\ Writable(Compiled)
         /\ WithinLimits(Pack(Compiled)) => FileAccepted(Pack(Compiled), MaxRouteDepth)
<1> DEFINE a == Compiled
           regions == [c \in DOMAIN prototypes |-> RegionAt(c)]
           exact == IF config.include_exact THEN ExactRecords ELSE << >>
           index == BuildRegionIndex(regions)
<1>1. a = [exact |-> exact, regions |-> regions, index |-> index]
  BY DEF Compiled
<1>2. exact \in Seq(ExactRecord)
  <2>1. << >> \in Seq(ExactRecord)
    OBVIOUS
  <2> QED BY <2>1, ExactRecordsAre DEF IInv
<1>3. \A k \in 1 .. Len(exact) : /\ Len(exact[k].context) <= MaxContext
                                 /\ k > 1 => exact[k - 1].hash <= exact[k].hash
  <2>1. CASE ~ config.include_exact
    <3>1. exact = << >>
      BY <2>1
    <3> HIDE DEF exact
    <3> QED BY <3>1
  <2>2. CASE config.include_exact
    <3> SUFFICES ASSUME NEW k \in 1 .. Len(ExactRecords)
                 PROVE  /\ Len(ExactRecords[k].context) <= MaxContext
                        /\ k > 1 => ExactRecords[k - 1].hash <= ExactRecords[k].hash
      BY <2>2
    <3>1. PICK i \in DOMAIN observations : ExactRecords[k] = RecordOf(i)
      BY ExactRecordsAre DEF IInv
    <3>2. Len(observations[i].context) <= MaxContext
      <4>1. observations[i] \in ToSet(observations)
        BY DEF ToSet
      <4> QED BY <4>1 DEF IInv, Canonicalized, FitsContext
    <3>3. Len(ExactRecords[k].context) <= MaxContext
      BY <3>1, <3>2 DEF RecordOf
    <3>4. k > 1 => k - 1 \in 1 .. Len(ExactRecords) /\ k - 1 < k
      <4>1. Len(ExactRecords) \in Nat
        BY ExactRecordsAre DEF IInv
      <4> QED BY <4>1
    <3>5. k > 1 => ExactRecords[k - 1].hash <= ExactRecords[k].hash
      BY <3>4, ExactRecordsAre DEF IInv
    <3> QED BY <3>3, <3>5
  <2> QED BY <2>1, <2>2
<1>4. DOMAIN prototypes = 1 .. Len(prototypes) /\ Len(prototypes) \in Nat
  BY DEF IInv, Types
<1>5. \A c \in DOMAIN prototypes : RegionAt(c) \in CompiledRegion /\ RegionAt(c).depth <= MaxRouteDepth
  BY RegionAtIs
<1>6. regions \in Seq(CompiledRegion) /\ Len(regions) = Len(prototypes)
  BY <1>4, <1>5
<1>7. \A k \in 1 .. Len(regions) : regions[k].depth <= MaxRouteDepth
  BY <1>4, <1>5, <1>6
<1> HIDE DEF regions, exact
<1>8. index \in [Buckets -> Seq(1 .. Len(regions))]
  BY <1>6, IndexIs
<1> HIDE DEF index
<1>9. a.exact = exact /\ a.regions = regions /\ a.index = index
  BY <1>1
<1> HIDE DEF a
<1>10. Writable(a)
  BY <1>1, <1>2, <1>6, <1>8, <1>9 DEF Writable
<1>11. RecordsAccepted(Pack(a), MaxRouteDepth)
  <2>1. \A k \in 1 .. Len(a.exact) : /\ Len(a.exact[k].context) <= MaxContext
                                     /\ k > 1 => a.exact[k - 1].hash <= a.exact[k].hash
    BY <1>3, <1>9
  <2>2. \A k \in 1 .. Len(a.regions) : a.regions[k].depth <= MaxRouteDepth
    BY <1>7, <1>9
  <2> QED BY <1>10, <2>1, <2>2, RecordsFollow
<1>12. SectionsAccepted(Pack(a)) /\ IndexAccepted(Pack(a))
  BY <1>10, SectionsFollow, IndexFollows
<1> QED BY <1>10, <1>11, <1>12 DEF FileAccepted, a

LEMMA WrittenStep == IInv /\ Placed /\ WrittenIsReadBack /\ [Next]_vars => WrittenIsReadBack'
<1> SUFFICES ASSUME IInv, Placed, WrittenIsReadBack, [Next]_vars PROVE WrittenIsReadBack'
  OBVIOUS
<1>0. result = [artifact |-> result.artifact, error |-> result.error]
  BY DEF IInv, Types
<1>1. CASE UNCHANGED vars
  <2>1. Compiled' = Compiled
    BY <1>1, CompiledKept DEF vars
  <2> QED BY <1>1, <2>1 DEF WrittenIsReadBack, vars
<1>2. CASE Canonicalize
  <2>1. /\ phase' # "done"
        /\ result'.error \in {result.error, "InvalidConfiguration", "EmptyCorpus",
                              "FormatLimit", "ConflictingContext"}
    <3>1. corpus \in Seq(Observation)
      BY CorporaAssumption DEF IInv, Types
    <3>2. Canonical(corpus).error \in {"none", "FormatLimit", "ConflictingContext"}
      BY <3>1, CanonicalIs
    <3> DEFINE canonical == Canonical(corpus)
    <3> HIDE DEF canonical
    <3>3. /\ phase = "corpus"
          /\ IF Refusal(canonical) # "none" THEN Fail(Refusal(canonical))
             ELSE phase' = "seed" /\ UNCHANGED result
      BY <1>2 DEF Canonicalize, canonical
    <3>4. Refusal(canonical) \in {"none", "InvalidConfiguration", "EmptyCorpus",
                                  "FormatLimit", "ConflictingContext"}
      BY <3>2 DEF Refusal, canonical
    <3> QED BY <1>0, <3>3, <3>4 DEF Fail
  <2> QED BY <2>1 DEF WrittenIsReadBack
<1>3. CASE Seed \/ Pass \/ AssignMemberships \/ DerivePath
  <2>1. phase' # "done" /\ result'.error \in {result.error, "FormatLimit"}
    BY <1>0, <1>3 DEF Seed, Pass, AssignMemberships, DerivePath, Fail
  <2> QED BY <2>1 DEF WrittenIsReadBack
<1>4. CASE WriteArtifact
  <2>1. /\ phase = "paths" /\ Len(paths) = Len(prototypes)
        /\ UNCHANGED <<config, observations, prototypes, members, paths>>
        /\ IF ~ WithinLimits(Pack(Compiled)) THEN Fail("FormatLimit")
           ELSE IF ~ FileAccepted(Pack(Compiled), MaxRouteDepth) THEN Fail("SelfValidation")
           ELSE /\ result' = [result EXCEPT !.artifact = View(Pack(Compiled))]
                /\ phase' = "done"
    BY <1>4 DEF WriteArtifact
  <2>2. /\ Writable(Compiled)
        /\ WithinLimits(Pack(Compiled)) => FileAccepted(Pack(Compiled), MaxRouteDepth)
    BY <2>1, CompiledIsAccepted
  <2>3. View(Pack(Compiled)) = Compiled
    BY <2>2, ViewOfPack
  <2>4. Compiled' = Compiled
    BY <2>1, CompiledKept
  <2>5. \/ result'.error = "FormatLimit" /\ phase' = "failed"
        \/ result'.error = result.error /\ result'.artifact = Compiled
    BY <1>0, <2>1, <2>2, <2>3 DEF Fail
  <2> QED BY <2>4, <2>5 DEF WrittenIsReadBack
<1> QED BY <1>1, <1>2, <1>3, <1>4 DEF Next

LEMMA InvStep ==
  IInv /\ Placed /\ WrittenIsReadBack /\ [PipelineNext]_pipelineVars
    => Placed' /\ WrittenIsReadBack'
BY PlacedStep, WrittenStep, OthersRead

LEMMA PipelineInvs == PipelineSpec => [](IInv /\ Placed /\ WrittenIsReadBack)
<1>1. PipelineInit => Placed /\ WrittenIsReadBack
  BY DEF PipelineInit, Init, Placed, WrittenIsReadBack
<1> QED BY <1>1, InvStep, PipelineIInv, PTL DEF PipelineSpec

-----------------------------------------------------------------------------
(* Whatever was compiled, the file that holds it gives back every record   *)
(* with its own emissions and every bucket with its own regions, and the   *)
(* parser refuses no file that is within the writer's limits               *)
(* (write_artifact, compiler.rs:516, and ArtifactView::parse,              *)
(* artifact.rs:461).                                                       *)
THEOREM WhatIsWrittenIsRead == PipelineSpec => []WrittenIsReadBack
BY PipelineInvs, PTL

-----------------------------------------------------------------------------
(* What a prediction of an artifact can be, with the loops of the module   *)
(* Artifact named.                                                         *)
USE BitsAssumption, MaxActiveAssumption, LowBitsAssumption, OutputCapacityAssumption,
    TokensAssumption, ScoreAssumption

ScanRound(regions, signature, kept, i) ==
  IF Covers(regions[i], signature)
  THEN Scratch!InsertRanked(kept, RouteEntry(regions, i, signature)) ELSE kept

ScanLoop ==
  INSTANCE RankedInsert_proofs WITH Capacity <- MaxActive, Before <- EntryPrecedes,
    Step <- ScanRound

EmissionRound(margin, none, p, emission) == Accumulate(p, WithBonus(emission, margin))

EmissionLoop ==
  INSTANCE RankedInsert_proofs WITH Capacity <- OutputCapacity, Before <- TokenPrecedes,
    Step <- EmissionRound

ActiveRound(regions, none, p, e) == AccumulateRegion(p, regions[e.record_index], e.margin)

ActiveLoop ==
  INSTANCE RankedInsert_proofs WITH Capacity <- OutputCapacity, Before <- TokenPrecedes,
    Step <- ActiveRound

CopyRound(none, same, p, entry) == InsertExact(p, entry)

CopyLoop ==
  INSTANCE RankedInsert_proofs WITH Capacity <- OutputCapacity, Before <- TokenPrecedes,
    Step <- CopyRound

LEMMA RegionLoop ==
  ASSUME NEW p, NEW region, NEW margin
  PROVE  AccumulateRegion(p, region, margin)
           = EmissionLoop!Folded(margin, 0, p, region.emissions)
BY DEF AccumulateRegion, EmissionLoop!Folded, EmissionRound, FoldLeft, MapThenFoldSet, Max,
       EmissionLoop!MapThenFoldSet, EmissionLoop!Greatest

(* What PredictedGraph says, with the loops named.                         *)
GraphOf(regions, signature, bucket) ==
  LET kept == ScanLoop!Folded(regions, signature, << >>, bucket)
      answered == ActiveLoop!Folded(regions, 0, EmptyPrediction, kept)
  IN  [prediction |-> answered,
       summary    |-> Summary(IF answered.entries # << >> THEN "Graph" ELSE "Novel",
                              0, Cardinality({k \in DOMAIN bucket : Covers(regions[bucket[k]], signature)}),
                              Len(kept), Len(bucket))]

LEMMA GraphLoops ==
  ASSUME NEW a, NEW c
  PROVE  PredictedGraph(a, c) = GraphOf(a.regions, SignatureOf(c), a.index[BucketOf(c)])
BY DEF PredictedGraph, GraphOf, ActiveLoop!Folded, ActiveRound, ScanLoop!Folded, ScanRound,
       FoldLeft, MapThenFoldSet, Max,
       ActiveLoop!MapThenFoldSet, ActiveLoop!Greatest,
       ScanLoop!MapThenFoldSet, ScanLoop!Greatest

LEMMA CopyLoops ==
  ASSUME NEW record
  PROVE  CopyExact(record) = CopyLoop!Folded(0, 0, EmptyPrediction, record.emissions)
BY DEF CopyExact, CopyLoop!Folded, CopyRound, FoldLeft, MapThenFoldSet, Max,
       CopyLoop!MapThenFoldSet, CopyLoop!Greatest

-----------------------------------------------------------------------------
(* The predictions a buffer of the capacity can hold.                      *)
Predictions ==
  {p \in [entries : Seq(TokenScore), truncated : Nat] : Len(p.entries) <= OutputCapacity}

LEMMA SaturateType ==
  ASSUME NEW sum \in Int
  PROVE  Saturate(sum) \in Score
BY DEF Saturate, Score

(* The slot of a held token, and what taking it out leaves.                *)
LEMMA SlotIs ==
  ASSUME NEW entries \in Seq(TokenScore), NEW token
  PROVE  SlotOf(entries, token) \in 0 .. Len(entries)
<1> DEFINE I == {i \in 1 .. Len(entries) : entries[i].token = token}
<1>1. SlotOf(entries, token) = IF I # {} THEN Min(I) ELSE 0
  BY DEF SlotOf, SelectInSeq
<1>2. Len(entries) \in Nat /\ I \in SUBSET Nat /\ I \in SUBSET (1 .. Len(entries))
  OBVIOUS
<1>3. CASE I # {}
  <2> HIDE DEF I
  <2>1. PICK x \in I : \A y \in I : x <= y
    BY <1>2, <1>3, Numbers!NatHasMin
  <2>2. Min(I) \in I
    BY <2>1 DEF Min
  <2>3. SlotOf(entries, token) = Min(I)
    BY <1>1, <1>3
  <2>4. SlotOf(entries, token) \in 1 .. Len(entries)
    BY <1>2, <2>2, <2>3
  <2> QED BY <1>2, <2>4
<1>4. CASE I = {}
  <2>1. SlotOf(entries, token) = 0
    BY <1>1, <1>4
  <2> QED BY <1>2, <2>1
<1> QED BY <1>3, <1>4

LEMMA RemovedType ==
  ASSUME NEW S, NEW s \in Seq(S), NEW i \in 1 .. Len(s)
  PROVE  RemoveAt(s, i) \in Seq(S) /\ Len(RemoveAt(s, i)) = Len(s) - 1
<1>1. Len(s) \in Nat /\ i \in Nat
  OBVIOUS
<1>2. SubSeq(s, 1, i - 1) \in Seq(S) /\ Len(SubSeq(s, 1, i - 1)) = i - 1
  BY <1>1, SubSeqProperties
<1>3. SubSeq(s, i + 1, Len(s)) \in Seq(S) /\ Len(SubSeq(s, i + 1, Len(s))) = Len(s) - i
  BY <1>1, SubSeqProperties
<1>4. RemoveAt(s, i) = SubSeq(s, 1, i - 1) \o SubSeq(s, i + 1, Len(s))
  BY DEF RemoveAt
<1> DEFINE l == SubSeq(s, 1, i - 1)
           r == SubSeq(s, i + 1, Len(s))
<1>5. l \in Seq(S) /\ r \in Seq(S) /\ Len(l) = i - 1 /\ Len(r) = Len(s) - i
  BY <1>2, <1>3
<1> HIDE DEF l, r
<1>6. l \o r \in Seq(S) /\ Len(l \o r) = Len(l) + Len(r)
  BY <1>5, ConcatProperties
<1>7. RemoveAt(s, i) = l \o r
  BY <1>4 DEF l, r
<1>8. Len(l) + Len(r) = Len(s) - 1
  <2>1. Len(s) \in Nat /\ i \in Nat /\ Len(l) = i - 1 /\ Len(r) = Len(s) - i
    BY <1>1, <1>5
  <2> QED BY <2>1
<1>9. Len(l \o r) = Len(s) - 1
  BY <1>6, <1>8
<1> QED BY <1>6, <1>7, <1>9

LEMMA RankedType ==
  ASSUME NEW s \in Seq(TokenScore), Len(s) <= OutputCapacity, NEW entry \in TokenScore
  PROVE  /\ Ranked!InsertRanked(s, entry) \in Seq(TokenScore)
         /\ Len(Ranked!InsertRanked(s, entry)) <= OutputCapacity
         /\ OutputCapacity > 0 => Ranked!InsertRanked(s, entry) # << >>
<1>1. /\ EmissionLoop!InsertRanked(s, entry) \in Seq(TokenScore)
      /\ Len(EmissionLoop!InsertRanked(s, entry)) = EmissionLoop!LengthAfter(s)
      /\ EmissionLoop!LengthAfter(s) <= OutputCapacity
  BY EmissionLoop!InsertRankedEntries
<1>2. EmissionLoop!InsertRanked(s, entry) = Ranked!InsertRanked(s, entry)
  BY DEF EmissionLoop!InsertRanked, Ranked!InsertRanked, EmissionLoop!Shifted, Ranked!Shifted,
         EmissionLoop!Position, Ranked!Position, EmissionLoop!LengthAfter, Ranked!LengthAfter
<1>3. OutputCapacity > 0 => EmissionLoop!LengthAfter(s) > 0
  BY DEF EmissionLoop!LengthAfter
<1> QED BY <1>1, <1>2, <1>3

LEMMA AccumulateType ==
  ASSUME NEW p \in Predictions, NEW entry \in TokenScore
  PROVE  /\ Accumulate(p, entry) \in Predictions
         /\ OutputCapacity > 0 => Accumulate(p, entry).entries # << >>
<1> DEFINE entries == p.entries
           slot == SlotOf(entries, entry.token)
           grown == [token |-> entry.token, score |-> Saturate(entries[slot].score + entry.score)]
<1>1. /\ entries \in Seq(TokenScore) /\ p.truncated \in Nat
      /\ Len(entries) \in Nat /\ Len(entries) <= OutputCapacity
  BY DEF Predictions
<1>2. slot \in 0 .. Len(entries)
  BY <1>1, SlotIs
<1> HIDE DEF entries, slot
<1>3. CASE slot # 0
  <2>1. slot \in 1 .. Len(entries)
    BY <1>2, <1>3, <1>1
  <2>2. grown \in TokenScore
    <3>1. entries[slot] \in TokenScore
      BY <1>1, <2>1
    <3>2. entries[slot].score \in Int /\ entry.score \in Int /\ entry.token \in Tokens
      BY <3>1 DEF TokenScore, Score
    <3>3. Saturate(entries[slot].score + entry.score) \in Score
      BY <3>2, SaturateType
    <3> QED BY <3>2, <3>3 DEF TokenScore
  <2> HIDE DEF grown
  <2>3. RemoveAt(entries, slot) \in Seq(TokenScore) /\ Len(RemoveAt(entries, slot)) <= OutputCapacity
    BY <1>1, <2>1, RemovedType
  <2> DEFINE new == Ranked!InsertRanked(RemoveAt(entries, slot), grown)
  <2>4. /\ new \in Seq(TokenScore) /\ Len(new) <= OutputCapacity
        /\ OutputCapacity > 0 => new # << >>
    BY <2>2, <2>3, RankedType
  <2>5. Accumulate(p, entry) = [entries |-> new, truncated |-> p.truncated]
    BY <1>3 DEF Accumulate, entries, slot, grown
  <2> HIDE DEF new
  <2> QED BY <1>1, <2>4, <2>5 DEF Predictions
<1>4. CASE slot = 0
  <2> DEFINE new == Ranked!InsertRanked(entries, entry)
  <2>1. /\ new \in Seq(TokenScore) /\ Len(new) <= OutputCapacity
        /\ OutputCapacity > 0 => new # << >>
    BY <1>1, RankedType
  <2>2. Accumulate(p, entry) = [entries |-> new,
                                truncated |-> IF Len(entries) < OutputCapacity
                                              THEN p.truncated ELSE p.truncated + 1]
    BY <1>4 DEF Accumulate, entries, slot
  <2> HIDE DEF new
  <2> QED BY <1>1, <2>1, <2>2 DEF Predictions
<1> QED BY <1>3, <1>4

(* Something is predicted once a region with emissions was accumulated.    *)
Filled == {p \in Predictions : OutputCapacity > 0 => p.entries # << >>}

LEMMA RegionType ==
  ASSUME NEW p \in Predictions, NEW region \in CompiledRegion, NEW margin \in Int
  PROVE  /\ AccumulateRegion(p, region, margin) \in Predictions
         /\ p \in Filled \/ region.emissions # << >> => AccumulateRegion(p, region, margin) \in Filled
<1> DEFINE s == region.emissions
           V == [n \in 0 .. Len(s) |-> IF n = 0 THEN {p} ELSE Filled]
<1>1. s \in Seq(TokenScore) /\ Len(s) \in Nat
  BY DEF CompiledRegion, Emissions
<1>2. \A n \in 1 .. Len(s) : \A v \in Predictions : EmissionRound(margin, 0, v, s[n]) \in Filled
  <2> SUFFICES ASSUME NEW n \in 1 .. Len(s), NEW v \in Predictions
               PROVE  EmissionRound(margin, 0, v, s[n]) \in Filled
    OBVIOUS
  <2>1. s[n] \in TokenScore
    BY <1>1
  <2>2. s[n].token \in Tokens /\ s[n].score \in Int
    BY <2>1 DEF TokenScore, Score
  <2>3. Saturate(s[n].score + margin) \in Score
    BY <2>2, SaturateType
  <2>4. WithBonus(s[n], margin) \in TokenScore
    BY <2>2, <2>3 DEF WithBonus, TokenScore
  <2> QED BY <2>4, AccumulateType DEF EmissionRound, Filled
<1> HIDE DEF s
<1>3. \A n \in 1 .. Len(s) : \A v \in V[n - 1] : EmissionRound(margin, 0, v, s[n]) \in V[n]
  <2> SUFFICES ASSUME NEW n \in 1 .. Len(s), NEW v \in V[n - 1]
               PROVE  EmissionRound(margin, 0, v, s[n]) \in V[n]
    OBVIOUS
  <2>1. n \in 0 .. Len(s) /\ n - 1 \in 0 .. Len(s) /\ n # 0
    BY <1>1
  <2>2. v \in Predictions
    BY <2>1 DEF Filled
  <2>3. V[n] = Filled
    BY <2>1
  <2> QED BY <1>2, <2>2, <2>3
<1>4. p \in V[0] /\ Len(s) \in 0 .. Len(s)
  BY <1>1
<1>5. V[Len(s)] = IF Len(s) = 0 THEN {p} ELSE Filled
  BY <1>4
<1> HIDE DEF V
<1>6. EmissionLoop!Folded(margin, 0, p, s) \in V[Len(s)]
  BY <1>1, <1>3, <1>4, EmissionLoop!FoldKeeps
<1>7. AccumulateRegion(p, region, margin) \in V[Len(s)]
  BY <1>6, RegionLoop DEF s
<1>8. s # << >> => Len(s) # 0
  BY <1>1
<1> QED BY <1>5, <1>7, <1>8 DEF Filled, s

LEMMA HammingType ==
  ASSUME NEW code \in Code, NEW region \in CompiledRegion
  PROVE  MaskedHamming(code, region) \in Nat
<1> DEFINE D == ((code \ region.prototype) \cup (region.prototype \ code)) \cap region.mask
<1>1. D \in SUBSET Bits
  BY DEF Code, CompiledRegion
<1>2. IsFiniteSet(D)
  BY <1>1, FS_Subset
<1>3. Cardinality(D) \in Nat
  BY <1>2, FS_CardinalityType
<1> QED BY <1>3 DEF MaskedHamming

(* The entries of the regions that cover a signature.                      *)
CoverOf(regions, signature) ==
  {RouteEntry(regions, i, signature) : i \in {j \in DOMAIN regions : Covers(regions[j], signature)}}

(* What the scan has kept after n entries of the bucket.                   *)
KeptAfter(regions, signature, bucket, n) ==
  {kept \in Seq(CoverOf(regions, signature)) :
     /\ Len(kept) <= MaxActive
     /\ MaxActive > 0 /\ (\E k \in 1 .. n : Covers(regions[bucket[k]], signature))
          => kept # << >>}

LEMMA ScanRoundKeeps ==
  ASSUME NEW regions, NEW signature, NEW bucket \in Seq(DOMAIN regions),
         NEW n \in 1 .. Len(bucket), NEW kept \in KeptAfter(regions, signature, bucket, n - 1)
  PROVE  ScanRound(regions, signature, kept, bucket[n]) \in KeptAfter(regions, signature, bucket, n)
<1> DEFINE i == bucket[n]
           e == RouteEntry(regions, i, signature)
           C == CoverOf(regions, signature)
<1>1. /\ kept \in Seq(C) /\ Len(kept) <= MaxActive /\ Len(kept) \in Nat
      /\ MaxActive > 0 /\ (\E k \in 1 .. n - 1 : Covers(regions[bucket[k]], signature))
           => kept # << >>
  BY DEF KeptAfter
<1>2. i \in DOMAIN regions
  OBVIOUS
<1>3. CASE Covers(regions[i], signature)
  <2>1. e \in C
    BY <1>2, <1>3 DEF CoverOf
  <2> HIDE DEF e, C
  <2> DEFINE new == ScanLoop!InsertRanked(kept, e)
  <2>2. /\ new \in Seq(C) /\ Len(new) = ScanLoop!LengthAfter(kept)
        /\ ScanLoop!LengthAfter(kept) <= MaxActive
    BY <1>1, <2>1, ScanLoop!InsertRankedEntries
  <2>3. new = Scratch!InsertRanked(kept, e)
    BY DEF ScanLoop!InsertRanked, Scratch!InsertRanked, ScanLoop!Shifted, Scratch!Shifted,
           ScanLoop!Position, Scratch!Position, ScanLoop!LengthAfter, Scratch!LengthAfter
  <2> HIDE DEF new
  <2>4. MaxActive > 0 => new # << >>
    <3>1. MaxActive > 0 => ScanLoop!LengthAfter(kept) > 0
      BY <1>1 DEF ScanLoop!LengthAfter
    <3> QED BY <2>2, <3>1
  <2>5. ScanRound(regions, signature, kept, i) = new
    BY <1>3, <2>3 DEF ScanRound, e
  <2> HIDE DEF i
  <2> QED BY <2>2, <2>4, <2>5 DEF KeptAfter, C, i
<1>4. CASE ~ Covers(regions[i], signature)
  <2>1. ScanRound(regions, signature, kept, i) = kept
    BY <1>4 DEF ScanRound
  <2>2. (\E k \in 1 .. n : Covers(regions[bucket[k]], signature))
          => \E k \in 1 .. n - 1 : Covers(regions[bucket[k]], signature)
    <3>1. n \in Nat /\ \A k \in 1 .. n : k = n \/ k \in 1 .. n - 1
      OBVIOUS
    <3> QED BY <1>4, <3>1
  <2> QED BY <1>1, <2>1, <2>2 DEF KeptAfter
<1> QED BY <1>3, <1>4

LEMMA ScanKeeps ==
  ASSUME NEW regions, NEW signature, NEW bucket \in Seq(DOMAIN regions)
  PROVE  ScanLoop!Folded(regions, signature, << >>, bucket)
           \in KeptAfter(regions, signature, bucket, Len(bucket))
<1> DEFINE V == [m \in 0 .. Len(bucket) |-> KeptAfter(regions, signature, bucket, m)]
<1>1. Len(bucket) \in Nat /\ Len(bucket) \in 0 .. Len(bucket) /\ 0 \in 0 .. Len(bucket)
  OBVIOUS
<1>2. \A m \in 0 .. Len(bucket) : V[m] = KeptAfter(regions, signature, bucket, m)
  OBVIOUS
<1> HIDE DEF V
<1>3. << >> \in V[0]
  <2>1. << >> \in Seq(CoverOf(regions, signature)) /\ Len(<< >>) = 0
    OBVIOUS
  <2>2. << >> \in KeptAfter(regions, signature, bucket, 0)
    BY <2>1 DEF KeptAfter
  <2> QED BY <1>1, <1>2, <2>2
<1>4. \A m \in 1 .. Len(bucket) : \A v \in V[m - 1] :
        ScanRound(regions, signature, v, bucket[m]) \in V[m]
  <2> SUFFICES ASSUME NEW m \in 1 .. Len(bucket), NEW v \in V[m - 1]
               PROVE  ScanRound(regions, signature, v, bucket[m]) \in V[m]
    OBVIOUS
  <2>1. m \in 0 .. Len(bucket) /\ m - 1 \in 0 .. Len(bucket)
    BY <1>1
  <2>2. v \in KeptAfter(regions, signature, bucket, m - 1)
    BY <1>2, <2>1
  <2> QED BY <1>2, <2>1, <2>2, ScanRoundKeeps
<1>5. ScanLoop!Folded(regions, signature, << >>, bucket) \in V[Len(bucket)]
  BY <1>3, <1>4, ScanLoop!FoldKeeps
<1> QED BY <1>1, <1>2, <1>5

LEMMA ActiveKeeps ==
  ASSUME NEW regions \in Seq(CompiledRegion), NEW signature \in Code,
         NEW kept \in Seq(CoverOf(regions, signature))
  PROVE  LET p == ActiveLoop!Folded(regions, 0, EmptyPrediction, kept)
         IN  /\ p \in Predictions
             /\ kept = << >> => p.entries = << >>
             /\ /\ kept # << >>
                /\ \A i \in DOMAIN regions : Covers(regions[i], signature) => regions[i].emissions # << >>
                => p \in Filled
<1> DEFINE Full == \A i \in DOMAIN regions :
                     Covers(regions[i], signature) => regions[i].emissions # << >>
           V == [n \in 0 .. Len(kept) |->
                   IF n = 0 THEN {EmptyPrediction} ELSE IF Full THEN Filled ELSE Predictions]
           p == ActiveLoop!Folded(regions, 0, EmptyPrediction, kept)
<1>1. Len(kept) \in Nat /\ Len(kept) \in 0 .. Len(kept) /\ 0 \in 0 .. Len(kept)
  OBVIOUS
<1>2. EmptyPrediction \in Predictions /\ EmptyPrediction.entries = << >>
  BY DEF EmptyPrediction, Predictions
<1>3. \A n \in 1 .. Len(kept) : \A v \in Predictions :
        /\ ActiveRound(regions, 0, v, kept[n]) \in Predictions
        /\ Full => ActiveRound(regions, 0, v, kept[n]) \in Filled
  <2> SUFFICES ASSUME NEW n \in 1 .. Len(kept), NEW v \in Predictions
               PROVE  /\ ActiveRound(regions, 0, v, kept[n]) \in Predictions
                      /\ Full => ActiveRound(regions, 0, v, kept[n]) \in Filled
    OBVIOUS
  <2>1. kept[n] \in CoverOf(regions, signature)
    OBVIOUS
  <2>2. PICK j \in DOMAIN regions : /\ Covers(regions[j], signature)
                                    /\ kept[n] = RouteEntry(regions, j, signature)
    BY <2>1 DEF CoverOf
  <2>3. regions[j] \in CompiledRegion
    OBVIOUS
  <2>4. /\ kept[n].record_index = j
        /\ kept[n].margin = regions[j].radius - MaskedHamming(signature, regions[j])
    BY <2>2 DEF RouteEntry, MembershipOf
  <2>5. MaskedHamming(signature, regions[j]) \in Nat /\ regions[j].radius \in Nat
    BY <2>3, HammingType DEF CompiledRegion
  <2>6. kept[n].margin \in Int
    BY <2>4, <2>5
  <2>7. ActiveRound(regions, 0, v, kept[n]) = AccumulateRegion(v, regions[j], kept[n].margin)
    BY <2>4 DEF ActiveRound
  <2>8. Full => regions[j].emissions # << >>
    BY <2>2
  <2> HIDE DEF Full
  <2> QED BY <2>3, <2>6, <2>7, <2>8, RegionType
<1> HIDE DEF Full
<1>4. \A n \in 1 .. Len(kept) : \A v \in V[n - 1] : ActiveRound(regions, 0, v, kept[n]) \in V[n]
  <2> SUFFICES ASSUME NEW n \in 1 .. Len(kept), NEW v \in V[n - 1]
               PROVE  ActiveRound(regions, 0, v, kept[n]) \in V[n]
    OBVIOUS
  <2>1. n \in 0 .. Len(kept) /\ n - 1 \in 0 .. Len(kept) /\ n # 0
    BY <1>1
  <2>2. V[n] = IF Full THEN Filled ELSE Predictions
    BY <2>1
  <2>3. v \in Predictions
    BY <1>2, <2>1 DEF Filled
  <2> QED BY <1>3, <2>2, <2>3
<1>5. /\ V[0] = {EmptyPrediction}
      /\ V[Len(kept)] = IF Len(kept) = 0 THEN {EmptyPrediction}
                        ELSE IF Full THEN Filled ELSE Predictions
  BY <1>1
<1> HIDE DEF V
<1>6. EmptyPrediction \in V[0]
  BY <1>5
<1>7. p \in V[Len(kept)]
  BY <1>4, <1>6, ActiveLoop!FoldKeeps
<1>8. kept = << >> <=> Len(kept) = 0
  BY <1>1
<1> HIDE DEF p
<1> QED BY <1>2, <1>5, <1>7, <1>8 DEF Filled, p, Full

(* An answer of the graph: what it holds, and when it holds anything.      *)
LEMMA GraphIs ==
  ASSUME NEW regions \in Seq(CompiledRegion), NEW signature \in Code,
         NEW bucket \in Seq(DOMAIN regions)
  PROVE  LET answer == GraphOf(regions, signature, bucket)
         IN  /\ answer.prediction \in Predictions
             /\ answer.summary.source
                  = IF answer.prediction.entries # << >> THEN "Graph" ELSE "Novel"
             /\ answer.summary.regions_scanned = Len(bucket)
             /\ /\ MaxActive > 0 /\ OutputCapacity > 0
                /\ \E k \in 1 .. Len(bucket) : Covers(regions[bucket[k]], signature)
                /\ \A i \in DOMAIN regions :
                     Covers(regions[i], signature) => regions[i].emissions # << >>
                => answer.summary.source = "Graph"
<1> DEFINE kept == ScanLoop!Folded(regions, signature, << >>, bucket)
           p == ActiveLoop!Folded(regions, 0, EmptyPrediction, kept)
           answer == GraphOf(regions, signature, bucket)
           source == IF p.entries # << >> THEN "Graph" ELSE "Novel"
<1>1. kept \in KeptAfter(regions, signature, bucket, Len(bucket))
  BY ScanKeeps
<1> HIDE DEF kept
<1>2. /\ kept \in Seq(CoverOf(regions, signature))
      /\ MaxActive > 0 /\ (\E k \in 1 .. Len(bucket) : Covers(regions[bucket[k]], signature))
           => kept # << >>
  BY <1>1 DEF KeptAfter
<1>3. /\ p \in Predictions
      /\ /\ kept # << >>
         /\ \A i \in DOMAIN regions : Covers(regions[i], signature) => regions[i].emissions # << >>
         => p \in Filled
  BY <1>2, ActiveKeeps
<1>4. /\ answer.prediction = p /\ answer.summary.source = source
      /\ answer.summary.regions_scanned = Len(bucket)
  BY DEF GraphOf, kept, Summary
<1> HIDE DEF p, answer
<1>5. OutputCapacity > 0 /\ p \in Filled => p.entries # << >>
  BY DEF Filled
<1> QED BY <1>2, <1>3, <1>4, <1>5 DEF answer

-----------------------------------------------------------------------------
(* The artifact of a compilation that is done.                             *)
Finished == IInv /\ Placed /\ WrittenIsReadBack /\ phase = "done"

LEMMA ArtifactIs ==
  ASSUME Finished
  PROVE  LET a == result.artifact
         IN  /\ a.exact = IF config.include_exact THEN ExactRecords ELSE << >>
             /\ a.regions = [c \in DOMAIN prototypes |-> RegionAt(c)]
             /\ a.regions \in Seq(CompiledRegion)
             /\ DOMAIN a.regions = DOMAIN prototypes
             /\ a.index = BuildRegionIndex(a.regions)
             /\ \A bucket \in Buckets : a.index[bucket] \in Seq(DOMAIN a.regions)
<1> DEFINE a == Compiled
<1>1. result.artifact = a
  BY DEF Finished, WrittenIsReadBack
<1>2. Writable(a)
  BY CompiledIsAccepted DEF Finished, Placed
<1>3. /\ a.exact = IF config.include_exact THEN ExactRecords ELSE << >>
      /\ a.regions = [c \in DOMAIN prototypes |-> RegionAt(c)]
      /\ a.index = BuildRegionIndex(a.regions)
  BY DEF Compiled
<1> HIDE DEF a
<1>4. a.regions \in Seq(CompiledRegion) /\ a.index \in [Buckets -> Seq(1 .. Len(a.regions))]
  BY <1>2 DEF Writable
<1>5. DOMAIN a.regions = 1 .. Len(a.regions)
  BY <1>4
<1>6. \A bucket \in Buckets : a.index[bucket] \in Seq(DOMAIN a.regions)
  BY <1>4, <1>5
<1>7. DOMAIN a.regions = DOMAIN prototypes
  BY <1>3
<1> QED BY <1>1, <1>3, <1>4, <1>6, <1>7

LEMMA ContextFacts ==
  ASSUME NEW o \in Observation
  PROVE  /\ o.context \in Contexts /\ SignatureOf(o.context) \in Code
         /\ BucketOf(o.context) = SignatureOf(o.context) \cap LowBits
         /\ BucketOf(o.context) \in Buckets
         /\ o.emissions \in Seq(TokenScore)
<1>1. o.context \in Contexts /\ o.emissions \in Seq(TokenScore)
  BY DEF Observation, Emissions
<1> QED BY <1>1, SignatureOfAssumption DEF BucketOf, Buckets

(* What the graph answers an observation, of the corpus or not.            *)
LEMMA GraphAnswer ==
  ASSUME Finished, NEW o \in Observation
  PROVE  LET answer == PredictedGraph(result.artifact, o.context)
         IN  /\ answer.prediction \in Predictions
             /\ answer.summary.source
                  = IF answer.prediction.entries # << >> THEN "Graph" ELSE "Novel"
             /\ answer.summary.regions_scanned \in Nat
<1> DEFINE regions == result.artifact.regions
           signature == SignatureOf(o.context)
           bucket == result.artifact.index[BucketOf(o.context)]
           answer == PredictedGraph(result.artifact, o.context)
<1>1. regions \in Seq(CompiledRegion) /\ bucket \in Seq(DOMAIN regions) /\ signature \in Code
  BY ArtifactIs, ContextFacts
<1>2. answer = GraphOf(regions, signature, bucket)
  BY GraphLoops
<1> HIDE DEF regions, bucket, signature, answer
<1>3. Len(bucket) \in Nat
  BY <1>1
<1> QED BY <1>1, <1>2, <1>3, GraphIs DEF answer

(* A region of full mask covers a signature as far as it is from it.       *)
LEMMA MaskIsFull ==
  ASSUME NEW code \in Code, NEW region \in CompiledRegion, region.mask = Bits
  PROVE  /\ MaskedHamming(code, region) = Distance(code, region.prototype)
         /\ Covers(region, code) <=> Distance(code, region.prototype) <= region.radius
         /\ Covers(region, code) => NearBucket(region, code \cap LowBits)
<1> DEFINE all == (code \ region.prototype) \cup (region.prototype \ code)
           key == region.prototype \cap LowBits
           bucket == code \cap LowBits
           low == (bucket \ key) \cup (key \ bucket)
<1>1. region.prototype \in Code /\ region.radius \in Nat
  BY DEF CompiledRegion
<1>2. all \cap region.mask = all /\ all \in SUBSET Bits /\ low \in SUBSET all
  BY <1>1 DEF Code
<1>3. /\ MaskedHamming(code, region) = Cardinality(all \cap region.mask)
      /\ Distance(code, region.prototype) = Cardinality(all)
      /\ NearBucket(region, code \cap LowBits) <=> Cardinality(low) <= region.radius
  BY DEF MaskedHamming, Distance, NearBucket
<1> HIDE DEF all, low
<1>4. IsFiniteSet(all) /\ Cardinality(all) \in Nat
  BY <1>2, FS_Subset, FS_CardinalityType
<1>5. IsFiniteSet(low) /\ Cardinality(low) \in Nat /\ Cardinality(low) <= Cardinality(all)
  BY <1>2, <1>4, FS_Subset, FS_CardinalityType
<1> QED BY <1>1, <1>2, <1>3, <1>4, <1>5 DEF Covers

(* A region that covers an observation has members, and so emissions.      *)
LEMMA CoveringSpeaks ==
  ASSUME Finished, NEW i \in DOMAIN observations, NEW c \in DOMAIN prototypes,
         Covers(RegionAt(c), SignatureAt(i))
  PROVE  RegionAt(c).emissions # << >>
<1> DEFINE group == MembersOf(c)
           far == Distance(SignatureAt(i), prototypes[c])
<1>1. /\ RegionAt(c) \in CompiledRegion /\ RegionAt(c).radius = Radius(c)
      /\ RegionAt(c).prototype = prototypes[c] /\ RegionAt(c).mask = Bits
      /\ RegionAt(c).emissions = RegionEmissions(group)
      /\ members[c] = group /\ group \in SUBSET DOMAIN observations
  BY RegionAtIs DEF Finished, Placed
<1>2. SignatureAt(i) \in Code
  BY SignatureFacts DEF Finished, IInv
<1>3. far <= Radius(c)
  BY <1>1, <1>2, MaskIsFull
<1>4. prototypes \in Seq(Code) /\ prototypes # << >> /\ config.overlap_margin \in Nat
  BY ConfigFacts DEF Finished, IInv, Types, Placed
<1>5. /\ NearestDistance(i, prototypes) \in Nat
      /\ far \in 0 .. Cardinality(Bits) /\ Cardinality(Bits) \in Nat
  <2>1. NearestDistance(i, prototypes) \in 0 .. Cardinality(Bits)
    BY <1>4, NearestIs DEF Finished, IInv
  <2>2. prototypes[c] \in Code
    BY <1>4
  <2>3. far \in 0 .. Cardinality(Bits)
    BY <1>2, <2>2, DistanceType
  <2>4. Cardinality(Bits) \in Nat
    BY FS_CardinalityType
  <2> QED BY <2>1, <2>3, <2>4
<1>6. group # {}
  <2> SUFFICES ASSUME group = {} PROVE FALSE
    OBVIOUS
  <2>1. Radius(c) = Smaller(Max({0}) + config.overlap_margin, Cardinality(Bits))
    <3>1. {0} \cup {Distance(SignatureAt(j), prototypes[c]) : j \in members[c]} = {0}
      BY <1>1
    <3> QED BY <3>1 DEF Radius
  <2>2. Max({0}) = 0
    BY DEF Max
  <2>3. Radius(c) <= config.overlap_margin
    BY <1>4, <1>5, <2>1, <2>2 DEF Smaller
  <2>4. far <= NearestDistance(i, prototypes) + config.overlap_margin
    <3> HIDE DEF far
    <3>1. Radius(c) \in Int
      BY <1>1, RadiusIs DEF Finished, IInv
    <3> QED BY <1>3, <1>4, <1>5, <2>3, <3>1
  <2>5. i \in group
    BY <2>4 DEF MembersOf
  <2> QED BY <2>5
<1>7. EmittedBy(group) # {}
  <2> HIDE DEF group
  <2>1. PICK j \in group : TRUE
    BY <1>6
  <2>2. j \in DOMAIN observations
    BY <1>1
  <2>3. observations[j].emissions # << >> /\ observations[j].emissions \in Seq(TokenScore)
    <3>1. observations[j] \in ToSet(observations)
      BY <2>2 DEF ToSet
    <3>2. observations[j] \in ToSet(corpus)
      BY <3>1 DEF Finished, IInv, Canonicalized
    <3>3. observations[j] \in Observation
      BY <2>2, SignatureFacts DEF Finished, IInv
    <3> QED BY <3>2, <3>3, ContextFacts, CorporaAssumption DEF Finished, IInv, Types
  <2>4. 1 \in DOMAIN observations[j].emissions
    <3> DEFINE list == observations[j].emissions
    <3> HIDE DEF list
    <3>1. list # << >> /\ list \in Seq(TokenScore)
      BY <2>3 DEF list
    <3>2. 1 \in DOMAIN list
      BY <3>1
    <3> QED BY <3>2 DEF list
  <2>5. <<j, 1>> \in EmittedBy(group)
    BY <1>1, <2>1, <2>4, EmittedIs DEF Finished, IInv
  <2> QED BY <2>5
<1>8. config.max_region_emissions > 0
  BY ConfigFacts DEF Finished, IInv, Placed, BadConfig
<1> QED BY <1>1, <1>7, <1>8, RegionEmissionsAre DEF Finished, IInv

(* The nearest region of an observation covers it and is listed.           *)
LEMMA NearestIsListed ==
  ASSUME Finished, NEW i \in DOMAIN observations
  PROVE  LET regions == result.artifact.regions
             bucket == result.artifact.index[BucketOf(observations[i].context)]
         IN  \E k \in 1 .. Len(bucket) : Covers(regions[bucket[k]], SignatureAt(i))
<1> DEFINE regions == result.artifact.regions
           index == result.artifact.index
           b == BucketOf(observations[i].context)
           near == NearestDistance(i, prototypes)
<1>1. prototypes \in Seq(Code) /\ prototypes # << >> /\ config.overlap_margin \in Nat
  BY ConfigFacts DEF Finished, IInv, Types, Placed
<1>2. near \in Nat /\ \E c \in DOMAIN prototypes : near = Distance(SignatureAt(i), prototypes[c])
  <2>1. near \in 0 .. Cardinality(Bits)
    BY <1>1, NearestIs DEF Finished, IInv
  <2>2. Cardinality(Bits) \in Nat
    BY FS_CardinalityType
  <2> QED BY <1>1, <2>1, <2>2, NearestIs DEF Finished, IInv
<1>3. PICK c \in DOMAIN prototypes : near = Distance(SignatureAt(i), prototypes[c])
  BY <1>2
<1>4. /\ RegionAt(c) \in CompiledRegion /\ RegionAt(c).radius = Radius(c)
      /\ RegionAt(c).prototype = prototypes[c] /\ RegionAt(c).mask = Bits
      /\ members[c] = MembersOf(c) /\ MembersOf(c) \in SUBSET DOMAIN observations
  BY RegionAtIs DEF Finished, Placed
<1>5. i \in MembersOf(c)
  <2>1. near <= near + config.overlap_margin
    BY <1>1, <1>2
  <2> QED BY <1>3, <2>1 DEF MembersOf
<1>6. Distance(SignatureAt(i), prototypes[c]) <= Radius(c)
  BY <1>4, <1>5, RadiusIs DEF Finished, IInv
<1>7. SignatureAt(i) \in Code /\ observations[i] \in Observation
  BY SignatureFacts DEF Finished, IInv
<1>8. Covers(RegionAt(c), SignatureAt(i)) /\ NearBucket(RegionAt(c), SignatureAt(i) \cap LowBits)
  BY <1>4, <1>6, <1>7, MaskIsFull
<1>9. b = SignatureAt(i) \cap LowBits /\ b \in Buckets
  BY <1>7, ContextFacts DEF SignatureAt
<1>10. /\ regions \in Seq(CompiledRegion) /\ index = BuildRegionIndex(regions)
       /\ regions[c] = RegionAt(c) /\ c \in DOMAIN regions
  BY ArtifactIs
<1> HIDE DEF regions, index
<1>11. c \in 1 .. Len(regions) /\ NearBucket(regions[c], b)
  BY <1>8, <1>9, <1>10
<1>12. PICK k \in 1 .. Len(index[b]) : index[b][k] = c
  <2>1. \A j \in 1 .. Len(regions) :
          NearBucket(regions[j], b) => \E k \in 1 .. Len(index[b]) : index[b][k] = j
    <3>1. \A bucket \in Buckets : \A j \in 1 .. Len(regions) :
            NearBucket(regions[j], bucket) =>
              \E k \in 1 .. Len(BuildRegionIndex(regions)[bucket]) :
                BuildRegionIndex(regions)[bucket][k] = j
      <4>1. regions \in Seq(CompiledRegion)
        BY <1>10
      <4> HIDE DEF b, near
      <4> QED BY ONLY <4>1, IndexIs
    <3> HIDE DEF b
    <3> QED BY <1>9, <1>10, <3>1
  <2> HIDE DEF b
  <2> QED BY <1>11, <2>1
<1>13. Covers(regions[index[b][k]], SignatureAt(i))
  BY <1>8, <1>10, <1>12
<1> QED BY <1>12, <1>13 DEF regions, index

-----------------------------------------------------------------------------
(* Whatever the corpus, the configuration and the capacities, no context   *)
(* of the corpus is novel to the artifact: the region nearest to it covers *)
(* it and stands in its bucket of the index, and every region the scratch  *)
(* may keep instead has members and so something to say (compile_regions,  *)
(* compiler.rs:420, and predict, artifact.rs:629).                         *)
THEOREM TrainingIsCovered == PipelineSpec => []TrainingIsNeverNovel
<1>1. ASSUME IInv, Placed, WrittenIsReadBack
      PROVE  TrainingIsNeverNovel
  <2> SUFFICES ASSUME phase = "done", MaxActive > 0, OutputCapacity > 0,
                      NEW i \in DOMAIN observations
               PROVE  PredictedGraph(result.artifact, observations[i].context).summary.source
                        = "Graph"
    BY DEF TrainingIsNeverNovel
  <2> DEFINE regions == result.artifact.regions
             signature == SignatureOf(observations[i].context)
             bucket == result.artifact.index[BucketOf(observations[i].context)]
             answer == PredictedGraph(result.artifact, observations[i].context)
  <2>1. Finished
    BY <1>1 DEF Finished
  <2>2. observations[i] \in Observation /\ signature = SignatureAt(i)
    BY <1>1, SignatureFacts DEF IInv, SignatureAt
  <2>3. regions \in Seq(CompiledRegion) /\ bucket \in Seq(DOMAIN regions) /\ signature \in Code
    BY <2>1, <2>2, ArtifactIs, ContextFacts
  <2>4. answer = GraphOf(regions, signature, bucket)
    BY GraphLoops
  <2>5. \E k \in 1 .. Len(bucket) : Covers(regions[bucket[k]], signature)
    BY <2>1, <2>2, NearestIsListed
  <2>6. \A c \in DOMAIN regions : Covers(regions[c], signature) => regions[c].emissions # << >>
    <3> SUFFICES ASSUME NEW c \in DOMAIN regions, Covers(regions[c], signature)
                 PROVE  regions[c].emissions # << >>
      OBVIOUS
    <3>1. c \in DOMAIN prototypes /\ regions[c] = RegionAt(c)
      BY <2>1, ArtifactIs
    <3> HIDE DEF regions, signature
    <3> QED BY <2>1, <2>2, <3>1, CoveringSpeaks
  <2> HIDE DEF regions, signature, bucket, answer
  <2>7. GraphOf(regions, signature, bucket).summary.source = "Graph"
    BY <2>3, <2>5, <2>6, GraphIs
  <2> QED BY <2>4, <2>7 DEF answer
<1> QED BY <1>1, PipelineInvs, PTL

-----------------------------------------------------------------------------
(* What the exact lane copies.                                             *)
LEMMA CopyIs ==
  ASSUME NEW record, record.emissions \in Seq(TokenScore)
  PROVE  /\ CopyExact(record) \in Predictions
         /\ Len(record.emissions) <= OutputCapacity =>
              CopyExact(record).entries = record.emissions
<1> DEFINE s == record.emissions
           Copied(n) == {p \in Predictions : /\ Len(p.entries) <= n
                                             /\ n <= OutputCapacity => p.entries = SubSeq(s, 1, n)}
           V == [n \in 0 .. Len(s) |-> Copied(n)]
<1>1. s \in Seq(TokenScore) /\ Len(s) \in Nat
  OBVIOUS
<1> HIDE DEF s
<1>2. \A n \in 1 .. Len(s) : \A v \in Copied(n - 1) : CopyRound(0, 0, v, s[n]) \in Copied(n)
  <2> SUFFICES ASSUME NEW n \in 1 .. Len(s), NEW v \in Copied(n - 1)
               PROVE  CopyRound(0, 0, v, s[n]) \in Copied(n)
    OBVIOUS
  <2>1. /\ v.entries \in Seq(TokenScore) /\ v.truncated \in Nat
        /\ Len(v.entries) \in Nat /\ Len(v.entries) <= OutputCapacity /\ Len(v.entries) <= n - 1
        /\ n - 1 <= OutputCapacity => v.entries = SubSeq(s, 1, n - 1)
    BY DEF Predictions
  <2>2. n \in Nat /\ s[n] \in TokenScore
    BY <1>1
  <2>3. CASE Len(v.entries) < OutputCapacity
    <3> DEFINE new == Append(v.entries, s[n])
    <3>1. new \in Seq(TokenScore) /\ Len(new) = Len(v.entries) + 1
      BY <2>1, <2>2
    <3>2. n <= OutputCapacity => new = SubSeq(s, 1, n)
      <4> SUFFICES ASSUME n <= OutputCapacity PROVE new = SubSeq(s, 1, n)
        OBVIOUS
      <4>1. v.entries = SubSeq(s, 1, n - 1)
        BY <2>1, <2>2
      <4>2. SubSeq(s, 1, n) = Append(SubSeq(s, 1, n - 1), s[n])
        BY <1>1, <2>2
      <4> QED BY <4>1, <4>2
    <3>3. CopyRound(0, 0, v, s[n]) = [entries |-> new, truncated |-> v.truncated]
      BY <2>3 DEF CopyRound, InsertExact
    <3> HIDE DEF new
    <3>4. Len(new) <= n /\ Len(new) <= OutputCapacity
      BY <2>1, <2>2, <2>3, <3>1
    <3> QED BY <2>1, <3>1, <3>2, <3>3, <3>4 DEF Predictions
  <2>4. CASE ~ (Len(v.entries) < OutputCapacity)
    <3>1. CopyRound(0, 0, v, s[n]) = [entries |-> v.entries, truncated |-> v.truncated + 1]
      BY <2>4 DEF CopyRound, InsertExact
    <3>2. Len(v.entries) <= n /\ ~ (n <= OutputCapacity)
      BY <2>1, <2>2, <2>4
    <3> QED BY <2>1, <3>1, <3>2 DEF Predictions
  <2> QED BY <2>3, <2>4
<1>3. EmptyPrediction \in Copied(0)
  <2>1. EmptyPrediction.entries = << >> /\ EmptyPrediction.truncated = 0
    BY DEF EmptyPrediction
  <2>2. << >> \in Seq(TokenScore) /\ Len(<< >>) = 0 /\ SubSeq(s, 1, 0) = << >>
    BY <1>1
  <2>3. EmptyPrediction \in Predictions
    BY <2>2 DEF EmptyPrediction, Predictions
  <2>4. Len(EmptyPrediction.entries) <= 0 /\ EmptyPrediction.entries = SubSeq(s, 1, 0)
    BY <2>1, <2>2
  <2> QED BY <2>3, <2>4
<1> HIDE DEF Copied
<1>4. \A n \in 0 .. Len(s) : V[n] = Copied(n)
  OBVIOUS
<1>5. /\ \A n \in 1 .. Len(s) : \A v \in V[n - 1] : CopyRound(0, 0, v, s[n]) \in V[n]
      /\ EmptyPrediction \in V[0] /\ V[Len(s)] = Copied(Len(s))
  <2>1. \A n \in 1 .. Len(s) : n \in 0 .. Len(s) /\ n - 1 \in 0 .. Len(s)
    BY <1>1
  <2>2. 0 \in 0 .. Len(s) /\ Len(s) \in 0 .. Len(s)
    BY <1>1
  <2> HIDE DEF V
  <2> QED BY <1>2, <1>3, <1>4, <2>1, <2>2
<1> HIDE DEF V
<1>6. CopyLoop!Folded(0, 0, EmptyPrediction, s) \in V[Len(s)]
  BY <1>1, <1>5, CopyLoop!FoldKeeps
<1>7. CopyExact(record) \in Copied(Len(s))
  BY <1>5, <1>6, CopyLoops DEF s
<1>8. SubSeq(s, 1, Len(s)) = s
  BY <1>1
<1> QED BY <1>7, <1>8 DEF Copied, s

(* The record a lookup finds answers for the context.                      *)
LEMMA FirstMatchIs ==
  ASSUME NEW records \in Seq(ExactRecord), NEW c
  PROVE  LET p == FirstMatch(records, c)
         IN  /\ p # 0 => p \in 1 .. Len(records) /\ Answers(records[p], c)
             /\ (\E q \in 1 .. Len(records) : Answers(records[q], c)) => p # 0
<1> DEFINE I == {q \in 1 .. Len(records) : Answers(records[q], c)}
<1>1. CASE I = {}
  <2>1. FirstMatch(records, c) = 0
    BY <1>1 DEF FirstMatch
  <2> QED BY <1>1, <2>1
<1>2. CASE I # {}
  <2>1. I \in SUBSET Nat
    OBVIOUS
  <2>2. PICK p \in I : \A q \in I : p <= q
    <3> HIDE DEF I
    <3> QED BY <1>2, <2>1, Numbers!NatHasMin
  <2>3. /\ p \in 1 .. Len(records) /\ Answers(records[p], c)
        /\ \A q \in 1 .. p - 1 : ~ Answers(records[q], c)
    <3>1. p \in 1 .. Len(records) /\ Answers(records[p], c)
      BY <2>2
    <3>2. ASSUME NEW q \in 1 .. p - 1 PROVE ~ Answers(records[q], c)
      <4>1. q \in 1 .. Len(records) /\ ~ (p <= q)
        BY <3>1
      <4> QED BY <2>2, <4>1
    <3> QED BY <3>1, <3>2
  <2> DEFINE First(q) == /\ q \in 1 .. Len(records) /\ Answers(records[q], c)
                         /\ \A r \in 1 .. q - 1 : ~ Answers(records[r], c)
  <2>4. First(FirstMatch(records, c))
    <3>1. FirstMatch(records, c) = CHOOSE q \in 1 .. Len(records) :
            Answers(records[q], c) /\ \A r \in 1 .. q - 1 : ~ Answers(records[r], c)
      BY <1>2 DEF FirstMatch
    <3> QED BY <2>3, <3>1
  <2> QED BY <2>4
<1> QED BY <1>1, <1>2

(* Both lanes answer with predictions a buffer can hold, and without exact *)
(* records they answer the same.                                           *)
LEMMA LanesAre ==
  ASSUME Finished, NEW o \in Observation
  PROVE  /\ GraphLane(o).prediction \in Predictions
         /\ GraphLane(o).summary.source
              = IF GraphLane(o).prediction.entries # << >> THEN "Graph" ELSE "Novel"
         /\ GraphLane(o).summary.regions_scanned \in Nat
         /\ ExactLane(o).prediction \in Predictions
         /\ ~ config.include_exact => ExactLane(o) = GraphLane(o)
<1> DEFINE a == result.artifact
           exact == a.exact
           depths == ExactDepths(a, o.context)
           depth == Max(depths)
           record == exact[FirstMatch(exact, SuffixOf(o.context, depth))]
<1>1. GraphLane(o) = PredictedGraph(a, o.context)
  BY DEF GraphLane, Predicted
<1>2. /\ GraphLane(o).prediction \in Predictions
      /\ GraphLane(o).summary.source
           = IF GraphLane(o).prediction.entries # << >> THEN "Graph" ELSE "Novel"
      /\ GraphLane(o).summary.regions_scanned \in Nat
  BY <1>1, GraphAnswer
<1>3. ExactLane(o) = IF depths # {} THEN PredictedExact(a, o.context) ELSE GraphLane(o)
  BY <1>1 DEF ExactLane, Predicted
<1>4. exact = IF config.include_exact THEN ExactRecords ELSE << >>
  BY ArtifactIs
<1>5. exact \in Seq(ExactRecord)
  <2>1. << >> \in Seq(ExactRecord)
    OBVIOUS
  <2> QED BY <1>4, <2>1, ExactRecordsAre DEF Finished, IInv
<1>6. ~ config.include_exact => depths = {}
  <2> SUFFICES ASSUME exact = << >>
               PROVE  \A d : FirstMatch(exact, SuffixOf(o.context, d)) = 0
    BY <1>4 DEF ExactDepths
  <2> QED BY DEF FirstMatch
<1>7. depths # {} => ExactLane(o).prediction \in Predictions
  <2> SUFFICES ASSUME depths # {} PROVE PredictedExact(a, o.context).prediction \in Predictions
    BY <1>3
  <2>1. PredictedExact(a, o.context).prediction = CopyExact(record)
    BY DEF PredictedExact
  <2>2. depth \in depths
    <3>1. o.context \in Seq(Tokens)
      BY ContextFacts, ContextsAreTokens
    <3>2. depths \in SUBSET (0 .. Len(o.context)) /\ Len(o.context) \in Nat
      <4>1. depths \in SUBSET (1 .. Len(o.context)) /\ Len(o.context) \in Nat
        BY <3>1 DEF ExactDepths
      <4> HIDE DEF depths
      <4> QED BY <4>1
    <3> HIDE DEF depths
    <3> QED BY <3>2, MaxIs
  <2>3. FirstMatch(exact, SuffixOf(o.context, depth)) # 0
    BY <2>2 DEF ExactDepths
  <2> HIDE DEF depth, exact
  <2>4. FirstMatch(exact, SuffixOf(o.context, depth)) \in 1 .. Len(exact)
    BY <1>5, <2>3, FirstMatchIs
  <2>5. record \in ExactRecord
    BY <1>5, <2>4
  <2>6. record.emissions \in Seq(TokenScore)
    BY <2>5 DEF ExactRecord, Emissions
  <2> HIDE DEF record
  <2> QED BY <2>1, <2>6, CopyIs
<1> HIDE DEF depths
<1> QED BY <1>2, <1>3, <1>6, <1>7

-----------------------------------------------------------------------------
(* The counters of a measurement.                                          *)
Fields ==
  {"exact_top1_matches", "graph_top1_matches", "exact_covered", "graph_covered",
   "covered_hits", "covered_total", "order_matches", "order_samples", "recall_hits",
   "recall_total", "regions_scanned"}
Counters == [Fields -> Nat]

LEMMA NoCountersType ==
  DOMAIN NoCounters = Fields /\ NoCounters \in Counters
<1>1. DOMAIN NoCounters = Fields
  BY DEF NoCounters, Fields
<1>2. \A x \in Fields : NoCounters[x] = 0
  BY DEF NoCounters, Fields
<1>3. NoCounters = [x \in DOMAIN NoCounters |-> NoCounters[x]]
  BY DEF NoCounters
<1> QED BY <1>1, <1>2, <1>3 DEF Counters

LEMMA Field ==
  ASSUME NEW r \in Counters
  PROVE  /\ r.exact_top1_matches \in Nat /\ r.graph_top1_matches \in Nat
         /\ r.exact_covered \in Nat /\ r.graph_covered \in Nat
         /\ r.covered_hits \in Nat /\ r.covered_total \in Nat
         /\ r.order_matches \in Nat /\ r.order_samples \in Nat
         /\ r.recall_hits \in Nat /\ r.recall_total \in Nat
         /\ r.regions_scanned \in Nat
BY DEF Counters, Fields

(* What the measurement of one lane knows of its numbers.                  *)
Apart(counts, kind, exact) ==
  /\ counts.graph_top1_matches <= counts.graph_covered
  /\ counts.graph_top1_matches <= counts.covered_hits
  /\ counts.recall_hits = counts.covered_hits
  /\ counts.recall_hits <= counts.recall_total
  /\ counts.order_matches <= counts.exact_top1_matches
  /\ kind = "GraphOnly" => counts.exact_covered = 0 /\ counts.exact_top1_matches = 0
  /\ kind = "Both" /\ ~ exact =>
       counts.exact_covered = 0 /\ counts.exact_top1_matches = counts.graph_top1_matches

LEMMA OneIs ==
  ASSUME NEW condition \in BOOLEAN
  PROVE  One(condition) \in 0 .. 1 /\ (One(condition) = 1 <=> condition)
BY DEF One

(* What one observation adds on the graph lane.                            *)
LEMMA GraphCounts ==
  ASSUME Finished, NEW o \in Observation, o.emissions # << >>
  PROVE  LET answer == GraphLane(o)
             covered == answer.summary.source = "Graph"
             hits == RecallHits(answer.prediction, o)
         IN  /\ hits \in 0 .. Len(o.emissions) /\ Len(o.emissions) \in Nat
             /\ answer.summary.regions_scanned \in Nat
             /\ ~ covered => hits = 0
             /\ FirstIsTarget(answer.prediction, o) => covered /\ hits >= 1
<1> DEFINE answer == GraphLane(o)
           entries == answer.prediction.entries
           list == o.emissions
           recalled == {k \in DOMAIN list :
                          \E p \in DOMAIN entries \cap DOMAIN list :
                            entries[p].token = list[k].token}
           hits == RecallHits(answer.prediction, o)
<1>1. /\ entries \in Seq(TokenScore) /\ list \in Seq(TokenScore)
      /\ answer.summary.regions_scanned \in Nat
      /\ answer.summary.source = IF entries # << >> THEN "Graph" ELSE "Novel"
  BY LanesAre, ContextFacts DEF Predictions
<1>2. hits = Cardinality(recalled)
  BY DEF RecallHits
<1>3. FirstIsTarget(answer.prediction, o) <=> entries # << >> /\ Head(entries).token = Head(list).token
  BY DEF FirstIsTarget, Target
<1>4. list # << >>
  OBVIOUS
<1> HIDE DEF answer, entries, list, hits
<1>5. DOMAIN list = 1 .. Len(list) /\ Len(list) \in Nat /\ 1 \in 1 .. Len(list) /\ Head(list) = list[1]
  BY <1>1, <1>4
<1>6. recalled \in SUBSET (1 .. Len(list))
  BY <1>5
<1>7. entries = << >> => recalled = {}
  OBVIOUS
<1>8. FirstIsTarget(answer.prediction, o) => entries # << >> /\ 1 \in recalled
  <2> SUFFICES ASSUME FirstIsTarget(answer.prediction, o) PROVE entries # << >> /\ 1 \in recalled
    OBVIOUS
  <2>1. entries # << >> /\ Head(entries).token = Head(list).token
    BY <1>3
  <2>2. 1 \in DOMAIN entries /\ Head(entries) = entries[1]
    <3>1. Len(entries) \in Nat /\ Len(entries) # 0 /\ DOMAIN entries = 1 .. Len(entries)
      BY <1>1, <2>1
    <3>2. Head(entries) = entries[1]
      BY <1>1, <2>1
    <3> QED BY <3>1, <3>2
  <2> QED BY <1>5, <2>1, <2>2
<1> HIDE DEF recalled
<1>9. /\ IsFiniteSet(recalled) /\ Cardinality(recalled) \in Nat
      /\ Cardinality(recalled) <= Len(list)
      /\ Cardinality(recalled) = 0 <=> recalled = {}
  <2> DEFINE m == Len(list)
  <2>1. m \in Nat /\ recalled \in SUBSET (1 .. m)
    BY <1>5, <1>6
  <2> HIDE DEF m
  <2>2. IsFiniteSet(1 .. m) /\ Cardinality(1 .. m) = m
    <3>1. IsFiniteSet(1 .. m) /\ Cardinality(1 .. m) = IF 1 > m THEN 0 ELSE m - 1 + 1
      BY <2>1, FS_Interval
    <3> QED BY <2>1, <3>1
  <2>3. IsFiniteSet(recalled) /\ Cardinality(recalled) <= Cardinality(1 .. m)
    BY <2>1, <2>2, FS_Subset
  <2>4. Cardinality(recalled) \in Nat /\ (Cardinality(recalled) = 0 <=> recalled = {})
    BY <2>3, FS_CardinalityType, FS_EmptySet
  <2> QED BY <2>2, <2>3, <2>4 DEF m
<1>10. FirstIsTarget(answer.prediction, o) => hits >= 1
  BY <1>2, <1>8, <1>9
<1>11. hits \in 0 .. Len(list)
  BY <1>2, <1>5, <1>9
<1> QED BY <1>1, <1>2, <1>5, <1>7, <1>8, <1>9, <1>10, <1>11 DEF answer, list, hits

(* What one observation adds on the exact lane.                            *)
LEMMA ExactCounts ==
  ASSUME Finished, NEW o \in Observation, o.emissions # << >>
  PROVE  /\ OrderMatches(ExactLane(o).prediction, o) => FirstIsTarget(ExactLane(o).prediction, o)
         /\ ~ config.include_exact =>
              /\ ExactLane(o).summary.source # "Exact"
              /\ FirstIsTarget(ExactLane(o).prediction, o)
                   <=> FirstIsTarget(GraphLane(o).prediction, o)
<1> DEFINE entries == ExactLane(o).prediction.entries
           list == o.emissions
<1>1. entries \in Seq(TokenScore) /\ list \in Seq(TokenScore) /\ list # << >>
  BY LanesAre, ContextFacts DEF Predictions
<1>2. OrderMatches(ExactLane(o).prediction, o) <=>
        \A k \in DOMAIN list : k \in DOMAIN entries /\ entries[k].token = list[k].token
  BY DEF OrderMatches
<1>3. FirstIsTarget(ExactLane(o).prediction, o) <=>
        entries # << >> /\ Head(entries).token = Head(list).token
  BY DEF FirstIsTarget, Target
<1>4. ~ config.include_exact => /\ ExactLane(o) = GraphLane(o)
                                /\ GraphLane(o).summary.source # "Exact"
  BY LanesAre
<1> HIDE DEF entries, list
<1>5. 1 \in DOMAIN list /\ Head(list) = list[1]
  <2>1. Len(list) \in Nat /\ Len(list) # 0 /\ DOMAIN list = 1 .. Len(list)
    BY <1>1
  <2> QED BY <1>1, <2>1
<1>6. 1 \in DOMAIN entries => entries # << >> /\ Head(entries) = entries[1]
  <2> SUFFICES ASSUME 1 \in DOMAIN entries PROVE entries # << >> /\ Head(entries) = entries[1]
    OBVIOUS
  <2>1. DOMAIN entries = 1 .. Len(entries)
    BY <1>1
  <2>2. entries # << >>
    BY <2>1
  <2> QED BY <1>1, <2>2
<1> QED BY <1>2, <1>3, <1>4, <1>5, <1>6

(* What the two additions change, with the numbers named.                  *)
(* What a report has grown by: by c covered and t right answers of the     *)
(* graph, h of n tokens recalled, s answers served, m orders matched and   *)
(* f first tokens right.                                                   *)
Grown(r, q, c, t, h, n, s, m, f) ==
  /\ q \in Counters
  /\ q.graph_covered = r.graph_covered + c
  /\ q.graph_top1_matches = r.graph_top1_matches + t
  /\ q.recall_hits = r.recall_hits + h
  /\ q.recall_total = r.recall_total + n
  /\ q.covered_hits = r.covered_hits + h
  /\ q.exact_covered = r.exact_covered + s
  /\ q.order_matches = r.order_matches + m
  /\ q.exact_top1_matches = r.exact_top1_matches + f

ExactAdded(r, s, m, f) ==
  [r EXCEPT
    !.exact_covered = @ + s,
    !.order_samples = @ + s,
    !.order_matches = @ + m,
    !.exact_top1_matches = @ + f]

LEMMA ExactAdds ==
  ASSUME NEW r \in Counters, NEW s \in Nat, NEW m \in Nat, NEW f \in Nat
  PROVE  Grown(r, ExactAdded(r, s, m, f), 0, 0, 0, 0, s, m, f)
<1> DEFINE e == ExactAdded(r, s, m, f)
<1>1. e \in Counters
  <2>1. DOMAIN e = Fields /\ e = [x \in DOMAIN e |-> e[x]]
    BY DEF Counters, ExactAdded
  <2>2. /\ e.exact_top1_matches \in Nat /\ e.graph_top1_matches \in Nat
        /\ e.exact_covered \in Nat /\ e.graph_covered \in Nat
        /\ e.covered_hits \in Nat /\ e.covered_total \in Nat
    BY Field DEF Counters, Fields, ExactAdded
  <2>3. /\ e.order_matches \in Nat /\ e.order_samples \in Nat
        /\ e.recall_hits \in Nat /\ e.recall_total \in Nat
        /\ e.regions_scanned \in Nat
    BY Field DEF Counters, Fields, ExactAdded
  <2> HIDE DEF e
  <2>4. \A x \in Fields : e[x] \in Nat
    BY <2>2, <2>3 DEF Fields
  <2> QED BY <2>1, <2>4 DEF Counters
<1>2. /\ e.exact_covered = r.exact_covered + s
      /\ e.order_matches = r.order_matches + m
      /\ e.exact_top1_matches = r.exact_top1_matches + f
  BY DEF Counters, Fields, ExactAdded
<1>3. /\ e.graph_covered = r.graph_covered
      /\ e.graph_top1_matches = r.graph_top1_matches
      /\ e.recall_hits = r.recall_hits
      /\ e.recall_total = r.recall_total
      /\ e.covered_hits = r.covered_hits
  BY DEF Counters, Fields, ExactAdded
<1> HIDE DEF e
<1> QED BY <1>1, <1>2, <1>3, Field DEF Grown, e

GraphAdded(r, c, h, n, cn, s, t) ==
  [r EXCEPT
    !.graph_covered = @ + c,
    !.recall_hits = @ + h,
    !.recall_total = @ + n,
    !.covered_hits = @ + h,
    !.covered_total = @ + cn,
    !.regions_scanned = @ + s,
    !.graph_top1_matches = @ + t]

LEMMA GraphAdds ==
  ASSUME NEW r \in Counters, NEW c \in Nat, NEW h \in Nat, NEW n \in Nat,
         NEW cn \in Nat, NEW s \in Nat, NEW t \in Nat
  PROVE  Grown(r, GraphAdded(r, c, h, n, cn, s, t), c, t, h, n, 0, 0, 0)
<1> DEFINE g == GraphAdded(r, c, h, n, cn, s, t)
<1>1. g \in Counters
  <2>1. DOMAIN g = Fields /\ g = [x \in DOMAIN g |-> g[x]]
    BY DEF Counters, GraphAdded
  <2>2. /\ g.exact_top1_matches \in Nat /\ g.graph_top1_matches \in Nat
        /\ g.exact_covered \in Nat /\ g.graph_covered \in Nat
        /\ g.covered_hits \in Nat /\ g.covered_total \in Nat
    BY Field DEF Counters, Fields, GraphAdded
  <2>3. /\ g.order_matches \in Nat /\ g.order_samples \in Nat
        /\ g.recall_hits \in Nat /\ g.recall_total \in Nat
        /\ g.regions_scanned \in Nat
    BY Field DEF Counters, Fields, GraphAdded
  <2> HIDE DEF g
  <2>4. \A x \in Fields : g[x] \in Nat
    BY <2>2, <2>3 DEF Fields
  <2> QED BY <2>1, <2>4 DEF Counters
<1>2. /\ g.graph_covered = r.graph_covered + c
      /\ g.graph_top1_matches = r.graph_top1_matches + t
      /\ g.recall_hits = r.recall_hits + h
      /\ g.recall_total = r.recall_total + n
      /\ g.covered_hits = r.covered_hits + h
  BY DEF Counters, Fields, GraphAdded
<1>3. /\ g.exact_covered = r.exact_covered
      /\ g.order_matches = r.order_matches
      /\ g.exact_top1_matches = r.exact_top1_matches
  BY DEF Counters, Fields, GraphAdded
<1> HIDE DEF g
<1> QED BY <1>1, <1>2, <1>3, Field DEF Grown, g

(* What adds nothing wrong keeps the lanes apart.                          *)
LEMMA ApartGrows ==
  ASSUME NEW r \in Counters, NEW q, NEW kind, NEW exact, NEW c \in Nat, NEW t \in Nat,
         NEW h \in Nat, NEW n \in Nat, NEW s \in Nat, NEW m \in Nat, NEW f \in Nat,
         t <= c, t <= h, h <= n, m <= f,
         kind = "GraphOnly" => s = 0 /\ f = 0,
         kind = "Both" /\ ~ exact => s = 0 /\ f = t,
         Grown(r, q, c, t, h, n, s, m, f), Apart(r, kind, exact)
  PROVE  Apart(q, kind, exact)
<1>1. /\ r.exact_top1_matches \in Nat /\ r.graph_top1_matches \in Nat
      /\ r.exact_covered \in Nat /\ r.graph_covered \in Nat
      /\ r.covered_hits \in Nat /\ r.order_matches \in Nat
      /\ r.recall_hits \in Nat /\ r.recall_total \in Nat
  BY Field
<1> QED BY <1>1 DEF Apart, Grown

LEMMA GrownTwice ==
  ASSUME NEW r \in Counters, NEW e, NEW b, NEW c \in Nat, NEW t \in Nat, NEW h \in Nat,
         NEW n \in Nat, NEW s \in Nat, NEW m \in Nat, NEW f \in Nat,
         Grown(r, e, 0, 0, 0, 0, s, m, f), Grown(e, b, c, t, h, n, 0, 0, 0)
  PROVE  Grown(r, b, c, t, h, n, s, m, f)
<1>1. /\ r.exact_top1_matches \in Nat /\ r.graph_top1_matches \in Nat
      /\ r.exact_covered \in Nat /\ r.graph_covered \in Nat
      /\ r.covered_hits \in Nat /\ r.order_matches \in Nat
      /\ r.recall_hits \in Nat /\ r.recall_total \in Nat
  BY Field
<1> QED BY <1>1 DEF Grown

(* What one observation adds to a report.                                  *)
LEMMA ReportAfter ==
  ASSUME Finished, NEW o \in Observation, o.emissions # << >>, NEW before \in Counters
  PROVE  /\ AddGraph(before, o) \in Counters
         /\ Apart(before, "GraphOnly", config.include_exact) =>
              Apart(AddGraph(before, o), "GraphOnly", config.include_exact)
         /\ AddGraph(AddExact(before, o), o) \in Counters
         /\ Apart(before, "Both", config.include_exact) =>
              Apart(AddGraph(AddExact(before, o), o), "Both", config.include_exact)
<1> DEFINE graph == GraphLane(o)
           covered == graph.summary.source = "Graph"
           hits == RecallHits(graph.prediction, o)
           scanned == graph.summary.regions_scanned
           total == Len(o.emissions)
           right == FirstIsTarget(graph.prediction, o)
           exact == ExactLane(o)
           served == exact.summary.source = "Exact"
           order == OrderMatches(exact.prediction, o)
           first == FirstIsTarget(exact.prediction, o)
<1>1. /\ hits \in 0 .. total /\ total \in Nat /\ scanned \in Nat
      /\ covered \in BOOLEAN /\ right \in BOOLEAN
      /\ ~ covered => hits = 0
      /\ right => covered /\ hits >= 1
  BY GraphCounts DEF FirstIsTarget
<1>2. /\ served \in BOOLEAN /\ order \in BOOLEAN /\ first \in BOOLEAN
      /\ order => first
      /\ ~ config.include_exact => ~ served /\ (first <=> right)
  BY ExactCounts DEF FirstIsTarget, OrderMatches
<1>3. \A r : AddGraph(r, o) = [r EXCEPT
         !.graph_covered = @ + One(covered),
         !.recall_hits = @ + hits,
         !.recall_total = @ + total,
         !.covered_hits = @ + (IF covered THEN hits ELSE 0),
         !.covered_total = @ + (IF covered THEN total ELSE 0),
         !.regions_scanned = @ + scanned,
         !.graph_top1_matches = @ + One(right)]
  BY DEF AddGraph
<1>4. AddExact(before, o) = [before EXCEPT
         !.exact_covered = @ + One(served),
         !.order_samples = @ + One(served),
         !.order_matches = @ + One(served /\ order),
         !.exact_top1_matches = @ + One(first)]
  BY DEF AddExact
<1> HIDE DEF graph, covered, hits, scanned, total, right, exact, served, order, first
<1> DEFINE g == AddGraph(before, o)
           e == AddExact(before, o)
           b == AddGraph(e, o)
           c == One(covered)
           t == One(right)
           s == One(served)
           m == One(served /\ order)
           f == One(first)
<1>5. /\ c \in 0 .. 1 /\ t \in 0 .. 1 /\ s \in 0 .. 1 /\ m \in 0 .. 1 /\ f \in 0 .. 1
      /\ (c = 1 <=> covered) /\ (t = 1 <=> right) /\ (s = 1 <=> served)
      /\ (m = 1 <=> served /\ order) /\ (f = 1 <=> first)
  BY <1>1, <1>2, OneIs
<1>6. /\ c \in Nat /\ hits \in Nat /\ total \in Nat /\ scanned \in Nat /\ t \in Nat
      /\ s \in Nat /\ m \in Nat /\ f \in Nat
      /\ (IF covered THEN hits ELSE 0) = hits /\ (IF covered THEN total ELSE 0) \in Nat
  BY <1>1, <1>5
<1> HIDE DEF c, t, s, m, f
<1>7. \A r \in Counters : Grown(r, AddGraph(r, o), c, t, hits, total, 0, 0, 0)
  <2> DEFINE seen == IF covered THEN total ELSE 0
  <2> SUFFICES ASSUME NEW r \in Counters
               PROVE  Grown(r, AddGraph(r, o), c, t, hits, total, 0, 0, 0)
    OBVIOUS
  <2>1. AddGraph(r, o) = GraphAdded(r, c, hits, total, seen, scanned, t)
    BY <1>3, <1>6 DEF c, t, GraphAdded
  <2>2. seen \in Nat
    BY <1>6
  <2> HIDE DEF seen
  <2>3. Grown(r, GraphAdded(r, c, hits, total, seen, scanned, t), c, t, hits, total, 0, 0, 0)
    BY <1>6, <2>2, GraphAdds
  <2> QED BY <2>1, <2>3
<1>8. Grown(before, e, 0, 0, 0, 0, s, m, f)
  <2>1. e = ExactAdded(before, s, m, f)
    BY <1>4 DEF s, m, f, ExactAdded
  <2> HIDE DEF e
  <2> QED BY <1>6, <2>1, ExactAdds
<1> HIDE DEF e
<1>9. Grown(before, g, c, t, hits, total, 0, 0, 0)
  BY <1>7
<1>10. Grown(e, b, c, t, hits, total, 0, 0, 0)
  BY <1>7, <1>8 DEF Grown
<1> HIDE DEF g, b
<1>11. Grown(before, b, c, t, hits, total, s, m, f)
  BY <1>6, <1>8, <1>10, GrownTwice
<1>12. t <= c /\ t <= hits /\ hits <= total
  BY <1>1, <1>5 DEF c, t
<1>13. ASSUME Apart(before, "GraphOnly", config.include_exact)
       PROVE  Apart(g, "GraphOnly", config.include_exact)
  <2> DEFINE z == 0
  <2>1. z \in Nat /\ z <= z /\ z = 0 /\ Grown(before, g, c, t, hits, total, z, z, z)
    BY <1>9
  <2> HIDE DEF z
  <2>2. /\ "GraphOnly" = "GraphOnly" => z = 0 /\ z = 0
        /\ "GraphOnly" = "Both" /\ ~ config.include_exact => z = 0 /\ z = t
    BY <2>1
  <2> QED BY <1>6, <1>12, <1>13, <2>1, <2>2, ApartGrows
<1>14. ASSUME Apart(before, "Both", config.include_exact)
       PROVE  Apart(b, "Both", config.include_exact)
  <2>1. m <= f /\ (~ config.include_exact => s = 0 /\ f = t)
    BY <1>1, <1>2, <1>5
  <2> QED BY <1>6, <1>11, <1>12, <1>14, <2>1, ApartGrows
<1>15. g \in Counters /\ b \in Counters
  BY <1>9, <1>11 DEF Grown
<1> QED BY <1>13, <1>14, <1>15 DEF e, g, b

-----------------------------------------------------------------------------
(* The measurement as it proceeds.                                         *)
Spoken(corpora) == \A k \in DOMAIN corpora : corpora[k].emissions # << >>

Measuring ==
  /\ lane \in {"none", "Both", "GraphOnly"}
  /\ sample \in Seq(Observation) /\ Spoken(sample)
  /\ measured \in 0 .. Len(sample)
  /\ counters \in Counters
  /\ verdict \in {"none", "EmptyCorpus", "IdentityMismatch", "Ok", "ParityThresholdFailed"}
  /\ lane # "none" => phase = "done"
  /\ lane = "none" => sample = << >> /\ measured = 0 /\ counters = NoCounters
  /\ Apart(counters, lane, config.include_exact)

LEMMA SamplesAre ==
  ASSUME IInv, NEW observed \in {corpus} \cup HeldOut
  PROVE  observed \in Seq(Observation) /\ Spoken(observed)
<1>1. observed \in Seq(Observation) /\ \A o \in ToSet(observed) : o.emissions # << >>
  BY CorporaAssumption, HeldOutAssumption DEF IInv, Types
<1> QED BY <1>1 DEF Spoken, ToSet

LEMMA NothingCounted ==
  ASSUME NEW kind, NEW exact
  PROVE  Apart(NoCounters, kind, exact)
BY DEF Apart, NoCounters

(* The steps of the compiler and of the export leave the measurement be.   *)
LEMMA CompilerEnds ==
  ASSUME Next
  PROVE  UNCHANGED <<corpus, config>> /\ phase # "done"
BY DEF Next, Canonicalize, Seed, Pass, AssignMemberships, DerivePath, WriteArtifact, Fail

LEMMA StepsAre ==
  ASSUME [PipelineNext]_pipelineVars
  PROVE  \/ UNCHANGED parityVars /\ UNCHANGED <<corpus, config>>
            /\ (phase = "done" => UNCHANGED vars)
         \/ ParityNext
<1>1. CASE UNCHANGED pipelineVars
  BY <1>1 DEF pipelineVars, vars
<1>2. CASE Next /\ UNCHANGED <<exportVars, parityVars>>
  BY <1>2, CompilerEnds
<1>3. CASE ExportNext /\ UNCHANGED parityVars
  <2>1. UNCHANGED vars
    BY <1>3 DEF ExportNext, ExportR4G1, Replay, ReplayR4G1
  <2> QED BY <1>3, <2>1 DEF vars
<1>4. CASE ParityNext
  BY <1>4
<1> QED BY <1>1, <1>2, <1>3, <1>4 DEF PipelineNext

LEMMA MeasuredOne ==
  ASSUME IInv, Placed, WrittenIsReadBack, Measuring, MeasureOne
  PROVE  /\ Finished /\ measured + 1 \in 1 .. Len(sample)
         /\ sample[measured + 1] \in Observation /\ sample[measured + 1].emissions # << >>
         /\ measured' = measured + 1
         /\ counters' = IF lane = "Both"
                        THEN AddGraph(AddExact(counters, sample[measured + 1]), sample[measured + 1])
                        ELSE AddGraph(counters, sample[measured + 1])
         /\ UNCHANGED <<vars, lane, sample, verdict>>
         /\ lane \in {"Both", "GraphOnly"}
<1>1. /\ lane # "none" /\ measured < Len(sample) /\ measured' = measured + 1
      /\ UNCHANGED <<vars, lane, sample, verdict>>
      /\ counters' = IF lane = "Both"
                     THEN AddGraph(AddExact(counters, sample[measured + 1]), sample[measured + 1])
                     ELSE AddGraph(counters, sample[measured + 1])
  BY DEF MeasureOne
<1>2. Finished
  BY <1>1 DEF Finished, Measuring
<1>3. Len(sample) \in Nat /\ measured \in 0 .. Len(sample)
  BY DEF Measuring
<1>4. measured + 1 \in 1 .. Len(sample) /\ measured + 1 \in DOMAIN sample
  <2>1. DOMAIN sample = 1 .. Len(sample)
    BY DEF Measuring
  <2> QED BY <1>1, <1>3, <2>1
<1>5. sample[measured + 1] \in Observation /\ sample[measured + 1].emissions # << >>
  BY <1>4 DEF Measuring, Spoken
<1> QED BY <1>1, <1>2, <1>4, <1>5 DEF Measuring

LEMMA MeasuringStep ==
  IInv /\ Placed /\ WrittenIsReadBack /\ Measuring /\ [PipelineNext]_pipelineVars => Measuring'
<1> SUFFICES ASSUME IInv, Placed, WrittenIsReadBack, Measuring, [PipelineNext]_pipelineVars
             PROVE  Measuring'
  OBVIOUS
<1>1. CASE UNCHANGED parityVars /\ UNCHANGED <<corpus, config>> /\ (phase = "done" => UNCHANGED vars)
  BY <1>1 DEF Measuring, parityVars, vars, Apart, Spoken
<1>2. ASSUME NEW chosen \in {"Both", "GraphOnly"}, NEW observed \in {corpus} \cup HeldOut,
             NEW same_identity \in BOOLEAN, BeginEvaluation(chosen, observed, same_identity)
      PROVE  Measuring'
  <2>1. /\ phase = "done" /\ lane = "none" /\ lane' = chosen /\ sample' = observed
        /\ verdict' \in {"none", "EmptyCorpus", "IdentityMismatch"}
        /\ UNCHANGED <<vars, measured, counters>>
    BY <1>2 DEF BeginEvaluation
  <2>2. observed \in Seq(Observation) /\ Spoken(observed)
    BY SamplesAre
  <2>3. phase' = "done" /\ config' = config
    BY <2>1 DEF vars
  <2>4. measured' = 0 /\ counters' = NoCounters /\ counters' \in Counters
    BY <2>1 DEF Measuring
  <2>5. measured' \in 0 .. Len(sample')
    <3>1. Len(observed) \in Nat
      BY <2>2
    <3> QED BY <2>1, <2>4, <3>1
  <2>6. Apart(counters, lane, config.include_exact)'
    BY <2>4, NothingCounted DEF Apart
  <2>7. sample' \in Seq(Observation) /\ Spoken(sample)'
    BY <2>1, <2>2 DEF Spoken
  <2> QED BY <2>1, <2>3, <2>4, <2>5, <2>6, <2>7 DEF Measuring
<1>3. CASE MeasureOne
  <2> DEFINE o == sample[measured + 1]
             next == IF lane = "Both" THEN AddGraph(AddExact(counters, o), o)
                     ELSE AddGraph(counters, o)
  <2>1. /\ Finished /\ measured + 1 \in 1 .. Len(sample)
        /\ o \in Observation /\ o.emissions # << >>
        /\ measured' = measured + 1 /\ counters' = next
        /\ UNCHANGED <<vars, lane, sample, verdict>> /\ lane \in {"Both", "GraphOnly"}
    BY <1>3, MeasuredOne
  <2> HIDE DEF o
  <2>2. counters \in Counters /\ Apart(counters, lane, config.include_exact)
    BY DEF Measuring
  <2>3. next \in Counters /\ Apart(next, lane, config.include_exact)
    BY <2>1, <2>2, ReportAfter
  <2> HIDE DEF next
  <2>4. config' = config /\ phase' = phase
    BY <2>1 DEF vars
  <2>5. Apart(counters, lane, config.include_exact)'
    BY <2>1, <2>3, <2>4 DEF Apart
  <2>6. measured' \in 0 .. Len(sample')
    BY <2>1
  <2>7. Spoken(sample)'
    BY <2>1 DEF Measuring, Spoken
  <2> QED BY <2>1, <2>3, <2>4, <2>5, <2>6, <2>7 DEF Measuring
<1>4. ASSUME NEW thresholds \in Thresholds, Judge(thresholds) PROVE Measuring'
  <2>1. /\ lane # "none" /\ verdict' \in {"Ok", "ParityThresholdFailed"}
        /\ UNCHANGED <<vars, lane, sample, measured, counters>>
    BY <1>4 DEF Judge
  <2> QED BY <2>1 DEF Measuring, vars, Apart, Spoken
<1> QED BY <1>1, <1>2, <1>3, <1>4, StepsAre DEF ParityNext

LEMMA MeasuringInv == PipelineSpec => []Measuring
<1>1. PipelineInit => Measuring
  <2> SUFFICES ASSUME InitParity PROVE Measuring
    BY DEF PipelineInit
  <2>1. /\ lane = "none" /\ sample = << >> /\ measured = 0 /\ counters = NoCounters
        /\ verdict = "none"
    BY DEF InitParity
  <2>2. << >> \in Seq(Observation) /\ Len(<< >>) = 0 /\ Spoken(<< >>)
    BY DEF Spoken
  <2>3. measured \in 0 .. Len(sample)
    BY <2>1, <2>2
  <2> QED BY <2>1, <2>2, <2>3, NoCountersType, NothingCounted DEF Measuring
<1> QED BY <1>1, MeasuringStep, PipelineInvs, PTL DEF PipelineSpec

-----------------------------------------------------------------------------
(* Whatever is measured, on a corpus the compiler saw or never saw, the    *)
(* graph lane is right only where it is covered, a best token that is      *)
(* right is recalled, an order that matches has a right best token, and    *)
(* the exact lane counts nothing of its own without exact records or in a  *)
(* measurement of the graph alone (evaluate, parity.rs:248, and            *)
(* evaluate_graph_only, parity.rs:328).                                    *)
THEOREM LanesStayApart == PipelineSpec => []LanesKeepApart
<1>1. Measuring => LanesKeepApart
  BY DEF Measuring, Apart, LanesKeepApart
<1> QED BY <1>1, MeasuringInv, PTL

-----------------------------------------------------------------------------
(* An observation of the corpus is served its own record.                  *)
LEMMA OwnRecordServes ==
  ASSUME Finished, config.include_exact, NEW o \in ToSet(corpus),
         Len(o.emissions) <= OutputCapacity
  PROVE  /\ ExactLane(o).summary.source = "Exact"
         /\ ExactLane(o).prediction.entries = o.emissions
<1> DEFINE a == result.artifact
           exact == a.exact
           n == Len(o.context)
           depths == ExactDepths(a, o.context)
           p == FirstMatch(exact, o.context)
<1>1. o \in Observation /\ o.context # << >> /\ o.context \in Seq(Tokens)
  <2>1. corpus \in Seq(Observation) /\ \A x \in ToSet(corpus) : x.context # << >>
    BY CorporaAssumption DEF Finished, IInv, Types
  <2>2. o \in Observation
    BY <2>1 DEF ToSet
  <2> QED BY <2>1, <2>2, ContextFacts, ContextsAreTokens
<1>2. exact = ExactRecords /\ exact \in Seq(ExactRecord)
  BY ArtifactIs, ExactRecordsAre DEF Finished, IInv
<1>3. PICK i \in DOMAIN observations : observations[i] = o
  <2>1. ToSet(observations) = ToSet(corpus)
    BY DEF Finished, IInv, Canonicalized
  <2> QED BY <2>1 DEF ToSet
<1>4. \A j \in DOMAIN observations : observations[j].context = o.context => observations[j] = o
  <2>1. ~ Conflict(ToSet(observations))
    BY AscendingAgree DEF Finished, IInv, Types, Canonicalized
  <2> QED BY <1>3, <2>1 DEF Conflict, ToSet
<1>5. p \in 1 .. Len(exact) /\ Answers(exact[p], o.context)
  <2>1. PICK k \in 1 .. Len(ExactRecords) : ExactRecords[k] = RecordOf(i)
    BY ExactRecordsAre DEF Finished, IInv
  <2>2. k \in 1 .. Len(exact) /\ Answers(exact[k], o.context)
    BY <1>2, <1>3, <2>1 DEF RecordOf, Answers
  <2> HIDE DEF exact
  <2> QED BY <1>2, <2>2, FirstMatchIs
<1>6. exact[p].emissions = o.emissions
  <2>1. PICK j \in DOMAIN observations : exact[p] = RecordOf(j)
    BY <1>2, <1>5, ExactRecordsAre DEF Finished, IInv
  <2>2. observations[j].context = o.context
    BY <1>5, <2>1 DEF RecordOf, Answers
  <2> QED BY <1>4, <2>1, <2>2 DEF RecordOf
<1>7. n \in Nat /\ n # 0 /\ SuffixOf(o.context, n) = o.context
  <2>1. n \in Nat /\ n # 0
    BY <1>1
  <2>2. SuffixOf(o.context, n) = SubSeq(o.context, 1, n)
    BY <2>1 DEF SuffixOf
  <2>3. SubSeq(o.context, 1, n) = o.context
    BY <1>1
  <2> QED BY <2>1, <2>2, <2>3
<1> HIDE DEF exact, p
<1>8. depths \in SUBSET (1 .. n) /\ n \in depths
  <2>1. depths = {d \in 1 .. n : FirstMatch(exact, SuffixOf(o.context, d)) # 0}
    BY DEF ExactDepths, exact
  <2>2. FirstMatch(exact, SuffixOf(o.context, n)) # 0
    <3>1. p # 0
      BY <1>2, <1>5
    <3> QED BY <1>7, <3>1 DEF p
  <2> HIDE DEF depths
  <2> QED BY <1>7, <2>1, <2>2
<1>9. Max(depths) = n
  <2> HIDE DEF depths, n
  <2>1. depths \in SUBSET (0 .. n)
    BY <1>7, <1>8
  <2>2. Max(depths) \in depths /\ n <= Max(depths)
    BY <1>7, <1>8, <2>1, MaxIs
  <2>3. Max(depths) \in 1 .. n
    BY <1>8, <2>2
  <2> HIDE DEF depths
  <2> DEFINE m == Max(depths)
  <2>4. m \in 1 .. n /\ n <= m /\ n \in Nat
    BY <1>7, <2>2, <2>3
  <2> HIDE DEF m
  <2>5. m = n
    BY <2>4
  <2> QED BY <2>5 DEF m
<1>10. /\ ExactLane(o).prediction = CopyExact(exact[p])
       /\ ExactLane(o).summary.source = "Exact"
  <2>1. ExactLane(o) = PredictedExact(a, o.context)
    BY <1>8 DEF ExactLane, Predicted
  <2>2. a.exact[FirstMatch(a.exact, SuffixOf(o.context, Max(ExactDepths(a, o.context))))] = exact[p]
    BY <1>7, <1>9 DEF exact, p
  <2> QED BY <2>1, <2>2 DEF PredictedExact, Summary
<1>11. CopyExact(exact[p]).entries = o.emissions
  <2>1. exact[p].emissions \in Seq(TokenScore)
    BY <1>1, <1>6, ContextFacts
  <2> QED BY <1>6, <2>1, CopyIs
<1> QED BY <1>10, <1>11

(* What it adds to the report is one of each.                              *)
LEMMA OwnRecordCounts ==
  ASSUME Finished, config.include_exact, NEW o \in ToSet(corpus),
         Len(o.emissions) <= OutputCapacity, NEW before \in Counters
  PROVE  LET now == AddGraph(AddExact(before, o), o)
         IN  /\ now.exact_covered = before.exact_covered + 1
             /\ now.exact_top1_matches = before.exact_top1_matches + 1
             /\ now.order_matches = before.order_matches + 1
<1> DEFINE exact == ExactLane(o)
           served == exact.summary.source = "Exact"
           order == OrderMatches(exact.prediction, o)
           first == FirstIsTarget(exact.prediction, o)
           e == AddExact(before, o)
<1>1. o.emissions # << >>
  BY CorporaAssumption DEF Finished, IInv, Types
<1>2. served /\ exact.prediction.entries = o.emissions
  BY OwnRecordServes
<1>3. order /\ first
  BY <1>1, <1>2 DEF OrderMatches, FirstIsTarget, Target
<1>4. e = ExactAdded(before, One(served), One(served /\ order), One(first))
  BY DEF AddExact, ExactAdded
<1>5. One(served) = 1 /\ One(served /\ order) = 1 /\ One(first) = 1
  BY <1>2, <1>3 DEF One
<1> HIDE DEF exact, served, order, first, e
<1>6. e = ExactAdded(before, 1, 1, 1)
  BY <1>4, <1>5
<1>7. Grown(before, e, 0, 0, 0, 0, 1, 1, 1)
  BY <1>6, ExactAdds
<1>8. /\ e \in Counters
      /\ e.exact_covered = before.exact_covered + 1
      /\ e.exact_top1_matches = before.exact_top1_matches + 1
      /\ e.order_matches = before.order_matches + 1
  BY <1>7 DEF Grown
<1>9. /\ AddGraph(e, o).exact_covered = e.exact_covered
      /\ AddGraph(e, o).exact_top1_matches = e.exact_top1_matches
      /\ AddGraph(e, o).order_matches = e.order_matches
  BY <1>8 DEF AddGraph, Counters, Fields
<1> QED BY <1>8, <1>9 DEF e

(* The exact lane so far, on the corpus the artifact was compiled from.    *)
Perfect ==
  /\ lane = "Both" /\ sample = corpus /\ config.include_exact
  /\ \A o \in ToSet(corpus) : Len(o.emissions) <= OutputCapacity
  => /\ counters.exact_covered = measured
     /\ counters.exact_top1_matches = measured
     /\ counters.order_matches = measured

LEMMA PerfectStep ==
  /\ IInv /\ Placed /\ WrittenIsReadBack /\ Measuring /\ Perfect
  /\ [PipelineNext]_pipelineVars
  => Perfect'
<1> SUFFICES ASSUME IInv, Placed, WrittenIsReadBack, Measuring, Perfect,
                    [PipelineNext]_pipelineVars
             PROVE  Perfect'
  OBVIOUS
<1>1. CASE UNCHANGED parityVars /\ UNCHANGED <<corpus, config>>
  BY <1>1 DEF Perfect, parityVars
<1>2. ASSUME NEW chosen, NEW observed, NEW same_identity,
             BeginEvaluation(chosen, observed, same_identity)
      PROVE  Perfect'
  <2>1. lane = "none" /\ UNCHANGED <<measured, counters>>
    BY <1>2 DEF BeginEvaluation
  <2>2. measured' = 0 /\ counters' = NoCounters
    BY <2>1 DEF Measuring
  <2>3. NoCounters.exact_covered = 0 /\ NoCounters.exact_top1_matches = 0
          /\ NoCounters.order_matches = 0
    BY DEF NoCounters
  <2> QED BY <2>2, <2>3 DEF Perfect
<1>3. CASE MeasureOne
  <2> DEFINE o == sample[measured + 1]
             next == AddGraph(AddExact(counters, o), o)
  <2>1. /\ Finished /\ measured + 1 \in 1 .. Len(sample)
        /\ measured' = measured + 1 /\ (lane = "Both" => counters' = next)
        /\ UNCHANGED <<vars, lane, sample>>
    BY <1>3, MeasuredOne
  <2>2. config' = config /\ corpus' = corpus
    BY <2>1 DEF vars
  <2> SUFFICES ASSUME lane = "Both", sample = corpus, config.include_exact,
                      \A x \in ToSet(corpus) : Len(x.emissions) <= OutputCapacity
               PROVE  /\ counters'.exact_covered = measured'
                      /\ counters'.exact_top1_matches = measured'
                      /\ counters'.order_matches = measured'
    BY <2>1, <2>2 DEF Perfect
  <2>3. o \in ToSet(corpus)
    <3>1. DOMAIN sample = 1 .. Len(sample)
      BY DEF Measuring
    <3> QED BY <2>1, <3>1 DEF ToSet
  <2>4. counters \in Counters
    BY DEF Measuring
  <2> HIDE DEF o
  <2>5. /\ next.exact_covered = counters.exact_covered + 1
        /\ next.exact_top1_matches = counters.exact_top1_matches + 1
        /\ next.order_matches = counters.order_matches + 1
    BY <2>1, <2>3, <2>4, OwnRecordCounts
  <2> HIDE DEF next
  <2> QED BY <2>1, <2>5 DEF Perfect
<1>4. ASSUME NEW thresholds, Judge(thresholds) PROVE Perfect'
  BY <1>4 DEF Judge, Perfect, vars
<1> QED BY <1>1, <1>2, <1>3, <1>4, StepsAre DEF ParityNext

(* Every observation of the corpus the artifact was compiled from is       *)
(* answered by its own record, in the teacher's order, whatever shorter    *)
(* suffixes and hash collisions there are (evaluate, parity.rs:248, and    *)
(* predict_exact in artifact.rs).                                          *)
THEOREM ExactLaneAnswersAll == PipelineSpec => []ExactLaneIsPerfect
<1>1. PipelineInit => Perfect
  BY DEF PipelineInit, InitParity, Perfect
<1>2. Measuring /\ Perfect => ExactLaneIsPerfect
  <2> SUFFICES ASSUME Measuring, Perfect, lane = "Both", sample = corpus, config.include_exact,
                      \A o \in ToSet(corpus) : Len(o.emissions) <= OutputCapacity
               PROVE  measured > 0 => BasisPoints(counters.exact_top1_matches, measured) = 10000
    BY DEF Perfect, ExactLaneIsPerfect
  <2>1. counters.exact_top1_matches = measured
    BY DEF Perfect
  <2>2. measured \in Nat
    BY DEF Measuring
  <2>3. measured > 0 => (measured * 10000) \div measured = 10000
    BY <2>2
  <2> QED BY <2>1, <2>2, <2>3 DEF BasisPoints, Smaller
<1> QED BY <1>1, <1>2, PerfectStep, MeasuringInv, PipelineInvs, PTL DEF PipelineSpec

-----------------------------------------------------------------------------
(* The results of the export and of the replay.                            *)
Reported ==
  /\ exported.error \in {"none", "TokenOutOfRange", "FormatLimit", "Structural"}
  /\ report.error \in {"none", "Structural", "InvalidRootPrior"}

LEMMA ExportedError ==
  Exported.error \in {"none", "TokenOutOfRange", "FormatLimit", "Structural"}
BY DEF Exported, Refused

LEMMA ReplayedError ==
  ASSUME NEW graph
  PROVE  Replayed(graph).error \in {"none", "Structural", "InvalidRootPrior"}
BY DEF Replayed

(* Everything has its type, and every command ends with one of the results *)
(* its code names (compile, compiler.rs:111, export_r4g1 and replay_r4g1,  *)
(* r4g1_export.rs:182, evaluate, parity.rs:248).                           *)
THEOREM PipelineTypes == PipelineSpec => []PipelineTypeOK
<1>1. PipelineInit => Reported
  BY DEF PipelineInit, InitExport, Reported, Refused
<1>2. Reported /\ [PipelineNext]_pipelineVars => Reported'
  <2> SUFFICES ASSUME Reported, [PipelineNext]_pipelineVars PROVE Reported'
    OBVIOUS
  <2>1. CASE UNCHANGED exportVars
    BY <2>1 DEF Reported, exportVars
  <2>2. CASE ExportR4G1
    <3>1. exported' = Exported /\ report' = report
      BY <2>2 DEF ExportR4G1
    <3> QED BY <3>1, ExportedError DEF Reported
  <2>3. ASSUME NEW graph, ReplayR4G1(graph) PROVE Reported'
    <3>1. report' = Replayed(graph) /\ exported' = exported
      BY <2>3 DEF ReplayR4G1
    <3> QED BY <3>1, ReplayedError DEF Reported
  <2> QED BY <2>1, <2>2, <2>3 DEF PipelineNext, pipelineVars, ExportNext, Replay
<1>3. IInv => TypeOK
  <2> SUFFICES ASSUME IInv PROVE TypeOK
    OBVIOUS
  <2> QED BY DEF IInv, Types, Tree, TypeOK
<1>4. IInv /\ Measuring /\ Reported => PipelineTypeOK
  BY <1>3, NoCountersType DEF Measuring, Reported, Counters, PipelineTypeOK
<1> QED BY <1>1, <1>2, <1>4, MeasuringInv, PipelineIInv, PTL DEF PipelineSpec

-----------------------------------------------------------------------------
(* Lists that name the elements of a finite set by a key of theirs.        *)
LEMMA NumbersInOrder ==
  ASSUME NEW S \in SUBSET Nat, IsFiniteSet(S)
  PROVE  LET order == InOrder(S, <)
         IN  /\ order \in Seq(S) /\ Len(order) = Cardinality(S)
             /\ \A k, l \in 1 .. Len(order) : k < l => order[k] < order[l]
             /\ \A x \in S : \E k \in 1 .. Len(order) : order[k] = x
<1> DEFINE preceding == [x \in S |-> {y \in S : y < x}]
           order == OrderOf(S, preceding)
<1>1. InOrder(S, <) = order
  BY DEF InOrder
<1>2. \A x, y \in S : y \in preceding[x] <=> y < x
  OBVIOUS
<1>3. preceding \in [S -> SUBSET S]
  OBVIOUS
<1> HIDE DEF preceding
<1>4. IsOrder(S, preceding)
  BY <1>2, <1>3 DEF IsOrder
<1>5. /\ order \in Seq(S) /\ Len(order) = Cardinality(S)
      /\ \A k, l \in 1 .. Len(order) : k < l => order[k] \in preceding[order[l]]
      /\ \A x \in S : \E k \in 1 .. Len(order) : order[k] = x
  BY <1>4, OrderIs
<1> HIDE DEF order
<1>6. \A k, l \in 1 .. Len(order) : k < l => order[k] < order[l]
  <2> SUFFICES ASSUME NEW k \in 1 .. Len(order), NEW l \in 1 .. Len(order), k < l
               PROVE  order[k] < order[l]
    OBVIOUS
  <2>1. order[k] \in S /\ order[l] \in S
    BY <1>5
  <2> QED BY <1>2, <1>5, <2>1
<1> QED BY <1>1, <1>5, <1>6

(* Elements with distinct keys, a list of n entries, and what it may name. *)
Keyed(E, V, key, n, list) ==
  /\ IsFiniteSet(E) /\ key \in [E -> V] /\ \A e, f \in E : key[e] = key[f] => e = f
  /\ n \in Nat /\ DOMAIN list = 1 .. n
NamesAll(E, key, n, list) == \A e \in E : \E k \in 1 .. n : list[k] = key[e]
NamesNothingElse(E, key, n, list) == \A k \in 1 .. n : \E e \in E : list[k] = key[e]
NamesOnce(n, list) == \A k, l \in 1 .. n : list[k] = list[l] => k = l

LEMMA NamesAt ==
  ASSUME NEW E, NEW V, NEW key, NEW n, NEW list,
         Keyed(E, V, key, n, list), NamesAll(E, key, n, list)
  PROVE  /\ \E at \in Injection(E, 1 .. n) : \A e \in E : list[at[e]] = key[e]
         /\ IsFiniteSet(1 .. n) /\ Cardinality(1 .. n) = n
<1> DEFINE At(e) == CHOOSE k \in 1 .. n : list[k] = key[e]
           at == [e \in E |-> At(e)]
<1>1. \A e \in E : At(e) \in 1 .. n /\ list[At(e)] = key[e]
  BY DEF NamesAll
<1>2. at \in [E -> 1 .. n] /\ \A e \in E : list[at[e]] = key[e]
  BY <1>1
<1> HIDE DEF at
<1>3. IsFiniteSet(1 .. n) /\ Cardinality(1 .. n) = n
  BY FS_Interval DEF Keyed
<1>4. at \in Injection(E, 1 .. n)
  BY <1>2 DEF Keyed, Injection, IsInjective
<1> QED BY <1>2, <1>3, <1>4

(* As many entries as elements, and each element named: then each once.    *)
LEMMA NamedOnce ==
  ASSUME NEW E, NEW V, NEW key, NEW n, NEW list,
         Keyed(E, V, key, n, list), NamesAll(E, key, n, list), Cardinality(E) = n
  PROVE  NamesNothingElse(E, key, n, list) /\ NamesOnce(n, list)
<1>1. PICK at \in Injection(E, 1 .. n) : \A e \in E : list[at[e]] = key[e]
  BY NamesAt
<1>2. at \in Surjection(E, 1 .. n)
  <2>1. IsFiniteSet(1 .. n) /\ Cardinality(1 .. n) = Cardinality(E)
    BY NamesAt
  <2> QED BY <2>1, FS_Injection
<1>3. \A k \in 1 .. n : \E e \in E : at[e] = k
  BY <1>2 DEF Surjection
<1>4. NamesOnce(n, list)
  <2> SUFFICES ASSUME NEW k \in 1 .. n, NEW l \in 1 .. n, list[k] = list[l] PROVE k = l
    BY DEF NamesOnce
  <2>1. PICK e \in E : at[e] = k
    BY <1>3
  <2>2. PICK f \in E : at[f] = l
    BY <1>3
  <2>3. key[e] = key[f]
    BY <1>1, <2>1, <2>2
  <2> QED BY <2>1, <2>2, <2>3 DEF Keyed
<1> QED BY <1>1, <1>3, <1>4 DEF NamesNothingElse

(* Each element named once, and nothing else: then as many entries as      *)
(* elements.                                                               *)
LEMMA OnceNamed ==
  ASSUME NEW E, NEW V, NEW key, NEW n, NEW list,
         Keyed(E, V, key, n, list), NamesAll(E, key, n, list),
         NamesNothingElse(E, key, n, list), NamesOnce(n, list)
  PROVE  Cardinality(E) = n
<1>1. PICK at \in Injection(E, 1 .. n) : \A e \in E : list[at[e]] = key[e]
  BY NamesAt
<1>2. at \in [E -> 1 .. n]
  BY <1>1 DEF Injection
<1>3. at \in Surjection(E, 1 .. n)
  <2> SUFFICES ASSUME NEW k \in 1 .. n PROVE \E e \in E : at[e] = k
    BY <1>2 DEF Surjection
  <2>1. PICK e \in E : list[k] = key[e]
    BY DEF NamesNothingElse
  <2>2. list[at[e]] = list[k] /\ at[e] \in 1 .. n
    BY <1>1, <1>2, <2>1
  <2> QED BY <2>2 DEF NamesOnce
<1> QED BY <1>1, <1>3, NamesAt, FS_Injection

-----------------------------------------------------------------------------
(* The replay of an export.                                                *)
EdgeKey(e) == <<e.src, e.dst, e.score>>

(* Finitely many edges, at most one between two nodes, all predictive.     *)
OnePerPair(E) ==
  /\ IsFiniteSet(E)
  /\ \A e, f \in E : e.src = f.src /\ e.dst = f.dst => e = f
  /\ \A e \in E : e.kind = 2

(* The edges of a graph are a list, as those of every assembled graph are. *)
EdgesListed(graph) == \E T : graph.edges \in Seq(T)

(* The predictive edges are those at some positions, in their order.       *)
StatesAt(graph, at) ==
  /\ at \in Seq(DOMAIN graph.edges) /\ Len(at) = Len(PredictiveOf(graph))
  /\ DOMAIN PredictiveOf(graph) = 1 .. Len(at)
  /\ \A k \in 1 .. Len(at) : /\ PredictiveOf(graph)[k] = graph.edges[at[k]]
                             /\ graph.edges[at[k]].kind = 2
  /\ \A k, l \in 1 .. Len(at) : at[k] = at[l] => k = l
  /\ \A p \in DOMAIN graph.edges : graph.edges[p].kind = 2 => \E k \in 1 .. Len(at) : at[k] = p

LEMMA PredictiveIs ==
  ASSUME NEW graph, EdgesListed(graph)
  PROVE  \E at : StatesAt(graph, at)
<1> DEFINE P == {p \in DOMAIN graph.edges : graph.edges[p].kind = 2}
           at == InOrder(P, <)
<1>1. PICK T : graph.edges \in Seq(T)
  BY DEF EdgesListed
<1>2. DOMAIN graph.edges = 1 .. Len(graph.edges) /\ Len(graph.edges) \in Nat
  BY <1>1
<1>3. P \in SUBSET Nat /\ IsFiniteSet(P)
  <2>1. IsFiniteSet(1 .. Len(graph.edges))
    BY <1>2, FS_Interval
  <2>2. P \subseteq 1 .. Len(graph.edges)
    BY <1>2
  <2> QED BY <2>1, <2>2, FS_Subset
<1>4. PredictiveOf(graph) = [k \in DOMAIN at |-> graph.edges[at[k]]]
  BY DEF PredictiveOf
<1>5. \A p : p \in P <=> p \in DOMAIN graph.edges /\ graph.edges[p].kind = 2
  OBVIOUS
<1> HIDE DEF P
<1>6. /\ at \in Seq(P)
      /\ \A k, l \in 1 .. Len(at) : k < l => at[k] < at[l]
      /\ \A p \in P : \E k \in 1 .. Len(at) : at[k] = p
  BY <1>3, NumbersInOrder
<1> HIDE DEF at
<1>7. DOMAIN at = 1 .. Len(at) /\ Len(at) \in Nat /\ \A k \in 1 .. Len(at) : at[k] \in P
  BY <1>6
<1>8. /\ DOMAIN PredictiveOf(graph) = 1 .. Len(at) /\ Len(PredictiveOf(graph)) = Len(at)
      /\ \A k \in 1 .. Len(at) : PredictiveOf(graph)[k] = graph.edges[at[k]]
  BY <1>4, <1>7
<1>9. at \in Seq(DOMAIN graph.edges)
  BY <1>5, <1>6, <1>7
<1>10. \A k, l \in 1 .. Len(at) : at[k] = at[l] => k = l
  <2> SUFFICES ASSUME NEW k \in 1 .. Len(at), NEW l \in 1 .. Len(at), at[k] = at[l], k # l
               PROVE  FALSE
    OBVIOUS
  <2>1. at[k] \in Nat /\ at[l] \in Nat
    BY <1>3, <1>7
  <2>2. k < l \/ l < k
    OBVIOUS
  <2> QED BY <1>6, <2>1, <2>2
<1>11. StatesAt(graph, at)
  BY <1>5, <1>6, <1>7, <1>8, <1>9, <1>10 DEF StatesAt
<1> QED BY <1>11

(* The first edge between the ends of an edge, if there is one.            *)
SameEnds(e, f) == e.kind = f.kind /\ e.src = f.src /\ e.dst = f.dst

LEMMA FoundIs ==
  ASSUME NEW graph, EdgesListed(graph), NEW e
  PROVE  /\ Found(graph, e) # 0 => /\ Found(graph, e) \in DOMAIN graph.edges
                                   /\ SameEnds(graph.edges[Found(graph, e)], e)
         /\ Found(graph, e) = 0 => \A p \in DOMAIN graph.edges : ~ SameEnds(graph.edges[p], e)
<1> DEFINE I == {p \in 1 .. Len(graph.edges) : SameEnds(graph.edges[p], e)}
<1>1. PICK T : graph.edges \in Seq(T)
  BY DEF EdgesListed
<1>2. DOMAIN graph.edges = 1 .. Len(graph.edges) /\ Len(graph.edges) \in Nat
  BY <1>1
<1>3. Found(graph, e) = IF I # {} THEN Min(I) ELSE 0
  BY DEF Found, SelectInSeq, SameEnds
<1>4. I \in SUBSET Nat /\ 0 \notin I
  BY <1>2
<1>5. \A p : p \in I <=> p \in DOMAIN graph.edges /\ SameEnds(graph.edges[p], e)
  BY <1>2
<1> HIDE DEF I
<1>6. I # {} => Min(I) \in I
  BY <1>4, MinIs
<1> QED BY <1>3, <1>4, <1>5, <1>6

(* The keys of the stated edges.                                           *)
Stated(graph) == [k \in DOMAIN PredictiveOf(graph) |-> EdgeKey(PredictiveOf(graph)[k])]

Matched(graph, E) == {e \in E : Found(graph, e) # 0}
Agreeing(graph, E) ==
  {e \in Matched(graph, E) : graph.edges[Found(graph, e)].score = e.score}

(* Everything expected is found with its score: then its key is stated.    *)
LEMMA FoundIsStated ==
  ASSUME NEW graph, EdgesListed(graph), NEW E, OnePerPair(E), NEW at, StatesAt(graph, at),
         NEW e \in Agreeing(graph, E)
  PROVE  \E k \in 1 .. Len(at) : Stated(graph)[k] = EdgeKey(e)
<1> DEFINE p == Found(graph, e)
<1>1. e \in E /\ e.kind = 2 /\ p # 0 /\ graph.edges[p].score = e.score
  BY DEF Agreeing, Matched, OnePerPair
<1>2. p \in DOMAIN graph.edges /\ SameEnds(graph.edges[p], e)
  BY <1>1, FoundIs
<1> HIDE DEF p
<1>3. PICK k \in 1 .. Len(at) : at[k] = p
  BY <1>1, <1>2 DEF StatesAt, SameEnds
<1>4. Stated(graph)[k] = EdgeKey(graph.edges[p])
  BY <1>3 DEF StatesAt, Stated
<1>5. EdgeKey(graph.edges[p]) = EdgeKey(e)
  BY <1>1, <1>2 DEF EdgeKey, SameEnds
<1> QED BY <1>4, <1>5

(* An expected edge whose key is stated is found, and as nothing else is   *)
(* stated between its ends, with its score.                                *)
LEMMA StatedIsFound ==
  ASSUME NEW graph, EdgesListed(graph), NEW E, OnePerPair(E), NEW at, StatesAt(graph, at),
         \A k \in 1 .. Len(at) : \E f \in E : Stated(graph)[k] = EdgeKey(f),
         NEW e \in E, NEW k \in 1 .. Len(at), Stated(graph)[k] = EdgeKey(e)
  PROVE  e \in Agreeing(graph, E)
<1> DEFINE p == Found(graph, e)
<1>1. e.kind = 2 /\ \A l \in 1 .. Len(at) : /\ at[l] \in DOMAIN graph.edges
                                            /\ graph.edges[at[l]].kind = 2
                                            /\ Stated(graph)[l] = EdgeKey(graph.edges[at[l]])
  BY DEF OnePerPair, StatesAt, Stated
<1>2. SameEnds(graph.edges[at[k]], e)
  BY <1>1 DEF EdgeKey, SameEnds
<1>3. p # 0
  BY <1>1, <1>2, FoundIs
<1>4. p \in DOMAIN graph.edges /\ SameEnds(graph.edges[p], e)
  BY <1>3, FoundIs
<1> HIDE DEF p
<1>5. PICK l \in 1 .. Len(at) : at[l] = p
  BY <1>1, <1>4 DEF StatesAt, SameEnds
<1>6. PICK f \in E : Stated(graph)[l] = EdgeKey(f)
  OBVIOUS
<1>7. f.src = e.src /\ f.dst = e.dst /\ f.score = graph.edges[p].score
  BY <1>1, <1>4, <1>5, <1>6 DEF EdgeKey, SameEnds
<1>8. f = e
  BY <1>7 DEF OnePerPair
<1> QED BY <1>3, <1>7, <1>8 DEF p, Agreeing, Matched

(* What is_complete compares.                                              *)
LEMMA CountsDecide ==
  ASSUME NEW graph, EdgesListed(graph), NEW E, OnePerPair(E)
  PROVE  /\ Cardinality(E) = Len(PredictiveOf(graph))
         /\ Cardinality(E) = Cardinality(Matched(graph, E))
         /\ Cardinality(E) = Cardinality(Agreeing(graph, E))
         <=> IsInjective(Stated(graph)) /\ ToSet(Stated(graph)) = {EdgeKey(e) : e \in E}
<1> DEFINE stated == Stated(graph)
           key == [e \in E |-> EdgeKey(e)]
           V == {EdgeKey(e) : e \in E}
<1>1. PICK at : StatesAt(graph, at)
  BY PredictiveIs
<1> DEFINE n == Len(at)
<1>2. n \in Nat /\ DOMAIN stated = 1 .. n /\ Len(PredictiveOf(graph)) = n
  BY <1>1 DEF StatesAt, Stated
<1>3. IsFiniteSet(E) /\ key \in [E -> V] /\ \A e \in E : key[e] = EdgeKey(e)
  BY DEF OnePerPair
<1>4. \A e, f \in E : key[e] = key[f] => e = f
  BY DEF OnePerPair, EdgeKey
<1>5. /\ Agreeing(graph, E) \subseteq Matched(graph, E)
      /\ Matched(graph, E) \subseteq E /\ Agreeing(graph, E) \subseteq E
  BY DEF Agreeing, Matched
<1> HIDE DEF n, stated, key, V
<1>6. Cardinality(E) = Cardinality(Agreeing(graph, E)) => Agreeing(graph, E) = E
  BY <1>3, <1>5, FS_Subset
<1>7. Keyed(E, V, key, n, stated)
  BY <1>2, <1>3, <1>4 DEF Keyed
<1>8. ASSUME Cardinality(E) = n, Agreeing(graph, E) = E
      PROVE  IsInjective(stated) /\ ToSet(stated) = V
  <2>1. NamesAll(E, key, n, stated)
    <3> SUFFICES ASSUME NEW e \in E PROVE \E k \in 1 .. n : stated[k] = key[e]
      BY DEF NamesAll
    <3>1. e \in Agreeing(graph, E)
      BY <1>8
    <3> QED BY <3>1, <1>1, <1>3, FoundIsStated DEF n, stated
  <2>2. NamesNothingElse(E, key, n, stated) /\ NamesOnce(n, stated)
    BY <1>7, <1>8, <2>1, NamedOnce
  <2>3. IsInjective(stated)
    BY <1>2, <2>2 DEF IsInjective, NamesOnce
  <2>4. ToSet(stated) = V
    BY <1>2, <1>3, <2>1, <2>2 DEF ToSet, V, NamesAll, NamesNothingElse
  <2> QED BY <2>3, <2>4
<1>9. ASSUME IsInjective(stated), ToSet(stated) = V
      PROVE  Cardinality(E) = n /\ Agreeing(graph, E) = E
  <2>1. NamesAll(E, key, n, stated)
    BY <1>2, <1>3, <1>9 DEF ToSet, V, NamesAll
  <2>2. NamesNothingElse(E, key, n, stated)
    BY <1>2, <1>3, <1>9 DEF ToSet, V, NamesNothingElse
  <2>3. NamesOnce(n, stated)
    BY <1>2, <1>9 DEF IsInjective, NamesOnce
  <2>4. Cardinality(E) = n
    BY <1>7, <2>1, <2>2, <2>3, OnceNamed
  <2>5. ASSUME NEW e \in E PROVE e \in Agreeing(graph, E)
    <3>1. PICK k \in 1 .. n : stated[k] = EdgeKey(e)
      BY <1>3, <2>1 DEF NamesAll
    <3>2. \A l \in 1 .. n : \E f \in E : stated[l] = EdgeKey(f)
      BY <1>3, <2>2 DEF NamesNothingElse
    <3> QED BY <1>1, <3>1, <3>2, StatedIsFound DEF n, stated
  <2> QED BY <1>5, <2>4, <2>5
<1>10. Agreeing(graph, E) = E => Matched(graph, E) = E
  BY <1>5
<1> QED BY <1>2, <1>6, <1>8, <1>9, <1>10 DEF stated, V

(* The ledgers are those of finitely many pairs of nodes.                  *)
LedgerRound(prior, same, ledgers, k) == TakeEvidence(ledgers, k, prior)

LedgerLoop ==
  INSTANCE RankedInsert_proofs WITH Capacity <- 0, Before <- LAMBDA x, y : x < y,
    Step <- LedgerRound

LEMMA LedgerLoops ==
  ASSUME NEW prior
  PROVE  Ledgers(prior) = LedgerLoop!Folded(prior, prior, << >>, InOrder(Evidence, <))
BY DEF Ledgers, LedgerLoop!Folded, LedgerRound, FoldLeft, MapThenFoldSet, Max,
       LedgerLoop!MapThenFoldSet, LedgerLoop!Greatest

PairsOf(ledgers) == IsFiniteSet(DOMAIN ledgers) /\ DOMAIN ledgers \in SUBSET (Nat \X Nat)

LEMMA NearestNode ==
  ASSUME Finished, NEW context \in Contexts
  PROVE  NearestRegion(context) \in DOMAIN Regions
<1> DEFINE code == SignatureOf(context)
           To(c) == MaskedHamming(code, Regions[c])
           covering == {c \in DOMAIN Regions : Covers(Regions[c], code)}
           pool == IF covering # {} THEN covering ELSE DOMAIN Regions
           to == [c \in pool |-> To(c)]
           nearest == {c \in pool : \A d \in pool : To(c) <= To(d)}
<1>1. /\ Regions \in Seq(CompiledRegion) /\ DOMAIN Regions = DOMAIN prototypes
      /\ DOMAIN Regions = 1 .. Len(Regions)
  BY ArtifactIs DEF Regions
<1>2. DOMAIN Regions # {}
  <2>1. prototypes \in Seq(Code) /\ prototypes # << >>
    BY DEF Finished, IInv, Types, Placed
  <2>2. 1 \in DOMAIN prototypes
    BY <2>1
  <2> QED BY <1>1, <2>2
<1>3. code \in Code
  BY SignatureOfAssumption
<1>4. pool \in SUBSET DOMAIN Regions /\ pool # {}
  BY <1>2
<1>5. \A c \in pool : To(c) \in Nat
  <2> SUFFICES ASSUME NEW c \in pool PROVE To(c) \in Nat
    OBVIOUS
  <2>1. Regions[c] \in CompiledRegion
    BY <1>1, <1>4
  <2> HIDE DEF code
  <2> QED BY <1>3, <2>1, HammingType
<1> HIDE DEF pool, To
<1>6. to \in [pool -> Nat]
  BY <1>5
<1>7. \E p \in pool : \A q \in pool : to[p] <= to[q]
  BY <1>4, <1>6, SomeNearest
<1>8. nearest # {}
  BY <1>7
<1>9. NearestRegion(context) = Min(nearest)
  BY DEF NearestRegion, pool, To
<1>10. nearest \in SUBSET Nat /\ nearest \subseteq DOMAIN Regions
  BY <1>1, <1>4
<1> HIDE DEF nearest
<1>11. Min(nearest) \in nearest
  BY <1>8, <1>10, MinIs
<1> QED BY <1>9, <1>10, <1>11

LEMMA EvidenceIs ==
  ASSUME Finished
  PROVE  /\ Exact \in Seq(ExactRecord)
         /\ Evidence \in SUBSET Nat /\ IsFiniteSet(Evidence)
         /\ \A k \in Evidence : Exact[k].context \in Contexts
<1>1. Exact \in Seq(ExactRecord)
  <2>1. Types
    BY DEF Finished, IInv
  <2>2. ExactRecords \in Seq(ExactRecord)
    BY <2>1, ExactRecordsAre
  <2>3. << >> \in Seq(ExactRecord)
    OBVIOUS
  <2>4. Exact = IF config.include_exact THEN ExactRecords ELSE << >>
    BY ArtifactIs DEF Exact
  <2> QED BY <2>2, <2>3, <2>4
<1>2. DOMAIN Exact = 1 .. Len(Exact) /\ Len(Exact) \in Nat
  BY <1>1
<1>3. IsFiniteSet(1 .. Len(Exact))
  BY <1>2, FS_Interval
<1>4. Evidence \subseteq 1 .. Len(Exact)
  BY <1>2 DEF Evidence
<1>5. Evidence \subseteq Nat
  BY <1>2, <1>4
<1>6. IsFiniteSet(Evidence)
  BY <1>3, <1>4, FS_Subset
<1>7. \A k \in Evidence : Exact[k] \in ExactRecord
  BY <1>1, <1>2, <1>4
<1>8. \A k \in Evidence : Exact[k].context \in Contexts
  BY <1>7 DEF ExactRecord
<1> QED BY <1>1, <1>5, <1>6, <1>8

LEMMA PairIs ==
  ASSUME Finished, NEW k \in Evidence, Successors(k) # {}
  PROVE  Pair(k) \in Nat \X Nat
<1>1. Successors(k) \in SUBSET Evidence /\ Successors(k) \in SUBSET Nat
  BY EvidenceIs DEF Successors
<1>2. Min(Successors(k)) \in Evidence
  BY <1>1, MinIs
<1>3. /\ Exact[k].context \in Contexts
      /\ Exact[Min(Successors(k))].context \in Contexts
  BY <1>2, EvidenceIs
<1>4. DOMAIN Regions \subseteq Nat
  <2>1. Regions \in Seq(CompiledRegion)
    BY ArtifactIs DEF Regions
  <2> QED BY <2>1
<1>5. /\ NearestRegion(Exact[k].context) \in DOMAIN Regions
      /\ NearestRegion(Exact[Min(Successors(k))].context) \in DOMAIN Regions
  BY <1>3, NearestNode
<1> QED BY <1>4, <1>5 DEF Pair

LEMMA RoundAddsPair ==
  ASSUME Finished, NEW ledgers, PairsOf(ledgers), NEW k \in Evidence, NEW prior
  PROVE  PairsOf(TakeEvidence(ledgers, k, prior))
<1> DEFINE best == Head(Exact[k].emissions)
           held == IF Pair(k) \in DOMAIN ledgers THEN ledgers[Pair(k)] ELSE EmptyLedger
           residual == Saturate(best.score - ScoreIn(prior, best.token))
           new == Accumulated(held, k, residual)
           after == [pair \in DOMAIN ledgers \cup {Pair(k)} |->
                       IF pair = Pair(k) THEN new ELSE ledgers[pair]]
<1>1. TakeEvidence(ledgers, k, prior) = IF Successors(k) = {} THEN ledgers ELSE after
  BY DEF TakeEvidence
<1> HIDE DEF new
<1>2. DOMAIN after = DOMAIN ledgers \cup {Pair(k)}
  OBVIOUS
<1> HIDE DEF after
<1>3. IsFiniteSet(DOMAIN after)
  BY <1>2, FS_AddElement DEF PairsOf
<1>4. Successors(k) # {} => Pair(k) \in Nat \X Nat
  BY PairIs
<1> QED BY <1>1, <1>2, <1>3, <1>4 DEF PairsOf

LEMMA LedgersAre ==
  ASSUME Finished, NEW prior
  PROVE  PairsOf(Ledgers(prior))
<1> DEFINE order == InOrder(Evidence, <)
           At(n) == LedgerLoop!Folded(prior, prior, << >>, SubSeq(order, 1, n))
           Wrong == {n \in 0 .. Len(order) : ~ PairsOf(At(n))}
<1>1. Evidence \in SUBSET Nat /\ IsFiniteSet(Evidence)
  BY EvidenceIs
<1>2. order \in Seq(Evidence)
  BY <1>1, NumbersInOrder
<1> HIDE DEF order
<1>3. Len(order) \in Nat
  BY <1>2
<1>4. At(0) = << >> /\ At(Len(order)) = LedgerLoop!Folded(prior, prior, << >>, order)
  <2>1. /\ LedgerLoop!Folded(prior, prior, << >>, SubSeq(order, 1, Len(order)))
             = LedgerLoop!Folded(prior, prior, << >>, order)
        /\ LedgerLoop!Folded(prior, prior, << >>, SubSeq(order, 1, 0)) = << >>
    BY <1>2, LedgerLoop!FoldAll
  <2> QED BY <2>1
<1>5. \A n \in 1 .. Len(order) : At(n) = TakeEvidence(At(n - 1), order[n], prior)
  <2> SUFFICES ASSUME NEW n \in 1 .. Len(order)
               PROVE  At(n) = TakeEvidence(At(n - 1), order[n], prior)
    OBVIOUS
  <2>1. At(n) = LedgerRound(prior, prior, At(n - 1), order[n])
    BY <1>2, LedgerLoop!FoldNext
  <2> QED BY <2>1 DEF LedgerRound
<1> HIDE DEF At
<1>6. PairsOf(At(0))
  <2>1. DOMAIN << >> = {}
    OBVIOUS
  <2> QED BY <1>4, <2>1, FS_EmptySet DEF PairsOf
<1>7. Wrong = {}
  <2> SUFFICES ASSUME Wrong # {} PROVE FALSE
    OBVIOUS
  <2>1. Wrong \in SUBSET Nat
    BY <1>3
  <2>2. PICK n \in Wrong : \A m \in Wrong : n <= m
    BY <2>1, Numbers!NatHasMin
  <2>3. n \in 1 .. Len(order) /\ n - 1 \in 0 .. Len(order) /\ n \in Nat
    BY <1>3, <1>6, <2>2
  <2>4. n - 1 \notin Wrong
    BY <2>2, <2>3
  <2>5. PairsOf(At(n - 1))
    BY <2>3, <2>4
  <2>6. order[n] \in Evidence
    BY <1>2, <2>3
  <2>7. PairsOf(TakeEvidence(At(n - 1), order[n], prior))
    BY <2>5, <2>6, RoundAddsPair
  <2>8. PairsOf(At(n))
    BY <1>5, <2>3, <2>7
  <2> QED BY <2>2, <2>8
<1>8. PairsOf(At(Len(order)))
  BY <1>3, <1>7
<1> QED BY <1>4, <1>8, LedgerLoops DEF order

(* So the expected edges are finitely many, and one for each pair at most. *)
LEMMA ExpectedAre ==
  ASSUME NEW ledgers, PairsOf(ledgers)
  PROVE  /\ OnePerPair(PredictiveEdges(ledgers))
         /\ \A e \in PredictiveEdges(ledgers) : e.src \in Nat /\ e.dst \in Nat /\ e.reserved = 0
<1> DEFINE EdgeOf(pair) ==
             [src |-> pair[1], dst |-> pair[2], kind |-> 2, flags |-> 0, reserved |-> 0,
              score |-> AverageScore(ledgers[pair].score, Len(ledgers[pair].tracked))]
           all == {EdgeOf(pair) : pair \in DOMAIN ledgers}
<1>1. IsFiniteSet(all)
  <2> DEFINE edge == [pair \in DOMAIN ledgers |-> EdgeOf(pair)]
  <2>1. edge \in [DOMAIN ledgers -> all] /\ \A y \in all : \E x \in DOMAIN ledgers : edge[x] = y
    OBVIOUS
  <2> HIDE DEF edge, all
  <2> QED BY <2>1, ImageIsFinite DEF PairsOf
<1>2. PredictiveEdges(ledgers) = BestOfSource(all)
  BY DEF PredictiveEdges
<1>3. BestOfSource(all) \subseteq all
  BY DEF BestOfSource
<1>4. \A e \in all : e.kind = 2
  OBVIOUS
<1>5. \A e, f \in all : e.src = f.src /\ e.dst = f.dst => e = f
  <2> SUFFICES ASSUME NEW p \in DOMAIN ledgers, NEW q \in DOMAIN ledgers,
                      EdgeOf(p).src = EdgeOf(q).src, EdgeOf(p).dst = EdgeOf(q).dst
               PROVE  EdgeOf(p) = EdgeOf(q)
    OBVIOUS
  <2>1. p[1] = q[1] /\ p[2] = q[2]
    OBVIOUS
  <2>2. p \in Nat \X Nat /\ q \in Nat \X Nat
    BY DEF PairsOf
  <2>3. p = q
    BY <2>1, <2>2
  <2> QED BY <2>3
<1>7. \A e \in all : e.src \in Nat /\ e.dst \in Nat /\ e.reserved = 0
  <2> SUFFICES ASSUME NEW pair \in DOMAIN ledgers
               PROVE  /\ EdgeOf(pair).src \in Nat /\ EdgeOf(pair).dst \in Nat
                      /\ EdgeOf(pair).reserved = 0
    OBVIOUS
  <2>1. pair \in Nat \X Nat
    BY DEF PairsOf
  <2> QED BY <2>1
<1> HIDE DEF all
<1>6. IsFiniteSet(BestOfSource(all))
  BY <1>1, <1>3, FS_Subset
<1> QED BY <1>2, <1>3, <1>4, <1>5, <1>6, <1>7 DEF OnePerPair

-----------------------------------------------------------------------------
(* Nothing the replay recomputes changes once the artifact is there.       *)
LEMMA ReplayKept ==
  ASSUME UNCHANGED result
  PROVE  \A graph : Replayed(graph)' = Replayed(graph)
<1>1. Regions' = Regions /\ Exact' = Exact
  BY DEF Regions, Exact
<1>2. Evidence' = Evidence
  BY <1>1 DEF Evidence
<1>3. \A k : Successors(k)' = Successors(k)
  BY <1>1, <1>2 DEF Successors
<1>4. \A context : NearestRegion(context)' = NearestRegion(context)
  BY <1>1 DEF NearestRegion
<1>5. \A k : Pair(k)' = Pair(k)
  BY <1>1, <1>3, <1>4 DEF Pair
<1>6. \A ledgers, k, prior : TakeEvidence(ledgers, k, prior)' = TakeEvidence(ledgers, k, prior)
  BY <1>1, <1>3, <1>5 DEF TakeEvidence
<1>7. \A prior : Ledgers(prior)' = Ledgers(prior)
  <2> SUFFICES ASSUME NEW prior PROVE Ledgers(prior)' = Ledgers(prior)
    OBVIOUS
  <2> DEFINE order == InOrder(Evidence, <)
             Iterates(iter) ==
               iter = [s \in SUBSET DOMAIN order |->
                         IF s = {} THEN << >>
                         ELSE TakeEvidence(iter[s \ {Max(s)}], order[Max(s)], prior)]
  <2>1. order' = order
    BY <1>2 DEF InOrder
  <2>2. Ledgers(prior) = (CHOOSE iter : Iterates(iter))[DOMAIN order]
    BY DEF Ledgers, FoldLeft, MapThenFoldSet
  <2>3. Ledgers(prior)' = (CHOOSE iter : Iterates(iter)')[DOMAIN order']
    BY DEF Ledgers, FoldLeft, MapThenFoldSet
  <2> HIDE DEF order
  <2>4. \A iter : Iterates(iter)' = Iterates(iter)
    BY <1>6, <2>1
  <2> HIDE DEF Iterates
  <2>5. (CHOOSE iter : Iterates(iter)') = (CHOOSE iter : Iterates(iter))
    BY <2>4
  <2> QED BY <2>1, <2>2, <2>3, <2>5
<1> QED BY <1>7 DEF Replayed

-----------------------------------------------------------------------------
(* A list of averages names each token once, in the order of the tokens.   *)
LEMMA AveragesAscend ==
  ASSUME NEW all \in Seq(TokenScore)
  PROVE  /\ \E T : Averages(all) \in Seq(T)
         /\ \A k, l \in 1 .. Len(Averages(all)) :
              k < l => Averages(all)[k].token < Averages(all)[l].token
<1> DEFINE Of(token) == {p \in DOMAIN all : all[p].token = token}
           MeanOf(token) == AverageScore(MapThenSumSet(LAMBDA p : all[p].score, Of(token)),
                                        Cardinality(Of(token)))
           Entry(token) == [token |-> token, score |-> MeanOf(token)]
           S == {Entry(all[p].token) : p \in DOMAIN all}
           preceding == [x \in S |-> {y \in S : y.token < x.token}]
           order == OrderOf(S, preceding)
<1>1. Averages(all) = order
  BY DEF Averages, InOrder
<1> HIDE DEF MeanOf
<1>2. IsFiniteSet(S)
  <2> DEFINE entry == [p \in DOMAIN all |-> Entry(all[p].token)]
  <2>1. entry \in [DOMAIN all -> S] /\ \A y \in S : \E p \in DOMAIN all : entry[p] = y
    OBVIOUS
  <2>2. DOMAIN all = 1 .. Len(all) /\ Len(all) \in Nat
    OBVIOUS
  <2>3. IsFiniteSet(DOMAIN all)
    BY <2>2, FS_Interval
  <2> HIDE DEF entry, S
  <2> QED BY <2>1, <2>3, ImageIsFinite
<1>3. \A x \in S : x.token \in Nat /\ x = Entry(x.token)
  <2> SUFFICES ASSUME NEW p \in DOMAIN all
               PROVE  all[p].token \in Nat
    OBVIOUS
  <2>1. all[p] \in TokenScore
    OBVIOUS
  <2> QED BY <2>1, TokensAssumption DEF TokenScore
<1>4. IsOrder(S, preceding)
  <2> HIDE DEF S
  <2>1. \A x, y \in S : x.token = y.token => x = y
    BY <1>3
  <2> HIDE DEF Entry
  <2>2. preceding \in [S -> SUBSET S]
    OBVIOUS
  <2>3. \A x \in S : x \notin preceding[x]
    BY <1>3
  <2>4. \A x, y, z \in S : x \in preceding[y] /\ y \in preceding[z] => x \in preceding[z]
    BY <1>3
  <2>5. \A x, y \in S : x = y \/ x \in preceding[y] \/ y \in preceding[x]
    BY <1>3, <2>1
  <2> QED BY <2>2, <2>3, <2>4, <2>5 DEF IsOrder
<1>5. \A x, y \in S : x \in preceding[y] => x.token < y.token
  OBVIOUS
<1> HIDE DEF S, preceding, order
<1>6. /\ order \in Seq(S)
      /\ \A k, l \in 1 .. Len(order) : k < l => order[k] \in preceding[order[l]]
  BY <1>2, <1>4, OrderIs DEF order
<1>7. \A k, l \in 1 .. Len(order) : k < l => order[k].token < order[l].token
  <2> SUFFICES ASSUME NEW k \in 1 .. Len(order), NEW l \in 1 .. Len(order), k < l
               PROVE  order[k].token < order[l].token
    OBVIOUS
  <2>1. order[k] \in S /\ order[l] \in S
    BY <1>6
  <2> QED BY <1>5, <1>6, <2>1
<1> QED BY <1>1, <1>6, <1>7

(* The root prior and what is emitted behind it.                           *)
LEMMA RegionsAre ==
  ASSUME Finished
  PROVE  /\ Regions \in Seq(CompiledRegion) /\ DOMAIN Regions = 1 .. Len(Regions)
         /\ Len(Regions) \in Nat
         /\ \A c \in DOMAIN Regions : Regions[c] \in CompiledRegion
         /\ \A c \in DOMAIN Regions : Regions[c].emissions \in Seq(TokenScore)
<1>1. Regions \in Seq(CompiledRegion)
  BY ArtifactIs DEF Regions
<1>2. \A c \in DOMAIN Regions : Regions[c] \in CompiledRegion
  BY <1>1
<1>3. \A c \in DOMAIN Regions : Regions[c].emissions \in Seq(TokenScore)
  BY <1>2 DEF CompiledRegion, Emissions
<1> QED BY <1>1, <1>2, <1>3

LEMMA PriorIs ==
  ASSUME Finished
  PROVE  /\ \E T : RootPrior \in Seq(T)
         /\ PriorAccepted(RootPrior)
<1> DEFINE lists == [c \in DOMAIN Regions |-> Regions[c].emissions]
<1>1. lists \in Seq(Seq(TokenScore))
  BY RegionsAre
<1>2. FlattenSeq(lists) \in Seq(TokenScore)
  BY <1>1, FlattenIsList
<1>3. RootPrior = Averages(FlattenSeq(lists))
  BY DEF RootPrior
<1> HIDE DEF lists
<1>4. /\ \E T : RootPrior \in Seq(T)
      /\ \A k, l \in 1 .. Len(RootPrior) : k < l => RootPrior[k].token < RootPrior[l].token
  BY <1>2, <1>3, AveragesAscend
<1>5. Len(RootPrior) \in Nat
  BY <1>4
<1>6. PriorAccepted(RootPrior)
  <2> SUFFICES ASSUME NEW k \in 1 .. Len(RootPrior) - 1
               PROVE  RootPrior[k].token < RootPrior[k + 1].token
    BY DEF PriorAccepted
  <2>1. k \in 1 .. Len(RootPrior) /\ k + 1 \in 1 .. Len(RootPrior) /\ k < k + 1
    BY <1>5
  <2> QED BY <1>4, <2>1
<1> QED BY <1>4, <1>6

LEMMA EmittedEntries ==
  ASSUME Finished, NEW T, NEW prior \in Seq(T)
  PROVE  /\ \E U : EmitEntries(prior) \in Seq(U)
         /\ Len(prior) <= Len(EmitEntries(prior))
         /\ \A k \in 1 .. Len(prior) : EmitEntries(prior)[k] = prior[k]
<1> DEFINE entries == [c \in DOMAIN Regions |->
             [k \in DOMAIN Regions[c].emissions |->
                ResidualOf(c, Regions[c].emissions[k], prior)]]
           U == T \cup UNION {{entries[c][k] : k \in DOMAIN Regions[c].emissions} : c \in DOMAIN Regions}
           tail == FlattenSeq(entries)
<1>1. entries \in Seq(Seq(U))
  <2>1. \A c \in DOMAIN Regions : entries[c] \in Seq(U)
    <3> SUFFICES ASSUME NEW c \in DOMAIN Regions PROVE entries[c] \in Seq(U)
      OBVIOUS
    <3>1. /\ entries[c] = [k \in DOMAIN Regions[c].emissions |-> entries[c][k]]
          /\ \A k \in DOMAIN Regions[c].emissions : entries[c][k] \in U
      OBVIOUS
    <3>2. /\ DOMAIN Regions[c].emissions = 1 .. Len(Regions[c].emissions)
          /\ Len(Regions[c].emissions) \in Nat
      <4>1. Regions[c].emissions \in Seq(TokenScore)
        BY RegionsAre
      <4> QED BY <4>1
    <3>3. entries[c] = [k \in 1 .. Len(Regions[c].emissions) |-> entries[c][k]]
      BY <3>1, <3>2
    <3> HIDE DEF entries, U
    <3>4. \A k \in 1 .. Len(Regions[c].emissions) : entries[c][k] \in U
      BY <3>1, <3>2
    <3> QED BY <3>2, <3>3, <3>4
  <2>2. DOMAIN entries = 1 .. Len(Regions) /\ Len(Regions) \in Nat
    BY RegionsAre
  <2>3. entries = [c \in 1 .. Len(Regions) |-> entries[c]]
    BY RegionsAre
  <2>4. \A c \in 1 .. Len(Regions) : entries[c] \in Seq(U)
    BY <2>1, RegionsAre
  <2> HIDE DEF entries, U
  <2> QED BY <2>2, <2>3, <2>4
<1>2. prior \in Seq(U)
  <2>1. T \subseteq U
    OBVIOUS
  <2> HIDE DEF U
  <2> QED BY <2>1
<1>3. EmitEntries(prior) = prior \o tail
  BY DEF EmitEntries
<1> HIDE DEF entries, U
<1>4. tail \in Seq(U)
  BY <1>1, FlattenIsList
<1> HIDE DEF tail
<1>5. /\ prior \o tail \in Seq(U) /\ Len(prior) <= Len(prior \o tail)
      /\ \A k \in 1 .. Len(prior) : (prior \o tail)[k] = prior[k]
  BY <1>2, <1>4
<1> QED BY <1>3, <1>5

-----------------------------------------------------------------------------
(* The edges of an assembled graph, and the prior it states.               *)
EdgeOrder(E) == [x \in E |-> {y \in E : Graph!EdgeBefore(y, x)}]

AssembledEdges(predictive) ==
  OrderOf(RefinementEdges \cup predictive, EdgeOrder(RefinementEdges \cup predictive))

(* A graph whose edges HEAD does not touch.                                *)
Framed(graph) == [graph EXCEPT !.head.depth_count = 0].edges = graph.edges

LEMMA AssembledIs ==
  ASSUME NEW prior, NEW predictive
  PROVE  LET graph == Assembled(prior, predictive)
         IN  /\ graph.edges = AssembledEdges(predictive)
             /\ graph.emit = EmitSection(prior)
             /\ Framed(graph)
<1> DEFINE graph == Assembled(prior, predictive)
<1>1. graph.edges = AssembledEdges(predictive) /\ graph.emit = EmitSection(prior)
  BY DEF Assembled, AssembledEdges, EdgeOrder, InOrder
<1>2. "edges" \in DOMAIN graph
  BY DEF Assembled
<1> HIDE DEF graph
<1>3. Framed(graph)
  BY <1>2 DEF Framed
<1> QED BY <1>1, <1>3 DEF graph

LEMMA RefinementsAre ==
  ASSUME Finished
  PROVE  /\ IsFiniteSet(RefinementEdges)
         /\ \A e \in RefinementEdges : e.kind = 0 /\ e.reserved = 0 /\ e.dst \in Nat
         /\ Orphans = {} => \A e \in RefinementEdges : e.src \in Nat
         /\ \A e, f \in RefinementEdges : e.dst = f.dst => e = f
<1> DEFINE EdgeOf(c) == [src |-> ParentNode(c), dst |-> c, kind |-> 0, flags |-> 0,
                         reserved |-> 0, score |-> 0]
           edge == [c \in DOMAIN Regions |-> EdgeOf(c)]
<1>1. RefinementEdges = {EdgeOf(c) : c \in DOMAIN Regions}
  BY DEF RefinementEdges
<1>2. IsFiniteSet(RefinementEdges)
  <2>1. IsFiniteSet(DOMAIN Regions)
    BY RegionsAre, FS_Interval
  <2>2. /\ edge \in [DOMAIN Regions -> RefinementEdges]
        /\ \A y \in RefinementEdges : \E c \in DOMAIN Regions : edge[c] = y
    BY <1>1
  <2> HIDE DEF edge
  <2> QED BY <2>1, <2>2, ImageIsFinite
<1>3. Orphans = {} => \A c \in DOMAIN Regions : ParentNode(c) \in Nat
  <2> SUFFICES ASSUME Orphans = {}, NEW c \in DOMAIN Regions PROVE ParentNode(c) \in Nat
    OBVIOUS
  <2>1. CASE Len(Regions[c].path) <= 1
    BY <2>1 DEF ParentNode
  <2>2. CASE ~ Len(Regions[c].path) <= 1
    <3>1. Len(Regions[c].path) > 1
      <4>1. Regions[c].path \in Seq(Nat)
        BY RegionsAre DEF CompiledRegion
      <4> QED BY <2>2, <4>1
    <3>2. ParentCandidates(c) # {}
      BY <3>1 DEF Orphans
    <3>3. ParentCandidates(c) \in SUBSET Nat
      BY RegionsAre DEF ParentCandidates
    <3>4. Min(ParentCandidates(c)) \in Nat
      BY <3>2, <3>3, MinIs
    <3> QED BY <2>2, <3>4 DEF ParentNode
  <2> QED BY <2>1, <2>2
<1>4. \A c \in DOMAIN Regions : c \in Nat
  BY RegionsAre
<1> QED BY <1>1, <1>2, <1>3, <1>4

LEMMA EdgesAreOrdered ==
  ASSUME NEW E, \A e \in E : e.src \in Nat /\ e.kind \in Nat /\ e.dst \in Nat /\ e.reserved = 0,
         \A e, f \in E : e.src = f.src /\ e.kind = f.kind /\ e.dst = f.dst => e = f
  PROVE  IsOrder(E, EdgeOrder(E))
<1>1. EdgeOrder(E) \in [E -> SUBSET E]
  BY DEF EdgeOrder
<1>2. \A x, y \in E : x \in EdgeOrder(E)[y] <=> Graph!EdgeBefore(x, y)
  BY DEF EdgeOrder
<1>3. \A x \in E : ~ Graph!EdgeBefore(x, x)
  BY DEF Graph!EdgeBefore
<1>4. \A x, y, z \in E : Graph!EdgeBefore(x, y) /\ Graph!EdgeBefore(y, z) => Graph!EdgeBefore(x, z)
  BY DEF Graph!EdgeBefore
<1>5. \A x, y \in E : x = y \/ Graph!EdgeBefore(x, y) \/ Graph!EdgeBefore(y, x)
  BY DEF Graph!EdgeBefore
<1> QED BY <1>1, <1>2, <1>3, <1>4, <1>5 DEF IsOrder

LEMMA OrderListed ==
  ASSUME NEW S, IsFiniteSet(S), NEW preceding
  PROVE  \E T : OrderOf(S, preceding) \in Seq(T)
<1> DEFINE At(k) == CHOOSE x \in S : Cardinality(preceding[x]) = k - 1
           n == Cardinality(S)
<1>1. n \in Nat
  BY FS_CardinalityType
<1>2. OrderOf(S, preceding) = [k \in 1 .. n |-> At(k)]
  BY DEF OrderOf
<1> HIDE DEF At, n
<1>3. [k \in 1 .. n |-> At(k)] \in Seq({At(k) : k \in 1 .. n})
  BY <1>1
<1> QED BY <1>2, <1>3

(* Whatever edges a graph is assembled from, they are a list.              *)
LEMMA AssembledListed ==
  ASSUME Finished, NEW prior, NEW predictive, IsFiniteSet(predictive)
  PROVE  EdgesListed(Assembled(prior, predictive))
<1> DEFINE E == RefinementEdges \cup predictive
           edges == AssembledEdges(predictive)
<1>1. IsFiniteSet(E)
  BY RefinementsAre, FS_Union
<1> HIDE DEF E
<1>2. \E T : OrderOf(E, EdgeOrder(E)) \in Seq(T)
  BY <1>1, OrderListed
<1>3. edges = OrderOf(E, EdgeOrder(E))
  BY DEF AssembledEdges, E
<1> HIDE DEF edges
<1>4. Assembled(prior, predictive).edges = edges
  BY AssembledIs DEF edges
<1> QED BY <1>2, <1>3, <1>4 DEF EdgesListed

LEMMA PredictiveIsFinite ==
  ASSUME NEW graph, EdgesListed(graph)
  PROVE  IsFiniteSet(ToSet(PredictiveOf(graph)))
<1> DEFINE list == PredictiveOf(graph)
<1>1. PICK at : StatesAt(graph, at)
  BY PredictiveIs
<1>2. DOMAIN list = 1 .. Len(at) /\ Len(at) \in Nat
  BY <1>1 DEF StatesAt
<1>3. IsFiniteSet(DOMAIN list)
  BY <1>2, FS_Interval
<1>4. list = [k \in DOMAIN list |-> list[k]]
  BY DEF PredictiveOf
<1>5. ToSet(list) = {list[k] : k \in DOMAIN list}
  BY DEF ToSet
<1> HIDE DEF list
<1>6. /\ list \in [DOMAIN list -> ToSet(list)]
      /\ \A y \in ToSet(list) : \E k \in DOMAIN list : list[k] = y
  BY <1>4, <1>5
<1>7. IsFiniteSet(ToSet(list))
  BY <1>3, <1>6, ImageIsFinite
<1> QED BY <1>7 DEF list

(* Nothing a caller may hand over has edges that are none.                 *)
LEMMA AlteredListed ==
  ASSUME Finished, NEW graph, EdgesListed(graph), Framed(graph)
  PROVE  \A given \in {graph} \cup Altered(graph) : EdgesListed(given)
<1> DEFINE prior == StatedPrior(graph)
           predictive == ToSet(PredictiveOf(graph))
           Without(e) == predictive \ {e}
           Twin(e) == [e EXCEPT !.reserved = 1]
<1>1. IsFiniteSet(predictive)
  BY PredictiveIsFinite
<1> DEFINE Changed(e) == [e EXCEPT !.score = @ - 1]
           Rescored == {Assembled(prior, Without(e) \cup {Changed(e)}) : e \in predictive}
           Fewer == {Assembled(prior, Without(e)) : e \in predictive}
           More == {Assembled(prior, predictive \cup {Twin(e)}) : e \in predictive}
           Doubled == {Assembled(prior, Without(e) \cup {Twin(f)}) :
                         e \in predictive, f \in predictive}
           Nudged == {Assembled([prior EXCEPT ![1].score = @ + 1], predictive)}
           Reversed == {Assembled(Reverse(prior), predictive)}
           Headed == {[graph EXCEPT !.head.depth_count = 0]}
<1>2. Altered(graph) = Rescored \cup Fewer \cup More \cup Doubled
                         \cup Nudged \cup Reversed \cup Headed
  BY DEF Altered
<1> HIDE DEF predictive, prior, Changed, Twin
<1>3. \A e : IsFiniteSet(Without(e))
  BY <1>1, FS_Subset
<1>4. \A e : IsFiniteSet({e})
  BY FS_Singleton
<1>5. /\ \A e, x : IsFiniteSet(Without(e) \cup {x})
      /\ \A x : IsFiniteSet(predictive \cup {x})
  BY <1>1, <1>3, <1>4, FS_Union
<1> HIDE DEF Without
<1>7. \A p, X : IsFiniteSet(X) => EdgesListed(Assembled(p, X))
  BY AssembledListed
<1>8. EdgesListed([graph EXCEPT !.head.depth_count = 0])
  BY DEF Framed, EdgesListed
<1>9. \A g \in Rescored : EdgesListed(g)
  BY <1>5, <1>7
<1>10. \A g \in Fewer : EdgesListed(g)
  BY <1>3, <1>7
<1>11. \A g \in More : EdgesListed(g)
  BY <1>5, <1>7
<1>12. \A g \in Doubled : EdgesListed(g)
  <2>1. \A e, f \in predictive : EdgesListed(Assembled(prior, Without(e) \cup {Twin(f)}))
    BY <1>5, <1>7
  <2>2. \A g \in Doubled : \E e, f \in predictive :
          g = Assembled(prior, Without(e) \cup {Twin(f)})
    OBVIOUS
  <2> HIDE DEF Doubled
  <2> QED BY <2>1, <2>2
<1>13. \A g \in Nudged \cup Reversed \cup Headed : EdgesListed(g)
  <2> DEFINE raised == [prior EXCEPT ![1].score = @ + 1]
  <2>1. EdgesListed(Assembled(Reverse(prior), predictive))
    BY <1>1, <1>7
  <2>2. EdgesListed(Assembled(raised, predictive))
    <3> HIDE DEF raised
    <3> QED BY <1>1, <1>7
  <2> QED BY <1>8, <2>1, <2>2
<1> HIDE DEF Rescored, Fewer, More, Doubled, Nudged, Reversed, Headed
<1> QED BY <1>2, <1>9, <1>10, <1>11, <1>12, <1>13

-----------------------------------------------------------------------------
(* An export lists its predictive edges once each, and nothing else as     *)
(* predictive.                                                             *)
LEMMA ListsTheExpected ==
  ASSUME Finished, Orphans = {}, NEW prior, NEW ledgers, PairsOf(ledgers)
  PROVE  LET E == PredictiveEdges(ledgers)
             graph == Assembled(prior, E)
         IN  IsInjective(Stated(graph)) /\ ToSet(Stated(graph)) = {EdgeKey(e) : e \in E}
<1> DEFINE E == PredictiveEdges(ledgers)
           graph == Assembled(prior, E)
           S == RefinementEdges \cup E
           edges == graph.edges
           n == Len(edges)
<1>1. /\ OnePerPair(E)
      /\ \A e \in E : e.src \in Nat /\ e.dst \in Nat /\ e.reserved = 0
  BY ExpectedAre
<1>2. /\ IsFiniteSet(E) /\ \A e \in E : e.kind = 2
      /\ \A e, f \in E : e.src = f.src /\ e.dst = f.dst => e = f
  BY <1>1 DEF OnePerPair
<1>3. EdgesListed(graph)
  BY <1>2, AssembledListed
<1>4. edges = OrderOf(S, EdgeOrder(S))
  BY AssembledIs DEF AssembledEdges
<1> HIDE DEF E, graph, edges
<1>5. IsOrder(S, EdgeOrder(S)) /\ IsFiniteSet(S)
  <2>1. \A e \in S : e.src \in Nat /\ e.kind \in Nat /\ e.dst \in Nat /\ e.reserved = 0
    BY <1>1, <1>2, RefinementsAre
  <2>2. \A e, f \in S : e.src = f.src /\ e.kind = f.kind /\ e.dst = f.dst => e = f
    BY <1>2, RefinementsAre
  <2>3. IsFiniteSet(S)
    BY <1>2, RefinementsAre, FS_Union
  <2> HIDE DEF S
  <2> QED BY <2>1, <2>2, <2>3, EdgesAreOrdered
<1>6. \A e \in S : e.kind = 2 => e \in E
  BY RefinementsAre
<1>7. E \subseteq S
  OBVIOUS
<1> HIDE DEF S
<1>8. /\ edges \in Seq(S)
      /\ \A k, l \in 1 .. n : k < l => edges[k] \in EdgeOrder(S)[edges[l]]
      /\ \A x \in S : \E k \in 1 .. n : edges[k] = x
  BY <1>4, <1>5, OrderIs
<1>9. /\ DOMAIN edges = 1 .. n /\ n \in Nat
      /\ \A k \in 1 .. n : edges[k] \in S
  BY <1>8
<1>10. \A k, l \in 1 .. n : edges[k] = edges[l] => k = l
  <2>1. \A k, l \in 1 .. n : k < l => edges[k] # edges[l]
    BY <1>5, <1>8, <1>9 DEF IsOrder
  <2>2. \A k, l \in 1 .. n : k = l \/ k < l \/ l < k
    BY <1>9
  <2> QED BY <2>1, <2>2
<1>11. PICK at : StatesAt(graph, at)
  BY <1>3, PredictiveIs
<1>12. /\ DOMAIN Stated(graph) = 1 .. Len(at) /\ Len(at) \in Nat
       /\ \A k \in 1 .. Len(at) : /\ at[k] \in 1 .. n
                                  /\ Stated(graph)[k] = EdgeKey(edges[at[k]])
                                  /\ edges[at[k]] \in E
  <2>1. /\ at \in Seq(1 .. n) /\ DOMAIN PredictiveOf(graph) = 1 .. Len(at)
        /\ \A k \in 1 .. Len(at) : /\ PredictiveOf(graph)[k] = edges[at[k]]
                                   /\ edges[at[k]].kind = 2
    BY <1>9, <1>11 DEF StatesAt, edges
  <2>2. \A k \in 1 .. Len(at) : at[k] \in 1 .. n
    BY <2>1
  <2>3. \A k \in 1 .. Len(at) : edges[at[k]] \in E
    BY <1>6, <1>9, <2>1, <2>2
  <2>4. Len(at) \in Nat
    BY <2>1
  <2>5. DOMAIN Stated(graph) = 1 .. Len(at)
    BY <2>1 DEF Stated
  <2>6. \A k \in 1 .. Len(at) : Stated(graph)[k] = EdgeKey(edges[at[k]])
    BY <2>1 DEF Stated
  <2> QED BY <2>2, <2>3, <2>4, <2>5, <2>6
<1>13. IsInjective(Stated(graph))
  <2> SUFFICES ASSUME NEW k \in 1 .. Len(at), NEW l \in 1 .. Len(at),
                      Stated(graph)[k] = Stated(graph)[l]
               PROVE  k = l
    BY <1>12 DEF IsInjective
  <2>1. EdgeKey(edges[at[k]]) = EdgeKey(edges[at[l]])
    BY <1>12
  <2>2. /\ edges[at[k]].src = edges[at[l]].src
        /\ edges[at[k]].dst = edges[at[l]].dst
    BY <2>1 DEF EdgeKey
  <2>3. edges[at[k]] = edges[at[l]]
    BY <1>2, <1>12, <2>2
  <2>4. at[k] = at[l]
    BY <1>10, <1>12, <2>3
  <2> QED BY <1>11, <2>4 DEF StatesAt
<1>14. \A e \in E : \E k \in 1 .. Len(at) : Stated(graph)[k] = EdgeKey(e)
  <2> SUFFICES ASSUME NEW e \in E
               PROVE  \E k \in 1 .. Len(at) : Stated(graph)[k] = EdgeKey(e)
    OBVIOUS
  <2>1. PICK p \in 1 .. n : edges[p] = e
    BY <1>7, <1>8
  <2>2. p \in DOMAIN graph.edges /\ graph.edges[p].kind = 2
    BY <1>2, <1>9, <2>1 DEF edges
  <2>3. PICK k \in 1 .. Len(at) : at[k] = p
    BY <1>11, <2>2 DEF StatesAt
  <2> QED BY <1>12, <2>1, <2>3
<1>15. ToSet(Stated(graph)) = {EdgeKey(e) : e \in E}
  <2>1. ToSet(Stated(graph)) = {Stated(graph)[k] : k \in 1 .. Len(at)}
    BY <1>12 DEF ToSet
  <2>2. \A k \in 1 .. Len(at) : \E e \in E : Stated(graph)[k] = EdgeKey(e)
    BY <1>12
  <2> QED BY <1>14, <2>1, <2>2
<1> QED BY <1>13, <1>15 DEF E, graph

(* The container states the prior it was assembled from.                   *)
LEMMA PriorIsStated ==
  ASSUME Finished, NEW T, NEW prior \in Seq(T), NEW predictive
  PROVE  StatedPrior(Assembled(prior, predictive)) = prior
<1> DEFINE graph == Assembled(prior, predictive)
           entries == EmitEntries(prior)
           place == [o \in {16 + 8 * (k - 1) : k \in DOMAIN entries} |->
                       entries[(o - 16) \div 8 + 1]]
<1>1. /\ graph.emit.root_count = Len(prior)
      /\ graph.emit.at = place
  <2>1. graph.emit = EmitSection(prior)
    BY AssembledIs
  <2>2. EmitSection(prior).root_count = Len(prior) /\ EmitSection(prior).at = place
    BY DEF EmitSection
  <2> HIDE DEF graph, place
  <2> QED BY <2>1, <2>2
<1>2. /\ DOMAIN entries = 1 .. Len(entries) /\ Len(entries) \in Nat
      /\ Len(prior) \in Nat /\ Len(prior) <= Len(entries)
      /\ \A k \in 1 .. Len(prior) : entries[k] = prior[k]
  BY EmittedEntries
<1> HIDE DEF graph, entries
<1>3. \A k \in 1 .. Len(prior) : place[16 + 8 * (k - 1)] = prior[k]
  <2> SUFFICES ASSUME NEW k \in 1 .. Len(prior) PROVE place[16 + 8 * (k - 1)] = prior[k]
    OBVIOUS
  <2>1. k \in DOMAIN entries
    BY <1>2
  <2>2. ((16 + 8 * (k - 1)) - 16) \div 8 + 1 = k
    BY <1>2
  <2>3. place[16 + 8 * (k - 1)] = entries[((16 + 8 * (k - 1)) - 16) \div 8 + 1]
    BY <2>1
  <2> QED BY <1>2, <2>2, <2>3
<1> HIDE DEF place
<1>4. StatedPrior(graph) = [k \in 1 .. Len(prior) |-> place[16 + 8 * (k - 1)]]
  BY <1>1 DEF StatedPrior
<1>5. prior = [k \in 1 .. Len(prior) |-> prior[k]]
  OBVIOUS
<1>6. StatedPrior(graph) = prior
  BY <1>3, <1>4, <1>5
<1> QED BY <1>6 DEF graph

(* What the replay reports of a graph it does not refuse.                  *)
LEMMA ReplayCounts ==
  ASSUME NEW graph
  PROVE  LET E == PredictiveEdges(Ledgers(StatedPrior(graph)))
         IN  /\ Replayed(graph).error = "none" <=>
                  Graph!GraphAccepted(graph) /\ PriorAccepted(StatedPrior(graph))
             /\ Replayed(graph).error = "none" =>
                  (Complete(Replayed(graph)) <=>
                     /\ Cardinality(E) = Len(PredictiveOf(graph))
                     /\ Cardinality(E) = Cardinality(Matched(graph, E))
                     /\ Cardinality(E) = Cardinality(Agreeing(graph, E)))
<1> DEFINE E == PredictiveEdges(Ledgers(StatedPrior(graph)))
<1>1. Replayed(graph) =
        IF ~ Graph!GraphAccepted(graph) THEN [error |-> "Structural"]
        ELSE IF ~ PriorAccepted(StatedPrior(graph)) THEN [error |-> "InvalidRootPrior"]
        ELSE [error |-> "none", expected |-> Cardinality(E),
              emitted |-> Len(PredictiveOf(graph)), matched |-> Cardinality(Matched(graph, E)),
              score_matches |-> Cardinality(Agreeing(graph, E))]
  BY DEF Replayed, Matched, Agreeing
<1> HIDE DEF E
<1>2. /\ Replayed(graph).error = "none" <=>
                  Graph!GraphAccepted(graph) /\ PriorAccepted(StatedPrior(graph))
      /\ Replayed(graph).error = "none" =>
                  (Complete(Replayed(graph)) <=>
                     /\ Cardinality(E) = Len(PredictiveOf(graph))
                     /\ Cardinality(E) = Cardinality(Matched(graph, E))
                     /\ Cardinality(E) = Cardinality(Agreeing(graph, E)))
  BY <1>1 DEF Complete
<1> QED BY <1>2 DEF E

(* What was exported replays completely.                                   *)
LEMMA ExportReplays ==
  ASSUME Finished, Exported.graph # NoGraph
  PROVE  /\ EdgesListed(Exported.graph) /\ Framed(Exported.graph)
         /\ Replayed(Exported.graph).error = "none" /\ Complete(Replayed(Exported.graph))
<1> DEFINE E == PredictiveEdges(Ledgers(RootPrior))
           graph == Assembled(RootPrior, E)
<1>1. Exported.graph = graph /\ Orphans = {} /\ Graph!GraphAccepted(graph)
  BY DEF Exported, Refused, ContainerAccepted
<1>2. PairsOf(Ledgers(RootPrior)) /\ PriorAccepted(RootPrior)
  BY LedgersAre, PriorIs
<1>3. OnePerPair(E)
  BY <1>2, ExpectedAre
<1>4. EdgesListed(graph) /\ Framed(graph)
  BY <1>3, AssembledListed, AssembledIs DEF OnePerPair
<1>5. StatedPrior(graph) = RootPrior
  BY PriorIs, PriorIsStated
<1>6. IsInjective(Stated(graph)) /\ ToSet(Stated(graph)) = {EdgeKey(e) : e \in E}
  BY <1>1, <1>2, ListsTheExpected
<1>7. PredictiveEdges(Ledgers(StatedPrior(graph))) = E
  BY <1>5
<1> HIDE DEF graph, E
<1>8. /\ Cardinality(E) = Len(PredictiveOf(graph))
      /\ Cardinality(E) = Cardinality(Matched(graph, E))
      /\ Cardinality(E) = Cardinality(Agreeing(graph, E))
  BY <1>3, <1>4, <1>6, CountsDecide
<1>9. Replayed(graph).error = "none" /\ Complete(Replayed(graph))
  BY <1>1, <1>2, <1>5, <1>7, <1>8, ReplayCounts
<1> QED BY <1>1, <1>4, <1>9

-----------------------------------------------------------------------------
(* The export and the replay as they proceed.                              *)
Replaying ==
  /\ exported.graph # NoGraph =>
       /\ phase = "done"
       /\ EdgesListed(exported.graph) /\ Framed(exported.graph)
       /\ Replayed(exported.graph).error = "none" /\ Complete(Replayed(exported.graph))
  /\ replayed # NoGraph =>
       phase = "done" /\ EdgesListed(replayed) /\ report = Replayed(replayed)

LEMMA ExportSteps ==
  ASSUME [PipelineNext]_pipelineVars
  PROVE  \/ UNCHANGED exportVars /\ (phase = "done" => UNCHANGED vars)
         \/ ExportNext /\ UNCHANGED vars
<1>1. CASE UNCHANGED pipelineVars
  BY <1>1 DEF pipelineVars
<1>2. CASE Next /\ UNCHANGED <<exportVars, parityVars>>
  BY <1>2, CompilerEnds
<1>3. CASE ExportNext
  BY <1>3 DEF ExportNext, ExportR4G1, Replay, ReplayR4G1
<1>4. CASE ParityNext /\ UNCHANGED exportVars
  BY <1>4 DEF ParityNext, BeginEvaluation, MeasureOne, Judge
<1> QED BY <1>1, <1>2, <1>3, <1>4 DEF PipelineNext

LEMMA ReplayingStep ==
  IInv /\ Placed /\ WrittenIsReadBack /\ Replaying /\ [PipelineNext]_pipelineVars => Replaying'
<1> SUFFICES ASSUME IInv, Placed, WrittenIsReadBack, Replaying, [PipelineNext]_pipelineVars
             PROVE  Replaying'
  OBVIOUS
<1>1. UNCHANGED vars => /\ \A graph : Replayed(graph)' = Replayed(graph)
                        /\ phase' = phase
  BY ReplayKept DEF vars
<1>2. CASE UNCHANGED exportVars /\ (phase = "done" => UNCHANGED vars)
  <2>1. exported' = exported /\ replayed' = replayed /\ report' = report
    BY <1>2 DEF exportVars
  <2>2. phase = "done" => Replaying'
    BY <1>1, <1>2, <2>1 DEF Replaying, EdgesListed, Framed, Complete
  <2>3. phase # "done" => Replaying'
    BY <2>1 DEF Replaying
  <2> QED BY <2>2, <2>3
<1>3. CASE UNCHANGED vars /\ ExportR4G1
  <2>1. Finished /\ phase' = "done"
    BY <1>1, <1>3 DEF ExportR4G1, Finished
  <2>2. exported' = Exported /\ replayed' = replayed /\ report' = report
    BY <1>3 DEF ExportR4G1
  <2>3. exported'.graph # NoGraph =>
          /\ EdgesListed(exported'.graph) /\ Framed(exported'.graph)
          /\ Replayed(exported'.graph).error = "none" /\ Complete(Replayed(exported'.graph))
    BY <2>1, <2>2, ExportReplays
  <2> QED BY <1>1, <1>3, <2>1, <2>2, <2>3 DEF Replaying, EdgesListed, Framed, Complete, NoGraph
<1>4. CASE UNCHANGED vars /\ Replay
  <2>1. PICK graph \in {exported.graph} \cup Altered(exported.graph) : ReplayR4G1(graph)
    BY <1>4 DEF Replay
  <2>2. exported.graph # NoGraph
    BY <1>4 DEF Replay
  <2>3. Finished /\ phase' = "done"
    BY <1>1, <1>4, <2>2 DEF Replaying, Finished
  <2>4. EdgesListed(graph)
    BY <2>2, <2>3, AlteredListed DEF Replaying
  <2>5. exported' = exported /\ replayed' = graph /\ report' = Replayed(graph)
    BY <2>1 DEF ReplayR4G1
  <2> QED BY <1>1, <1>4, <2>3, <2>4, <2>5 DEF Replaying, EdgesListed, Framed, Complete, NoGraph
<1> QED BY <1>2, <1>3, <1>4, ExportSteps DEF ExportNext

-----------------------------------------------------------------------------
(* Whoever assembled the graph, its replay is complete exactly when the    *)
(* predictive edges the graph states are those of the artifact under the   *)
(* prior it states, one for one and with their scores; and an export is    *)
(* always replayed completely.  The counts that is_complete compares say   *)
(* that much because no two expected edges join the same two nodes: as     *)
(* many edges as expected, each of them found, leave no room for another   *)
(* (replay_r4g1, r4g1_export.rs:182).                                      *)
THEOREM ReplayDecidesAll == PipelineSpec => []ReplayDecides
<1>1. PipelineInit => Replaying
  BY DEF PipelineInit, InitExport, Replaying, Refused
<1>2. ASSUME IInv, Placed, WrittenIsReadBack, Replaying
      PROVE  ReplayDecides
  <2> DEFINE E == PredictiveEdges(Ledgers(StatedPrior(replayed)))
  <2> SUFFICES ASSUME replayed # NoGraph
               PROVE  /\ report.error = "none" =>
                           (Complete(report) <=> /\ IsInjective(Stated(replayed))
                                                 /\ ToSet(Stated(replayed)) = {EdgeKey(e) : e \in E})
                      /\ replayed = exported.graph => report.error = "none" /\ Complete(report)
    BY DEF ReplayDecides, Stated, EdgeKey
  <2>1. Finished /\ EdgesListed(replayed) /\ report = Replayed(replayed)
    BY <1>2 DEF Replaying, Finished
  <2>2. OnePerPair(E)
    BY <2>1, LedgersAre, ExpectedAre
  <2>3. /\ Cardinality(E) = Len(PredictiveOf(replayed))
        /\ Cardinality(E) = Cardinality(Matched(replayed, E))
        /\ Cardinality(E) = Cardinality(Agreeing(replayed, E))
        <=> /\ IsInjective(Stated(replayed))
            /\ ToSet(Stated(replayed)) = {EdgeKey(e) : e \in E}
    <3> HIDE DEF E
    <3> QED BY <2>1, <2>2, CountsDecide
  <2>4. Replayed(replayed).error = "none" =>
          (Complete(Replayed(replayed)) <=>
             /\ Cardinality(E) = Len(PredictiveOf(replayed))
             /\ Cardinality(E) = Cardinality(Matched(replayed, E))
             /\ Cardinality(E) = Cardinality(Agreeing(replayed, E)))
    BY ReplayCounts
  <2> HIDE DEF E
  <2>5. replayed = exported.graph => report.error = "none" /\ Complete(report)
    BY <1>2, <2>1 DEF Replaying
  <2> QED BY <2>1, <2>3, <2>4, <2>5
<1> QED BY <1>1, <1>2, ReplayingStep, PipelineInvs, PTL DEF PipelineSpec

-----------------------------------------------------------------------------
(* The windows of a section: of each list of codes, one for the root and   *)
(* one for each code, of two words, the second of them padding.            *)
Windowed(codes) == FlattenSeq(<<Stored({})>> \o [c \in DOMAIN codes |-> Stored(codes[c])])

Prototypes == [c \in DOMAIN Regions |-> Regions[c].prototype]
Masks == [c \in DOMAIN Regions |-> Regions[c].mask]
RootWords == [w \in 1 .. Len(Regions) + 1 |-> {}]

LEMMA RoutIs ==
  /\ RoutSection.ops = <<[op |-> "Leaf", start |-> 0, len |-> 4 * Len(Regions)], [op |-> "Halt"]>>
  /\ RoutSection.id_at = [o \in {4 * (k - 1) : k \in 1 .. Len(Regions)} |-> o \div 4 + 1]
  /\ RoutSection.words = RootWords \o Windowed(Prototypes) \o Windowed(Masks)
BY DEF RoutSection, Windowed, Prototypes, Masks, RootWords

LEMMA JoinOfTwo ==
  ASSUME NEW S, NEW a \in Seq(S), NEW b \in Seq(S)
  PROVE  /\ a \o b \in Seq(S) /\ Len(a \o b) = Len(a) + Len(b)
         /\ Len(a) \in Nat /\ Len(b) \in Nat
         /\ \A i \in 1 .. Len(a) : (a \o b)[i] = a[i]
         /\ \A i \in 1 .. Len(b) : (a \o b)[Len(a) + i] = b[i]
<1>1. /\ a \o b \in Seq(S) /\ Len(a \o b) = Len(a) + Len(b)
      /\ Len(a) \in Nat /\ Len(b) \in Nat
      /\ \A i \in 1 .. Len(a) : (a \o b)[i] = a[i]
  OBVIOUS
<1>2. \A i \in 1 .. Len(b) : (a \o b)[Len(a) + i] = b[i]
  OBVIOUS
<1> QED BY <1>1, <1>2

(* Lists of two are found at the even places of their concatenation.       *)
LEMMA PairsAreFound ==
  ASSUME NEW S, NEW lists \in Seq(Seq(S)), \A n \in 1 .. Len(lists) : Len(lists[n]) = 2
  PROVE  /\ FlattenSeq(lists) \in Seq(S) /\ Len(FlattenSeq(lists)) = 2 * Len(lists)
         /\ \A n \in 1 .. Len(lists) : \A w \in 1 .. 2 :
              FlattenSeq(lists)[2 * (n - 1) + w] = lists[n][w]
<1> DEFINE size == Len(lists)
           all == FlattenSeq(lists)
           Wrong == {n \in 0 .. size : Len(Joined(lists, n)) # 2 * n}
<1>1. size \in Nat
  OBVIOUS
<1>2. Wrong = {}
  <2> SUFFICES ASSUME Wrong # {} PROVE FALSE
    OBVIOUS
  <2>1. PICK n \in Wrong : \A k \in Wrong : n <= k
    <3>1. Wrong \in SUBSET Nat
      BY <1>1
    <3> HIDE DEF Wrong
    <3> QED BY <3>1, Numbers!NatHasMin
  <2>2. n # 0
    <3>1. Joined(lists, 0) = << >> /\ Len(<< >>) = 0
      BY JoinedNext
    <3>2. Len(Joined(lists, 0)) = 2 * 0
      BY <3>1
    <3> QED BY <2>1, <3>2
  <2>3. n \in 1 .. size /\ n - 1 \in 0 .. size /\ n - 1 < n
    BY <1>1, <2>1, <2>2
  <2>4. Len(Joined(lists, n - 1)) = 2 * (n - 1)
    BY <2>1, <2>3
  <2>5. Len(Joined(lists, n - 1)) + Len(lists[n]) = Len(Joined(lists, n))
    BY <2>3, ListIsFound
  <2>6. Len(lists[n]) = 2
    BY <2>3
  <2> DEFINE x == Len(Joined(lists, n))
             y == Len(Joined(lists, n - 1))
             z == Len(lists[n])
  <2>7. n \in Nat
    BY <1>1, <2>3
  <2>8. x = 2 * n
    <3>1. y = 2 * (n - 1) /\ z = 2 /\ y + z = x
      BY <2>4, <2>5, <2>6
    <3> HIDE DEF x, y, z
    <3> QED BY <2>7, <3>1
  <2> QED BY <2>1, <2>8
<1>3. \A n \in 0 .. size : Len(Joined(lists, n)) = 2 * n
  BY <1>2
<1> HIDE DEF Wrong
<1>4. all \in Seq(S) /\ Len(all) = 2 * size
  <2>1. all = Joined(lists, size)
    BY JoinedNext
  <2>2. Len(all) = 2 * size
    BY <1>1, <1>3, <2>1
  <2> QED BY <2>2, FlattenIsList
<1> HIDE DEF all
<1>5. ASSUME NEW n \in 1 .. size, NEW w \in 1 .. 2
      PROVE  all[2 * (n - 1) + w] = lists[n][w]
  <2> DEFINE start == 2 * (n - 1)
             part == SubSeq(all, start + 1, start + 2)
  <2>1. Len(Joined(lists, n - 1)) = start /\ Len(lists[n]) = 2
    BY <1>1, <1>3
  <2>2. part = lists[n]
    BY <2>1, ListIsFound DEF all
  <2>3. start \in Nat /\ start + 2 <= Len(all) /\ start + 1 >= 1
    BY <1>1, <1>4
  <2> HIDE DEF start
  <2>4. part[w] = all[start + w]
    BY <1>4, <2>3
  <2> QED BY <2>2, <2>4 DEF start
<1> QED BY <1>4, <1>5 DEF all

LEMMA WindowsAre ==
  ASSUME NEW codes \in Seq(Code)
  PROVE  /\ Windowed(codes) \in Seq(Code) /\ Len(Windowed(codes)) = 2 * (Len(codes) + 1)
         /\ \A c \in 1 .. Len(codes) :
              Windowed(codes)[2 * c + 1] = codes[c] /\ Windowed(codes)[2 * c + 2] = {}
<1> DEFINE root == Stored({})
           rest == [c \in DOMAIN codes |-> Stored(codes[c])]
           lists == <<root>> \o rest
           n == Len(codes)
<1>1. \A code \in Code : /\ Stored(code) \in Seq(Code) /\ Len(Stored(code)) = 2
                         /\ Stored(code)[1] = code /\ Stored(code)[2] = {}
  BY DEF Stored, Code
<1>2. n \in Nat /\ DOMAIN codes = 1 .. n /\ \A c \in 1 .. n : codes[c] \in Code
  OBVIOUS
<1>3. root \in Seq(Code) /\ Len(root) = 2
  BY <1>1 DEF Code
<1>4. /\ rest \in Seq(Seq(Code)) /\ Len(rest) = n
      /\ \A c \in 1 .. n : rest[c] = Stored(codes[c])
  BY <1>1, <1>2
<1> HIDE DEF root, rest
<1>5. /\ lists \in Seq(Seq(Code)) /\ Len(lists) = n + 1 /\ lists[1] = root
      /\ \A c \in 1 .. n : lists[c + 1] = rest[c]
  BY <1>2, <1>3, <1>4
<1>6. Windowed(codes) = FlattenSeq(lists)
  BY DEF Windowed, root, rest
<1> HIDE DEF lists
<1>7. \A k \in 1 .. Len(lists) : Len(lists[k]) = 2
  <2> SUFFICES ASSUME NEW k \in 1 .. Len(lists) PROVE Len(lists[k]) = 2
    OBVIOUS
  <2>1. k = 1 \/ (k - 1 \in 1 .. n /\ (k - 1) + 1 = k)
    BY <1>2, <1>5
  <2>2. k # 1 => lists[k] = Stored(codes[k - 1]) /\ codes[k - 1] \in Code
    BY <1>2, <1>4, <1>5, <2>1
  <2> QED BY <1>1, <1>3, <1>5, <2>2
<1>8. /\ FlattenSeq(lists) \in Seq(Code) /\ Len(FlattenSeq(lists)) = 2 * Len(lists)
      /\ \A k \in 1 .. Len(lists) : \A w \in 1 .. 2 :
           FlattenSeq(lists)[2 * (k - 1) + w] = lists[k][w]
  BY <1>5, <1>7, PairsAreFound
<1>9. ASSUME NEW c \in 1 .. n
      PROVE  /\ FlattenSeq(lists)[2 * c + 1] = codes[c]
             /\ FlattenSeq(lists)[2 * c + 2] = {}
  <2>1. c + 1 \in 1 .. Len(lists) /\ 2 * ((c + 1) - 1) = 2 * c /\ 1 \in 1 .. 2 /\ 2 \in 1 .. 2
    BY <1>2, <1>5
  <2>2. /\ FlattenSeq(lists)[2 * c + 1] = lists[c + 1][1]
        /\ FlattenSeq(lists)[2 * c + 2] = lists[c + 1][2]
    BY <1>8, <2>1
  <2>3. lists[c + 1] = Stored(codes[c])
    BY <1>4, <1>5
  <2> QED BY <1>1, <1>2, <2>2, <2>3
<1> QED BY <1>2, <1>5, <1>6, <1>8, <1>9

(* The words of the section, at the places the nodes give.                 *)
LEMMA WordsAre ==
  ASSUME Finished, NEW c \in DOMAIN Regions
  PROVE  LET base == 1 + Len(Regions)
             own == base + SignatureWords * c
             mask == base + SignatureWords * (Len(Regions) + 1 + c)
         IN  /\ RoutSection.words[own + 1] = Regions[c].prototype
             /\ RoutSection.words[mask + 1] = Regions[c].mask
             /\ RoutSection.words[mask + 2] = {}
<1> DEFINE n == Len(Regions)
           a == RootWords
           b == Windowed(Prototypes)
           d == Windowed(Masks)
<1>1. /\ n \in Nat /\ DOMAIN Regions = 1 .. n /\ c \in 1 .. n
      /\ \A k \in 1 .. n : Regions[k].prototype \in Code /\ Regions[k].mask \in Code
  BY RegionsAre DEF CompiledRegion
<1>2. /\ Prototypes \in Seq(Code) /\ Len(Prototypes) = n
      /\ Masks \in Seq(Code) /\ Len(Masks) = n
      /\ Prototypes[c] = Regions[c].prototype /\ Masks[c] = Regions[c].mask
  BY <1>1 DEF Prototypes, Masks
<1>3. a \in Seq(Code) /\ Len(a) = n + 1
  BY <1>1 DEF RootWords, Code
<1>4. /\ b \in Seq(Code) /\ Len(b) = 2 * (n + 1) /\ b[2 * c + 1] = Regions[c].prototype
  BY <1>1, <1>2, WindowsAre
<1>5. /\ d \in Seq(Code) /\ Len(d) = 2 * (n + 1) /\ d[2 * c + 1] = Regions[c].mask
      /\ d[2 * c + 2] = {}
  BY <1>1, <1>2, WindowsAre
<1>6. RoutSection.words = a \o b \o d
  BY RoutIs
<1> HIDE DEF a, b, d
<1> DEFINE ab == a \o b
           words == ab \o d
<1>7. /\ ab \in Seq(Code) /\ Len(ab) = 3 * (n + 1)
      /\ \A i \in 1 .. Len(b) : ab[(n + 1) + i] = b[i]
  <2>1. /\ ab \in Seq(Code) /\ Len(ab) = Len(a) + Len(b)
        /\ \A i \in 1 .. Len(b) : ab[Len(a) + i] = b[i]
    <3>1. a \in Seq(Code) /\ b \in Seq(Code)
      BY <1>3, <1>4
    <3> QED BY <3>1, JoinOfTwo
  <2> HIDE DEF ab
  <2> QED BY <1>1, <1>3, <1>4, <2>1
<1> HIDE DEF ab
<1>8. /\ \A i \in 1 .. 3 * (n + 1) : words[i] = ab[i]
      /\ \A i \in 1 .. 2 * (n + 1) : words[3 * (n + 1) + i] = d[i]
  <2>1. /\ \A i \in 1 .. Len(ab) : words[i] = ab[i]
        /\ \A i \in 1 .. Len(d) : words[Len(ab) + i] = d[i]
    <3>1. ab \in Seq(Code) /\ d \in Seq(Code)
      BY <1>5, <1>7
    <3> QED BY <3>1, JoinOfTwo
  <2> HIDE DEF words
  <2> QED BY <1>5, <1>7, <2>1
<1>9. RoutSection.words = words
  BY <1>6 DEF ab
<1> HIDE DEF words
<1>10. /\ words[1 + n + 2 * c + 1] = b[2 * c + 1]
       /\ words[1 + n + 2 * (n + 1 + c) + 1] = d[2 * c + 1]
       /\ words[1 + n + 2 * (n + 1 + c) + 2] = d[2 * c + 2]
  <2>1. /\ 1 + n + 2 * c + 1 = (n + 1) + (2 * c + 1)
        /\ 1 + n + 2 * (n + 1 + c) + 1 = 3 * (n + 1) + (2 * c + 1)
        /\ 1 + n + 2 * (n + 1 + c) + 2 = 3 * (n + 1) + (2 * c + 2)
        /\ (n + 1) + (2 * c + 1) \in 1 .. 3 * (n + 1)
        /\ 2 * c + 1 \in 1 .. 2 * (n + 1) /\ 2 * c + 2 \in 1 .. 2 * (n + 1)
    BY <1>1
  <2>2. ab[(n + 1) + (2 * c + 1)] = b[2 * c + 1]
    BY <1>4, <1>7, <2>1
  <2> QED BY <1>8, <2>1, <2>2
<1>11. /\ RoutSection.words[1 + n + 2 * c + 1] = Regions[c].prototype
       /\ RoutSection.words[1 + n + 2 * (n + 1 + c) + 1] = Regions[c].mask
       /\ RoutSection.words[1 + n + 2 * (n + 1 + c) + 2] = {}
  BY <1>4, <1>5, <1>9, <1>10
<1> QED BY <1>11 DEF SignatureWords

-----------------------------------------------------------------------------
(* What routing reads of an exported graph: its section of operations and  *)
(* words, and of each node behind the root its windows and its radius.     *)
Routable(graph) ==
  LET base == 1 + Len(Regions)
  IN  /\ graph.rout = RoutSection
      /\ \A c \in DOMAIN Regions :
           /\ graph.nodes[c + 1].prototype_word_start = base + SignatureWords * c
           /\ graph.nodes[c + 1].mask_word_start = base + SignatureWords * (Len(Regions) + 1 + c)
           /\ graph.nodes[c + 1].radius = Regions[c].radius

LEMMA AssembledRoutes ==
  ASSUME Finished, NEW prior, NEW predictive
  PROVE  Routable(Assembled(prior, predictive))
<1> DEFINE graph == Assembled(prior, predictive)
           edges == graph.edges
           reverse == graph.reverse
           base == 1 + Len(Regions)
<1>1. /\ graph.rout = RoutSection
      /\ graph.nodes = [n \in 1 .. Len(Regions) + 1 |-> NodeRecord(n - 1, edges, reverse, prior)]
  BY DEF Assembled
<1> HIDE DEF graph, edges, reverse
<1>2. ASSUME NEW c \in DOMAIN Regions
      PROVE  /\ graph.nodes[c + 1].prototype_word_start = base + SignatureWords * c
             /\ graph.nodes[c + 1].mask_word_start = base + SignatureWords * (Len(Regions) + 1 + c)
             /\ graph.nodes[c + 1].radius = Regions[c].radius
  <2>1. c + 1 \in 1 .. Len(Regions) + 1 /\ (c + 1) - 1 = c /\ c # 0
    BY RegionsAre
  <2>2. graph.nodes[c + 1] = NodeRecord(c, edges, reverse, prior)
    BY <1>1, <2>1
  <2>3. /\ NodeRecord(c, edges, reverse, prior).prototype_word_start = base + SignatureWords * c
        /\ NodeRecord(c, edges, reverse, prior).mask_word_start
             = base + SignatureWords * (Len(Regions) + 1 + c)
        /\ NodeRecord(c, edges, reverse, prior).radius = Regions[c].radius
    BY <2>1 DEF NodeRecord
  <2> HIDE DEF base
  <2> QED BY <2>2, <2>3
<1> QED BY <1>1, <1>2 DEF Routable, graph

(* The program is one leaf, which chooses the whole shortlist.             *)
RangeFrom(f, g, s, p) ==
  IF p > Len(g.rout.ops) THEN <<0, g.rout.table_bytes>>
  ELSE CASE g.rout.ops[p].op = "JmpFwd" -> f[p + 1 + g.rout.ops[p].delta]
         [] g.rout.ops[p].op = "Halt"   -> <<0, g.rout.table_bytes>>
         [] g.rout.ops[p].op = "Leaf"   ->
              <<g.rout.ops[p].start, g.rout.ops[p].start + g.rout.ops[p].len>>
         [] g.rout.ops[p].op = "TestPopcountLe" ->
              IF Cardinality(s[g.rout.ops[p].word + 1] \cap g.rout.ops[p].mask)
                   > g.rout.ops[p].threshold
              THEN f[p + 2] ELSE f[p + 1]

IsRanges(f, g, s) == f = [p \in 1 .. Len(g.rout.ops) + 1 |-> RangeFrom(f, g, s, p)]

LEMMA RangesAre ==
  ASSUME NEW g, NEW s
  PROVE  Graph!Chosen(g, s) = (CHOOSE f : IsRanges(f, g, s))[1]
BY DEF Graph!Chosen, IsRanges, RangeFrom

LEMMA LeafIsChosen ==
  ASSUME NEW g, NEW s, NEW start \in Nat, NEW len \in Nat,
         g.rout.ops = <<[op |-> "Leaf", start |-> start, len |-> len], [op |-> "Halt"]>>
  PROVE  Graph!Chosen(g, s) = <<start, start + len>>
<1> DEFINE whole == <<0, g.rout.table_bytes>>
           range == <<start, start + len>>
           ranges == [p \in 1 .. 3 |-> IF p = 1 THEN range ELSE whole]
           some == CHOOSE f : IsRanges(f, g, s)
<1>1. /\ Len(g.rout.ops) = 2
      /\ g.rout.ops[1].op = "Leaf" /\ g.rout.ops[1].start = start /\ g.rout.ops[1].len = len
      /\ g.rout.ops[2].op = "Halt"
  OBVIOUS
<1>2. \A f : /\ RangeFrom(f, g, s, 1) = range
             /\ RangeFrom(f, g, s, 2) = whole /\ RangeFrom(f, g, s, 3) = whole
  BY <1>1 DEF RangeFrom
<1> HIDE DEF range, whole
<1>3. IsRanges(ranges, g, s)
  <2>1. \A p \in 1 .. 3 : ranges[p] = RangeFrom(ranges, g, s, p)
    <3>1. \A p \in 1 .. 3 : p = 1 \/ p = 2 \/ p = 3
      OBVIOUS
    <3>2. ranges[1] = range /\ ranges[2] = whole /\ ranges[3] = whole
      OBVIOUS
    <3> HIDE DEF ranges
    <3> QED BY <1>2, <3>1, <3>2
  <2>2. ranges = [p \in 1 .. 3 |-> ranges[p]]
    OBVIOUS
  <2> HIDE DEF ranges
  <2>3. ranges = [p \in 1 .. 3 |-> RangeFrom(ranges, g, s, p)]
    BY <2>1, <2>2
  <2>4. 1 .. Len(g.rout.ops) + 1 = 1 .. 3
    BY <1>1
  <2> QED BY <2>3, <2>4 DEF IsRanges
<1>4. IsRanges(some, g, s)
  <2> HIDE DEF ranges
  <2> QED BY <1>3
<1> HIDE DEF some
<1>5. some[1] = RangeFrom(some, g, s, 1)
  <2>1. some = [p \in 1 .. Len(g.rout.ops) + 1 |-> RangeFrom(some, g, s, p)]
    BY <1>4 DEF IsRanges
  <2>2. 1 \in 1 .. Len(g.rout.ops) + 1
    BY <1>1
  <2> QED BY <2>1, <2>2
<1>6. Graph!Chosen(g, s) = some[1]
  BY RangesAre DEF some
<1> QED BY <1>2, <1>5, <1>6 DEF range

(* The shortlist is that of all regions.                                   *)
LEMMA AllAreListed ==
  ASSUME Finished, NEW graph, Routable(graph), NEW s
  PROVE  Graph!Listed(graph, Graph!Chosen(graph, s)) = [c \in DOMAIN Regions |-> c]
<1> DEFINE n == Len(Regions)
           ids == [o \in {4 * (k - 1) : k \in 1 .. n} |-> o \div 4 + 1]
           range == Graph!Chosen(graph, s)
<1>1. n \in Nat /\ DOMAIN Regions = 1 .. n
  BY RegionsAre
<1>2. /\ graph.rout.ops = <<[op |-> "Leaf", start |-> 0, len |-> 4 * n], [op |-> "Halt"]>>
      /\ graph.rout.id_at = ids
  BY RoutIs DEF Routable
<1>3. range = <<0, 0 + 4 * n>>
  <2>1. 0 \in Nat /\ 4 * n \in Nat
    BY <1>1
  <2> HIDE DEF ids
  <2> QED BY <1>2, <2>1, LeafIsChosen
<1>4. range[1] = 0 /\ range[2] = 4 * n
  BY <1>1, <1>3
<1>5. Graph!Listed(graph, range)
        = [k \in 1 .. (range[2] - range[1]) \div 4 |-> graph.rout.id_at[range[1] + 4 * (k - 1)]]
  BY DEF Graph!Listed
<1> HIDE DEF range
<1>6. (4 * n - 0) \div 4 = n
  <2> HIDE DEF n, ids
  <2> QED BY <1>1
<1>7. \A k \in 1 .. n : ids[0 + 4 * (k - 1)] = k
  <2> SUFFICES ASSUME NEW k \in 1 .. n PROVE ids[0 + 4 * (k - 1)] = k
    OBVIOUS
  <2>1. 0 + 4 * (k - 1) = 4 * (k - 1) /\ (4 * (k - 1)) \div 4 + 1 = k
    BY <1>1
  <2>2. ids[4 * (k - 1)] = (4 * (k - 1)) \div 4 + 1
    OBVIOUS
  <2> HIDE DEF ids
  <2> QED BY <2>1, <2>2
<1> HIDE DEF ids
<1>8. Graph!Listed(graph, range) = [k \in 1 .. n |-> ids[0 + 4 * (k - 1)]]
  BY <1>2, <1>4, <1>5, <1>6
<1>9. Graph!Listed(graph, range) = [k \in 1 .. n |-> k]
  BY <1>7, <1>8
<1> QED BY <1>1, <1>9 DEF range

(* The places of a signature at which it differs from the windows of a     *)
(* node, as pairs of a word and a bit.                                     *)
DiffersAt(graph, node, s, w, b) ==
  /\ b \in graph.rout.words[node.mask_word_start + w]
  /\ (b \in s[w]) # (b \in graph.rout.words[node.prototype_word_start + w])

PlacesApart(graph, node, s) ==
  UNION {{<<w, b>> : b \in {x \in Bits : DiffersAt(graph, node, s, w, x)}} : w \in 1 .. Len(s)}

LEMMA DistanceIs ==
  ASSUME NEW graph, NEW node, NEW s
  PROVE  Graph!NodeDistance(graph, node, s) = Cardinality(PlacesApart(graph, node, s))
<1>1. \A S : Graph!Cardinality(S) = Cardinality(S)
  BY DEF Graph!Cardinality, Cardinality
<1>2. Graph!NodeDistance(graph, node, s) = Graph!Cardinality(PlacesApart(graph, node, s))
  BY DEF Graph!NodeDistance, PlacesApart, DiffersAt
<1> QED BY <1>1, <1>2

(* A node is as far from a context as its region.                          *)
LEMMA NodeIsAsFar ==
  ASSUME Finished, NEW graph, Routable(graph), NEW code \in Code, NEW c \in DOMAIN Regions
  PROVE  Graph!NodeAccepts(graph, graph.nodes[c + 1], Padded(code)) <=> Covers(Regions[c], code)
<1> DEFINE node == graph.nodes[c + 1]
           words == graph.rout.words
           region == Regions[c]
           s == Padded(code)
           Differs(w, b) == DiffersAt(graph, node, s, w, b)
           Places(w) == {<<w, b>> : b \in {x \in Bits : Differs(w, x)}}
           placed == PlacesApart(graph, node, s)
           apart == ((code \ region.prototype) \cup (region.prototype \ code)) \cap region.mask
<1>1. /\ words[node.prototype_word_start + 1] = region.prototype
      /\ words[node.mask_word_start + 1] = region.mask
      /\ words[node.mask_word_start + 2] = {}
      /\ node.radius = region.radius
  BY WordsAre DEF Routable
<1>2. region.prototype \in SUBSET Bits /\ region.mask \in SUBSET Bits /\ code \in SUBSET Bits
  BY RegionsAre DEF CompiledRegion, Code
<1>3. Len(s) = 2 /\ s[1] = code
  BY DEF Padded
<1>4. Graph!NodeDistance(graph, node, s) = Cardinality(placed)
  BY DistanceIs
<1>5. placed = UNION {Places(w) : w \in 1 .. Len(s)}
  BY DEF PlacesApart
<1>15. \A w, b : Differs(w, b) <=>
         /\ b \in words[node.mask_word_start + w]
         /\ (b \in s[w]) # (b \in words[node.prototype_word_start + w])
  BY DEF DiffersAt
<1> HIDE DEF node, words, region, s, placed, Differs
<1>16. \A b \in Bits : Differs(1, b) <=> b \in apart
  BY <1>1, <1>2, <1>3, <1>15
<1>6. \A b \in Bits : ~ Differs(2, b)
  BY <1>1, <1>15
<1>7. apart \in SUBSET Bits
  BY <1>2
<1> HIDE DEF apart
<1>8. Places(2) = {}
  BY <1>6
<1>9. Places(1) = {<<1, b>> : b \in apart}
  BY <1>7, <1>16
<1>10. placed = Places(1) \cup Places(2)
  <2>1. \A w : w \in 1 .. Len(s) <=> w = 1 \/ w = 2
    BY <1>3
  <2> HIDE DEF Places
  <2> QED BY <1>5, <2>1
<1>11. placed = {<<1, b>> : b \in apart}
  <2> HIDE DEF Places
  <2> QED BY <1>8, <1>9, <1>10
<1>12. Cardinality(placed) = Cardinality(apart)
  <2> DEFINE at == [b \in apart |-> <<1, b>>]
             T == {<<1, b>> : b \in apart}
  <2>1. \A a, b \in apart : at[a] = at[b] => a = b
    OBVIOUS
  <2>2. at \in [apart -> T] /\ \A y \in T : \E b \in apart : at[b] = y
    OBVIOUS
  <2>3. IsFiniteSet(apart)
    BY <1>7, BitsAssumption, FS_Subset
  <2> HIDE DEF at, T
  <2>4. at \in Bijection(apart, T)
    BY <2>1, <2>2 DEF Bijection, Injection, Surjection, IsInjective
  <2>5. ExistsBijection(apart, T)
    BY <2>4 DEF ExistsBijection
  <2>6. Cardinality(T) = Cardinality(apart)
    BY <2>3, <2>5, FS_Bijection
  <2> QED BY <1>11, <2>6 DEF T
<1>13. Covers(region, code) <=> Cardinality(apart) <= region.radius
  BY DEF Covers, MaskedHamming, apart
<1>14. Graph!NodeAccepts(graph, node, s) <=> Cardinality(placed) <= node.radius
  BY <1>4 DEF Graph!NodeAccepts
<1> QED BY <1>1, <1>12, <1>13, <1>14 DEF node, region, s

(* What routing retains is what the artifact covers.                       *)
LEMMA RoutedAreCovering ==
  ASSUME Finished, NEW graph, Routable(graph), NEW code \in Code
  PROVE  LET covering == {c \in DOMAIN Regions : Covers(Regions[c], code)}
         IN  Graph!Routed(graph, Padded(code))
               = Graph!Picked([c \in DOMAIN Regions |-> c], covering)
<1> DEFINE all == [c \in DOMAIN Regions |-> c]
           covering == {c \in DOMAIN Regions : Covers(Regions[c], code)}
           s == Padded(code)
           Accepts(id) == Graph!NodeAccepts(graph, graph.nodes[id + 1], s)
           Passing(ids) == {k \in DOMAIN ids : Accepts(ids[k])}
           ids == Graph!Listed(graph, Graph!Chosen(graph, s))
<1>1. ids = all
  BY AllAreListed
<1>2. Graph!Routed(graph, s) = Graph!Picked(ids, Passing(ids))
  BY DEF Graph!Routed
<1> HIDE DEF ids
<1>3. \A c \in DOMAIN Regions : Accepts(c) <=> c \in covering
  BY NodeIsAsFar
<1> HIDE DEF Accepts
<1>4. Passing(all) = covering
  BY <1>3
<1> HIDE DEF Passing, all, covering, s
<1>5. Graph!Routed(graph, s) = Graph!Picked(all, covering)
  BY <1>1, <1>2, <1>4
<1> QED BY <1>5 DEF all, covering, s

Routing == exported.graph # NoGraph => phase = "done" /\ Routable(exported.graph)

LEMMA RoutingStep ==
  IInv /\ Placed /\ WrittenIsReadBack /\ Routing /\ [PipelineNext]_pipelineVars => Routing'
<1> SUFFICES ASSUME IInv, Placed, WrittenIsReadBack, Routing, [PipelineNext]_pipelineVars
             PROVE  Routing'
  OBVIOUS
<1>1. ASSUME UNCHANGED vars
      PROVE  phase' = phase /\ \A graph : Routable(graph)' = Routable(graph)
  <2>1. result' = result /\ phase' = phase
    BY <1>1 DEF vars
  <2>2. Regions' = Regions
    BY <2>1 DEF Regions
  <2>3. RoutSection' = RoutSection
    BY <2>2 DEF RoutSection
  <2> QED BY <2>1, <2>2, <2>3 DEF Routable
<1>2. CASE UNCHANGED exportVars /\ (phase = "done" => UNCHANGED vars)
  <2>1. exported' = exported
    BY <1>2 DEF exportVars
  <2> QED BY <1>1, <1>2, <2>1 DEF Routing, Routable
<1>3. CASE UNCHANGED vars /\ ExportR4G1
  <2>1. Finished /\ phase' = "done" /\ exported' = Exported
    BY <1>1, <1>3 DEF ExportR4G1, Finished
  <2>2. Exported.graph # NoGraph =>
          Exported.graph = Assembled(RootPrior, PredictiveEdges(Ledgers(RootPrior)))
    BY DEF Exported, Refused
  <2>3. Exported.graph # NoGraph => Routable(Exported.graph)
    BY <2>1, <2>2, AssembledRoutes
  <2>4. \A graph : Routable(graph)' = Routable(graph)
    BY <1>1, <1>3
  <2> QED BY <2>1, <2>3, <2>4 DEF Routing, Routable, NoGraph
<1>4. CASE UNCHANGED vars /\ Replay
  <2>1. exported' = exported
    BY <1>4 DEF Replay, ReplayR4G1
  <2> QED BY <1>1, <1>4, <2>1 DEF Routing, Routable
<1> QED BY <1>2, <1>3, <1>4, ExportSteps DEF ExportNext

(* Over an exported graph the R4G1 router finds, for every context, the    *)
(* regions of the artifact that cover it, in their order: the one leaf     *)
(* lists every region, and the windows of a node hold the prototype and    *)
(* the mask of its region, at the same distance from every context         *)
(* (export_r4g1, r4g1_export.rs:597).                                      *)
THEOREM GraphRoutesAsTheArtifact == PipelineSpec => []RoutesToCoveringRegions
<1>1. PipelineInit => Routing
  BY DEF PipelineInit, InitExport, Routing, Refused
<1>2. ASSUME IInv, Placed, WrittenIsReadBack, Routing
      PROVE  RoutesToCoveringRegions
  <2>1. exported.graph # NoGraph => Finished /\ Routable(exported.graph)
    BY <1>2 DEF Routing, Finished
  <2> QED BY <2>1, RoutedAreCovering DEF RoutesToCoveringRegions
<1> QED BY <1>1, <1>2, RoutingStep, PipelineInvs, PTL DEF PipelineSpec
=============================================================================
