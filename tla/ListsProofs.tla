---------------------------- MODULE ListsProofs ----------------------------
(***************************************************************************)
(* What remains of a list in some of its places: the lemmas that the       *)
(* proofs about filtered lists rest on.                                    *)
(***************************************************************************)
EXTENDS Lists, SequenceTheorems, FiniteSetTheorems, FunctionTheorems,
        WellFoundedInduction, TLAPS

-----------------------------------------------------------------------------
(* Places in order *)

\* A set of numbers has a least element.  Of the intervals 0 .. k, k in the set,
\* none is below the least one.
LEMMA LeastNatural ==
  ASSUME NEW X, X \subseteq Nat, X # {}
  PROVE  \E m \in X : \A k \in X : m <= k
<1> DEFINE Intervals == {0 .. k : k \in X}
<1>1. Intervals \subseteq FiniteSubsetsOf(Nat)
  <2>1. \A k \in X : IsFiniteSet(0 .. k) /\ 0 .. k \subseteq Nat
    BY FS_Interval
  <2> QED BY <2>1 DEF FiniteSubsetsOf
<1>2. PICK I \in Intervals :
         \A J \in Intervals : <<J, I>> \notin StrictSubsetOrdering(Nat)
  <2>1. Intervals # {}
    OBVIOUS
  <2> HIDE DEF Intervals
  <2> QED BY <1>1, <2>1, FS_StrictSubsetOrderingWellFounded, WFMin
<1>3. PICK m \in X : I = 0 .. m
  OBVIOUS
<1>4. ASSUME NEW k \in X, ~(m <= k) PROVE FALSE
  <2>1. 0 .. k \subseteq 0 .. m /\ m \notin 0 .. k /\ m \in 0 .. m
    BY <1>4
  <2>2. 0 .. k \in SUBSET Nat /\ 0 .. m \in SUBSET Nat /\ 0 .. k # 0 .. m
    BY <2>1
  <2>3. <<0 .. k, 0 .. m>> \in StrictSubsetOrdering(Nat)
    BY <2>1, <2>2, Zenon DEF StrictSubsetOrdering
  <2> QED BY <1>2, <1>3, <2>3
<1> QED BY <1>4

\* So a bounded one has a greatest: the bound less the least distance from it.
LEMMA GreatestBelow ==
  ASSUME NEW n \in Nat, NEW X, X \subseteq 1 .. n, X # {}
  PROVE  \E m \in X : \A k \in X : k <= m
<1> DEFINE Rest == {n - k : k \in X}
<1>1. Rest \subseteq Nat /\ Rest # {}
  <2>1. \A k \in X : n - k \in Nat
    OBVIOUS
  <2>2. PICK k \in X : TRUE
    OBVIOUS
  <2>3. n - k \in Rest
    BY <2>2
  <2> QED BY <2>1, <2>3
<1>2. PICK r \in Rest : \A q \in Rest : r <= q
  <2> HIDE DEF Rest
  <2> QED BY <1>1, LeastNatural
<1>3. PICK m \in X : r = n - m
  BY <1>2
<1>4. ASSUME NEW k \in X PROVE k <= m
  <2>1. n - k \in Rest
    OBVIOUS
  <2>2. r <= n - k
    BY <1>2, <2>1
  <2> QED BY <1>3, <2>2
<1> QED BY <1>4

Increasing(f, n) == \A i, j \in 1 .. n : i < j => f[i] < f[j]

\* Any n numbers can be counted in their order.  Of the n for which they cannot,
\* the least is not 0, and not more: their least number comes before the others.
LEMMA Countable ==
  ASSUME NEW n \in Nat, NEW P, P \subseteq Nat, IsFiniteSet(P), Cardinality(P) = n
  PROVE  \E f \in [1 .. n -> P] : Increasing(f, n)
<1> DEFINE Sets(k) == {Q \in SUBSET P : Cardinality(Q) = k}
           Bad == {k \in 0 .. n : \E Q \in Sets(k) : ~\E f \in [1 .. k -> Q] : Increasing(f, k)}
<1>1. SUFFICES ASSUME n \in Bad PROVE FALSE
  <2>1. P \in Sets(n) /\ n \in 0 .. n
    OBVIOUS
  <2> QED BY <2>1
<1>2. PICK k \in Bad : \A j \in Bad : k <= j
  <2>1. Bad \subseteq Nat /\ Bad # {}
    BY <1>1
  <2> HIDE DEF Bad
  <2> QED BY <2>1, LeastNatural
<1>3. PICK Q \in Sets(k) : ~\E f \in [1 .. k -> Q] : Increasing(f, k)
  OBVIOUS
<1>4. k \in Nat /\ Q \subseteq P /\ Q \subseteq Nat /\ Cardinality(Q) = k /\ IsFiniteSet(Q)
  <2>1. k \in Nat /\ Q \subseteq P /\ Cardinality(Q) = k
    OBVIOUS
  <2> HIDE DEF Sets, Bad
  <2>2. IsFiniteSet(Q)
    BY <2>1, FS_Subset
  <2> QED BY <2>1, <2>2
<1>5. k # 0
  <2> SUFFICES ASSUME k = 0 PROVE FALSE
    OBVIOUS
  <2>1. 1 .. k = {}
    OBVIOUS
  <2>2. [i \in 1 .. k |-> 0] \in [1 .. k -> Q] /\ Increasing([i \in 1 .. k |-> 0], k)
    BY <2>1 DEF Increasing
  <2> QED BY <1>3, <2>2
<1>6. PICK m \in Q : \A q \in Q : m <= q
  <2>1. Q # {}
    BY <1>4, <1>5, FS_EmptySet
  <2> QED BY <1>4, <2>1, LeastNatural
<1> DEFINE R == Q \ {m}
<1>7. R \in Sets(k - 1)
  <2>1. Cardinality(R) = k - 1
    BY <1>4, <1>6, FS_RemoveElement
  <2> QED BY <1>4, <2>1
<1>8. PICK g \in [1 .. k - 1 -> R] : Increasing(g, k - 1)
  <2>1. k - 1 \notin Bad
    <3> HIDE DEF Bad
    <3> QED BY <1>2, <1>4
  <2>2. k - 1 \in 0 .. n
    BY <1>4, <1>5
  <2> QED BY <1>7, <2>1, <2>2
<1> DEFINE f == [i \in 1 .. k |-> IF i = 1 THEN m ELSE g[i - 1]]
<1>9. f \in [1 .. k -> Q]
  <2> SUFFICES ASSUME NEW i \in 1 .. k PROVE (IF i = 1 THEN m ELSE g[i - 1]) \in Q
    OBVIOUS
  <2>1. i # 1 => i - 1 \in 1 .. k - 1
    BY <1>4
  <2> QED BY <1>6, <1>8, <2>1
<1>10. Increasing(f, k)
  <2> SUFFICES ASSUME NEW i \in 1 .. k, NEW j \in 1 .. k, i < j PROVE f[i] < f[j]
    BY DEF Increasing
  <2>1. j - 1 \in 1 .. k - 1 /\ j # 1 /\ f[j] = g[j - 1] /\ g[j - 1] \in R
    BY <1>4, <1>8
  <2>2. CASE i = 1
    <3>1. m <= g[j - 1] /\ m # g[j - 1] /\ m \in Nat /\ g[j - 1] \in Nat
      BY <1>4, <1>6, <2>1
    <3> QED BY <2>1, <2>2, <3>1
  <2>3. CASE i # 1
    <3>1. i - 1 \in 1 .. k - 1 /\ i - 1 < j - 1
      BY <1>4, <2>3
    <3> QED BY <1>8, <2>1, <2>3, <3>1 DEF Increasing
  <2> QED BY <2>2, <2>3
<1> QED BY <1>3, <1>9, <1>10

\* InOrder counts all the places, each once, from the first to the last.
LEMMA InOrderIs ==
  ASSUME NEW P, P \subseteq Nat, IsFiniteSet(P)
  PROVE  LET n == Cardinality(P) IN
         /\ n \in Nat
         /\ InOrder(P) \in [1 .. n -> P]
         /\ \A i, j \in 1 .. n : i < j => InOrder(P)[i] < InOrder(P)[j]
         /\ \A p \in P : \E i \in 1 .. n : InOrder(P)[i] = p
<1> DEFINE n == Cardinality(P)
           f == InOrder(P)
<1>1. n \in Nat
  BY FS_CardinalityType
<1>2. f \in [1 .. n -> P] /\ \A i, j \in 1 .. n : i < j => f[i] < f[j]
  <2>1. \E g \in [1 .. n -> P] : \A i, j \in 1 .. n : i < j => g[i] < g[j]
    BY <1>1, Countable DEF Increasing
  <2> QED BY <2>1 DEF InOrder
<1>3. f \in Injection(1 .. n, P)
  <2> HIDE DEF f, n
  <2>1. ASSUME NEW i \in 1 .. n, NEW j \in 1 .. n, f[i] = f[j] PROVE i = j
    <3>1. f[i] \in Nat /\ f[j] \in Nat
      BY <1>2
    <3>2. ~(i < j) /\ ~(j < i)
      BY <1>2, <2>1, <3>1
    <3> QED BY <1>1, <3>2
  <2> QED BY <1>2, <2>1 DEF Injection, IsInjective
<1>4. f \in Surjection(1 .. n, P)
  <2>1. Cardinality(1 .. n) = n
    BY <1>1, FS_Interval
  <2> QED BY <1>3, <2>1, FS_Injection
<1> QED BY <1>1, <1>2, <1>4 DEF Surjection

\* There is one way to count places in their order.  Of the least place on which
\* two differed, each would have to come before the other.
LEMMA InOrderUnique ==
  ASSUME NEW n \in Nat, NEW P, P \subseteq Nat, NEW h \in [1 .. n -> P],
         \A i, j \in 1 .. n : i < j => h[i] < h[j],
         \A p \in P : \E i \in 1 .. n : h[i] = p
  PROVE  IsFiniteSet(P) /\ Cardinality(P) = n /\ InOrder(P) = h
<1>1. IsFiniteSet(P) /\ Cardinality(P) = n
  <2>1. ASSUME NEW i \in 1 .. n, NEW j \in 1 .. n, h[i] = h[j] PROVE i = j
    <3>1. h[i] \in Nat /\ h[j] \in Nat
      OBVIOUS
    <3>2. (i < j => h[i] < h[j]) /\ (j < i => h[j] < h[i])
      OBVIOUS
    <3> QED BY <2>1, <3>1, <3>2
  <2>2. h \in Bijection(1 .. n, P)
    BY <2>1 DEF Bijection, Injection, IsInjective, Surjection
  <2>3. ExistsBijection(1 .. n, P)
    BY <2>2 DEF ExistsBijection
  <2> QED BY <2>3, FS_NatBijection, FS_CountingElements
<1> DEFINE f == InOrder(P)
<1>2. /\ f \in [1 .. n -> P]
      /\ \A i, j \in 1 .. n : i < j => f[i] < f[j]
      /\ \A p \in P : \E i \in 1 .. n : f[i] = p
  BY <1>1, InOrderIs
<1> HIDE DEF f
<1> DEFINE Differ == {i \in 1 .. n : f[i] # h[i]}
<1>3. Differ = {}
  <2> SUFFICES ASSUME Differ # {} PROVE FALSE
    OBVIOUS
  <2>1. PICK b \in Differ : \A i \in Differ : b <= i
    <3>1. Differ \subseteq Nat
      OBVIOUS
    <3> HIDE DEF Differ
    <3> QED BY <3>1, LeastNatural
  <2>2. /\ b \in 1 .. n /\ f[b] # h[b]
        /\ f[b] \in P /\ h[b] \in P /\ f[b] \in Nat /\ h[b] \in Nat
    BY <1>2
  <2>3. \A i \in 1 .. n : i < b => f[i] = h[i]
    <3>1. \A i \in 1 .. n : i \notin Differ => f[i] = h[i]
      OBVIOUS
    <3> HIDE DEF Differ
    <3> QED BY <2>1, <2>2, <3>1
  <2>4. h[b] < f[b]
    <3>1. PICK j \in 1 .. n : h[j] = f[b]
      BY <2>2
    <3>2. ~(j < b)
      <4> SUFFICES ASSUME j < b PROVE FALSE
        OBVIOUS
      <4>1. f[j] = f[b] /\ f[j] < f[b]
        BY <1>2, <2>2, <2>3, <3>1
      <4> QED BY <2>2, <4>1
    <3>3. b < j
      BY <2>2, <3>1, <3>2
    <3> QED BY <2>2, <3>1, <3>3
  <2>5. f[b] < h[b]
    <3>1. PICK j \in 1 .. n : f[j] = h[b]
      BY <1>2, <2>2
    <3>2. ~(j < b)
      <4> SUFFICES ASSUME j < b PROVE FALSE
        OBVIOUS
      <4>1. h[j] = h[b] /\ h[j] < h[b]
        BY <2>2, <2>3, <3>1
      <4> QED BY <2>2, <4>1
    <3>3. b < j
      BY <2>2, <3>1, <3>2
    <3> QED BY <1>2, <2>2, <3>1, <3>3
  <2> QED BY <2>2, <2>4, <2>5
<1>4. \A i \in 1 .. n : f[i] = h[i]
  BY <1>3
<1>5. f = h
  BY <1>2, <1>4
<1> QED BY <1>1, <1>5 DEF f

LEMMA IntervalOf ==
  ASSUME NEW n \in Nat
  PROVE  IsFiniteSet(1 .. n) /\ Cardinality(1 .. n) = n
<1>1. 1 \in Int /\ n \in Int /\ (1 > n => n = 0) /\ n - 1 + 1 = n
  OBVIOUS
<1> QED BY <1>1, FS_Interval

\* A list in some of its places.
LEMMA PickIs ==
  ASSUME NEW S, NEW list \in Seq(S), NEW P, P \subseteq DOMAIN list
  PROVE  LET n == Cardinality(P)
             f == InOrder(P)
         IN  /\ n \in Nat /\ n <= Len(list)
             /\ f \in [1 .. n -> P]
             /\ \A i, j \in 1 .. n : i < j => f[i] < f[j]
             /\ \A p \in P : \E i \in 1 .. n : f[i] = p
             /\ Pick(list, P) \in Seq(S)
             /\ Len(Pick(list, P)) = n
             /\ DOMAIN Pick(list, P) = 1 .. n
             /\ \A i \in 1 .. n : Pick(list, P)[i] = list[f[i]]
<1> DEFINE n == Cardinality(P)
           f == InOrder(P)
<1>1. DOMAIN list = 1 .. Len(list) /\ Len(list) \in Nat /\ \A i \in DOMAIN list : list[i] \in S
  BY LenProperties, ElementOfSeq
<1>2. P \subseteq Nat /\ IsFiniteSet(P) /\ n <= Len(list)
  <2>1. IsFiniteSet(1 .. Len(list)) /\ Cardinality(1 .. Len(list)) = Len(list)
    BY <1>1, IntervalOf
  <2> QED BY <1>1, <2>1, FS_Subset
<1>3. /\ n \in Nat
      /\ f \in [1 .. n -> P]
      /\ \A i, j \in 1 .. n : i < j => f[i] < f[j]
      /\ \A p \in P : \E i \in 1 .. n : f[i] = p
  BY <1>2, InOrderIs
<1>4. Pick(list, P) = [i \in 1 .. n |-> list[f[i]]]
  BY DEF Pick
<1> HIDE DEF f, n
<1>5. /\ Pick(list, P) \in Seq(S) /\ Len(Pick(list, P)) = n /\ DOMAIN Pick(list, P) = 1 .. n
      /\ \A i \in 1 .. n : Pick(list, P)[i] = list[f[i]]
  <2>1. [i \in 1 .. n |-> list[f[i]]] \in [1 .. n -> S]
    BY <1>1, <1>3
  <2>2. [i \in 1 .. n |-> list[f[i]]] \in Seq(S)
    BY <1>3, <2>1, SeqDef
  <2> QED BY <1>3, <1>4, <2>2, LenProperties
<1> QED BY <1>2, <1>3, <1>5 DEF f, n

\* In all its places a list is itself.
LEMMA PickAll ==
  ASSUME NEW S, NEW list \in Seq(S)
  PROVE  Pick(list, DOMAIN list) = list
<1> DEFINE n == Len(list)
           h == [i \in 1 .. n |-> i]
<1>1. n \in Nat /\ DOMAIN list = 1 .. n /\ list \in [1 .. n -> S]
  BY LenProperties
<1> HIDE DEF n
<1>2. Cardinality(1 .. n) = n /\ InOrder(1 .. n) = h
  <2>1. 1 .. n \subseteq Nat /\ h \in [1 .. n -> 1 .. n]
    BY <1>1
  <2>2. /\ \A i, j \in 1 .. n : i < j => h[i] < h[j]
        /\ \A p \in 1 .. n : \E i \in 1 .. n : h[i] = p
    OBVIOUS
  <2> HIDE DEF h
  <2> QED BY <1>1, <2>1, <2>2, InOrderUnique
<1>3. Pick(list, 1 .. n) = [i \in 1 .. n |-> list[h[i]]]
  BY <1>2 DEF Pick
<1> QED BY <1>1, <1>3

\* What a list has of a set are its members in that set.
LEMMA OnlyIs ==
  ASSUME NEW S, NEW list \in Seq(S), NEW X
  PROVE  /\ Only(list, X) \in Seq(X)
         /\ Len(Only(list, X)) <= Len(list)
         /\ \A i \in DOMAIN list : list[i] \in X =>
              \E j \in DOMAIN Only(list, X) : Only(list, X)[j] = list[i]
<1> DEFINE P == {i \in DOMAIN list : list[i] \in X}
           n == Cardinality(P)
           f == InOrder(P)
           kept == Pick(list, P)
<1>1. Only(list, X) = kept
  BY DEF Only
<1>2. /\ n \in Nat /\ n <= Len(list) /\ f \in [1 .. n -> P]
      /\ \A p \in P : \E i \in 1 .. n : f[i] = p
      /\ kept \in Seq(S) /\ Len(kept) = n /\ DOMAIN kept = 1 .. n
      /\ \A i \in 1 .. n : kept[i] = list[f[i]]
  <2>1. P \subseteq DOMAIN list /\ list \in Seq(S)
    OBVIOUS
  <2> HIDE DEF P
  <2> QED BY ONLY <2>1, PickIs, SMTT(60)
<1>3. kept \in Seq(X)
  <2>1. kept = [i \in 1 .. n |-> kept[i]]
    <3>1. kept \in [1 .. Len(kept) -> S]
      BY <1>2, LenProperties
    <3> HIDE DEF kept
    <3> QED BY <1>2, <3>1
  <2>2. \A i \in 1 .. n : kept[i] \in X
    BY <1>2
  <2> HIDE DEF kept, n
  <2>3. kept \in [1 .. n -> X]
    BY <2>1, <2>2
  <2> QED BY <1>2, <2>3, SeqDef
<1>4. ASSUME NEW i \in DOMAIN list, list[i] \in X
      PROVE  \E j \in DOMAIN kept : kept[j] = list[i]
  <2>1. i \in P
    BY <1>4
  <2>2. PICK j \in 1 .. n : f[j] = i
    BY <1>2, <2>1
  <2>3. j \in DOMAIN kept /\ kept[j] = list[i]
    BY <1>2, <2>2
  <2> QED BY <2>3
<1> HIDE DEF kept
<1> QED BY <1>1, <1>2, <1>3, <1>4

\* What numbers in order have of a set are the numbers of both, in order.
LEMMA OnlyOfOrdered ==
  ASSUME NEW K, K \subseteq Nat, IsFiniteSet(K), NEW X
  PROVE  Only(InOrder(K), X) = InOrder(K \cap X)
<1> DEFINE g == InOrder(K)
           m == Cardinality(K)
           P == {i \in DOMAIN g : g[i] \in X}
           n == Cardinality(P)
           f == InOrder(P)
           kept == Pick(g, P)
<1>1. /\ m \in Nat /\ g \in [1 .. m -> K] /\ DOMAIN g = 1 .. m
      /\ \A i, j \in 1 .. m : i < j => g[i] < g[j]
      /\ \A p \in K : \E i \in 1 .. m : g[i] = p
  <2>1. /\ m \in Nat /\ g \in [1 .. m -> K]
        /\ \A i, j \in 1 .. m : i < j => g[i] < g[j]
        /\ \A p \in K : \E i \in 1 .. m : g[i] = p
    BY InOrderIs
  <2> HIDE DEF g, m
  <2> QED BY <2>1
<1> HIDE DEF g, m
<1>2. /\ n \in Nat /\ f \in [1 .. n -> P]
      /\ \A i, j \in 1 .. n : i < j => f[i] < f[j]
      /\ \A p \in P : \E i \in 1 .. n : f[i] = p
      /\ DOMAIN kept = 1 .. n
      /\ \A i \in 1 .. n : kept[i] = g[f[i]]
  <2>1. P \subseteq DOMAIN g /\ g \in Seq(K)
    BY <1>1, SeqDef
  <2> HIDE DEF P
  <2> QED BY <2>1, PickIs, SMTT(60)
<1>3. kept \in [1 .. n -> K \cap X]
  <2>1. kept = [i \in 1 .. n |-> g[f[i]]]
    BY DEF Pick
  <2>2. \A i \in 1 .. n : g[f[i]] \in K \cap X
    BY <1>1, <1>2
  <2> HIDE DEF kept, n, f
  <2> QED BY <2>1, <2>2
<1>4. ASSUME NEW i \in 1 .. n, NEW j \in 1 .. n, i < j PROVE kept[i] < kept[j]
  <2>1. f[i] \in 1 .. m /\ f[j] \in 1 .. m /\ f[i] < f[j]
    BY <1>1, <1>2, <1>4
  <2> QED BY <1>1, <1>2, <2>1
<1>5. ASSUME NEW v \in K \cap X PROVE \E j \in 1 .. n : kept[j] = v
  <2>1. PICK i \in 1 .. m : g[i] = v
    BY <1>1
  <2>2. i \in P
    BY <1>1, <2>1
  <2>3. PICK j \in 1 .. n : f[j] = i
    BY <1>2, <2>2
  <2>4. kept[j] = v
    BY <1>2, <2>1, <2>3
  <2> QED BY <2>4
<1>6. InOrder(K \cap X) = kept
  <2> DEFINE both == K \cap X
  <2>1. /\ both \subseteq Nat /\ n \in Nat /\ kept \in [1 .. n -> both]
        /\ \A i, j \in 1 .. n : i < j => kept[i] < kept[j]
        /\ \A v \in both : \E j \in 1 .. n : kept[j] = v
    BY <1>2, <1>3, <1>4, <1>5
  <2> HIDE DEF kept, n, both
  <2>2. InOrder(both) = kept
    BY ONLY <2>1, InOrderUnique
  <2> QED BY <2>2 DEF both
<1>7. Only(InOrder(K), X) = kept
  BY DEF Only, g
<1> QED BY <1>6, <1>7

\* How many of the numbers come before the one in a place.
LEMMA CountBefore ==
  ASSUME NEW K, K \subseteq Nat, IsFiniteSet(K), NEW p \in 1 .. Cardinality(K)
  PROVE  /\ Cardinality({q \in K : q < InOrder(K)[p]}) = p - 1
         /\ Cardinality({q \in K : q <= InOrder(K)[p]}) = p
<1> DEFINE g == InOrder(K)
           m == Cardinality(K)
<1>1. /\ m \in Nat /\ g \in [1 .. m -> K]
      /\ \A i, j \in 1 .. m : i < j => g[i] < g[j]
      /\ \A e \in K : \E i \in 1 .. m : g[i] = e
  BY InOrderIs
<1>2. p \in 1 .. m
  OBVIOUS
<1> HIDE DEF g, m
<1>3. ASSUME NEW r \in 0 .. m, NEW Q, Q \subseteq K,
             \A i \in 1 .. m : g[i] \in Q <=> i <= r
      PROVE  Cardinality(Q) = r
  <2> DEFINE h == [i \in 1 .. r |-> g[i]]
  <2>1. r \in Nat /\ h \in [1 .. r -> Q]
    BY <1>1, <1>3
  <2>2. \A i, j \in 1 .. r : i < j => h[i] < h[j]
    BY <1>1
  <2>3. ASSUME NEW e \in Q PROVE \E i \in 1 .. r : h[i] = e
    <3>1. PICK i \in 1 .. m : g[i] = e
      BY <1>1, <1>3
    <3>2. i \in 1 .. r
      BY <1>1, <1>3, <3>1
    <3> QED BY <3>1, <3>2
  <2> HIDE DEF h
  <2>4. Q \subseteq Nat
    BY <1>3
  <2> QED BY <2>1, <2>2, <2>3, <2>4, InOrderUnique
<1>4. \A i \in 1 .. m : (g[i] < g[p] <=> i <= p - 1) /\ (g[i] <= g[p] <=> i <= p)
  <2> TAKE i \in 1 .. m
  <2>1. g[i] \in Nat /\ g[p] \in Nat
    BY <1>1, <1>2
  <2>2. (i < p => g[i] < g[p]) /\ (p < i => g[p] < g[i]) /\ (i = p => g[i] = g[p])
    BY <1>1, <1>2
  <2> QED BY <1>1, <1>2, <2>1, <2>2
<1>5. Cardinality({q \in K : q < g[p]}) = p - 1
  <2> DEFINE Q == {q \in K : q < g[p]}
  <2>1. p - 1 \in 0 .. m /\ Q \subseteq K /\ \A i \in 1 .. m : g[i] \in Q <=> i <= p - 1
    BY <1>1, <1>2, <1>4
  <2> HIDE DEF Q
  <2>2. Cardinality(Q) = p - 1
    BY <1>3, <2>1
  <2> QED BY <2>2 DEF Q
<1>6. Cardinality({q \in K : q <= g[p]}) = p
  <2> DEFINE Q == {q \in K : q <= g[p]}
  <2>1. p \in 0 .. m /\ Q \subseteq K /\ \A i \in 1 .. m : g[i] \in Q <=> i <= p
    BY <1>1, <1>2, <1>4
  <2> HIDE DEF Q
  <2>2. Cardinality(Q) = p
    BY <1>3, <2>1
  <2> QED BY <2>2 DEF Q
<1> QED BY <1>5, <1>6 DEF g

\* The places of a list, n further on.
After(n, places) == {n + j : j \in places}

Joined(s, t) == s \o t

\* What is picked from two lists is picked from the two together.
LEMMA PickConcat ==
  ASSUME NEW S, NEW s \in Seq(S), NEW t \in Seq(S),
         NEW P, P \subseteq DOMAIN s, NEW Q, Q \subseteq DOMAIN t,
         NEW R, R = P \cup After(Len(s), Q)
  PROVE  /\ R \subseteq DOMAIN Joined(s, t)
         /\ Pick(Joined(s, t), R) = Joined(Pick(s, P), Pick(t, Q))
<1> DEFINE p == Cardinality(P)
           q == Cardinality(Q)
           f == InOrder(P)
           g == InOrder(Q)
           l == Len(s)
           h == [i \in 1 .. p + q |-> IF i <= p THEN f[i] ELSE l + g[i - p]]
<1>1. /\ l \in Nat /\ DOMAIN s = 1 .. l
      /\ Len(t) \in Nat /\ DOMAIN t = 1 .. Len(t)
  BY LenProperties
<1>2. /\ p \in Nat /\ f \in [1 .. p -> P]
      /\ \A i, j \in 1 .. p : i < j => f[i] < f[j]
      /\ \A e \in P : \E i \in 1 .. p : f[i] = e
      /\ Pick(s, P) \in Seq(S) /\ Len(Pick(s, P)) = p
      /\ \A i \in 1 .. p : Pick(s, P)[i] = s[f[i]]
  BY PickIs
<1>3. /\ q \in Nat /\ g \in [1 .. q -> Q]
      /\ \A i, j \in 1 .. q : i < j => g[i] < g[j]
      /\ \A e \in Q : \E i \in 1 .. q : g[i] = e
      /\ Pick(t, Q) \in Seq(S) /\ Len(Pick(t, Q)) = q
      /\ \A i \in 1 .. q : Pick(t, Q)[i] = t[g[i]]
  BY PickIs
<1>4. /\ s \o t \in Seq(S) /\ Len(s \o t) = l + Len(t)
      /\ DOMAIN (s \o t) = 1 .. l + Len(t)
      /\ \A i \in 1 .. l + Len(t) : (s \o t)[i] = IF i <= l THEN s[i] ELSE t[i - l]
  BY ConcatProperties, LenProperties
<1>5. /\ Pick(s, P) \o Pick(t, Q) \in Seq(S)
      /\ Len(Pick(s, P) \o Pick(t, Q)) = p + q
      /\ \A i \in 1 .. p + q : (Pick(s, P) \o Pick(t, Q))[i] =
             IF i <= p THEN s[f[i]] ELSE t[g[i - p]]
  <2>1. /\ Pick(s, P) \o Pick(t, Q) \in Seq(S)
        /\ Len(Pick(s, P) \o Pick(t, Q)) = p + q
        /\ \A i \in 1 .. p + q : (Pick(s, P) \o Pick(t, Q))[i] =
               IF i <= p THEN Pick(s, P)[i] ELSE Pick(t, Q)[i - p]
    BY <1>2, <1>3, ConcatProperties
  <2> HIDE DEF p, q, f, g
  <2>2. \A i \in 1 .. p + q : (i <= p => i \in 1 .. p) /\ (~(i <= p) => i - p \in 1 .. q)
    BY <1>2, <1>3
  <2> QED BY <1>2, <1>3, <2>1, <2>2
<1> HIDE DEF p, q, f, g, l
<1>6. R \subseteq 1 .. l + Len(t)
  BY <1>1 DEF l, After
<1>7. h \in [1 .. p + q -> R]
  <2> SUFFICES ASSUME NEW i \in 1 .. p + q
               PROVE  (IF i <= p THEN f[i] ELSE l + g[i - p]) \in R
    OBVIOUS
  <2>1. CASE i <= p
    <3>1. f[i] \in P
      BY <1>2, <2>1
    <3> QED BY <2>1, <3>1
  <2>2. CASE ~(i <= p)
    <3>1. g[i - p] \in Q
      BY <1>2, <1>3, <2>2
    <3> QED BY <2>2, <3>1 DEF l, After
  <2> QED BY <2>1, <2>2
<1>8. ASSUME NEW i \in 1 .. p + q, NEW j \in 1 .. p + q, i < j PROVE h[i] < h[j]
  <2>1. CASE j <= p
    <3>1. h[i] = f[i] /\ h[j] = f[j] /\ i \in 1 .. p /\ j \in 1 .. p
      BY <1>2, <1>3, <1>8, <2>1
    <3> QED BY <1>2, <1>8, <3>1
  <2>2. CASE i <= p /\ ~(j <= p)
    <3>1. h[i] = f[i] /\ h[j] = l + g[j - p] /\ i \in 1 .. p /\ j - p \in 1 .. q
      BY <1>2, <1>3, <1>8, <2>2
    <3>2. f[i] \in 1 .. l /\ g[j - p] \in Nat \ {0}
      BY <1>1, <1>2, <1>3, <3>1
    <3> QED BY <1>1, <3>1, <3>2
  <2>3. CASE ~(i <= p)
    <3>1. /\ h[i] = l + g[i - p] /\ h[j] = l + g[j - p]
          /\ i - p \in 1 .. q /\ j - p \in 1 .. q /\ i - p < j - p
      BY <1>2, <1>3, <1>8, <2>3
    <3>2. g[i - p] < g[j - p] /\ g[i - p] \in Nat /\ g[j - p] \in Nat
      BY <1>1, <1>3, <3>1
    <3> QED BY <1>1, <3>1, <3>2
  <2> QED BY <1>2, <2>1, <2>2, <2>3
<1>9. ASSUME NEW e \in R PROVE \E i \in 1 .. p + q : h[i] = e
  <2>1. CASE e \in P
    <3>1. PICK i \in 1 .. p : f[i] = e
      BY <1>2, <2>1
    <3>2. i \in 1 .. p + q /\ h[i] = e
      BY <1>2, <1>3, <3>1
    <3> QED BY <3>2
  <2>2. CASE e \notin P
    <3>1. PICK k \in Q : e = l + k
      BY <2>2 DEF l, After
    <3>2. PICK i \in 1 .. q : g[i] = k
      BY <1>3
    <3>3. i + p \in 1 .. p + q /\ h[i + p] = e
      BY <1>2, <1>3, <3>1, <3>2
    <3> QED BY <3>3
  <2> QED BY <2>1, <2>2
<1>10. Cardinality(R) = p + q /\ InOrder(R) = h
  <2>1. p + q \in Nat /\ R \subseteq Nat
    BY <1>1, <1>2, <1>3, <1>6
  <2> HIDE DEF h
  <2> QED BY <1>7, <1>8, <1>9, <2>1, InOrderUnique
<1>11. R \subseteq DOMAIN (s \o t)
  BY <1>4, <1>6
<1>12. /\ Pick(s \o t, R) \in Seq(S) /\ Len(Pick(s \o t, R)) = p + q
       /\ \A i \in 1 .. p + q : Pick(s \o t, R)[i] = (s \o t)[h[i]]
  <2> DEFINE all == s \o t
  <2>1. all \in Seq(S) /\ R \subseteq DOMAIN all
    BY <1>4, <1>11
  <2> HIDE DEF h, all
  <2>2. /\ Pick(all, R) \in Seq(S) /\ Len(Pick(all, R)) = Cardinality(R)
        /\ \A i \in 1 .. Cardinality(R) : Pick(all, R)[i] = all[InOrder(R)[i]]
    BY <2>1, PickIs
  <2> QED BY <1>10, <2>2 DEF all
<1>13. ASSUME NEW i \in 1 .. p + q
       PROVE  (s \o t)[h[i]] = IF i <= p THEN s[f[i]] ELSE t[g[i - p]]
  <2>1. CASE i <= p
    <3>1. h[i] = f[i] /\ f[i] \in 1 .. l
      BY <1>1, <1>2, <2>1
    <3> QED BY <1>1, <1>4, <2>1, <3>1
  <2>2. CASE ~(i <= p)
    <3>1. i - p \in 1 .. q /\ h[i] = l + g[i - p]
      BY <1>2, <1>3, <2>2
    <3>2. g[i - p] \in 1 .. Len(t)
      BY <1>1, <1>3, <3>1
    <3>3. h[i] \in 1 .. l + Len(t) /\ ~(h[i] <= l) /\ h[i] - l = g[i - p]
      BY <1>1, <3>1, <3>2
    <3> QED BY <1>4, <2>2, <3>3
  <2> QED BY <2>1, <2>2
<1> HIDE DEF h
<1>14. Pick(s \o t, R) = Pick(s, P) \o Pick(t, Q)
  <2>1. \A i \in 1 .. p + q : Pick(s \o t, R)[i] = (Pick(s, P) \o Pick(t, Q))[i]
    BY <1>5, <1>12, <1>13
  <2> QED BY <1>5, <1>12, <2>1, SeqEqual
<1> QED BY <1>11, <1>14 DEF Joined
=============================================================================
