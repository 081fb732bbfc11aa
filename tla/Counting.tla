------------------------------- MODULE Counting -------------------------------
(***************************************************************************)
(* Facts about sizes, least elements, remainders and iteration that the     *)
(* proofs of several components cite.                                       *)
(***************************************************************************)
EXTENDS Integers, FiniteSets, FiniteSetTheorems, WellFoundedInduction, TLAPS

One(b) == IF b THEN 1 ELSE 0

\* Sets that differ in one element at most differ by one in size at most.
LEMMA OneElement ==
  ASSUME NEW S, NEW T, NEW x, IsFiniteSet(S),
         \A y : y # x => (y \in S <=> y \in T)
  PROVE  /\ IsFiniteSet(T)
         /\ Cardinality(S) \in Nat /\ Cardinality(T) \in Nat
         /\ Cardinality(T) = Cardinality(S) + One(x \in T) - One(x \in S)
<1>1. Cardinality(S) \in Nat
  BY FS_CardinalityType
<1>2. CASE x \in T
  <2>1. T = S \cup {x}
    BY <1>2
  <2>2. /\ IsFiniteSet(T)
        /\ Cardinality(T) = IF x \in S THEN Cardinality(S) ELSE Cardinality(S) + 1
    BY <2>1, FS_AddElement
  <2> QED
    BY <1>1, <1>2, <2>2 DEF One
<1>3. CASE x \notin T
  <2>1. T = S \ {x}
    BY <1>3
  <2>2. /\ IsFiniteSet(T)
        /\ Cardinality(T) = IF x \in S THEN Cardinality(S) - 1 ELSE Cardinality(S)
    BY <2>1, FS_RemoveElement
  <2>3. Cardinality(T) \in Nat
    BY <2>2, FS_CardinalityType
  <2> QED
    BY <1>1, <1>3, <2>2, <2>3 DEF One
<1> QED
  BY <1>2, <1>3

\* A finite set loses as many elements as the part that is taken away has.
LEMMA PartTaken ==
  ASSUME NEW S, NEW T, IsFiniteSet(S), T \subseteq S
  PROVE  /\ IsFiniteSet(T) /\ Cardinality(T) \in Nat
         /\ Cardinality(S \ T) = Cardinality(S) - Cardinality(T)
<1>1. IsFiniteSet(T) /\ S \cap T = T
  BY FS_Subset
<1>2. Cardinality(S \ T) = Cardinality(S) - Cardinality(S \cap T)
  BY FS_Difference
<1> QED
  BY <1>1, <1>2, FS_CardinalityType

\* A set of natural numbers that is not empty has a least element.
LEMMA LeastElement ==
  ASSUME NEW T, T \subseteq Nat, T # {}
  PROVE  \E x \in T : \A y \in T : x <= y
<1> DEFINE Less == {ss \in Nat \X Nat : ss[1] < ss[2]}
<1>1. IsWellFoundedOn(Less, Nat)
  BY NatLessThanWellFounded DEF OpToRel
<1>2. \A x, y \in Nat : y < x => <<y, x>> \in Less
  OBVIOUS
<1> HIDE DEF Less
<1>3. PICK x \in T : \A y \in T : <<y, x>> \notin Less
  BY <1>1, WFMin
<1>4. ASSUME NEW y \in T PROVE x <= y
  <2>1. x \in Nat /\ y \in Nat /\ ~(y < x)
    BY <1>2, <1>3
  <2> QED
    BY <2>1
<1> QED
  BY <1>4

\* Numbers in a sequence have a greatest one, among any of its places.
LEMMA GreatestElement ==
  ASSUME NEW n \in Nat, NEW f \in [1..n -> Nat], NEW K, K \subseteq 1..n, K # {}
  PROVE  \E k \in K : \A l \in K : f[l] <= f[k]
<1> DEFINE Bound(m, b) == \A k \in 1..m : f[k] <= b
           Free == {m \in 0..n : \A b \in Nat : ~Bound(m, b)}
           Over == {b \in Nat : \A k \in K : f[k] <= b}
<1>1. Free = {}
  <2>s. SUFFICES ASSUME Free # {} PROVE FALSE
    OBVIOUS
  <2> HIDE DEF Bound
  <2>f. /\ Free \subseteq Nat
        /\ \A m \in 0..n : m \notin Free <=> \E b \in Nat : Bound(m, b)
        /\ \A m \in Free : m \in 0..n
    OBVIOUS
  <2> HIDE DEF Free
  <2>1. PICK m \in Free : \A l \in Free : m <= l
    BY <2>s, <2>f, LeastElement
  <2>2. m # 0
    <3>1. Bound(0, 0)
      BY DEF Bound
    <3>2. 0 \in 0..n /\ 0 \in Nat
      OBVIOUS
    <3> QED
      BY <2>1, <2>f, <3>1, <3>2
  <2>3. m - 1 \in 0..n /\ m - 1 \notin Free /\ m \in 1..n
    BY <2>f, <2>1, <2>2
  <2>4. PICK b \in Nat : Bound(m - 1, b)
    BY <2>f, <2>3
  <2> DEFINE c == IF f[m] > b THEN f[m] ELSE b
  <2>5. m \in Nat /\ m \in 1..n /\ f[m] \in Nat
    BY <2>3
  <2>6. c \in Nat /\ f[m] <= c /\ b <= c
    BY <2>5
  <2> HIDE DEF c
  <2>7. Bound(m, c)
    <3> SUFFICES ASSUME NEW k \in 1..m PROVE f[k] <= c
      BY DEF Bound
    <3>1. CASE k = m
      BY <2>6, <3>1
    <3>2. CASE k # m
      <4>1. k \in 1..(m - 1) /\ k \in 1..n
        BY <2>3, <2>5, <3>2
      <4>2. f[k] <= b /\ f[k] \in Nat
        BY <2>4, <4>1 DEF Bound
      <4> QED
        BY <2>6, <4>1, <4>2
    <3> QED
      BY <3>1, <3>2
  <2>8. m \in 0..n /\ m \in Free
    BY <2>1, <2>f
  <2> QED
    BY <2>8, <2>f, <2>6, <2>7
<1>2. PICK b \in Nat : Bound(n, b)
  <2> HIDE DEF Bound
  <2>1. n \in 0..n /\ n \notin Free
    BY ONLY <1>1, n \in Nat
  <2> QED
    BY <2>1
<1>3. b \in Over
  BY <1>2
<1>4. PICK m \in Over : \A l \in Over : m <= l
  BY <1>3, LeastElement
<1>5. PICK k \in K : f[k] \in Nat
  OBVIOUS
<1>6. CASE \E l \in K : f[l] = m
  BY <1>4, <1>6
<1>7. CASE \A l \in K : f[l] # m
  <2>1. \A l \in K : f[l] \in Nat /\ f[l] <= m - 1
    BY <1>4, <1>7
  <2>2. m - 1 \in Nat
    BY <1>4, <1>5, <2>1
  <2> QED
    BY <1>4, <2>1, <2>2
<1> QED
  BY <1>6, <1>7

\* The i-th element of a set of positions: there is one for every i up to its size.
LEMMA IthElement ==
  ASSUME NEW n \in Nat, NEW S, S \subseteq 1..n, NEW i \in 1..Cardinality(S)
  PROVE  \E k \in S : Cardinality({j \in S : j <= k}) = i
<1> DEFINE Upto(k) == {j \in S : j <= k}
           Enough == {k \in 0..n : Cardinality(Upto(k)) >= i}
<1>1. IsFiniteSet(S) /\ Cardinality(S) \in Nat
  <2>1. IsFiniteSet(1..n)
    BY FS_Interval
  <2> QED
    BY <2>1, FS_Subset, FS_CardinalityType
<1>9. \A j \in S : j \in Nat /\ 1 <= j /\ j <= n
  OBVIOUS
<1>2. \A k \in Nat : IsFiniteSet(Upto(k)) /\ Cardinality(Upto(k)) \in Nat
  <2> TAKE k \in Nat
  <2>1. Upto(k) \subseteq S
    OBVIOUS
  <2> HIDE DEF Upto
  <2> QED
    BY <1>1, <2>1, FS_Subset, FS_CardinalityType
<1>3. n \in Enough
  <2>1. \A j : j \in Upto(n) <=> j \in S
    BY <1>9
  <2> HIDE DEF Upto
  <2>2. Upto(n) = S
    BY <2>1
  <2> QED
    BY <1>1, <2>2
<1>4. PICK k \in Enough : \A m \in Enough : k <= m
  <2>1. Enough \subseteq Nat /\ Enough # {}
    <3> HIDE DEF Upto
    <3> QED
      BY <1>3
  <2> HIDE DEF Enough
  <2> QED
    BY <2>1, LeastElement
<1>5. k # 0
  <2>0. \A j : j \in Upto(0) <=> j \in S /\ j <= 0
    OBVIOUS
  <2>1. \A j : j \notin Upto(0)
    <3> SUFFICES ASSUME NEW j, j \in Upto(0) PROVE FALSE
      OBVIOUS
    <3> HIDE DEF Upto, Enough
    <3>1. j \in S /\ j <= 0
      BY <2>0
    <3> QED
      BY <1>9, <3>1
  <2> HIDE DEF Upto
  <2>2. Cardinality(Upto(0)) = 0
    <3>1. Upto(0) = {}
      BY <2>1
    <3> QED
      BY <3>1, FS_EmptySet
  <2> QED
    BY <2>2
<1>6. Cardinality(Upto(k - 1)) < i
  <2> HIDE DEF Upto
  <2>1. k \in 0..n /\ k - 1 \in 0..n
    BY <1>5
  <2>2. k - 1 \notin Enough
    <3> HIDE DEF Enough
    <3> QED
      BY <1>4, <2>1
  <2>3. Cardinality(Upto(k - 1)) \in Nat
    BY <1>2, <2>1
  <2> QED
    BY <2>1, <2>2, <2>3
<1>7. Cardinality(Upto(k)) = Cardinality(Upto(k - 1)) + One(k \in S)
  <2>0. k \in Nat /\ k - 1 \in Nat
    <3> HIDE DEF Upto
    <3> QED
      BY <1>5
  <2>1. /\ k \in Nat /\ k - 1 \in Nat
        /\ \A y : y # k => (y \in Upto(k - 1) <=> y \in Upto(k))
        /\ k \notin Upto(k - 1) /\ (k \in Upto(k) <=> k \in S)
    <3>1. \A y : /\ y \in Upto(k) <=> y \in S /\ y <= k
                 /\ y \in Upto(k - 1) <=> y \in S /\ y <= k - 1
      OBVIOUS
    <3> HIDE DEF Upto, Enough
    <3>2. \A y : y # k => (y \in Upto(k - 1) <=> y \in Upto(k))
      <4> TAKE y
      <4> HAVE y # k
      <4>1. CASE y \in S
        BY <1>9, <2>0, <3>1, <4>1
      <4> QED
        BY <3>1, <4>1
    <3>3. k \notin Upto(k - 1) /\ (k \in Upto(k) <=> k \in S)
      BY <2>0, <3>1
    <3> QED
      BY <2>0, <3>2, <3>3
  <2>2. IsFiniteSet(Upto(k - 1)) /\ Cardinality(Upto(k - 1)) \in Nat
    BY <1>2, <2>1
  <2> HIDE DEF Upto
  <2>3. Cardinality(Upto(k)) = Cardinality(Upto(k - 1)) + One(k \in Upto(k)) - One(k \in Upto(k - 1))
    BY <2>1, <2>2, OneElement
  <2> QED
    BY <2>1, <2>2, <2>3 DEF One
<1>8. k \in S /\ Cardinality(Upto(k)) = i
  <2> HIDE DEF Upto
  <2>1. Cardinality(Upto(k)) >= i /\ k \in Nat /\ k - 1 \in Nat
    BY <1>5
  <2> HIDE DEF Enough
  <2>2. Cardinality(Upto(k)) \in Nat /\ Cardinality(Upto(k - 1)) \in Nat
    BY <1>2, <2>1
  <2> QED
    BY <1>6, <1>7, <2>1, <2>2 DEF One
<1> QED
  BY <1>8

\* No two elements have the same number of elements below them.
LEMMA RankIsOwn ==
  ASSUME NEW n \in Nat, NEW S, S \subseteq 1..n
  PROVE  \A k, m \in S : Cardinality({j \in S : j <= k}) = Cardinality({j \in S : j <= m}) => k = m
<1> DEFINE Upto(k) == {j \in S : j <= k}
<1>0. \A j \in S : j \in Nat
  OBVIOUS
<1>1. IsFiniteSet(S)
  <2>1. IsFiniteSet(1..n)
    BY FS_Interval
  <2> QED
    BY <2>1, FS_Subset
<1>2. ASSUME NEW k \in S, NEW m \in S, Cardinality(Upto(k)) = Cardinality(Upto(m)), k < m
      PROVE  FALSE
  <2>1. Upto(m) \subseteq S /\ Upto(k) \subseteq Upto(m)
    <3>1. \A j \in S : j <= k => j <= m
      BY <1>0, <1>2
    <3>2. \A a, j : j \in Upto(a) <=> j \in S /\ j <= a
      OBVIOUS
    <3> HIDE DEF Upto
    <3> QED
      BY <3>1, <3>2
  <2>2. m \in Upto(m) /\ m \notin Upto(k)
    BY <1>0, <1>2
  <2> HIDE DEF Upto
  <2>3. IsFiniteSet(Upto(m))
    BY <1>1, <2>1, FS_Subset
  <2>4. Upto(k) = Upto(m)
    BY <1>2, <2>1, <2>3, FS_Subset
  <2> QED
    BY <2>2, <2>4
<1> SUFFICES ASSUME NEW k \in S, NEW m \in S, Cardinality(Upto(k)) = Cardinality(Upto(m))
             PROVE  k = m
  OBVIOUS
<1> HIDE DEF Upto
<1>3. k \in Nat /\ m \in Nat
  OBVIOUS
<1> QED
  BY <1>2, <1>3

\* Counting on from a, modulo n.
LEMMA CountingOn ==
  ASSUME NEW n \in Nat \ {0}, NEW a \in Nat, NEW k \in 0..(n - 1)
  PROVE  /\ a % n \in 0..(n - 1)
         /\ (a + k) % n = IF (a % n) + k < n THEN (a % n) + k ELSE (a % n) + k - n
<1> DEFINE r == a % n
           q == a \div n
<1>1. r \in 0..(n - 1) /\ q \in Int /\ a = (n * q) + r
  OBVIOUS
<1>2. \A p \in Int, s \in 0..(n - 1) : ((n * p) + s) % n = s
  OBVIOUS
<1> HIDE DEF r, q
<1>3. CASE r + k < n
  <2>1. (a + k) = (n * q) + (r + k) /\ r + k \in 0..(n - 1)
    BY <1>1, <1>3
  <2> QED
    BY <1>1, <1>2, <1>3, <2>1 DEF r
<1>4. CASE r + k >= n
  <2> DEFINE p == q + 1
             s == r + k - n
  <2>1. p \in Int /\ s \in 0..(n - 1) /\ n * p = (n * q) + n
    BY <1>1, <1>4
  <2>2. a + k = (n * p) + s
    BY <1>1, <2>1
  <2> HIDE DEF p, s
  <2>3. (a + k) % n = s
    BY <1>2, <2>1, <2>2
  <2> QED
    BY <1>1, <1>4, <2>3 DEF r, s
<1> QED
  BY <1>1, <1>3, <1>4

\* f is a, g[a], g[g[a]] and so on.
Iterates(f, a, g, S) == f \in [Nat -> S] /\ f[0] = a /\ \A n \in Nat : f[n + 1] = g[f[n]]

\* Applying g again and again to a makes a sequence without end.
LEMMA Iterated ==
  ASSUME NEW S, NEW a \in S, NEW g \in [S -> S]
  PROVE  \E f : Iterates(f, a, g, S)
<1> DEFINE Upto(n, h) == /\ h \in [0..n -> S] /\ h[0] = a
                         /\ \A k \in 0..(n - 1) : h[k + 1] = g[h[k]]
           Without == {n \in Nat : ~\E h : Upto(n, h)}
           f == [n \in Nat |-> (CHOOSE h : Upto(n, h))[n]]
<1>1. \A n \in Nat : \E h : Upto(n, h)
  <2>1. SUFFICES Without = {}
    OBVIOUS
  <2>2. SUFFICES ASSUME Without # {} PROVE FALSE
    OBVIOUS
  <2>3. PICK n \in Without : \A m \in Without : n <= m
    <3>1. Without \subseteq Nat
      OBVIOUS
    <3> HIDE DEF Without
    <3> QED
      BY <2>2, <3>1, LeastElement
  <2>4. n # 0
    <3> DEFINE h == [k \in 0..0 |-> a]
    <3>1. Upto(0, h)
      OBVIOUS
    <3> HIDE DEF Upto, h
    <3> QED
      BY <3>1
  <2>5. PICK h : Upto(n - 1, h)
    <3>1. n \in Nat /\ n - 1 \in Nat
      BY <2>4
    <3>2. n - 1 \notin Without
      <4> HIDE DEF Without
      <4> QED
        BY <2>3, <3>1
    <3> HIDE DEF Upto
    <3> QED
      BY <3>1, <3>2
  <2> DEFINE longer == [k \in 0..n |-> IF k = n THEN g[h[n - 1]] ELSE h[k]]
  <2>6. Upto(n, longer)
    <3>1. n \in Nat /\ n - 1 \in Nat /\ n - 1 >= 0
      BY <2>4
    <3>2. \A k \in 0..(n - 1) : h[k] \in S
      BY <2>5
    <3>3. longer \in [0..n -> S] /\ longer[0] = a
      BY <2>5, <3>1, <3>2
    <3>4. ASSUME NEW k \in 0..(n - 1) PROVE longer[k + 1] = g[longer[k]]
      <4>1. CASE k = n - 1
        BY <3>1, <4>1
      <4>2. CASE k # n - 1
        <5>1. k \in 0..((n - 1) - 1) /\ k # n /\ k + 1 # n /\ k + 1 \in 0..n
          BY <3>1, <4>2
        <5> QED
          BY <2>5, <5>1
      <4> QED
        BY <4>1, <4>2
    <3> HIDE DEF longer
    <3> QED
      BY <3>3, <3>4
  <2> HIDE DEF Upto
  <2> QED
    BY <2>3, <2>6
<1>2. ASSUME NEW n \in Nat, NEW m \in Nat, n <= m, NEW h, NEW k, Upto(n, h), Upto(m, k)
      PROVE  h[n] = k[n]
  <2> DEFINE Differ == {i \in 0..n : h[i] # k[i]}
  <2>1. SUFFICES ASSUME Differ # {} PROVE FALSE
    BY <1>2
  <2>2. PICK i \in Differ : \A j \in Differ : i <= j
    <3>1. Differ \subseteq Nat
      OBVIOUS
    <3> HIDE DEF Differ
    <3> QED
      BY <2>1, <3>1, LeastElement
  <2>3. i # 0
    BY <1>2
  <2>4. i - 1 \in 0..n /\ i - 1 \notin Differ
    <3>1. i \in 0..n /\ i - 1 \in 0..n /\ ~(i <= i - 1)
      BY <2>3
    <3> HIDE DEF Differ
    <3> QED
      BY <2>2, <3>1
  <2>5. i - 1 \in 0..(n - 1) /\ i - 1 \in 0..(m - 1)
    BY <1>2, <2>3
  <2>6. h[(i - 1) + 1] = g[h[i - 1]] /\ k[(i - 1) + 1] = g[k[i - 1]]
    BY <1>2, <2>5
  <2> QED
    BY <2>2, <2>4, <2>6
<1>3. \A n \in Nat : Upto(n, CHOOSE h : Upto(n, h))
  <2> HIDE DEF Upto
  <2> QED
    BY <1>1
<1>4. ASSUME NEW n \in Nat
      PROVE  f[n] \in S /\ f[n + 1] = g[f[n]]
  <2> DEFINE h == CHOOSE h : Upto(n, h)
             k == CHOOSE k : Upto(n + 1, k)
  <2>0. n + 1 \in Nat
    OBVIOUS
  <2>1. Upto(n, h) /\ Upto(n + 1, k) /\ n + 1 \in Nat
    <3> HIDE DEF Upto
    <3> QED
      BY <1>3, <2>0
  <2>2. f[n] = h[n] /\ f[n + 1] = k[n + 1]
    <3> HIDE DEF Upto
    <3> QED
      BY <2>1
  <2> HIDE DEF h, k, f
  <2>3. h[n] = k[n]
    <3> HIDE DEF Upto
    <3> QED
      BY <1>2, <2>1
  <2>4. h[n] \in S /\ k[n + 1] = g[k[n]]
    BY <2>1
  <2> QED
    BY <2>2, <2>3, <2>4
<1>5. f[0] = a
  <2>1. Upto(0, CHOOSE h : Upto(0, h))
    BY <1>3
  <2> QED
    BY <2>1
<1>6. f \in [Nat -> S]
  <2> HIDE DEF Upto
  <2>1. f = [n \in Nat |-> f[n]]
    OBVIOUS
  <2> HIDE DEF f
  <2> QED
    BY <1>4, <2>1
<1> HIDE DEF f
<1> QED
  BY <1>4, <1>5, <1>6 DEF Iterates


\* What holds of x once it holds of all that is smaller holds of every x.
LEMMA SmallestFirst ==
  ASSUME NEW X, NEW P, NEW size \in [X -> Nat],
         \A x \in X : (\A y \in X : size[y] < size[x] => y \in P) => x \in P
  PROVE  X \subseteq P
<1> DEFINE Bad == {n \in Nat : \E x \in X : size[x] = n /\ x \notin P}
<1>1. SUFFICES ASSUME NEW x \in X, x \notin P PROVE FALSE
  OBVIOUS
<1>2. size[x] \in Bad /\ Bad \subseteq Nat
  BY <1>1
<1> HIDE DEF Bad
<1>3. PICK n \in Bad : \A l \in Bad : n <= l
  BY <1>2, LeastElement
<1>4. PICK z \in X : size[z] = n /\ z \notin P
  BY <1>3 DEF Bad
<1>5. ASSUME NEW y \in X, size[y] < size[z] PROVE y \in P
  <2>1. size[y] \in Nat /\ n \in Nat /\ ~(n <= size[y])
    BY <1>2, <1>3, <1>4, <1>5
  <2>2. size[y] \notin Bad
    BY <1>3, <2>1
  <2> QED
    BY <2>1, <2>2 DEF Bad
<1> QED
  BY <1>4, <1>5

\* f solves f = g[f], the equation of a recursive definition.
Solves(f, g) == f = g[f]

\* What g makes of a function at x depends on its values at what is smaller.
Descends(g, size, X, V) ==
  \A h, k \in [X -> V] : \A x \in X :
    (\A y \in X : size[y] < size[x] => h[y] = k[y]) => g[h][x] = g[k][x]

\* A recursive definition whose value depends on those of smaller arguments has
\* a solution.
LEMMA Recursion ==
  ASSUME NEW X, NEW V, NEW v \in V, NEW size \in [X -> Nat],
         NEW g \in [[X -> V] -> [X -> V]], Descends(g, size, X, V)
  PROVE  \E f \in [X -> V] : Solves(f, g)
<1> USE DEF Descends
<1> DEFINE S == [X -> V]
           a == [x \in X |-> v]
<1>1. PICK f : Iterates(f, a, g, S)
  <2>1. a \in S /\ g \in [S -> S]
    OBVIOUS
  <2> HIDE DEF S, a
  <2> QED
    BY <2>1, Iterated
<1>2. f \in [Nat -> S] /\ \A n \in Nat : f[n + 1] = g[f[n]]
  BY <1>1 DEF Iterates
<1> DEFINE Settled(n) == \A x \in X : size[x] < n => f[n][x] = f[n + 1][x]
           Unsettled == {n \in Nat : ~Settled(n)}
<1>3. \A n \in Nat : Settled(n)
  <2>1. SUFFICES ASSUME Unsettled # {} PROVE FALSE
    OBVIOUS
  <2>2. PICK n \in Unsettled : \A l \in Unsettled : n <= l
    <3>1. Unsettled \subseteq Nat
      OBVIOUS
    <3> HIDE DEF Unsettled
    <3> QED
      BY <2>1, <3>1, LeastElement
  <2>3. n \in Nat /\ ~Settled(n)
    OBVIOUS
  <2>4. PICK x \in X : size[x] < n /\ f[n][x] # f[n + 1][x]
    BY <2>3
  <2>5. size[x] \in Nat /\ n # 0 /\ n - 1 \in Nat /\ n = (n - 1) + 1 /\ ~(n <= n - 1)
    BY <2>3, <2>4
  <2>6. Settled(n - 1)
    <3>1. n - 1 \notin Unsettled
      <4> HIDE DEF Unsettled
      <4> QED
        BY <2>2, <2>5
    <3> HIDE DEF Settled
    <3> QED
      BY <2>5, <3>1
  <2>7. \A y \in X : size[y] < size[x] => f[n - 1][y] = f[n][y]
    <3> TAKE y \in X
    <3> HAVE size[y] < size[x]
    <3>1. size[y] \in Nat /\ size[y] < n - 1
      BY <2>3, <2>4, <2>5
    <3> QED
      BY <2>5, <2>6, <3>1
  <2>8. f[n] = g[f[n - 1]] /\ f[n + 1] = g[f[n]] /\ f[n - 1] \in S /\ f[n] \in S
    BY <1>2, <2>3, <2>5
  <2> QED
    BY <2>4, <2>7, <2>8
<1> HIDE DEF Settled, Unsettled
<1> DEFINE fix == [x \in X |-> f[size[x] + 1][x]]
           Reaches(x, n) == size[x] < n => f[n][x] = fix[x]
           Late(x) == {n \in Nat : ~Reaches(x, n)}
<1>4. \A x \in X : \A n \in Nat : Reaches(x, n)
  <2> SUFFICES ASSUME NEW x \in X PROVE \A n \in Nat : Reaches(x, n)
    OBVIOUS
  <2>1. SUFFICES ASSUME Late(x) # {} PROVE FALSE
    OBVIOUS
  <2>2. PICK n \in Late(x) : \A l \in Late(x) : n <= l
    <3>1. Late(x) \subseteq Nat
      OBVIOUS
    <3> HIDE DEF Late
    <3> QED
      BY <2>1, <3>1, LeastElement
  <2>3. n \in Nat /\ size[x] \in Nat /\ size[x] < n /\ f[n][x] # fix[x]
    OBVIOUS
  <2>4. fix[x] = f[size[x] + 1][x]
    OBVIOUS
  <2>5. size[x] + 1 # n
    BY <2>3, <2>4
  <2>6. n - 1 \in Nat /\ size[x] < n - 1 /\ (n - 1) + 1 = n /\ ~(n <= n - 1)
    BY <2>3, <2>5
  <2>7. f[n - 1][x] = fix[x]
    <3>1. n - 1 \notin Late(x)
      <4> HIDE DEF Late
      <4> QED
        BY <2>2, <2>6
    <3> HIDE DEF fix
    <3> QED
      BY <2>6, <3>1
  <2>8. f[n - 1][x] = f[n][x]
    BY <1>3, <2>6 DEF Settled
  <2> QED
    BY <2>3, <2>7, <2>8
<1>5. fix \in S
  BY <1>2
<1>6. ASSUME NEW x \in X PROVE fix[x] = g[fix][x]
  <2> DEFINE n == size[x] + 1
  <2>1. n \in Nat /\ n + 1 \in Nat /\ size[x] \in Nat /\ size[x] < n + 1
    OBVIOUS
  <2>2. \A y \in X : size[y] < size[x] => f[n][y] = fix[y]
    <3> TAKE y \in X
    <3> HAVE size[y] < size[x]
    <3>1. size[y] \in Nat /\ size[y] < n
      BY <2>1
    <3> HIDE DEF n, fix
    <3> QED
      BY <1>4, <2>1, <3>1
  <2> HIDE DEF n
  <2>3. f[n + 1] = g[f[n]] /\ f[n] \in S
    BY <1>2, <2>1
  <2>4. f[n + 1][x] = fix[x]
    <3> HIDE DEF fix
    <3> QED
      BY <1>4, <2>1
  <2> HIDE DEF fix
  <2>5. g[f[n]][x] = g[fix][x]
    BY <1>5, <2>2, <2>3
  <2> QED
    BY <2>3, <2>4, <2>5
<1>7. g[fix] \in S
  <2> HIDE DEF fix
  <2> QED
    BY <1>5
<1> HIDE DEF fix
<1>8. fix = g[fix]
  BY <1>5, <1>6, <1>7
<1> QED
  BY <1>5, <1>8 DEF Solves
=============================================================================
