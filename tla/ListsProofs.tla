----------------------------- MODULE ListsProofs -----------------------------
(* Facts about lists, places in them and functions defined by recursion that *)
(* the proofs of several parts rest on.                                      *)
EXTENDS Lists, FiniteSetTheorems, SequenceTheorems, WellFoundedInduction, TLAPS

-----------------------------------------------------------------------------
(* Every non-empty set of numbers has a least, and a greatest when it is     *)
(* bounded.                                                                  *)

LEMMA LeastOf ==
  ASSUME NEW S \in SUBSET Nat, S # {}
  PROVE  \E m \in S : \A n \in S : m <= n
<1> DEFINE Below == {p \in Nat \X Nat : p[1] < p[2]}
<1>1. IsWellFoundedOn(Below, Nat)
  BY NatLessThanWellFounded DEF OpToRel
<1> HIDE DEF Below
<1>2. PICK m \in S : \A n \in S : <<n, m>> \notin Below
  BY <1>1, WFMin
<1>3. \A n \in S : ~ (n < m)
  BY <1>2 DEF Below
<1> QED BY <1>3

LEMMA GreatestOf ==
  ASSUME NEW n \in Nat, NEW S \in SUBSET (0 .. n), S # {}
  PROVE  \E m \in S : \A x \in S : x <= m
<1> DEFINE R == {n - x : x \in S}
<1>1. R \in SUBSET Nat /\ R # {}
  <2>1. \A x \in S : n - x \in Nat /\ n - x \in R
    OBVIOUS
  <2> QED BY <2>1
<1> HIDE DEF R
<1>2. PICK r \in R : \A y \in R : r <= y
  BY <1>1, LeastOf
<1> USE DEF R
<1>3. PICK m \in S : r = n - m
  BY <1>2
<1>4. ASSUME NEW x \in S PROVE x <= m
  <2>1. n - x \in R /\ r <= n - x
    BY <1>2
  <2> QED BY <1>3, <2>1
<1> QED BY <1>4

-----------------------------------------------------------------------------
(* Lists one after the other, and lists without some elements.               *)

Elements(q) == {q[i] : i \in DOMAIN q}

LEMMA ConcatOf ==
  ASSUME NEW T, NEW p \in Seq(T), NEW q \in Seq(T)
  PROVE  /\ p \o q \in Seq(T) /\ Len(p \o q) = Len(p) + Len(q)
         /\ DOMAIN (p \o q) = 1 .. (Len(p) + Len(q))
         /\ \A i \in 1 .. Len(p) : (p \o q)[i] = p[i]
         /\ \A i \in 1 .. Len(q) : (p \o q)[Len(p) + i] = q[i]
<1> DEFINE r == p \o q  m == Len(p)  n == Len(q)
<1>1. m \in Nat /\ n \in Nat
  BY LenProperties
<1>2. /\ r \in Seq(T) /\ Len(r) = m + n
      /\ \A i \in 1 .. m + n : r[i] = IF i <= m THEN p[i] ELSE q[i - m]
  BY ConcatProperties
<1>3. DOMAIN r = 1 .. Len(r)
  BY <1>2, LenProperties
<1> HIDE DEF r, m, n
<1>4. \A i \in 1 .. m : r[i] = p[i]
  BY <1>1, <1>2
<1>5. ASSUME NEW i \in 1 .. n PROVE r[m + i] = q[i]
  <2> DEFINE j == m + i
  <2>1. j \in 1 .. m + n /\ ~(j <= m) /\ j - m = i
    BY <1>1
  <2> HIDE DEF j
  <2>2. r[j] = q[i]
    BY <1>2, <2>1
  <2> QED BY <2>2 DEF j
<1> QED BY <1>2, <1>3, <1>4, <1>5 DEF r, m, n

(* The rank of a place among those that are kept.                          *)
LEMMA RankOf ==
  ASSUME NEW n \in Nat, NEW K \in SUBSET (1 .. n)
  PROVE  /\ IsFiniteSet(K) /\ Cardinality(K) \in Nat
         /\ \A i \in K : Rank(K, i) \in 1 .. Cardinality(K)
         /\ \A i, j \in K : i < j => Rank(K, i) < Rank(K, j)
         /\ \A k \in 1 .. Cardinality(K) : \E i \in K : Rank(K, i) = k
<1> DEFINE R(i) == {j \in K : j <= i}
           f == [i \in K |-> Rank(K, i)]
<1>1. IsFiniteSet(K) /\ Cardinality(K) \in Nat
  <2>1. IsFiniteSet(1 .. n)
    BY FS_Interval
  <2>2. IsFiniteSet(K)
    BY <2>1, FS_Subset
  <2> QED BY <2>2, FS_CardinalityType
<1>2. \A i \in K : /\ IsFiniteSet(R(i)) /\ Cardinality(R(i)) \in Nat
                   /\ Cardinality(R(i)) <= Cardinality(K)
                   /\ Cardinality(R(i)) # 0
  <2> SUFFICES ASSUME NEW i \in K
               PROVE  /\ IsFiniteSet(R(i)) /\ Cardinality(R(i)) \in Nat
                      /\ Cardinality(R(i)) <= Cardinality(K)
                      /\ Cardinality(R(i)) # 0
    OBVIOUS
  <2> DEFINE A == R(i)
  <2>1. A \in SUBSET K /\ i \in A
    OBVIOUS
  <2> HIDE DEF A
  <2>2. IsFiniteSet(A) /\ Cardinality(A) <= Cardinality(K)
    BY <1>1, <2>1, FS_Subset
  <2>3. Cardinality(A) \in Nat /\ Cardinality(A) # 0
    BY <2>1, <2>2, FS_CardinalityType, FS_EmptySet
  <2> QED BY <2>2, <2>3 DEF A
<1>3. \A i \in K : Rank(K, i) \in 1 .. Cardinality(K)
  BY <1>1, <1>2 DEF Rank
<1>4. \A i, j \in K : i < j => Rank(K, i) < Rank(K, j)
  <2> SUFFICES ASSUME NEW i \in K, NEW j \in K, i < j
               PROVE  Cardinality(R(i)) < Cardinality(R(j))
    BY DEF Rank
  <2> DEFINE A == R(i)  B == R(j)
  <2>0. \A k \in K : k \in Int
    OBVIOUS
  <2>1. A \cup {j} \in SUBSET B /\ j \notin A
    <3>1. \A k \in A : k \in K /\ k <= i
      OBVIOUS
    <3>2. \A k \in K : k <= i => k <= j
      BY <2>0
    <3>3. ~(j <= i) /\ j <= j
      BY <2>0
    <3>4. \A k \in A : k \in B
      BY <3>1, <3>2
    <3>5. j \in B
      BY <3>3
    <3>6. j \notin A
      BY <3>1, <3>3
    <3> HIDE DEF A, B
    <3> QED BY <3>4, <3>5, <3>6
  <2>2. IsFiniteSet(A) /\ IsFiniteSet(B) /\ Cardinality(A) \in Nat /\ Cardinality(B) \in Nat
    BY <1>2
  <2> HIDE DEF A, B
  <2>3. Cardinality(A \cup {j}) = Cardinality(A) + 1
    BY <2>1, <2>2, FS_AddElement
  <2>4. Cardinality(A \cup {j}) <= Cardinality(B)
    BY <2>1, <2>2, FS_Subset
  <2>5. Cardinality(A) < Cardinality(B)
    BY <2>2, <2>3, <2>4
  <2> QED BY <2>5 DEF A, B
<1>5. f \in Injection(K, 1 .. Cardinality(K))
  BY <1>3, <1>4 DEF Injection, IsInjective
<1>6. f \in Surjection(K, 1 .. Cardinality(K))
  <2>1. IsFiniteSet(1 .. Cardinality(K)) /\ Cardinality(1 .. Cardinality(K)) = Cardinality(K)
    BY <1>1, FS_Interval
  <2> QED BY <1>1, <1>5, <2>1, FS_Injection
<1>7. \A k \in 1 .. Cardinality(K) : \E i \in K : Rank(K, i) = k
  BY <1>6 DEF Surjection
<1> QED BY <1>1, <1>3, <1>4, <1>7

(* Without(q, S) is q read at increasing positions: those not in S.          *)
LEMMA WithoutOf ==
  ASSUME NEW T, NEW q \in Seq(T), NEW S
  PROVE  /\ Without(q, S) \in Seq(T)
         /\ Elements(Without(q, S)) = Elements(q) \ S
         /\ \E f \in [DOMAIN Without(q, S) -> DOMAIN q] :
              /\ \A k \in DOMAIN Without(q, S) : Without(q, S)[k] = q[f[k]]
              /\ \A i, j \in DOMAIN Without(q, S) : i < j => f[i] < f[j]
<1> DEFINE K == Kept(q, S)
           n == Cardinality(K)
           r == Without(q, S)
           f == [k \in 1 .. n |-> CHOOSE i \in K : Rank(K, i) = k]
<1>1. Len(q) \in Nat /\ DOMAIN q = 1 .. Len(q) /\ q \in [1 .. Len(q) -> T]
  BY LenProperties
<1>2. K \in SUBSET (1 .. Len(q)) /\ \A i \in K : i \in DOMAIN q /\ q[i] \notin S
  BY <1>1 DEF Kept
<1>3. /\ n \in Nat
      /\ \A i \in K : Rank(K, i) \in 1 .. n
      /\ \A i, j \in K : i < j => Rank(K, i) < Rank(K, j)
      /\ \A k \in 1 .. n : \E i \in K : Rank(K, i) = k
  BY <1>1, <1>2, RankOf
<1>4. r = [k \in 1 .. n |-> q[f[k]]]
  BY DEF Without
<1>5. \A i \in DOMAIN q : q[i] \notin S => i \in K
  BY DEF Kept
<1> HIDE DEF K, n, r
<1>6. \A k \in 1 .. n : f[k] \in K /\ Rank(K, f[k]) = k
  BY <1>3
<1> HIDE DEF f
<1>7. \A i \in K : \E k \in 1 .. n : f[k] = i
  <2> SUFFICES ASSUME NEW i \in K PROVE f[Rank(K, i)] = i
    BY <1>3
  <2> DEFINE j == f[Rank(K, i)]
  <2>1. j \in K /\ Rank(K, j) = Rank(K, i)
    BY <1>3, <1>6
  <2> HIDE DEF j
  <2>2. i \in Int /\ j \in Int /\ Rank(K, i) \in Int
    BY <1>1, <1>2, <1>3, <2>1
  <2>3. ~(i < j) /\ ~(j < i)
    BY <1>3, <2>1, <2>2
  <2> QED BY <2>2, <2>3 DEF j
<1>8. r \in Seq(T) /\ DOMAIN r = 1 .. n
  <2>1. r \in [1 .. n -> T]
    BY <1>1, <1>2, <1>4, <1>6
  <2> QED BY <1>3, <2>1, SeqDef
<1>9. Elements(r) = Elements(q) \ S
  <2>1. \A k \in DOMAIN r : r[k] = q[f[k]] /\ f[k] \in DOMAIN q /\ q[f[k]] \notin S
    BY <1>2, <1>4, <1>6
  <2>2. \A i \in DOMAIN q : q[i] \notin S => \E k \in DOMAIN r : r[k] = q[i]
    BY <1>4, <1>5, <1>7
  <2> QED BY <2>1, <2>2 DEF Elements
<1>10. f \in [DOMAIN r -> DOMAIN q]
  BY <1>2, <1>6, <1>8 DEF f
<1>11. \A i, j \in DOMAIN r : i < j => f[i] < f[j]
  <2> SUFFICES ASSUME NEW i \in 1 .. n, NEW j \in 1 .. n, i < j PROVE f[i] < f[j]
    BY <1>8
  <2>1. f[i] \in K /\ f[j] \in K /\ Rank(K, f[i]) = i /\ Rank(K, f[j]) = j
    BY <1>6
  <2>2. f[i] \in Int /\ f[j] \in Int
    <3>1. f[i] \in 1 .. Len(q) /\ f[j] \in 1 .. Len(q)
      BY <1>2, <2>1
    <3> QED BY <1>1, <3>1
  <2>3. ~(f[j] < f[i]) /\ f[i] # f[j]
    BY <1>3, <2>1
  <2> QED BY <2>2, <2>3
<1>12. \A k \in DOMAIN r : r[k] = q[f[k]]
  BY <1>4, <1>8
<1> QED BY <1>8, <1>9, <1>10, <1>11, <1>12 DEF r


(* What is left of a list in which nothing comes twice, and its length.      *)
LEMMA WithoutInjective ==
  ASSUME NEW T, NEW q \in Seq(T), NEW S,
         \A i, j \in DOMAIN q : q[i] = q[j] => i = j
  PROVE  \A i, j \in DOMAIN Without(q, S) : Without(q, S)[i] = Without(q, S)[j] => i = j
<1> DEFINE r == Without(q, S)
<1>1. /\ r \in Seq(T)
      /\ \E f \in [DOMAIN r -> DOMAIN q] :
           /\ \A k \in DOMAIN r : r[k] = q[f[k]]
           /\ \A i, j \in DOMAIN r : i < j => f[i] < f[j]
  BY WithoutOf
<1> HIDE DEF r
<1>2. PICK f \in [DOMAIN r -> DOMAIN q] :
           /\ \A k \in DOMAIN r : r[k] = q[f[k]]
           /\ \A i, j \in DOMAIN r : i < j => f[i] < f[j]
  BY <1>1
<1>3. ASSUME NEW i \in DOMAIN r, NEW j \in DOMAIN r, r[i] = r[j] PROVE i = j
  <2>1. f[i] = f[j]
    BY <1>2, <1>3
  <2>2. i \in Int /\ j \in Int /\ f[i] \in Int /\ f[j] \in Int
    <3>1. DOMAIN r = 1 .. Len(r) /\ Len(r) \in Nat /\ DOMAIN q = 1 .. Len(q) /\ Len(q) \in Nat
      BY <1>1, LenProperties
    <3> QED BY <3>1
  <2>3. ~(i < j) /\ ~(j < i)
    BY <1>2, <2>1, <2>2
  <2> QED BY <2>2, <2>3
<1> QED BY <1>3 DEF r

LEMMA WithoutLength ==
  ASSUME NEW T, NEW q \in Seq(T), NEW S
  PROVE  /\ Len(Without(q, S)) \in Nat /\ Len(q) \in Nat
         /\ Len(Without(q, S)) <= Len(q)
         /\ Len(Without(q, S)) = Len(q) <=> Elements(q) \cap S = {}
<1> DEFINE K == Kept(q, S)
           r == Without(q, S)
<1>1. Len(q) \in Nat /\ DOMAIN q = 1 .. Len(q)
  BY LenProperties
<1>2. IsFiniteSet(1 .. Len(q)) /\ Cardinality(1 .. Len(q)) = Len(q)
  BY <1>1, FS_Interval
<1>3. K \in SUBSET (1 .. Len(q))
  BY <1>1 DEF Kept
<1>4. r = [k \in 1 .. Cardinality(K) |-> q[CHOOSE i \in K : Rank(K, i) = k]]
  BY DEF Without
<1>5. K = 1 .. Len(q) <=> Elements(q) \cap S = {}
  BY <1>1 DEF Kept, Elements
<1> HIDE DEF K
<1>6. IsFiniteSet(K) /\ Cardinality(K) \in Nat /\ Cardinality(K) <= Len(q)
      /\ (Cardinality(K) = Len(q) => K = 1 .. Len(q))
  BY <1>2, <1>3, FS_Subset, FS_CardinalityType
<1>7. Len(r) = Cardinality(K)
  <2>1. r \in Seq(T)
    BY WithoutOf
  <2>2. DOMAIN r = 1 .. Cardinality(K) /\ DOMAIN r = 1 .. Len(r) /\ Len(r) \in Nat
    BY <1>4, <2>1, LenProperties
  <2> QED BY <1>6, <2>2
<1> QED BY <1>1, <1>2, <1>5, <1>6, <1>7 DEF r

(* A list with one more element, and the empty list.                        *)
LEMMA AppendElements ==
  ASSUME NEW T, NEW q \in Seq(T), NEW x \in T
  PROVE  /\ Append(q, x) \in Seq(T)
         /\ Elements(Append(q, x)) = Elements(q) \cup {x}
         /\ Len(Append(q, x)) = Len(q) + 1 /\ Len(q) \in Nat
         /\ (\A i, j \in DOMAIN q : q[i] = q[j] => i = j) /\ x \notin Elements(q) =>
              \A i, j \in DOMAIN Append(q, x) : Append(q, x)[i] = Append(q, x)[j] => i = j
<1> DEFINE r == Append(q, x)
           n == Len(q)
<1>1. /\ r \in Seq(T) /\ n \in Nat /\ DOMAIN q = 1 .. n /\ DOMAIN r = 1 .. n + 1 /\ Len(r) = n + 1
      /\ \A i \in 1 .. n : r[i] = q[i]
      /\ r[n + 1] = x
  OBVIOUS
<1> HIDE DEF r, n
<1>2. Elements(r) = Elements(q) \cup {x}
  <2>1. \A i \in 1 .. n + 1 : i \in 1 .. n \/ i = n + 1
    BY <1>1
  <2>2. 1 .. n \subseteq 1 .. n + 1 /\ n + 1 \in 1 .. n + 1
    BY <1>1
  <2> QED BY <1>1, <2>1, <2>2 DEF Elements
<1>3. ASSUME \A i, j \in DOMAIN q : q[i] = q[j] => i = j, x \notin Elements(q),
             NEW i \in DOMAIN r, NEW j \in DOMAIN r, r[i] = r[j]
      PROVE  i = j
  <2>1. \A k \in 1 .. n : q[k] # x
    BY <1>1, <1>3 DEF Elements
  <2> QED BY <1>1, <1>3, <2>1
<1> QED BY <1>1, <1>2, <1>3 DEF r, n

LEMMA NoElements ==
  ASSUME NEW T, NEW q \in Seq(T)
  PROVE  /\ Elements(q) \subseteq T /\ Elements(<<>>) = {}
         /\ q = <<>> <=> Elements(q) = {}
         /\ q = <<>> <=> Len(q) = 0
<1>1. Len(q) \in Nat /\ DOMAIN q = 1 .. Len(q) /\ q \in [1 .. Len(q) -> T]
  BY LenProperties
<1>2. q = <<>> <=> Len(q) = 0
  BY EmptySeq
<1>3. Elements(q) = {} <=> Len(q) = 0
  <2>1. Len(q) = 0 => DOMAIN q = {}
    BY <1>1
  <2>2. Len(q) # 0 => 1 \in DOMAIN q
    BY <1>1
  <2> QED BY <2>1, <2>2 DEF Elements
<1>4. DOMAIN <<>> = {}
  OBVIOUS
<1> QED BY <1>1, <1>2, <1>3, <1>4 DEF Elements

-----------------------------------------------------------------------------
(* Induction and recursion over any set whose elements have a rank, as        *)
(* statements about sets and functions.                                      *)

LEMMA RankedInduction ==
  ASSUME NEW D, NEW rank \in [D -> Nat], NEW S,
         \A d \in D : (\A e \in D : rank[e] < rank[d] => e \in S) => d \in S
  PROVE  D \subseteq S
<1> SUFFICES ASSUME NEW c \in D \ S PROVE FALSE
  OBVIOUS
<1> DEFINE R == {rank[d] : d \in D \ S}
<1>1. R \in SUBSET Nat /\ R # {}
  OBVIOUS
<1> HIDE DEF R
<1>2. PICK m \in R : \A n \in R : m <= n
  BY <1>1, LeastOf
<1> USE DEF R
<1>3. PICK d \in D \ S : m = rank[d]
  BY <1>2
<1>4. ASSUME NEW e \in D, rank[e] < rank[d] PROVE e \in S
  <2>1. SUFFICES ASSUME e \notin S PROVE FALSE
    OBVIOUS
  <2>2. rank[e] \in R /\ rank[e] \in Nat /\ rank[d] \in Nat
    BY <2>1
  <2> HIDE DEF R
  <2>3. m <= rank[e] /\ m = rank[d]
    BY <1>2, <1>3, <2>2
  <2> QED BY <1>4, <2>2, <2>3
<1> HIDE DEF R
<1> QED BY <1>3, <1>4

LEMMA Predecessor == \A n \in Nat : n # 0 => n - 1 \in Nat /\ n - 1 < n
  OBVIOUS

(* G gives the value at d from the values at what has a lower rank: there is  *)
(* a function that G defines.                                                 *)
LooksBelow(D, rank, X, G) ==
  \A d \in D : \A g, h \in [D -> X] :
    (\A e \in D : rank[e] < rank[d] => g[e] = h[e]) => G[<<d, g>>] = G[<<d, h>>]

HasSolution(D, X, G) == \E f \in [D -> X] : \A d \in D : f[d] = G[<<d, f>>]

LEMMA RankedRecursion ==
  ASSUME NEW D, NEW rank \in [D -> Nat], NEW X, NEW x \in X,
         NEW G \in [D \X [D -> X] -> X], LooksBelow(D, rank, X, G)
  PROVE  HasSolution(D, X, G)
<1> USE DEF LooksBelow, HasSolution
<1> DEFINE Upto(n, g) == \A d \in D : rank[d] < n => g[d] = G[<<d, g>>]
           Reached == {n \in Nat : \E g \in [D -> X] : Upto(n, g)}
<1> HIDE DEF Upto, Reached
<1>1. Nat \subseteq Reached
  <2>1. ASSUME NEW n \in Nat, \A k \in Nat : k < n => k \in Reached PROVE n \in Reached
    <3>1. CASE n = 0
      <4> DEFINE g == [d \in D |-> x]
      <4>1. g \in [D -> X] /\ \A d \in D : rank[d] \in Nat /\ ~(rank[d] < 0)
        OBVIOUS
      <4> QED BY <3>1, <4>1 DEF Upto, Reached
    <3>2. CASE n # 0
      <4>1. n - 1 \in Nat /\ n - 1 < n
        BY <3>2, Predecessor
      <4>2. PICK g \in [D -> X] : Upto(n - 1, g)
        BY <2>1, <4>1 DEF Reached
      <4> DEFINE h == [d \in D |-> G[<<d, g>>]]
      <4>3. h \in [D -> X]
        OBVIOUS
      <4>4. ASSUME NEW d \in D, rank[d] < n PROVE h[d] = G[<<d, h>>]
        <5>1. ASSUME NEW e \in D, rank[e] < rank[d] PROVE g[e] = h[e]
          <6>1. rank[e] < n - 1
            BY <4>4, <5>1
          <6> QED BY <4>2, <6>1 DEF Upto
        <5>2. G[<<d, g>>] = G[<<d, h>>]
          BY <4>3, <5>1
        <5> QED BY <5>2
      <4> QED BY <4>3, <4>4 DEF Upto, Reached
    <3> QED BY <3>1, <3>2
  <2> DEFINE self == [k \in Nat |-> k]
  <2>2. self \in [Nat -> Nat] /\ \A n \in Nat : self[n] = n
    OBVIOUS
  <2> HIDE DEF self
  <2>3. \A n \in Nat : (\A k \in Nat : self[k] < self[n] => k \in Reached) => n \in Reached
    BY <2>1, <2>2
  <2> QED BY <2>2, <2>3, RankedInduction
<1>2. ASSUME NEW n \in Nat, NEW k \in Nat, n <= k,
             NEW g \in [D -> X], NEW h \in [D -> X], Upto(n, g), Upto(k, h)
      PROVE  \A d \in D : rank[d] < n => g[d] = h[d]
  <2> DEFINE Same == {d \in D : rank[d] < n => g[d] = h[d]}
  <2>1. ASSUME NEW d \in D, \A e \in D : rank[e] < rank[d] => e \in Same PROVE d \in Same
    <3>1. SUFFICES ASSUME rank[d] < n PROVE g[d] = h[d]
      OBVIOUS
    <3>2. ASSUME NEW e \in D, rank[e] < rank[d] PROVE g[e] = h[e]
      <4>1. rank[e] < n
        BY <3>1, <3>2
      <4> QED BY <2>1, <3>2, <4>1
    <3>3. rank[d] < k
      BY <1>2, <3>1
    <3> QED BY <1>2, <3>1, <3>2, <3>3 DEF Upto
  <2> HIDE DEF Same
  <2>2. D \subseteq Same
    BY <2>1, RankedInduction
  <2> QED BY <2>2 DEF Same
<1> DEFINE best == [d \in D |-> CHOOSE g \in [D -> X] : Upto(rank[d] + 1, g)]
           f == [d \in D |-> best[d][d]]
<1>3. \A d \in D : best[d] \in [D -> X] /\ Upto(rank[d] + 1, best[d])
  <2> SUFFICES ASSUME NEW d \in D PROVE \E g \in [D -> X] : Upto(rank[d] + 1, g)
    OBVIOUS
  <2>1. rank[d] + 1 \in Nat
    OBVIOUS
  <2> QED BY <1>1, <2>1 DEF Reached
<1> HIDE DEF best
<1>4. f \in [D -> X]
  BY <1>3
<1>5. ASSUME NEW d \in D PROVE f[d] = G[<<d, f>>]
  <2>1. ASSUME NEW e \in D, rank[e] < rank[d] PROVE f[e] = best[d][e]
    <3>1. rank[e] + 1 \in Nat /\ rank[d] + 1 \in Nat /\ rank[e] + 1 <= rank[d] + 1 /\ rank[e] < rank[e] + 1
      BY <2>1
    <3>2. best[e][e] = best[d][e]
      BY <1>2, <1>3, <3>1
    <3> QED BY <3>2
  <2>2. G[<<d, best[d]>>] = G[<<d, f>>]
    BY <1>3, <1>4, <2>1
  <2>3. best[d][d] = G[<<d, best[d]>>]
    <3>1. rank[d] < rank[d] + 1
      OBVIOUS
    <3> QED BY <1>3, <3>1 DEF Upto
  <2> QED BY <2>2, <2>3
<1> QED BY <1>4, <1>5

(* The same along the natural numbers up to n.                               *)
LEMMA StepByStep ==
  ASSUME NEW n \in Nat, NEW S, 0 \in S, \A k \in 1 .. n : k - 1 \in S => k \in S
  PROVE  0 .. n \subseteq S
<1> DEFINE D == 0 .. n
           rank == [k \in D |-> k]
<1>1. rank \in [D -> Nat] /\ \A k \in D : rank[k] = k
  OBVIOUS
<1>2. ASSUME NEW d \in D, \A e \in D : rank[e] < rank[d] => e \in S PROVE d \in S
  <2>1. CASE d = 0
    BY <2>1
  <2>2. CASE d # 0
    <3>1. d \in 1 .. n /\ d - 1 \in D /\ d - 1 < d
      BY <2>2
    <3>2. rank[d - 1] < rank[d]
      BY <1>1, <3>1
    <3>3. d - 1 \in S
      BY <1>2, <3>1, <3>2
    <3> QED BY <3>1, <3>3
  <2> QED BY <2>1, <2>2
<1> HIDE DEF D, rank
<1>3. D \subseteq S
  BY <1>1, <1>2, RankedInduction
<1> QED BY <1>3 DEF D

(* A function that is given at 0 and from each number to the next.          *)
Runs(n, X, x, F) ==
  \E f \in [0 .. n -> X] : f[0] = x /\ \A k \in 1 .. n : f[k] = F[<<k, f[k - 1]>>]

LEMMA RunningFunction ==
  ASSUME NEW n \in Nat, NEW X, NEW x \in X, NEW F \in [(1 .. n) \X X -> X]
  PROVE  Runs(n, X, x, F)
<1> DEFINE D == 0 .. n
           rank == [k \in D |-> k]
           G == [p \in D \X [D -> X] |-> IF p[1] = 0 THEN x ELSE F[<<p[1], p[2][p[1] - 1]>>]]
<1>1. rank \in [D -> Nat] /\ \A k \in D : rank[k] = k
  OBVIOUS
<1>2. \A d \in D : d # 0 => d \in 1 .. n /\ d - 1 \in D /\ d - 1 < d
  OBVIOUS
<1>3. \A d \in D, g \in [D -> X] : G[<<d, g>>] = IF d = 0 THEN x ELSE F[<<d, g[d - 1]>>]
  OBVIOUS
<1>4. G \in [D \X [D -> X] -> X]
  <2>1. ASSUME NEW p \in D \X [D -> X] PROVE (IF p[1] = 0 THEN x ELSE F[<<p[1], p[2][p[1] - 1]>>]) \in X
    <3>1. p[1] \in D /\ p[2] \in [D -> X]
      OBVIOUS
    <3>2. CASE p[1] # 0
      <4>1. p[1] \in 1 .. n /\ p[1] - 1 \in D
        BY <1>2, <3>1, <3>2
      <4>2. p[2][p[1] - 1] \in X
        BY <3>1, <4>1
      <4> QED BY <3>2, <4>1, <4>2
    <3> QED BY <3>2
  <2> QED BY <2>1
<1> HIDE DEF D, rank, G
<1>5. ASSUME NEW d \in D, NEW g \in [D -> X], NEW h \in [D -> X],
             \A e \in D : rank[e] < rank[d] => g[e] = h[e]
      PROVE  G[<<d, g>>] = G[<<d, h>>]
  <2>1. d # 0 => g[d - 1] = h[d - 1]
    BY <1>1, <1>2, <1>5
  <2> QED BY <1>3, <2>1
<1>6. PICK f \in [D -> X] : \A d \in D : f[d] = G[<<d, f>>]
  <2>1. LooksBelow(D, rank, X, G)
    BY <1>5 DEF LooksBelow
  <2>2. HasSolution(D, X, G)
    BY <1>1, <1>4, <2>1, RankedRecursion, Zenon
  <2> QED BY <2>2 DEF HasSolution
<1>7. 0 \in D /\ \A k \in 1 .. n : k \in D /\ k # 0
  BY DEF D
<1>8. f[0] = x /\ \A k \in 1 .. n : f[k] = F[<<k, f[k - 1]>>]
  BY <1>3, <1>6, <1>7
<1> QED BY <1>6, <1>8 DEF D, Runs
=============================================================================
