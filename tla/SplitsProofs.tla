---------------------------- MODULE SplitsProofs ----------------------------
(***************************************************************************)
(* Theorems about Splits: for every set of people, all values and shares   *)
(* that are typed, and any number of inputs.                               *)
(***************************************************************************)
EXTENDS Splits, FiniteSetTheorems, WellFoundedInduction, TLAPS

(***************************************************************************)
(* Induction over the natural numbers, and over the parts of a finite set. *)
(***************************************************************************)
LEMMA LeastNatural ==
  ASSUME NEW T \in SUBSET Nat, T # {}
  PROVE  \E m \in T : \A n \in T : m <= n
<1>1. PICK m \in T : \A n \in T : ~(<<n, m>> \in OpToRel(<, Nat))
  <2> HIDE DEF OpToRel
  <2> QED
    BY WFMin, NatLessThanWellFounded
<1>2. \A n \in T : ~(n < m)
  BY <1>1 DEF OpToRel
<1> QED
  BY <1>2

LEMMA Induction ==
  ASSUME NEW T \in SUBSET Nat, 0 \in T, \A n \in Nat : n \in T => n + 1 \in T
  PROVE  T = Nat
<1>1. SUFFICES ASSUME Nat \ T # {} PROVE FALSE
  OBVIOUS
<1>2. PICK m \in Nat \ T : \A n \in Nat \ T : m <= n
  BY <1>1, LeastNatural
<1>3. m # 0 /\ m - 1 \in Nat /\ ~(m <= m - 1)
  BY <1>2
<1>4. m - 1 \in T
  BY <1>2, <1>3
<1>5. (m - 1) + 1 = m
  BY <1>2
<1> QED
  BY <1>2, <1>3, <1>4, <1>5

LEMMA PartsInduction ==
  ASSUME NEW S, IsFiniteSet(S), NEW G \in SUBSET SUBSET S, {} \in G,
         \A A \in G : \A x \in S \ A : A \cup {x} \in G
  PROVE  G = SUBSET S
<1> DEFINE N == {n \in Nat : \A A \in SUBSET S : Cardinality(A) = n => A \in G}
<1>0. \A A \in SUBSET S : IsFiniteSet(A) /\ Cardinality(A) \in Nat
  BY FS_Subset, FS_CardinalityType
<1>1. 0 \in N
  BY <1>0, FS_EmptySet
<1>2. ASSUME NEW n \in Nat, n \in N PROVE n + 1 \in N
  <2> SUFFICES ASSUME NEW A \in SUBSET S, Cardinality(A) = n + 1 PROVE A \in G
    OBVIOUS
  <2>1. A # {}
    BY <1>0, FS_EmptySet
  <2>2. PICK x \in A : TRUE
    BY <2>1
  <2>3. A \ {x} \in SUBSET S /\ Cardinality(A \ {x}) = n
    <3>1. IsFiniteSet(A) /\ Cardinality(A) \in Nat
      BY <1>0
    <3>2. Cardinality(A \ {x}) = Cardinality(A) - 1
      BY <2>2, <3>1, FS_RemoveElement
    <3> QED  BY <3>2
  <2>4. A \ {x} \in G
    BY <1>2, <2>3
  <2>5. A = (A \ {x}) \cup {x} /\ x \in S \ (A \ {x})
    BY <2>2
  <2> QED  BY <2>4, <2>5
<1>3. N = Nat
  <2> HIDE DEF N
  <2>1. N \in SUBSET Nat
    BY DEF N
  <2> QED  BY <1>1, <1>2, <2>1, Induction
<1> QED  BY <1>0, <1>3

(***************************************************************************)
(* Sums over the elements of a finite set, in whatever order they are      *)
(* taken.                                                                  *)
(***************************************************************************)
\* g gives the sum of f over every part of S.
SetSums(g, f, S) ==
  /\ g \in [SUBSET S -> Int]
  /\ g[{}] = 0
  /\ \A T \in SUBSET S : \A x \in T : g[T] = f[x] + g[T \ {x}]

\* The sums over the parts of a finite set, each with and without one member.
LEMMA SetSumsExist ==
  ASSUME NEW S, IsFiniteSet(S), NEW f, \A x \in S : f[x] \in Int
  PROVE  \E g : SetSums(g, f, S)
<1> DEFINE G == {A \in SUBSET S : \E g : SetSums(g, f, A)}
<1>1. {} \in G
  <2>1. SetSums([T \in SUBSET {} |-> 0], f, {})
    BY DEF SetSums
  <2> QED  BY <2>1
<1>2. ASSUME NEW A \in G, NEW x \in S \ A PROVE A \cup {x} \in G
  <2>1. PICK g : SetSums(g, f, A)
    OBVIOUS
  <2> DEFINE h == [T \in SUBSET (A \cup {x}) |->
                     IF x \in T THEN f[x] + g[T \ {x}] ELSE g[T]]
  <2>2. \A T \in SUBSET (A \cup {x}) : T \ {x} \in SUBSET A /\ (x \notin T => T \in SUBSET A)
    OBVIOUS
  <2>3. h \in [SUBSET (A \cup {x}) -> Int] /\ h[{}] = 0
    BY <2>1, <2>2 DEF SetSums
  <2>4. ASSUME NEW T \in SUBSET (A \cup {x}), NEW y \in T
        PROVE  h[T] = f[y] + h[T \ {y}]
    <3>1. T \ {y} \in SUBSET (A \cup {x})
      OBVIOUS
    <3>2. CASE y = x
      BY <3>1, <3>2
    <3>3. CASE y # x /\ x \notin T
      <4>1. g[T] = f[y] + g[T \ {y}]
        BY <2>1, <2>2, <3>3 DEF SetSums
      <4> QED  BY <3>1, <3>3, <4>1
    <3>4. CASE y # x /\ x \in T
      <4>1. y \in T \ {x} /\ T \ {x} \in SUBSET A
        BY <2>2, <3>4
      <4>2. g[T \ {x}] = f[y] + g[(T \ {x}) \ {y}]
        BY <2>1, <4>1 DEF SetSums
      <4>3. h[T] = f[x] + g[T \ {x}] /\ h[T \ {y}] = f[x] + g[(T \ {y}) \ {x}]
        BY <3>1, <3>4
      <4>4. (T \ {y}) \ {x} = (T \ {x}) \ {y} /\ (T \ {x}) \ {y} \in SUBSET A
        BY <4>1
      <4>5. f[x] \in Int /\ f[y] \in Int /\ g[(T \ {x}) \ {y}] \in Int
        BY <2>1, <4>1, <4>4 DEF SetSums
      <4>6. h[T] = f[x] + (f[y] + g[(T \ {x}) \ {y}])
        BY <4>2, <4>3
      <4>7. h[T \ {y}] = f[x] + g[(T \ {x}) \ {y}]
        BY <4>3, <4>4
      <4> HIDE DEF h
      <4> QED  BY ONLY <4>5, <4>6, <4>7
    <3> QED  BY <3>2, <3>3, <3>4
  <2>5. SetSums(h, f, A \cup {x})
    BY <2>3, <2>4 DEF SetSums
  <2> QED  BY <2>5
<1>3. G = SUBSET S
  <2> HIDE DEF G
  <2>1. G \in SUBSET SUBSET S
    BY DEF G
  <2> QED  BY <1>1, <1>2, <2>1, PartsInduction
<1> QED  BY <1>3

\* SumFunction, a fold, is such a sum, whatever order the fold takes.
LEMMA SumIs ==
  ASSUME NEW S, IsFiniteSet(S), NEW f, DOMAIN f = S, \A x \in S : f[x] \in Int,
         NEW g, SetSums(g, f, S)
  PROVE  SumFunction(f) = g[S]
<1> DEFINE Body(h) == [s \in SUBSET S |->
                         IF s = {} THEN 0
                         ELSE f[CHOOSE x \in s : TRUE] + h[s \ {CHOOSE x \in s : TRUE}]]
           iter == CHOOSE h : h = Body(h)
<1>1. g = Body(g)
  <2>1. g \in [SUBSET S -> Int]
    BY DEF SetSums
  <2>2. ASSUME NEW s \in SUBSET S PROVE g[s] = Body(g)[s]
    <3>1. CASE s = {}
      BY <3>1 DEF SetSums
    <3>2. CASE s # {}
      <4>1. PICK x : x = CHOOSE y \in s : TRUE
        OBVIOUS
      <4>2. x \in s
        BY <3>2, <4>1
      <4>3. g[s] = f[x] + g[s \ {x}]
        BY <4>2 DEF SetSums
      <4> QED  BY <3>2, <4>1, <4>3
    <3> QED  BY <3>1, <3>2
  <2> QED  BY <2>1, <2>2
<1>2. iter = Body(iter)
  <2>1. \E h : h = Body(h)
    BY <1>1
  <2> HIDE DEF Body
  <2> QED  BY <2>1, ZenonT(40)
<1>3. SumFunction(f) = iter[S]
  BY DEF SumFunction, SumFunctionOnSet, FoldFunctionOnSet, MapThenFoldSet
<1> HIDE DEF iter
<1>4. iter[{}] = g[{}]
  BY <1>2 DEF SetSums
<1>5. ASSUME NEW A \in SUBSET S, A # {} PROVE \E y \in A : iter[A] = f[y] + iter[A \ {y}]
  <2>1. PICK y : y = CHOOSE x \in A : TRUE
    OBVIOUS
  <2>2. y \in A
    BY <1>5, <2>1
  <2>3. iter[A] = f[y] + iter[A \ {y}]
    BY <1>2, <1>5, <2>1
  <2> QED  BY <2>2, <2>3
<1> DEFINE N == {n \in Nat : \A A \in SUBSET S : Cardinality(A) = n => iter[A] = g[A]}
<1>6. N = Nat
  <2>1. \A A \in SUBSET S : /\ IsFiniteSet(A) /\ Cardinality(A) \in Nat
                            /\ Cardinality(A) = 0 => A = {}
                            /\ \A y \in A : Cardinality(A \ {y}) = Cardinality(A) - 1
    BY FS_Subset, FS_CardinalityType, FS_EmptySet, FS_RemoveElement
  <2>2. 0 \in N
    BY <1>4, <2>1
  <2>3. ASSUME NEW n \in Nat, n \in N PROVE n + 1 \in N
    <3> SUFFICES ASSUME NEW A \in SUBSET S, Cardinality(A) = n + 1 PROVE iter[A] = g[A]
      OBVIOUS
    <3>1. A # {}
      BY <2>1, FS_EmptySet
    <3>2. PICK y \in A : iter[A] = f[y] + iter[A \ {y}]
      BY <1>5, <3>1
    <3>3. A \ {y} \in SUBSET S /\ Cardinality(A \ {y}) = n
      BY <2>1
    <3>4. iter[A \ {y}] = g[A \ {y}]
      BY <2>3, <3>3
    <3> QED  BY <3>2, <3>4 DEF SetSums
  <2>4. N \in SUBSET Nat
    OBVIOUS
  <2> HIDE DEF N
  <2> QED  BY <2>2, <2>3, <2>4, Induction
<1>7. S \in SUBSET S /\ Cardinality(S) \in Nat
  BY FS_CardinalityType
<1> QED  BY <1>3, <1>6, <1>7

LEMMA SumIsInt ==
  ASSUME NEW S, IsFiniteSet(S), NEW f \in [S -> Int]
  PROVE  SumFunction(f) \in Int
<1>1. PICK g : SetSums(g, f, S)
  BY SetSumsExist
<1>2. SumFunction(f) = g[S]
  BY <1>1, SumIs
<1> QED  BY <1>1, <1>2 DEF SetSums

\* A sum of multiples is the multiple of the sum.
LEMMA SumTimes ==
  ASSUME NEW S, IsFiniteSet(S), NEW f \in [S -> Int], NEW h \in [S -> Int], NEW k \in Int,
         \A x \in S : h[x] = k * f[x]
  PROVE  SumFunction(h) = k * SumFunction(f)
<1>1. PICK a : SetSums(a, f, S)
  BY SetSumsExist
<1>2. /\ a \in [SUBSET S -> Int] /\ a[{}] = 0
      /\ \A T \in SUBSET S : \A x \in T : a[T] = f[x] + a[T \ {x}]
  BY <1>1 DEF SetSums
<1>3. PICK c : c = [T \in SUBSET S |-> k * a[T]]
  OBVIOUS
<1>4. SetSums(c, h, S)
  <2>1. \A n \in Int : k * n \in Int
    OBVIOUS
  <2>2. c \in [SUBSET S -> Int]
    BY <1>2, <1>3, <2>1
  <2>3. c[{}] = 0
    <3>1. k * 0 = 0
      OBVIOUS
    <3> QED  BY <1>2, <1>3, <3>1
  <2>4. ASSUME NEW T \in SUBSET S, NEW x \in T PROVE c[T] = h[x] + c[T \ {x}]
    <3>1. PICK m, n : m = f[x] /\ n = a[T \ {x}]
      OBVIOUS
    <3>2. x \in S /\ T \ {x} \in SUBSET S
      OBVIOUS
    <3>3. m \in Int /\ n \in Int /\ a[T] = m + n
      BY <1>2, <3>1, <3>2
    <3>4. c[T] = k * (m + n) /\ h[x] = k * m /\ c[T \ {x}] = k * n
      BY <1>3, <3>1, <3>2, <3>3
    <3>5. k * (m + n) = k * m + k * n
      BY ONLY <3>3, k \in Int
    <3> QED  BY <3>4, <3>5
  <2> QED  BY <2>2, <2>3, <2>4 DEF SetSums
<1>5. SumFunction(f) = a[S] /\ SumFunction(h) = c[S]
  BY <1>1, <1>4, SumIs
<1> QED  BY <1>3, <1>5

\* All get the same but one.
LEMMA SumOfEqual ==
  ASSUME NEW S, IsFiniteSet(S), NEW d \in S, NEW n \in Int, NEW k \in Int,
         NEW f, f = [x \in S |-> IF x = d THEN n ELSE k]
  PROVE  Cardinality(S) \in Nat \ {0} /\ SumFunction(f) = n + k * (Cardinality(S) - 1)
<1>1. PICK a : SetSums(a, f, S)
  BY SetSumsExist
<1>2. /\ a \in [SUBSET S -> Int] /\ a[{}] = 0
      /\ \A T \in SUBSET S : \A x \in T : a[T] = f[x] + a[T \ {x}]
  BY <1>1 DEF SetSums
<1> DEFINE G == {A \in SUBSET S : d \notin A => a[A] = k * Cardinality(A)}
<1>3. {} \in G
  <2>1. Cardinality({}) = 0 /\ k * 0 = 0
    BY FS_EmptySet
  <2> QED  BY <1>2, <2>1
<1>4. ASSUME NEW A \in G, NEW x \in S \ A PROVE A \cup {x} \in G
  <2> SUFFICES ASSUME d \notin A \cup {x} PROVE a[A \cup {x}] = k * Cardinality(A \cup {x})
    OBVIOUS
  <2>1. (A \cup {x}) \ {x} = A /\ f[x] = k
    OBVIOUS
  <2>2. A \cup {x} \in SUBSET S /\ x \in A \cup {x}
    OBVIOUS
  <2>3. a[A \cup {x}] = k + a[A]
    <3>1. a[A \cup {x}] = f[x] + a[(A \cup {x}) \ {x}]
      BY <1>2, <2>2
    <3> QED  BY <2>1, <3>1
  <2>4. IsFiniteSet(A) /\ Cardinality(A) \in Nat /\ Cardinality(A \cup {x}) = Cardinality(A) + 1
    BY FS_Subset, FS_CardinalityType, FS_AddElement
  <2>5. a[A] = k * Cardinality(A)
    OBVIOUS
  <2>6. PICK c : c = Cardinality(A)
    OBVIOUS
  <2>7. k * (c + 1) = k + k * c
    BY <2>4, <2>6
  <2> QED  BY <2>3, <2>4, <2>5, <2>6, <2>7
<1>5. S \ {d} \in G
  <2> HIDE DEF G
  <2>1. G \in SUBSET SUBSET S
    BY DEF G
  <2>2. G = SUBSET S
    BY <1>3, <1>4, <2>1, PartsInduction
  <2> QED  BY <2>2
<1>6. a[S] = f[d] + a[S \ {d}]
  BY <1>2
<1>7. SumFunction(f) = a[S]
  BY <1>1, SumIs
<1>8. Cardinality(S) \in Nat /\ Cardinality(S \ {d}) = Cardinality(S) - 1 /\ S # {}
  BY FS_CardinalityType, FS_RemoveElement
<1>9. Cardinality(S) # 0
  BY <1>8, FS_EmptySet
<1> QED  BY <1>5, <1>6, <1>7, <1>8, <1>9

(***************************************************************************)
(* Divisors.  Gcd is a recursive function, so it has to be shown that      *)
(* there is one.                                                           *)
(***************************************************************************)

\* g is Gcd as far as n.
GcdUpTo(n, g) ==
  /\ g \in [0..n -> [Nat -> Nat]]
  /\ \A b \in 0..n, a \in Nat : g[b][a] = IF b = 0 THEN a ELSE g[a % b][b]

LEMMA Remainder ==
  ASSUME NEW a \in Nat, NEW b \in Nat, b > 0
  PROVE  a % b \in 0..(b - 1) /\ a \div b \in Nat /\ a = b * (a \div b) + (a % b)
OBVIOUS

\* The recursive function Gcd: it exists up to every n, is one function there,
\* and so is what its definition says.
LEMMA GcdUpToExists == \A n \in Nat : \E g : GcdUpTo(n, g)
<1> DEFINE T == {n \in Nat : \E g : GcdUpTo(n, g)}
<1>1. 0 \in T
  <2> DEFINE g == [b \in 0..0 |-> [a \in Nat |-> a]]
  <2>1. GcdUpTo(0, g)
    BY DEF GcdUpTo
  <2> QED  BY <2>1
<1>2. ASSUME NEW n \in Nat, n \in T PROVE n + 1 \in T
  <2>1. PICK g : GcdUpTo(n, g)
    BY <1>2
  <2>2. /\ g \in [0..n -> [Nat -> Nat]]
        /\ \A b \in 0..n, a \in Nat : g[b][a] = IF b = 0 THEN a ELSE g[a % b][b]
    BY <2>1 DEF GcdUpTo
  <2> DEFINE top == [a \in Nat |-> g[a % (n + 1)][n + 1]]
             h == [b \in 0..(n + 1) |-> IF b = n + 1 THEN top ELSE g[b]]
  <2>3. \A a \in Nat : a % (n + 1) \in 0..n
    OBVIOUS
  <2>4. top \in [Nat -> Nat]
    <3>1. ASSUME NEW a \in Nat PROVE g[a % (n + 1)][n + 1] \in Nat
      <4>1. PICK r \in 0..n : r = a % (n + 1)
        BY <2>3
      <4>2. g \in [0..n -> [Nat -> Nat]]
        BY <2>2
      <4>3. g[r] \in [Nat -> Nat]
        BY ONLY <4>1, <4>2
      <4>4. n + 1 \in Nat
        OBVIOUS
      <4> QED  BY <4>1, <4>3, <4>4
    <3> QED  BY <3>1
  <2> HIDE DEF top
  <2>5. h \in [0..(n + 1) -> [Nat -> Nat]]
    <3>1. ASSUME NEW b \in 0..(n + 1) PROVE h[b] \in [Nat -> Nat]
      <4>1. b = n + 1 \/ b \in 0..n
        OBVIOUS
      <4>2. \A c \in 0..n : g[c] \in [Nat -> Nat]
        BY <2>2
      <4> QED  BY <2>4, <4>1, <4>2
    <3> QED  BY <3>1
  <2>6. ASSUME NEW b \in 0..(n + 1), NEW a \in Nat
        PROVE  h[b][a] = IF b = 0 THEN a ELSE h[a % b][b]
    <3>1. CASE b = n + 1
      <4>1. h[b][a] = g[a % b][b]
        BY <3>1 DEF top
      <4>2. a % b \in 0..n /\ b # 0
        BY <2>3, <3>1
      <4>3. h[a % b] = g[a % b]
        BY <4>2
      <4> QED  BY <4>1, <4>2, <4>3
    <3>2. CASE b \in 0..n
      <4>1. h[b] = g[b] /\ g[b][a] = IF b = 0 THEN a ELSE g[a % b][b]
        BY <2>2, <3>2
      <4>2. ASSUME b # 0 PROVE h[a % b] = g[a % b]
        <5>1. b \in Nat /\ b > 0
          BY <3>2, <4>2
        <5>2. a % b \in 0..(b - 1)
          BY <5>1, Remainder
        <5>3. a % b \in 0..n
          BY <3>2, <5>2
        <5> QED  BY <5>3
      <4> QED  BY <4>1, <4>2
    <3> QED  BY <3>1, <3>2
  <2>7. GcdUpTo(n + 1, h)
    BY <2>5, <2>6 DEF GcdUpTo
  <2> QED  BY <2>7
<1>3. T = Nat
  <2> HIDE DEF T
  <2>1. T \in SUBSET Nat
    BY DEF T
  <2> QED  BY <1>1, <1>2, <2>1, Induction
<1> QED  BY <1>3

LEMMA GcdUpToIsOne ==
  ASSUME NEW n \in Nat, NEW m \in Nat, NEW g, NEW h, GcdUpTo(n, g), GcdUpTo(m, h)
  PROVE  \A b \in Nat : b <= n /\ b <= m => g[b] = h[b]
<1>1. /\ g \in [0..n -> [Nat -> Nat]] /\ h \in [0..m -> [Nat -> Nat]]
      /\ \A b \in 0..n, a \in Nat : g[b][a] = IF b = 0 THEN a ELSE g[a % b][b]
      /\ \A b \in 0..m, a \in Nat : h[b][a] = IF b = 0 THEN a ELSE h[a % b][b]
  BY DEF GcdUpTo
<1> DEFINE T == {b \in Nat : b <= n /\ b <= m /\ g[b] # h[b]}
<1>2. SUFFICES ASSUME T # {} PROVE FALSE
  OBVIOUS
<1>3. PICK b \in T : \A c \in T : b <= c
  <2> HIDE DEF T
  <2>1. T \in SUBSET Nat
    BY DEF T
  <2> QED  BY <1>2, <2>1, LeastNatural
<1>4. b \in 0..n /\ b \in 0..m /\ g[b] \in [Nat -> Nat] /\ h[b] \in [Nat -> Nat]
  <2>1. b \in 0..n /\ b \in 0..m
    OBVIOUS
  <2> QED  BY <1>1, <2>1
<1>5. ASSUME NEW a \in Nat PROVE g[b][a] = h[b][a]
  <2> HIDE DEF T
  <2>1. CASE b = 0
    <3>1. g[b][a] = a
      BY ONLY <1>1, <1>4, <1>5, <2>1
    <3>2. h[b][a] = a
      BY ONLY <1>1, <1>4, <1>5, <2>1
    <3> QED  BY <3>1, <3>2
  <2>2. CASE b # 0
    <3>1. b \in Nat /\ b > 0
      BY <1>4, <2>2
    <3>2. a % b \in 0..(b - 1)
      BY <3>1, Remainder
    <3>3. PICK r : r = a % b
      OBVIOUS
    <3>4. r \in Nat /\ r <= n /\ r <= m /\ ~(b <= r)
      BY <1>4, <3>2, <3>3
    <3>5. g[r] = h[r]
      BY <1>3, <3>4 DEF T
    <3>6. g[b][a] = g[a % b][b] /\ h[b][a] = h[a % b][b]
      BY <1>1, <1>4, <2>2
    <3> QED  BY <3>3, <3>5, <3>6
  <2> QED  BY <2>1, <2>2
<1>6. g[b] = h[b]
  BY <1>4, <1>5
<1> QED  BY <1>3, <1>6

LEMMA GcdIs ==
  \A b \in Nat, a \in Nat : Gcd[b][a] = IF b = 0 THEN a ELSE Gcd[a % b][b]
<1> DEFINE Body(f) == [b \in Nat |-> [a \in Nat |-> IF b = 0 THEN a ELSE f[a % b][b]]]
           upTo == [n \in Nat |-> CHOOSE g : GcdUpTo(n, g)]
           all == [b \in Nat |-> upTo[b][b]]
<1>1. \A n \in Nat : GcdUpTo(n, upTo[n])
  BY GcdUpToExists
<1> HIDE DEF upTo
<1>2. ASSUME NEW b \in Nat PROVE all[b] = Body(all)[b]
  <2>1. /\ upTo[b] \in [0..b -> [Nat -> Nat]]
        /\ \A a \in Nat : upTo[b][b][a] = IF b = 0 THEN a ELSE upTo[b][a % b][b]
    <3>1. GcdUpTo(b, upTo[b]) /\ b \in 0..b
      BY <1>1
    <3>2. PICK g : g = upTo[b]
      OBVIOUS
    <3>3. GcdUpTo(b, g)
      BY <3>1, <3>2
    <3>4. /\ g \in [0..b -> [Nat -> Nat]]
          /\ \A c \in 0..b, a \in Nat : g[c][a] = IF c = 0 THEN a ELSE g[a % c][c]
      BY ONLY <3>3 DEF GcdUpTo
    <3> QED  BY <3>1, <3>2, <3>4
  <2>2. upTo[b][b] \in [Nat -> Nat]
    BY <2>1
  <2>3. ASSUME NEW a \in Nat, b # 0 PROVE upTo[b][a % b] = all[a % b]
    <3>1. PICK r : r = a % b
      OBVIOUS
    <3>2. r \in 0..(b - 1)
      BY <2>3, <3>1, Remainder
    <3>3. r \in Nat /\ r <= b
      BY <3>2
    <3>4. upTo[b][r] = upTo[r][r]
      BY <1>1, <3>3, GcdUpToIsOne
    <3> QED  BY <3>1, <3>3, <3>4
  <2>4. \A a \in Nat : upTo[b][b][a] = IF b = 0 THEN a ELSE all[a % b][b]
    BY <2>1, <2>3
  <2>5. all[b] = upTo[b][b] /\ Body(all)[b] = [a \in Nat |-> IF b = 0 THEN a ELSE all[a % b][b]]
    OBVIOUS
  <2> HIDE DEF all, Body
  <2> QED  BY <2>2, <2>4, <2>5
<1>3. all = Body(all)
  BY <1>2
<1>4. Gcd = Body(Gcd)
  <2>1. \E f : f = Body(f)
    BY <1>3
  <2>2. Gcd = CHOOSE f : f = Body(f)
    BY DEF Gcd
  <2> HIDE DEF Body
  <2> QED  BY <2>1, <2>2
<1> QED  BY <1>4

Divides(m, x) == \E k \in Int : x = k * m

LEMMA DividesSum ==
  ASSUME NEW m \in Int, NEW x \in Int, NEW y \in Int, NEW k \in Int, Divides(m, x), Divides(m, y)
  PROVE  Divides(m, x * k + y)
<1>1. PICK i \in Int, j \in Int : x = i * m /\ y = j * m
  BY DEF Divides
<1>2. x * k + y = (i * k + j) * m /\ i * k + j \in Int
  BY <1>1
<1> QED  BY <1>2 DEF Divides

\* Euclid's algorithm divides both numbers.
LEMMA GcdDivides ==
  \A b \in Nat, a \in Nat :
    /\ Gcd[b][a] \in Nat /\ Divides(Gcd[b][a], a) /\ Divides(Gcd[b][a], b)
    /\ a > 0 \/ b > 0 => Gcd[b][a] > 0
<1> DEFINE Fine(b) == \A a \in Nat :
             /\ Gcd[b][a] \in Nat /\ Divides(Gcd[b][a], a) /\ Divides(Gcd[b][a], b)
             /\ a > 0 \/ b > 0 => Gcd[b][a] > 0
           T == {b \in Nat : ~Fine(b)}
<1>1. SUFFICES ASSUME T # {} PROVE FALSE
  OBVIOUS
<1>2. PICK b \in T : \A c \in T : b <= c
  <2> HIDE DEF T
  <2>1. T \in SUBSET Nat
    BY DEF T
  <2> QED  BY <1>1, <2>1, LeastNatural
<1>3. ASSUME NEW a \in Nat
      PROVE  /\ Gcd[b][a] \in Nat /\ Divides(Gcd[b][a], a) /\ Divides(Gcd[b][a], b)
             /\ a > 0 \/ b > 0 => Gcd[b][a] > 0
  <2>1. CASE b = 0
    <3>1. Gcd[b][a] = a
      BY <2>1, GcdIs
    <3>2. a = 1 * a /\ b = 0 * a
      BY <2>1
    <3> QED  BY <2>1, <3>1, <3>2 DEF Divides
  <2>2. CASE b # 0
    <3>1. PICK r, q, c : r = a % b /\ q = a \div b /\ c = Gcd[b][a]
      OBVIOUS
    <3>2. b \in Nat /\ b > 0
      BY <2>2
    <3>3. r \in 0..(b - 1) /\ q \in Nat /\ a = b * q + r
      BY <3>1, <3>2, Remainder
    <3>4. r \in Nat /\ ~(b <= r)
      BY <3>2, <3>3
    <3>5. Fine(r)
      <4>1. r \notin T
        BY <1>2, <3>4
      <4> HIDE DEF Fine
      <4> QED  BY <3>4, <4>1
    <3>6. c = Gcd[r][b]
      BY <2>2, <3>1, <3>2, GcdIs
    <3>7. c \in Nat /\ Divides(c, b) /\ Divides(c, r) /\ c > 0
      BY <3>2, <3>5, <3>6
    <3>8. Divides(c, b * q + r)
      <4>1. c \in Int /\ b \in Int /\ q \in Int /\ r \in Int
        BY ONLY <3>2, <3>3, <3>4, <3>7
      <4> QED  BY ONLY <3>7, <4>1, DividesSum
    <3> QED  BY <3>1, <3>3, <3>7, <3>8
  <2> QED  BY <2>1, <2>2
<1> QED  BY <1>2, <1>3

LEMMA MagnitudeIs == \A n \in Int : Magnitude(n) \in Nat /\ (Magnitude(n) = n \/ Magnitude(n) = -n)
BY DEF Magnitude

\* What divides the magnitude of a number divides the number.
LEMMA DividesMagnitude ==
  ASSUME NEW m \in Int, NEW n \in Int, Divides(m, Magnitude(n))
  PROVE  Divides(m, n)
<1>1. PICK k \in Int : Magnitude(n) = k * m
  BY DEF Divides
<1>2. n = k * m \/ n = (-k) * m
  BY <1>1, MagnitudeIs
<1>3. -k \in Int
  OBVIOUS
<1> QED  BY <1>2, <1>3 DEF Divides

LEMMA DividesTransitive ==
  ASSUME NEW l \in Int, NEW m \in Int, NEW x \in Int, Divides(l, m), Divides(m, x)
  PROVE  Divides(l, x)
<1>1. PICK i \in Int, j \in Int : m = i * l /\ x = j * m
  BY DEF Divides
<1>2. x = (j * i) * l /\ j * i \in Int
  BY <1>1
<1> QED  BY <1>2 DEF Divides

(***************************************************************************)
(* The common divisor of the shares, which is a fold.                      *)
(***************************************************************************)
Fold(h, num, den, S, most) ==
  \A s \in SUBSET S : Cardinality(s) <= most =>
    h[s] = IF s = {} THEN den
           ELSE Gcd[h[s \ {CHOOSE x \in s : TRUE}]][Magnitude(num[CHOOSE x \in s : TRUE])]

\* The same for the fold that goes through the shares: by the size of the set.
LEMMA FoldsExist ==
  ASSUME NEW S, IsFiniteSet(S), NEW num, NEW den
  PROVE  \A most \in Nat : \E h : DOMAIN h = SUBSET S /\ Fold(h, num, den, S, most)
<1> DEFINE T == {most \in Nat : \E h : DOMAIN h = SUBSET S /\ Fold(h, num, den, S, most)}
<1>0. \A s \in SUBSET S : /\ IsFiniteSet(s) /\ Cardinality(s) \in Nat
                          /\ Cardinality(s) = 0 <=> s = {}
                          /\ \A x \in s : Cardinality(s \ {x}) = Cardinality(s) - 1
  BY FS_Subset, FS_CardinalityType, FS_EmptySet, FS_RemoveElement
<1>1. 0 \in T
  <2>1. PICK h : h = [s \in SUBSET S |-> den]
    OBVIOUS
  <2>2. DOMAIN h = SUBSET S /\ Fold(h, num, den, S, 0)
    BY <1>0, <2>1 DEF Fold
  <2> QED  BY <2>2
<1>2. ASSUME NEW n \in Nat, n \in T PROVE n + 1 \in T
  <2>1. PICK h : DOMAIN h = SUBSET S /\ Fold(h, num, den, S, n)
    BY <1>2
  <2>2. PICK g : g = [s \in SUBSET S |->
                        IF Cardinality(s) <= n THEN h[s]
                        ELSE Gcd[h[s \ {CHOOSE x \in s : TRUE}]][Magnitude(num[CHOOSE x \in s : TRUE])]]
    OBVIOUS
  <2>3. ASSUME NEW s \in SUBSET S, Cardinality(s) <= n + 1
        PROVE  g[s] = IF s = {} THEN den
                      ELSE Gcd[g[s \ {CHOOSE x \in s : TRUE}]][Magnitude(num[CHOOSE x \in s : TRUE])]
    <3>1. PICK x : x = CHOOSE y \in s : TRUE
      OBVIOUS
    <3>2. CASE s = {}
      <4>1. Cardinality(s) <= n
        BY <1>0, <3>2
      <4>2. h[s] = den
        BY <2>1, <3>2, <4>1 DEF Fold
      <4> QED  BY <2>2, <3>2, <4>1, <4>2
    <3>3. CASE s # {}
      <4>1. x \in s
        BY <3>1, <3>3
      <4>2. s \ {x} \in SUBSET S /\ Cardinality(s \ {x}) <= n
        BY <1>0, <2>3, <4>1
      <4>3. g[s \ {x}] = h[s \ {x}]
        BY <2>2, <4>2
      <4>4. g[s] = Gcd[h[s \ {x}]][Magnitude(num[x])]
        <5>1. CASE Cardinality(s) <= n
          BY <2>1, <2>2, <3>1, <3>3, <5>1 DEF Fold
        <5>2. CASE ~(Cardinality(s) <= n)
          BY <2>2, <3>1, <5>2
        <5> QED  BY <5>1, <5>2
      <4> QED  BY <3>1, <3>3, <4>3, <4>4
    <3> QED  BY <3>2, <3>3
  <2>4. DOMAIN g = SUBSET S
    BY <2>2
  <2>5. Fold(g, num, den, S, n + 1)
    BY <2>3 DEF Fold
  <2> QED  BY <2>4, <2>5
<1>3. T = Nat
  <2> HIDE DEF T
  <2>1. T \in SUBSET Nat
    BY DEF T
  <2> QED  BY <1>1, <1>2, <2>1, Induction
<1> QED  BY <1>3

\* What the shares are reduced by divides the denominator and all of them.
LEMMA CommonDivides ==
  ASSUME NEW S, IsFiniteSet(S), NEW num \in [S -> Int], NEW den \in Nat, den > 0
  PROVE  /\ Common(num, den) \in Nat /\ Common(num, den) > 0 /\ Divides(Common(num, den), den)
         /\ \A x \in S : Divides(Common(num, den), num[x])
<1> DEFINE Body(h) == [s \in SUBSET S |->
                         IF s = {} THEN den
                         ELSE Gcd[h[s \ {CHOOSE x \in s : TRUE}]][Magnitude(num[CHOOSE x \in s : TRUE])]]
           iter == CHOOSE h : h = Body(h)
<1>0. \A s \in SUBSET S : IsFiniteSet(s) /\ Cardinality(s) \in Nat /\ Cardinality(s) <= Cardinality(S)
  BY FS_Subset, FS_CardinalityType
<1>1. \E h : h = Body(h)
  <2>1. PICK h : DOMAIN h = SUBSET S /\ Fold(h, num, den, S, Cardinality(S))
    BY <1>0, FoldsExist
  <2>2. PICK g : g = [s \in SUBSET S |-> h[s]]
    OBVIOUS
  <2>3. \A s \in SUBSET S : g[s] = Body(g)[s]
    <3>1. ASSUME NEW s \in SUBSET S
          PROVE  h[s] = IF s = {} THEN den
                        ELSE Gcd[h[s \ {CHOOSE x \in s : TRUE}]][Magnitude(num[CHOOSE x \in s : TRUE])]
      BY <1>0, <2>1 DEF Fold
    <3> QED  BY <2>2, <3>1
  <2>4. g = Body(g)
    BY <2>2, <2>3
  <2> QED  BY <2>4
<1>2. iter = Body(iter)
  <2> HIDE DEF Body
  <2> QED  BY <1>1
<1>3. Common(num, den) = iter[S]
  BY DEF Common, FoldFunction, FoldFunctionOnSet, MapThenFoldSet
<1> HIDE DEF iter
<1> DEFINE N == {n \in Nat : \A s \in SUBSET S : Cardinality(s) = n =>
                   /\ iter[s] \in Nat /\ iter[s] > 0 /\ Divides(iter[s], den)
                   /\ \A x \in s : Divides(iter[s], num[x])}
<1>4. \A s \in SUBSET S : /\ IsFiniteSet(s) /\ Cardinality(s) \in Nat
                          /\ Cardinality(s) = 0 <=> s = {}
                          /\ \A x \in s : Cardinality(s \ {x}) = Cardinality(s) - 1
  BY FS_Subset, FS_CardinalityType, FS_EmptySet, FS_RemoveElement
<1>5. 0 \in N
  <2>1. iter[{}] = den
    BY <1>2
  <2>2. den = 1 * den
    OBVIOUS
  <2>3. Divides(den, den)
    BY <2>2 DEF Divides
  <2> QED  BY <1>4, <2>1, <2>3
<1>6. ASSUME NEW n \in Nat, n \in N PROVE n + 1 \in N
  <2> SUFFICES ASSUME NEW s \in SUBSET S, Cardinality(s) = n + 1
               PROVE  /\ iter[s] \in Nat /\ iter[s] > 0 /\ Divides(iter[s], den)
                      /\ \A x \in s : Divides(iter[s], num[x])
    OBVIOUS
  <2>1. s # {}
    BY <1>4
  <2>2. PICK y : y = CHOOSE x \in s : TRUE
    OBVIOUS
  <2>3. y \in s
    BY <2>1, <2>2
  <2>4. PICK before, all, top : before = iter[s \ {y}] /\ all = iter[s] /\ top = Magnitude(num[y])
    OBVIOUS
  <2>5. all = Gcd[before][top]
    BY <1>2, <2>1, <2>2, <2>4
  <2>6. /\ before \in Nat /\ before > 0 /\ Divides(before, den)
        /\ \A x \in s \ {y} : Divides(before, num[x])
    <3>1. s \ {y} \in SUBSET S /\ Cardinality(s \ {y}) = n
      BY <1>4, <2>3
    <3> QED  BY <1>6, <2>4, <3>1
  <2>7. top \in Nat
    BY <2>3, <2>4, MagnitudeIs
  <2>8. all \in Nat /\ all > 0 /\ Divides(all, before) /\ Divides(all, top)
    BY <2>5, <2>6, <2>7, GcdDivides
  <2>9. Divides(all, num[y])
    BY <2>3, <2>4, <2>8, DividesMagnitude
  <2>10. Divides(all, den)
    BY <2>6, <2>8, DividesTransitive
  <2>11. \A x \in s \ {y} : Divides(all, num[x])
    BY <2>6, <2>8, DividesTransitive
  <2> QED  BY <2>3, <2>4, <2>8, <2>9, <2>10, <2>11
<1>7. N = Nat
  <2> HIDE DEF N
  <2>1. N \in SUBSET Nat
    BY DEF N
  <2> QED  BY <1>5, <1>6, <2>1, Induction
<1>8. S \in SUBSET S /\ Cardinality(S) \in Nat
  BY FS_CardinalityType
<1> QED  BY <1>3, <1>7, <1>8

(***************************************************************************)
(* The share maps, and what is done to them.                               *)
(***************************************************************************)
ShareMaps == [num : UNION {[D -> Int] : D \in SUBSET People}, den : Nat \ {0}]

LEMMA ShareMapIs ==
  ASSUME NEW s \in ShareMaps
  PROVE  /\ Holders(s) \in SUBSET People /\ IsFiniteSet(Holders(s))
         /\ s.num \in [Holders(s) -> Int] /\ s.den \in Nat /\ s.den > 0
         /\ sumShares(s) \in Int /\ s = [num |-> s.num, den |-> s.den]
<1>1. PICK D \in SUBSET People : s.num \in [D -> Int]
  BY DEF ShareMaps
<1>2. Holders(s) = D
  BY <1>1 DEF Holders
<1>3. IsFiniteSet(D)
  BY PeopleAssumption, FS_Subset
<1>4. sumShares(s) \in Int
  BY <1>1, <1>3, SumIsInt DEF sumShares
<1>5. s.den \in Nat /\ s.den > 0 /\ s = [num |-> s.num, den |-> s.den]
  BY DEF ShareMaps
<1> QED  BY <1>1, <1>2, <1>3, <1>4, <1>5

LEMMA IsShareMap ==
  ASSUME NEW D \in SUBSET People, NEW num \in [D -> Int], NEW den \in Nat, den > 0,
         NEW s, s = [num |-> num, den |-> den]
  PROVE  /\ s \in ShareMaps /\ Holders(s) = D /\ s.num = num /\ s.den = den
         /\ sumShares(s) = SumFunction(num)
BY DEF ShareMaps, Holders, sumShares

LEMMA WholeIs ==
  ASSUME NEW D \in SUBSET People, NEW num \in [D -> Int]
  PROVE  /\ Whole(num) \in ShareMaps /\ Holders(Whole(num)) = D
         /\ Whole(num).num = num /\ Whole(num).den = 1 /\ sumShares(Whole(num)) = SumFunction(num)
<1>1. Whole(num) = [num |-> num, den |-> 1]
  BY DEF Whole
<1> QED  BY <1>1, IsShareMap

LEMMA NobodyIs == Nobody \in ShareMaps /\ Holders(Nobody) = {}
<1>1. PICK n : n = << >>
  OBVIOUS
<1>2. n \in [{} -> Int]
  BY <1>1
<1>3. PICK D : D = {}
  OBVIOUS
<1>4. D \in SUBSET People /\ n \in [D -> Int]
  BY <1>2, <1>3
<1>5. Whole(n) \in ShareMaps /\ Holders(Whole(n)) = D
  BY <1>4, WholeIs
<1> QED  BY <1>1, <1>3, <1>5 DEF Nobody

LEMMA Quotient ==
  ASSUME NEW x \in Int, NEW c \in Nat, c > 0, Divides(c, x)
  PROVE  x \div c \in Int /\ (x \div c) * c = x
<1>1. PICK k \in Int : x = k * c
  BY DEF Divides
<1>2. x \div c = k
  BY <1>1
<1> QED  BY <1>1, <1>2

\* The same fractions in lowest terms: t comes from num and den by dividing
\* both by one number.
LowerTerms(t, num, den) ==
  \E c \in Nat, sign \in {-1, 1} :
    /\ c > 0 /\ sign * den > 0 /\ t.den * c = sign * den
    /\ \A p \in DOMAIN num : t.num[p] * c = sign * num[p]
    /\ sumShares(t) * c = sign * SumFunction(num)

\* A reduced share map is one, of the same people, and its fractions are those
\* it was made from.
LEMMA ReducedIs ==
  ASSUME NEW D \in SUBSET People, NEW num \in [D -> Int], NEW den \in Int, den # 0
  PROVE  /\ Reduced(num, den) \in ShareMaps /\ Holders(Reduced(num, den)) = D
         /\ LowerTerms(Reduced(num, den), num, den)
<1>1. PICK sign, c, m : /\ sign = (IF den < 0 THEN -1 ELSE 1) /\ m = Magnitude(den)
                        /\ c = Common(num, m)
  OBVIOUS
<1>2. m \in Nat /\ m > 0 /\ m = sign * den /\ sign \in {-1, 1} /\ sign \in Int
  BY <1>1 DEF Magnitude
<1>3. IsFiniteSet(D)
  BY PeopleAssumption, FS_Subset
<1>4. c \in Nat /\ c > 0 /\ Divides(c, m) /\ \A p \in D : Divides(c, num[p])
  BY <1>1, <1>2, <1>3, CommonDivides
<1>5. PICK n, e : n = [p \in D |-> (sign * num[p]) \div c] /\ e = m \div c
  OBVIOUS
<1>6. ASSUME NEW p \in D PROVE n[p] \in Int /\ n[p] * c = sign * num[p]
  <2>1. num[p] \in Int /\ Divides(c, num[p])
    BY <1>4
  <2>2. PICK x : x = sign * num[p]
    OBVIOUS
  <2>3. x \in Int /\ Divides(c, x)
    <3>1. PICK k \in Int : num[p] = k * c
      BY <2>1 DEF Divides
    <3>2. x = num[p] \/ x = -num[p]
      BY <1>2, <2>1, <2>2
    <3>3. x = k * c \/ x = (-k) * c
      BY <1>4, <3>1, <3>2
    <3>4. -k \in Int
      OBVIOUS
    <3> QED  BY <2>1, <3>2, <3>3, <3>4 DEF Divides
  <2>4. n[p] = x \div c
    BY <1>5, <2>2
  <2> QED  BY <1>4, <2>2, <2>3, <2>4, Quotient
<1>7. n \in [D -> Int]
  BY <1>5, <1>6
<1>8. e \in Int /\ e * c = m
  BY <1>2, <1>4, <1>5, Quotient
<1>9. e \in Nat /\ e > 0
  BY <1>2, <1>4, <1>8
<1>10. PICK t : t = [num |-> n, den |-> e]
  OBVIOUS
<1>11. Reduced(num, den) = t
  BY <1>1, <1>2, <1>5, <1>10 DEF Reduced
<1>12. /\ t \in ShareMaps /\ Holders(t) = D /\ t.num = n /\ t.den = e
       /\ sumShares(t) = SumFunction(n)
  BY <1>7, <1>9, <1>10, IsShareMap
<1>13. SumFunction(n) * c = sign * SumFunction(num)
  <2>1. PICK h : h = [p \in D |-> sign * num[p]]
    OBVIOUS
  <2>2. h \in [D -> Int] /\ c \in Int /\ sign \in Int
    BY <1>2, <1>4, <2>1
  <2>3. SumFunction(h) = sign * SumFunction(num)
    BY <1>3, <2>1, <2>2, SumTimes
  <2>4. \A p \in D : h[p] = c * n[p]
    <3> TAKE p \in D
    <3>1. h[p] = n[p] * c /\ n[p] \in Int
      BY <1>6, <2>1
    <3> QED  BY <2>2, <3>1
  <2>5. SumFunction(h) = c * SumFunction(n)
    BY <1>3, <1>7, <2>2, <2>4, SumTimes
  <2>6. SumFunction(n) \in Int
    BY <1>3, <1>7, SumIsInt
  <2>7. c * SumFunction(n) = SumFunction(n) * c
    BY <2>2, <2>6
  <2> QED  BY <2>3, <2>5, <2>7
<1>14. LowerTerms(t, num, den)
  <2>1. /\ c \in Nat /\ sign \in {-1, 1} /\ c > 0 /\ sign * den > 0 /\ t.den * c = sign * den
    BY <1>2, <1>4, <1>8, <1>12
  <2>2. \A p \in DOMAIN num : t.num[p] * c = sign * num[p]
    BY <1>6, <1>12
  <2>3. sumShares(t) * c = sign * SumFunction(num)
    BY <1>12, <1>13
  <2> QED  BY <2>1, <2>2, <2>3 DEF LowerTerms
<1> QED  BY <1>11, <1>12, <1>14

LEMMA ScaledIs ==
  ASSUME NEW s \in ShareMaps, NEW by \in Int, NEW over \in Int, over # 0
  PROVE  /\ Scaled(s, by, over) \in ShareMaps /\ Holders(Scaled(s, by, over)) = Holders(s)
         /\ \E c \in Nat, sign \in {-1, 1} :
              /\ c > 0 /\ sign * (s.den * over) > 0
              /\ Scaled(s, by, over).den * c = sign * (s.den * over)
              /\ \A p \in Holders(s) : Scaled(s, by, over).num[p] * c = sign * (s.num[p] * by)
              /\ sumShares(Scaled(s, by, over)) * c = sign * (sumShares(s) * by)
<1>1. PICK D, n, e, t : /\ D = Holders(s) /\ n = [p \in D |-> s.num[p] * by] /\ e = s.den * over
                        /\ t = Scaled(s, by, over)
  OBVIOUS
<1>2. /\ D \in SUBSET People /\ IsFiniteSet(D) /\ s.num \in [D -> Int]
      /\ s.den \in Nat /\ s.den > 0
  BY <1>1, ShareMapIs
<1>3. n \in [D -> Int]
  BY <1>1, <1>2
<1>4. e \in Int /\ e # 0
  BY <1>1, <1>2
<1>5. t = Reduced(n, e)
  BY <1>1 DEF Scaled, Holders
<1>6. t \in ShareMaps /\ Holders(t) = D /\ LowerTerms(t, n, e)
  BY <1>2, <1>3, <1>4, <1>5, ReducedIs
<1>7. PICK c \in Nat, sign \in {-1, 1} :
        /\ c > 0 /\ sign * e > 0 /\ t.den * c = sign * e
        /\ \A p \in DOMAIN n : t.num[p] * c = sign * n[p]
        /\ sumShares(t) * c = sign * SumFunction(n)
  BY <1>6 DEF LowerTerms
<1>8. SumFunction(n) = sumShares(s) * by
  <2>1. \A p \in D : n[p] = by * s.num[p]
    <3> TAKE p \in D
    <3>1. s.num[p] \in Int /\ n[p] = s.num[p] * by
      BY <1>1, <1>2
    <3> QED  BY <3>1
  <2>2. SumFunction(n) = by * SumFunction(s.num)
    BY <1>2, <1>3, <2>1, SumTimes
  <2>3. sumShares(s) = SumFunction(s.num) /\ sumShares(s) \in Int
    BY ShareMapIs DEF sumShares
  <2>4. by * sumShares(s) = sumShares(s) * by
    BY <2>3
  <2> QED  BY <2>2, <2>3, <2>4
<1>9. \A p \in D : t.num[p] * c = sign * (s.num[p] * by)
  BY <1>1, <1>3, <1>7
<1> QED  BY <1>1, <1>6, <1>7, <1>8, <1>9

LEMMA WithIs ==
  ASSUME NEW s \in ShareMaps, NEW p \in People, NEW n \in Int, NEW d \in Nat, d > 0
  PROVE  /\ With(s, p, n, d) \in ShareMaps /\ Holders(With(s, p, n, d)) = Holders(s) \cup {p}
         /\ LowerTerms(With(s, p, n, d),
                       [q \in Holders(s) \cup {p} |->
                          IF q = p THEN (n \div Gcd[d][Magnitude(n)]) * s.den
                          ELSE s.num[q] * (d \div Gcd[d][Magnitude(n)])],
                       s.den * (d \div Gcd[d][Magnitude(n)]))
<1>1. PICK c, x, over, num, t :
        /\ c = Gcd[d][Magnitude(n)] /\ x = n \div c /\ over = d \div c
        /\ num = [q \in Holders(s) \cup {p} |-> IF q = p THEN x * s.den ELSE s.num[q] * over]
        /\ t = With(s, p, n, d)
  OBVIOUS
<1>2. /\ Holders(s) \in SUBSET People /\ s.num \in [Holders(s) -> Int]
      /\ s.den \in Nat /\ s.den > 0
  BY ShareMapIs
<1>3. c \in Nat /\ c > 0 /\ Divides(c, n) /\ Divides(c, d)
  BY <1>1, GcdDivides, MagnitudeIs, DividesMagnitude
<1>4. x \in Int /\ over \in Int /\ over * c = d
  BY <1>1, <1>3, Quotient
<1>5. over > 0
  BY <1>3, <1>4
<1>6. Holders(s) \cup {p} \in SUBSET People /\ num \in [Holders(s) \cup {p} -> Int]
  <2>1. x * s.den \in Int /\ \A q \in Holders(s) : s.num[q] * over \in Int
    BY <1>2, <1>4
  <2> QED  BY <1>1, <1>2, <2>1
<1>7. s.den * over \in Int /\ s.den * over # 0
  BY <1>2, <1>4, <1>5
<1>8. t = Reduced(num, s.den * over)
  BY <1>1 DEF With, Holders
<1> QED  BY <1>1, <1>6, <1>7, <1>8, ReducedIs

LEMMA WithoutIs ==
  ASSUME NEW s \in ShareMaps, NEW p
  PROVE  /\ Without(s, p) \in ShareMaps /\ Holders(Without(s, p)) = Holders(s) \ {p}
         /\ LowerTerms(Without(s, p), [q \in Holders(s) \ {p} |-> s.num[q]], s.den)
<1>1. PICK D, num, t : /\ D = Holders(s) \ {p} /\ num = [q \in D |-> s.num[q]]
                       /\ t = Without(s, p)
  OBVIOUS
<1>2. /\ Holders(s) \in SUBSET People /\ s.num \in [Holders(s) -> Int]
      /\ s.den \in Nat /\ s.den > 0
  BY ShareMapIs
<1>3. D \in SUBSET People /\ num \in [D -> Int] /\ s.den \in Int /\ s.den # 0
  BY <1>1, <1>2
<1>4. t = Reduced(num, s.den)
  BY <1>1 DEF Without, Holders
<1> QED  BY <1>1, <1>3, <1>4, ReducedIs

(***************************************************************************)
(* What a split misses its total by, as a percentage of a hundred and of   *)
(* one.                                                                    *)
(***************************************************************************)
LEMMA OffIs ==
  ASSUME NEW s \in ShareMaps, NEW mode, NEW value \in Int, NEW all \in Int
  PROVE  Off(mode, s, value, all) \in Nat
<1>1. PICK x : x = s.den * (IF mode = "absolute" THEN value ELSE all)
  OBVIOUS
<1>2. sumShares(s) \in Int /\ s.den \in Int
  BY ShareMapIs
<1>3. x \in Int
  BY <1>1, <1>2
<1>4. sumShares(s) - x \in Int
  BY <1>2, <1>3
<1> QED  BY <1>1, <1>4, MagnitudeIs DEF Off

\* A percentage is as far off in the unit of the database as in that of the form.
LEMMA OffOfPercent ==
  ASSUME NEW s \in ShareMaps, NEW value
  PROVE  \E c \in Nat :
           /\ c > 0 /\ Scaled(s, 1, 100).den * c = s.den * 100
           /\ Off("percent", Scaled(s, 1, 100), value, 1) * c = Off("percent", s, value, 100)
<1>1. PICK t : t = Scaled(s, 1, 100)
  OBVIOUS
<1>2. s.den \in Nat /\ s.den > 0 /\ sumShares(s) \in Int
  BY ShareMapIs
<1>3. PICK c \in Nat, sign \in {-1, 1} :
        /\ c > 0 /\ sign * (s.den * 100) > 0 /\ t.den * c = sign * (s.den * 100)
        /\ sumShares(t) * c = sign * (sumShares(s) * 1)
  BY <1>1, ScaledIs
<1>4. t.den \in Nat /\ sumShares(t) \in Int
  <2>1. t \in ShareMaps
    BY <1>1, ScaledIs
  <2> QED  BY <2>1, ShareMapIs
<1>5. sign = 1
  BY <1>2, <1>3
<1>6. t.den * c = s.den * 100 /\ sumShares(t) * c = sumShares(s)
  BY <1>2, <1>3, <1>5
<1>7. PICK x, y : x = sumShares(t) - t.den /\ y = sumShares(s) - s.den * 100
  OBVIOUS
<1>8. x \in Int /\ y \in Int /\ x * c = y
  BY <1>2, <1>4, <1>6, <1>7
<1>9. Magnitude(x) * c = Magnitude(y)
  <2>1. CASE x < 0
    <3>1. y < 0
      BY <1>3, <1>8, <2>1
    <3>2. (-x) * c = -y
      BY <1>8
    <3> QED  BY <2>1, <3>1, <3>2 DEF Magnitude
  <2>2. CASE ~(x < 0)
    <3>1. ~(y < 0)
      BY <1>3, <1>8, <2>2
    <3> QED  BY <1>8, <2>2, <3>1 DEF Magnitude
  <2> QED  BY <2>1, <2>2
<1>10. Off("percent", t, value, 1) = Magnitude(x) /\ Off("percent", s, value, 100) = Magnitude(y)
  <2>1. t.den * 1 = t.den
    BY <1>4
  <2> QED  BY <1>7, <2>1 DEF Off
<1> QED  BY <1>1, <1>3, <1>6, <1>9, <1>10

LEMMA ToWireIs ==
  ASSUME NEW s \in ShareMaps, NEW mode
  PROVE  toWire(mode, s) \in ShareMaps /\ Holders(toWire(mode, s)) = Holders(s)
BY ScaledIs DEF toWire

LEMMA FromWireIs ==
  ASSUME NEW s \in ShareMaps, NEW mode
  PROVE  fromWire(mode, s) \in ShareMaps /\ Holders(fromWire(mode, s)) = Holders(s)
BY ScaledIs DEF fromWire

(***************************************************************************)
(* Spreading.                                                              *)
(***************************************************************************)
\* A finite set of numbers has a maximum, the one who gets what is left over.
LEMMA LastPerson ==
  ASSUME NEW D \in SUBSET People, D # {}
  PROVE  Max(D) \in D
<1>1. IsFiniteSet(D)
  BY PeopleAssumption, FS_Subset
<1> DEFINE G == {A \in SUBSET D : A # {} => \E x \in A : \A y \in A : x >= y}
<1>2. {} \in G
  OBVIOUS
<1>3. ASSUME NEW A \in G, NEW x \in D \ A PROVE A \cup {x} \in G
  <2>1. A \in SUBSET Nat /\ x \in Nat
    BY PeopleAssumption
  <2>2. CASE A = {}
    BY <2>1, <2>2
  <2>3. CASE A # {}
    <3>1. PICK y \in A : \A z \in A : y >= z
      BY <2>3
    <3>2. CASE y >= x
      BY <2>1, <3>1, <3>2
    <3>3. CASE ~(y >= x)
      <4>1. \A z \in A \cup {x} : x >= z
        BY <2>1, <3>1, <3>3
      <4> QED  BY <4>1
    <3> QED  BY <3>2, <3>3
  <2> QED  BY <2>2, <2>3
<1>4. D \in G
  <2>1. G \in SUBSET SUBSET D
    OBVIOUS
  <2> HIDE DEF G
  <2>2. G = SUBSET D
    BY <1>1, <1>2, <1>3, <2>1, PartsInduction
  <2> QED  BY <2>2
<1>5. \E x \in D : \A y \in D : x >= y
  BY <1>4
<1> QED  BY <1>5 DEF Max

\* splitEvenly gives out every cent of the value.
LEMMA SplitEvenlyIs ==
  ASSUME NEW D \in SUBSET People, D # {}, NEW value \in Int
  PROVE  /\ splitEvenly(value, D) \in ShareMaps /\ Holders(splitEvenly(value, D)) = D
         /\ splitEvenly(value, D).den = 1
         /\ WholeCents(value) => sumShares(splitEvenly(value, D)) = value
<1>1. PICK m, n, cents, base, last, k, l :
        /\ m = Max(D) /\ n = Cardinality(D) /\ cents = RoundCents(value) /\ base = cents \div n
        /\ last = cents - base * (n - 1) /\ k = Cent * base /\ l = Cent * last
  OBVIOUS
<1>2. IsFiniteSet(D) /\ m \in D
  <2>1. IsFiniteSet(D)
    BY PeopleAssumption, FS_Subset
  <2>2. Max(D) \in D
    BY LastPerson
  <2> QED  BY <1>1, <2>1, <2>2
<1>3. n \in Nat /\ n > 0
  BY <1>1, <1>2, FS_CardinalityType, FS_EmptySet
<1>4. cents \in Int /\ (WholeCents(value) => Cent * cents = value)
  BY <1>1 DEF RoundCents, WholeCents, Cent
<1>5. base \in Int
  BY <1>1, <1>3, <1>4
<1>6. base * (n - 1) \in Int
  BY <1>3, <1>5
<1>7. last \in Int
  BY <1>1, <1>4, <1>6
<1>8. k \in Int /\ l \in Int
  BY <1>1, <1>5, <1>7 DEF Cent
<1>9. PICK f : f = [p \in D |-> IF p = m THEN l ELSE k]
  OBVIOUS
<1>10. f \in [D -> Int]
  BY <1>8, <1>9
<1>11. SumFunction(f) = l + k * (n - 1)
  BY <1>1, <1>2, <1>8, <1>9, SumOfEqual
<1>12. l + k * (n - 1) = Cent * cents
  <2>1. k * (n - 1) = Cent * (base * (n - 1))
    BY <1>1, <1>3, <1>5 DEF Cent
  <2> QED  BY <1>1, <1>4, <1>6, <2>1 DEF Cent
<1>13. splitEvenly(value, D) = Whole(f)
  <2>1. f = [p \in D |-> Cent * (IF p = Max(D) THEN last ELSE base)]
    BY <1>1, <1>9
  <2> QED  BY <1>1, <2>1 DEF splitEvenly
<1>14. /\ Whole(f) \in ShareMaps /\ Holders(Whole(f)) = D /\ Whole(f).den = 1
       /\ sumShares(Whole(f)) = SumFunction(f)
  BY <1>10, WholeIs
<1> QED  BY <1>4, <1>11, <1>12, <1>13, <1>14

\* The percentages of respread add up to a hundred.
LEMMA PercentEachIs ==
  ASSUME NEW D \in SUBSET People, D # {}, NEW value
  PROVE  /\ PercentEach(D) \in ShareMaps /\ Holders(PercentEach(D)) = D
         /\ Off("percent", PercentEach(D), value, 100) = 0
<1>1. PICK m, n, each, last, t :
        /\ m = Max(D) /\ n = Cardinality(D) /\ each = 10000 \div n
        /\ last = 10000 - each * (n - 1) /\ t = PercentEach(D)
  OBVIOUS
<1>2. IsFiniteSet(D) /\ m \in D
  <2>1. IsFiniteSet(D)
    BY PeopleAssumption, FS_Subset
  <2>2. Max(D) \in D
    BY LastPerson
  <2> QED  BY <1>1, <2>1, <2>2
<1>3. n \in Nat /\ n > 0
  BY <1>1, <1>2, FS_CardinalityType, FS_EmptySet
<1>4. each \in Int
  BY <1>1, <1>3
<1>5. each * (n - 1) \in Int
  BY <1>3, <1>4
<1>6. last \in Int
  BY <1>1, <1>5
<1>7. PICK f : f = [p \in D |-> IF p = m THEN last ELSE each]
  OBVIOUS
<1>8. f \in [D -> Int]
  BY <1>4, <1>6, <1>7
<1>9. SumFunction(f) = last + each * (n - 1)
  BY <1>1, <1>2, <1>4, <1>6, <1>7, SumOfEqual
<1>10. SumFunction(f) = 10000
  BY <1>1, <1>5, <1>6, <1>9
<1>11. t = Reduced(f, 100)
  BY <1>1, <1>7 DEF PercentEach
<1>12. t \in ShareMaps /\ Holders(t) = D /\ LowerTerms(t, f, 100)
  BY <1>8, <1>11, ReducedIs
<1>13. PICK c \in Nat, sign \in {-1, 1} :
         /\ c > 0 /\ sign * 100 > 0 /\ t.den * c = sign * 100
         /\ sumShares(t) * c = sign * 10000
  BY <1>10, <1>12 DEF LowerTerms
<1>14. t.den \in Nat /\ sumShares(t) \in Int
  BY <1>12, ShareMapIs
<1>15. sumShares(t) = t.den * 100
  <2>1. PICK x, y : x = sumShares(t) /\ y = t.den * 100
    OBVIOUS
  <2>2. x \in Int /\ y \in Int /\ x * c = y * c
    BY <1>13, <1>14, <2>1
  <2>3. x = y
    BY ONLY <1>13, <2>2
  <2> QED  BY <2>1, <2>3
<1>16. Off("percent", t, value, 100) = 0
  <2>1. sumShares(t) - t.den * 100 = 0
    BY <1>14, <1>15
  <2> QED  BY <2>1 DEF Off, Magnitude
<1> QED  BY <1>1, <1>12, <1>16

LEMMA RespreadIs ==
  ASSUME NEW mode \in Modes, NEW D \in SUBSET People, NEW value \in Int
  PROVE  respread(mode, D, value) \in ShareMaps /\ Holders(respread(mode, D, value)) = D
<1>1. CASE D = {}
  BY <1>1, NobodyIs DEF respread
<1>2. CASE D # {} /\ mode = "shares"
  <2>1. PICK f, s : f = [p \in D |-> 1] /\ s = Whole(f)
    OBVIOUS
  <2>2. respread(mode, D, value) = s
    BY <1>2, <2>1 DEF respread
  <2>3. f \in [D -> Int]
    BY ONLY <2>1
  <2>4. s \in ShareMaps /\ Holders(s) = D
    BY <2>1, <2>3, WholeIs
  <2> QED  BY <2>2, <2>4
<1>3. CASE D # {} /\ mode = "percent"
  <2>1. respread(mode, D, value) = PercentEach(D)
    BY <1>3 DEF respread
  <2> QED  BY <1>3, <2>1, PercentEachIs
<1>4. CASE D # {} /\ mode = "absolute"
  <2>1. respread(mode, D, value) = splitEvenly(value, D)
    BY <1>4 DEF respread
  <2> QED  BY <1>4, <2>1, SplitEvenlyIs
<1> QED  BY <1>1, <1>2, <1>3, <1>4 DEF Modes

(***************************************************************************)
(* Changing the mode in the React app.                                     *)
(***************************************************************************)
InProportion(s, t) ==
  /\ Holders(t) = Holders(s)
  /\ \E c \in Int, k \in Int :
       c # 0 /\ k # 0 /\ \A p \in Holders(s) : t.num[p] * c = s.num[p] * k

LEMMA ProportionItself ==
  ASSUME NEW s \in ShareMaps
  PROVE  InProportion(s, s)
<1>1. \A p \in Holders(s) : s.num[p] * 1 = s.num[p] * 1
  OBVIOUS
<1>2. 1 \in Int /\ 1 # 0
  OBVIOUS
<1> QED  BY <1>1, <1>2 DEF InProportion

\* Being in proportion carries over two changes.
LEMMA ProportionChained ==
  ASSUME NEW s \in ShareMaps, NEW t \in ShareMaps, NEW u \in ShareMaps,
         InProportion(s, t), InProportion(t, u)
  PROVE  InProportion(s, u)
<1>1. PICK c \in Int, k \in Int :
        c # 0 /\ k # 0 /\ \A p \in Holders(s) : t.num[p] * c = s.num[p] * k
  BY DEF InProportion
<1>2. PICK e \in Int, l \in Int :
        e # 0 /\ l # 0 /\ \A p \in Holders(t) : u.num[p] * e = t.num[p] * l
  BY DEF InProportion
<1>3. Holders(t) = Holders(s) /\ Holders(u) = Holders(s)
  BY DEF InProportion
<1>4. PICK g, h : g = e * c /\ h = k * l
  OBVIOUS
<1>5. g \in Int /\ h \in Int /\ g # 0 /\ h # 0
  BY <1>1, <1>2, <1>4
<1>6. ASSUME NEW p \in Holders(s) PROVE u.num[p] * g = s.num[p] * h
  <2>1. PICK x, y, z : x = s.num[p] /\ y = t.num[p] /\ z = u.num[p]
    OBVIOUS
  <2>2. x \in Int /\ y \in Int /\ z \in Int
    BY <1>3, <2>1, ShareMapIs
  <2>3. y * c = x * k /\ z * e = y * l
    BY <1>1, <1>2, <1>3, <2>1
  <2>4. z * (e * c) = (z * e) * c
    BY <1>1, <1>2, <2>2
  <2>5. (y * l) * c = (y * c) * l
    BY <1>1, <1>2, <2>2
  <2>6. (x * k) * l = x * (k * l)
    BY <1>1, <1>2, <2>2
  <2> QED  BY <1>4, <2>1, <2>3, <2>4, <2>5, <2>6
<1> QED  BY <1>3, <1>5, <1>6 DEF InProportion

LEMMA ScaledProportion ==
  ASSUME NEW s \in ShareMaps, NEW by \in Int, by # 0, NEW over \in Int, over # 0
  PROVE  Scaled(s, by, over) \in ShareMaps /\ InProportion(s, Scaled(s, by, over))
<1>1. PICK t : t = Scaled(s, by, over)
  OBVIOUS
<1>2. PICK c \in Nat, sign \in {-1, 1} :
        /\ c > 0 /\ sign * (s.den * over) > 0
        /\ t.den * c = sign * (s.den * over)
        /\ \A p \in Holders(s) : t.num[p] * c = sign * (s.num[p] * by)
        /\ sumShares(t) * c = sign * (sumShares(s) * by)
  <2>1. \E c \in Nat, sign \in {-1, 1} :
          /\ c > 0 /\ sign * (s.den * over) > 0
          /\ Scaled(s, by, over).den * c = sign * (s.den * over)
          /\ \A p \in Holders(s) : Scaled(s, by, over).num[p] * c = sign * (s.num[p] * by)
          /\ sumShares(Scaled(s, by, over)) * c = sign * (sumShares(s) * by)
    BY ScaledIs
  <2> QED  BY <1>1, <2>1
<1>3. PICK k : k = sign * by
  OBVIOUS
<1>4. k \in Int /\ k # 0 /\ c \in Int /\ c # 0
  BY <1>2, <1>3
<1>5. \A p \in Holders(s) : t.num[p] * c = s.num[p] * k
  <2> TAKE p \in Holders(s)
  <2>1. s.num[p] \in Int
    BY ShareMapIs
  <2>2. sign * (s.num[p] * by) = s.num[p] * k
    BY <1>3, <2>1
  <2> QED  BY <1>2, <2>2
<1>6. t \in ShareMaps /\ Holders(t) = Holders(s)
  BY <1>1, ScaledIs
<1> QED  BY <1>1, <1>4, <1>5, <1>6 DEF InProportion

LEMMA NormalizedIs ==
  ASSUME NEW s \in ShareMaps
  PROVE  normalizeShares(s) \in ShareMaps /\ InProportion(s, normalizeShares(s))
<1>1. PICK num, sum : num = s.num /\ sum = sumShares(s)
  OBVIOUS
<1>2. PICK D : D = Holders(s)
  OBVIOUS
<1>3. D \in SUBSET People /\ num \in [D -> Int] /\ sum \in Int
  BY <1>1, <1>2, ShareMapIs
<1>4. CASE sum = 0
  BY <1>1, <1>4, ProportionItself DEF normalizeShares
<1>5. CASE sum # 0
  <2>1. PICK t : t = Reduced(num, sum)
    OBVIOUS
  <2>2. t \in ShareMaps /\ Holders(t) = D /\ LowerTerms(t, num, sum)
    BY <1>3, <1>5, <2>1, ReducedIs
  <2>3. PICK c \in Nat, sign \in {-1, 1} : c > 0 /\ \A p \in D : t.num[p] * c = sign * num[p]
    BY <1>3, <2>2 DEF LowerTerms
  <2>4. \A p \in D : t.num[p] * c = num[p] * sign
    BY <1>3, <2>3
  <2>5. c \in Int /\ c # 0 /\ sign \in Int /\ sign # 0
    BY <2>3
  <2>6. InProportion(s, t)
    BY <1>1, <1>2, <2>2, <2>4, <2>5 DEF InProportion
  <2>7. normalizeShares(s) = t
    BY <1>1, <1>5, <2>1 DEF normalizeShares
  <2> QED  BY <2>2, <2>6, <2>7
<1> QED  BY <1>4, <1>5

LEMMA PartOfIs ==
  ASSUME NEW s \in ShareMaps, NEW value \in Int, NEW by \in Int, by # 0
  PROVE  PartOf(s, value, by) \in ShareMaps /\ InProportion(s, PartOf(s, value, by))
<1>1. PICK over \in Int : over = (IF value # 0 THEN value ELSE Unit)
  BY DEF Unit, Cent
<1>2. over # 0
  BY <1>1 DEF Unit, Cent
<1>3. PartOf(s, value, by) = Scaled(s, by, over)
  BY <1>1 DEF PartOf
<1> QED  BY <1>2, <1>3, ScaledProportion

\* The amounts of a split are its shares of the value.
LEMMA AmountsAre ==
  ASSUME NEW s \in ShareMaps, NEW value \in Int, sumShares(s) # 0,
         NEW t, t = Reduced([p \in Holders(s) |-> s.num[p] * value], sumShares(s))
  PROVE  /\ t \in ShareMaps /\ Holders(t) = Holders(s)
         /\ value # 0 => InProportion(s, t)
<1>1. PICK D, num, sum : D = Holders(s) /\ num = [p \in D |-> s.num[p] * value] /\ sum = sumShares(s)
  OBVIOUS
<1>2. D \in SUBSET People /\ s.num \in [D -> Int] /\ sum \in Int /\ sum # 0
  BY <1>1, ShareMapIs
<1>3. num \in [D -> Int]
  BY <1>1, <1>2
<1>4. t = Reduced(num, sum)
  BY <1>1
<1>5. t \in ShareMaps /\ Holders(t) = D /\ LowerTerms(t, num, sum)
  BY <1>2, <1>3, <1>4, ReducedIs
<1>6. PICK c \in Nat, sign \in {-1, 1} : c > 0 /\ \A p \in D : t.num[p] * c = sign * num[p]
  BY <1>3, <1>5 DEF LowerTerms
<1>7. PICK k : k = sign * value
  OBVIOUS
<1>8. ASSUME NEW p \in D PROVE t.num[p] * c = s.num[p] * k
  <2>1. PICK x \in Int : x = s.num[p]
    BY <1>2
  <2>2. t.num[p] * c = sign * (x * value)
    BY <1>1, <1>6, <2>1
  <2>3. sign * (x * value) = x * k
    BY ONLY <1>6, <1>7, <2>1
  <2> QED  BY <2>1, <2>2, <2>3
<1>9. c \in Int /\ c # 0 /\ k \in Int
  BY <1>6, <1>7
<1>10. value # 0 => k # 0
  BY <1>6, <1>7
<1> QED  BY <1>1, <1>5, <1>8, <1>9, <1>10 DEF InProportion

LEMMA EvenlyIs ==
  ASSUME NEW s \in ShareMaps,
         NEW t, t = Whole([p \in Holders(s) |-> IF s.num[p] # 0 THEN 1 ELSE 0])
  PROVE  /\ t \in ShareMaps /\ Holders(t) = Holders(s)
         /\ \A p \in Holders(t) : t.num[p] \in {0, t.den}
<1>1. PICK D, f : D = Holders(s) /\ f = [p \in D |-> IF s.num[p] # 0 THEN 1 ELSE 0]
  OBVIOUS
<1>2. D \in SUBSET People
  BY <1>1, ShareMapIs
<1>3. f \in [D -> Int] /\ \A p \in D : f[p] \in {0, 1}
  BY <1>1
<1>4. t = Whole(f)
  BY <1>1
<1> QED  BY <1>1, <1>2, <1>3, <1>4, WholeIs

\* A change of mode multiplies all shares by one number, except for "evenly",
\* which leaves 1 and 0.
LEMMA ModeChangeIs ==
  ASSUME NEW prev, NEW new, NEW s \in ShareMaps, NEW value \in Int,
         NEW t, t = AfterModeChange(prev, new, s, value)
  PROVE  /\ t \in ShareMaps /\ Holders(t) = Holders(s)
         /\ new # "evenly" /\ value # 0 => InProportion(s, t)
         /\ new = "evenly" /\ prev # new => \A p \in Holders(t) : t.num[p] \in {0, t.den}
<1>1. PICK same, evenly, amounts : /\ same = s
        /\ evenly = Whole([p \in Holders(s) |-> IF s.num[p] # 0 THEN 1 ELSE 0])
        /\ amounts = Reduced([p \in Holders(s) |-> s.num[p] * value], sumShares(s))
  OBVIOUS
<1>2. PICK part, part10, normal, normalPart, times10 :
        /\ part = PartOf(s, value, 1) /\ part10 = PartOf(s, value, 10)
        /\ normal = normalizeShares(s) /\ normalPart = normalizeShares(part) /\ times10 = Scaled(s, 10, 1)
  OBVIOUS
<1>3. s \in ShareMaps /\ InProportion(s, s)
  BY ProportionItself
<1>4. /\ evenly \in ShareMaps /\ Holders(evenly) = Holders(s)
      /\ \A p \in Holders(evenly) : evenly.num[p] \in {0, evenly.den}
  BY <1>1, EvenlyIs
<1>5. part \in ShareMaps /\ InProportion(s, part) /\ part10 \in ShareMaps /\ InProportion(s, part10)
  BY <1>2, PartOfIs
<1>6. normal \in ShareMaps /\ InProportion(s, normal)
  BY <1>2, NormalizedIs
<1>7. normalPart \in ShareMaps /\ InProportion(part, normalPart)
  BY <1>2, <1>5, NormalizedIs
<1>8. InProportion(s, normalPart)
  BY <1>5, <1>7, ProportionChained
<1>9. times10 \in ShareMaps /\ InProportion(s, times10)
  BY <1>2, ScaledProportion
<1>10. sumShares(s) # 0 =>
         /\ amounts \in ShareMaps /\ Holders(amounts) = Holders(s)
         /\ value # 0 => InProportion(s, amounts)
  BY <1>1, AmountsAre
<1>11. /\ prev = new => t = s
       /\ prev # new =>
            /\ new = "evenly" => t = evenly
            /\ new = "absolute" => t = IF sumShares(s) = 0 THEN s ELSE amounts
            /\ new # "evenly" /\ new # "absolute" => t \in {part10, normalPart, normal, times10, s}
  BY <1>1, <1>2 DEF AfterModeChange
<1>12. \A u : InProportion(s, u) => Holders(u) = Holders(s)
  BY DEF InProportion
<1>13. CASE prev = new
  BY <1>3, <1>11, <1>13
<1>14. CASE prev # new /\ new = "evenly"
  BY <1>4, <1>11, <1>14
<1>15. CASE prev # new /\ new = "absolute"
  BY <1>3, <1>10, <1>11, <1>15
<1>16. CASE prev # new /\ new # "evenly" /\ new # "absolute"
  BY <1>3, <1>5, <1>6, <1>7, <1>8, <1>9, <1>11, <1>12, <1>16
<1> QED  BY <1>13, <1>14, <1>15, <1>16

\* Shares in proportion are zero for the same people, and are to each other as
\* they were.
LEMMA ProportionKeepsParts ==
  ASSUME NEW s \in ShareMaps, NEW t \in ShareMaps, InProportion(s, t)
  PROVE  /\ Holders(t) = Holders(s)
         /\ \A p, q \in Holders(s) :
              /\ t.num[p] = 0 <=> s.num[p] = 0
              /\ s.num[p] * t.num[q] = s.num[q] * t.num[p]
<1>1. PICK c \in Int, k \in Int :
        c # 0 /\ k # 0 /\ \A p \in Holders(s) : t.num[p] * c = s.num[p] * k
  BY DEF InProportion
<1>2. Holders(t) = Holders(s)
  BY DEF InProportion
<1>3. ASSUME NEW p \in Holders(s), NEW q \in Holders(s)
      PROVE  (t.num[p] = 0 <=> s.num[p] = 0) /\ s.num[p] * t.num[q] = s.num[q] * t.num[p]
  <2>1. PICK a, b, x, y : a = s.num[p] /\ b = s.num[q] /\ x = t.num[p] /\ y = t.num[q]
    OBVIOUS
  <2>2. a \in Int /\ b \in Int /\ x \in Int /\ y \in Int
    BY <1>2, <2>1, ShareMapIs
  <2>3. x * c = a * k /\ y * c = b * k
    BY <1>1, <2>1
  <2>4. x = 0 <=> a = 0
    BY ONLY <1>1, <2>2, <2>3
  <2>5. (a * y) * c = a * (y * c) /\ (b * x) * c = b * (x * c)
    BY ONLY <1>1, <2>2
  <2>6. a * (b * k) = b * (a * k)
    BY ONLY <1>1, <2>2
  <2>7. (a * y) * c = (b * x) * c
    BY <2>3, <2>5, <2>6
  <2>8. PICK g \in Int, h \in Int : g = a * y /\ h = b * x
    BY <2>2
  <2>9. g = h
    <3>1. g * c = h * c
      BY <2>7, <2>8
    <3> QED  BY ONLY <1>1, <3>1
  <2> QED  BY <2>1, <2>4, <2>8, <2>9
<1> QED  BY <1>2, <1>3

(***************************************************************************)
(* What the variables can hold.                                            *)
(***************************************************************************)
Kinds == {"purchase", "transfer"}
Expenses == [type : Kinds, mode : Modes, value : Int, shares : ShareMaps, positions : BOOLEAN]
Forms == [type : Kinds, mode : Modes, value : Int, shares : ShareMaps]
DraftRecords == [id : {"local", "stored"}, type : Kinds, mode : Modes, value : Int,
                 shares : ShareMaps, positions : BOOLEAN, touched : BOOLEAN]

SplitsTypeOK ==
  /\ stored \in Expenses \cup {NoExpense}
  /\ form \in Forms \cup {NoForm}
  /\ draft \in DraftRecords \cup {NoDraft} /\ asked \in DraftRecords \cup {NoDraft}
  /\ shown \in Modes \cup {"evenly", "closed"}
  /\ spread \in BOOLEAN /\ refused \in BOOLEAN /\ astray \in BOOLEAN
  /\ edits \in Nat /\ savedBy \in {"none", "form", "select"}

\* The pages show something, and one app at a time does.
PagesApart == (form # NoForm => ~Open) /\ (Open => Exists \/ draft # NoDraft)

LEMMA RecordsAre ==
  /\ \A e \in Expenses : e # NoExpense
  /\ \A f \in Forms : f # NoForm
  /\ \A d \in DraftRecords : d # NoDraft
<1>1. NoExpense.type = "none" /\ NoForm.type = "none" /\ NoDraft.type = "none"
  BY DEF NoExpense, NoForm, NoDraft
<1> QED  BY <1>1 DEF Expenses, Forms, DraftRecords, Kinds

LEMMA ResharedIs ==
  ASSUME NEW d \in DraftRecords, NEW s \in ShareMaps, NEW e, e = [d EXCEPT !.shares = s]
  PROVE  /\ e \in DraftRecords /\ e.shares = s /\ e.mode = d.mode /\ e.value = d.value
         /\ e.type = d.type /\ e.id = d.id
BY DEF DraftRecords

\* The draft as wipTransactionUpdated makes it.
LEMMA UpdatedIs ==
  ASSUME NEW new \in DraftRecords, NEW mode \in Modes \cup {"evenly"}, NEW u, u = Updated(new, mode)
  PROVE  /\ u \in DraftRecords /\ u.id = new.id /\ u.type = new.type /\ u.value = new.value
         /\ u.mode = (IF mode = "evenly" THEN "shares" ELSE mode)
         /\ u.shares = AfterModeChange(IF draft = NoDraft THEN stored.mode ELSE draft.mode,
                                       mode, new.shares, new.value)
<1>1. PICK base, s : /\ base = (IF draft = NoDraft THEN stored.mode ELSE draft.mode)
                     /\ s = AfterModeChange(base, mode, new.shares, new.value)
  OBVIOUS
<1>2. PICK m : m = (IF mode = "evenly" THEN "shares" ELSE mode)
  OBVIOUS
<1>3. new.shares \in ShareMaps /\ new.value \in Int
  BY DEF DraftRecords
<1>4. s \in ShareMaps
  BY <1>1, <1>3, ModeChangeIs
<1>5. m \in Modes
  BY <1>2 DEF Modes
<1>6. u = [new EXCEPT !.mode = m, !.shares = s]
  BY <1>1, <1>2 DEF Updated
<1>7. /\ u \in DraftRecords /\ u.id = new.id /\ u.type = new.type /\ u.value = new.value
      /\ u.mode = m /\ u.shares = s
  BY ONLY <1>4, <1>5, <1>6 DEF DraftRecords
<1> QED  BY <1>1, <1>2, <1>7

\* What is pushed in the mode of the draft is taken as it is, or not at all.
LEMMA PushIs ==
  ASSUME draft \in DraftRecords, NEW new \in DraftRecords, Push(new, draft.mode), new.mode = draft.mode
  PROVE  draft' \in {draft, new} /\ draft' \in DraftRecords /\ UNCHANGED <<stored, asked>>
<1>1. PICK u : u = Updated(new, draft.mode)
  OBVIOUS
<1>2. draft.mode \in Modes \cup {"evenly"} /\ draft.mode # "evenly" /\ draft # NoDraft
  BY RecordsAre DEF DraftRecords, Modes
<1>3. u \in DraftRecords /\ u.mode = draft.mode
  BY <1>1, <1>2, UpdatedIs
<1>4. u = new
  <2>1. u = [new EXCEPT !.mode = new.mode, !.shares = new.shares]
    BY <1>1, <1>2 DEF Updated, AfterModeChange
  <2> QED  BY <2>1 DEF DraftRecords
<1>5. draft' = (IF Computable(u) THEN u ELSE draft) /\ UNCHANGED <<stored, asked>>
  BY <1>1 DEF Push
<1> QED  BY <1>4, <1>5

InParts(s) == \A p \in Holders(s) : s.num[p] \in {0, s.den}

\* Shares that are nothing or one whole part stay so in lowest terms.
LEMMA LowerTermsInParts ==
  ASSUME NEW D, NEW num \in [D -> Int], NEW den \in Nat, den > 0, NEW t \in ShareMaps,
         LowerTerms(t, num, den), Holders(t) = D, \A q \in D : num[q] \in {0, den}
  PROVE  InParts(t)
<1>1. PICK c \in Nat, sign \in {-1, 1} :
        c > 0 /\ sign * den > 0 /\ t.den * c = sign * den /\ \A q \in D : t.num[q] * c = sign * num[q]
  BY DEF LowerTerms
<1>2. sign = 1
  BY ONLY <1>1
<1>3. ASSUME NEW q \in D PROVE t.num[q] \in {0, t.den}
  <2>1. PICK x, y, z : x = t.num[q] /\ y = num[q] /\ z = t.den
    OBVIOUS
  <2>2. x \in Int /\ z \in Int /\ y \in {0, den}
    BY <2>1, ShareMapIs
  <2>3. x * c = y /\ z * c = den
    BY <1>1, <1>2, <2>1, <2>2
  <2>4. x = 0 \/ x = z
    BY ONLY <1>1, <2>2, <2>3
  <2> QED  BY <2>1, <2>4
<1> QED  BY <1>3 DEF InParts

LEMMA OneMoreInParts ==
  ASSUME NEW s \in ShareMaps, InParts(s), NEW p \in People
  PROVE  InParts(With(s, p, 1, 1)) /\ InParts(Without(s, p)) /\ InParts(Nobody)
<1>1. Gcd[1][Magnitude(1)] = 1
  <2>1. Magnitude(1) = 1 /\ 1 % 1 = 0 /\ 1 \in Nat /\ 0 \in Nat
    BY DEF Magnitude
  <2>2. Gcd[1][1] = Gcd[0][1] /\ Gcd[0][1] = 1
    BY <2>1, GcdIs
  <2> QED  BY <2>1, <2>2
<1>2. PICK D : D = Holders(s)
  OBVIOUS
<1>3. D \in SUBSET People /\ s.num \in [D -> Int] /\ s.den \in Nat /\ s.den > 0
  BY <1>2, ShareMapIs
<1>4. \A q \in D : s.num[q] \in {0, s.den}
  BY <1>2 DEF InParts
<1>5. InParts(With(s, p, 1, 1))
  <2>1. PICK t, num, E : /\ t = With(s, p, 1, 1) /\ E = D \cup {p}
                         /\ num = [q \in E |-> IF q = p THEN (1 \div 1) * s.den ELSE s.num[q] * (1 \div 1)]
    OBVIOUS
  <2>2. 1 \in Int /\ 1 \in Nat /\ 1 > 0 /\ 1 \div 1 = 1
    OBVIOUS
  <2>3. t \in ShareMaps /\ Holders(t) = E /\ LowerTerms(t, num, s.den * (1 \div 1))
    BY <1>1, <1>2, <2>1, <2>2, WithIs
  <2>4. s.den * (1 \div 1) = s.den
    BY <1>3, <2>2
  <2>5. \A q \in E : num[q] = IF q = p THEN s.den ELSE s.num[q]
    BY <1>3, <2>1, <2>2
  <2>6. num \in [E -> Int] /\ \A q \in E : num[q] \in {0, s.den}
    BY <1>3, <1>4, <2>1, <2>5
  <2>7. LowerTerms(t, num, s.den)
    BY <2>3, <2>4
  <2> QED  BY <1>3, <2>1, <2>3, <2>6, <2>7, LowerTermsInParts
<1>6. InParts(Without(s, p))
  <2>1. PICK t, num, E : t = Without(s, p) /\ E = D \ {p} /\ num = [q \in E |-> s.num[q]]
    OBVIOUS
  <2>2. t \in ShareMaps /\ Holders(t) = E /\ LowerTerms(t, num, s.den)
    BY <1>2, <2>1, WithoutIs
  <2>3. num \in [E -> Int] /\ \A q \in E : num[q] \in {0, s.den}
    BY <1>3, <1>4, <2>1
  <2> QED  BY <1>3, <2>1, <2>2, <2>3, LowerTermsInParts
<1>7. InParts(Nobody)
  BY NobodyIs DEF InParts
<1> QED  BY <1>5, <1>6, <1>7

(***************************************************************************)
(* The edits of the React app: most of them set the shares.                *)
(***************************************************************************)
Reshared ==
  \E s \in ShareMaps :
    /\ Open /\ draft # NoDraft /\ SetShares(s)
    /\ shown = "evenly" /\ draft.mode = "shares" /\ InParts(draft.shares) => InParts(s)

LEMMA SetSharesIs ==
  ASSUME draft \in DraftRecords, NEW s \in ShareMaps, SetShares(s)
  PROVE  /\ draft' \in {draft, [draft EXCEPT !.shares = s]} /\ draft' \in DraftRecords
         /\ draft'.mode = draft.mode /\ shown' = Settled(shown, draft')
         /\ UNCHANGED <<stored, asked, astray>>
<1>1. PICK new : new = [draft EXCEPT !.shares = s]
  OBVIOUS
<1>2. new \in DraftRecords /\ new.mode = draft.mode
  BY <1>1, ResharedIs
<1>3. Push(new, draft.mode) /\ shown' = Settled(shown, draft') /\ UNCHANGED astray
  BY <1>1 DEF SetShares
<1>4. draft' \in {draft, new} /\ draft' \in DraftRecords /\ UNCHANGED <<stored, asked>>
  BY <1>2, <1>3, PushIs
<1> QED  BY <1>1, <1>2, <1>3, <1>4

LEMMA SetShareReshares ==
  ASSUME draft \in DraftRecords \cup {NoDraft}, NEW p \in People, NEW n \in Int, NEW d \in Nat, d > 0,
         SetShare(p, n, d), shown = "evenly" => n \in {0, 1} /\ d = 1
  PROVE  Reshared
<1>1. Open /\ draft # NoDraft /\ draft \in DraftRecords
  BY DEF SetShare
<1>2. PICK k, j : /\ k = n * (IF draft.mode = "absolute" THEN Unit ELSE 1)
                  /\ j = d * (IF shown = "percent" THEN 100 ELSE 1)
  OBVIOUS
<1>3. k \in Int /\ j \in Nat /\ j > 0
  BY <1>2 DEF Unit, Cent
<1>4. PICK t, w, s : /\ t = Without(draft.shares, p) /\ w = With(draft.shares, p, k, j)
                     /\ s = IF n = 0 THEN t ELSE w
  OBVIOUS
<1>5. draft.shares \in ShareMaps
  BY <1>1 DEF DraftRecords
<1>6. s \in ShareMaps
  BY <1>3, <1>4, <1>5, WithIs, WithoutIs
<1>7. SetShares(s)
  BY <1>2, <1>4 DEF SetShare
<1>8. ASSUME shown = "evenly", draft.mode = "shares", InParts(draft.shares) PROVE InParts(s)
  <2>1. n # 0 => k = 1 /\ j = 1
    BY <1>2, <1>8
  <2>2. n # 0 => w = With(draft.shares, p, 1, 1)
    BY <1>4, <2>1
  <2> QED  BY <1>4, <1>5, <1>8, <2>2, OneMoreInParts
<1> QED  BY <1>1, <1>6, <1>7, <1>8 DEF Reshared

\* Typing, toggling, leaving a field, selecting all and picking the recipient are
\* five ways to set the shares; a table that shows "evenly" sets ones only.
LEMMA SharesAreReshared ==
  ASSUME SplitsTypeOK, NEW p \in People,
         TypeShare(p) \/ handleToggleShare(p) \/ VisitShare(p) \/ PickDebitor(p) \/ handleSelectAll
  PROVE  Reshared
<1>1. draft \in DraftRecords \cup {NoDraft}
  BY DEF SplitsTypeOK
<1>2. CASE TypeShare(p)
  <2>1. PICK x \in Typed[shown] : SetShare(p, x, Unit)
    BY <1>2 DEF TypeShare
  <2>2. shown \in Modes /\ shown # "evenly"
    BY <1>2 DEF TypeShare, Modes
  <2>3. x \in Int
    BY <2>2, TypedAssumption
  <2>4. Unit \in Nat /\ Unit > 0
    BY DEF Unit, Cent
  <2> QED  BY <1>1, <2>1, <2>2, <2>3, <2>4, SetShareReshares
<1>3. CASE handleToggleShare(p)
  <2>1. PICK n \in {0, 1} : SetShare(p, n, 1)
    BY <1>3 DEF handleToggleShare
  <2>2. 1 \in Nat /\ 1 > 0 /\ n \in Int
    OBVIOUS
  <2> QED  BY <1>1, <2>1, <2>2, SetShareReshares
<1>4. CASE VisitShare(p)
  <2>1. shown # "evenly" /\ draft \in DraftRecords /\ p \in Holders(draft.shares)
    BY <1>1, <1>4 DEF VisitShare
  <2>2. draft.shares \in ShareMaps
    BY <2>1 DEF DraftRecords
  <2>3. PICK x, den : /\ x = draft.shares.num[p]
                      /\ den = draft.shares.den * (IF draft.mode = "absolute" THEN Unit ELSE 1)
    OBVIOUS
  <2>4. x \in Int /\ den \in Nat /\ den > 0
    <3>1. x \in Int /\ draft.shares.den \in Nat /\ draft.shares.den > 0
      BY <2>1, <2>2, <2>3, ShareMapIs
    <3> QED  BY <2>3, <3>1 DEF Unit, Cent
  <2>5. PICK cents : cents = (200 * Magnitude(x) + den) \div (2 * den)
    OBVIOUS
  <2>6. cents \in Int
    <3>1. PICK m \in Nat : m = Magnitude(x)
      BY <2>4, MagnitudeIs
    <3> QED  BY <2>4, <2>5, <3>1
  <2>7. SetShare(p, IF x < 0 THEN -cents ELSE cents, 100)
    BY <1>4, <2>3, <2>5 DEF VisitShare
  <2>8. PICK n \in Int : n = IF x < 0 THEN -cents ELSE cents
    BY <2>6
  <2>9. 100 \in Nat /\ 100 > 0
    OBVIOUS
  <2> QED  BY <1>1, <2>1, <2>7, <2>8, <2>9, SetShareReshares
<1>5. CASE PickDebitor(p)
  <2>1. PICK one \in Int : one = IF draft.mode = "absolute" THEN Unit ELSE 1
    BY DEF Unit, Cent
  <2>2. PICK D \in SUBSET People : D = {p}
    OBVIOUS
  <2>3. PICK f, s : f = [q \in D |-> one] /\ s = Whole(f)
    OBVIOUS
  <2>4. s \in ShareMaps /\ Holders(s) = D /\ s.den = 1 /\ \A q \in D : s.num[q] = one
    <3>1. f \in [D -> Int] /\ \A q \in D : f[q] = one
      BY ONLY <2>1, <2>3
    <3> QED  BY <2>2, <2>3, <3>1, WholeIs
  <2>5. Open /\ draft # NoDraft /\ SetShares(s)
    BY <1>5, <2>1, <2>2, <2>3 DEF PickDebitor
  <2>6. draft.mode = "shares" => InParts(s)
    BY <2>1, <2>4 DEF InParts
  <2> QED  BY <2>4, <2>5, <2>6 DEF Reshared
<1>6. CASE handleSelectAll
  <2>1. PICK one \in Int : one = IF draft.mode = "absolute" THEN Unit ELSE 1
    BY DEF Unit, Cent
  <2>2. PICK f, s : f = [q \in People |-> one] /\ s = Whole(f)
    OBVIOUS
  <2>3. s \in ShareMaps /\ Holders(s) = People /\ s.den = 1 /\ \A q \in People : s.num[q] = one
    <3>1. f \in [People -> Int] /\ \A q \in People : f[q] = one
      BY ONLY <2>1, <2>2
    <3> QED  BY <2>2, <3>1, WholeIs
  <2>4. Open /\ draft # NoDraft /\ (SetShares(Nobody) \/ SetShares(s))
    BY <1>6, <2>1, <2>2 DEF handleSelectAll
  <2>5. draft.mode = "shares" => InParts(s)
    BY <2>1, <2>3 DEF InParts
  <2>6. Nobody \in ShareMaps /\ InParts(Nobody)
    BY NobodyIs DEF InParts
  <2> QED  BY <2>3, <2>4, <2>5, <2>6 DEF Reshared
<1> QED  BY <1>2, <1>3, <1>4, <1>5, <1>6

\* An edit, in the five ways it can change the draft.
LEMMA SelectEditIs ==
  ASSUME SplitsTypeOK, SelectEdit
  PROVE  \/ Reshared
         \/ \E mode \in Modes \cup {"evenly"} : ChooseMode(mode)
         \/ \E v \in Values : SetValue(v)
         \/ AddPosition \/ AskRate
<1>1. CASE \E p \in People : TypeShare(p) \/ handleToggleShare(p) \/ VisitShare(p) \/ PickDebitor(p)
  BY <1>1, SharesAreReshared
<1>2. CASE handleSelectAll
  BY <1>2, PeopleAssumption, SharesAreReshared
<1> QED  BY <1>1, <1>2 DEF SelectEdit

(***************************************************************************)
(* The edits of the Angular form.                                          *)
(***************************************************************************)
LEMMA FilledWith ==
  ASSUME form \in Forms, NEW p \in People, NEW n \in Int, NEW d \in Nat, d > 0,
         Fill(With(form.shares, p, n, d), FALSE)
  PROVE  \E s \in ShareMaps : Fill(s, FALSE)
<1>1. PICK s : s = With(form.shares, p, n, d)
  OBVIOUS
<1>2. form.shares \in ShareMaps
  BY DEF Forms
<1>3. s \in ShareMaps
  BY <1>1, <1>2, WithIs
<1> QED  BY <1>1, <1>3

\* An edit of the form, in the three ways it can change it.
LEMMA FormEditIs ==
  ASSUME SplitsTypeOK, FormEdit
  PROVE  /\ form \in Forms
         /\ \/ \E s \in ShareMaps : Fill(s, FALSE)
            \/ \E mode \in Modes : Respread(mode)
            \/ \E v \in Values : setValue(v)
<1>1. form \in Forms
  <2>1. form \in Forms \cup {NoForm}
    BY DEF SplitsTypeOK
  <2>2. CASE \E p \in People : toggleParticipant(p) \/ setShare(p) \/ step(p, 1) \/ step(p, -1)
    BY <2>1, <2>2 DEF toggleParticipant, setShare, step
  <2>3. CASE splitEvenlyNow \/ (\E mode \in Modes : setMode(mode)) \/ \E v \in Values : setValue(v)
    BY <2>1, <2>3 DEF setMode, splitEvenlyNow, setValue
  <2> QED  BY <2>2, <2>3 DEF FormEdit
<1>2. form.shares \in ShareMaps /\ form.mode \in Modes
  BY <1>1 DEF Forms
<1>3. ASSUME NEW p \in People, toggleParticipant(p) PROVE \E s \in ShareMaps : Fill(s, FALSE)
  <2>1. PICK s : s = Without(form.shares, p)
    OBVIOUS
  <2>2. s \in ShareMaps
    BY <1>2, <2>1, WithoutIs
  <2>3. PICK n \in Int : n = IF form.mode = "shares" THEN 1 ELSE 0
    OBVIOUS
  <2>4. Fill(s, FALSE) \/ Fill(With(form.shares, p, n, 1), FALSE)
    BY <1>3, <2>1, <2>3 DEF toggleParticipant
  <2>5. 1 \in Nat /\ 1 > 0
    OBVIOUS
  <2> QED  BY <1>1, <2>2, <2>4, <2>5, FilledWith
<1>4. ASSUME NEW p \in People, setShare(p) PROVE \E s \in ShareMaps : Fill(s, FALSE)
  <2>1. PICK x \in Int : Fill(With(form.shares, p, x, 1), FALSE) \/ Fill(With(form.shares, p, x, 100), FALSE)
    BY <1>4, FormAssumption DEF setShare
  <2>2. 1 \in Nat /\ 1 > 0 /\ 100 \in Nat /\ 100 > 0
    OBVIOUS
  <2> QED  BY <1>1, <2>1, <2>2, FilledWith
<1>5. ASSUME NEW p \in People, NEW delta \in {-1, 1}, step(p, delta)
      PROVE  \E s \in ShareMaps : Fill(s, FALSE)
  <2>1. PICK den, next : den = form.shares.den /\ next = form.shares.num[p] + delta * den
    OBVIOUS
  <2>2. den \in Nat /\ den > 0 /\ next \in Int
    <3>1. p \in Holders(form.shares)
      BY <1>5 DEF step
    <3> QED  BY <1>2, <2>1, <3>1, ShareMapIs
  <2>3. PICK n : n = IF next < 0 THEN 0 ELSE IF next > 20 * den THEN 20 * den ELSE next
    OBVIOUS
  <2>4. n \in Int
    BY <2>2, <2>3
  <2>5. Fill(With(form.shares, p, n, den), FALSE)
    BY <1>5, <2>1, <2>3 DEF step
  <2> QED  BY <1>1, <2>2, <2>4, <2>5, FilledWith
<1>6. ASSUME \E mode \in Modes : setMode(mode) PROVE \E mode \in Modes : Respread(mode)
  BY <1>6 DEF setMode
<1>7. ASSUME splitEvenlyNow PROVE \E mode \in Modes : Respread(mode)
  BY <1>2, <1>7 DEF splitEvenlyNow
<1> QED  BY <1>1, <1>3, <1>4, <1>5, <1>6, <1>7 DEF FormEdit

LEMMA FillIs ==
  ASSUME form \in Forms, NEW s \in ShareMaps, Fill(s, FALSE)
  PROVE  form' \in Forms /\ spread' = FALSE /\ refused' = FALSE /\ UNCHANGED stored
BY DEF Fill, Forms

LEMMA RespreadFills ==
  ASSUME form \in Forms, NEW mode \in Modes, Respread(mode)
  PROVE  /\ form' \in Forms /\ spread' = TRUE /\ refused' = FALSE /\ UNCHANGED stored
         /\ form'.shares = respread(form'.mode, Holders(form'.shares), form'.value)
<1>1. PICK D, s : D = Holders(form.shares) /\ s = respread(mode, D, form.value)
  OBVIOUS
<1>2. form.shares \in ShareMaps /\ form.value \in Int
  BY DEF Forms
<1>3. D \in SUBSET People
  BY <1>1, <1>2, ShareMapIs
<1>4. s \in ShareMaps /\ Holders(s) = D
  BY <1>1, <1>2, <1>3, RespreadIs
<1>5. /\ form' = [form EXCEPT !.mode = mode, !.shares = s] /\ spread' = TRUE /\ refused' = FALSE
      /\ UNCHANGED stored
  BY <1>1 DEF Respread
<1>6. form' \in Forms /\ form'.mode = mode /\ form'.value = form.value /\ form'.shares = s
  BY ONLY <1>4, <1>5, form \in Forms, mode \in Modes DEF Forms
<1> QED  BY <1>1, <1>4, <1>5, <1>6

\* A new value spreads absolute shares anew, and leaves the others as spread.
LEMMA SetValueFills ==
  ASSUME form \in Forms, NEW v \in Values, setValue(v), spread \in BOOLEAN,
         spread => form.shares = respread(form.mode, Holders(form.shares), form.value)
  PROVE  /\ form' \in Forms /\ spread' \in BOOLEAN /\ refused' = FALSE /\ UNCHANGED stored
         /\ spread' => form'.shares = respread(form'.mode, Holders(form'.shares), form'.value)
<1>1. PICK again, D, s : /\ again = (form.mode = "absolute" /\ Holders(form.shares) # {})
                         /\ D = Holders(form.shares) /\ s = splitEvenly(v, D)
  OBVIOUS
<1>2. v \in Int /\ form.shares \in ShareMaps /\ form.value \in Int /\ form.mode \in Modes
  BY ValuesAssumption DEF Forms
<1>3. D \in SUBSET People
  BY <1>1, <1>2, ShareMapIs
<1>4. CASE again
  <2>1. s \in ShareMaps /\ Holders(s) = D /\ s = respread("absolute", D, v)
    BY <1>1, <1>2, <1>3, <1>4, SplitEvenlyIs DEF respread
  <2>2. form' = [form EXCEPT !.value = v, !.shares = s] /\ spread' = TRUE /\ refused' = FALSE
    BY <1>1, <1>4 DEF setValue
  <2>3. form' \in Forms /\ form'.mode = form.mode /\ form'.value = v /\ form'.shares = s
    BY ONLY <1>2, <2>1, <2>2, form \in Forms DEF Forms
  <2> QED  BY <1>1, <1>4, <2>1, <2>2, <2>3 DEF setValue
<1>5. CASE ~again
  <2>1. form' = [form EXCEPT !.value = v] /\ spread' = spread /\ refused' = FALSE /\ UNCHANGED stored
    <3>1. form' = [form EXCEPT !.value = v, !.shares = form.shares]
      BY <1>1, <1>5 DEF setValue
    <3> QED  BY <1>1, <1>5, <3>1 DEF setValue, Forms
  <2>2. /\ form' \in Forms /\ form'.mode = form.mode /\ form'.value = v
        /\ form'.shares = form.shares
    BY ONLY <1>2, <2>1, form \in Forms DEF Forms
  <2>3. respread(form.mode, D, v) = respread(form.mode, D, form.value)
    BY <1>1, <1>2, <1>5 DEF respread, Modes
  <2> QED  BY <1>1, <2>1, <2>2, <2>3
<1> QED  BY <1>4, <1>5

(***************************************************************************)
(* The invariant: a save is refused for what the form still shows, the     *)
(* shares of a spread form are still those, and the table of shares agrees *)
(* with what is displayed, draft or not.                                   *)
(***************************************************************************)
RefusedRightly == refused => form \in Forms /\ Valid(TRUE) /\ ~Accepted(Payload, FALSE, FALSE)
SpreadStands ==
  spread => form \in Forms /\ form.shares = respread(form.mode, Holders(form.shares), form.value)
TableAgrees == Open /\ ~astray => Agrees(shown, Displayed)

SplitsInv ==
  SplitsTypeOK /\ PagesApart /\ RefusedRightly /\ SpreadStands /\ TableAgrees /\ StoredAddsUp

LEMMA SplitsInit == Init => SplitsInv
<1> SUFFICES ASSUME Init PROVE SplitsInv
  OBVIOUS
<1>1. /\ stored = NoExpense /\ form = NoForm /\ draft = NoDraft /\ asked = NoDraft /\ shown = "closed"
      /\ spread = FALSE /\ refused = FALSE /\ astray = FALSE /\ edits = 0 /\ savedBy = "none"
  BY DEF Init, FormInit, SelectInit
<1>2. SplitsTypeOK
  BY <1>1 DEF SplitsTypeOK
<1>3. PagesApart
  BY <1>1 DEF PagesApart, Open
<1>4. RefusedRightly /\ SpreadStands
  BY <1>1 DEF RefusedRightly, SpreadStands
<1>5. TableAgrees /\ StoredAddsUp
  BY <1>1 DEF TableAgrees, Open, StoredAddsUp, Exists
<1> QED  BY <1>2, <1>3, <1>4, <1>5 DEF SplitsInv

\* What a form is opened with is well typed.
LEMMA FormOfIs ==
  ASSUME stored \in Expenses \cup {NoExpense}
  PROVE  FormOf(stored) \in Forms
<1>1. CASE stored = NoExpense
  <2>1. PICK f, s : f = [p \in People |-> 1] /\ s = Whole(f)
    OBVIOUS
  <2>2. s \in ShareMaps
    <3>1. f \in [People -> Int]
      BY ONLY <2>1
    <3> QED  BY <2>1, <3>1, WholeIs
  <2>3. FormOf(stored) = [type |-> "purchase", mode |-> "shares", value |-> 0, shares |-> s]
    BY <1>1, <2>1 DEF FormOf
  <2> QED  BY ONLY <2>2, <2>3 DEF Forms, Kinds, Modes
<1>2. CASE stored \in Expenses
  <2>1. PICK s : s = fromWire(stored.mode, stored.shares)
    OBVIOUS
  <2>2. /\ stored.type \in Kinds /\ stored.mode \in Modes /\ stored.value \in Int
        /\ stored.shares \in ShareMaps /\ stored # NoExpense
    BY <1>2, RecordsAre DEF Expenses
  <2>3. s \in ShareMaps
    BY <2>1, <2>2, FromWireIs
  <2>4. FormOf(stored) = [type |-> stored.type, mode |-> stored.mode, value |-> stored.value, shares |-> s]
    BY <2>1, <2>2 DEF FormOf
  <2> QED  BY ONLY <2>2, <2>3, <2>4 DEF Forms
<1> QED  BY <1>1, <1>2

LEMMA PayloadIs ==
  ASSUME form \in Forms, stored \in Expenses \cup {NoExpense}
  PROVE  /\ Payload \in Expenses /\ Payload.type = form.type /\ Payload.mode = form.mode
         /\ Payload.value = form.value /\ Payload.shares = toWire(form.mode, form.shares)
<1>1. PICK s, b : s = toWire(form.mode, form.shares) /\ b = stored.positions
  OBVIOUS
<1>2. /\ form.type \in Kinds /\ form.mode \in Modes /\ form.value \in Int
      /\ form.shares \in ShareMaps
  BY DEF Forms
<1>3. s \in ShareMaps
  BY <1>1, <1>2, ToWireIs
<1>4. b \in BOOLEAN
  <2>1. NoExpense.positions = FALSE
    BY DEF NoExpense
  <2>2. stored \in Expenses => stored.positions \in BOOLEAN
    BY DEF Expenses
  <2> QED  BY <1>1, <2>1, <2>2
<1>5. Payload = [type |-> form.type, mode |-> form.mode, value |-> form.value, shares |-> s, positions |-> b]
  BY <1>1 DEF Payload
<1>6. /\ Payload \in Expenses /\ Payload.type = form.type /\ Payload.mode = form.mode
      /\ Payload.value = form.value /\ Payload.shares = s
  BY ONLY <1>2, <1>3, <1>4, <1>5 DEF Expenses
<1> QED  BY <1>1, <1>6

LEMMA SettleIs ==
  ASSUME NEW p \in People, NEW v \in Values, settle(p, v)
  PROVE  /\ stored' \in Expenses /\ UNCHANGED formVars
         /\ stored'.type = "transfer" /\ stored'.mode = "absolute" /\ stored'.value = v /\ v > 0
         /\ Holders(stored'.shares) = {p} /\ stored'.shares.den = 1 /\ stored'.shares.num[p] = v
         /\ sumShares(stored'.shares) = v
<1>1. PICK D, f, s : D = {p} /\ f = [q \in D |-> v] /\ s = Whole(f)
  OBVIOUS
<1>2. v \in Int /\ v > 0 /\ D \in SUBSET People
  BY <1>1, ValuesAssumption DEF settle
<1>3. f \in [D -> Int] /\ f[p] = v
  BY ONLY <1>1, <1>2
<1>4. s \in ShareMaps /\ Holders(s) = D /\ s.num = f /\ s.den = 1 /\ sumShares(s) = SumFunction(f)
  BY <1>1, <1>2, <1>3, WholeIs
<1>5. SumFunction(f) = v
  <2>1. IsFiniteSet(D) /\ Cardinality(D) = 1 /\ p \in D
    BY <1>1, FS_Singleton
  <2>2. f = [q \in D |-> IF q = p THEN v ELSE v]
    BY <1>1
  <2>3. SumFunction(f) = v + v * (Cardinality(D) - 1)
    BY <1>2, <2>1, <2>2, SumOfEqual
  <2> QED  BY <1>2, <2>1, <2>3
<1>6. stored' = [type |-> "transfer", mode |-> "absolute", value |-> v, shares |-> s, positions |-> FALSE]
  BY <1>1 DEF settle
<1>7. /\ stored' \in Expenses /\ stored'.type = "transfer" /\ stored'.mode = "absolute"
      /\ stored'.value = v /\ stored'.shares = s
  BY ONLY <1>2, <1>4, <1>6 DEF Expenses, Kinds, Modes
<1> QED  BY <1>1, <1>2, <1>3, <1>4, <1>5, <1>7 DEF settle

(***************************************************************************)
(* What the two apps and the database make sure of.                        *)
(***************************************************************************)
\* The tolerances: what is at most a quotient, and what is more than one less.
LEMMA AtMost ==
  ASSUME NEW x \in Nat, NEW a \in Nat, NEW denom \in Nat, denom > 0, x <= (a - 0) \div denom
  PROVE  x * denom <= a
<1>1. PICK q : q = (a - 0) \div denom
  OBVIOUS
<1>2. x <= q
  BY <1>1
<1>3. q \in Nat /\ q * denom <= a
  BY ONLY <1>1, a \in Nat, denom \in Nat, denom > 0
<1>4. x * denom <= q * denom
  BY ONLY <1>2, <1>3, x \in Nat, denom \in Nat
<1>5. x * denom \in Int /\ q * denom \in Int
  BY ONLY <1>3, x \in Nat, denom \in Nat
<1> QED  BY ONLY <1>3, <1>4, <1>5, a \in Nat

LEMMA NotAtMost ==
  ASSUME NEW x, NEW a \in Nat, a > 0, NEW denom \in Nat, denom > 0, ~(x <= (a - 1) \div denom)
  PROVE  x # 0
<1>1. PICK q : q = (a - 1) \div denom
  OBVIOUS
<1>2. ~(x <= q)
  BY <1>1
<1>3. q \in Nat
  BY ONLY <1>1, a \in Nat, a > 0, denom \in Nat, denom > 0
<1> QED  BY <1>2, <1>3

\* A form that is valid has somebody, and misses its total by little.
LEMMA ValidIsNear ==
  ASSUME form \in Forms, stored \in Expenses \cup {NoExpense}, Valid(TRUE)
  PROVE  Holders(Payload.shares) # {} /\ NearlyExact(Payload)
<1>1. PICK s, t : s = form.shares /\ t = Payload.shares
  OBVIOUS
<1>2. s \in ShareMaps /\ form.mode \in Modes /\ form.value \in Int
  BY <1>1 DEF Forms
<1>3. /\ t = toWire(form.mode, s) /\ Payload.mode = form.mode /\ Payload.value = form.value
      /\ Payload \in Expenses
  BY <1>1, PayloadIs
<1>4. t \in ShareMaps /\ Holders(t) = Holders(s)
  BY <1>2, <1>3, ToWireIs
<1>5. Holders(s) # {}
  BY <1>1 DEF Valid, validateSplit
<1>6. s.den \in Nat /\ s.den > 0 /\ t.den \in Nat /\ t.den > 0
  BY <1>2, <1>4, ShareMapIs
<1>7. CASE form.mode = "shares"
  BY <1>3, <1>4, <1>5, <1>7, <1>1 DEF NearlyExact
<1>8. CASE form.mode = "percent"
  <2>1. t = Scaled(s, 1, 100)
    BY <1>3, <1>8 DEF toWire
  <2>2. PICK c \in Nat : /\ c > 0 /\ t.den * c = s.den * 100
                         /\ Off("percent", t, form.value, 1) * c = Off("percent", s, form.value, 100)
    BY <1>2, <2>1, OffOfPercent
  <2>3. PICK x, y : x = Off("percent", s, form.value, 100) /\ y = Off("percent", t, form.value, 1)
    OBVIOUS
  <2>4. x \in Nat /\ y \in Nat
    BY <1>2, <1>4, <2>3, OffIs
  <2>5. PICK a \in Nat : a = s.den * 1
    BY <1>6
  <2>6. x * 100 <= a
    <3>1. x <= (a - 0) \div 100
      BY <1>1, <1>8, <2>3, <2>5 DEF Valid, validateSplit, Within
    <3>2. 100 \in Nat /\ 100 > 0
      OBVIOUS
    <3> QED  BY <2>4, <3>1, <3>2, AtMost
  <2>7. y * 10000 <= t.den * 1
    <3>1. y * c = x /\ t.den * c = s.den * 100
      BY <2>2, <2>3
    <3>2. PICK d \in Nat, e \in Nat : d = t.den /\ e = s.den
      BY <1>6
    <3>3. x * 10000 <= e * 100
      BY ONLY <2>4, <2>5, <2>6, <3>2
    <3>4. (y * 10000) * c = x * 10000
      BY ONLY <2>2, <2>4, <3>1
    <3>5. (y * 10000) * c <= d * c
      BY <3>1, <3>2, <3>3, <3>4
    <3>6. PICK g \in Int : g = y * 10000
      BY <2>4
    <3>7. g <= d
      <4>1. g * c <= d * c
        BY <3>5, <3>6
      <4> QED  BY ONLY <2>2, <3>2, <3>6, <4>1
    <3>8. t.den * 1 = d
      BY <3>2
    <3> QED  BY <3>6, <3>7, <3>8
  <2> QED  BY <1>1, <1>3, <1>4, <1>5, <1>8, <2>3, <2>7 DEF NearlyExact
<1>9. CASE form.mode = "absolute"
  <2>1. t = s
    BY <1>3, <1>9 DEF toWire
  <2>2. PICK x : x = Off("absolute", s, form.value, 100)
    OBVIOUS
  <2>3. x \in Nat /\ Off("absolute", t, form.value, 1) = x
    <3>1. Off("absolute", s, form.value, 1) = Off("absolute", s, form.value, 100)
      BY DEF Off
    <3> QED  BY <1>2, <2>1, <2>2, <3>1, OffIs
  <2>4. PICK a \in Nat : a = s.den * Cent
    BY <1>6 DEF Cent
  <2>5. x * 1 <= a
    <3>1. x <= (a - 0) \div 1
      BY <1>1, <1>9, <2>2, <2>4 DEF Valid, validateSplit, Within
    <3>2. 1 \in Nat /\ 1 > 0
      OBVIOUS
    <3> QED  BY <2>3, <3>1, <3>2, AtMost
  <2>6. x * 1 <= s.den * Cent
    BY <2>4, <2>5
  <2> QED  BY <1>1, <1>3, <1>4, <1>5, <1>9, <2>1, <2>3, <2>6 DEF NearlyExact
<1> QED  BY <1>2, <1>7, <1>8, <1>9 DEF Modes

\* The refusals of the database that a valid form can meet.
LEMMA RefusalIsGap ==
  ASSUME form \in Forms, stored \in Expenses \cup {NoExpense}, Valid(TRUE),
         ~Accepted(Payload, FALSE, FALSE)
  PROVE  ~Positive(Payload) \/ ~OneDebitor(Payload) \/ (~Exact(Payload) /\ NearlyExact(Payload))
<1>1. Holders(Payload.shares) # {} /\ NearlyExact(Payload)
  BY ValidIsNear
<1>2. PICK e : e = Payload
  OBVIOUS
<1>3. e \in Expenses
  BY <1>2, PayloadIs
<1>4. PICK x, den : x = Off(e.mode, e.shares, e.value, 1) /\ den = e.shares.den
  OBVIOUS
<1>5. x \in Nat /\ den \in Nat /\ den > 0
  <2>1. e.shares \in ShareMaps /\ e.value \in Int
    BY <1>3 DEF Expenses
  <2>2. 1 \in Int
    OBVIOUS
  <2> QED  BY <1>4, <2>1, <2>2, OffIs, ShareMapIs
<1>6. PICK a, b : a = den * Unit /\ b = den * 1
  OBVIOUS
<1>7. a \in Nat /\ a > 0 /\ b \in Nat /\ b > 0
  BY ONLY <1>5, <1>6 DEF Unit, Cent
<1>8. \/ ~Positive(e) \/ ~OneDebitor(e)
      \/ e.mode = "absolute" /\ ~(x <= (a - 1) \div 10000)
      \/ e.mode = "percent" /\ ~(x <= (b - 1) \div 10000)
  <2>1. ~Accepted(e, FALSE, FALSE) /\ Holders(e.shares) # {}
    BY <1>1, <1>2
  <2>2. ASSUME Positive(e), OneDebitor(e)
        PROVE  \/ e.mode = "absolute" /\ ~(x <= (a - 1) \div 10000)
               \/ e.mode = "percent" /\ ~(x <= (b - 1) \div 10000)
    <3>1. \A p \in Holders(e.shares) : e.shares.num[p] > 0
      BY <2>2 DEF Positive
    <3>2. e.type = "transfer" => Cardinality(Holders(e.shares)) = 1
      BY <2>2 DEF OneDebitor
    <3> QED  BY <1>4, <1>6, <2>1, <3>1, <3>2 DEF Accepted, Within
  <2> QED  BY <2>2
<1>9. e.mode \in {"absolute", "percent"} /\ x = 0 /\ Positive(e) => ~OneDebitor(e)
  <2>1. 10000 \in Nat /\ 10000 > 0
    OBVIOUS
  <2> QED  BY <1>7, <1>8, <2>1, NotAtMost
<1>10. x # 0 /\ e.mode # "shares" => ~Exact(e)
  BY <1>4 DEF Exact
<1> QED  BY <1>1, <1>2, <1>8, <1>9, <1>10

\* A draft that may be saved.
LEMMA WellFormedIsFine ==
  ASSUME NEW d \in DraftRecords, WellFormed(d, TRUE)
  PROVE  Holders(d.shares) # {} /\ FinelyExact(d) /\ NearlyExact(d)
<1>1. d.shares \in ShareMaps /\ d.mode \in Modes /\ d.value \in Int
  BY DEF DraftRecords
<1>2. Holders(d.shares) # {} /\ AddsUp(d.mode, d.shares, d.value, TRUE)
  BY DEF WellFormed
<1>3. PICK x, den : x = Off(d.mode, d.shares, d.value, 1) /\ den = d.shares.den
  OBVIOUS
<1>4. x \in Nat /\ den \in Nat /\ den > 0
  BY <1>1, <1>3, OffIs, ShareMapIs
<1>5. Unit \in Nat /\ Unit > 0 /\ Unit = 200 /\ Cent = 2
  BY DEF Unit, Cent
<1>6. CASE d.mode = "shares"
  BY <1>2, <1>6 DEF FinelyExact, NearlyExact
<1>7. CASE d.mode = "percent"
  <2>1. x * 100000 <= den * 1
    <3>1. PICK a \in Nat : a = den * 1
      BY <1>4
    <3>2. x <= (a - 0) \div 100000
      BY <1>2, <1>3, <1>7, <3>1 DEF AddsUp, Within
    <3>3. 100000 \in Nat /\ 100000 > 0
      OBVIOUS
    <3> QED  BY <1>4, <3>1, <3>2, <3>3, AtMost
  <2>2. x * 100000 <= den /\ x * 10000 <= den * 1
    BY ONLY <1>4, <2>1
  <2> QED  BY <1>2, <1>3, <1>7, <2>2 DEF FinelyExact, NearlyExact
<1>8. CASE d.mode = "absolute"
  <2>1. x * 100000 <= den * Unit
    <3>1. PICK a \in Nat : a = den * Unit
      BY <1>4, <1>5
    <3>2. x <= (a - 0) \div 100000
      BY <1>2, <1>3, <1>8, <3>1 DEF AddsUp, Within
    <3>3. 100000 \in Nat /\ 100000 > 0
      OBVIOUS
    <3> QED  BY <1>4, <3>1, <3>2, <3>3, AtMost
  <2>2. x * 500 <= den /\ x * 1 <= den * Cent
    BY ONLY <1>4, <1>5, <2>1
  <2> QED  BY <1>2, <1>3, <1>8, <2>2 DEF FinelyExact, NearlyExact
<1> QED  BY <1>1, <1>6, <1>7, <1>8 DEF Modes

(***************************************************************************)
(* The steps of the two apps.                                              *)
(***************************************************************************)
\* The effect of ShareSelect changes the shown mode to "evenly" only where that
\* agrees.
LEMMA SettledAgrees ==
  ASSUME NEW mode, NEW e, NEW m, m = Settled(mode, e)
  PROVE  m \in {mode, "evenly"} /\ (Agrees(mode, e) => Agrees(m, e))
<1>1. m = mode \/ (m = "evenly" /\ e.mode = "shares" /\ AllOnes(e.shares))
  BY DEF Settled
<1>2. AllOnes(e.shares) => \A p \in Holders(e.shares) : e.shares.num[p] \in {0, e.shares.den}
  BY DEF AllOnes
<1> QED  BY <1>1, <1>2 DEF Agrees

LEMMA SavedByForm ==
  ASSUME SplitsInv, form \in Forms, Valid(TRUE), Accepted(Payload, FALSE, TRUE)
  PROVE  /\ Holders(Payload.shares) # {} /\ Positive(Payload) /\ OneDebitor(Payload)
         /\ NearlyExact(Payload)
<1>1. stored \in Expenses \cup {NoExpense}
  BY DEF SplitsInv, SplitsTypeOK
<1>2. Positive(Payload) /\ OneDebitor(Payload)
  BY DEF Accepted, Positive, OneDebitor
<1> QED  BY <1>1, <1>2, ValidIsNear

LEMMA SettledUp ==
  ASSUME NEW p \in People, NEW v \in Values, settle(p, v)
  PROVE  /\ stored' \in Expenses /\ Holders(stored'.shares) # {}
         /\ Positive(stored') /\ OneDebitor(stored') /\ NearlyExact(stored')
<1>1. PICK e, D : e = stored' /\ D = {p}
  OBVIOUS
<1>2. /\ e \in Expenses /\ e.type = "transfer" /\ e.mode = "absolute" /\ e.value = v /\ v > 0
      /\ Holders(e.shares) = D /\ e.shares.den = 1 /\ e.shares.num[p] = v /\ sumShares(e.shares) = v
  BY <1>1, SettleIs
<1>3. v \in Int
  BY ValuesAssumption
<1>4. Holders(e.shares) # {} /\ Positive(e)
  BY <1>1, <1>2 DEF Positive
<1>5. OneDebitor(e)
  <2>1. Cardinality(D) = 1
    BY <1>1, FS_Singleton
  <2> QED  BY <1>2, <2>1 DEF OneDebitor
<1>6. NearlyExact(e)
  <2>1. Off("absolute", e.shares, v, 1) = 0
    BY <1>2, <1>3 DEF Off, Magnitude
  <2> QED  BY <1>2, <2>1 DEF NearlyExact, Cent
<1> QED  BY <1>1, <1>2, <1>4, <1>5, <1>6

\* The Angular frontend keeps the invariant: the expense stays as it is, or a
\* split that was checked replaces it.
LEMMA FormStep ==
  ASSUME SplitsInv, FormNext
  PROVE  SplitsInv'
<1>1. /\ SplitsTypeOK /\ PagesApart /\ RefusedRightly /\ SpreadStands /\ TableAgrees /\ StoredAddsUp
  BY DEF SplitsInv
<1>2. /\ stored \in Expenses \cup {NoExpense} /\ form \in Forms \cup {NoForm} /\ spread \in BOOLEAN
      /\ refused \in BOOLEAN /\ edits \in Nat /\ savedBy \in {"none", "form", "select"}
  BY <1>1 DEF SplitsTypeOK
<1>3. /\ UNCHANGED <<draft, shown, asked, astray>>
      /\ savedBy' = IF stored' = stored THEN savedBy ELSE "form"
  BY DEF FormNext, selectVars
<1>4. edits' \in Nat
  BY <1>2 DEF FormNext, Input
<1>5. NoForm \notin Forms /\ NoExpense \notin Expenses
  BY RecordsAre
<1>6. form = NoForm => spread = FALSE /\ refused = FALSE
  BY <1>1, <1>2, <1>5 DEF RefusedRightly, SpreadStands
<1> DEFINE Stays == /\ stored' = stored /\ form' \in Forms \cup {NoForm} /\ ~Open
                    /\ spread' \in BOOLEAN /\ refused' \in BOOLEAN
                    /\ RefusedRightly' /\ SpreadStands'
           Saves == /\ stored' \in Expenses /\ form' = NoForm /\ ~Open
                    /\ spread' = FALSE /\ refused' = FALSE
                    /\ Holders(stored'.shares) # {} /\ Positive(stored') /\ OneDebitor(stored')
                    /\ NearlyExact(stored')
<1>7. ASSUME OpenEditor /\ ~Open PROVE Stays \/ Saves
  <2>1. form' \in Forms
    BY <1>2, <1>7, FormOfIs DEF OpenEditor
  <2>2. Stays
    BY <1>7, <2>1 DEF OpenEditor, RefusedRightly, SpreadStands
  <2> QED  BY <2>2
<1>8. ASSUME FormEdit PROVE Stays \/ Saves
  <2>1. /\ form \in Forms
        /\ \/ \E s \in ShareMaps : Fill(s, FALSE)
           \/ \E mode \in Modes : Respread(mode)
           \/ \E v \in Values : setValue(v)
    BY <1>1, <1>8, FormEditIs
  <2>2. ~Open
    BY <1>1, <1>5, <2>1 DEF PagesApart
  <2>3. CASE \E s \in ShareMaps : Fill(s, FALSE)
    <3>1. form' \in Forms /\ spread' = FALSE /\ refused' = FALSE /\ stored' = stored
      BY <2>1, <2>3, FillIs
    <3> QED  BY <2>2, <3>1 DEF RefusedRightly, SpreadStands
  <2>4. CASE \E mode \in Modes : Respread(mode)
    <3>1. /\ form' \in Forms /\ spread' = TRUE /\ refused' = FALSE /\ stored' = stored
          /\ form'.shares = respread(form'.mode, Holders(form'.shares), form'.value)
      BY <2>1, <2>4, RespreadFills
    <3> QED  BY <2>2, <3>1 DEF RefusedRightly, SpreadStands
  <2>5. CASE \E v \in Values : setValue(v)
    <3>1. spread => form.shares = respread(form.mode, Holders(form.shares), form.value)
      BY <1>1 DEF SpreadStands
    <3>2. /\ form' \in Forms /\ spread' \in BOOLEAN /\ refused' = FALSE /\ stored' = stored
          /\ spread' => form'.shares = respread(form'.mode, Holders(form'.shares), form'.value)
      BY <1>2, <2>1, <2>5, <3>1, SetValueFills
    <3> QED  BY <2>2, <3>2 DEF RefusedRightly, SpreadStands
  <2> QED  BY <2>1, <2>3, <2>4, <2>5
<1>9. ASSUME saveForm PROVE Stays \/ Saves
  <2>1. form \in Forms /\ ~Open /\ Valid(TRUE)
    BY <1>1, <1>2, <1>9 DEF saveForm, PagesApart
  <2>2. CASE /\ Accepted(Payload, FALSE, TRUE) /\ stored' = Payload
             /\ form' = NoForm /\ spread' = FALSE /\ refused' = FALSE
    <3>1. Payload \in Expenses
      BY <1>2, <2>1, PayloadIs
    <3>2. /\ Holders(Payload.shares) # {} /\ Positive(Payload) /\ OneDebitor(Payload)
          /\ NearlyExact(Payload)
      BY <2>1, <2>2, SavedByForm
    <3> QED  BY <2>1, <2>2, <3>1, <3>2
  <2>3. CASE ~Accepted(Payload, FALSE, FALSE) /\ refused' = TRUE /\ UNCHANGED <<stored, form, spread>>
    <3>1. SpreadStands'
      BY <1>1, <2>3 DEF SpreadStands
    <3>2. RefusedRightly'
      <4>1. form' = form /\ stored' = stored
        BY <2>3
      <4>2. form' \in Forms
        BY <2>1, <4>1
      <4>3. Valid(TRUE)'
        BY <2>1, <4>1 DEF Valid
      <4>4. Payload' = Payload
        BY <4>1 DEF Payload
      <4>5. ~Accepted(Payload, FALSE, FALSE)'
        BY <2>3, <4>4
      <4> QED  BY <4>2, <4>3, <4>5 DEF RefusedRightly
    <3> QED  BY <1>2, <2>1, <2>3, <3>1, <3>2
  <2> QED  BY <1>9, <2>2, <2>3 DEF saveForm
<1>10. ASSUME CloseForm PROVE Stays \/ Saves
  BY <1>1, <1>10 DEF CloseForm, PagesApart, RefusedRightly, SpreadStands
<1>11. ASSUME ~Open /\ \E p \in People, v \in Values : settle(p, v)
       PROVE  Stays \/ Saves
  <2>1. PICK p \in People, v \in Values : settle(p, v)
    BY <1>11
  <2>2. form = NoForm /\ UNCHANGED formVars
    BY <2>1 DEF settle
  <2>3. form' = NoForm /\ spread' = FALSE /\ refused' = FALSE
    BY <1>6, <2>2 DEF formVars
  <2> QED  BY <1>11, <2>1, <2>3, SettledUp
<1>12. Stays \/ Saves
  BY <1>7, <1>8, <1>9, <1>10, <1>11 DEF FormNext
<1> HIDE DEF Stays, Saves
<1>13. ~Open /\ ~Open'
  BY <1>3, <1>12 DEF Stays, Saves, Open
<1>14. SplitsTypeOK'
  BY <1>1, <1>3, <1>4, <1>12 DEF SplitsTypeOK, Stays, Saves
<1>15. PagesApart' /\ TableAgrees'
  BY <1>13 DEF PagesApart, TableAgrees
<1>16. RefusedRightly' /\ SpreadStands'
  BY <1>12 DEF Stays, Saves, RefusedRightly, SpreadStands
<1>17. StoredAddsUp'
  <2>1. CASE stored' = stored
    BY <1>1, <1>3, <2>1 DEF StoredAddsUp, Exists
  <2>2. CASE stored' # stored
    <3>1. Saves /\ savedBy' = "form"
      BY <1>3, <1>12, <2>2 DEF Stays
    <3> QED  BY <3>1 DEF Saves, StoredAddsUp
  <2> QED  BY <2>1, <2>2
<1> QED  BY <1>14, <1>15, <1>16, <1>17 DEF SplitsInv

LEMMA FromServerIs ==
  ASSUME stored \in Expenses, NEW e, e = FromServer(stored)
  PROVE  /\ e \in DraftRecords /\ e.mode = stored.mode /\ e.shares = stored.shares
         /\ e.type = stored.type /\ e.value = stored.value
<1>1. e = [id |-> "stored", type |-> stored.type, mode |-> stored.mode, value |-> stored.value,
           shares |-> stored.shares, positions |-> stored.positions, touched |-> FALSE]
  BY DEF FromServer
<1>2. /\ stored.type \in Kinds /\ stored.mode \in Modes /\ stored.value \in Int
      /\ stored.shares \in ShareMaps /\ stored.positions \in BOOLEAN
  BY DEF Expenses
<1> QED  BY ONLY <1>1, <1>2 DEF DraftRecords

\* The menu: the draft has the chosen mode, or the chosen one is "evenly" and all
\* take one part or none.
LEMMA ChosenAgrees ==
  ASSUME draft \in DraftRecords, NEW mode \in Modes \cup {"evenly"}, NEW u, u = Updated(draft, mode)
  PROVE  u \in DraftRecords /\ Agrees(mode, u)
<1>1. draft # NoDraft /\ draft.mode \in Modes /\ draft.shares \in ShareMaps /\ draft.value \in Int
  BY RecordsAre DEF DraftRecords
<1>2. PICK s : s = AfterModeChange(draft.mode, mode, draft.shares, draft.value)
  OBVIOUS
<1>3. /\ u \in DraftRecords /\ u.shares = s
      /\ u.mode = (IF mode = "evenly" THEN "shares" ELSE mode)
  BY <1>1, <1>2, UpdatedIs
<1>4. CASE mode = "evenly"
  <2>1. draft.mode # mode
    BY <1>1, <1>4 DEF Modes
  <2>2. \A p \in Holders(s) : s.num[p] \in {0, s.den}
    BY <1>1, <1>2, <1>4, <2>1, ModeChangeIs
  <2> QED  BY <1>3, <1>4, <2>2 DEF Agrees
<1>5. CASE mode # "evenly"
  BY <1>3, <1>5 DEF Agrees
<1> QED  BY <1>3, <1>4, <1>5

LEMMA SavedBySelect ==
  ASSUME draft \in DraftRecords, saveDraft
  PROVE  /\ stored' \in Expenses /\ stored'.mode = draft.mode /\ stored'.shares = draft.shares
         /\ Holders(stored'.shares) # {} /\ Positive(stored') /\ OneDebitor(stored')
         /\ NearlyExact(stored') /\ FinelyExact(stored')
<1>1. PICK e : e = stored'
  OBVIOUS
<1>2. /\ draft.type \in Kinds /\ draft.mode \in Modes /\ draft.value \in Int
      /\ draft.shares \in ShareMaps /\ draft.positions \in BOOLEAN
  BY DEF DraftRecords
<1>3. e = [type |-> draft.type, mode |-> draft.mode, value |-> draft.value,
           shares |-> draft.shares, positions |-> draft.positions]
  BY <1>1 DEF saveDraft
<1>4. /\ e \in Expenses /\ e.type = draft.type /\ e.mode = draft.mode /\ e.value = draft.value
      /\ e.shares = draft.shares
  BY ONLY <1>2, <1>3 DEF Expenses
<1>5. WellFormed(draft, TRUE) /\ Accepted(draft, draft.touched, TRUE)
  BY DEF saveDraft
<1>6. Holders(draft.shares) # {} /\ FinelyExact(draft) /\ NearlyExact(draft)
  BY <1>5, WellFormedIsFine
<1>7. Positive(draft) /\ OneDebitor(draft)
  BY <1>5 DEF Accepted, Positive, OneDebitor
<1> QED  BY <1>1, <1>4, <1>6, <1>7 DEF Positive, OneDebitor, FinelyExact, NearlyExact

\* So does the React app: the page shows a draft, or what is stored, and in both
\* cases what it shows agrees with the mode of the table.
LEMMA SelectStep ==
  ASSUME SplitsInv, SelectNext
  PROVE  SplitsInv'
<1>1. SplitsTypeOK /\ PagesApart /\ RefusedRightly /\ SpreadStands /\ TableAgrees /\ StoredAddsUp
  BY DEF SplitsInv
<1>2. /\ stored \in Expenses \cup {NoExpense} /\ draft \in DraftRecords \cup {NoDraft}
      /\ asked \in DraftRecords \cup {NoDraft} /\ shown \in Modes \cup {"evenly", "closed"}
      /\ spread \in BOOLEAN /\ refused \in BOOLEAN /\ astray \in BOOLEAN
      /\ edits \in Nat /\ savedBy \in {"none", "form", "select"}
  BY <1>1 DEF SplitsTypeOK
<1>3. /\ form = NoForm /\ form' = form /\ spread' = spread /\ refused' = refused
      /\ savedBy' = IF stored' = stored THEN savedBy ELSE "select"
  BY DEF SelectNext, formVars
<1>4. edits' \in Nat
  BY <1>2 DEF SelectNext, Input
<1>5. NoForm \notin Forms /\ NoExpense \notin Expenses /\ NoDraft \notin DraftRecords
  BY RecordsAre
<1>6. spread = FALSE /\ refused = FALSE
  BY <1>1, <1>2, <1>3, <1>5 DEF RefusedRightly, SpreadStands
<1>7. draft # NoDraft => draft \in DraftRecords
  BY <1>2
<1>8. Open /\ draft = NoDraft => stored \in Expenses
  BY <1>1, <1>2 DEF PagesApart, Exists
<1>9. Open /\ draft # NoDraft /\ ~astray => Agrees(shown, draft)
  BY <1>1 DEF TableAgrees, Displayed
<1>10. Open /\ draft = NoDraft /\ ~astray => Agrees(shown, FromServer(stored))
  BY <1>1 DEF TableAgrees, Displayed
<1> DEFINE Drawn == \* the page shows a draft, or what is stored, and agrees with it
             /\ draft' \in DraftRecords \cup {NoDraft} /\ asked' \in DraftRecords \cup {NoDraft}
             /\ shown' \in Modes \cup {"evenly", "closed"} /\ astray' \in BOOLEAN
             /\ shown' # "closed" /\ draft' = NoDraft => stored' \in Expenses
             /\ shown' # "closed" /\ draft' = NoDraft /\ astray' = FALSE
                  => Agrees(shown', FromServer(stored'))
             /\ shown' # "closed" /\ draft' # NoDraft /\ astray' = FALSE => Agrees(shown', draft')
           Kept == stored' = stored /\ Drawn
<1>11. ASSUME NEW type \in {"purchase", "transfer"}, CreateDraft(type) PROVE Kept
  <2>1. draft' = [NoDraft EXCEPT !.id = "local", !.type = type, !.mode = "shares"]
    BY <1>11 DEF CreateDraft
  <2>2. PICK none : none = Nobody
    OBVIOUS
  <2>3. draft' = [id |-> "local", type |-> type, mode |-> "shares", value |-> 0, shares |-> none,
                  positions |-> FALSE, touched |-> FALSE]
    BY <2>1, <2>2 DEF NoDraft
  <2>4. none \in ShareMaps
    BY <2>2, NobodyIs
  <2>5. draft' \in DraftRecords /\ draft'.mode = "shares"
    BY ONLY <1>11, <2>3, <2>4 DEF DraftRecords, Kinds, Modes
  <2>6. Agrees("shares", draft')
    BY <2>5 DEF Agrees
  <2>7. /\ shown' = Settled("shares", draft') /\ astray' = FALSE /\ asked' = asked /\ stored' = stored
    BY <1>11 DEF CreateDraft
  <2>8. shown' \in {"shares", "evenly"} /\ Agrees(shown', draft')
    BY <2>6, <2>7, SettledAgrees
  <2> QED  BY <1>2, <1>5, <2>5, <2>7, <2>8 DEF Modes
<1>12. ASSUME OpenPage PROVE Kept
  <2>1. PICK e : e = Displayed
    OBVIOUS
  <2>2. draft = NoDraft => stored \in Expenses
    BY <1>2, <1>12 DEF OpenPage, Exists
  <2>3. e \in DraftRecords /\ e.mode \in Modes
    <3>1. e \in DraftRecords
      BY <1>7, <2>1, <2>2, FromServerIs DEF Displayed
    <3> QED  BY <3>1 DEF DraftRecords
  <2>4. /\ shown' = Settled(e.mode, e) /\ astray' = FALSE
        /\ UNCHANGED <<stored, draft, asked>>
    BY <1>12, <2>1 DEF OpenPage
  <2>5. Agrees(e.mode, e)
    BY DEF Agrees
  <2>6. shown' \in {e.mode, "evenly"} /\ Agrees(shown', e)
    BY <2>4, <2>5, SettledAgrees
  <2> QED  BY <1>2, <2>1, <2>2, <2>3, <2>4, <2>6 DEF Displayed
<1>13. ASSUME LeavePage PROVE Kept
  BY <1>2, <1>13 DEF LeavePage
<1>14. ASSUME edit PROVE Kept
  <2>1. Open /\ draft = NoDraft /\ stored \in Expenses
    BY <1>8, <1>14 DEF edit
  <2>2. draft' = FromServer(stored) /\ UNCHANGED <<stored, shown, asked, astray>>
    BY <1>14 DEF edit
  <2>3. draft' \in DraftRecords
    BY <2>1, <2>2, FromServerIs
  <2> QED  BY <1>2, <1>5, <1>10, <2>1, <2>2, <2>3
<1>15. ASSUME RateAnswered PROVE Kept
  <2>1. asked \in DraftRecords /\ asked' = NoDraft /\ stored' = stored
    BY <1>2, <1>15 DEF RateAnswered
  <2>2. PICK u : u = Updated(asked, asked.mode)
    OBVIOUS
  <2>3. u \in DraftRecords
    <3>1. asked.mode \in Modes \cup {"evenly"}
      BY <2>1 DEF DraftRecords
    <3> QED  BY <2>1, <2>2, <3>1, UpdatedIs
  <2>4. draft' = draft \/ draft' = u
    BY <1>15, <2>2 DEF RateAnswered
  <2>5. shown' = IF Open /\ draft' # draft THEN Settled(shown, draft') ELSE shown
    BY <1>15 DEF RateAnswered
  <2>6. shown' \in {shown, "evenly"} /\ (~Open => shown' = shown)
    BY <2>5, SettledAgrees
  <2>7. astray' \in BOOLEAN /\ (Open /\ astray' = FALSE => draft' = draft /\ ~astray)
    BY <1>15 DEF RateAnswered
  <2>8. draft' = NoDraft => draft = NoDraft
    BY <1>5, <2>3, <2>4
  <2>9. shown' # "closed" => Open
    BY <2>6 DEF Open
  <2>10. Open /\ astray' = FALSE => shown' = shown
    BY <2>5, <2>7
  <2> QED  BY <1>2, <1>8, <1>9, <1>10, <2>1, <2>3, <2>4, <2>6, <2>7, <2>8, <2>9, <2>10
<1>16. ASSUME saveDraft
       PROVE  /\ Drawn /\ stored' \in Expenses /\ Holders(stored'.shares) # {} /\ Positive(stored')
              /\ OneDebitor(stored') /\ NearlyExact(stored') /\ FinelyExact(stored')
  <2>1. Open /\ draft \in DraftRecords /\ draft' = NoDraft /\ shown' = Settled(shown, draft)
        /\ UNCHANGED <<asked, astray>>
    BY <1>7, <1>16 DEF saveDraft
  <2>2. /\ stored' \in Expenses /\ stored'.mode = draft.mode /\ stored'.shares = draft.shares
        /\ Holders(stored'.shares) # {} /\ Positive(stored') /\ OneDebitor(stored')
        /\ NearlyExact(stored') /\ FinelyExact(stored')
    BY <1>16, <2>1, SavedBySelect
  <2>3. PICK e : e = FromServer(stored')
    OBVIOUS
  <2>4. e.mode = draft.mode /\ e.shares = draft.shares
    BY <2>2, <2>3 DEF FromServer
  <2>5. shown' \in {shown, "evenly"} /\ (~astray => Agrees(shown', draft))
    <3>1. draft # NoDraft
      BY <1>5, <2>1
    <3> QED  BY <1>9, <2>1, <3>1, SettledAgrees
  <2>6. ~astray => Agrees(shown', e)
    BY <2>4, <2>5 DEF Agrees
  <2> QED  BY <1>2, <2>1, <2>2, <2>3, <2>5, <2>6
<1>17. ASSUME abortEdit PROVE Kept
  <2>1. Open /\ draft \in DraftRecords /\ draft # NoDraft /\ draft' = NoDraft /\ UNCHANGED <<stored, asked>>
    BY <1>7, <1>17 DEF abortEdit
  <2>2. CASE ~Exists
    BY <1>2, <1>17, <2>1, <2>2 DEF abortEdit
  <2>3. CASE Exists
    <3>1. stored \in Expenses
      BY <1>2, <2>3 DEF Exists
    <3>2. PICK e, same : /\ e = FromServer(stored)
                         /\ same = (draft.mode = stored.mode /\ draft.shares = stored.shares)
      OBVIOUS
    <3>3. e.mode = stored.mode /\ e.shares = stored.shares
      BY <3>1, <3>2, FromServerIs
    <3>4. CASE draft.mode = stored.mode /\ draft.shares = stored.shares
      <4>1. shown' = shown /\ (astray' <=> astray) /\ astray' \in BOOLEAN
        BY <1>2, <1>17, <2>3, <3>4 DEF abortEdit
      <4>2. ~astray => Agrees(shown, e)
        BY <1>9, <2>1, <3>3, <3>4 DEF Agrees
      <4> QED  BY <1>2, <2>1, <3>1, <3>2, <4>1, <4>2
    <3>5. CASE ~(draft.mode = stored.mode /\ draft.shares = stored.shares)
      <4>1. shown' = Settled(shown, e) /\ astray' = TRUE
        BY <1>2, <1>17, <2>3, <3>2, <3>5 DEF abortEdit
      <4>2. shown' \in {shown, "evenly"}
        BY <4>1, SettledAgrees
      <4> QED  BY <1>2, <2>1, <3>1, <4>1, <4>2
    <3> QED  BY <3>4, <3>5
  <2> QED  BY <2>2, <2>3
<1>18. ASSUME Reshared PROVE Kept
  <2>1. PICK s \in ShareMaps :
          /\ Open /\ draft # NoDraft /\ SetShares(s)
          /\ shown = "evenly" /\ draft.mode = "shares" /\ InParts(draft.shares) => InParts(s)
    BY <1>18 DEF Reshared
  <2>2. draft \in DraftRecords
    BY <1>2, <2>1
  <2>3. PICK new : new = [draft EXCEPT !.shares = s]
    OBVIOUS
  <2>4. new.mode = draft.mode /\ new.shares = s
    BY <2>2, <2>3, ResharedIs
  <2>5. /\ draft' \in {draft, new} /\ draft' \in DraftRecords /\ shown' = Settled(shown, draft')
        /\ UNCHANGED <<stored, asked, astray>>
    BY <2>1, <2>2, <2>3, SetSharesIs
  <2>6. ~astray => Agrees(shown, new)
    <3>1. ~astray => Agrees(shown, draft)
      BY <1>9, <2>1
    <3> QED  BY <2>1, <2>4, <3>1 DEF Agrees, InParts
  <2>7. ~astray => Agrees(shown, draft')
    BY <1>9, <2>1, <2>5, <2>6
  <2>8. shown' \in {shown, "evenly"} /\ (~astray => Agrees(shown', draft'))
    BY <2>5, <2>7, SettledAgrees
  <2> QED  BY <1>2, <1>5, <2>5, <2>8
<1>19. ASSUME NEW mode \in Modes \cup {"evenly"}, ChooseMode(mode) PROVE Kept
  <2>1. draft \in DraftRecords /\ Push(draft, mode)
    BY <1>2, <1>19 DEF ChooseMode
  <2>2. PICK u : u = Updated(draft, mode)
    OBVIOUS
  <2>3. u \in DraftRecords /\ Agrees(mode, u)
    BY <2>1, <2>2, ChosenAgrees
  <2>4. /\ draft' = (IF Computable(u) THEN u ELSE draft) /\ UNCHANGED <<stored, asked>>
        /\ shown' = (IF draft' = draft THEN mode ELSE Settled(mode, draft'))
        /\ astray' = ~Computable(u)
    BY <1>19, <2>1, <2>2 DEF ChooseMode, Push
  <2>5. shown' \in {mode, "evenly"} /\ (astray' = FALSE => Agrees(shown', draft'))
    BY <2>3, <2>4, SettledAgrees
  <2>6. astray' \in BOOLEAN
    BY <2>4
  <2>7. draft' \in DraftRecords /\ draft' # NoDraft /\ stored' = stored /\ asked' = asked
    BY <1>5, <2>1, <2>3, <2>4
  <2> QED  BY <1>2, <2>5, <2>6, <2>7
<1>20. ASSUME NEW v \in Values, SetValue(v) PROVE Kept
  <2>1. Open /\ draft # NoDraft /\ draft \in DraftRecords /\ UNCHANGED <<shown, astray>>
    BY <1>2, <1>20 DEF SetValue
  <2>2. PICK new : new = [draft EXCEPT !.value = v]
    OBVIOUS
  <2>3. new \in DraftRecords /\ new.mode = draft.mode /\ new.shares = draft.shares
    BY <2>1, <2>2, ValuesAssumption DEF DraftRecords
  <2>4. Push(new, draft.mode)
    BY <1>20, <2>2 DEF SetValue
  <2>5. draft' \in {draft, new} /\ draft' \in DraftRecords /\ UNCHANGED <<stored, asked>>
    BY <2>1, <2>3, <2>4, PushIs
  <2>6. ~astray => Agrees(shown, draft')
    BY <1>9, <2>1, <2>3, <2>5 DEF Agrees
  <2> QED  BY <1>2, <1>5, <2>1, <2>5, <2>6
<1>21. ASSUME AddPosition PROVE Kept
  <2>1. /\ Open /\ draft # NoDraft /\ draft \in DraftRecords
        /\ UNCHANGED <<stored, shown, asked, astray>>
    BY <1>2, <1>21 DEF AddPosition
  <2>2. draft' = [draft EXCEPT !.positions = TRUE, !.touched = TRUE]
    BY <1>21 DEF AddPosition
  <2>3. draft' \in DraftRecords /\ draft'.mode = draft.mode /\ draft'.shares = draft.shares
    BY <2>1, <2>2 DEF DraftRecords
  <2>4. ~astray => Agrees(shown, draft')
    BY <1>9, <2>1, <2>3 DEF Agrees
  <2> QED  BY <1>2, <1>5, <2>1, <2>3, <2>4
<1>22. ASSUME AskRate PROVE Kept
  <2>1. /\ Open /\ draft # NoDraft /\ asked' = draft /\ UNCHANGED <<stored, draft, shown, astray>>
    BY <1>22 DEF AskRate
  <2> QED  BY <1>2, <1>9, <2>1
<1>23. ASSUME SelectEdit PROVE Kept
  BY <1>1, <1>18, <1>19, <1>20, <1>21, <1>22, <1>23, SelectEditIs
<1>24. /\ Drawn /\ stored' \in Expenses \cup {NoExpense}
       /\ \/ stored' = stored
          \/ /\ Holders(stored'.shares) # {} /\ Positive(stored') /\ OneDebitor(stored')
             /\ NearlyExact(stored') /\ FinelyExact(stored')
  <2> HIDE DEF Drawn
  <2> QED  BY <1>2, <1>11, <1>12, <1>13, <1>14, <1>15, <1>16, <1>17, <1>23 DEF SelectNext
<1>25. SplitsTypeOK'
  BY <1>2, <1>3, <1>4, <1>24 DEF SplitsTypeOK
<1>26. PagesApart'
  BY <1>3, <1>5, <1>24 DEF PagesApart, Open, Exists
<1>27. RefusedRightly' /\ SpreadStands'
  BY <1>3, <1>6 DEF RefusedRightly, SpreadStands
<1>28. TableAgrees'
  BY <1>24 DEF TableAgrees, Displayed, Open
<1>29. StoredAddsUp'
  BY <1>1, <1>3, <1>24 DEF StoredAddsUp, Exists
<1> QED  BY <1>25, <1>26, <1>27, <1>28, <1>29 DEF SplitsInv

\* The invariant holds in every state of the two apps: each of them keeps it
\* while the other one shows nothing.
THEOREM SplitsHold == Spec => []SplitsInv
<1>1. SplitsInv /\ [Next]_vars => SplitsInv'
  <2> SUFFICES ASSUME SplitsInv, [Next]_vars PROVE SplitsInv'
    OBVIOUS
  <2>1. CASE Next
    BY <2>1, FormStep, SelectStep DEF Next
  <2>2. CASE UNCHANGED vars
    <3>1. /\ UNCHANGED <<stored, form, spread, refused, draft, shown, asked, astray, edits, savedBy>>
      BY <2>2 DEF vars, formVars, selectVars
    <3>2. /\ SplitsTypeOK /\ PagesApart /\ RefusedRightly /\ SpreadStands /\ TableAgrees
          /\ StoredAddsUp
      BY DEF SplitsInv
    <3>3. SplitsTypeOK' /\ PagesApart'
      BY <3>1, <3>2 DEF SplitsTypeOK, PagesApart, Open, Exists
    <3>4. RefusedRightly'
      <4>1. form' = form /\ stored' = stored /\ refused' = refused
        BY <3>1
      <4>2. Payload' = Payload
        BY <4>1 DEF Payload
      <4>3. refused => form \in Forms /\ Valid(TRUE) /\ ~Accepted(Payload, FALSE, FALSE)
        BY <3>2 DEF RefusedRightly
      <4>4. refused => Valid(TRUE)'
        BY <4>1, <4>3 DEF Valid
      <4>5. refused => ~Accepted(Payload, FALSE, FALSE)'
        BY <4>2, <4>3
      <4> QED  BY <4>1, <4>3, <4>4, <4>5 DEF RefusedRightly
    <3>5. SpreadStands' /\ TableAgrees' /\ StoredAddsUp'
      BY <3>1, <3>2 DEF SpreadStands, TableAgrees, Displayed, Open, StoredAddsUp, Exists
    <3> QED  BY <3>3, <3>4, <3>5 DEF SplitsInv
  <2> QED  BY <2>1, <2>2
<1> QED  BY <1>1, SplitsInit, PTL DEF Spec

\* Whatever the two apps do one after the other, what is stored adds up to
\* within the tolerance of the app that saved it: each app checks what it
\* sends, and a detour through percent divides sum and total by one number.
THEOREM StoredSplitsAddUp == Spec => []StoredAddsUp
<1>1. SplitsInv => StoredAddsUp
  BY DEF SplitsInv
<1> QED  BY <1>1, SplitsHold, PTL

\* What the Angular form has found valid is refused by the constraints of the
\* database for a share that is not positive, for several debitors of a
\* settle-up, or because it misses its total by less than the form cares for:
\* a refusal is about what the form still shows, and being valid it is near.
THEOREM RefusalsAreGaps == Spec => []RefusedOnlyByGaps
<1>1. SplitsInv => RefusedOnlyByGaps
  <2> SUFFICES ASSUME SplitsInv, refused
               PROVE  \/ ~Positive(Payload) \/ ~OneDebitor(Payload)
                      \/ ~Exact(Payload) /\ NearlyExact(Payload)
    BY DEF RefusedOnlyByGaps
  <2>1. form \in Forms /\ Valid(TRUE) /\ ~Accepted(Payload, FALSE, FALSE)
    BY DEF SplitsInv, RefusedRightly
  <2>2. stored \in Expenses \cup {NoExpense}
    BY DEF SplitsInv, SplitsTypeOK
  <2> QED  BY <2>1, <2>2, RefusalIsGap
<1> QED  BY <1>1, SplitsHold, PTL

\* Shares as respread and splitEvenly leave them add up exactly, for whole
\* cents: the last person gets what the others leave.
THEOREM SpreadFormsAddUp == Spec => []SpreadAddsUp
<1>1. SplitsInv => SpreadAddsUp
  <2> SUFFICES ASSUME SplitsInv, spread, Holders(form.shares) # {}, WholeCents(form.value)
               PROVE  Exact(Payload)
    BY DEF SpreadAddsUp
  <2>1. form \in Forms /\ form.shares = respread(form.mode, Holders(form.shares), form.value)
    BY DEF SplitsInv, SpreadStands
  <2>2. stored \in Expenses \cup {NoExpense}
    BY DEF SplitsInv, SplitsTypeOK
  <2>3. PICK D, s, t, v : /\ D = Holders(form.shares) /\ s = form.shares /\ t = Payload.shares
                          /\ v = form.value
    OBVIOUS
  <2>4. s \in ShareMaps /\ form.mode \in Modes /\ v \in Int
    BY <2>1, <2>3 DEF Forms
  <2>5. D \in SUBSET People /\ D # {}
    BY <2>3, <2>4, ShareMapIs
  <2>6. /\ Payload.mode = form.mode /\ Payload.value = v /\ t = toWire(form.mode, s)
    BY <2>1, <2>2, <2>3, PayloadIs
  <2>7. CASE form.mode = "shares"
    BY <2>6, <2>7 DEF Exact
  <2>8. CASE form.mode = "percent"
    <3>1. s = PercentEach(D)
      BY <2>1, <2>3, <2>5, <2>8 DEF respread
    <3>2. Off("percent", PercentEach(D), v, 100) = 0
      BY <2>5, PercentEachIs
    <3>3. t = Scaled(s, 1, 100)
      BY <2>6, <2>8 DEF toWire
    <3>4. PICK c \in Nat : c > 0 /\ Off("percent", t, v, 1) * c = Off("percent", s, v, 100)
      BY <2>4, <3>3, OffOfPercent
    <3>5. t \in ShareMaps
      BY <2>4, <2>6, ToWireIs
    <3>6. PICK x \in Nat : x = Off("percent", t, v, 1)
      BY <2>4, <3>5, OffIs
    <3>7. x * c = 0
      BY <3>1, <3>2, <3>4, <3>6
    <3>8. x = 0
      BY ONLY <3>4, <3>7, x \in Nat
    <3> QED  BY <2>3, <2>6, <2>8, <3>6, <3>8 DEF Exact
  <2>9. CASE form.mode = "absolute"
    <3>1. s = splitEvenly(v, D)
      BY <2>1, <2>3, <2>5, <2>9 DEF respread
    <3>2. s.den = 1 /\ sumShares(s) = v
      BY <2>3, <2>4, <2>5, <3>1, SplitEvenlyIs
    <3>3. t = s
      BY <2>6, <2>9 DEF toWire
    <3>4. Off("absolute", t, v, 1) = 0
      BY <2>4, <3>2, <3>3 DEF Off, Magnitude
    <3> QED  BY <2>3, <2>6, <2>9, <3>4 DEF Exact
  <2> QED  BY <2>4, <2>7, <2>8, <2>9 DEF Modes
<1> QED  BY <1>1, SplitsHold, PTL

\* The mode the table of shares shows is the mode its numbers are taken in,
\* unless the mode was changed behind the table's back.
THEOREM TypedIsTaken == Spec => []TypedAsShown
<1>1. SplitsInv => TypedAsShown
  BY DEF SplitsInv, TableAgrees, Displayed, TypedAsShown
<1> QED  BY <1>1, SplitsHold, PTL

\* Only the menu of the split mode changes the mode within an edit.
LEMMA ModeIsChosen ==
  ASSUME SplitsInv, Next, edits' # edits, draft # NoDraft, draft'.mode # draft.mode
  PROVE  \E mode \in Modes \cup {"evenly"} : ChooseMode(mode)
<1>1. SplitsTypeOK
  BY DEF SplitsInv
<1>2. draft \in DraftRecords /\ edits \in Nat
  BY <1>1 DEF SplitsTypeOK
<1>3. draft' # draft
  OBVIOUS
<1>4. SelectEdit
  BY <1>3 DEF Next, FormNext, SelectNext, selectVars
<1>5. ~Reshared
  <2>1. ASSUME NEW s \in ShareMaps, SetShares(s) PROVE FALSE
    BY <1>2, <2>1, SetSharesIs
  <2> QED  BY <2>1 DEF Reshared
<1>6. ASSUME NEW v \in Values, SetValue(v) PROVE FALSE
  <2>1. PICK new : new = [draft EXCEPT !.value = v]
    OBVIOUS
  <2>2. new \in DraftRecords /\ new.mode = draft.mode
    BY <1>2, <2>1, ValuesAssumption DEF DraftRecords
  <2>3. Push(new, draft.mode)
    BY <1>6, <2>1 DEF SetValue
  <2> QED  BY <1>2, <2>2, <2>3, PushIs
<1>7. ~AddPosition
  <2>1. [draft EXCEPT !.positions = TRUE, !.touched = TRUE].mode = draft.mode
    BY <1>2 DEF DraftRecords
  <2> QED  BY <2>1 DEF AddPosition
<1>8. ~AskRate
  BY <1>3 DEF AskRate
<1> QED  BY <1>1, <1>4, <1>5, <1>6, <1>7, <1>8, SelectEditIs

\* Choosing a split mode other than "evenly" keeps who takes part and what part
\* everybody owes, whatever the shares and the value, if that is not 0: each
\* change of mode multiplies all shares by one number.
THEOREM ChosenModeKeepsParts == Spec => ModeKeepsParts
<1>1. SplitsInv /\ [Next]_vars =>
        [edits' # edits /\ draft # NoDraft /\ draft'.mode # draft.mode /\ shown' # "evenly" =>
           \/ draft.value = 0
           \/ /\ Holders(draft'.shares) = Holders(draft.shares)
              /\ \A p, q \in Holders(draft.shares) :
                   /\ draft'.shares.num[p] = 0 <=> draft.shares.num[p] = 0
                   /\ draft.shares.num[p] * draft'.shares.num[q]
                        = draft.shares.num[q] * draft'.shares.num[p]]_vars
  <2> SUFFICES ASSUME SplitsInv, Next, edits' # edits, draft # NoDraft,
                      draft'.mode # draft.mode, shown' # "evenly", draft.value # 0
               PROVE  /\ Holders(draft'.shares) = Holders(draft.shares)
                      /\ \A p, q \in Holders(draft.shares) :
                           /\ draft'.shares.num[p] = 0 <=> draft.shares.num[p] = 0
                           /\ draft.shares.num[p] * draft'.shares.num[q]
                                = draft.shares.num[q] * draft'.shares.num[p]
    OBVIOUS
  <2>1. PICK mode \in Modes \cup {"evenly"} : ChooseMode(mode)
    BY ModeIsChosen
  <2>2. draft \in DraftRecords /\ draft.shares \in ShareMaps /\ draft.value \in Int
    BY DEF SplitsInv, SplitsTypeOK, DraftRecords
  <2>3. PICK u, t : /\ u = Updated(draft, mode)
                    /\ t = AfterModeChange(draft.mode, mode, draft.shares, draft.value)
    OBVIOUS
  <2>4. u.shares = t /\ draft' = u
    <3>1. draft' = u
      BY <2>1, <2>3 DEF ChooseMode, Push
    <3>2. u.shares = t
      BY <2>2, <2>3, UpdatedIs
    <3> QED  BY <3>1, <3>2
  <2>5. mode # "evenly"
    <3>1. shown' = Settled(mode, draft')
      BY <2>1, <2>4 DEF ChooseMode
    <3> QED  BY <3>1, SettledAgrees DEF Settled
  <2>6. t \in ShareMaps /\ InProportion(draft.shares, t)
    <3>1. PICK s, v : s = draft.shares /\ v = draft.value
      OBVIOUS
    <3>2. t = AfterModeChange(draft.mode, mode, s, v) /\ s \in ShareMaps /\ v \in Int /\ v # 0
      BY <2>2, <2>3, <3>1
    <3>3. t \in ShareMaps /\ InProportion(s, t)
      BY <2>5, <3>2, ModeChangeIs
    <3> QED  BY <3>1, <3>3
  <2> QED  BY <2>2, <2>4, <2>6, ProportionKeepsParts
<1> QED  BY <1>1, SplitsHold, PTL DEF Spec, ModeKeepsParts
=============================================================================
