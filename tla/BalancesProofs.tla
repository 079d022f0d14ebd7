--------------------------- MODULE BalancesProofs ---------------------------
(***************************************************************************)
(* Theorems about Settlement and about Balances, which calls it: for every *)
(* set of accounts, all books and all balances.  The first part is about   *)
(* computeGroupSettlement on its own and uses nothing of Balances; the     *)
(* second is about what is handed to it.                                   *)
(***************************************************************************)
EXTENDS Balances, FiniteSetTheorems, SequenceTheorems, WellFoundedInduction, TLAPS

(***************************************************************************)
(* Induction over the natural numbers: a set of them with no least element *)
(* is empty.                                                               *)
(***************************************************************************)
LEMMA LeastNatural ==
  ASSUME NEW T \in SUBSET Nat, T # {}
  PROVE  \E m \in T : \A n \in T : m <= n
<1>1. PICK m \in T : \A n \in T : ~(<<n, m>> \in OpToRel(<, Nat))
  <2> HIDE DEF OpToRel
  <2> QED
    BY WFMin, NatLessThanWellFounded
<1>2. \A n \in T : ~(n < m)
  BY <1>1 DEF OpToRel
<1> QED
  BY <1>2

LEMMA Induction ==
  ASSUME NEW T \in SUBSET Nat, 0 \in T, \A n \in Nat : n \in T => n + 1 \in T
  PROVE  T = Nat
<1>1. SUFFICES ASSUME Nat \ T # {} PROVE FALSE
  OBVIOUS
<1>2. PICK m \in Nat \ T : \A n \in Nat \ T : m <= n
  BY <1>1, LeastNatural
<1>3. m # 0 /\ m - 1 \in Nat /\ ~(m <= m - 1)
  BY <1>2
<1>4. m - 1 \in T
  BY <1>2, <1>3
<1>5. (m - 1) + 1 = m
  BY <1>2
<1> QED
  BY <1>2, <1>3, <1>4, <1>5

(***************************************************************************)
(* Sums.  Added is defined by a recursive function, so it has to be shown  *)
(* that there is one, and only one.                                        *)
(***************************************************************************)
SumsUpTo(numbers, n, f) ==
  /\ f \in [0..n -> Int]
  /\ f[0] = 0
  /\ \A i \in 1..n : f[i] = f[i - 1] + numbers[i]

LEMMA SumsExist ==
  ASSUME NEW v \in Seq(Int)
  PROVE  \A n \in 0..Len(v) : \E f : SumsUpTo(v, n, f)
<1> DEFINE T == {n \in Nat : n <= Len(v) => \E f : SumsUpTo(v, n, f)}
<1>0. Len(v) \in Nat /\ \A i \in 1..Len(v) : v[i] \in Int
  BY LenProperties, ElementOfSeq
<1>1. 0 \in T
  <2>1. SumsUpTo(v, 0, [i \in 0..0 |-> 0])
    BY DEF SumsUpTo
  <2> QED  BY <2>1
<1>2. ASSUME NEW n \in Nat, n \in T PROVE n + 1 \in T
  <2> SUFFICES ASSUME n + 1 <= Len(v) PROVE \E f : SumsUpTo(v, n + 1, f)
    OBVIOUS
  <2>1. PICK f : SumsUpTo(v, n, f)
    BY <1>0, <1>2
  <2> DEFINE g == [i \in 0..(n + 1) |-> IF i = n + 1 THEN f[n] + v[n + 1] ELSE f[i]]
  <2>2. v[n + 1] \in Int /\ f[n] \in Int /\ \A i \in 0..n : f[i] \in Int
    BY <1>0, <2>1 DEF SumsUpTo
  <2>3. g \in [0..(n + 1) -> Int]
    BY <2>2
  <2>4. g[0] = 0
    BY <2>1 DEF SumsUpTo
  <2>5. ASSUME NEW i \in 1..(n + 1) PROVE g[i] = g[i - 1] + v[i]
    BY <2>1 DEF SumsUpTo
  <2>6. SumsUpTo(v, n + 1, g)
    BY <2>3, <2>4, <2>5 DEF SumsUpTo
  <2> QED  BY <2>6
<1>3. T = Nat
  <2> HIDE DEF T
  <2>1. T \in SUBSET Nat
    BY DEF T
  <2> QED  BY <1>1, <1>2, <2>1, Induction
<1> QED
  BY <1>0, <1>3

LEMMA AddedIsTheLastSum ==
  ASSUME NEW v \in Seq(Int), NEW f, SumsUpTo(v, Len(v), f)
  PROVE  Added(v) = f[Len(v)]
<1> DEFINE Body(h) == [i \in 0..Len(v) |-> IF i = 0 THEN 0 ELSE h[i - 1] + v[i]]
           upTo == CHOOSE h : h = Body(h)
<1>0. Len(v) \in Nat /\ \A i \in 1..Len(v) : v[i] \in Int
  BY LenProperties, ElementOfSeq
<1>1. f = Body(f)
  BY <1>0 DEF SumsUpTo
<1>2. upTo = Body(upTo)
  BY <1>1
<1>3. Added(v) = upTo[Len(v)]
  BY DEF Added
<1> DEFINE T == {i \in Nat : i <= Len(v) => upTo[i] = f[i]}
<1> HIDE DEF upTo
<1>4. 0 \in T
  BY <1>0, <1>2 DEF SumsUpTo
<1>5. ASSUME NEW i \in Nat, i \in T PROVE i + 1 \in T
  <2> SUFFICES ASSUME i + 1 <= Len(v) PROVE upTo[i + 1] = f[i + 1]
    OBVIOUS
  <2>1. upTo[i + 1] = upTo[i] + v[i + 1]
    BY <1>0, <1>2
  <2>2. f[i + 1] = f[i] + v[i + 1]
    BY <1>0 DEF SumsUpTo
  <2>3. upTo[i] = f[i]
    BY <1>0, <1>5
  <2> QED  BY <2>1, <2>2, <2>3
<1>6. T = Nat
  <2> HIDE DEF T
  <2>1. T \in SUBSET Nat
    BY DEF T
  <2> QED  BY <1>4, <1>5, <2>1, Induction
<1> QED
  BY <1>0, <1>3, <1>6

LEMMA AddedEmpty == Added(<<>>) = 0
<1>1. <<>> \in Seq(Int) /\ Len(<<>>) = 0
  OBVIOUS
<1>2. SumsUpTo(<<>>, 0, [i \in 0..0 |-> 0])
  BY DEF SumsUpTo
<1> QED
  BY <1>1, <1>2, AddedIsTheLastSum

LEMMA AddedAppend ==
  ASSUME NEW v \in Seq(Int), NEW x \in Int
  PROVE  Added(v) \in Int /\ Added(Append(v, x)) = Added(v) + x
<1>1. PICK w, n, m : w = Append(v, x) /\ n = Len(v) /\ m = Len(w)
  OBVIOUS
<1>2. /\ w \in Seq(Int) /\ n \in Nat /\ m \in Nat /\ m = n + 1 /\ n <= m
      /\ w[m] = x /\ \A i \in 1..n : v[i] = w[i]
  BY <1>1, AppendProperties, LenProperties
<1>3. PICK f : SumsUpTo(v, n, f)
  BY <1>1, <1>2, SumsExist
<1>4. PICK g : SumsUpTo(w, m, g)
  <2>1. m \in 0..Len(w)
    BY <1>1, <1>2
  <2> QED  BY <1>2, <2>1, SumsExist
<1>5. f[n] = g[n]
  <2> DEFINE T == {i \in Nat : i <= n => f[i] = g[i]}
  <2>1. 0 \in T
    BY <1>3, <1>4 DEF SumsUpTo
  <2>2. ASSUME NEW i \in Nat, i \in T PROVE i + 1 \in T
    <3> SUFFICES ASSUME i + 1 <= n PROVE f[i + 1] = g[i + 1]
      OBVIOUS
    <3>1. i + 1 \in 1..n /\ i + 1 \in 1..m /\ (i + 1) - 1 = i
      BY <1>2
    <3>2. f[i + 1] = f[i] + v[i + 1] /\ g[i + 1] = g[i] + w[i + 1]
      BY <1>3, <1>4, <3>1 DEF SumsUpTo
    <3>3. f[i] = g[i]
      BY <1>2, <2>2
    <3> QED  BY <1>2, <3>1, <3>2, <3>3
  <2>3. T = Nat
    <3> HIDE DEF T
    <3>1. T \in SUBSET Nat
      BY DEF T
    <3> QED  BY <2>1, <2>2, <3>1, Induction
  <2> QED
    BY <1>2, <2>3
<1>6. Added(v) = f[n] /\ Added(w) = g[m]
  BY <1>1, <1>2, <1>3, <1>4, AddedIsTheLastSum
<1>7. f[n] \in Int
  BY <1>2, <1>3 DEF SumsUpTo
<1>8. g[m] = g[n] + x
  BY <1>2, <1>4 DEF SumsUpTo
<1> QED
  BY <1>1, <1>2, <1>5, <1>6, <1>7, <1>8

Mapped(value, p) == [i \in DOMAIN p |-> value[p[i]]]

LEMMA MappedType ==
  ASSUME NEW X, NEW value \in [X -> Int], NEW p \in Seq(X)
  PROVE  Added(Mapped(value, p)) \in Int
<1>1. PICK v, n : v = Mapped(value, p) /\ n = Len(p)
  OBVIOUS
<1>2. n \in Nat /\ DOMAIN p = 1..n /\ \A i \in 1..n : p[i] \in X
  BY <1>1, LenProperties, ElementOfSeq
<1>3. v \in [1..n -> Int]
  BY <1>1, <1>2 DEF Mapped
<1>4. v \in Seq(Int)
  BY ONLY <1>2, <1>3, SeqDef
<1> QED  BY <1>1, <1>4, AddedAppend

LEMMA AddedMapped ==
  ASSUME NEW X, NEW value \in [X -> Int], NEW p \in Seq(X), NEW x \in X
  PROVE  /\ Added(Mapped(value, p)) \in Int
         /\ Added(Mapped(value, Append(p, x))) = Added(Mapped(value, p)) + value[x]
<1>1. PICK n, y, q, v, w : /\ n = Len(p) /\ y = value[x] /\ q = Append(p, x)
                           /\ v = Mapped(value, p) /\ w = Mapped(value, q)
  OBVIOUS
<1>2. /\ n \in Nat /\ DOMAIN p = 1..n /\ \A i \in 1..n : p[i] \in X
  BY <1>1, LenProperties, ElementOfSeq
<1>3. /\ DOMAIN q = 1..(n + 1) /\ q[n + 1] = x /\ \A i \in 1..n : q[i] = p[i]
  <2>1. /\ q \in Seq(X) /\ Len(q) = n + 1 /\ q[n + 1] = x
        /\ \A i \in 1..n : q[i] = p[i]
    BY <1>1, AppendProperties
  <2>2. DOMAIN q = 1..Len(q)
    BY ONLY <2>1, LenProperties
  <2> QED  BY <2>1, <2>2
<1>4. v \in Seq(Int) /\ Len(v) = n
  <2>1. v \in [1..n -> Int]
    BY <1>1, <1>2 DEF Mapped
  <2>2. v \in Seq(Int)
    BY ONLY <1>2, <2>1, SeqDef
  <2>3. DOMAIN v = 1..n /\ DOMAIN v = 1..Len(v) /\ Len(v) \in Nat
    BY ONLY <2>1, <2>2, LenProperties
  <2> QED  BY ONLY <1>2, <2>2, <2>3
<1>5. y \in Int
  BY <1>1
<1>6. w = Append(v, y)
  <2>1. \A i \in 1..(n + 1) : q[i] \in X
    <3> SUFFICES ASSUME NEW i \in 1..(n + 1) PROVE q[i] \in X
      OBVIOUS
    <3>1. i = n + 1 \/ i \in 1..n
      BY <1>2
    <3> QED  BY <1>2, <1>3, <3>1
  <2>2. w \in [1..(n + 1) -> Int]
    BY <1>1, <1>3, <2>1 DEF Mapped
  <2>3. w \in Seq(Int) /\ Len(w) = n + 1
    <3>1. w \in Seq(Int)
      BY ONLY <1>2, <2>2, SeqDef
    <3>2. DOMAIN w = 1..(n + 1) /\ DOMAIN w = 1..Len(w) /\ Len(w) \in Nat
      BY ONLY <2>2, <3>1, LenProperties
    <3> QED  BY ONLY <1>2, <3>1, <3>2
  <2>4. PICK u : u = Append(v, y)
    OBVIOUS
  <2>5. /\ u \in Seq(Int) /\ Len(u) = n + 1 /\ u[n + 1] = y
        /\ \A i \in 1..n : u[i] = v[i]
    BY ONLY <1>4, <1>5, <2>4, AppendProperties
  <2>6. \A i \in 1..(n + 1) : w[i] = u[i]
    <3> SUFFICES ASSUME NEW i \in 1..(n + 1) PROVE w[i] = u[i]
      OBVIOUS
    <3>1. w[i] = value[q[i]] /\ (i \in 1..n => v[i] = value[p[i]])
      BY <1>1, <1>2, <1>3 DEF Mapped
    <3>2. CASE i = n + 1
      BY <1>1, <1>3, <2>5, <3>1, <3>2
    <3>3. CASE i \in 1..n
      BY <1>2, <1>3, <2>5, <3>1, <3>3
    <3> QED  BY <1>2, <3>2, <3>3
  <2>7. Len(w) = Len(u) /\ \A i \in 1..Len(w) : w[i] = u[i]
    BY ONLY <2>3, <2>5, <2>6
  <2> QED  BY ONLY <2>3, <2>4, <2>5, <2>7, SeqEqual
<1>7. Added(v) \in Int /\ Added(w) = Added(v) + y
  BY ONLY <1>4, <1>5, <1>6, AddedAppend
<1> QED  BY <1>1, <1>7

(***************************************************************************)
(* Ranking.  In a finite set that is ordered totally, an element is the    *)
(* k-th when k - 1 elements come before it; there is one for every k.      *)
(***************************************************************************)
Orders(R, S) ==
  /\ R \subseteq S \X S
  /\ \A x \in S : <<x, x>> \notin R
  /\ \A x, y, z \in S : <<x, y>> \in R /\ <<y, z>> \in R => <<x, z>> \in R
  /\ \A x, y \in S : x # y => <<x, y>> \in R \/ <<y, x>> \in R

Below(R, S, x) == {y \in S : <<y, x>> \in R}

LEMMA RanksIncrease ==
  ASSUME NEW S, IsFiniteSet(S), NEW R, Orders(R, S), NEW x \in S
  PROVE  /\ Cardinality(Below(R, S, x)) \in 0..(Cardinality(S) - 1)
         /\ \A y \in S : <<x, y>> \in R =>
              Cardinality(Below(R, S, x)) < Cardinality(Below(R, S, y))
<1> DEFINE B == Below(R, S, x)
<1>1. B \in SUBSET S /\ x \notin B
  BY DEF Below, Orders
<1>2. IsFiniteSet(B) /\ Cardinality(B) \in Nat /\ Cardinality(S) \in Nat
  BY <1>1, FS_Subset, FS_CardinalityType
<1>3. IsFiniteSet(B \cup {x}) /\ Cardinality(B \cup {x}) = Cardinality(B) + 1
  <2> HIDE DEF B
  <2>1. Cardinality(B \cup {x}) = IF x \in B THEN Cardinality(B) ELSE Cardinality(B) + 1
    BY <1>2, FS_AddElement
  <2> QED  BY <1>1, <1>2, <2>1, FS_AddElement
<1>4. \A T : IsFiniteSet(T) /\ B \cup {x} \subseteq T
               => Cardinality(B) + 1 <= Cardinality(T)
  <2> HIDE DEF B
  <2> QED  BY <1>3, FS_Subset
<1>5. Cardinality(B) + 1 <= Cardinality(S)
  BY <1>1, <1>4
<1>6. ASSUME NEW y \in S, <<x, y>> \in R
      PROVE  Cardinality(B) < Cardinality(Below(R, S, y))
  <2>1. B \cup {x} \subseteq Below(R, S, y)
    BY <1>6 DEF Below, Orders
  <2>2. IsFiniteSet(Below(R, S, y)) /\ Cardinality(Below(R, S, y)) \in Nat
    <3>1. Below(R, S, y) \in SUBSET S
      BY DEF Below
    <3> QED  BY <3>1, FS_Subset, FS_CardinalityType
  <2>3. Cardinality(B) + 1 <= Cardinality(Below(R, S, y))
    BY <1>4, <2>1, <2>2
  <2> HIDE DEF B
  <2> QED  BY <1>2, <2>2, <2>3
<1> HIDE DEF B
<1>7. Cardinality(B) \in 0..(Cardinality(S) - 1)
  BY <1>2, <1>5
<1> QED
  BY <1>6, <1>7 DEF B

LEMMA EveryRankIsTaken ==
  ASSUME NEW S, IsFiniteSet(S), NEW R, Orders(R, S), NEW k \in 1..Cardinality(S)
  PROVE  \E x \in S : Cardinality(Below(R, S, x)) = k - 1
<1> DEFINE n == Cardinality(S)
           rank == [x \in S |-> Cardinality(Below(R, S, x))]
<1>1. n \in Nat /\ IsFiniteSet(0..(n - 1)) /\ Cardinality(0..(n - 1)) = n
  <2>1. n \in Nat
    BY FS_CardinalityType
  <2>2. 0 \in Int /\ n - 1 \in Int
    BY <2>1
  <2> HIDE DEF n
  <2>3. Cardinality(0..(n - 1)) = IF 0 > n - 1 THEN 0 ELSE (n - 1) - 0 + 1
    BY <2>2, FS_Interval
  <2>4. IsFiniteSet(0..(n - 1))
    BY <2>2, FS_Interval
  <2> QED  BY <2>1, <2>3, <2>4
<1>2. rank \in [S -> 0..(n - 1)]
  BY RanksIncrease
<1>3. ASSUME NEW x \in S, NEW y \in S, rank[x] = rank[y] PROVE x = y
  <2>1. ~(<<x, y>> \in R) /\ ~(<<y, x>> \in R)
    BY <1>2, <1>3, RanksIncrease
  <2> QED  BY <2>1 DEF Orders
<1>4. rank \in Injection(S, 0..(n - 1))
  BY <1>2, <1>3 DEF Injection, IsInjective
<1>5. rank \in Surjection(S, 0..(n - 1))
  <2> HIDE DEF rank, n
  <2>1. Cardinality(S) = Cardinality(0..(n - 1)) <=> rank \in Surjection(S, 0..(n - 1))
    BY <1>1, <1>4, FS_Injection
  <2>2. Cardinality(S) = Cardinality(0..(n - 1))
    BY <1>1 DEF n
  <2> QED  BY <2>1, <2>2
<1>6. k - 1 \in 0..(n - 1)
  BY <1>1
<1> QED
  BY <1>5, <1>6 DEF Surjection

\* A sequence that has the k-th element at its k-th place has each element
\* once, and all in order.
RanksAll(at, R, S) ==
  \A k \in 1..Cardinality(S) :
    at[k] \in S /\ Cardinality(Below(R, S, at[k])) = k - 1

LEMMA RankingLists ==
  ASSUME NEW S, IsFiniteSet(S), NEW R, Orders(R, S), NEW at, RanksAll(at, R, S)
  PROVE  /\ \A x \in S : \E k \in 1..Cardinality(S) : at[k] = x
         /\ \A j, k \in 1..Cardinality(S) : j < k => <<at[j], at[k]>> \in R
<1>1. Cardinality(S) \in Nat
  BY FS_CardinalityType
<1>2. ASSUME NEW x \in S, NEW y \in S,
             Cardinality(Below(R, S, x)) <= Cardinality(Below(R, S, y)), x # y
      PROVE  <<x, y>> \in R
  <2>1. ~(<<y, x>> \in R)
    <3>1. /\ Cardinality(Below(R, S, x)) \in 0..(Cardinality(S) - 1)
          /\ Cardinality(Below(R, S, y)) \in 0..(Cardinality(S) - 1)
      BY RanksIncrease
    <3>2. SUFFICES ASSUME <<y, x>> \in R PROVE FALSE
      OBVIOUS
    <3>3. Cardinality(Below(R, S, y)) < Cardinality(Below(R, S, x))
      BY <3>2, RanksIncrease
    <3> QED  BY <1>1, <1>2, <3>1, <3>3
  <2> QED  BY <1>2, <2>1 DEF Orders
<1>3. ASSUME NEW x \in S PROVE \E k \in 1..Cardinality(S) : at[k] = x
  <2>1. PICK k \in 1..Cardinality(S) : Cardinality(Below(R, S, x)) = k - 1
    <3>1. Cardinality(Below(R, S, x)) \in 0..(Cardinality(S) - 1)
      BY RanksIncrease
    <3>2. Cardinality(Below(R, S, x)) + 1 \in 1..Cardinality(S)
      BY <1>1, <3>1
    <3>3. Cardinality(Below(R, S, x)) = (Cardinality(Below(R, S, x)) + 1) - 1
      BY <1>1, <3>1
    <3> QED  BY <3>2, <3>3
  <2>2. at[k] \in S /\ Cardinality(Below(R, S, at[k])) = k - 1
    BY DEF RanksAll
  <2>3. SUFFICES ASSUME at[k] # x PROVE FALSE
    OBVIOUS
  <2>4. <<at[k], x>> \in R /\ <<x, at[k]>> \in R
    BY <1>1, <1>2, <2>1, <2>2, <2>3
  <2> QED  BY <2>2, <2>4 DEF Orders
<1>4. ASSUME NEW j \in 1..Cardinality(S), NEW k \in 1..Cardinality(S), j < k
      PROVE  <<at[j], at[k]>> \in R
  <2>1. /\ at[j] \in S /\ Cardinality(Below(R, S, at[j])) = j - 1
        /\ at[k] \in S /\ Cardinality(Below(R, S, at[k])) = k - 1
    BY DEF RanksAll
  <2>2. j - 1 <= k - 1 /\ j - 1 # k - 1
    BY <1>1, <1>4
  <2> QED  BY <1>2, <2>1, <2>2
<1> QED  BY <1>3, <1>4

\* The ids of the accounts of a balance.
IdsInOrder(S) ==
  [k \in 1..Cardinality(S) |->
     CHOOSE x \in S : Cardinality({y \in S : y < x}) = k - 1]

LEMMA RankedIds ==
  ASSUME NEW S \in SUBSET Nat, IsFiniteSet(S), NEW ids, ids = IdsInOrder(S)
  PROVE  /\ Cardinality(S) \in Nat /\ DOMAIN ids = 1..Cardinality(S)
         /\ \A k \in DOMAIN ids : ids[k] \in S
         /\ \A x \in S : \E k \in DOMAIN ids : ids[k] = x
         /\ \A j, k \in DOMAIN ids : j < k => ids[j] < ids[k]
<1>1. PICK R : R = {p \in S \X S : p[1] < p[2]}
  OBVIOUS
<1>2. Orders(R, S)
  BY <1>1 DEF Orders
<1>3. \A x \in S : Below(R, S, x) = {y \in S : y < x}
  BY <1>1 DEF Below
<1>4. DOMAIN ids = 1..Cardinality(S)
  BY DEF IdsInOrder
<1>5. ASSUME NEW k \in 1..Cardinality(S)
      PROVE  ids[k] \in S /\ Cardinality(Below(R, S, ids[k])) = k - 1
  <2>0. PICK z \in S : Cardinality(Below(R, S, z)) = k - 1
    BY <1>2, EveryRankIsTaken
  <2>1. Cardinality({y \in S : y < z}) = k - 1
    BY <1>3, <2>0
  <2>2. ids[k] = CHOOSE x \in S : Cardinality({y \in S : y < x}) = k - 1
    BY DEF IdsInOrder
  <2>3. ids[k] \in S /\ Cardinality({y \in S : y < ids[k]}) = k - 1
    BY <2>1, <2>2
  <2> QED  BY <1>3, <2>3
<1>6. /\ \A x \in S : \E k \in 1..Cardinality(S) : ids[k] = x
      /\ \A j, k \in 1..Cardinality(S) : j < k => <<ids[j], ids[k]>> \in R
  <2>1. RanksAll(ids, R, S)
    BY <1>5 DEF RanksAll
  <2> QED  BY ONLY IsFiniteSet(S), <1>2, <2>1, RankingLists
<1>7. Cardinality(S) \in Nat
  BY FS_CardinalityType
<1>8. \A j, k \in 1..Cardinality(S) : j < k => ids[j] < ids[k]
  BY ONLY <1>1, <1>5, <1>6
<1> QED  BY ONLY <1>4, <1>5, <1>6, <1>7, <1>8

\* The places of a list in the order it is sorted into.
Entry == [id : Accounts, amount : Int]

PlacesInOrder(s) ==
  [k \in 1..Cardinality(DOMAIN s) |->
     CHOOSE x \in DOMAIN s : Cardinality({y \in DOMAIN s : Earlier(s, y, x)}) = k - 1]

LEMMA RankedPlaces ==
  ASSUME NEW s \in Seq(Entry), NEW order, order = PlacesInOrder(s)
  PROVE  /\ DOMAIN order = DOMAIN s
         /\ \A k \in DOMAIN s : order[k] \in DOMAIN s
         /\ \A i \in DOMAIN s : \E k \in DOMAIN s : order[k] = i
         /\ \A j, k \in DOMAIN s : j < k => Earlier(s, order[j], order[k])
<1> SUFFICES ASSUME NEW S, S = DOMAIN s
             PROVE  /\ DOMAIN order = S
                    /\ \A k \in S : order[k] \in S
                    /\ \A i \in S : \E k \in S : order[k] = i
                    /\ \A j, k \in S : j < k => Earlier(s, order[j], order[k])
  OBVIOUS
<1>0. /\ Len(s) \in Nat /\ S = 1..Len(s) /\ S \subseteq Nat
      /\ IsFiniteSet(S) /\ Cardinality(S) = Len(s)
      /\ \A i \in S : s[i].amount \in Int
  <2>1. Len(s) \in Nat /\ S = 1..Len(s) /\ 1 \in Int /\ Len(s) \in Int
    BY LenProperties
  <2>2. IsFiniteSet(S) /\ Cardinality(S) = IF 1 > Len(s) THEN 0 ELSE Len(s) - 1 + 1
    BY <2>1, FS_Interval
  <2>3. Cardinality(S) = Len(s)
    BY <2>1, <2>2
  <2>4. \A i \in S : s[i] \in Entry
    BY <2>1, ElementOfSeq
  <2> QED  BY <2>1, <2>2, <2>3, <2>4 DEF Entry
<1>1. PICK R : R = {p \in S \X S : Earlier(s, p[1], p[2])}
  OBVIOUS
<1>2. Orders(R, S)
  <2>1. \A i \in S : Magnitude(s[i].amount) \in Nat
    BY <1>0 DEF Magnitude
  <2>2. \A i, j \in S : <<i, j>> \in R <=> Earlier(s, i, j)
    BY <1>1
  <2>3. \A i \in S : ~Earlier(s, i, i)
    BY <1>0, <2>1 DEF Earlier
  <2>4. \A i, j, k \in S : Earlier(s, i, j) /\ Earlier(s, j, k) => Earlier(s, i, k)
    BY <1>0, <2>1 DEF Earlier
  <2>5. \A i, j \in S : i # j => Earlier(s, i, j) \/ Earlier(s, j, i)
    BY <1>0, <2>1 DEF Earlier
  <2>6. R \subseteq S \X S
    BY <1>1
  <2> QED  BY <2>2, <2>3, <2>4, <2>5, <2>6 DEF Orders
<1>3. \A x \in S : Below(R, S, x) = {y \in S : Earlier(s, y, x)}
  BY <1>1 DEF Below
<1>4. DOMAIN order = 1..Cardinality(S)
  BY DEF PlacesInOrder
<1>5. ASSUME NEW k \in 1..Cardinality(S)
      PROVE  order[k] \in S /\ Cardinality(Below(R, S, order[k])) = k - 1
  <2>0. PICK z \in S : Cardinality(Below(R, S, z)) = k - 1
    BY <1>0, <1>2, EveryRankIsTaken
  <2>1. Cardinality({y \in S : Earlier(s, y, z)}) = k - 1
    BY <1>3, <2>0
  <2>2. order[k] = CHOOSE x \in S : Cardinality({y \in S : Earlier(s, y, x)}) = k - 1
    BY DEF PlacesInOrder
  <2>3. order[k] \in S /\ Cardinality({y \in S : Earlier(s, y, order[k])}) = k - 1
    BY <2>1, <2>2
  <2> QED  BY <1>3, <2>3
<1>6. /\ \A x \in S : \E k \in 1..Cardinality(S) : order[k] = x
      /\ \A j, k \in 1..Cardinality(S) : j < k => <<order[j], order[k]>> \in R
  <2>1. RanksAll(order, R, S)
    BY <1>5 DEF RanksAll
  <2>2. IsFiniteSet(S)
    BY <1>0
  <2> QED  BY ONLY <1>2, <2>1, <2>2, RankingLists
<1>7. \A j, k \in 1..Cardinality(S) : j < k => Earlier(s, order[j], order[k])
  BY ONLY <1>1, <1>5, <1>6
<1>8. 1..Cardinality(S) = S
  BY <1>0
<1> QED  BY ONLY <1>4, <1>5, <1>6, <1>7, <1>8

(***************************************************************************)
(* The two lists.  An account is in a list at most once, so what the list  *)
(* says of it is well defined, and depends on the entries alone.           *)
(***************************************************************************)
Listed(s) ==
  /\ s \in Seq(Entry)
  /\ \A i, j \in DOMAIN s : s[i].id = s[j].id => i = j

LEMMA ListTypes ==
  ASSUME NEW s, Listed(s)
  PROVE  /\ Len(s) \in Nat /\ DOMAIN s = 1..Len(s)
         /\ s # <<>> <=> Len(s) > 0
         /\ \A i \in DOMAIN s : /\ s[i] \in Entry
                                /\ s[i].id \in Accounts /\ s[i].amount \in Int
<1>1. s \in Seq(Entry) /\ Len(s) \in Nat /\ DOMAIN s = 1..Len(s)
  BY LenProperties DEF Listed
<1>2. \A i \in DOMAIN s : s[i] \in Entry
  BY <1>1, ElementOfSeq
<1>3. s # <<>> => Len(s) > 0
  BY <1>1, EmptySeq
<1>4. s = <<>> => Len(s) = 0
  OBVIOUS
<1> QED  BY <1>1, <1>2, <1>3, <1>4 DEF Entry

LEMMA AmountOfEntry ==
  ASSUME NEW s, Listed(s), NEW i \in DOMAIN s
  PROVE  AmountIn(s, s[i].id) = s[i].amount
<1>1. PICK j : j = CHOOSE k \in DOMAIN s : s[k].id = s[i].id
  OBVIOUS
<1>2. j \in DOMAIN s /\ s[j].id = s[i].id
  BY <1>1
<1>3. j = i
  BY <1>2 DEF Listed
<1> QED  BY <1>1, <1>2, <1>3 DEF AmountIn

LEMMA AmountOfNoEntry ==
  ASSUME NEW s, NEW a, \A i \in DOMAIN s : s[i].id # a
  PROVE  AmountIn(s, a) = 0
BY DEF AmountIn

LEMMA AmountType ==
  ASSUME NEW s, Listed(s), NEW a
  PROVE  AmountIn(s, a) \in Int
<1>1. CASE \E i \in DOMAIN s : s[i].id = a
  <2>1. PICK i \in DOMAIN s : s[i].id = a
    BY <1>1
  <2>2. AmountIn(s, a) = s[i].amount
    BY <2>1, AmountOfEntry
  <2> QED  BY <2>2, ListTypes
<1>2. CASE ~\E i \in DOMAIN s : s[i].id = a
  BY <1>2, AmountOfNoEntry
<1> QED  BY <1>1, <1>2

LEMMA SameEntriesSameAmounts ==
  ASSUME NEW s, Listed(s), NEW t, Listed(t),
         \A k \in DOMAIN t : \E i \in DOMAIN s : t[k] = s[i],
         \A i \in DOMAIN s : \E k \in DOMAIN t : t[k] = s[i],
         NEW a
  PROVE  AmountIn(t, a) = AmountIn(s, a)
<1>1. CASE \E i \in DOMAIN s : s[i].id = a
  <2>1. PICK i \in DOMAIN s : s[i].id = a
    BY <1>1
  <2>2. PICK k \in DOMAIN t : t[k] = s[i]
    OBVIOUS
  <2>3. AmountIn(s, a) = s[i].amount
    BY <2>1, AmountOfEntry
  <2>4. AmountIn(t, a) = t[k].amount
    BY <2>1, <2>2, AmountOfEntry
  <2> QED  BY <2>2, <2>3, <2>4
<1>2. CASE ~\E i \in DOMAIN s : s[i].id = a
  <2>1. \A k \in DOMAIN t : t[k].id # a
    BY <1>2
  <2>2. AmountIn(t, a) = 0
    BY <2>1, AmountOfNoEntry
  <2>3. AmountIn(s, a) = 0
    BY <1>2, AmountOfNoEntry
  <2> QED  BY <2>2, <2>3
<1> QED  BY <1>1, <1>2

\* Entries lists every account of a set once, with its balance.
LEMMA EntriesList ==
  ASSUME NEW given \in [Accounts -> Int], NEW S \in SUBSET Accounts,
         NEW t, t = Entries(given, S)
  PROVE  /\ Listed(t)
         /\ \A i \in DOMAIN t : t[i].id \in S /\ t[i].amount = given[t[i].id]
         /\ \A x \in S : \E i \in DOMAIN t : t[i].id = x
<1>1. S \in SUBSET Nat /\ IsFiniteSet(S)
  BY AccountIds, FS_Subset
<1>2. PICK ids : ids = IdsInOrder(S)
  OBVIOUS
<1>3. t = [i \in DOMAIN ids |-> [id |-> ids[i], amount |-> given[ids[i]]]]
  BY <1>2 DEF Entries, Ranked, IdsInOrder
<1>4. /\ Cardinality(S) \in Nat /\ DOMAIN ids = 1..Cardinality(S)
      /\ \A k \in DOMAIN ids : ids[k] \in S
      /\ \A x \in S : \E k \in DOMAIN ids : ids[k] = x
      /\ \A j, k \in DOMAIN ids : j < k => ids[j] < ids[k]
  BY <1>1, <1>2, RankedIds
<1>5. \A j, k \in DOMAIN ids : ids[j] = ids[k] => j = k
  <2> SUFFICES ASSUME NEW j \in DOMAIN ids, NEW k \in DOMAIN ids, j # k
               PROVE  ids[j] # ids[k]
    OBVIOUS
  <2>1. j \in Int /\ k \in Int /\ ids[j] \in Nat /\ ids[k] \in Nat
    <3>1. j \in 1..Cardinality(S) /\ k \in 1..Cardinality(S)
      BY ONLY j \in DOMAIN ids, k \in DOMAIN ids, <1>4
    <3>2. j \in Int /\ k \in Int
      BY ONLY <1>4, <3>1
    <3>3. ids[j] \in S /\ ids[k] \in S
      BY ONLY j \in DOMAIN ids, k \in DOMAIN ids, <1>4
    <3>4. ids[j] \in Nat /\ ids[k] \in Nat
      BY ONLY <1>1, <3>3
    <3> QED  BY ONLY <3>2, <3>4
  <2>2. j < k \/ k < j
    BY <2>1
  <2>3. ids[j] < ids[k] \/ ids[k] < ids[j]
    BY ONLY j \in DOMAIN ids, k \in DOMAIN ids, <1>4, <2>2
  <2> QED  BY ONLY <2>1, <2>3
<1>6. /\ DOMAIN t = 1..Cardinality(S)
      /\ \A i \in DOMAIN t : t[i] \in Entry /\ t[i].id = ids[i] /\ t[i].amount = given[ids[i]]
  BY ONLY given \in [Accounts -> Int], S \in SUBSET Accounts, <1>3, <1>4 DEF Entry
<1>7. t \in Seq(Entry)
  <2>1. t = [i \in 1..Cardinality(S) |-> t[i]]
    BY ONLY <1>3, <1>4
  <2>2. t \in [1..Cardinality(S) -> Entry]
    BY ONLY <1>6, <2>1
  <2> QED  BY ONLY <1>4, <2>2, SeqDef
<1> QED
  BY ONLY <1>4, <1>5, <1>6, <1>7 DEF Listed

\* Sorting moves the entries, and puts the small ones first.
Ascending(s) ==
  \A j, k \in DOMAIN s : j < k => Magnitude(s[j].amount) <= Magnitude(s[k].amount)

LEMMA SortedLists ==
  ASSUME NEW s, Listed(s), NEW t, t = Sorted(s)
  PROVE  /\ Listed(t) /\ Ascending(t) /\ DOMAIN t = DOMAIN s
         /\ \A k \in DOMAIN t : \E i \in DOMAIN s : t[k] = s[i]
         /\ \A i \in DOMAIN s : \E k \in DOMAIN t : t[k] = s[i]
<1>1. PICK order : order = PlacesInOrder(s)
  OBVIOUS
<1>2. t = [k \in DOMAIN order |-> s[order[k]]]
  BY <1>1 DEF Sorted, Ranked, PlacesInOrder
<1>3. /\ DOMAIN order = DOMAIN s
      /\ \A k \in DOMAIN s : order[k] \in DOMAIN s
      /\ \A i \in DOMAIN s : \E k \in DOMAIN s : order[k] = i
      /\ \A j, k \in DOMAIN s : j < k => Earlier(s, order[j], order[k])
  BY <1>1, RankedPlaces DEF Listed
<1>4. /\ Len(s) \in Nat /\ DOMAIN s = 1..Len(s)
      /\ \A i \in DOMAIN s : s[i] \in Entry /\ s[i].amount \in Int
  BY ListTypes
<1>5. DOMAIN t = DOMAIN s /\ \A k \in DOMAIN s : t[k] = s[order[k]]
  BY ONLY <1>2, <1>3
<1>6. t \in Seq(Entry)
  <2>1. t \in [1..Len(s) -> Entry]
    BY ONLY <1>2, <1>3, <1>4
  <2> QED  BY ONLY <1>4, <2>1, SeqDef
<1>7. \A i \in DOMAIN s : Magnitude(s[i].amount) \in Nat
  BY ONLY <1>4 DEF Magnitude
<1>8. Ascending(t)
  <2> SUFFICES ASSUME NEW j \in DOMAIN t, NEW k \in DOMAIN t, j < k
               PROVE  Magnitude(t[j].amount) <= Magnitude(t[k].amount)
    BY DEF Ascending
  <2>1. Earlier(s, order[j], order[k])
    BY ONLY j \in DOMAIN t, k \in DOMAIN t, j < k, <1>3, <1>5
  <2>2. order[j] \in DOMAIN s /\ order[k] \in DOMAIN s
    BY ONLY j \in DOMAIN t, k \in DOMAIN t, <1>3, <1>5
  <2>3. Magnitude(s[order[j]].amount) <= Magnitude(s[order[k]].amount)
    BY ONLY <1>7, <2>1, <2>2 DEF Earlier
  <2> QED  BY ONLY j \in DOMAIN t, k \in DOMAIN t, <1>5, <2>3
<1>9. \A j, k \in DOMAIN t : t[j].id = t[k].id => j = k
  <2> SUFFICES ASSUME NEW j \in DOMAIN t, NEW k \in DOMAIN t, t[j].id = t[k].id, j # k
               PROVE  FALSE
    OBVIOUS
  <2>1. order[j] \in DOMAIN s /\ order[k] \in DOMAIN s
    BY ONLY j \in DOMAIN t, k \in DOMAIN t, <1>3, <1>5
  <2>2. order[j] = order[k]
    BY ONLY j \in DOMAIN t, k \in DOMAIN t, t[j].id = t[k].id, Listed(s), <1>5, <2>1
       DEF Listed
  <2>3. j \in Int /\ k \in Int /\ (j < k \/ k < j)
    BY ONLY j \in DOMAIN t, k \in DOMAIN t, j # k, <1>4, <1>5
  <2>4. Earlier(s, order[j], order[j])
    BY ONLY j \in DOMAIN t, k \in DOMAIN t, <1>3, <1>5, <2>2, <2>3
  <2> QED  BY ONLY <1>4, <1>7, <2>1, <2>4 DEF Earlier
<1>10. Listed(t)
  BY ONLY <1>6, <1>9 DEF Listed
<1> QED
  BY ONLY <1>3, <1>5, <1>8, <1>10

\* An entry is taken out of a list.
LEMMA RemovedEntry ==
  ASSUME NEW s, Listed(s), NEW i \in DOMAIN s, NEW t, t = RemoveAt(s, i)
  PROVE  /\ t \in Seq(Entry) /\ Len(t) = Len(s) - 1 /\ DOMAIN t = 1..(Len(s) - 1)
         /\ \A k \in DOMAIN t : t[k] = IF k < i THEN s[k] ELSE s[k + 1]
<1>1. PICK n : n = Len(s)
  OBVIOUS
<1>2. /\ n \in Nat /\ DOMAIN s = 1..n /\ i \in 1..n
      /\ \A k \in 1..n : s[k] \in Entry
  BY <1>1, ListTypes
<1>3. PICK u, v : u = SubSeq(s, 1, i - 1) /\ v = SubSeq(s, i + 1, n)
  OBVIOUS
<1>4. /\ u \in Seq(Entry) /\ Len(u) = i - 1
      /\ \A k \in 1..(i - 1) : u[k] = s[k]
  <2>1. 1 \in Int /\ i - 1 \in Int /\ \A k \in 1..(i - 1) : s[k] \in Entry
    BY <1>2
  <2>2. /\ SubSeq(s, 1, i - 1) \in Seq(Entry)
        /\ Len(SubSeq(s, 1, i - 1)) = IF 1 <= i - 1 THEN i - 1 - 1 + 1 ELSE 0
        /\ \A k \in 1..(i - 1) - 1 + 1 : SubSeq(s, 1, i - 1)[k] = s[1 + k - 1]
    BY ONLY <2>1, SubSeqProperties
  <2>3. \A k \in 1..(i - 1) : k \in 1..(i - 1) - 1 + 1 /\ 1 + k - 1 = k
    BY <1>2
  <2> QED  BY <1>2, <1>3, <2>2, <2>3
<1>5. /\ v \in Seq(Entry) /\ Len(v) = n - i
      /\ \A k \in 1..(n - i) : v[k] = s[i + k]
  <2>1. i + 1 \in Int /\ n \in Int /\ \A k \in (i + 1)..n : s[k] \in Entry
    BY <1>2
  <2>2. /\ SubSeq(s, i + 1, n) \in Seq(Entry)
        /\ Len(SubSeq(s, i + 1, n)) = IF i + 1 <= n THEN n - (i + 1) + 1 ELSE 0
        /\ \A k \in 1..n - (i + 1) + 1 : SubSeq(s, i + 1, n)[k] = s[i + 1 + k - 1]
    BY ONLY <2>1, SubSeqProperties
  <2>3. \A k \in 1..(n - i) : k \in 1..n - (i + 1) + 1 /\ i + 1 + k - 1 = i + k
    BY <1>2
  <2> QED  BY <1>2, <1>3, <2>2, <2>3
<1>6. t = u \o v
  BY <1>1, <1>3 DEF RemoveAt
<1>7. /\ t \in Seq(Entry) /\ Len(t) = Len(u) + Len(v)
      /\ \A k \in 1..(Len(u) + Len(v)) :
           t[k] = IF k <= Len(u) THEN u[k] ELSE v[k - Len(u)]
  BY ONLY <1>4, <1>5, <1>6, ConcatProperties
<1>8. Len(t) = n - 1 /\ DOMAIN t = 1..(n - 1)
  BY <1>2, <1>4, <1>5, <1>7, LenProperties
<1>9. ASSUME NEW k \in 1..(n - 1) PROVE t[k] = IF k < i THEN s[k] ELSE s[k + 1]
  <2>1. k \in 1..(Len(u) + Len(v)) /\ Len(u) = i - 1 /\ k \in Int /\ i \in Int
    BY <1>2, <1>4, <1>5
  <2>2. CASE k < i
    <3>1. k <= Len(u) /\ k \in 1..(i - 1)
      BY <2>1, <2>2
    <3> QED  BY <1>4, <1>7, <2>1, <2>2, <3>1
  <2>3. CASE ~(k < i)
    <3>1. ~(k <= Len(u)) /\ k - Len(u) \in 1..(n - i) /\ i + (k - Len(u)) = k + 1
      BY <1>2, <2>1, <2>3
    <3>2. t[k] = v[k - Len(u)]
      BY <1>7, <2>1, <3>1
    <3> QED  BY <1>5, <2>3, <3>1, <3>2
  <2> QED  BY <2>2, <2>3
<1> QED
  BY <1>1, <1>7, <1>8, <1>9

LEMMA RemovedLists ==
  ASSUME NEW s, Listed(s), NEW i \in DOMAIN s, NEW t, t = RemoveAt(s, i)
  PROVE  /\ Listed(t)
         /\ \A k \in DOMAIN t : \E j \in DOMAIN s : j # i /\ t[k] = s[j]
         /\ \A a : AmountIn(t, a) = IF a = s[i].id THEN 0 ELSE AmountIn(s, a)
<1>1. PICK n : n = Len(s)
  OBVIOUS
<1>2. n \in Nat /\ DOMAIN s = 1..n /\ i \in 1..n /\ i \in Int
  BY <1>1, ListTypes
<1>3. /\ t \in Seq(Entry) /\ DOMAIN t = 1..(n - 1)
      /\ \A k \in 1..(n - 1) : t[k] = IF k < i THEN s[k] ELSE s[k + 1]
  BY <1>1, RemovedEntry
<1>4. PICK from : from = [k \in 1..(n - 1) |-> IF k < i THEN k ELSE k + 1]
  OBVIOUS
<1>5. /\ \A k \in 1..(n - 1) : from[k] \in 1..n /\ from[k] # i /\ t[k] = s[from[k]]
      /\ \A k, l \in 1..(n - 1) : from[k] = from[l] => k = l
      /\ \A j \in 1..n : j # i => \E k \in 1..(n - 1) : from[k] = j
  <2>1. \A k \in 1..(n - 1) : from[k] \in 1..n /\ from[k] # i /\ t[k] = s[from[k]]
    BY ONLY <1>2, <1>3, <1>4
  <2>2. \A k, l \in 1..(n - 1) : from[k] = from[l] => k = l
    BY ONLY <1>2, <1>4
  <2>3. ASSUME NEW j \in 1..n, j # i PROVE \E k \in 1..(n - 1) : from[k] = j
    <3>1. CASE j < i
      <4>1. j \in 1..(n - 1) /\ from[j] = j
        BY ONLY j \in 1..n, <1>2, <1>4, <3>1
      <4> QED  BY <4>1
    <3>2. CASE j > i
      <4>1. j - 1 \in 1..(n - 1) /\ from[j - 1] = j
        BY ONLY j \in 1..n, <1>2, <1>4, <3>2
      <4> QED  BY <4>1
    <3> QED  BY <1>2, <2>3, <3>1, <3>2
  <2> QED  BY <2>1, <2>2, <2>3
<1>6. Listed(t)
  <2>1. ASSUME NEW k \in DOMAIN t, NEW l \in DOMAIN t, t[k].id = t[l].id PROVE k = l
    <3>1. from[k] = from[l]
      BY <1>2, <1>3, <1>5, <2>1 DEF Listed
    <3> QED  BY <1>3, <1>5, <3>1
  <2> QED  BY <1>3, <2>1 DEF Listed
<1>7. ASSUME NEW a PROVE AmountIn(t, a) = IF a = s[i].id THEN 0 ELSE AmountIn(s, a)
  <2>1. CASE a = s[i].id
    <3>1. \A k \in DOMAIN t : t[k].id # a
      BY <1>2, <1>3, <1>5, <2>1 DEF Listed
    <3> QED  BY <2>1, <3>1, AmountOfNoEntry
  <2>2. CASE a # s[i].id /\ \E j \in DOMAIN s : s[j].id = a
    <3>1. PICK j \in DOMAIN s : s[j].id = a
      BY <2>2
    <3>2. PICK k \in DOMAIN t : t[k] = s[j]
      <4>1. j # i /\ j \in 1..n
        BY <1>2, <2>2, <3>1
      <4>2. PICK k \in 1..(n - 1) : from[k] = j
        BY <1>5, <4>1
      <4> QED  BY ONLY <1>3, <1>5, <4>2
    <3>3. AmountIn(s, a) = s[j].amount
      BY <3>1, AmountOfEntry
    <3>4. AmountIn(t, a) = t[k].amount
      BY <1>6, <3>1, <3>2, AmountOfEntry
    <3> QED  BY <2>2, <3>2, <3>3, <3>4
  <2>3. CASE a # s[i].id /\ ~\E j \in DOMAIN s : s[j].id = a
    <3>1. \A k \in DOMAIN t : t[k].id # a
      BY <1>2, <1>3, <1>5, <2>3
    <3>2. AmountIn(t, a) = 0
      BY <3>1, AmountOfNoEntry
    <3>3. AmountIn(s, a) = 0
      BY <2>3, AmountOfNoEntry
    <3> QED  BY <2>3, <3>2, <3>3
  <2> QED  BY <2>1, <2>2, <2>3
<1>8. \A k \in DOMAIN t : \E j \in DOMAIN s : j # i /\ t[k] = s[j]
  BY ONLY <1>2, <1>3, <1>5
<1> QED  BY <1>6, <1>7, <1>8

\* The last entry is paid to or from, and leaves the list when it is settled.
LEMMA PutBackLists ==
  ASSUME NEW s, Listed(s), s # <<>>, NEW x \in Int, NEW t, t = PutBack(s, x)
  PROVE  /\ Len(s) \in DOMAIN s /\ Last(s) = s[Len(s)]
         /\ Listed(t)
         /\ \A k \in DOMAIN t : \E j \in DOMAIN s :
              t[k].id = s[j].id /\ (t[k].amount = s[j].amount \/ (t[k].amount = x /\ x # 0))
         /\ \A a : AmountIn(t, a) = IF a = Last(s).id THEN x ELSE AmountIn(s, a)
<1>1. PICK n : n = Len(s)
  OBVIOUS
<1>2. /\ n \in Nat \ {0} /\ DOMAIN s = 1..n /\ n \in DOMAIN s /\ Last(s) = s[n]
      /\ \A k \in 1..n : s[k] \in Entry
  BY <1>1, ListTypes DEF Last
<1>3. PICK u : u = Front(s)
  OBVIOUS
<1>4. u \in Seq(Entry) /\ Len(u) = n - 1 /\ \A k \in 1..(n - 1) : u[k] = s[k]
  <2>1. 1 \in Int /\ n - 1 \in Int /\ \A k \in 1..(n - 1) : s[k] \in Entry
    BY <1>2
  <2>2. /\ SubSeq(s, 1, n - 1) \in Seq(Entry)
        /\ Len(SubSeq(s, 1, n - 1)) = IF 1 <= n - 1 THEN n - 1 - 1 + 1 ELSE 0
        /\ \A k \in 1..(n - 1) - 1 + 1 : SubSeq(s, 1, n - 1)[k] = s[1 + k - 1]
    BY ONLY <2>1, SubSeqProperties
  <2>3. \A k \in 1..(n - 1) : k \in 1..(n - 1) - 1 + 1 /\ 1 + k - 1 = k
    BY <1>2
  <2>4. u = SubSeq(s, 1, n - 1)
    BY <1>1, <1>3 DEF Front
  <2> QED  BY <1>2, <2>2, <2>3, <2>4
<1>5. DOMAIN u = 1..(n - 1)
  BY <1>4, LenProperties
<1>6. Listed(u)
  <2>1. ASSUME NEW k \in DOMAIN u, NEW l \in DOMAIN u, u[k].id = u[l].id PROVE k = l
    <3>1. k \in DOMAIN s /\ l \in DOMAIN s /\ s[k].id = s[l].id
      BY <1>2, <1>4, <1>5, <2>1
    <3> QED  BY <3>1 DEF Listed
  <2> QED  BY <1>4, <2>1 DEF Listed
<1>7. \A k \in 1..(n - 1) : s[k].id # s[n].id
  <2> SUFFICES ASSUME NEW k \in 1..(n - 1) PROVE s[k].id # s[n].id
    OBVIOUS
  <2>1. k \in DOMAIN s /\ k # n
    BY <1>2
  <2> QED  BY <1>2, <2>1 DEF Listed
<1>8. CASE x = 0
  <2>1. t = u
    BY <1>3, <1>8 DEF PutBack
  <2>2. \A k \in DOMAIN u : k \in DOMAIN s /\ u[k] = s[k] /\ u[k].id # s[n].id
    BY <1>2, <1>4, <1>5, <1>7
  <2>3. ASSUME NEW a PROVE AmountIn(u, a) = IF a = s[n].id THEN 0 ELSE AmountIn(s, a)
    <3>1. CASE a = s[n].id
      <4>1. \A k \in DOMAIN u : u[k].id # a
        BY <2>2, <3>1
      <4> QED  BY <3>1, <4>1, AmountOfNoEntry
    <3>2. CASE a # s[n].id /\ \E j \in DOMAIN s : s[j].id = a
      <4>1. PICK j \in DOMAIN s : s[j].id = a
        BY <3>2
      <4>2. j # n /\ j \in 1..(n - 1)
        BY <1>2, <3>2, <4>1
      <4>3. AmountIn(s, a) = s[j].amount
        BY <4>1, AmountOfEntry
      <4>4. j \in DOMAIN u /\ u[j] = s[j]
        BY <1>4, <1>5, <4>2
      <4>5. AmountIn(u, a) = u[j].amount
        BY <1>6, <4>1, <4>4, AmountOfEntry
      <4> QED  BY <3>2, <4>3, <4>4, <4>5
    <3>3. CASE a # s[n].id /\ ~\E j \in DOMAIN s : s[j].id = a
      <4>1. \A k \in DOMAIN u : u[k].id # a
        BY <2>2, <3>3
      <4>2. AmountIn(u, a) = 0
        BY <4>1, AmountOfNoEntry
      <4>3. AmountIn(s, a) = 0
        BY <3>3, AmountOfNoEntry
      <4> QED  BY <3>3, <4>2, <4>3
    <3> QED  BY <3>1, <3>2, <3>3
  <2> QED  BY <1>1, <1>2, <1>6, <1>8, <2>1, <2>2, <2>3
<1>9. CASE x # 0
  <2>1. PICK e : e = [Last(s) EXCEPT !.amount = x]
    OBVIOUS
  <2>2. e \in Entry /\ e.id = s[n].id /\ e.amount = x
    BY <1>2, <2>1 DEF Entry
  <2>3. t = Append(u, e)
    BY <1>3, <1>9, <2>1 DEF PutBack
  <2>4. /\ t \in Seq(Entry) /\ Len(t) = n /\ DOMAIN t = 1..n
        /\ \A k \in 1..(n - 1) : t[k] = s[k]
        /\ t[n] = e
    <3>1. /\ Append(u, e) \in Seq(Entry) /\ Len(Append(u, e)) = Len(u) + 1
          /\ \A k \in 1..Len(u) : Append(u, e)[k] = u[k]
          /\ Append(u, e)[Len(u) + 1] = e
      BY ONLY <1>4, <2>2, AppendProperties
    <3>2. Len(u) + 1 = n
      BY <1>2, <1>4
    <3> QED  BY <1>2, <1>4, <2>3, <3>1, <3>2, LenProperties
  <2>5. \A k \in 1..n : t[k].id = s[k].id
    BY <1>2, <2>2, <2>4
  <2>6. Listed(t)
    BY <1>2, <2>4, <2>5 DEF Listed
  <2>7. ASSUME NEW a PROVE AmountIn(t, a) = IF a = s[n].id THEN x ELSE AmountIn(s, a)
    <3>1. CASE a = s[n].id
      <4>1. n \in DOMAIN t /\ t[n].id = a /\ t[n].amount = x
        BY <1>2, <2>2, <2>4, <3>1
      <4> QED  BY <2>6, <3>1, <4>1, AmountOfEntry
    <3>2. CASE a # s[n].id /\ \E j \in DOMAIN s : s[j].id = a
      <4>1. PICK j \in DOMAIN s : s[j].id = a
        BY <3>2
      <4>2. j # n /\ j \in 1..(n - 1)
        BY <1>2, <3>2, <4>1
      <4>3. AmountIn(s, a) = s[j].amount
        BY <4>1, AmountOfEntry
      <4>4. j \in DOMAIN t /\ t[j] = s[j]
        BY <1>2, <2>4, <4>2
      <4>5. AmountIn(t, a) = t[j].amount
        BY <2>6, <4>1, <4>4, AmountOfEntry
      <4> QED  BY <3>2, <4>3, <4>4, <4>5
    <3>3. CASE a # s[n].id /\ ~\E j \in DOMAIN s : s[j].id = a
      <4>1. \A k \in DOMAIN t : t[k].id # a
        BY <1>2, <2>4, <2>5, <3>3
      <4>2. AmountIn(t, a) = 0
        BY <4>1, AmountOfNoEntry
      <4>3. AmountIn(s, a) = 0
        BY <3>3, AmountOfNoEntry
      <4> QED  BY <3>3, <4>2, <4>3
    <3> QED  BY <3>1, <3>2, <3>3
  <2>8. \A k \in DOMAIN t : \E j \in DOMAIN s :
          t[k].id = s[j].id /\ (t[k].amount = s[j].amount \/ (t[k].amount = x /\ x # 0))
    <3> SUFFICES ASSUME NEW k \in DOMAIN t
                 PROVE  /\ k \in DOMAIN s /\ t[k].id = s[k].id
                        /\ t[k].amount = s[k].amount \/ (t[k].amount = x /\ x # 0)
      OBVIOUS
    <3>1. k = n \/ k \in 1..(n - 1)
      BY <1>2, <2>4
    <3> QED  BY <1>2, <1>9, <2>2, <2>4, <2>5, <3>1
  <2> QED  BY <1>1, <1>2, <2>6, <2>7, <2>8
<1> QED  BY <1>8, <1>9

(***************************************************************************)
(* Types, and what is always true of the two lists: who is in them, and    *)
(* with which sign.                                                        *)
(***************************************************************************)
Payment == [creditorId : Accounts, debitorId : Accounts, amount : Int]

ListsInv ==
  /\ Listed(creditors) /\ Listed(debitors)
  /\ \A i \in DOMAIN creditors : creditors[i].amount > 0
  /\ \A j \in DOMAIN debitors : debitors[j].amount < 0
  /\ \A i \in DOMAIN creditors, j \in DOMAIN debitors : creditors[i].id # debitors[j].id

TypeInv ==
  /\ stage \in {"idle", "sort", "match", "done"}
  /\ total \in [Accounts -> Int]
  /\ credI \in Nat \ {0} /\ debI \in Nat \ {0}
  /\ plan \in Seq(Payment)
  /\ ListsInv
  /\ stage = "idle" => creditors = <<>> /\ debitors = <<>> /\ plan = <<>>

LEMMA EmptyList == Listed(<<>>) /\ \A a : AmountIn(<<>>, a) = 0
<1>1. <<>> \in Seq(Entry) /\ DOMAIN <<>> = {}
  OBVIOUS
<1> QED  BY <1>1 DEF Listed, AmountIn

LEMMA PrepareLists ==
  ASSUME NEW given \in [Accounts -> Int], Prepare(given)
  PROVE  /\ ListsInv'
         /\ \A a \in Accounts : AmountIn(creditors, a)' + AmountIn(debitors, a)' = given[a]
<1> DEFINE P == {a \in Accounts : given[a] > 0}
           N == {a \in Accounts : given[a] < 0}
<1>1. PICK c, d : c = creditors' /\ d = debitors'
  OBVIOUS
<1>2. P \in SUBSET Accounts /\ N \in SUBSET Accounts
  OBVIOUS
<1>3. c = Entries(given, P) /\ d = Entries(given, N)
  BY <1>1 DEF Prepare
<1> HIDE DEF P, N
<1>4. /\ Listed(c)
      /\ \A i \in DOMAIN c : c[i].id \in P /\ c[i].amount = given[c[i].id]
      /\ \A x \in P : \E i \in DOMAIN c : c[i].id = x
  BY ONLY <1>2, <1>3, given \in [Accounts -> Int], EntriesList
<1>5. /\ Listed(d)
      /\ \A i \in DOMAIN d : d[i].id \in N /\ d[i].amount = given[d[i].id]
      /\ \A x \in N : \E i \in DOMAIN d : d[i].id = x
  BY ONLY <1>2, <1>3, given \in [Accounts -> Int], EntriesList
<1>6. /\ \A a \in P : a \in Accounts /\ given[a] \in Int /\ given[a] > 0
      /\ \A a \in N : a \in Accounts /\ given[a] \in Int /\ given[a] < 0
  BY DEF P, N
<1>7. /\ \A i \in DOMAIN c : c[i].amount > 0
      /\ \A j \in DOMAIN d : d[j].amount < 0
      /\ \A i \in DOMAIN c, j \in DOMAIN d : c[i].id # d[j].id
  BY ONLY <1>4, <1>5, <1>6
<1>8. ASSUME NEW a \in Accounts PROVE AmountIn(c, a) + AmountIn(d, a) = given[a]
  <2>1. CASE a \in P
    <3>1. PICK i \in DOMAIN c : c[i].id = a
      BY <1>4, <2>1
    <3>2. AmountIn(c, a) = given[a]
      BY <1>4, <3>1, AmountOfEntry
    <3>3. \A j \in DOMAIN d : d[j].id # a
      BY <1>7, <3>1
    <3>4. AmountIn(d, a) = 0
      BY <3>3, AmountOfNoEntry
    <3> QED  BY <1>6, <2>1, <3>2, <3>4
  <2>2. CASE a \in N
    <3>1. PICK j \in DOMAIN d : d[j].id = a
      BY <1>5, <2>2
    <3>2. AmountIn(d, a) = given[a]
      BY <1>5, <3>1, AmountOfEntry
    <3>3. \A i \in DOMAIN c : c[i].id # a
      BY <1>7, <3>1
    <3>4. AmountIn(c, a) = 0
      BY <3>3, AmountOfNoEntry
    <3> QED  BY <1>6, <2>2, <3>2, <3>4
  <2>3. CASE a \notin P /\ a \notin N
    <3>1. given[a] = 0
      BY <2>3 DEF P, N
    <3>2. AmountIn(c, a) = 0
      BY <1>4, <2>3, AmountOfNoEntry
    <3>3. AmountIn(d, a) = 0
      BY <1>5, <2>3, AmountOfNoEntry
    <3> QED  BY <3>1, <3>2, <3>3
  <2> QED  BY <2>1, <2>2, <2>3
<1>9. ListsInv'
  BY <1>1, <1>4, <1>5, <1>7 DEF ListsInv
<1> QED  BY <1>1, <1>8, <1>9

LEMMA SortBothLists ==
  ASSUME ListsInv, SortBoth
  PROVE  /\ ListsInv' /\ Ascending(creditors)' /\ Ascending(debitors)'
         /\ \A a : /\ AmountIn(creditors, a)' = AmountIn(creditors, a)
                   /\ AmountIn(debitors, a)' = AmountIn(debitors, a)
<1>1. PICK c, d : c = creditors' /\ d = debitors'
  OBVIOUS
<1>2. c = Sorted(creditors) /\ d = Sorted(debitors) /\ Listed(creditors) /\ Listed(debitors)
  BY <1>1 DEF SortBoth, ListsInv
<1>3. /\ Listed(c) /\ Ascending(c)
      /\ \A k \in DOMAIN c : \E i \in DOMAIN creditors : c[k] = creditors[i]
      /\ \A i \in DOMAIN creditors : \E k \in DOMAIN c : c[k] = creditors[i]
  BY ONLY <1>2, SortedLists
<1>4. /\ Listed(d) /\ Ascending(d)
      /\ \A k \in DOMAIN d : \E i \in DOMAIN debitors : d[k] = debitors[i]
      /\ \A i \in DOMAIN debitors : \E k \in DOMAIN d : d[k] = debitors[i]
  BY ONLY <1>2, SortedLists
<1>5. ASSUME NEW a
      PROVE  AmountIn(c, a) = AmountIn(creditors, a) /\ AmountIn(d, a) = AmountIn(debitors, a)
  BY ONLY <1>2, <1>3, <1>4, SameEntriesSameAmounts
<1>6. /\ \A i \in DOMAIN c : c[i].amount > 0
      /\ \A j \in DOMAIN d : d[j].amount < 0
      /\ \A i \in DOMAIN c, j \in DOMAIN d : c[i].id # d[j].id
  BY <1>3, <1>4 DEF ListsInv
<1>7. ListsInv'
  BY <1>1, <1>3, <1>4, <1>6 DEF ListsInv
<1> QED  BY <1>1, <1>3, <1>4, <1>5, <1>7

(***************************************************************************)
(* What a payment of amount between the entries i and j does to the lists. *)
(***************************************************************************)
Settles(i, j, amount) ==
  /\ i \in DOMAIN creditors /\ j \in DOMAIN debitors
  /\ amount \in Int /\ amount > 0
  /\ amount = IF -debitors[j].amount <= creditors[i].amount
              THEN -debitors[j].amount ELSE creditors[i].amount
  /\ plan' = Append(plan, [creditorId |-> debitors[j].id, debitorId |-> creditors[i].id,
                           amount |-> amount])
  /\ total' = total
  /\ \A a : AmountIn(creditors, a)' = IF a = creditors[i].id THEN creditors[i].amount - amount
                                      ELSE AmountIn(creditors, a)
  /\ \A a : AmountIn(debitors, a)' = IF a = debitors[j].id THEN debitors[j].amount + amount
                                     ELSE AmountIn(debitors, a)

LEMMA MatchExactLists ==
  ASSUME TypeInv, MatchExact
  PROVE  ListsInv' /\ Settles(credI, debI, creditors[credI].amount)
<1>1. PICK c, d : c = creditors' /\ d = debitors'
  OBVIOUS
<1>2. /\ Listed(creditors) /\ Listed(debitors)
      /\ \A i \in DOMAIN creditors : creditors[i].amount > 0
      /\ \A j \in DOMAIN debitors : debitors[j].amount < 0
      /\ \A i \in DOMAIN creditors, j \in DOMAIN debitors : creditors[i].id # debitors[j].id
  BY DEF TypeInv, ListsInv
<1>3. credI \in DOMAIN creditors /\ debI \in DOMAIN debitors
  BY <1>2, ListTypes DEF TypeInv, MatchExact, InnerLoop
<1>4. c = RemoveAt(creditors, credI) /\ d = RemoveAt(debitors, debI)
  BY <1>1 DEF MatchExact
<1>5. /\ Listed(c)
      /\ \A k \in DOMAIN c : \E i \in DOMAIN creditors : i # credI /\ c[k] = creditors[i]
      /\ \A a : AmountIn(c, a) = IF a = creditors[credI].id THEN 0 ELSE AmountIn(creditors, a)
  BY ONLY <1>2, <1>3, <1>4, RemovedLists
<1>6. /\ Listed(d)
      /\ \A k \in DOMAIN d : \E j \in DOMAIN debitors : j # debI /\ d[k] = debitors[j]
      /\ \A a : AmountIn(d, a) = IF a = debitors[debI].id THEN 0 ELSE AmountIn(debitors, a)
  BY ONLY <1>2, <1>3, <1>4, RemovedLists
<1>7. ListsInv'
  <2>1. /\ \A i \in DOMAIN c : c[i].amount > 0
        /\ \A j \in DOMAIN d : d[j].amount < 0
        /\ \A i \in DOMAIN c, j \in DOMAIN d : c[i].id # d[j].id
    BY ONLY <1>2, <1>5, <1>6
  <2> QED  BY <1>1, <1>5, <1>6, <2>1 DEF ListsInv
<1>8. /\ creditors[credI].amount \in Int /\ creditors[credI].amount > 0
      /\ debitors[debI].amount \in Int
      /\ creditors[credI].amount = -debitors[debI].amount
  BY <1>2, <1>3, ListTypes DEF MatchExact
<1>9. Settles(credI, debI, creditors[credI].amount)
  <2>1. /\ plan' = Append(plan, [creditorId |-> debitors[debI].id,
                                 debitorId |-> creditors[credI].id,
                                 amount |-> creditors[credI].amount])
        /\ total' = total
    BY DEF MatchExact
  <2>2. /\ creditors[credI].amount - creditors[credI].amount = 0
        /\ debitors[debI].amount + creditors[credI].amount = 0
        /\ creditors[credI].amount =
             IF -debitors[debI].amount <= creditors[credI].amount
             THEN -debitors[debI].amount ELSE creditors[credI].amount
    BY <1>8
  <2> QED  BY <1>1, <1>3, <1>5, <1>6, <1>8, <2>1, <2>2 DEF Settles
<1> QED  BY <1>7, <1>9

LEMMA PayLargestLists ==
  ASSUME TypeInv, PayLargest
  PROVE  /\ ListsInv'
         /\ \E amount : Settles(Len(creditors), Len(debitors), amount)
<1>1. PICK c, d : c = creditors' /\ d = debitors'
  OBVIOUS
<1>2. /\ Listed(creditors) /\ Listed(debitors)
      /\ \A i \in DOMAIN creditors : creditors[i].amount > 0
      /\ \A j \in DOMAIN debitors : debitors[j].amount < 0
      /\ \A i \in DOMAIN creditors, j \in DOMAIN debitors : creditors[i].id # debitors[j].id
      /\ creditors # <<>> /\ debitors # <<>>
  BY DEF TypeInv, ListsInv, PayLargest, Outstanding
<1>3. PICK m, n : m = Len(creditors) /\ n = Len(debitors)
  OBVIOUS
<1>4. /\ m \in DOMAIN creditors /\ n \in DOMAIN debitors
      /\ Last(creditors) = creditors[m] /\ Last(debitors) = debitors[n]
      /\ creditors[m].amount \in Int /\ debitors[n].amount \in Int
      /\ creditors[m].amount > 0 /\ debitors[n].amount < 0
  BY <1>2, <1>3, ListTypes DEF Last
<1>5. PICK owed, owes : owed = creditors[m].amount /\ owes = -debitors[n].amount
  OBVIOUS
<1>6. PICK amount : amount = IF owes > owed THEN owed ELSE owes
  OBVIOUS
<1>7. /\ owed \in Int /\ owes \in Int /\ owed > 0 /\ owes > 0
      /\ amount \in Int /\ amount > 0
      /\ owed - amount \in Int /\ owed - amount >= 0
      /\ amount - owes \in Int /\ amount - owes <= 0
  BY ONLY <1>4, <1>5, <1>6
<1>8. /\ c = PutBack(creditors, owed - amount) /\ d = PutBack(debitors, amount - owes)
      /\ plan' = Append(plan, [creditorId |-> debitors[n].id,
                               debitorId |-> creditors[m].id,
                               amount |-> amount])
      /\ total' = total
  BY <1>1, <1>4, <1>5, <1>6 DEF PayLargest
<1>9. PICK x, y : x = owed - amount /\ y = amount - owes
  OBVIOUS
<1>10. x \in Int /\ x >= 0 /\ y \in Int /\ y <= 0
  BY ONLY <1>7, <1>9
<1>11. c = PutBack(creditors, x) /\ d = PutBack(debitors, y)
  BY ONLY <1>8, <1>9
<1>12. /\ Listed(c)
       /\ \A k \in DOMAIN c : \E i \in DOMAIN creditors :
            /\ c[k].id = creditors[i].id
            /\ c[k].amount = creditors[i].amount \/ (c[k].amount = x /\ x # 0)
       /\ \A a : AmountIn(c, a) = IF a = creditors[m].id THEN x ELSE AmountIn(creditors, a)
  BY ONLY <1>2, <1>4, <1>10, <1>11, PutBackLists
<1>13. /\ Listed(d)
       /\ \A k \in DOMAIN d : \E j \in DOMAIN debitors :
            /\ d[k].id = debitors[j].id
            /\ d[k].amount = debitors[j].amount \/ (d[k].amount = y /\ y # 0)
       /\ \A a : AmountIn(d, a) = IF a = debitors[n].id THEN y ELSE AmountIn(debitors, a)
  BY ONLY <1>2, <1>4, <1>10, <1>11, PutBackLists
<1>14. ListsInv'
  <2>1. \A i \in DOMAIN c : c[i].amount > 0
    BY ONLY <1>2, <1>10, <1>12
  <2>2. \A j \in DOMAIN d : d[j].amount < 0
    BY ONLY <1>2, <1>10, <1>13
  <2>3. \A i \in DOMAIN c, j \in DOMAIN d : c[i].id # d[j].id
    BY ONLY <1>2, <1>12, <1>13
  <2> QED  BY <1>1, <1>12, <1>13, <2>1, <2>2, <2>3 DEF ListsInv
<1>15. Settles(m, n, amount)
  <2>1. /\ x = creditors[m].amount - amount /\ y = debitors[n].amount + amount
        /\ amount = IF -debitors[n].amount <= creditors[m].amount
                    THEN -debitors[n].amount ELSE creditors[m].amount
    BY ONLY <1>4, <1>5, <1>6, <1>7, <1>9
  <2> QED  BY <1>1, <1>4, <1>7, <1>8, <1>12, <1>13, <2>1 DEF Settles
<1> QED  BY <1>3, <1>14, <1>15

LEMMA SettledPlan ==
  ASSUME TypeInv, NEW i, NEW j, NEW amount, Settles(i, j, amount)
  PROVE  /\ creditors[i].id \in Accounts /\ debitors[j].id \in Accounts
         /\ creditors[i].amount \in Int /\ debitors[j].amount \in Int
         /\ [creditorId |-> debitors[j].id, debitorId |-> creditors[i].id,
             amount |-> amount] \in Payment
         /\ plan' \in Seq(Payment) /\ Len(plan') = Len(plan) + 1
<1>1. /\ creditors[i].id \in Accounts /\ debitors[j].id \in Accounts
      /\ creditors[i].amount \in Int /\ debitors[j].amount \in Int
  BY ListTypes DEF TypeInv, ListsInv, Settles
<1>2. PICK p : p = [creditorId |-> debitors[j].id, debitorId |-> creditors[i].id,
                    amount |-> amount]
  OBVIOUS
<1>3. p \in Payment
  BY <1>1, <1>2 DEF Payment, Settles
<1>4. plan' = Append(plan, p) /\ plan \in Seq(Payment)
  BY <1>2 DEF Settles, TypeInv
<1>5. plan' \in Seq(Payment) /\ Len(plan') = Len(plan) + 1
  BY ONLY <1>3, <1>4, AppendProperties
<1> QED  BY <1>1, <1>2, <1>3, <1>5

LEMMA TypesStep ==
  ASSUME TypeInv, [SettlementNext \/ Call]_settlement
  PROVE  TypeInv'
<1>1. CASE Call
  <2>1. PICK given \in [Accounts -> Int] : Prepare(given)
    BY <1>1 DEF Call
  <2>2. ListsInv'
    BY <2>1, PrepareLists
  <2>3. /\ stage' = "sort" /\ total' = given /\ plan' = <<>>
        /\ credI' = credI /\ debI' = debI
    BY <2>1 DEF Prepare
  <2> QED  BY <2>2, <2>3 DEF TypeInv
<1>2. CASE SortBoth
  <2>1. ListsInv'
    BY <1>2, SortBothLists DEF TypeInv
  <2>2. /\ stage' = "match" /\ total' = total /\ plan' = plan /\ credI' = 1 /\ debI' = 1
    BY <1>2 DEF SortBoth
  <2> QED  BY <2>1, <2>2 DEF TypeInv
<1>3. CASE MatchExact
  <2>1. ListsInv' /\ plan' \in Seq(Payment)
    BY <1>3, MatchExactLists, SettledPlan
  <2>2. stage' = "match" /\ total' = total /\ credI' = credI /\ debI' = debI
    BY <1>3 DEF MatchExact
  <2> QED  BY <2>1, <2>2 DEF TypeInv
<1>4. CASE Step
  <2>1. /\ stage' = "match" /\ total' = total /\ plan' = plan
        /\ creditors' = creditors /\ debitors' = debitors
    BY <1>4 DEF Step
  <2>2. credI' \in Nat \ {0} /\ debI' \in Nat \ {0}
    BY <1>4 DEF Step, TypeInv
  <2>3. ListsInv'
    BY <2>1 DEF TypeInv, ListsInv
  <2> QED  BY <2>1, <2>2, <2>3 DEF TypeInv
<1>5. CASE PayLargest
  <2>1. ListsInv' /\ plan' \in Seq(Payment)
    BY <1>5, PayLargestLists, SettledPlan
  <2>2. stage' = "sort" /\ total' = total /\ credI' = credI /\ debI' = debI
    BY <1>5 DEF PayLargest
  <2> QED  BY <2>1, <2>2 DEF TypeInv
<1>6. CASE Return
  <2>1. /\ stage' = "done" /\ total' = total /\ plan' = plan
        /\ creditors' = creditors /\ debitors' = debitors
        /\ credI' = credI /\ debI' = debI
    BY <1>6 DEF Return
  <2>2. ListsInv'
    BY <2>1 DEF TypeInv, ListsInv
  <2> QED  BY <2>1, <2>2 DEF TypeInv
<1>7. CASE UNCHANGED settlement
  BY <1>7 DEF settlement, TypeInv, ListsInv
<1> QED
  BY <1>1, <1>2, <1>3, <1>4, <1>5, <1>6, <1>7 DEF SettlementNext

LEMMA TypesInit == SettlementInit => TypeInv
<1> SUFFICES ASSUME SettlementInit PROVE TypeInv
  OBVIOUS
<1>1. /\ stage = "idle" /\ total = [a \in Accounts |-> 0] /\ credI = 1 /\ debI = 1
      /\ plan = <<>> /\ creditors = <<>> /\ debitors = <<>>
  BY DEF SettlementInit
<1>2. ListsInv
  <2>1. DOMAIN creditors = {} /\ DOMAIN debitors = {}
    BY <1>1
  <2> QED  BY <1>1, <2>1, EmptyList DEF ListsInv
<1> QED  BY <1>1, <1>2 DEF TypeInv

LEMMA SettlementTypes == SettlementSpec => []TypeInv
<1>1. TypeInv /\ [SettlementNext \/ Call]_settlement => TypeInv'
  BY TypesStep
<1> QED  BY <1>1, TypesInit, PTL DEF SettlementSpec

(***************************************************************************)
(* The inner loop finds every exact pair.  What it has passed by is never  *)
(* part of one: both lists ascend, so the smaller of two different amounts *)
(* is smaller than all that is left of the other list, and the branches at *)
(* the last entries pass by what has been compared with the whole other    *)
(* list.  Taking a pair out moves only entries that are still to come.     *)
(***************************************************************************)
PassedBy ==
  stage = "match" =>
    /\ Ascending(creditors) /\ Ascending(debitors)
    /\ \A i \in DOMAIN creditors, j \in DOMAIN debitors :
         i < credI \/ j < debI => creditors[i].amount # -debitors[j].amount

LEMMA RemovedAscending ==
  ASSUME NEW s, Listed(s), Ascending(s), NEW i \in DOMAIN s, NEW t, t = RemoveAt(s, i)
  PROVE  Ascending(t)
<1>1. PICK n : n = Len(s)
  OBVIOUS
<1>2. n \in Nat /\ DOMAIN s = 1..n /\ i \in 1..n
  BY <1>1, ListTypes
<1>3. DOMAIN t = 1..(n - 1) /\ \A k \in 1..(n - 1) : t[k] = IF k < i THEN s[k] ELSE s[k + 1]
  BY <1>1, RemovedEntry
<1> SUFFICES ASSUME NEW j \in 1..(n - 1), NEW k \in 1..(n - 1), j < k
             PROVE  Magnitude(t[j].amount) <= Magnitude(t[k].amount)
  BY <1>3 DEF Ascending
<1>4. PICK x, y : x = (IF j < i THEN j ELSE j + 1) /\ y = (IF k < i THEN k ELSE k + 1)
  OBVIOUS
<1>5. t[j] = s[x] /\ t[k] = s[y]
  BY <1>3, <1>4
<1>6. x \in 1..n /\ y \in 1..n /\ x < y
  BY ONLY <1>2, <1>4, j \in 1..(n - 1), k \in 1..(n - 1), j < k
<1>7. Magnitude(s[x].amount) <= Magnitude(s[y].amount)
  BY <1>2, <1>6 DEF Ascending
<1> QED  BY <1>5, <1>7

LEMMA MatchExactPassedBy ==
  ASSUME TypeInv, PassedBy, MatchExact
  PROVE  PassedBy'
<1>1. PICK c, d, p, q : c = creditors' /\ d = debitors' /\ p = credI /\ q = debI
  OBVIOUS
<1>2. /\ Listed(creditors) /\ Listed(debitors)
      /\ Ascending(creditors) /\ Ascending(debitors)
      /\ \A i \in DOMAIN creditors, j \in DOMAIN debitors :
           i < p \/ j < q => creditors[i].amount # -debitors[j].amount
  BY <1>1 DEF TypeInv, ListsInv, PassedBy, MatchExact
<1>3. PICK m, n : m = Len(creditors) /\ n = Len(debitors)
  OBVIOUS
<1>4. /\ m \in Nat /\ DOMAIN creditors = 1..m /\ n \in Nat /\ DOMAIN debitors = 1..n
      /\ p \in 1..m /\ q \in 1..n
  BY <1>1, <1>2, <1>3, ListTypes DEF TypeInv, MatchExact, InnerLoop
<1>5. c = RemoveAt(creditors, p) /\ d = RemoveAt(debitors, q)
  BY <1>1 DEF MatchExact
<1>6. /\ Ascending(c) /\ DOMAIN c = 1..(m - 1)
      /\ \A k \in DOMAIN c : c[k] = IF k < p THEN creditors[k] ELSE creditors[k + 1]
  <2>1. p \in DOMAIN creditors
    BY ONLY <1>4
  <2>2. Ascending(c)
    BY ONLY <1>2, <1>5, <2>1, RemovedAscending
  <2>3. /\ DOMAIN c = 1..(Len(creditors) - 1)
        /\ \A k \in DOMAIN c : c[k] = IF k < p THEN creditors[k] ELSE creditors[k + 1]
    BY ONLY <1>2, <1>5, <2>1, RemovedEntry
  <2> QED  BY ONLY <1>3, <2>2, <2>3
<1>7. /\ Ascending(d) /\ DOMAIN d = 1..(n - 1)
      /\ \A k \in DOMAIN d : d[k] = IF k < q THEN debitors[k] ELSE debitors[k + 1]
  <2>1. q \in DOMAIN debitors
    BY ONLY <1>4
  <2>2. Ascending(d)
    BY ONLY <1>2, <1>5, <2>1, RemovedAscending
  <2>3. /\ DOMAIN d = 1..(Len(debitors) - 1)
        /\ \A k \in DOMAIN d : d[k] = IF k < q THEN debitors[k] ELSE debitors[k + 1]
    BY ONLY <1>2, <1>5, <2>1, RemovedEntry
  <2> QED  BY ONLY <1>3, <2>2, <2>3
<1>8. ASSUME NEW i \in DOMAIN c, NEW j \in DOMAIN d, i < p \/ j < q
      PROVE  c[i].amount # -d[j].amount
  <2>1. PICK x, y : x = (IF i < p THEN i ELSE i + 1) /\ y = (IF j < q THEN j ELSE j + 1)
    OBVIOUS
  <2>2. c[i] = creditors[x] /\ d[j] = debitors[y]
    BY <1>6, <1>7, <2>1
  <2>3. x \in 1..m /\ y \in 1..n /\ (x < p \/ y < q)
    BY ONLY <1>4, <1>6, <1>7, <1>8, <2>1, i \in DOMAIN c, j \in DOMAIN d
  <2> QED  BY <1>2, <1>4, <2>2, <2>3
<1>9. credI' = p /\ debI' = q
  BY <1>1 DEF MatchExact
<1> QED  BY <1>1, <1>6, <1>7, <1>8, <1>9 DEF PassedBy

LEMMA StepPassedBy ==
  ASSUME TypeInv, PassedBy, Step
  PROVE  PassedBy'
<1>1. PICK m, n, p, q : /\ m = Len(creditors) /\ n = Len(debitors)
                        /\ p = credI /\ q = debI
  OBVIOUS
<1>2. /\ Ascending(creditors) /\ Ascending(debitors)
      /\ \A i \in DOMAIN creditors, j \in DOMAIN debitors :
           i < p \/ j < q => creditors[i].amount # -debitors[j].amount
  BY <1>1 DEF PassedBy, Step
<1>3. /\ m \in Nat /\ DOMAIN creditors = 1..m /\ n \in Nat /\ DOMAIN debitors = 1..n
      /\ p \in 1..m /\ q \in 1..n
  BY <1>1, ListTypes DEF TypeInv, ListsInv, Step, InnerLoop
<1>4. PICK owed, owes : /\ owed = [i \in 1..m |-> creditors[i].amount]
                        /\ owes = [j \in 1..n |-> -debitors[j].amount]
  OBVIOUS
<1>5. /\ \A i \in 1..m : owed[i] = creditors[i].amount /\ owed[i] \in Int /\ owed[i] > 0
      /\ \A j \in 1..n : owes[j] = -debitors[j].amount /\ owes[j] \in Int /\ owes[j] > 0
  <2>1. \A i \in 1..m : creditors[i].amount \in Int /\ creditors[i].amount > 0
    BY <1>3, ListTypes DEF TypeInv, ListsInv
  <2>2. \A j \in 1..n : debitors[j].amount \in Int /\ debitors[j].amount < 0
    BY <1>3, ListTypes DEF TypeInv, ListsInv
  <2> QED  BY ONLY <1>4, <2>1, <2>2
<1>6. /\ \A i, k \in 1..m : i < k => owed[i] <= owed[k]
      /\ \A j, k \in 1..n : j < k => owes[j] <= owes[k]
  <2>1. \A i \in 1..m : Magnitude(creditors[i].amount) = owed[i]
    BY ONLY <1>5 DEF Magnitude
  <2>2. \A j \in 1..n : debitors[j].amount < 0 /\ Magnitude(debitors[j].amount) = owes[j]
    <3>1. \A j \in 1..n : debitors[j].amount < 0
      BY <1>3 DEF TypeInv, ListsInv
    <3> QED  BY ONLY <1>4, <3>1 DEF Magnitude
  <2> QED  BY ONLY <1>2, <1>3, <2>1, <2>2 DEF Ascending
<1>7. \A i \in 1..m, j \in 1..n : i < p \/ j < q => owed[i] # owes[j]
  BY ONLY <1>2, <1>3, <1>5
<1>8. owed[p] # owes[q]
  BY <1>1, <1>3, <1>5 DEF Step
<1>9. LeaveCreditor <=> q = n \/ (p # m /\ owed[p] < owes[q])
  BY <1>1, <1>3, <1>5 DEF LeaveCreditor
<1>10. \A i \in 1..m, j \in 1..n : i < credI' \/ j < debI' => owed[i] # owes[j]
  <2>1. CASE LeaveCreditor
    <3>1. credI' = p + 1 /\ debI' = q
      BY <1>1, <2>1 DEF Step
    <3>2. ASSUME NEW j \in 1..n PROVE owed[p] # owes[j]
      <4>1. CASE j < q
        BY <1>3, <1>7, <4>1
      <4>2. CASE j = q
        BY <1>8, <4>2
      <4>3. CASE j > q
        <5>1. owed[p] < owes[q] /\ owes[q] <= owes[j]
          BY <1>3, <1>6, <1>9, <2>1, <4>3
        <5> QED  BY <1>3, <1>5, <5>1
      <4> QED  BY <1>3, <4>1, <4>2, <4>3
    <3> QED
      BY ONLY <1>3, <1>7, <3>1, <3>2
  <2>2. CASE ~LeaveCreditor
    <3>1. credI' = p /\ debI' = q + 1
      BY <1>1, <2>2 DEF Step
    <3>2. ASSUME NEW i \in 1..m PROVE owed[i] # owes[q]
      <4>1. CASE i < p
        BY <1>3, <1>7, <4>1
      <4>2. CASE i = p
        BY <1>8, <4>2
      <4>3. CASE i > p
        <5>1. owed[p] > owes[q] /\ owed[p] <= owed[i]
          <6>1. p # m /\ ~(owed[p] < owes[q])
            BY <1>3, <1>9, <2>2, <4>3
          <6>2. owed[p] \in Int /\ owes[q] \in Int
            BY <1>3, <1>5
          <6> QED  BY <1>3, <1>6, <1>8, <4>3, <6>1, <6>2
        <5> QED  BY <1>3, <1>5, <5>1
      <4> QED  BY <1>3, <4>1, <4>2, <4>3
    <3> QED
      BY ONLY <1>3, <1>7, <3>1, <3>2
  <2> QED  BY <2>1, <2>2
<1>11. /\ creditors' = creditors /\ debitors' = debitors
  BY DEF Step
<1> QED
  BY ONLY <1>2, <1>3, <1>5, <1>10, <1>11 DEF PassedBy

\* The inner loop leaves no two accounts behind that could settle with one
\* payment between them, in whatever order the entries are taken out.
THEOREM ExactPairsAreFound == SettlementSpec => []ExactPairsFirst
<1>1. SettlementInit => PassedBy
  BY DEF SettlementInit, PassedBy
<1>2. TypeInv /\ PassedBy /\ [SettlementNext \/ Call]_settlement => PassedBy'
  <2> SUFFICES ASSUME TypeInv, PassedBy, [SettlementNext \/ Call]_settlement
               PROVE  PassedBy'
    OBVIOUS
  <2>1. CASE Call
    BY <2>1 DEF Call, Prepare, PassedBy
  <2>2. CASE SortBoth
    <3>1. Ascending(creditors)' /\ Ascending(debitors)' /\ ListsInv'
      BY <2>2, SortBothLists DEF TypeInv
    <3>2. credI' = 1 /\ debI' = 1
      BY <2>2 DEF SortBoth
    <3>3. \A i \in DOMAIN creditors', j \in DOMAIN debitors' : ~(i < 1) /\ ~(j < 1)
      <4>1. PICK c, d : c = creditors' /\ d = debitors'
        OBVIOUS
      <4>2. Listed(c) /\ Listed(d)
        BY <3>1, <4>1 DEF ListsInv
      <4>3. /\ Len(c) \in Nat /\ DOMAIN c = 1..Len(c)
            /\ Len(d) \in Nat /\ DOMAIN d = 1..Len(d)
        BY ONLY <4>2, ListTypes
      <4> QED  BY <4>1, <4>3
    <3> QED  BY <3>1, <3>2, <3>3 DEF PassedBy
  <2>3. CASE MatchExact
    BY <2>3, MatchExactPassedBy
  <2>4. CASE Step
    BY <2>4, StepPassedBy
  <2>5. CASE PayLargest
    BY <2>5 DEF PayLargest, PassedBy
  <2>6. CASE Return
    BY <2>6 DEF Return, PassedBy
  <2>7. CASE UNCHANGED settlement
    BY <2>7 DEF settlement, PassedBy, Ascending
  <2> QED
    BY <2>1, <2>2, <2>3, <2>4, <2>5, <2>6, <2>7 DEF SettlementNext
<1>3. TypeInv /\ PassedBy => ExactPairsFirst
  <2> SUFFICES ASSUME TypeInv, PassedBy, stage = "match", ~InnerLoop,
                      NEW i \in DOMAIN creditors, NEW j \in DOMAIN debitors
               PROVE  creditors[i].amount # -debitors[j].amount
    BY DEF ExactPairsFirst
  <2>1. /\ Len(creditors) \in Nat /\ i \in 1..Len(creditors)
        /\ Len(debitors) \in Nat /\ j \in 1..Len(debitors)
        /\ credI \in Nat /\ debI \in Nat
    BY ListTypes DEF TypeInv, ListsInv
  <2>2. i < credI \/ j < debI
    BY <2>1 DEF InnerLoop
  <2> QED  BY <2>2 DEF PassedBy
<1> QED  BY <1>1, <1>2, <1>3, SettlementTypes, PTL DEF SettlementSpec

(***************************************************************************)
(* The refinement.  Each payment of the two loops is a Pay of the abstract *)
(* plan, the call begins one, and the other steps leave all of it alone.   *)
(***************************************************************************)
Left == [a \in Accounts |-> AmountIn(creditors, a) + AmountIn(debitors, a)]
Received(p, a) == Added([i \in DOMAIN p |-> Receipt(p[i], a)])
Got == [a \in Accounts |-> Received(plan, a)]

LEMMA ReceivedEmpty == \A a : Received(<<>>, a) = 0
<1> TAKE a
<1>1. [i \in DOMAIN <<>> |-> Receipt(<<>>[i], a)] = <<>>
  OBVIOUS
<1> QED  BY <1>1, AddedEmpty DEF Received

LEMMA ReceivedAppend ==
  ASSUME NEW p \in Seq(Payment), NEW x \in Payment, NEW a
  PROVE  /\ Received(p, a) \in Int /\ Receipt(x, a) \in Int
         /\ Received(Append(p, x), a) = Received(p, a) + Receipt(x, a)
<1>1. PICK value : value = [z \in Payment |-> Receipt(z, a)]
  OBVIOUS
<1>2. value \in [Payment -> Int]
  BY <1>1 DEF Payment, Receipt
<1>3. /\ Added(Mapped(value, p)) \in Int
      /\ Added(Mapped(value, Append(p, x))) = Added(Mapped(value, p)) + value[x]
  BY <1>2, AddedMapped
<1>4. \A s \in Seq(Payment) : Mapped(value, s) = [i \in DOMAIN s |-> Receipt(s[i], a)]
  BY <1>1, LenProperties, ElementOfSeq DEF Mapped
<1>5. Append(p, x) \in Seq(Payment)
  BY AppendProperties
<1>6. value[x] = Receipt(x, a) /\ value[x] \in Int
  BY <1>1, <1>2
<1> QED  BY <1>3, <1>4, <1>5, <1>6 DEF Received

LEMMA SettlesIsPay ==
  ASSUME TypeInv, NEW i, NEW j, NEW amount, Settles(i, j, amount)
  PROVE  \E d, c \in Accounts : Plan!Pay(d, c)
<1>1. PICK d, c : d = debitors[j].id /\ c = creditors[i].id
  OBVIOUS
<1>2. PICK owes, owed : owes = -debitors[j].amount /\ owed = creditors[i].amount
  OBVIOUS
<1>3. /\ d \in Accounts /\ c \in Accounts /\ debitors[j].amount \in Int /\ owed \in Int
      /\ plan' \in Seq(Payment) /\ Len(plan') = Len(plan) + 1
  BY <1>1, <1>2, SettledPlan
<1>4. /\ owes \in Int /\ owes > 0 /\ owed > 0 /\ debitors[j].amount = -owes
      /\ i \in DOMAIN creditors /\ j \in DOMAIN debitors
      /\ d # c
      /\ \A k \in DOMAIN debitors : debitors[k].id # c
      /\ \A k \in DOMAIN creditors : creditors[k].id # d
  BY <1>1, <1>2, <1>3 DEF TypeInv, ListsInv, Settles
<1>5. /\ AmountIn(creditors, c) = owed /\ AmountIn(debitors, d) = -owes
      /\ AmountIn(creditors, d) = 0 /\ AmountIn(debitors, c) = 0
  <2>1. Listed(creditors) /\ Listed(debitors)
    BY DEF TypeInv, ListsInv
  <2>2. AmountIn(creditors, c) = owed
    BY <1>1, <1>2, <1>4, <2>1, AmountOfEntry
  <2>3. AmountIn(debitors, d) = -owes
    BY <1>1, <1>4, <2>1, AmountOfEntry
  <2> QED  BY <1>4, <2>2, <2>3, AmountOfNoEntry
<1>6. amount \in Int /\ amount = IF owes <= owed THEN owes ELSE owed
  BY <1>2 DEF Settles
<1>7. \A a : /\ AmountIn(creditors, a) \in Int /\ AmountIn(debitors, a) \in Int
             /\ AmountIn(creditors, a)' = IF a = c THEN owed - amount ELSE AmountIn(creditors, a)
             /\ AmountIn(debitors, a)' = IF a = d THEN -owes + amount ELSE AmountIn(debitors, a)
  <2>1. \A a : AmountIn(creditors, a) \in Int /\ AmountIn(debitors, a) \in Int
    BY AmountType DEF TypeInv, ListsInv
  <2> QED  BY <1>1, <1>2, <1>4, <2>1 DEF Settles
<1>8. Left[d] = -owes /\ Left[c] = owed
  BY <1>3, <1>4, <1>5 DEF Left
<1>9. Left' = [Left EXCEPT ![d] = @ + amount, ![c] = @ - amount]
  <2>1. \A a \in Accounts : Left'[a] = AmountIn(creditors, a)' + AmountIn(debitors, a)'
    BY DEF Left
  <2>2. DOMAIN Left = Accounts /\ DOMAIN Left' = Accounts
    BY DEF Left
  <2>3. ASSUME NEW a \in Accounts
        PROVE  Left'[a] = IF a = c THEN owed - amount
                          ELSE IF a = d THEN -owes + amount ELSE Left[a]
    <3>1. Left[a] = AmountIn(creditors, a) + AmountIn(debitors, a)
      BY DEF Left
    <3> QED  BY <1>3, <1>4, <1>5, <1>6, <1>7, <2>1, <3>1
  <2> QED  BY <1>4, <1>8, <2>2, <2>3 DEF Left
<1>10. PICK x : x = [creditorId |-> d, debitorId |-> c, amount |-> amount]
  OBVIOUS
<1>11. x \in Payment /\ plan' = Append(plan, x) /\ plan \in Seq(Payment)
  BY <1>1, <1>3, <1>6, <1>10 DEF Payment, Settles, TypeInv
<1>12. \A a : Received(plan, a) \in Int /\ Received(plan', a) = Received(plan, a) + Receipt(x, a)
  BY ONLY <1>11, ReceivedAppend
<1>13. Got' = [Got EXCEPT ![d] = @ - amount, ![c] = @ + amount]
  <2>1. DOMAIN Got = Accounts /\ DOMAIN Got' = Accounts
    BY DEF Got
  <2>2. \A a \in Accounts : Got[a] = Received(plan, a) /\ Got'[a] = Received(plan', a)
    BY DEF Got
  <2>3. \A a : Receipt(x, a) = IF a = c THEN amount ELSE IF a = d THEN -amount ELSE 0
    BY <1>10 DEF Receipt
  <2>4. ASSUME NEW a \in Accounts
        PROVE  Got'[a] = IF a = c THEN Got[a] + amount
                         ELSE IF a = d THEN Got[a] - amount ELSE Got[a]
    BY <1>6, <1>12, <2>2, <2>3
  <2> QED  BY <1>4, <2>1, <2>4 DEF Got
<1>14. Plan!CanPay(d, c)
  BY <1>4, <1>8 DEF Plan!CanPay, Left
<1>15. Plan!Smaller(-Left[d], Left[c]) = amount
  BY <1>4, <1>6, <1>8 DEF Plan!Smaller
<1>16. total' = total
  BY DEF Settles
<1>17. Plan!Pay(d, c)
  BY <1>3, <1>9, <1>13, <1>14, <1>15, <1>16 DEF Plan!Pay, Left, Got, Received, SumOver
<1> QED  BY <1>3, <1>17

LEMMA CallIsBegin ==
  ASSUME TypeInv, Call
  PROVE  Plan!Begin
<1>1. PICK given \in [Accounts -> Int] : Prepare(given)
  BY DEF Call
<1>2. creditors = <<>> /\ debitors = <<>>
  BY <1>1 DEF Prepare, TypeInv
<1>3. \A a \in Accounts : Left[a] = 0
  BY <1>2, EmptyList DEF Left
<1>4. /\ total' = given /\ plan' = <<>>
      /\ \A a \in Accounts : AmountIn(creditors, a)' + AmountIn(debitors, a)' = given[a]
  BY <1>1, PrepareLists DEF Prepare
<1>5. ~\E d, c \in Accounts : Plan!CanPay(d, c)
  BY <1>3 DEF Plan!CanPay, Left
<1>6. Left' = total'
  BY <1>4 DEF Left
<1>7. Got' = [a \in Accounts |-> 0]
  BY <1>4, ReceivedEmpty DEF Got
<1>8. Len(plan') = 0
  BY <1>4
<1> QED
  BY <1>4, <1>5, <1>6, <1>7, <1>8 DEF Plan!Begin, Left, Got, Received, SumOver

LEMMA QuietStep ==
  ASSUME plan' = plan, total' = total,
         \A a : /\ AmountIn(creditors, a)' = AmountIn(creditors, a)
                /\ AmountIn(debitors, a)' = AmountIn(debitors, a)
  PROVE  UNCHANGED Plan!vars
<1>1. Left' = Left
  BY DEF Left
<1>2. Got' = Got
  BY DEF Got
<1> QED  BY <1>1, <1>2 DEF Plan!vars, Left, Got, Received, SumOver

\* computeGroupSettlement makes no payment but from an account that still
\* owes to one that is still owed, and of the smaller of the two amounts,
\* for any number of accounts and all balances.
THEOREM SettlementImplementsPlan == SettlementSpec => ImplementsPlan
<1>1. SettlementInit => Plan!Init
  <2> SUFFICES ASSUME SettlementInit PROVE Plan!Init
    OBVIOUS
  <2>1. total = [a \in Accounts |-> 0] /\ creditors = <<>> /\ debitors = <<>> /\ plan = <<>>
    BY DEF SettlementInit
  <2>2. Left = total
    BY <2>1, EmptyList DEF Left
  <2>3. Got = total
    BY <2>1, ReceivedEmpty DEF Got
  <2>4. Len(plan) = 0
    BY <2>1
  <2> QED  BY <2>1, <2>2, <2>3, <2>4 DEF Plan!Init, Left, Got, Received, SumOver
<1>2. TypeInv /\ [SettlementNext \/ Call]_settlement => [Plan!Next]_(Plan!vars)
  <2> SUFFICES ASSUME TypeInv, [SettlementNext \/ Call]_settlement
               PROVE  Plan!Next \/ UNCHANGED Plan!vars
    OBVIOUS
  <2>1. CASE Call
    BY <2>1, CallIsBegin DEF Plan!Next
  <2>2. CASE SortBoth
    <3>1. plan' = plan /\ total' = total
      BY <2>2 DEF SortBoth
    <3> QED  BY <2>2, <3>1, SortBothLists, QuietStep DEF TypeInv
  <2>3. CASE MatchExact
    BY <2>3, MatchExactLists, SettlesIsPay DEF Plan!Next
  <2>4. CASE Step
    <3>1. /\ plan' = plan /\ total' = total
          /\ creditors' = creditors /\ debitors' = debitors
      BY <2>4 DEF Step
    <3> QED  BY <3>1, QuietStep
  <2>5. CASE PayLargest
    BY <2>5, PayLargestLists, SettlesIsPay DEF Plan!Next
  <2>6. CASE Return
    <3>1. /\ plan' = plan /\ total' = total
          /\ creditors' = creditors /\ debitors' = debitors
      BY <2>6 DEF Return
    <3> QED  BY <3>1, QuietStep
  <2>7. CASE UNCHANGED settlement
    <3>1. /\ plan' = plan /\ total' = total
          /\ creditors' = creditors /\ debitors' = debitors
      BY <2>7 DEF settlement
    <3> QED  BY <3>1, QuietStep
  <2> QED
    BY <2>1, <2>2, <2>3, <2>4, <2>5, <2>6, <2>7 DEF SettlementNext
<1>3. ImplementsPlan <=> Plan!Init /\ [][Plan!Next]_(Plan!vars)
  BY DEF ImplementsPlan, Plan!Spec
<1> QED  BY <1>1, <1>2, <1>3, SettlementTypes, PTL DEF SettlementSpec

(***************************************************************************)
(* What a plan promises, whatever way it is worked out: the balances t it  *)
(* is for, what is left of them, l, and what was received, g.              *)
(***************************************************************************)
Numbers(t, l, g) ==
  t \in [Accounts -> Int] /\ l \in [Accounts -> Int] /\ g \in [Accounts -> Int]
TowardsZero(t, l, g) ==
  \A a \in Accounts :
    /\ l[a] + g[a] = t[a]
    /\ t[a] >= 0 => l[a] >= 0 /\ g[a] >= 0
    /\ t[a] <= 0 => l[a] <= 0 /\ g[a] <= 0
Open(l) == {a \in Accounts : l[a] # 0}

\* The parts of the plan in these terms.
LEMMA PlanTerms ==
  /\ Plan!Init => total = [a \in Accounts |-> 0] /\ Left = total /\ Got = total /\ Len(plan) = 0
  /\ Plan!Begin => /\ total' \in [Accounts -> Int] /\ Left' = total'
                   /\ Got' = [a \in Accounts |-> 0] /\ Len(plan)' = 0
  /\ \A d, c \in Accounts : Plan!Pay(d, c) =>
       /\ Left[d] < 0 /\ Left[c] > 0 /\ total' = total /\ Len(plan)' = Len(plan) + 1
       /\ \E amount : /\ amount = Plan!Smaller(-Left[d], Left[c])
                      /\ Left' = [Left EXCEPT ![d] = @ + amount, ![c] = @ - amount]
                      /\ Got' = [Got EXCEPT ![d] = @ - amount, ![c] = @ + amount]
  /\ UNCHANGED Plan!vars => Left' = Left /\ Got' = Got /\ total' = total /\ Len(plan)' = Len(plan)
<1>1. Plan!Init => total = [a \in Accounts |-> 0] /\ Left = total /\ Got = total /\ Len(plan) = 0
  BY DEF Plan!Init, Left, Got, Received, SumOver
<1>2. Plan!Begin => /\ total' \in [Accounts -> Int] /\ Left' = total'
                    /\ Got' = [a \in Accounts |-> 0] /\ Len(plan)' = 0
  BY DEF Plan!Begin, Left, Got, Received, SumOver
<1>3. ASSUME NEW d \in Accounts, NEW c \in Accounts, Plan!Pay(d, c)
      PROVE  /\ Left[d] < 0 /\ Left[c] > 0 /\ total' = total /\ Len(plan)' = Len(plan) + 1
             /\ \E amount : /\ amount = Plan!Smaller(-Left[d], Left[c])
                            /\ Left' = [Left EXCEPT ![d] = @ + amount, ![c] = @ - amount]
                            /\ Got' = [Got EXCEPT ![d] = @ - amount, ![c] = @ + amount]
  <2>1. Left[d] < 0 /\ Left[c] > 0
    BY <1>3 DEF Plan!Pay, Plan!CanPay, Left
  <2>2. total' = total /\ Len(plan)' = Len(plan) + 1
    BY <1>3 DEF Plan!Pay
  <2>3. PICK amount : amount = Plan!Smaller(-Left[d], Left[c])
    OBVIOUS
  <2>4. Left' = [Left EXCEPT ![d] = @ + amount, ![c] = @ - amount]
    BY <1>3, <2>3 DEF Plan!Pay, Left
  <2>5. Got' = [Got EXCEPT ![d] = @ - amount, ![c] = @ + amount]
    BY <1>3, <2>3 DEF Plan!Pay, Left, Got, Received, SumOver
  <2> QED  BY <2>1, <2>2, <2>3, <2>4, <2>5
<1>4. UNCHANGED Plan!vars => Left' = Left /\ Got' = Got /\ total' = total /\ Len(plan)' = Len(plan)
  BY DEF Plan!vars, Left, Got, Received, SumOver
<1> QED  BY <1>1, <1>2, <1>3, <1>4

PlanInv == Numbers(total, Left, Got) /\ TowardsZero(total, Left, Got)

\* A payment moves two balances towards zero, and one of them reaches it.
LEMMA PaymentOfPlan ==
  ASSUME PlanInv, NEW d \in Accounts, NEW c \in Accounts, Plan!Pay(d, c)
  PROVE  /\ PlanInv' /\ total' = total /\ Len(plan)' = Len(plan) + 1
         /\ Open(Left') \subseteq Open(Left) /\ Open(Left') # Open(Left)
<1>1. /\ Left[d] < 0 /\ Left[c] > 0 /\ total' = total /\ Len(plan)' = Len(plan) + 1
      /\ \E amount : /\ amount = Plan!Smaller(-Left[d], Left[c])
                     /\ Left' = [Left EXCEPT ![d] = @ + amount, ![c] = @ - amount]
                     /\ Got' = [Got EXCEPT ![d] = @ - amount, ![c] = @ + amount]
  BY PlanTerms
<1>2. PICK amount : /\ amount = Plan!Smaller(-Left[d], Left[c])
                    /\ Left' = [Left EXCEPT ![d] = @ + amount, ![c] = @ - amount]
                    /\ Got' = [Got EXCEPT ![d] = @ - amount, ![c] = @ + amount]
  BY <1>1
<1>3. PICK t, l, g, l2, g2 : t = total /\ l = Left /\ g = Got /\ l2 = Left' /\ g2 = Got'
  OBVIOUS
<1>4. /\ Numbers(t, l, g) /\ TowardsZero(t, l, g) /\ l[d] < 0 /\ l[c] > 0
      /\ amount = Plan!Smaller(-l[d], l[c])
      /\ l2 = [l EXCEPT ![d] = @ + amount, ![c] = @ - amount]
      /\ g2 = [g EXCEPT ![d] = @ - amount, ![c] = @ + amount]
  BY <1>1, <1>2, <1>3 DEF PlanInv
<1>5. /\ Numbers(t, l2, g2) /\ TowardsZero(t, l2, g2)
      /\ Open(l2) \subseteq Open(l) /\ Open(l2) # Open(l)
  <2>1. l[d] \in Int /\ l[c] \in Int /\ d # c
    BY <1>4 DEF Numbers
  <2>2. /\ amount \in Int /\ amount > 0 /\ amount <= -l[d] /\ amount <= l[c]
        /\ amount = -l[d] \/ amount = l[c]
    BY <1>4, <2>1 DEF Plan!Smaller
  <2>3. Numbers(t, l2, g2)
    BY <1>4, <2>2 DEF Numbers
  <2>4. /\ l2[d] = l[d] + amount /\ g2[d] = g[d] - amount
        /\ l2[c] = l[c] - amount /\ g2[c] = g[c] + amount
        /\ \A a \in Accounts : a # d /\ a # c => l2[a] = l[a] /\ g2[a] = g[a]
    BY <1>4, <2>1 DEF Numbers
  <2>5. TowardsZero(t, l2, g2)
    <3> SUFFICES ASSUME NEW a \in Accounts
                 PROVE  /\ l2[a] + g2[a] = t[a]
                        /\ t[a] >= 0 => l2[a] >= 0 /\ g2[a] >= 0
                        /\ t[a] <= 0 => l2[a] <= 0 /\ g2[a] <= 0
      BY DEF TowardsZero
    <3>1. /\ l[a] \in Int /\ g[a] \in Int /\ t[a] \in Int /\ l[a] + g[a] = t[a]
          /\ t[a] >= 0 => l[a] >= 0 /\ g[a] >= 0
          /\ t[a] <= 0 => l[a] <= 0 /\ g[a] <= 0
      BY <1>4 DEF Numbers, TowardsZero
    <3>2. CASE a = d
      BY ONLY <2>1, <2>2, <2>4, <3>1, <3>2, <1>4
    <3>3. CASE a = c
      BY ONLY <2>1, <2>2, <2>4, <3>1, <3>3, <1>4
    <3>4. CASE a # d /\ a # c
      BY <2>4, <3>1, <3>4
    <3> QED  BY <3>2, <3>3, <3>4
  <2>6. l2[d] = 0 \/ l2[c] = 0
    BY ONLY <2>1, <2>2, <2>4
  <2>7. l[d] # 0 /\ l[c] # 0
    BY ONLY <1>4, <2>1
  <2>8. \A a \in Accounts : l2[a] # 0 => l[a] # 0
    BY ONLY <2>4, <2>7
  <2>9. Open(l2) \subseteq Open(l)
    BY <2>8 DEF Open
  <2>10. \E a \in Accounts : a \in Open(l) /\ a \notin Open(l2)
    BY <2>6, <2>7 DEF Open
  <2>11. Open(l2) # Open(l)
    BY <2>10
  <2> QED  BY <2>3, <2>5, <2>9, <2>11
<1>6. PlanInv'
  BY <1>1, <1>3, <1>5 DEF PlanInv
<1> QED  BY <1>1, <1>3, <1>5, <1>6

LEMMA PlanHolds == ImplementsPlan => []PlanInv
<1>1. Plan!Init => PlanInv
  BY PlanTerms DEF PlanInv, Numbers, TowardsZero
<1>2. PlanInv /\ [Plan!Next]_(Plan!vars) => PlanInv'
  <2> SUFFICES ASSUME PlanInv, [Plan!Next]_(Plan!vars) PROVE PlanInv'
    OBVIOUS
  <2>1. CASE Plan!Begin
    <3>1. PICK t, l, g : t = total' /\ l = Left' /\ g = Got'
      OBVIOUS
    <3>2. t \in [Accounts -> Int] /\ l = t /\ g = [a \in Accounts |-> 0]
      BY <2>1, <3>1, PlanTerms
    <3>3. Numbers(t, l, g)
      BY ONLY <3>2 DEF Numbers
    <3>4. TowardsZero(t, l, g)
      BY ONLY <3>2 DEF TowardsZero
    <3> QED  BY <3>1, <3>3, <3>4 DEF PlanInv
  <2>2. ASSUME NEW d \in Accounts, NEW c \in Accounts, Plan!Pay(d, c) PROVE PlanInv'
    BY <2>2, PaymentOfPlan
  <2>3. CASE UNCHANGED Plan!vars
    BY <2>3, PlanTerms DEF PlanInv
  <2> QED  BY <2>1, <2>2, <2>3 DEF Plan!Next
<1> QED  BY <1>1, <1>2, PTL DEF ImplementsPlan, Plan!Spec

\* Whatever implements the plan asks nobody to pay, and gives nobody, more
\* than the balance says.
THEOREM PlanNeverOverpays == ImplementsPlan => []Plan!NeverOverpays
<1>1. PlanInv => Plan!NeverOverpays
  BY DEF PlanInv, TowardsZero, Plan!NeverOverpays, Left, Got, Received, SumOver
<1> QED  BY <1>1, PlanHolds, PTL

\* Every payment settles an account for good, so there are never more than
\* there are balances to settle.
THEOREM PlanHasFewPayments == ImplementsPlan => []Plan!FewPayments
<1> DEFINE Few == Cardinality(Open(Left)) + Len(plan) <= Cardinality(Open(total))
<1>0. \A l : IsFiniteSet(Open(l)) /\ Cardinality(Open(l)) \in Nat
  <2> TAKE l
  <2>1. Open(l) \subseteq Accounts /\ IsFiniteSet(Accounts)
    BY AccountIds DEF Open
  <2> QED  BY <2>1, FS_Subset, FS_CardinalityType
<1>1. Plan!Init => Few /\ Len(plan) \in Nat
  BY <1>0, PlanTerms
<1>2. PlanInv /\ Few /\ Len(plan) \in Nat /\ [Plan!Next]_(Plan!vars) => (Few /\ Len(plan) \in Nat)'
  <2> SUFFICES ASSUME PlanInv, Few, Len(plan) \in Nat, [Plan!Next]_(Plan!vars)
               PROVE  (Few /\ Len(plan) \in Nat)'
    OBVIOUS
  <2>1. CASE Plan!Begin
    BY <1>0, <2>1, PlanTerms
  <2>2. ASSUME NEW d \in Accounts, NEW c \in Accounts, Plan!Pay(d, c)
        PROVE  (Few /\ Len(plan) \in Nat)'
    <3>1. /\ Open(Left') \subseteq Open(Left) /\ Open(Left') # Open(Left)
          /\ Len(plan)' = Len(plan) + 1 /\ total' = total
      BY <2>2, PaymentOfPlan
    <3>2. Cardinality(Open(Left')) < Cardinality(Open(Left))
      <4>1. PICK A, B : A = Open(Left') /\ B = Open(Left)
        OBVIOUS
      <4>2. IsFiniteSet(B) /\ A \subseteq B /\ A # B
        BY <1>0, <3>1, <4>1
      <4>3. Cardinality(A) \in Nat /\ Cardinality(B) \in Nat
        BY <1>0, <4>1
      <4>4. A \in SUBSET B
        BY ONLY <4>2
      <4>5. /\ Cardinality(A) <= Cardinality(B)
            /\ Cardinality(B) = Cardinality(A) => B = A
        BY ONLY <4>2, <4>4, FS_Subset
      <4>6. Cardinality(A) < Cardinality(B)
        BY ONLY <4>2, <4>3, <4>5
      <4> QED  BY <4>1, <4>6
    <3> QED  BY <1>0, <3>1, <3>2
  <2>3. CASE UNCHANGED Plan!vars
    BY <2>3, PlanTerms
  <2> QED  BY <2>1, <2>2, <2>3 DEF Plan!Next
<1>3. Few => Plan!FewPayments
  <2> HIDE DEF Few
  <2>1. \A S : Plan!Cardinality(S) = Cardinality(S)
    BY DEF Plan!Cardinality, Cardinality
  <2>2. Plan!FewPayments <=> Plan!Cardinality(Plan!Unsettled(Left)) + Len(plan)
                               <= Plan!Cardinality(Plan!Unsettled(total))
    BY DEF Plan!FewPayments, Left
  <2>3. Plan!Unsettled(Left) = Open(Left) /\ Plan!Unsettled(total) = Open(total)
    BY DEF Plan!Unsettled, Open
  <2> QED  BY <2>1, <2>2, <2>3 DEF Few
<1> QED  BY <1>1, <1>2, <1>3, PlanHolds, PTL DEF ImplementsPlan, Plan!Spec

\* Nobody is asked to pay, or given, more than the balance says, at any
\* iteration of the loops.
THEOREM NobodyOverpays == SettlementSpec => []Plan!NeverOverpays
BY SettlementImplementsPlan, PlanNeverOverpays, PTL

\* The plan never has more payments than there are balances to settle.
THEOREM FewPaymentsSuffice == SettlementSpec => []Plan!FewPayments
BY SettlementImplementsPlan, PlanHasFewPayments, PTL

(***************************************************************************)
(* Sums over the elements of a finite set, in whatever order they are      *)
(* taken.                                                                  *)
(***************************************************************************)
\* g gives the sum of f over every part of S.
SetSums(g, f, S) ==
  /\ g \in [SUBSET S -> Int]
  /\ g[{}] = 0
  /\ \A T \in SUBSET S : \A x \in T : g[T] = f[x] + g[T \ {x}]

\* Induction over the parts of a finite set: what is true of the empty one
\* and stays true when an element is put in is true of all.
LEMMA PartsInduction ==
  ASSUME NEW S, IsFiniteSet(S), NEW G \in SUBSET SUBSET S, {} \in G,
         \A A \in G : \A x \in S \ A : A \cup {x} \in G
  PROVE  G = SUBSET S
<1> DEFINE N == {n \in Nat : \A A \in SUBSET S : Cardinality(A) = n => A \in G}
<1>0. \A A \in SUBSET S : IsFiniteSet(A) /\ Cardinality(A) \in Nat
  BY FS_Subset, FS_CardinalityType
<1>1. 0 \in N
  BY <1>0, FS_EmptySet
<1>2. ASSUME NEW n \in Nat, n \in N PROVE n + 1 \in N
  <2> SUFFICES ASSUME NEW A \in SUBSET S, Cardinality(A) = n + 1 PROVE A \in G
    OBVIOUS
  <2>1. A # {}
    BY <1>0, FS_EmptySet
  <2>2. PICK x \in A : TRUE
    BY <2>1
  <2>3. A \ {x} \in SUBSET S /\ Cardinality(A \ {x}) = n
    <3>1. IsFiniteSet(A) /\ Cardinality(A) \in Nat
      BY <1>0
    <3>2. Cardinality(A \ {x}) = Cardinality(A) - 1
      BY <2>2, <3>1, FS_RemoveElement
    <3> QED  BY <3>2
  <2>4. A \ {x} \in G
    BY <1>2, <2>3
  <2>5. A = (A \ {x}) \cup {x} /\ x \in S \ (A \ {x})
    BY <2>2
  <2> QED  BY <2>4, <2>5
<1>3. N = Nat
  <2> HIDE DEF N
  <2>1. N \in SUBSET Nat
    BY DEF N
  <2> QED  BY <1>1, <1>2, <2>1, Induction
<1> QED  BY <1>0, <1>3

LEMMA SetSumsExist ==
  ASSUME NEW S, IsFiniteSet(S), NEW f, \A x \in S : f[x] \in Int
  PROVE  \E g : SetSums(g, f, S)
<1> DEFINE G == {A \in SUBSET S : \E g : SetSums(g, f, A)}
<1>1. {} \in G
  <2>1. SetSums([T \in SUBSET {} |-> 0], f, {})
    BY DEF SetSums
  <2> QED  BY <2>1
<1>2. ASSUME NEW A \in G, NEW x \in S \ A PROVE A \cup {x} \in G
  <2>1. PICK g : SetSums(g, f, A)
    OBVIOUS
  <2> DEFINE h == [T \in SUBSET (A \cup {x}) |->
                     IF x \in T THEN f[x] + g[T \ {x}] ELSE g[T]]
  <2>2. \A T \in SUBSET (A \cup {x}) : T \ {x} \in SUBSET A /\ (x \notin T => T \in SUBSET A)
    OBVIOUS
  <2>3. h \in [SUBSET (A \cup {x}) -> Int] /\ h[{}] = 0
    BY <2>1, <2>2 DEF SetSums
  <2>4. ASSUME NEW T \in SUBSET (A \cup {x}), NEW y \in T
        PROVE  h[T] = f[y] + h[T \ {y}]
    <3>1. T \ {y} \in SUBSET (A \cup {x})
      OBVIOUS
    <3>2. CASE y = x
      BY <3>1, <3>2
    <3>3. CASE y # x /\ x \notin T
      <4>1. g[T] = f[y] + g[T \ {y}]
        BY <2>1, <2>2, <3>3 DEF SetSums
      <4> QED  BY <3>1, <3>3, <4>1
    <3>4. CASE y # x /\ x \in T
      <4>1. y \in T \ {x} /\ T \ {x} \in SUBSET A
        BY <2>2, <3>4
      <4>2. g[T \ {x}] = f[y] + g[(T \ {x}) \ {y}]
        BY <2>1, <4>1 DEF SetSums
      <4>3. h[T] = f[x] + g[T \ {x}] /\ h[T \ {y}] = f[x] + g[(T \ {y}) \ {x}]
        BY <3>1, <3>4
      <4>4. (T \ {y}) \ {x} = (T \ {x}) \ {y} /\ (T \ {x}) \ {y} \in SUBSET A
        BY <4>1
      <4>5. f[x] \in Int /\ f[y] \in Int /\ g[(T \ {x}) \ {y}] \in Int
        BY <2>1, <4>1, <4>4 DEF SetSums
      <4>6. h[T] = f[x] + (f[y] + g[(T \ {x}) \ {y}])
        BY <4>2, <4>3
      <4>7. h[T \ {y}] = f[x] + g[(T \ {x}) \ {y}]
        BY <4>3, <4>4
      <4> HIDE DEF h
      <4> QED  BY ONLY <4>5, <4>6, <4>7
    <3> QED  BY <3>2, <3>3, <3>4
  <2>5. SetSums(h, f, A \cup {x})
    BY <2>3, <2>4 DEF SetSums
  <2> QED  BY <2>5
<1>3. G = SUBSET S
  <2> HIDE DEF G
  <2>1. G \in SUBSET SUBSET S
    BY DEF G
  <2> QED  BY <1>1, <1>2, <2>1, PartsInduction
<1> QED  BY <1>3

LEMMA SumIs ==
  ASSUME NEW S, IsFiniteSet(S), NEW f, DOMAIN f = S, \A x \in S : f[x] \in Int,
         NEW g, SetSums(g, f, S)
  PROVE  SumFunction(f) = g[S]
<1> DEFINE Body(h) == [s \in SUBSET S |->
                         IF s = {} THEN 0
                         ELSE f[CHOOSE x \in s : TRUE] + h[s \ {CHOOSE x \in s : TRUE}]]
           iter == CHOOSE h : h = Body(h)
<1>1. g = Body(g)
  <2>1. g \in [SUBSET S -> Int]
    BY DEF SetSums
  <2>2. ASSUME NEW s \in SUBSET S PROVE g[s] = Body(g)[s]
    <3>1. g[s] = IF s = {} THEN 0
                 ELSE f[CHOOSE x \in s : TRUE] + g[s \ {CHOOSE x \in s : TRUE}]
      BY DEF SetSums
    <3> QED  BY <3>1
  <2> QED  BY <2>1, <2>2
<1>2. iter = Body(iter)
  <2>1. \E h : h = Body(h)
    BY <1>1
  <2> HIDE DEF Body
  <2> QED  BY <2>1
<1>3. SumFunction(f) = iter[S]
  BY DEF SumFunction, SumFunctionOnSet, FoldFunctionOnSet, MapThenFoldSet
<1> HIDE DEF iter
<1>4. iter[{}] = g[{}]
  BY <1>2 DEF SetSums
<1>5. ASSUME NEW A \in SUBSET S, A # {} PROVE \E y \in A : iter[A] = f[y] + iter[A \ {y}]
  <2>1. PICK y : y = CHOOSE x \in A : TRUE
    OBVIOUS
  <2>2. y \in A
    BY <1>5, <2>1
  <2>3. iter[A] = f[y] + iter[A \ {y}]
    BY <1>2, <1>5, <2>1
  <2> QED  BY <2>2, <2>3
<1> DEFINE N == {n \in Nat : \A A \in SUBSET S : Cardinality(A) = n => iter[A] = g[A]}
<1>6. N = Nat
  <2>1. \A A \in SUBSET S : /\ IsFiniteSet(A) /\ Cardinality(A) \in Nat
                            /\ Cardinality(A) = 0 => A = {}
                            /\ \A y \in A : Cardinality(A \ {y}) = Cardinality(A) - 1
    BY FS_Subset, FS_CardinalityType, FS_EmptySet, FS_RemoveElement
  <2>2. 0 \in N
    BY <1>4, <2>1
  <2>3. ASSUME NEW n \in Nat, n \in N PROVE n + 1 \in N
    <3> SUFFICES ASSUME NEW A \in SUBSET S, Cardinality(A) = n + 1 PROVE iter[A] = g[A]
      OBVIOUS
    <3>1. A # {}
      BY <2>1, FS_EmptySet
    <3>2. PICK y \in A : iter[A] = f[y] + iter[A \ {y}]
      BY <1>5, <3>1
    <3>3. A \ {y} \in SUBSET S /\ Cardinality(A \ {y}) = n
      BY <2>1
    <3>4. iter[A \ {y}] = g[A \ {y}]
      BY <2>3, <3>3
    <3> QED  BY <3>2, <3>4 DEF SetSums
  <2>4. N \in SUBSET Nat
    OBVIOUS
  <2> HIDE DEF N
  <2> QED  BY <2>2, <2>3, <2>4, Induction
<1>7. S \in SUBSET S /\ Cardinality(S) \in Nat
  BY FS_CardinalityType
<1> QED  BY <1>3, <1>6, <1>7

LEMMA SumIsInt ==
  ASSUME NEW S, IsFiniteSet(S), NEW f \in [S -> Int]
  PROVE  SumFunction(f) \in Int
<1>1. PICK g : SetSums(g, f, S)
  BY SetSumsExist
<1>2. SumFunction(f) = g[S]
  BY <1>1, SumIs
<1> QED  BY <1>1, <1>2 DEF SetSums

LEMMA SumPlus ==
  ASSUME NEW S, IsFiniteSet(S),
         NEW f \in [S -> Int], NEW g \in [S -> Int], NEW h \in [S -> Int],
         \A x \in S : h[x] = f[x] + g[x]
  PROVE  SumFunction(h) = SumFunction(f) + SumFunction(g)
<1>1. PICK a, b : SetSums(a, f, S) /\ SetSums(b, g, S)
  BY SetSumsExist
<1> DEFINE c == [T \in SUBSET S |-> a[T] + b[T]]
<1>2. SetSums(c, h, S)
  <2>1. c \in [SUBSET S -> Int] /\ c[{}] = 0
    BY <1>1 DEF SetSums
  <2>2. ASSUME NEW T \in SUBSET S, NEW x \in T PROVE c[T] = h[x] + c[T \ {x}]
    <3>1. a[T] = f[x] + a[T \ {x}] /\ b[T] = g[x] + b[T \ {x}]
      BY <1>1 DEF SetSums
    <3>2. x \in S /\ T \ {x} \in SUBSET S
      OBVIOUS
    <3>3. f[x] \in Int /\ g[x] \in Int /\ a[T \ {x}] \in Int /\ b[T \ {x}] \in Int
      BY <1>1, <3>2 DEF SetSums
    <3>4. c[T] = a[T] + b[T] /\ c[T \ {x}] = a[T \ {x}] + b[T \ {x}] /\ h[x] = f[x] + g[x]
      BY <3>2
    <3> QED  BY ONLY <3>1, <3>3, <3>4
  <2> QED  BY <2>1, <2>2 DEF SetSums
<1>3. SumFunction(f) = a[S] /\ SumFunction(g) = b[S]
  BY <1>1, SumIs
<1>4. SumFunction(h) = c[S]
  BY <1>2, SumIs
<1> QED  BY <1>3, <1>4

LEMMA SumAtMost ==
  ASSUME NEW S, IsFiniteSet(S), NEW f \in [S -> Int], NEW g \in [S -> Int],
         \A x \in S : f[x] <= g[x]
  PROVE  SumFunction(f) <= SumFunction(g)
<1>1. PICK a, b : SetSums(a, f, S) /\ SetSums(b, g, S)
  BY SetSumsExist
<1> DEFINE G == {A \in SUBSET S : a[A] <= b[A]}
<1>2. {} \in G
  BY <1>1 DEF SetSums
<1>3. ASSUME NEW A \in G, NEW x \in S \ A PROVE A \cup {x} \in G
  <2>1. (A \cup {x}) \ {x} = A
    OBVIOUS
  <2>2. a[A \cup {x}] = f[x] + a[A] /\ b[A \cup {x}] = g[x] + b[A]
    BY <1>1, <2>1 DEF SetSums
  <2>3. a[A] \in Int /\ b[A] \in Int
    BY <1>1 DEF SetSums
  <2> QED  BY <2>2, <2>3
<1>4. S \in G
  <2> HIDE DEF G
  <2>1. G \in SUBSET SUBSET S
    BY DEF G
  <2>2. G = SUBSET S
    BY <1>2, <1>3, <2>1, PartsInduction
  <2> QED  BY <2>2
<1>5. SumFunction(f) = a[S] /\ SumFunction(g) = b[S]
  BY <1>1, SumIs
<1> QED  BY <1>4, <1>5

LEMMA SumOfZeros ==
  ASSUME NEW S, IsFiniteSet(S)
  PROVE  SumFunction([x \in S |-> 0]) = 0
<1> DEFINE f == [x \in S |-> 0]
<1>1. f \in [S -> Int] /\ \A x \in S : f[x] = f[x] + f[x]
  OBVIOUS
<1> HIDE DEF f
<1>2. SumFunction(f) \in Int /\ SumFunction(f) = SumFunction(f) + SumFunction(f)
  BY <1>1, SumIsInt, SumPlus
<1>3. SumFunction(f) = 0
  <2>1. PICK n : n = SumFunction(f)
    OBVIOUS
  <2>2. n \in Int /\ n = n + n
    BY <1>2, <2>1
  <2>3. n = 0
    BY ONLY <2>2
  <2> QED  BY <2>1, <2>3
<1> QED  BY <1>3 DEF f

LEMMA SumOfOne ==
  ASSUME NEW S, IsFiniteSet(S), NEW d \in S, NEW n \in Int
  PROVE  SumFunction([x \in S |-> IF x = d THEN n ELSE 0]) = n
<1> DEFINE f == [x \in S |-> IF x = d THEN n ELSE 0]
<1>1. PICK a : SetSums(a, f, S)
  BY SetSumsExist
<1> DEFINE G == {A \in SUBSET S : d \notin A => a[A] = 0}
<1>2. {} \in G
  BY <1>1 DEF SetSums
<1>3. ASSUME NEW A \in G, NEW x \in S \ A PROVE A \cup {x} \in G
  <2> SUFFICES ASSUME d \notin A \cup {x} PROVE a[A \cup {x}] = 0
    OBVIOUS
  <2>1. (A \cup {x}) \ {x} = A /\ f[x] = 0
    OBVIOUS
  <2>2. A \cup {x} \in SUBSET S /\ x \in A \cup {x}
    OBVIOUS
  <2>3. a[A \cup {x}] = f[x] + a[(A \cup {x}) \ {x}]
    BY <1>1, <2>2 DEF SetSums
  <2> QED  BY <2>1, <2>3
<1>4. S \ {d} \in G
  <2> HIDE DEF G
  <2>1. G \in SUBSET SUBSET S
    BY DEF G
  <2>2. G = SUBSET S
    BY <1>2, <1>3, <2>1, PartsInduction
  <2> QED  BY <2>2
<1>5. a[S] = f[d] + a[S \ {d}]
  BY <1>1 DEF SetSums
<1>6. SumFunction(f) = a[S]
  BY <1>1, SumIs
<1> QED  BY <1>4, <1>5, <1>6

(***************************************************************************)
(* The payments that are shown.  Kept is a fold over the places of the     *)
(* payments, from the last one down.                                       *)
(***************************************************************************)
KeptParts(g, p, n) ==
  /\ g \in [SUBSET (1..n) -> Seq(Payment)]
  /\ g[{}] = <<>>
  /\ \A T \in SUBSET (1..n) : \A m \in T :
       (\A y \in T : m >= y) => g[T] = Keep(g[T \ {m}], p[m])

LEMMA KeepType ==
  ASSUME NEW s \in Seq(Payment), NEW x \in Payment
  PROVE  Keep(s, x) \in Seq(Payment)
<1>1. Append(s, x) \in Seq(Payment)
  BY AppendProperties
<1> QED  BY <1>1 DEF Keep

LEMMA KeptPartsExist ==
  ASSUME NEW p \in Seq(Payment)
  PROVE  \E g : KeptParts(g, p, Len(p))
<1> DEFINE N == {n \in Nat : n <= Len(p) => \E g : KeptParts(g, p, n)}
<1>0. Len(p) \in Nat /\ \A i \in 1..Len(p) : p[i] \in Payment
  BY LenProperties, ElementOfSeq
<1>1. 0 \in N
  <2>1. 1..0 = {} /\ <<>> \in Seq(Payment)
    OBVIOUS
  <2>2. KeptParts([T \in SUBSET {} |-> <<>>], p, 0)
    BY <2>1 DEF KeptParts
  <2> QED  BY <2>2
<1>2. ASSUME NEW n \in Nat, n \in N PROVE n + 1 \in N
  <2> SUFFICES ASSUME n + 1 <= Len(p) PROVE \E g : KeptParts(g, p, n + 1)
    OBVIOUS
  <2>1. PICK g : KeptParts(g, p, n)
    BY <1>0, <1>2
  <2>2. PICK x : x = p[n + 1] /\ x \in Payment
    BY <1>0
  <2> DEFINE h == [T \in SUBSET (1..(n + 1)) |->
                     IF n + 1 \in T THEN Keep(g[T \ {n + 1}], x) ELSE g[T]]
  <2>3. \A T \in SUBSET (1..(n + 1)) : /\ T \ {n + 1} \in SUBSET (1..n)
                                       /\ n + 1 \notin T => T \in SUBSET (1..n)
    OBVIOUS
  <2>4. h \in [SUBSET (1..(n + 1)) -> Seq(Payment)] /\ h[{}] = <<>>
    <3>1. \A T \in SUBSET (1..n) : g[T] \in Seq(Payment)
      BY <2>1 DEF KeptParts
    <3>2. \A T \in SUBSET (1..(n + 1)) : Keep(g[T \ {n + 1}], x) \in Seq(Payment)
      BY <2>2, <2>3, <3>1, KeepType
    <3>3. h[{}] = g[{}]
      OBVIOUS
    <3> QED  BY <2>1, <2>3, <3>1, <3>2, <3>3 DEF KeptParts
  <2>5. ASSUME NEW T \in SUBSET (1..(n + 1)), NEW m \in T, \A y \in T : m >= y
        PROVE  h[T] = Keep(h[T \ {m}], p[m])
    <3>1. T \ {m} \in SUBSET (1..(n + 1))
      OBVIOUS
    <3>2. CASE m = n + 1
      BY <2>2, <3>1, <3>2
    <3>3. CASE m # n + 1
      <4>1. n + 1 \notin T
        BY <2>5, <3>3
      <4>2. g[T] = Keep(g[T \ {m}], p[m])
        BY <2>1, <2>3, <2>5, <4>1 DEF KeptParts
      <4> QED  BY <3>1, <4>1, <4>2
    <3> QED  BY <3>2, <3>3
  <2>6. KeptParts(h, p, n + 1)
    <3> HIDE DEF h
    <3> QED  BY <2>4, <2>5 DEF KeptParts
  <2> QED  BY <2>6
<1>3. N = Nat
  <2> HIDE DEF N
  <2>1. N \in SUBSET Nat
    BY DEF N
  <2> QED  BY <1>1, <1>2, <2>1, Induction
<1> QED  BY <1>0, <1>3

LEMMA GreatestPlace ==
  ASSUME NEW n \in Nat, NEW T \in SUBSET (1..n), T # {}
  PROVE  Max(T) \in T /\ \A y \in T : Max(T) >= y
<1> DEFINE N == {k \in Nat : \E y \in T : y = n - k}
<1>1. N \in SUBSET Nat /\ N # {}
  <2>1. PICK y \in T : TRUE
    OBVIOUS
  <2>2. n - y \in Nat /\ y = n - (n - y)
    BY <2>1
  <2> QED  BY <2>1, <2>2
<1>2. PICK k \in N : \A l \in N : k <= l
  <2> HIDE DEF N
  <2> QED  BY <1>1, LeastNatural
<1>3. n - k \in T
  OBVIOUS
<1>4. ASSUME NEW y \in T PROVE n - k >= y
  <2>1. n - y \in N
    <3>1. y \in Nat /\ n - y \in Nat /\ n - (n - y) = y
      BY <1>4
    <3> QED  BY <3>1
  <2>2. k <= n - y
    BY <1>2, <2>1
  <2>3. k \in Nat /\ y \in Nat
    OBVIOUS
  <2> QED  BY ONLY <2>2, <2>3, n \in Nat
<1> QED  BY <1>3, <1>4 DEF Max

LEMMA KeptIs ==
  ASSUME NEW p \in Seq(Payment), NEW n, n = Len(p), NEW g, KeptParts(g, p, n)
  PROVE  Kept(p) = g[1..n]
<1> DEFINE Body(h) == [s \in SUBSET (1..n) |->
                         IF s = {} THEN <<>> ELSE Keep(h[s \ {Max(s)}], p[Max(s)])]
           iter == CHOOSE h : h = Body(h)
<1>0. n \in Nat /\ DOMAIN p = 1..n
  BY LenProperties
<1>1. \A s \in SUBSET (1..n) : s # {} => Max(s) \in s /\ \A y \in s : Max(s) >= y
  BY <1>0, GreatestPlace
<1>2. g = Body(g)
  <2>1. g \in [SUBSET (1..n) -> Seq(Payment)] /\ g[{}] = <<>>
    BY DEF KeptParts
  <2>2. ASSUME NEW s \in SUBSET (1..n), s # {}
        PROVE  g[s] = Keep(g[s \ {Max(s)}], p[Max(s)])
    BY <1>1, <2>2 DEF KeptParts
  <2>3. \A s \in SUBSET (1..n) : g[s] = Body(g)[s]
    BY <2>1, <2>2
  <2> QED  BY <2>1, <2>3
<1>3. iter = Body(iter)
  <2>1. \E h : h = Body(h)
    BY <1>2
  <2> HIDE DEF Body
  <2> QED  BY <2>1
<1>4. Kept(p) = iter[1..n]
  BY <1>0 DEF Kept, FoldLeft, MapThenFoldSet
<1>10. /\ iter[{}] = g[{}]
       /\ \A A \in SUBSET (1..n) : A # {} => iter[A] = Keep(iter[A \ {Max(A)}], p[Max(A)])
  <2>1. \A A \in SUBSET (1..n) :
          iter[A] = IF A = {} THEN <<>> ELSE Keep(iter[A \ {Max(A)}], p[Max(A)])
    <3> HIDE DEF iter
    <3> QED  BY <1>3
  <2> HIDE DEF iter
  <2>2. {} \in SUBSET (1..n) /\ g[{}] = <<>>
    BY DEF KeptParts
  <2> QED  BY <2>1, <2>2
<1> HIDE DEF iter, Body
<1>11. PICK P : P = SUBSET (1..n)
  OBVIOUS
<1> DEFINE N == {k \in Nat : \A A \in P : Cardinality(A) = k => iter[A] = g[A]}
<1>5. \A A \in SUBSET (1..n) : /\ IsFiniteSet(A) /\ Cardinality(A) \in Nat
                               /\ Cardinality(A) = 0 => A = {}
                               /\ \A y \in A : Cardinality(A \ {y}) = Cardinality(A) - 1
  <2>1. IsFiniteSet(1..n)
    BY <1>0, FS_Interval
  <2> QED  BY <2>1, FS_Subset, FS_CardinalityType, FS_EmptySet, FS_RemoveElement
<1>6. 0 \in N
  BY <1>5, <1>10, <1>11
<1>7. ASSUME NEW k \in Nat, k \in N PROVE k + 1 \in N
  <2> SUFFICES ASSUME NEW A \in P, Cardinality(A) = k + 1 PROVE iter[A] = g[A]
    OBVIOUS
  <2>0. A \in SUBSET (1..n)
    BY <1>11
  <2>1. A # {}
    BY <1>5, FS_EmptySet
  <2>2. PICK m \in A : m = Max(A)
    BY <1>1, <2>0, <2>1
  <2>3. iter[A] = Keep(iter[A \ {m}], p[m])
    BY <1>10, <2>0, <2>1, <2>2
  <2>4. g[A] = Keep(g[A \ {m}], p[m])
    BY <1>1, <2>0, <2>1, <2>2 DEF KeptParts
  <2>5. A \ {m} \in P /\ Cardinality(A \ {m}) = k
    BY <1>5, <1>11, <2>0
  <2>6. iter[A \ {m}] = g[A \ {m}]
    BY <1>7, <2>5
  <2> QED  BY <2>3, <2>4, <2>6
<1>8. N = Nat
  <2>1. N \in SUBSET Nat
    OBVIOUS
  <2> HIDE DEF N
  <2> QED  BY <1>6, <1>7, <2>1, Induction
<1>9. 1..n \in P /\ Cardinality(1..n) \in Nat
  BY <1>5, <1>11
<1> QED  BY <1>4, <1>8, <1>9

LEMMA KeptEmpty == Kept(<<>>) = <<>>
<1>1. <<>> \in Seq(Payment) /\ Len(<<>>) = 0 /\ 1..0 = {}
  OBVIOUS
<1>2. PICK g : KeptParts(g, <<>>, 0)
  BY <1>1, KeptPartsExist
<1>3. Kept(<<>>) = g[{}]
  BY <1>1, <1>2, KeptIs
<1> QED  BY <1>2, <1>3 DEF KeptParts

LEMMA KeptAppend ==
  ASSUME NEW p \in Seq(Payment), NEW x \in Payment
  PROVE  Kept(p) \in Seq(Payment) /\ Kept(Append(p, x)) = Keep(Kept(p), x)
<1>1. PICK q, n, m : q = Append(p, x) /\ n = Len(p) /\ m = Len(q)
  OBVIOUS
<1>2. /\ q \in Seq(Payment) /\ n \in Nat /\ m = n + 1 /\ q[n + 1] = x
      /\ \A i \in 1..n : q[i] = p[i]
  BY <1>1, AppendProperties, LenProperties
<1>3. PICK g : KeptParts(g, q, m)
  BY <1>1, <1>2, KeptPartsExist
<1>4. Kept(q) = g[1..m]
  BY <1>1, <1>2, <1>3, KeptIs
<1> DEFINE h == [T \in SUBSET (1..n) |-> g[T]]
<1>5. KeptParts(h, p, n)
  <2>1. SUBSET (1..n) \subseteq SUBSET (1..m)
    BY <1>2
  <2>2. h \in [SUBSET (1..n) -> Seq(Payment)] /\ h[{}] = <<>>
    BY <1>3, <2>1 DEF KeptParts
  <2>3. ASSUME NEW T \in SUBSET (1..n), NEW k \in T, \A y \in T : k >= y
        PROVE  h[T] = Keep(h[T \ {k}], p[k])
    <3>1. T \in SUBSET (1..m) /\ T \ {k} \in SUBSET (1..n) /\ k \in 1..n
      BY <2>1
    <3>2. g[T] = Keep(g[T \ {k}], q[k])
      BY <1>3, <2>3, <3>1 DEF KeptParts
    <3> QED  BY <1>2, <3>1, <3>2
  <2> HIDE DEF h
  <2> QED  BY <2>2, <2>3 DEF KeptParts
<1>6. Kept(p) = g[1..n]
  <2>1. Kept(p) = h[1..n]
    <3> HIDE DEF h
    <3> QED  BY <1>1, <1>5, KeptIs
  <2> QED  BY <2>1
<1>7. g[1..m] = Keep(g[1..n], x)
  <2>1. m \in 1..m /\ (\A y \in 1..m : m >= y) /\ (1..m) \ {m} = 1..n
    BY <1>2
  <2>2. 1..m \in SUBSET (1..m)
    OBVIOUS
  <2>3. g[1..m] = Keep(g[(1..m) \ {m}], q[m])
    BY <1>3, <2>1, <2>2 DEF KeptParts
  <2> QED  BY <1>2, <2>1, <2>3
<1>8. g[1..n] \in Seq(Payment)
  <2>1. 1..n \in SUBSET (1..m)
    BY <1>2
  <2> QED  BY <1>3, <2>1 DEF KeptParts
<1> QED  BY <1>1, <1>4, <1>6, <1>7, <1>8

(***************************************************************************)
(* Rounding.  What is left when the loops end is all of one sign, so its   *)
(* magnitude is that of the sum of the balances; every payment that is not *)
(* shown adds less than a cent to it.                                      *)
(***************************************************************************)
EdgeOf(p) == [from |-> p.creditorId, to |-> p.debitorId, amount |-> p.amount]
Sent(e, a) == IF e.from = a THEN e.amount ELSE IF e.to = a THEN -e.amount ELSE 0
GivenBack(p, a) == Added([i \in DOMAIN p |-> Sent(EdgeOf(p[i]), a)])

\* What the payments that are not shown would bring each account.
Withheld == [a \in Accounts |-> Received(plan, a) + GivenBack(Kept(plan), a)]

RoundingInv ==
  /\ SumFunction(Got) = 0
  /\ Abs(Withheld) <= Cent * (Len(plan) - Len(Kept(plan)))
  /\ stage = "done" => edges = Shown(plan) /\ ~Outstanding

LEMMA MagnitudeType == \A x \in Int : Magnitude(x) \in Int
BY DEF Magnitude

LEMMA GivenBackEmpty == \A a : GivenBack(<<>>, a) = 0
<1> TAKE a
<1>1. [i \in DOMAIN <<>> |-> Sent(EdgeOf(<<>>[i]), a)] = <<>>
  OBVIOUS
<1> QED  BY <1>1, AddedEmpty DEF GivenBack

LEMMA GivenBackAppend ==
  ASSUME NEW p \in Seq(Payment), NEW x \in Payment, NEW a
  PROVE  /\ GivenBack(p, a) \in Int /\ Sent(EdgeOf(x), a) \in Int
         /\ GivenBack(Append(p, x), a) = GivenBack(p, a) + Sent(EdgeOf(x), a)
<1>1. PICK value : value = [z \in Payment |-> Sent(EdgeOf(z), a)]
  OBVIOUS
<1>2. value \in [Payment -> Int]
  BY <1>1 DEF Payment, Sent, EdgeOf
<1>3. /\ Added(Mapped(value, p)) \in Int
      /\ Added(Mapped(value, Append(p, x))) = Added(Mapped(value, p)) + value[x]
  BY <1>2, AddedMapped
<1>4. \A s \in Seq(Payment) : Mapped(value, s) = [i \in DOMAIN s |-> Sent(EdgeOf(s[i]), a)]
  BY <1>1, LenProperties, ElementOfSeq DEF Mapped
<1>5. Append(p, x) \in Seq(Payment)
  BY AppendProperties
<1>6. value[x] = Sent(EdgeOf(x), a) /\ value[x] \in Int
  BY <1>1, <1>2
<1> QED  BY <1>3, <1>4, <1>5, <1>6 DEF GivenBack

\* The sum of two entries.
LEMMA SumOfTwo ==
  ASSUME NEW S, IsFiniteSet(S), NEW d \in S, NEW c \in S, d # c, NEW n \in Int, NEW m \in Int,
         NEW f \in [S -> Int], \A x \in S : f[x] = IF x = d THEN n ELSE IF x = c THEN m ELSE 0
  PROVE  SumFunction(f) = n + m
<1>1. PICK g, h : /\ g = [x \in S |-> IF x = d THEN n ELSE 0]
                  /\ h = [x \in S |-> IF x = c THEN m ELSE 0]
  OBVIOUS
<1>2. g \in [S -> Int] /\ h \in [S -> Int] /\ \A x \in S : f[x] = g[x] + h[x]
  BY <1>1
<1>3. SumFunction(g) = n /\ SumFunction(h) = m
  BY <1>1, SumOfOne
<1>4. SumFunction(f) = SumFunction(g) + SumFunction(h)
  BY ONLY <1>2, IsFiniteSet(S), f \in [S -> Int], SumPlus
<1> QED  BY <1>3, <1>4

LEMMA FiniteAccounts == IsFiniteSet(Accounts)
BY AccountIds

LEMMA AbsIs ==
  ASSUME NEW f \in [Accounts -> Int]
  PROVE  Abs(f) = SumFunction([a \in Accounts |-> Magnitude(f[a])]) /\ Abs(f) \in Int
<1>1. Abs(f) = SumFunction([a \in Accounts |-> Magnitude(f[a])])
  BY DEF Abs, SumAll
<1>2. [a \in Accounts |-> Magnitude(f[a])] \in [Accounts -> Int]
  BY MagnitudeType
<1> QED  BY <1>1, <1>2, SumIsInt, AccountIds

\* The sum of the magnitudes of two functions is at least that of their sum.
LEMMA AbsOfSum ==
  ASSUME NEW f \in [Accounts -> Int], NEW g \in [Accounts -> Int],
         NEW h \in [Accounts -> Int], \A a \in Accounts : h[a] = f[a] + g[a]
  PROVE  Abs(h) <= Abs(f) + Abs(g)
<1>1. PICK u, v, w, s : /\ u = [a \in Accounts |-> Magnitude(f[a])]
                        /\ v = [a \in Accounts |-> Magnitude(g[a])]
                        /\ w = [a \in Accounts |-> Magnitude(h[a])]
                        /\ s = [a \in Accounts |-> u[a] + v[a]]
  OBVIOUS
<1>2. /\ u \in [Accounts -> Int] /\ v \in [Accounts -> Int] /\ w \in [Accounts -> Int]
      /\ s \in [Accounts -> Int]
  BY <1>1, MagnitudeType
<1>3. \A a \in Accounts : w[a] <= s[a]
  BY <1>1 DEF Magnitude
<1>4. SumFunction(w) <= SumFunction(s)
  BY ONLY <1>2, <1>3, SumAtMost, FiniteAccounts
<1>5. \A a \in Accounts : s[a] = u[a] + v[a]
  BY <1>1
<1>6. SumFunction(s) = SumFunction(u) + SumFunction(v)
  BY ONLY <1>2, <1>5, SumPlus, FiniteAccounts
<1> QED  BY <1>1, <1>4, <1>6, AbsIs

\* The sum of balances that all have one sign has the sum of their
\* magnitudes.
LEMMA AbsOfOneSign ==
  ASSUME NEW f \in [Accounts -> Int],
         (\A a \in Accounts : f[a] >= 0) \/ (\A a \in Accounts : f[a] <= 0)
  PROVE  Abs(f) = Magnitude(SumFunction(f))
<1>1. PICK u, zero : u = [a \in Accounts |-> Magnitude(f[a])] /\ zero = [a \in Accounts |-> 0]
  OBVIOUS
<1>2. u \in [Accounts -> Int] /\ zero \in [Accounts -> Int]
  BY <1>1, MagnitudeType
<1>3. Abs(f) = SumFunction(u) /\ SumFunction(zero) = 0
  BY <1>1, AbsIs, SumOfZeros, AccountIds
<1>4. SumFunction(f) \in Int /\ SumFunction(u) \in Int
  BY <1>2, SumIsInt, AccountIds
<1>5. CASE \A a \in Accounts : f[a] >= 0
  <2>1. u = f
    BY <1>1, <1>5 DEF Magnitude
  <2>2. SumFunction(zero) <= SumFunction(f)
    BY <1>1, <1>2, <1>5, SumAtMost, AccountIds
  <2> QED  BY <1>3, <1>4, <2>1, <2>2 DEF Magnitude
<1>6. CASE \A a \in Accounts : f[a] <= 0
  <2>1. \A a \in Accounts : zero[a] = u[a] + f[a]
    BY <1>1, <1>6 DEF Magnitude
  <2>2. SumFunction(zero) = SumFunction(u) + SumFunction(f)
    BY ONLY <1>2, <2>1, SumPlus, FiniteAccounts, f \in [Accounts -> Int]
  <2>3. SumFunction(f) <= SumFunction(zero)
    BY <1>1, <1>2, <1>6, SumAtMost, AccountIds
  <2> QED  BY <1>3, <1>4, <2>2, <2>3 DEF Magnitude
<1> QED  BY <1>5, <1>6

LEMMA KeptType ==
  ASSUME NEW p \in Seq(Payment)
  PROVE  Kept(p) \in Seq(Payment) /\ Len(Kept(p)) \in Nat
<1>1. PICK g : KeptParts(g, p, Len(p))
  BY KeptPartsExist
<1>2. Kept(p) = g[1..Len(p)]
  BY <1>1, KeptIs
<1>3. Kept(p) \in Seq(Payment)
  BY <1>1, <1>2 DEF KeptParts
<1> QED  BY <1>3, LenProperties

LEMMA WithheldType ==
  ASSUME NEW p \in Seq(Payment), NEW a
  PROVE  /\ Received(p, a) \in Int /\ GivenBack(p, a) \in Int
         /\ GivenBack(Kept(p), a) \in Int /\ Len(Kept(p)) \in Nat
<1>1. PICK value, back : /\ value = [z \in Payment |-> Receipt(z, a)]
                         /\ back = [z \in Payment |-> Sent(EdgeOf(z), a)]
  OBVIOUS
<1>2. value \in [Payment -> Int] /\ back \in [Payment -> Int]
  BY <1>1 DEF Payment, Receipt, Sent, EdgeOf
<1>3. \A s \in Seq(Payment) : /\ Mapped(value, s) = [i \in DOMAIN s |-> Receipt(s[i], a)]
                               /\ Mapped(back, s) = [i \in DOMAIN s |-> Sent(EdgeOf(s[i]), a)]
  BY <1>1, LenProperties, ElementOfSeq DEF Mapped
<1>4. \A s \in Seq(Payment) : Added(Mapped(value, s)) \in Int /\ Added(Mapped(back, s)) \in Int
  BY <1>2, MappedType
<1>5. Kept(p) \in Seq(Payment) /\ Len(Kept(p)) \in Nat
  BY KeptType
<1> QED  BY <1>3, <1>4, <1>5 DEF Received, GivenBack

LEMMA PaymentRounds ==
  ASSUME TypeInv, SumFunction(Got) = 0,
         Abs(Withheld) <= Cent * (Len(plan) - Len(Kept(plan))),
         NEW i, NEW j, NEW amount, Settles(i, j, amount)
  PROVE  /\ SumFunction(Got)' = 0
         /\ Abs(Withheld)' <= Cent * (Len(plan) - Len(Kept(plan)))'
<1>1. PICK d, c, x : /\ d = debitors[j].id /\ c = creditors[i].id
                     /\ x = [creditorId |-> d, debitorId |-> c, amount |-> amount]
  OBVIOUS
<1>2. /\ d \in Accounts /\ c \in Accounts /\ x \in Payment
      /\ plan \in Seq(Payment) /\ plan' \in Seq(Payment)
      /\ Len(plan) \in Nat /\ Len(plan') = Len(plan) + 1
  BY <1>1, SettledPlan, LenProperties DEF TypeInv
<1>3. d # c /\ amount \in Int /\ amount > 0 /\ plan' = Append(plan, x)
  BY <1>1 DEF TypeInv, ListsInv, Settles
<1> DEFINE delta == [a \in Accounts |-> Receipt(x, a)]
<1>4. /\ \A a : Receipt(x, a) = IF a = c THEN amount ELSE IF a = d THEN -amount ELSE 0
      /\ \A a : Sent(EdgeOf(x), a) = IF a = d THEN amount ELSE IF a = c THEN -amount ELSE 0
  BY <1>1 DEF Receipt, Sent, EdgeOf
<1>5. delta \in [Accounts -> Int] /\ SumFunction(delta) = 0
  <2>1. delta \in [Accounts -> Int]
    BY <1>3, <1>4
  <2>2. \A a \in Accounts : delta[a] = IF a = c THEN amount ELSE IF a = d THEN -amount ELSE 0
    BY <1>4
  <2> HIDE DEF delta
  <2>3. SumFunction(delta) = amount + (-amount)
    BY ONLY <1>2, <1>3, -amount \in Int, <2>1, <2>2, FiniteAccounts, SumOfTwo
  <2> QED  BY <1>3, <2>1, <2>3
<1>6. /\ Got \in [Accounts -> Int] /\ Got' \in [Accounts -> Int]
      /\ \A a \in Accounts : Got'[a] = Got[a] + delta[a]
  BY <1>2, <1>3, WithheldType, ReceivedAppend DEF Got
<1>7. SumFunction(Got') = SumFunction(Got) + SumFunction(delta)
  <2> HIDE DEF delta
  <2> QED  BY ONLY <1>5, <1>6, FiniteAccounts, SumPlus
<1>8. SumFunction(Got)' = 0
  BY <1>5, <1>7
<1>9. /\ Withheld \in [Accounts -> Int] /\ Withheld' \in [Accounts -> Int]
  <2>1. \A a \in Accounts :
          /\ Received(plan, a) + GivenBack(Kept(plan), a) \in Int
          /\ Received(plan', a) + GivenBack(Kept(plan'), a) \in Int
    BY <1>2, WithheldType
  <2> QED  BY <2>1 DEF Withheld
<1>10. PICK k : k = Len(plan) - Len(Kept(plan)) /\ k \in Int
  BY <1>2, WithheldType
<1>11. \A a \in Accounts :
         /\ Withheld[a] = Received(plan, a) + GivenBack(Kept(plan), a)
         /\ Withheld'[a] = Received(plan', a) + GivenBack(Kept(plan'), a)
         /\ Received(plan, a) \in Int /\ GivenBack(Kept(plan), a) \in Int
         /\ Received(plan', a) = Received(plan, a) + Receipt(x, a)
  BY <1>2, <1>3, WithheldType, ReceivedAppend DEF Withheld
<1>12. Kept(plan) \in Seq(Payment) /\ Kept(plan') = Keep(Kept(plan), x)
  BY <1>2, <1>3, KeptAppend
<1>13. CASE 2 * x.amount >= Cent
  <2>1. Kept(plan') = Append(Kept(plan), x)
    BY <1>12, <1>13 DEF Keep
  <2>2. Len(Kept(plan')) = Len(Kept(plan)) + 1
    BY <1>2, <1>12, <2>1, AppendProperties
  <2>3. \A a \in Accounts : GivenBack(Kept(plan'), a) = GivenBack(Kept(plan), a) + Sent(EdgeOf(x), a)
    BY <1>2, <1>12, <2>1, GivenBackAppend
  <2>4. \A a \in Accounts : Withheld'[a] = Withheld[a]
    BY <1>3, <1>4, <1>11, <2>3
  <2>5. Withheld' = Withheld
    BY <1>9, <2>4
  <2>6. Len(plan') - Len(Kept(plan')) = Len(plan) - Len(Kept(plan))
    BY <1>2, <2>2, WithheldType
  <2>7. Abs(Withheld') = Abs(Withheld)
    BY <2>5
  <2> QED  BY <1>8, <2>6, <2>7
<1>14. CASE ~(2 * x.amount >= Cent)
  <2>1. Kept(plan') = Kept(plan)
    BY <1>12, <1>14 DEF Keep
  <2>2. \A a \in Accounts : Withheld'[a] = Withheld[a] + delta[a]
    BY <1>3, <1>4, <1>11, <2>1
  <2>3. Abs(Withheld') <= Abs(Withheld) + Abs(delta)
    <3> HIDE DEF delta
    <3> QED  BY ONLY <1>5, <1>9, <2>2, AbsOfSum
  <2>4. Abs(delta) = amount + amount
    <3>1. PICK m : m = [a \in Accounts |-> Magnitude(delta[a])]
      OBVIOUS
    <3>2. Abs(delta) = SumFunction(m)
      <4> HIDE DEF delta
      <4> QED  BY <1>5, <3>1, AbsIs
    <3>3. /\ m \in [Accounts -> Int]
          /\ \A a \in Accounts : m[a] = IF a = c THEN amount ELSE IF a = d THEN amount ELSE 0
      BY <1>3, <1>4, <3>1 DEF Magnitude
    <3>4. SumFunction(m) = amount + amount
      <4>1. d \in Accounts /\ c \in Accounts /\ d # c /\ amount \in Int
        BY <1>2, <1>3
      <4> QED  BY ONLY <3>3, <4>1, FiniteAccounts, SumOfTwo
    <3> QED  BY <3>2, <3>4
  <2>5. amount + amount <= Cent /\ Cent \in Int
    BY <1>1, <1>3, <1>14, CentPositive
  <2>6. Len(plan') - Len(Kept(plan')) = k + 1
    BY <1>2, <1>10, <2>1, WithheldType
  <2>7. Cent * (k + 1) = Cent * k + Cent
    BY <1>10, <2>5
  <2>8. Abs(Withheld) \in Int /\ Abs(Withheld') \in Int /\ Abs(Withheld) <= Cent * k
    BY <1>9, <1>10, AbsIs
  <2>9. Cent * k \in Int
    BY <1>10, <2>5
  <2>10. Abs(Withheld') <= Cent * k + Cent
    BY ONLY <2>3, <2>4, <2>5, <2>8, <2>9, <1>3
  <2> QED  BY <1>8, <2>6, <2>7, <2>10
<1> QED  BY <1>13, <1>14

LEMMA RoundingInit ==
  ASSUME SettlementInit
  PROVE  RoundingInv
<1>1. plan = <<>> /\ stage = "idle"
  BY DEF SettlementInit
<1> DEFINE zero == [a \in Accounts |-> 0]
<1>2. Got = zero /\ Withheld = zero
  BY <1>1, KeptEmpty, ReceivedEmpty, GivenBackEmpty DEF Got, Withheld
<1>3. zero \in [Accounts -> Int] /\ SumFunction(zero) = 0
  BY FiniteAccounts, SumOfZeros
<1>4. Abs(zero) = 0
  <2>1. \A a \in Accounts : zero[a] >= 0
    OBVIOUS
  <2> HIDE DEF zero
  <2> QED  BY <1>3, <2>1, AbsOfOneSign DEF Magnitude
<1>5. Len(plan) - Len(Kept(plan)) = 0 /\ Cent * 0 = 0
  BY <1>1, KeptEmpty, CentPositive
<1> QED  BY <1>1, <1>2, <1>3, <1>4, <1>5 DEF RoundingInv

LEMMA QuietRounding ==
  ASSUME RoundingInv, plan' = plan, stage' = "done" => stage = "done" /\ UNCHANGED settlement
  PROVE  RoundingInv'
<1>1. Got' = Got /\ Withheld' = Withheld /\ Kept(plan)' = Kept(plan)
  BY DEF Got, Withheld
<1>2. SumFunction(Got)' = SumFunction(Got) /\ Abs(Withheld)' = Abs(Withheld)
  BY <1>1
<1>3. stage' = "done" => edges' = Shown(plan)' /\ ~Outstanding'
  BY DEF RoundingInv, settlement, Outstanding
<1> QED  BY <1>1, <1>2, <1>3 DEF RoundingInv

LEMMA RoundingStep ==
  ASSUME TypeInv, RoundingInv, [SettlementNext \/ Call]_settlement
  PROVE  RoundingInv'
<1>1. CASE Call
  <2>1. plan = <<>> /\ plan' = <<>> /\ stage' = "sort"
    BY <1>1 DEF Call, Prepare, TypeInv
  <2> QED  BY <2>1, QuietRounding
<1>2. CASE SortBoth
  BY <1>2, QuietRounding DEF SortBoth
<1>3. CASE MatchExact
  <2>1. stage' # "done"
    BY <1>3 DEF MatchExact
  <2> QED  BY <1>3, <2>1, MatchExactLists, PaymentRounds DEF RoundingInv
<1>4. CASE Step
  BY <1>4, QuietRounding DEF Step
<1>5. CASE PayLargest
  <2>1. stage' # "done"
    BY <1>5 DEF PayLargest
  <2> QED  BY <1>5, <2>1, PayLargestLists, PaymentRounds DEF RoundingInv
<1>6. CASE Return
  <2>1. plan' = plan /\ edges' = Shown(plan) /\ ~Outstanding /\ creditors' = creditors /\ debitors' = debitors
    BY <1>6 DEF Return
  <2>2. Got' = Got /\ Withheld' = Withheld
    BY <2>1 DEF Got, Withheld
  <2>3. SumFunction(Got)' = SumFunction(Got) /\ Abs(Withheld)' = Abs(Withheld)
    BY <2>2
  <2>4. edges' = Shown(plan)' /\ ~Outstanding'
    BY <2>1 DEF Outstanding
  <2> QED  BY <2>1, <2>3, <2>4 DEF RoundingInv
<1>7. CASE UNCHANGED settlement
  BY <1>7, QuietRounding DEF settlement
<1> QED
  BY <1>1, <1>2, <1>3, <1>4, <1>5, <1>6, <1>7 DEF SettlementNext

\* What a list of payments gives back is what its edges send.
LEMMA ShownSends ==
  ASSUME NEW p \in Seq(Payment), NEW a
  PROVE  /\ Len(Shown(p)) = Len(Kept(p))
         /\ SumOver(Shown(p), LAMBDA e : IF e.from = a THEN e.amount
                                         ELSE IF e.to = a THEN -e.amount ELSE 0)
              = GivenBack(Kept(p), a)
<1>1. PICK s : s = Kept(p)
  OBVIOUS
<1>2. Len(s) \in Nat
  BY <1>1, WithheldType
<1>3. Shown(p) = [i \in DOMAIN s |-> EdgeOf(s[i])]
  BY <1>1 DEF Shown, EdgeOf
<1>4. DOMAIN s = 1..Len(s)
  <2>1. s \in Seq(Payment)
    BY <1>1, KeptType
  <2> QED  BY <2>1, LenProperties
<1>5. Len(Shown(p)) = Len(s)
  BY <1>2, <1>3, <1>4
<1>6. [i \in DOMAIN Shown(p) |-> Sent(Shown(p)[i], a)] = [i \in DOMAIN s |-> Sent(EdgeOf(s[i]), a)]
  BY <1>3
<1> QED  BY <1>1, <1>5, <1>6 DEF SumOver, GivenBack, Sent

LEMMA RoundedPlan ==
  ASSUME TypeInv, RoundingInv, Plan!NeverOverpays
  PROVE  SettlesUpToRounding
<1> SUFFICES ASSUME stage = "done" PROVE SettlesUpToRounding
  BY DEF SettlesUpToRounding
<1>1. PICK after : after = [a \in Accounts |-> total[a] + GivenBack(Kept(plan), a)]
  OBVIOUS
<1>2. edges = Shown(plan) /\ ~Outstanding /\ plan \in Seq(Payment)
  BY DEF RoundingInv, TypeInv
<1>3. /\ Len(edges) = Len(Kept(plan))
      /\ \A a \in Accounts : SumOver(edges, LAMBDA e : IF e.from = a THEN e.amount
                                                       ELSE IF e.to = a THEN -e.amount ELSE 0)
                               = GivenBack(Kept(plan), a)
  BY <1>2, ShownSends
<1>4. Len(edges) \in Nat /\ Len(plan) \in Nat
  BY <1>2, ShownSends, KeptType, LenProperties
<1>5. \A a \in Accounts : Left[a] + Got[a] = total[a]
  BY DEF Plan!NeverOverpays, Left, Got, Received, SumOver
<1>6. /\ Left \in [Accounts -> Int] /\ Got \in [Accounts -> Int]
      /\ Withheld \in [Accounts -> Int] /\ total \in [Accounts -> Int]
  <2>1. \A a : AmountIn(creditors, a) \in Int /\ AmountIn(debitors, a) \in Int
    BY AmountType DEF TypeInv, ListsInv
  <2> QED  BY <1>2, <2>1, WithheldType DEF Left, Got, Withheld, TypeInv
<1>7. \A a \in Accounts : after[a] = Left[a] + Withheld[a]
  <2>1. \A a \in Accounts : Withheld[a] = Got[a] + GivenBack(Kept(plan), a) /\ GivenBack(Kept(plan), a) \in Int
    BY <1>2, WithheldType DEF Withheld, Got
  <2>2. \A a \in Accounts : Left[a] \in Int /\ Got[a] \in Int
    BY <1>6
  <2> QED  BY <1>1, <1>5, <2>1, <2>2
<1>8. after \in [Accounts -> Int]
  <2>1. \A a \in Accounts : after[a] \in Int
    BY <1>6, <1>7
  <2> QED  BY <1>1, <2>1
<1>9. Abs(after) <= Abs(Left) + Abs(Withheld)
  BY ONLY <1>6, <1>7, <1>8, AbsOfSum
<1>10. SumFunction(total) = SumFunction(Left)
  <2>1. SumFunction(total) = SumFunction(Left) + SumFunction(Got)
    BY ONLY <1>5, <1>6, FiniteAccounts, SumPlus
  <2>2. SumFunction(Left) \in Int
    BY <1>6, FiniteAccounts, SumIsInt
  <2> QED  BY <2>1, <2>2 DEF RoundingInv
<1>11. (\A a \in Accounts : Left[a] >= 0) \/ (\A a \in Accounts : Left[a] <= 0)
  <2>1. CASE creditors = <<>>
    <3>1. \A a \in Accounts : Left[a] = AmountIn(debitors, a)
      BY <2>1, EmptyList, AmountType DEF Left, TypeInv, ListsInv
    <3>2. ASSUME NEW a \in Accounts PROVE AmountIn(debitors, a) <= 0
      <4>1. CASE \E k \in DOMAIN debitors : debitors[k].id = a
        <5>1. PICK k \in DOMAIN debitors : debitors[k].id = a
          BY <4>1
        <5>2. AmountIn(debitors, a) = debitors[k].amount /\ debitors[k].amount < 0
          BY <5>1, AmountOfEntry DEF TypeInv, ListsInv
        <5>3. AmountIn(debitors, a) \in Int
          BY AmountType DEF TypeInv, ListsInv
        <5> QED  BY ONLY <5>2, <5>3
      <4>2. CASE ~\E k \in DOMAIN debitors : debitors[k].id = a
        BY <4>2, AmountOfNoEntry
      <4> QED  BY <4>1, <4>2
    <3> QED  BY <3>1, <3>2
  <2>2. CASE debitors = <<>>
    <3>1. \A a \in Accounts : Left[a] = AmountIn(creditors, a)
      BY <2>2, EmptyList, AmountType DEF Left, TypeInv, ListsInv
    <3>2. ASSUME NEW a \in Accounts PROVE AmountIn(creditors, a) >= 0
      <4>1. CASE \E k \in DOMAIN creditors : creditors[k].id = a
        <5>1. PICK k \in DOMAIN creditors : creditors[k].id = a
          BY <4>1
        <5>2. AmountIn(creditors, a) = creditors[k].amount /\ creditors[k].amount > 0
          BY <5>1, AmountOfEntry DEF TypeInv, ListsInv
        <5>3. AmountIn(creditors, a) \in Int
          BY AmountType DEF TypeInv, ListsInv
        <5> QED  BY ONLY <5>2, <5>3
      <4>2. CASE ~\E k \in DOMAIN creditors : creditors[k].id = a
        BY <4>2, AmountOfNoEntry
      <4> QED  BY <4>1, <4>2
    <3> QED  BY <3>1, <3>2
  <2> QED  BY <1>2, <2>1, <2>2 DEF Outstanding
<1>12. Abs(Left) = Magnitude(SumFunction(total))
  BY <1>6, <1>10, <1>11, AbsOfOneSign
<1>13. Abs(Withheld) <= Cent * (Len(plan) - Len(edges))
  BY <1>3 DEF RoundingInv
<1>14. Abs(after) \in Int /\ Abs(Left) \in Int /\ Abs(Withheld) \in Int
  BY <1>6, <1>8, AbsIs
<1>15. PICK bound : bound = Cent * (Len(plan) - Len(edges))
  OBVIOUS
<1>16. bound \in Int
  <2>0. Cent \in Int
    BY CentPositive
  <2>1. Cent \in Int /\ Len(plan) - Len(edges) \in Int
    BY ONLY <1>4, <2>0
  <2> QED  BY ONLY <1>15, <2>1
<1>17. Abs(after) <= Abs(Left) + bound
  BY ONLY <1>9, <1>13, <1>14, <1>15, <1>16
<1>18. Abs(after) <= Magnitude(SumFunction(total)) + Cent * (Len(plan) - Len(edges))
  BY <1>12, <1>15, <1>17
<1>19. after = [a \in Accounts |-> total[a] + SumOver(edges, LAMBDA e : IF e.from = a THEN e.amount
                                                       ELSE IF e.to = a THEN -e.amount ELSE 0)]
  BY <1>1, <1>3
<1> QED  BY <1>18, <1>19 DEF SettlesUpToRounding

\* When everybody has paid as shown, what remains is the money the balances
\* do not account for, and less than a cent for each payment that was too
\* small to be shown.
THEOREM SettledUpToRounding == SettlementSpec => []SettlesUpToRounding
BY RoundingInit, RoundingStep, RoundedPlan, SettlementTypes, NobodyOverpays, PTL
   DEF SettlementSpec

Parts == UNION {[S -> Int] : S \in SUBSET Accounts}
BillSet ==
  [exists : {TRUE}, deleted : BOOLEAN, type : {d.type : d \in Drafts},
   mode : {d.mode : d \in Drafts}, value : Int, rate : Int,
   creditors : Parts, debitors : Parts, items : Seq(Positions)]

BooksInv ==
  /\ bills \in [Bills -> BillSet \cup {NoBill}]
  /\ \A e \in Events : clearing[e] \in Parts
  /\ ~HasCycle(clearing)

LEMMA InputsAre ==
  /\ \A d \in Drafts : /\ d.value \in Int /\ d.rate \in Int
                       /\ d.creditors \in Parts /\ d.debitors \in Parts
  /\ \A p \in Positions : p.price \in Int /\ p.communist \in Int /\ p.usages \in Parts
  /\ \A c \in Clearings : \A e \in Events : c[e] \in Parts
<1>1. \A s : IsShares(s) => s \in Parts
  BY DEF IsShares, Parts
<1> QED  BY <1>1, InputTypes

LEMMA PartsAre ==
  ASSUME NEW s \in Parts
  PROVE  /\ DOMAIN s \subseteq Accounts /\ IsFiniteSet(DOMAIN s)
         /\ \A a \in DOMAIN s : s[a] \in Int
         /\ s \in [DOMAIN s -> Int]
         /\ \A a : ShareOf(s, a) \in Int
         /\ TotalOf(s) \in Int
<1>1. PICK S \in SUBSET Accounts : s \in [S -> Int]
  BY DEF Parts
<1>2. IsFiniteSet(S)
  BY FiniteAccounts, FS_Subset
<1>3. TotalOf(s) \in Int
  BY <1>1, <1>2, SumIsInt DEF TotalOf
<1> QED  BY <1>1, <1>2, <1>3 DEF ShareOf

LEMMA NoSharesIsParts == NoShares \in Parts /\ \A a : ShareOf(NoShares, a) = 0
<1>1. NoShares \in [{} -> Int] /\ {} \in SUBSET Accounts
  BY DEF NoShares
<1> QED  BY <1>1 DEF Parts, NoShares, ShareOf

LEMMA PartType ==
  ASSUME NEW x \in Int, NEW share \in Int, NEW whole \in Int
  PROVE  Part(x, share, whole) \in Int /\ (share = 0 => Part(x, share, whole) = 0)
<1>1. PICK y : y = x * share /\ y \in Int
  OBVIOUS
<1>2. share = 0 => y = 0
  BY <1>1
<1>3. whole > 0 => y \div whole \in Int /\ (y = 0 => y \div whole = 0)
  BY <1>1
<1> QED  BY <1>1, <1>2, <1>3 DEF Part

LEMMA ItemsOverlaid ==
  ASSUME NEW items \in Seq(Positions), NEW i \in 1..MaxItems, NEW p \in Positions,
         Fits(items, [j \in {i} |-> p])
  PROVE  Overlaid(items, [j \in {i} |-> p]) \in Seq(Positions)
<1>1. PICK n : n = Len(items)
  OBVIOUS
<1>2. n \in Nat /\ DOMAIN items = 1..n /\ \A k \in 1..n : items[k] \in Positions
  BY <1>1, LenProperties, ElementOfSeq
<1>3. i \in 1..n \/ i = n + 1
  BY <1>1, <1>2 DEF Fits
<1>4. PICK m \in Nat : 1..m = (1..n) \cup {i}
  <2>1. i = n + 1 => 1..(n + 1) = (1..n) \cup {i}
    BY <1>2
  <2>2. i \in 1..n => 1..n = (1..n) \cup {i}
    OBVIOUS
  <2> QED  BY <1>2, <1>3, <2>1, <2>2
<1>5. Overlaid(items, [j \in {i} |-> p]) \in [1..m -> Positions]
  BY <1>2, <1>4 DEF Overlaid
<1> QED  BY <1>5, SeqDef

LEMMA NothingOverlaid ==
  ASSUME NEW items \in Seq(Positions)
  PROVE  Overlaid(items, NoShares) = items
<1>1. items = [i \in DOMAIN items |-> items[i]]
  BY LenProperties
<1> QED  BY <1>1 DEF Overlaid, NoShares

LEMMA BillType ==
  ASSUME NEW draft \in Drafts, NEW items \in Seq(Positions)
  PROVE  Bill(draft, items) \in BillSet
BY InputsAre DEF Bill, BillSet

LEMMA EditBooks ==
  ASSUME BooksInv, Edit
  PROVE  BooksInv'
<1>1. PICK t \in Bills :
        \/ \E draft \in Drafts : SaveBill(t, draft, NoShares)
        \/ \E i \in 1..MaxItems, p \in Positions :
             \/ \E draft \in Drafts : SaveBill(t, draft, [j \in {i} |-> p])
             \/ UpdatePositions(t, [j \in {i} |-> p])
        \/ DeleteBill(t)
  BY DEF Edit
<1>2. bills \in [Bills -> BillSet \cup {NoBill}] /\ (bills[t].exists => bills[t] \in BillSet)
  BY DEF BooksInv, NoBill
<1>3. clearing' = clearing
  BY <1>1 DEF SaveBill, UpdatePositions, DeleteBill
<1>4. SUFFICES \E b \in BillSet : bills' = [bills EXCEPT ![t] = b]
  BY <1>2, <1>3 DEF BooksInv
<1>5. PICK items : /\ items = IF bills[t].exists THEN bills[t].items ELSE <<>>
                   /\ items \in Seq(Positions)
  <2>1. <<>> \in Seq(Positions)
    OBVIOUS
  <2>2. bills[t].exists => bills[t].items \in Seq(Positions)
    BY <1>2 DEF BillSet
  <2> QED  BY <2>1, <2>2
<1>6. ASSUME NEW draft \in Drafts, SaveBill(t, draft, NoShares)
      PROVE  \E b \in BillSet : bills' = [bills EXCEPT ![t] = b]
  <2>1. bills' = [bills EXCEPT ![t] = Bill(draft, Overlaid(items, NoShares))]
    BY <1>5, <1>6 DEF SaveBill
  <2> QED  BY <1>5, <2>1, NothingOverlaid, BillType
<1>7. ASSUME NEW i \in 1..MaxItems, NEW p \in Positions, NEW draft \in Drafts,
             SaveBill(t, draft, [j \in {i} |-> p])
      PROVE  \E b \in BillSet : bills' = [bills EXCEPT ![t] = b]
  <2>1. PICK touched : touched = [j \in {i} |-> p]
    OBVIOUS
  <2>2. /\ bills' = [bills EXCEPT ![t] = Bill(draft, Overlaid(items, touched))]
        /\ Fits(items, touched)
    BY <1>5, <1>7, <2>1 DEF SaveBill
  <2>3. Overlaid(items, touched) \in Seq(Positions)
    BY <1>5, <2>1, <2>2, ItemsOverlaid
  <2> QED  BY <2>2, <2>3, BillType
<1>8. ASSUME NEW i \in 1..MaxItems, NEW p \in Positions, UpdatePositions(t, [j \in {i} |-> p])
      PROVE  \E b \in BillSet : bills' = [bills EXCEPT ![t] = b]
  <2>1. PICK touched : touched = [j \in {i} |-> p]
    OBVIOUS
  <2>2. /\ bills' = [bills EXCEPT ![t].items = Overlaid(@, touched)]
        /\ Fits(items, touched) /\ bills[t].exists /\ items = bills[t].items
    BY <1>5, <1>8, <2>1 DEF UpdatePositions
  <2>3. Overlaid(items, touched) \in Seq(Positions)
    BY <1>5, <2>1, <2>2, ItemsOverlaid
  <2>4. [bills[t] EXCEPT !.items = Overlaid(items, touched)] \in BillSet
    BY <1>2, <2>2, <2>3 DEF BillSet
  <2>5. bills' = [bills EXCEPT ![t] = [bills[t] EXCEPT !.items = Overlaid(items, touched)]]
    BY <1>2, <2>2
  <2> QED  BY <2>4, <2>5
<1>9. ASSUME DeleteBill(t)
      PROVE  \E b \in BillSet : bills' = [bills EXCEPT ![t] = b]
  <2>1. bills' = [bills EXCEPT ![t] = [bills[t] EXCEPT !.deleted = TRUE]] /\ bills[t].exists
    BY <1>2, <1>9 DEF DeleteBill
  <2>2. [bills[t] EXCEPT !.deleted = TRUE] \in BillSet
    BY <1>2, <2>1 DEF BillSet
  <2> QED  BY <2>1, <2>2
<1> QED  BY <1>1, <1>6, <1>7, <1>8, <1>9

LEMMA AmountTypes ==
  ASSUME NEW bill \in BillSet, NEW a
  PROVE  /\ FromPositions(bill, a) \in Int /\ FromDebitors(bill, a) \in Int
         /\ FromCreditors(bill, a) \in Int /\ Remaining(bill) \in Int
<1>1. /\ bill.value \in Int /\ bill.rate \in Int /\ bill.creditors \in Parts
      /\ bill.debitors \in Parts /\ bill.items \in Seq(Positions) /\ Scale \in Int
  BY ScalePositive DEF BillSet
<1>2. PICK S : S = LiveItems(bill)
  OBVIOUS
<1>3. /\ IsFiniteSet(S) /\ \A i \in S : bill.items[i] \in Positions
  <2>1. Len(bill.items) \in Nat /\ DOMAIN bill.items = 1..Len(bill.items)
    BY <1>1, LenProperties
  <2>2. S \in SUBSET (1..Len(bill.items))
    BY <1>2, <2>1 DEF LiveItems
  <2>3. IsFiniteSet(1..Len(bill.items))
    BY <2>1, FS_Interval
  <2> QED  BY <1>1, <2>1, <2>2, <2>3, FS_Subset, ElementOfSeq
<1>4. \A item \in Positions : \A share \in Int :
        ItemPart(item, share) \in Int /\ item.communist \in Int /\ item.price \in Int
  <2> SUFFICES ASSUME NEW item \in Positions, NEW share \in Int
               PROVE  ItemPart(item, share) \in Int /\ item.communist \in Int /\ item.price \in Int
    OBVIOUS
  <2>1. item.price \in Int /\ item.communist \in Int /\ item.usages \in Parts
    BY InputsAre
  <2>2. item.price * Scale \in Int /\ TotalOf(item.usages) + item.communist \in Int
    BY <1>1, <2>1, PartsAre
  <2> QED  BY <2>1, <2>2, PartType DEF ItemPart, ItemWhole
<1>5. FromPositions(bill, a) \in Int
  <2>1. PICK f : f = [i \in S |-> ItemPart(bill.items[i], ShareOf(bill.items[i].usages, a)) * bill.rate]
    OBVIOUS
  <2>2. \A i \in S : ItemPart(bill.items[i], ShareOf(bill.items[i].usages, a)) \in Int
    BY <1>3, <1>4, InputsAre, PartsAre
  <2>3. f \in [S -> Int]
    BY <1>1, <2>1, <2>2
  <2>4. FromPositions(bill, a) = SumFunction(f)
    BY <1>2, <2>1 DEF FromPositions, SumAll
  <2> QED  BY <1>3, <2>3, <2>4, SumIsInt
<1>6. Remaining(bill) \in Int
  <2>1. PICK f : f = [i \in S |-> (bill.items[i].price * Scale
                          - ItemPart(bill.items[i], bill.items[i].communist)) * bill.rate]
    OBVIOUS
  <2>2. \A i \in S : /\ bill.items[i].price * Scale \in Int
                     /\ ItemPart(bill.items[i], bill.items[i].communist) \in Int
    <3> SUFFICES ASSUME NEW i \in S, NEW item, item = bill.items[i]
                 PROVE  item.price * Scale \in Int /\ ItemPart(item, item.communist) \in Int
      OBVIOUS
    <3>1. item \in Positions
      BY <1>3
    <3>2. item.price \in Int /\ item.communist \in Int
      BY <3>1, InputsAre
    <3>3. Scale \in Int
      BY <1>1
    <3>4. item.price * Scale \in Int
      BY ONLY <3>2, <3>3
    <3>5. ItemPart(item, item.communist) \in Int
      BY ONLY <1>4, <3>1, <3>2
    <3> QED  BY <3>4, <3>5
  <2>3. f \in [S -> Int]
    BY <1>1, <2>1, <2>2
  <2>4. Remaining(bill) = bill.value * Scale * bill.rate - SumFunction(f)
    BY <1>2, <2>1 DEF Remaining, SumAll
  <2>5. bill.value * Scale * bill.rate \in Int
    BY <1>1
  <2> QED  BY <1>3, <2>3, <2>4, <2>5, SumIsInt
<1>7. FromDebitors(bill, a) \in Int
  BY <1>1, <1>6, PartsAre, PartType DEF FromDebitors
<1>8. FromCreditors(bill, a) \in Int
  <2>1. bill.value * Scale * bill.rate \in Int
    BY <1>1
  <2> QED  BY <1>1, <2>1, PartsAre, PartType DEF FromCreditors
<1> QED  BY <1>5, <1>6, <1>7, <1>8

LEMMA EffectType ==
  ASSUME NEW bill \in BillSet, NEW a
  PROVE  Effect(bill, a) \in Int
BY AmountTypes DEF Effect

In(s, x) == \E i \in DOMAIN s : s[i] = x
Once(s) == \A i, j \in DOMAIN s : s[i] = s[j] => i = j

LEMMA FrontAndLast ==
  ASSUME NEW S, NEW s \in Seq(S), s # <<>>
  PROVE  /\ Front(s) \in Seq(S) /\ Len(Front(s)) = Len(s) - 1
         /\ \A k \in 1..(Len(s) - 1) : Front(s)[k] = s[k]
         /\ Len(s) \in DOMAIN s /\ Last(s) = s[Len(s)] /\ Last(s) \in S
<1>1. PICK n : n = Len(s)
  OBVIOUS
<1>2. n \in Nat /\ n > 0 /\ DOMAIN s = 1..n /\ \A k \in 1..n : s[k] \in S
  BY <1>1, LenProperties, ElementOfSeq, EmptySeq
<1>3. \A k \in 1..(n - 1) : s[k] \in S
  BY <1>2
<1>4. 1 \in Int /\ n - 1 \in Int
  BY <1>2
<1>5. /\ SubSeq(s, 1, n - 1) \in Seq(S)
      /\ Len(SubSeq(s, 1, n - 1)) = IF 1 <= n - 1 THEN n - 1 - 1 + 1 ELSE 0
      /\ \A k \in 1..(n - 1) - 1 + 1 : SubSeq(s, 1, n - 1)[k] = s[1 + k - 1]
  BY ONLY <1>3, <1>4, SubSeqProperties
<1>6. \A k \in 1..(n - 1) : k \in 1..(n - 1) - 1 + 1 /\ 1 + k - 1 = k
  BY <1>2
<1>7. Front(s) = SubSeq(s, 1, n - 1)
  BY <1>1 DEF Front
<1>8. Last(s) = s[n]
  BY <1>1 DEF Last
<1> QED  BY <1>1, <1>2, <1>5, <1>6, <1>7, <1>8

\* The top of a stack is replaced by what was not on it.
LEMMA StackReplaced ==
  ASSUME NEW S, NEW s \in Seq(S), s # <<>>, Once(s), NEW r \in Seq(S), Once(r),
         \A x : ~(In(s, x) /\ In(r, x)), NEW t, t = Front(s) \o r
  PROVE  /\ t \in Seq(S) /\ Once(t)
         /\ \A x : In(t, x) <=> (In(s, x) /\ x # Last(s)) \/ In(r, x)
<1>1. PICK f, n, m : f = Front(s) /\ n = Len(s) /\ m = Len(r)
  OBVIOUS
<1>2. /\ f \in Seq(S) /\ Len(f) = n - 1 /\ \A k \in 1..(n - 1) : f[k] = s[k]
      /\ n \in DOMAIN s /\ Last(s) = s[n]
  BY <1>1, FrontAndLast
<1>3. n \in Nat /\ n > 0 /\ DOMAIN s = 1..n /\ m \in Nat /\ DOMAIN r = 1..m
  BY <1>1, <1>2, LenProperties
<1>4. /\ t \in Seq(S) /\ Len(t) = (n - 1) + m
      /\ \A i \in 1..((n - 1) + m) : t[i] = IF i <= n - 1 THEN f[i] ELSE r[i - (n - 1)]
  BY <1>1, <1>2, ConcatProperties
<1>5. DOMAIN t = 1..((n - 1) + m)
  BY ONLY <1>4, LenProperties
<1>6. \A i \in DOMAIN t : \/ i \in 1..(n - 1) /\ t[i] = s[i]
                          \/ i - (n - 1) \in 1..m /\ t[i] = r[i - (n - 1)]
  BY <1>2, <1>3, <1>4, <1>5
<1>7. Once(t)
  <2> SUFFICES ASSUME NEW i \in DOMAIN t, NEW j \in DOMAIN t, t[i] = t[j] PROVE i = j
    BY DEF Once
  <2>1. i \in Int /\ j \in Int /\ n \in Int
    BY <1>3, <1>5
  <2>2. CASE i \in 1..(n - 1) /\ t[i] = s[i] /\ j \in 1..(n - 1) /\ t[j] = s[j]
    <3>1. i \in DOMAIN s /\ j \in DOMAIN s
      BY ONLY <1>3, <2>1, <2>2
    <3>2. s[i] = s[j]
      BY <2>2
    <3> QED  BY ONLY <3>1, <3>2, Once(s) DEF Once
  <2>3. CASE i - (n - 1) \in 1..m /\ t[i] = r[i - (n - 1)]
             /\ j - (n - 1) \in 1..m /\ t[j] = r[j - (n - 1)]
    <3>1. i - (n - 1) = j - (n - 1)
      BY <1>3, <2>3 DEF Once
    <3> QED  BY <2>1, <3>1
  <2>4. ASSUME NEW k \in 1..(n - 1), NEW l \in 1..m PROVE s[k] # r[l]
    <3>1. k \in DOMAIN s /\ l \in DOMAIN r
      BY <1>3
    <3> QED  BY <3>1 DEF In
  <2> QED  BY <1>6, <2>2, <2>3, <2>4
<1>8. ASSUME NEW x, In(t, x) PROVE (In(s, x) /\ x # Last(s)) \/ In(r, x)
  <2>1. PICK i \in DOMAIN t : t[i] = x
    BY <1>8 DEF In
  <2>2. CASE i \in 1..(n - 1) /\ t[i] = s[i]
    <3>1. i \in DOMAIN s /\ i # n
      BY <1>3, <2>2
    <3> QED  BY <1>2, <2>1, <2>2, <3>1 DEF In, Once
  <2>3. CASE i - (n - 1) \in 1..m /\ t[i] = r[i - (n - 1)]
    BY <1>3, <2>1, <2>3 DEF In
  <2> QED  BY <1>6, <2>2, <2>3
<1>9. ASSUME NEW x, In(s, x), x # Last(s) PROVE In(t, x)
  <2>1. PICK i \in DOMAIN s : s[i] = x
    BY <1>9 DEF In
  <2>2. i \in 1..(n - 1)
    BY <1>2, <1>3, <1>9, <2>1
  <2>3. i \in DOMAIN t /\ t[i] = f[i] /\ f[i] = s[i]
    BY <1>2, <1>3, <1>4, <1>5, <2>2
  <2> QED  BY <2>1, <2>3 DEF In
<1>10. ASSUME NEW x, In(r, x) PROVE In(t, x)
  <2>1. PICK i \in DOMAIN r : r[i] = x
    BY <1>10 DEF In
  <2>2. PICK j : j = i + (n - 1)
    OBVIOUS
  <2>3. j \in 1..((n - 1) + m) /\ ~(j <= n - 1) /\ j - (n - 1) = i
    BY <1>3, <2>2
  <2> QED  BY <1>4, <1>5, <2>1, <2>3 DEF In
<1> QED  BY <1>4, <1>7, <1>8, <1>9, <1>10

LEMMA Appended ==
  ASSUME NEW S, NEW s \in Seq(S), NEW x \in S, NEW t, t = Append(s, x)
  PROVE  /\ t \in Seq(S) /\ DOMAIN s = 1..Len(s) /\ Len(s) \in Nat
         /\ DOMAIN t = 1..(Len(s) + 1) /\ t[Len(s) + 1] = x
         /\ \A i \in 1..Len(s) : t[i] = s[i]
         /\ \A y : In(t, y) <=> In(s, y) \/ y = x
         /\ (Once(s) /\ ~In(s, x) => Once(t))
<1>1. PICK n : n = Len(s)
  OBVIOUS
<1>2. n \in Nat /\ DOMAIN s = 1..n
  BY <1>1, LenProperties
<1>3. /\ t \in Seq(S) /\ Len(t) = n + 1 /\ t[n + 1] = x /\ \A i \in 1..n : t[i] = s[i]
  BY <1>1, AppendProperties
<1>4. DOMAIN t = 1..(n + 1)
  BY ONLY <1>3, LenProperties
<1>5. \A i \in DOMAIN t : i \in DOMAIN s \/ i = n + 1
  BY <1>2, <1>4
<1>6. \A y : In(t, y) <=> In(s, y) \/ y = x
  <2>1. ASSUME NEW y, In(t, y) PROVE In(s, y) \/ y = x
    BY <1>2, <1>3, <1>5, <2>1 DEF In
  <2>2. ASSUME NEW y, In(s, y) PROVE In(t, y)
    <3>1. PICK i \in DOMAIN s : s[i] = y
      BY <2>2 DEF In
    <3>2. i \in DOMAIN t /\ t[i] = y
      BY <1>2, <1>3, <1>4, <3>1
    <3> QED  BY <3>2 DEF In
  <2>3. In(t, x)
    <3>1. n + 1 \in DOMAIN t
      BY <1>2, <1>4
    <3> QED  BY <1>3, <3>1 DEF In
  <2> QED  BY <2>1, <2>2, <2>3
<1>7. Once(s) /\ ~In(s, x) => Once(t)
  <2> SUFFICES ASSUME Once(s), ~In(s, x), NEW i \in DOMAIN t, NEW j \in DOMAIN t, t[i] = t[j]
               PROVE  i = j
    BY DEF Once
  <2>1. \A k \in DOMAIN s : t[k] = s[k] /\ s[k] # x
    BY <1>2, <1>3 DEF In
  <2> QED  BY <1>3, <1>5, <2>1 DEF Once
<1> QED  BY <1>1, <1>2, <1>3, <1>4, <1>6, <1>7

LEMMA TailOf ==
  ASSUME NEW S, NEW s \in Seq(S), s # <<>>, NEW t, t = Tail(s)
  PROVE  /\ t \in Seq(S) /\ Head(s) \in S /\ In(s, Head(s))
         /\ \A i \in DOMAIN t : /\ i \in Int /\ i + 1 \in DOMAIN s /\ t[i] = s[i + 1]
         /\ \A i \in DOMAIN s : 1 \in DOMAIN s /\ i \in Int /\ 1 <= i /\ Head(s) = s[1]
         /\ \A y : In(s, y) <=> In(t, y) \/ y = Head(s)
         /\ (Once(s) => Once(t) /\ ~In(t, Head(s)))
<1>1. PICK n : n = Len(s)
  OBVIOUS
<1>2. n \in Nat /\ n > 0 /\ DOMAIN s = 1..n /\ Head(s) = s[1]
  BY <1>1, LenProperties, EmptySeq
<1>3. /\ t \in Seq(S) /\ Len(t) = n - 1 /\ Head(s) \in S
      /\ \A i \in 1..(n - 1) : t[i] = s[i + 1]
  BY <1>1, HeadTailProperties
<1>4. DOMAIN t = 1..(n - 1)
  BY ONLY <1>3, LenProperties
<1>5. \A i \in DOMAIN t : i \in Int /\ i + 1 \in DOMAIN s /\ i + 1 # 1 /\ t[i] = s[i + 1]
  BY <1>2, <1>3, <1>4
<1>6. \A i \in DOMAIN s : 1 \in DOMAIN s /\ i \in Int /\ 1 <= i
  BY <1>2
<1>7. \A y : In(s, y) <=> In(t, y) \/ y = Head(s)
  <2>1. ASSUME NEW y, In(s, y) PROVE In(t, y) \/ y = Head(s)
    <3>1. PICK i \in DOMAIN s : s[i] = y
      BY <2>1 DEF In
    <3>2. CASE i = 1
      BY <1>2, <3>1, <3>2
    <3>3. CASE i # 1
      <4>1. i - 1 \in DOMAIN t /\ (i - 1) + 1 = i
        BY <1>2, <1>4, <3>3
      <4> QED  BY <1>5, <3>1, <4>1 DEF In
    <3> QED  BY <3>2, <3>3
  <2>2. ASSUME NEW y, In(t, y) PROVE In(s, y)
    BY <1>5, <2>2 DEF In
  <2>3. In(s, Head(s))
    <3>1. 1 \in DOMAIN s
      BY <1>2
    <3> QED  BY <1>2, <3>1 DEF In
  <2> QED  BY <2>1, <2>2, <2>3
<1>8. Once(s) => Once(t) /\ ~In(t, Head(s))
  <2> SUFFICES ASSUME Once(s) PROVE Once(t) /\ ~In(t, Head(s))
    OBVIOUS
  <2>1. ASSUME NEW i \in DOMAIN t, NEW j \in DOMAIN t, t[i] = t[j] PROVE i = j
    <3>1. i + 1 = j + 1
      BY <1>5, <2>1 DEF Once
    <3> QED  BY <1>5, <3>1
  <2>2. ASSUME NEW i \in DOMAIN t, t[i] = s[1] PROVE FALSE
    <3>1. 1 \in DOMAIN s
      BY <1>2
    <3> QED  BY <1>5, <2>2, <3>1 DEF Once
  <2> QED  BY <1>2, <2>1, <2>2 DEF Once, In
<1> QED  BY <1>2, <1>3, <1>5, <1>6, <1>7, <1>8

\* The accounts of a set in ascending order.
LEMMA RankedOnce ==
  ASSUME NEW S \in SUBSET Accounts, NEW ids, ids = Ranked(S, <)
  PROVE  /\ ids \in Seq(S) /\ Once(ids) /\ \A x : In(ids, x) <=> x \in S
<1>1. S \in SUBSET Nat /\ IsFiniteSet(S)
  BY AccountIds, FS_Subset
<1>2. ids = IdsInOrder(S)
  BY DEF Ranked, IdsInOrder
<1>3. /\ Cardinality(S) \in Nat /\ DOMAIN ids = 1..Cardinality(S)
      /\ \A k \in DOMAIN ids : ids[k] \in S
      /\ \A x \in S : \E k \in DOMAIN ids : ids[k] = x
      /\ \A j, k \in DOMAIN ids : j < k => ids[j] < ids[k]
  BY <1>1, <1>2, RankedIds
<1>4. ids \in [1..Cardinality(S) -> S]
  BY <1>2, <1>3 DEF IdsInOrder
<1>5. ids \in Seq(S)
  BY <1>3, <1>4, SeqDef
<1>6. Once(ids)
  <2> SUFFICES ASSUME NEW i \in DOMAIN ids, NEW j \in DOMAIN ids, ids[i] = ids[j] PROVE i = j
    BY DEF Once
  <2>0. /\ ids[i] \in S /\ ids[j] \in S /\ Cardinality(S) \in Nat
        /\ i \in 1..Cardinality(S) /\ j \in 1..Cardinality(S)
    BY ONLY <1>3, i \in DOMAIN ids, j \in DOMAIN ids
  <2>3. i \in Int /\ j \in Int
    BY ONLY <2>0
  <2>4. ids[i] \in Nat /\ ids[j] \in Nat
    BY ONLY <1>1, <2>0
  <2>1. i \in Int /\ j \in Int /\ ids[i] \in Nat /\ ids[j] \in Nat
    BY ONLY <2>3, <2>4
  <2>2. ~(i < j) /\ ~(j < i)
    BY ONLY <1>3, <2>1, i \in DOMAIN ids, j \in DOMAIN ids, ids[i] = ids[j]
  <2> QED  BY ONLY <2>1, <2>2
<1> QED  BY <1>3, <1>5, <1>6 DEF In

LEMMA SumChanged ==
  ASSUME NEW S, IsFiniteSet(S), NEW f \in [S -> Int], NEW h \in [S -> Int], NEW d \in S,
         \A x \in S : x # d => h[x] = f[x]
  PROVE  SumFunction(h) = SumFunction(f) + (h[d] - f[d])
<1>1. PICK n, g : n = h[d] - f[d] /\ g = [x \in S |-> IF x = d THEN n ELSE 0]
  OBVIOUS
<1>2. n \in Int /\ g \in [S -> Int] /\ \A x \in S : h[x] = f[x] + g[x]
  BY <1>1
<1>3. SumFunction(g) = n
  BY <1>1, <1>2, SumOfOne
<1>4. SumFunction(h) = SumFunction(f) + SumFunction(g)
  BY ONLY <1>2, IsFiniteSet(S), f \in [S -> Int], h \in [S -> Int], SumPlus
<1> QED  BY <1>1, <1>3, <1>4

(***************************************************************************)
(* The topological sort.  An account has as many events before it as its   *)
(* degree says; those with none are on the stack or sorted already.        *)
(***************************************************************************)
Before(a) == {e \in Sharing : ~In(sorting, e) /\ a \in DOMAIN clearing[e]}
Topological(s) == \A i, j \in DOMAIN s : i <= j => s[i] \notin DOMAIN clearing[s[j]]
NotYet == [e \in Events |-> NoShares]

SortInv ==
  phase = "sort" =>
    /\ ready \in Seq(Accounts) /\ Once(ready)
    /\ sorting \in Seq(Sharing) /\ Once(sorting) /\ Topological(sorting)
    /\ \A x : ~(In(ready, x) /\ In(sorting, x))
    /\ \A a \in Accounts : inDegree[a] = Cardinality(Before(a))
    /\ \A a \in Accounts : In(ready, a) \/ In(sorting, a) => inDegree[a] = 0
    /\ \A e \in Sharing : inDegree[e] = 0 => In(ready, e) \/ In(sorting, e)
    /\ balance = before /\ resolution = NotYet

LEMMA EventSets ==
  /\ Sharing \subseteq Events /\ Events \subseteq Accounts
  /\ IsFiniteSet(Events) /\ IsFiniteSet(Sharing)
  /\ \A a : IsFiniteSet(Before(a)) /\ Cardinality(Before(a)) \in Nat
<1>1. Sharing \subseteq Events /\ Events \subseteq Accounts
  BY AccountKinds DEF Sharing
<1>2. IsFiniteSet(Events) /\ IsFiniteSet(Sharing)
  BY <1>1, FiniteAccounts, FS_Subset
<1>3. \A a : Before(a) \subseteq Sharing
  BY DEF Before
<1>4. \A a : IsFiniteSet(Before(a))
  BY <1>2, <1>3, FS_Subset
<1> QED  BY <1>1, <1>2, <1>4, FS_CardinalityType

LEMMA EmptySequence == <<>> \in Seq(Accounts) /\ <<>> \in Seq(Sharing) /\ Once(<<>>) /\ \A x : ~In(<<>>, x)
BY DEF Once, In

LEMMA OpenBooksSorts ==
  ASSUME sorting = <<>>, resolution = NotYet, OpenBooks
  PROVE  SortInv'
<1>1. /\ before' = balance' /\ clearing' = clearing /\ sorting' = <<>> /\ resolution' = NotYet
      /\ inDegree' = [a \in Accounts |-> Degree(a)]
      /\ ready' = Ranked({e \in Sharing : Degree(e) = 0}, <)
  BY DEF OpenBooks, books
<1>2. Sharing' = Sharing /\ NotYet' = NotYet
  BY <1>1 DEF Sharing, NotYet
<1>3. PICK S : S = {e \in Sharing : Degree(e) = 0}
  OBVIOUS
<1>4. S \in SUBSET Accounts /\ S \subseteq Sharing
  BY <1>3, EventSets
<1>5. ready' \in Seq(S) /\ Once(ready') /\ \A x : In(ready', x) <=> x \in S
  <2>1. ready' = Ranked(S, <)
    BY <1>1, <1>3
  <2> QED  BY <1>4, <2>1, RankedOnce
<1>6. ready' \in Seq(Accounts)
  BY <1>4, <1>5
<1>7. \A a : Before(a)' = {e \in Sharing : a \in DOMAIN clearing[e]}
  BY <1>1, <1>2, EmptySequence DEF Before
<1>8. \A a \in Accounts : inDegree'[a] = Cardinality(Before(a)') /\ inDegree'[a] = Degree(a)
  BY <1>1, <1>7 DEF Degree
<1>9. Topological(sorting)'
  <2>1. \A i \in DOMAIN sorting' : FALSE
    BY <1>1, EmptySequence DEF In
  <2> QED  BY <2>1 DEF Topological
<1>10. \A a \in Accounts : In(ready', a) \/ In(sorting', a) => inDegree'[a] = 0
  BY <1>1, <1>3, <1>5, <1>8, EmptySequence
<1>11. \A e \in Sharing : inDegree'[e] = 0 => In(ready', e)
  BY <1>3, <1>5, <1>8, EventSets
<1> QED
  BY <1>1, <1>2, <1>5, <1>6, <1>8, <1>9, <1>10, <1>11, EmptySequence DEF SortInv

LEMMA PersonPopped ==
  ASSUME SortInv, phase = "sort", SortNext, Last(ready) \notin Sharing
  PROVE  SortInv'
<1>1. /\ ready # <<>> /\ ready' = Front(ready) /\ sorting' = sorting /\ inDegree' = inDegree
      /\ balance' = balance /\ before' = before /\ resolution' = resolution
      /\ clearing' = clearing
  BY DEF SortNext, books
<1>2. Sharing' = Sharing /\ NotYet' = NotYet /\ \A a : Before(a)' = Before(a)
  BY <1>1 DEF Sharing, NotYet, Before
<1>3. ready' = Front(ready) \o <<>>
  <2>1. Front(ready) \in Seq(Accounts)
    BY <1>1, FrontAndLast DEF SortInv
  <2> QED  BY <1>1, <2>1, ConcatEmptySeq
<1>4. /\ ready' \in Seq(Accounts) /\ Once(ready')
      /\ \A x : In(ready', x) <=> In(ready, x) /\ x # Last(ready)
  <2>1. /\ ready \in Seq(Accounts) /\ Once(ready)
        /\ <<>> \in Seq(Accounts) /\ Once(<<>>) /\ \A x : ~In(<<>>, x)
    BY EmptySequence DEF SortInv
  <2>2. /\ ready' \in Seq(Accounts) /\ Once(ready')
        /\ \A x : In(ready', x) <=> (In(ready, x) /\ x # Last(ready)) \/ In(<<>>, x)
    BY ONLY <1>1, <1>3, <2>1, StackReplaced
  <2> QED  BY <2>1, <2>2
<1>5. Topological(sorting)'
  BY <1>1 DEF SortInv, Topological
<1> QED  BY <1>1, <1>2, <1>4, <1>5 DEF SortInv

LEMMA EventPopped ==
  ASSUME BooksInv, SortInv, phase = "sort", SortNext, Last(ready) \in Sharing
  PROVE  SortInv'
<1>1. PICK node, r : node = Last(ready) /\ r = Released(node, inDegree)
  OBVIOUS
<1>2. /\ ready # <<>> /\ ready' = Front(ready) \o r /\ sorting' = Append(sorting, node)
      /\ inDegree' = [a \in Accounts |-> IF a \in DOMAIN clearing[node] /\ inDegree[a] > 0
                                         THEN inDegree[a] - 1 ELSE inDegree[a]]
      /\ balance' = balance /\ before' = before /\ resolution' = resolution
      /\ clearing' = clearing
  BY <1>1 DEF SortNext, books
<1>3. /\ ready \in Seq(Accounts) /\ Once(ready) /\ sorting \in Seq(Sharing) /\ Once(sorting)
      /\ Topological(sorting)
      /\ \A x : ~(In(ready, x) /\ In(sorting, x))
      /\ \A a \in Accounts : inDegree[a] = Cardinality(Before(a))
      /\ \A a \in Accounts : In(ready, a) \/ In(sorting, a) => inDegree[a] = 0
      /\ \A e \in Sharing : inDegree[e] = 0 => In(ready, e) \/ In(sorting, e)
      /\ balance = before /\ resolution = NotYet
  BY DEF SortInv
<1>4. Sharing' = Sharing /\ NotYet' = NotYet
  BY <1>2 DEF Sharing, NotYet
<1>5. node \in Sharing /\ node \in Accounts /\ In(ready, node) /\ ~In(sorting, node)
  <2>1. Len(ready) \in DOMAIN ready /\ node = ready[Len(ready)]
    BY <1>1, <1>2, <1>3, FrontAndLast
  <2>2. In(ready, node)
    BY <2>1 DEF In
  <2> QED  BY <1>1, <1>3, <2>2, EventSets
<1>6. PICK S : S = {a \in DOMAIN clearing[node] : inDegree[a] = 1}
  OBVIOUS
<1>7. DOMAIN clearing[node] \subseteq Accounts /\ S \in SUBSET Accounts
  <2>1. clearing[node] \in Parts
    BY <1>5, EventSets DEF BooksInv
  <2> QED  BY <1>6, <2>1, PartsAre
<1>8. r \in Seq(S) /\ Once(r) /\ \A x : In(r, x) <=> x \in S
  <2>1. r = Ranked(S, <)
    BY <1>1, <1>6 DEF Released
  <2> QED  BY <1>7, <2>1, RankedOnce
<1>9. r \in Seq(Accounts)
  BY <1>7, <1>8
<1>10. \A a \in Accounts : inDegree[a] \in Nat
  BY <1>3, EventSets
<1>11. \A x : ~(In(ready, x) /\ In(r, x)) /\ ~(In(sorting, x) /\ In(r, x))
  BY <1>3, <1>6, <1>7, <1>8
<1>12. /\ ready' \in Seq(Accounts) /\ Once(ready')
       /\ \A x : In(ready', x) <=> (In(ready, x) /\ x # node) \/ In(r, x)
  <2>1. \A x : ~(In(ready, x) /\ In(r, x))
    BY <1>11
  <2>2. /\ ready' \in Seq(Accounts) /\ Once(ready')
        /\ \A x : In(ready', x) <=> (In(ready, x) /\ x # Last(ready)) \/ In(r, x)
    BY ONLY <1>2, <1>3, <1>8, <1>9, <2>1, StackReplaced
  <2> QED  BY <1>1, <2>2
<1>13. PICK n : n = Len(sorting)
  OBVIOUS
<1>14. /\ sorting' \in Seq(Sharing) /\ DOMAIN sorting = 1..n /\ n \in Nat
       /\ DOMAIN sorting' = 1..(n + 1) /\ sorting'[n + 1] = node
       /\ \A i \in 1..n : sorting'[i] = sorting[i]
       /\ \A y : In(sorting', y) <=> In(sorting, y) \/ y = node
       /\ Once(sorting')
  <2>0. PICK X : X = Sharing
    OBVIOUS
  <2>1. PICK t : t = sorting'
    OBVIOUS
  <2>2. PICK s : s = sorting
    OBVIOUS
  <2>3. t = Append(s, node) /\ s \in Seq(X) /\ node \in X
    BY <1>2, <1>3, <1>5, <2>0, <2>1, <2>2
  <2>4. /\ t \in Seq(X) /\ DOMAIN s = 1..Len(s) /\ Len(s) \in Nat
        /\ DOMAIN t = 1..(Len(s) + 1) /\ t[Len(s) + 1] = node
    BY ONLY <2>3, Appended
  <2>5. \A i \in 1..Len(s) : t[i] = s[i]
    BY ONLY <2>3, Appended
  <2>6. \A y : In(t, y) <=> In(s, y) \/ y = node
    <3>1. ASSUME NEW y, In(t, y) PROVE In(s, y) \/ y = node
      <4>1. PICK i \in DOMAIN t : t[i] = y
        BY <3>1 DEF In
      <4>2. i \in 1..Len(s) \/ i = Len(s) + 1
        BY ONLY <2>4, <4>1
      <4> QED  BY ONLY <2>4, <2>5, <4>1, <4>2 DEF In
    <3>2. ASSUME NEW y, In(s, y) PROVE In(t, y)
      BY ONLY <2>3, <3>2, Appended
    <3>3. In(t, node)
      BY ONLY <2>3, Appended
    <3> QED  BY <3>1, <3>2, <3>3
  <2>7. Once(s) /\ ~In(s, node) => Once(t)
    BY ONLY <2>3, Appended
  <2> QED  BY <1>3, <1>5, <1>13, <2>0, <2>1, <2>2, <2>4, <2>5, <2>6, <2>7
<1>15. \A a : Before(a)' = Before(a) \ {node}
  BY <1>2, <1>4, <1>14 DEF Before
<1>16. \A a \in Accounts : node \in Before(a) <=> a \in DOMAIN clearing[node]
  BY <1>5 DEF Before
<1>17. \A a \in Accounts : inDegree'[a] = Cardinality(Before(a)')
  <2> SUFFICES ASSUME NEW a \in Accounts PROVE inDegree'[a] = Cardinality(Before(a)')
    OBVIOUS
  <2>1. CASE a \in DOMAIN clearing[node]
    <3>1. Cardinality(Before(a) \ {node}) = Cardinality(Before(a)) - 1
      BY <1>16, <2>1, EventSets, FS_RemoveElement
    <3>2. Cardinality(Before(a)) # 0
      BY <1>16, <2>1, EventSets, FS_EmptySet
    <3>3. inDegree[a] = Cardinality(Before(a)) /\ inDegree[a] \in Nat
      BY <1>3, <1>10
    <3>4. inDegree[a] > 0
      BY ONLY <3>2, <3>3
    <3>5. inDegree'[a] = inDegree[a] - 1
      BY <1>2, <2>1, <3>4
    <3> QED  BY <1>15, <3>1, <3>3, <3>5
  <2>2. CASE a \notin DOMAIN clearing[node]
    <3>1. Before(a) \ {node} = Before(a)
      BY <1>16, <2>2
    <3> QED  BY <1>2, <1>3, <1>15, <2>2, <3>1
  <2> QED  BY <2>1, <2>2
<1>18. \A a \in Accounts : In(ready', a) \/ In(sorting', a) => inDegree'[a] = 0
  <2> SUFFICES ASSUME NEW a \in Accounts, In(ready', a) \/ In(sorting', a)
               PROVE  inDegree'[a] = 0
    OBVIOUS
  <2>1. CASE In(r, a)
    BY <1>2, <1>6, <1>8, <2>1
  <2>2. CASE In(ready, a) \/ In(sorting, a)
    BY <1>2, <1>3, <2>2
  <2> QED  BY <1>5, <1>12, <1>14, <2>1, <2>2
<1>19. \A e \in Sharing : inDegree'[e] = 0 => In(ready', e) \/ In(sorting', e)
  <2> SUFFICES ASSUME NEW e \in Sharing, inDegree'[e] = 0
               PROVE  In(ready', e) \/ In(sorting', e)
    OBVIOUS
  <2>0. e \in Accounts /\ inDegree[e] \in Nat
    BY <1>10, EventSets
  <2>1. CASE inDegree[e] = 0
    BY <1>3, <1>12, <1>14, <2>1
  <2>2. CASE inDegree[e] # 0
    <3>1. e \in DOMAIN clearing[node] /\ inDegree[e] = 1
      BY <1>2, <2>0, <2>2
    <3> QED  BY <1>6, <1>8, <1>12, <3>1
  <2> QED  BY <2>1, <2>2
<1>20. \A a \in Accounts : In(sorting', a) => a \notin DOMAIN clearing[node]
  <2> SUFFICES ASSUME NEW a \in Accounts, In(sorting', a), a \in DOMAIN clearing[node]
               PROVE  FALSE
    OBVIOUS
  <2>1. inDegree[a] = 0
    BY <1>3, <1>5, <1>14
  <2>2. Before(a) = {}
    BY <1>3, <2>1, EventSets, FS_EmptySet
  <2> QED  BY <1>16, <2>2
<1>21. Topological(sorting)'
  <2> SUFFICES ASSUME NEW i \in DOMAIN sorting', NEW j \in DOMAIN sorting', i <= j
               PROVE  sorting'[i] \notin DOMAIN clearing[sorting'[j]]
    BY <1>2 DEF Topological
  <2>1. In(sorting', sorting'[i]) /\ sorting'[i] \in Accounts
    BY <1>14, ElementOfSeq, LenProperties, EventSets DEF In
  <2>2. CASE j = n + 1
    BY <1>14, <1>20, <2>1, <2>2
  <2>3. CASE j # n + 1
    <3>1. i \in DOMAIN sorting /\ j \in DOMAIN sorting
      BY <1>14, <2>3
    <3> QED  BY <1>3, <1>14, <3>1 DEF Topological
  <2> QED  BY <2>2, <2>3
<1>22. \A x : ~(In(ready', x) /\ In(sorting', x))
  BY <1>3, <1>5, <1>11, <1>12, <1>14
<1> QED
  BY <1>2, <1>3, <1>4, <1>12, <1>14, <1>17, <1>18, <1>19, <1>21, <1>22 DEF SortInv

(***************************************************************************)
(* The clearing.  There are amounts, one for each event that was handed    *)
(* down, such that the balance of every other account, and the amount of   *)
(* every such event, are what the bills book and what has flowed in.       *)
(***************************************************************************)
Handed(amount, e, a) == Part(amount, ShareOf(clearing[e], a), TotalOf(clearing[e]))
Done(e) == e \in Sharing /\ ~In(sorting, e)
Flow(g, a) ==
  before[a] + SumFunction([e \in Sharing |-> IF In(sorting, e) THEN 0 ELSE Handed(g[e], e, a)])
Explains(g) ==
  \A a \in Accounts : IF Done(a) THEN balance[a] = 0 /\ g[a] = Flow(g, a)
                                 ELSE balance[a] = Flow(g, a)

ClearInv ==
  phase \in {"clear", "plan"} =>
    /\ sorting \in Seq(Sharing) /\ Once(sorting) /\ Topological(sorting)
    /\ phase = "plan" => sorting = <<>>
    /\ \A e, f \in Sharing : ~In(sorting, e) /\ In(sorting, f) => e \notin DOMAIN clearing[f]
    /\ \A e \in Sharing : In(sorting, e) => resolution[e] = NoShares
    /\ \A a \in Accounts \ Sharing : HistoryEnd(a) = balance[a]
    /\ \E g \in [Sharing -> Int] : Explains(g)

BalanceTypes ==
  /\ BooksInv
  /\ phase \in {"edit", "sort", "clear", "plan", "failed"}
  /\ balance \in [Accounts -> Int] /\ before \in [Accounts -> Int]
  /\ resolution \in [Events -> Parts]
  /\ phase = "edit" => sorting = <<>> /\ resolution = NotYet

LEMMA HandedType ==
  ASSUME BooksInv, NEW e \in Events
  PROVE  /\ DOMAIN clearing[e] \subseteq Accounts
         /\ \A x \in Int : \A a : /\ Handed(x, e, a) \in Int
                                  /\ a \notin DOMAIN clearing[e] => Handed(x, e, a) = 0
<1>1. PICK s \in Parts : s = clearing[e]
  BY DEF BooksInv
<1>2. ASSUME NEW x \in Int, NEW a
      PROVE  Handed(x, e, a) \in Int /\ (a \notin DOMAIN s => Handed(x, e, a) = 0)
  <2>1. ShareOf(s, a) \in Int /\ TotalOf(s) \in Int /\ (a \notin DOMAIN s => ShareOf(s, a) = 0)
    BY PartsAre DEF ShareOf
  <2>2. /\ Part(x, ShareOf(s, a), TotalOf(s)) \in Int
        /\ ShareOf(s, a) = 0 => Part(x, ShareOf(s, a), TotalOf(s)) = 0
    BY ONLY <2>1, x \in Int, PartType
  <2> QED  BY <1>1, <2>1, <2>2 DEF Handed
<1> QED  BY <1>1, <1>2, PartsAre

LEMMA SortedAll ==
  ASSUME BooksInv, SortInv, phase = "sort", ready = <<>>
  PROVE  \A e \in Sharing : In(sorting, e)
<1>1. PICK C : C = {e \in Sharing : ~In(sorting, e)}
  OBVIOUS
<1>2. ASSUME NEW e \in C PROVE \E f \in C : e \in DOMAIN clearing[f]
  <2>1. e \in Sharing /\ e \in Accounts /\ ~In(sorting, e)
    BY <1>1, EventSets
  <2>2. inDegree[e] # 0 /\ inDegree[e] = Cardinality(Before(e))
    BY <2>1, EmptySequence DEF SortInv
  <2>3. Before(e) # {}
    BY <2>2, FS_EmptySet
  <2> QED  BY <1>1, <2>3 DEF Before
<1>3. C \in SUBSET Events
  BY <1>1, EventSets
<1>4. C = {}
  BY <1>2, <1>3 DEF BooksInv, HasCycle
<1> QED  BY <1>1, <1>4

LEMMA ClearingStarts ==
  ASSUME BalanceTypes, SortInv, SortEnds
  PROVE  ClearInv'
<1>1. /\ phase = "sort" /\ ready = <<>> /\ phase' = "clear"
      /\ clearing' = clearing /\ balance' = balance /\ before' = before
      /\ resolution' = resolution /\ sorting' = sorting
  BY DEF SortEnds, books, clearingVars
<1>2. /\ sorting \in Seq(Sharing) /\ Once(sorting) /\ Topological(sorting)
      /\ balance = before /\ resolution = NotYet
  BY <1>1 DEF SortInv
<1>3. Sharing' = Sharing
  BY <1>1 DEF Sharing
<1>4. Topological(sorting)'
  BY <1>1, <1>2 DEF Topological
<1>5. \A e \in Sharing : In(sorting, e) /\ ~Done(e)' /\ ~Done(e)
  BY <1>1, <1>3, SortedAll DEF BalanceTypes, Done
<1>6. \A e \in Events : resolution[e] = NoShares
  BY <1>2 DEF NotYet
<1>7. ASSUME NEW a \in Accounts PROVE HistoryEnd(a)' = before[a]
  <2>1. PICK f : f = [e \in Events |-> ShareOf(resolution[e], a)]
    OBVIOUS
  <2>2. f = [e \in Events |-> 0]
    BY <1>6, <2>1, NoSharesIsParts
  <2>3. SumFunction(f) = 0
    BY <2>2, EventSets, SumOfZeros
  <2>4. HistoryEnd(a)' = before[a] + SumFunction(f)
    BY <1>1, <2>1 DEF HistoryEnd, SumAll
  <2> QED  BY <2>3, <2>4 DEF BalanceTypes
<1>8. PICK g : g = [e \in Sharing |-> 0]
  OBVIOUS
<1>9. ASSUME NEW a \in Accounts PROVE Flow(g, a)' = before[a]
  <2>1. PICK f : f = [e \in Sharing |-> IF In(sorting, e) THEN 0 ELSE Handed(g[e], e, a)]
    OBVIOUS
  <2>2. f = [e \in Sharing |-> 0]
    BY <1>5, <2>1
  <2>3. SumFunction(f) = 0
    BY <2>2, EventSets, SumOfZeros
  <2>4. Flow(g, a)' = before[a] + SumFunction(f)
    BY <1>1, <1>3, <2>1 DEF Flow, Handed
  <2> QED  BY <2>3, <2>4 DEF BalanceTypes
<1>10. \A a \in Accounts : ~Done(a)'
  BY <1>1, <1>3, <1>5 DEF Done
<1>11. Explains(g)'
  BY <1>1, <1>2, <1>9, <1>10 DEF Explains
<1>12. g \in [Sharing' -> Int]
  BY <1>3, <1>8
<1>13. \A a \in Accounts \ Sharing' : HistoryEnd(a)' = balance'[a]
  BY <1>1, <1>2, <1>7
<1>14. \A e \in Sharing : resolution'[e] = NoShares
  BY <1>1, <1>6, EventSets
<1> QED
  BY <1>1, <1>2, <1>3, <1>4, <1>5, <1>11, <1>12, <1>13, <1>14 DEF ClearInv

LEMMA EventCleared ==
  ASSUME BalanceTypes, ClearInv, ClearNext
  PROVE  ClearInv' /\ BalanceTypes'
<1>1. PICK e : e = Head(sorting)
  OBVIOUS
<1>2. /\ phase = "clear" /\ sorting # <<>> /\ sorting' = Tail(sorting)
      /\ balance' = [a \in Accounts |-> IF a = e THEN 0
                                        ELSE balance[a] + Handed(balance[e], e, a)]
      /\ resolution' = [resolution EXCEPT ![e] =
                          [a \in DOMAIN clearing[e] |-> Handed(balance[e], e, a)]]
      /\ bills' = bills /\ clearing' = clearing /\ phase' = phase /\ before' = before
  BY <1>1 DEF ClearNext, books, Handed
<1>3. /\ sorting \in Seq(Sharing) /\ Once(sorting) /\ Topological(sorting)
      /\ \A x, f \in Sharing : ~In(sorting, x) /\ In(sorting, f) => x \notin DOMAIN clearing[f]
      /\ \A x \in Sharing : In(sorting, x) => resolution[x] = NoShares
      /\ \A a \in Accounts \ Sharing : HistoryEnd(a) = balance[a]
      /\ \E g \in [Sharing -> Int] : Explains(g)
  BY <1>2 DEF ClearInv
<1>4. /\ BooksInv /\ balance \in [Accounts -> Int] /\ before \in [Accounts -> Int]
      /\ resolution \in [Events -> Parts]
  BY DEF BalanceTypes
<1>5. Sharing' = Sharing /\ BooksInv'
  BY <1>2, <1>4 DEF Sharing, BooksInv
<1>6. PICK t : t = sorting'
  OBVIOUS
<1>7. /\ t \in Seq(Sharing) /\ e \in Sharing /\ In(sorting, e)
      /\ \A i \in DOMAIN t : /\ i \in Int /\ i + 1 \in DOMAIN sorting /\ t[i] = sorting[i + 1]
      /\ \A i \in DOMAIN sorting : 1 \in DOMAIN sorting /\ i \in Int /\ 1 <= i /\ e = sorting[1]
      /\ Once(t) /\ ~In(t, e)
  <2>1. PICK X : X = Sharing
    OBVIOUS
  <2>2. sorting \in Seq(X) /\ sorting # <<>> /\ t = Tail(sorting)
    BY <1>2, <1>3, <1>6, <2>1
  <2>3. t \in Seq(X) /\ Head(sorting) \in X /\ In(sorting, Head(sorting))
    BY ONLY <2>2, TailOf
  <2>4. \A i \in DOMAIN t : i \in Int /\ i + 1 \in DOMAIN sorting /\ t[i] = sorting[i + 1]
    BY ONLY <2>2, TailOf
  <2>5. \A i \in DOMAIN sorting : 1 \in DOMAIN sorting /\ i \in Int /\ 1 <= i
                                  /\ Head(sorting) = sorting[1]
    BY ONLY <2>2, TailOf
  <2>6. Once(sorting) => Once(t) /\ ~In(t, Head(sorting))
    BY ONLY <2>2, TailOf
  <2> QED  BY <1>1, <1>3, <2>1, <2>3, <2>4, <2>5, <2>6
<1>8. \A y : In(sorting, y) <=> In(t, y) \/ y = e
  <2>1. PICK X : X = Sharing
    OBVIOUS
  <2>2. sorting \in Seq(X) /\ sorting # <<>> /\ t = Tail(sorting)
    BY <1>2, <1>3, <1>6, <2>1
  <2>3. \A y : In(sorting, y) <=> In(t, y) \/ y = Head(sorting)
    BY ONLY <2>2, TailOf
  <2> QED  BY <1>1, <2>3
<1>9. e \in Events /\ e \in Accounts
  BY <1>7, EventSets
<1>11. e \notin DOMAIN clearing[e] /\ \A f : In(t, f) => e \notin DOMAIN clearing[f]
  <2>1. \A f : In(sorting, f) => e \notin DOMAIN clearing[f]
    <3> SUFFICES ASSUME NEW f, In(sorting, f) PROVE e \notin DOMAIN clearing[f]
      OBVIOUS
    <3>1. PICK j \in DOMAIN sorting : sorting[j] = f
      BY DEF In
    <3>2. 1 \in DOMAIN sorting /\ j \in Int /\ 1 <= j /\ e = sorting[1]
      BY <1>7
    <3>3. \A i, k \in DOMAIN sorting : i <= k => sorting[i] \notin DOMAIN clearing[sorting[k]]
      BY <1>3 DEF Topological
    <3> QED  BY ONLY <3>1, <3>2, <3>3
  <2> QED  BY <1>7, <1>8, <2>1
<1>12. Topological(sorting)'
  <2> SUFFICES ASSUME NEW i \in DOMAIN t, NEW j \in DOMAIN t, i <= j
               PROVE  t[i] \notin DOMAIN clearing[t[j]]
    BY <1>2, <1>6 DEF Topological
  <2>1. /\ i \in Int /\ i + 1 \in DOMAIN sorting /\ t[i] = sorting[i + 1]
        /\ j \in Int /\ j + 1 \in DOMAIN sorting /\ t[j] = sorting[j + 1]
    BY <1>7
  <2>2. i + 1 <= j + 1
    BY <2>1
  <2> QED  BY <1>3, <2>1, <2>2 DEF Topological
<1>13. \A x, f \in Sharing : ~In(t, x) /\ In(t, f) => x \notin DOMAIN clearing[f]
  BY <1>3, <1>8, <1>11
<1>14. \A x \in Sharing : In(t, x) => resolution'[x] = NoShares
  BY <1>2, <1>3, <1>4, <1>5, <1>7, <1>8, EventSets
<1>15. /\ DOMAIN clearing[e] \subseteq Accounts
       /\ \A x \in Int : \A a : /\ Handed(x, e, a) \in Int
                                /\ a \notin DOMAIN clearing[e] => Handed(x, e, a) = 0
  BY <1>4, <1>9, HandedType
<1>16. PICK k : k = balance[e] /\ k \in Int
  BY <1>4, <1>9
<1>17. PICK into : into = [a \in Accounts |-> Handed(k, e, a)]
  OBVIOUS
<1>18. /\ into \in [Accounts -> Int]
       /\ \A a \in Accounts : a \notin DOMAIN clearing[e] => into[a] = 0
  BY <1>15, <1>16, <1>17
<1>19. balance' = [a \in Accounts |-> IF a = e THEN 0 ELSE balance[a] + into[a]]
  BY <1>2, <1>16, <1>17
<1>20. balance' \in [Accounts -> Int]
  BY <1>4, <1>18, <1>19
<1>21. PICK noted : noted = [a \in DOMAIN clearing[e] |-> Handed(k, e, a)]
  OBVIOUS
<1>22. resolution' = [resolution EXCEPT ![e] = noted] /\ noted \in Parts
  BY <1>2, <1>15, <1>16, <1>21 DEF Parts
<1>23. BalanceTypes'
  BY <1>2, <1>4, <1>5, <1>20, <1>22 DEF BalanceTypes
<1>24. \A a \in Accounts \ Sharing' : HistoryEnd(a)' = balance'[a]
  <2> SUFFICES ASSUME NEW a \in Accounts \ Sharing PROVE HistoryEnd(a)' = balance'[a]
    BY <1>5
  <2>1. PICK f, h : /\ f = [x \in Events |-> ShareOf(resolution[x], a)]
                    /\ h = [x \in Events |-> ShareOf(resolution'[x], a)]
    OBVIOUS
  <2>2. f \in [Events -> Int] /\ h \in [Events -> Int]
    <3>1. \A x \in Events : resolution[x] \in Parts /\ resolution'[x] \in Parts
      BY <1>4, <1>22
    <3> QED  BY <2>1, <3>1, PartsAre
  <2>3. \A x \in Events : x # e => h[x] = f[x]
    BY <1>4, <1>22, <2>1
  <2>4. f[e] = 0
    BY <1>3, <1>7, <1>9, <2>1, NoSharesIsParts
  <2>5. h[e] = into[a]
    <3>1. resolution'[e] = noted
      BY <1>4, <1>9, <1>22
    <3>2. ShareOf(noted, a) = into[a]
      BY <1>17, <1>18, <1>21 DEF ShareOf
    <3> QED  BY <1>9, <2>1, <3>1, <3>2
  <2>6. SumFunction(h) = SumFunction(f) + (h[e] - f[e])
    BY <1>9, <2>2, <2>3, EventSets, SumChanged
  <2>7. HistoryEnd(a) = before[a] + SumFunction(f) /\ HistoryEnd(a)' = before[a] + SumFunction(h)
    BY <1>2, <2>1 DEF HistoryEnd, SumAll
  <2>8. SumFunction(f) \in Int /\ before[a] \in Int /\ into[a] \in Int
    BY <1>4, <1>18, <2>2, EventSets, SumIsInt
  <2>9. balance'[a] = balance[a] + into[a] /\ HistoryEnd(a) = balance[a]
    BY <1>3, <1>7, <1>19
  <2> QED  BY <2>4, <2>5, <2>6, <2>7, <2>8, <2>9
<1>25. \E g \in [Sharing' -> Int] : Explains(g)'
  <2>1. PICK g \in [Sharing -> Int] : Explains(g)
    BY <1>3
  <2>2. PICK g2 : g2 = [g EXCEPT ![e] = k]
    OBVIOUS
  <2>3. g2 \in [Sharing -> Int] /\ g2[e] = k /\ \A x \in Sharing : x # e => g2[x] = g[x]
    BY <1>7, <1>16, <2>1, <2>2
  <2>4. \A a \in Accounts : Flow(g2, a)' = Flow(g, a) + into[a] /\ Flow(g, a) \in Int
    <3> SUFFICES ASSUME NEW a \in Accounts
                 PROVE  Flow(g2, a)' = Flow(g, a) + into[a] /\ Flow(g, a) \in Int
      OBVIOUS
    <3>1. PICK f, h : /\ f = [x \in Sharing |-> IF In(sorting, x) THEN 0 ELSE Handed(g[x], x, a)]
                      /\ h = [x \in Sharing |-> IF In(t, x) THEN 0 ELSE Handed(g2[x], x, a)]
      OBVIOUS
    <3>2. \A x \in Sharing : Handed(g[x], x, a) \in Int /\ Handed(g2[x], x, a) \in Int
      BY <1>4, <2>1, <2>3, EventSets, HandedType
    <3>3. f \in [Sharing -> Int] /\ h \in [Sharing -> Int]
      BY <3>1, <3>2
    <3>4. \A x \in Sharing : x # e => h[x] = f[x]
      BY <1>8, <2>3, <3>1
    <3>5. f[e] = 0 /\ h[e] = into[a]
      BY <1>7, <1>17, <2>3, <3>1
    <3>6. SumFunction(h) = SumFunction(f) + (h[e] - f[e])
      <4>1. PICK X : X = Sharing
        OBVIOUS
      <4>2. /\ e \in X /\ IsFiniteSet(X) /\ f \in [X -> Int] /\ h \in [X -> Int]
            /\ \A x \in X : x # e => h[x] = f[x]
        BY <1>7, <3>3, <3>4, <4>1, EventSets
      <4> QED  BY ONLY <4>2, SumChanged
    <3>7. Flow(g, a) = before[a] + SumFunction(f)
      BY <3>1 DEF Flow
    <3>8. Flow(g2, a)' = before[a] + SumFunction(h)
      BY <1>2, <1>5, <1>6, <3>1 DEF Flow, Handed
    <3>9. SumFunction(f) \in Int /\ before[a] \in Int /\ into[a] \in Int
      BY <1>4, <1>18, <3>3, EventSets, SumIsInt
    <3> QED  BY <3>5, <3>6, <3>7, <3>8, <3>9
  <2>5. \A a \in Accounts : Done(a)' <=> Done(a) \/ a = e
    BY <1>5, <1>6, <1>7, <1>8 DEF Done
  <2>6. \A a \in Accounts : Done(a) \/ a = e => into[a] = 0
    BY <1>3, <1>7, <1>11, <1>18 DEF Done
  <2>7. ~Done(e)
    BY <1>7 DEF Done
  <2>8. ASSUME NEW a \in Accounts
        PROVE  IF Done(a)' THEN balance'[a] = 0 /\ g2[a] = Flow(g2, a)'
                           ELSE balance'[a] = Flow(g2, a)'
    <3>1. CASE a = e
      <4>1. balance'[a] = 0 /\ g2[a] = balance[a] /\ balance[a] = Flow(g, a) /\ into[a] = 0
        BY <1>9, <1>16, <1>19, <2>1, <2>3, <2>6, <2>7, <3>1 DEF Explains
      <4>2. Flow(g2, a)' = Flow(g, a)
        BY <2>4, <4>1
      <4> QED  BY <2>5, <3>1, <4>1, <4>2
    <3>2. CASE a # e /\ Done(a)
      <4>1. balance[a] = 0 /\ g[a] = Flow(g, a) /\ into[a] = 0
        BY <2>1, <2>6, <3>2 DEF Explains
      <4>2. g2[a] = g[a]
        BY <2>3, <3>2 DEF Done
      <4>3. Flow(g2, a)' = Flow(g, a)
        BY <2>4, <4>1
      <4>4. balance'[a] = 0
        BY <1>19, <3>2, <4>1
      <4> QED  BY <2>5, <3>2, <4>1, <4>2, <4>3, <4>4
    <3>3. CASE a # e /\ ~Done(a)
      <4>1. balance'[a] = balance[a] + into[a] /\ balance[a] = Flow(g, a)
        BY <1>19, <2>1, <3>3 DEF Explains
      <4> QED  BY <2>4, <2>5, <3>3, <4>1
    <3> QED  BY <3>1, <3>2, <3>3
  <2>9. Explains(g2)'
    BY <2>8 DEF Explains
  <2> QED  BY <1>5, <2>3, <2>9
<1>26. /\ t \in Seq(Sharing') /\ Once(t) /\ phase' # "plan"
  BY <1>2, <1>5, <1>7
<1>27. ClearInv'
  BY <1>2, <1>5, <1>6, <1>12, <1>13, <1>14, <1>24, <1>25, <1>26 DEF ClearInv
<1> QED  BY <1>23, <1>27

(***************************************************************************)
(* The final amounts by their definition, in rounds.  Round by round fewer *)
(* events wait for what flows into them; since events do not share each    *)
(* other in a circle, none waits in the end.                               *)
(***************************************************************************)
Round(last) ==
  [a \in Accounts |-> before[a] + SumFunction([e \in Sharing |-> Handed(last[e], e, a)])]

Rounds(F, n) ==
  /\ \A i \in 0..n : F[i] \in [Accounts -> Int]
  /\ F[0] = before
  /\ \A i \in 1..n : F[i] = Round(F[i - 1])

\* B are the events that may still wait.
Waiting(B, F, G) ==
  /\ B \in SUBSET Sharing
  /\ \A e \in Sharing \ B : \A f \in B : e \notin DOMAIN clearing[f]
  /\ \A a \in Accounts : (\A f \in B : a \notin DOMAIN clearing[f]) => F[a] = G[a]

LEMMA RoundType ==
  ASSUME BalanceTypes, NEW F \in [Accounts -> Int]
  PROVE  Round(F) \in [Accounts -> Int]
<1> SUFFICES ASSUME NEW a \in Accounts
             PROVE  before[a] + SumFunction([e \in Sharing |-> Handed(F[e], e, a)]) \in Int
  BY DEF Round
<1>1. PICK f : f = [e \in Sharing |-> Handed(F[e], e, a)]
  OBVIOUS
<1>2. \A e \in Sharing : e \in Accounts /\ e \in Events
  BY EventSets
<1>3. \A e \in Sharing : Handed(F[e], e, a) \in Int
  BY <1>2, HandedType DEF BalanceTypes
<1>4. f \in [Sharing -> Int]
  BY <1>1, <1>3
<1>5. SumFunction(f) \in Int
  BY <1>4, EventSets, SumIsInt
<1> QED  BY <1>1, <1>5 DEF BalanceTypes

LEMMA RoundsExist ==
  ASSUME BalanceTypes, NEW n \in Nat
  PROVE  \E F : F = [i \in 0..n |-> IF i = 0 THEN before ELSE Round(F[i - 1])] /\ Rounds(F, n)
<1> DEFINE Body(F, m) == [i \in 0..m |-> IF i = 0 THEN before ELSE Round(F[i - 1])]
           T == {m \in Nat : \E F : F = Body(F, m) /\ Rounds(F, m)}
<1>1. 0 \in T
  <2>1. PICK F : F = [i \in 0..0 |-> before]
    OBVIOUS
  <2>2. \A i \in 0..0 : i = 0
    OBVIOUS
  <2>3. F = Body(F, 0)
    BY <2>1, <2>2
  <2>4. Rounds(F, 0)
    BY <2>1, <2>2 DEF Rounds, BalanceTypes
  <2> QED  BY <2>3, <2>4
<1>2. ASSUME NEW m \in Nat, m \in T PROVE m + 1 \in T
  <2>1. PICK F : F = Body(F, m) /\ Rounds(F, m)
    BY <1>2
  <2>2. PICK r : r = Round(F[m]) /\ r \in [Accounts -> Int]
    <3>1. F[m] \in [Accounts -> Int]
      BY <2>1 DEF Rounds
    <3> QED  BY <3>1, RoundType
  <2>3. PICK H : H = [i \in 0..(m + 1) |-> IF i = m + 1 THEN r ELSE F[i]]
    OBVIOUS
  <2>4. /\ \A i \in 0..m : H[i] = F[i]
        /\ H[m + 1] = r /\ DOMAIN H = 0..(m + 1)
        /\ \A i \in 0..(m + 1) : i \in 0..m \/ i = m + 1
        /\ \A i \in 1..(m + 1) : i \in 1..m \/ i = m + 1
        /\ \A i \in 1..(m + 1) : i - 1 \in 0..m /\ i # 0
        /\ (m + 1) - 1 = m /\ 0 \in 0..m
    BY <2>3
  <2>5. \A i \in 1..(m + 1) : H[i] = Round(H[i - 1])
    <3>1. \A i \in 1..m : i \in 0..m /\ F[i] = Round(F[i - 1])
      BY <2>1 DEF Rounds
    <3> QED  BY <2>2, <2>4, <3>1
  <2>6. Rounds(H, m + 1)
    BY <2>1, <2>2, <2>4, <2>5 DEF Rounds
  <2>7. H = Body(H, m + 1)
    <3>1. \A i \in 0..(m + 1) : i = 0 \/ i \in 1..(m + 1)
      OBVIOUS
    <3>2. H[0] = before
      BY <2>6 DEF Rounds
    <3>3. \A i \in 0..(m + 1) : H[i] = IF i = 0 THEN before ELSE Round(H[i - 1])
      BY <2>5, <3>1, <3>2
    <3>4. H = [i \in 0..(m + 1) |-> H[i]]
      BY <2>3
    <3> QED  BY <3>3, <3>4
  <2> QED  BY <2>6, <2>7
<1>3. T = Nat
  <2>1. T \in SUBSET Nat
    OBVIOUS
  <2> HIDE DEF T
  <2> QED  BY <1>1, <1>2, <2>1, Induction
<1> QED  BY <1>3

LEMMA InflowIs ==
  ASSUME BalanceTypes
  PROVE  Rounds(Inflow, Cardinality(Events))
<1>1. PICK n : n = Cardinality(Events)
  OBVIOUS
<1>2. n \in Nat
  BY <1>1, EventSets, FS_CardinalityType
<1> DEFINE Body(F) == [i \in 0..n |-> IF i = 0 THEN before ELSE Round(F[i - 1])]
<1>3. PICK F : F = Body(F)
  BY <1>2, RoundsExist
<1>4. Inflow = CHOOSE H : H = Body(H)
  BY <1>1 DEF Inflow, Round, Handed, SumAll
<1>5. Inflow = Body(Inflow)
  BY <1>3, <1>4
<1>6. PICK J : J = Inflow
  OBVIOUS
<1>7. /\ J[0] = before
      /\ \A i \in 1..n : J[i] = Round(J[i - 1])
  BY <1>2, <1>5, <1>6
<1> DEFINE T == {i \in Nat : i <= n => J[i] \in [Accounts -> Int]}
<1>8. 0 \in T
  BY <1>7 DEF BalanceTypes
<1>9. ASSUME NEW i \in Nat, i \in T PROVE i + 1 \in T
  <2> SUFFICES ASSUME i + 1 <= n PROVE J[i + 1] \in [Accounts -> Int]
    OBVIOUS
  <2>1. i + 1 \in 1..n /\ (i + 1) - 1 = i /\ i <= n
    BY <1>2
  <2>2. J[i] \in [Accounts -> Int] /\ J[i + 1] = Round(J[i])
    BY <1>7, <1>9, <2>1
  <2> QED  BY <2>2, RoundType
<1>10. T = Nat
  <2>1. T \in SUBSET Nat
    OBVIOUS
  <2> HIDE DEF T
  <2> QED  BY <1>8, <1>9, <2>1, Induction
<1>11. \A i \in 0..n : J[i] \in [Accounts -> Int]
  BY <1>2, <1>10
<1> QED  BY <1>1, <1>6, <1>7, <1>11 DEF Rounds

LEMMA FewerWait ==
  ASSUME BalanceTypes, NEW F \in [Accounts -> Int], NEW G \in [Accounts -> Int], G = Round(G),
         NEW B, Waiting(B, F, G)
  PROVE  \E B2 \in SUBSET B : Waiting(B2, Round(F), G) /\ (B # {} => B2 # B)
<1>1. PICK B2 : B2 = {e \in B : \E f \in B : e \in DOMAIN clearing[f]}
  OBVIOUS
<1>2. /\ B \in SUBSET Sharing
      /\ \A e \in Sharing \ B : \A f \in B : e \notin DOMAIN clearing[f]
      /\ \A a \in Accounts : (\A f \in B : a \notin DOMAIN clearing[f]) => F[a] = G[a]
  BY DEF Waiting
<1>3. B # {} => B2 # B
  <2>1. B \in SUBSET Events
    BY <1>2, EventSets
  <2> QED  BY <1>1, <2>1 DEF BalanceTypes, BooksInv, HasCycle
<1>4. \A e \in Sharing \ B2 : \A f \in B : e \notin DOMAIN clearing[f]
  BY <1>1, <1>2
<1>5. \A e \in Sharing \ B2 : F[e] = G[e]
  BY <1>2, <1>4, EventSets
<1>6. ASSUME NEW a \in Accounts, \A f \in B2 : a \notin DOMAIN clearing[f]
      PROVE  Round(F)[a] = G[a]
  <2>1. PICK f, h : /\ f = [e \in Sharing |-> Handed(F[e], e, a)]
                    /\ h = [e \in Sharing |-> Handed(G[e], e, a)]
    OBVIOUS
  <2>2. ASSUME NEW e \in Sharing PROVE Handed(F[e], e, a) = Handed(G[e], e, a)
    <3>1. CASE a \in DOMAIN clearing[e]
      BY <1>5, <1>6, <3>1
    <3>2. CASE a \notin DOMAIN clearing[e]
      <4>1. e \in Events /\ F[e] \in Int /\ G[e] \in Int
        BY EventSets
      <4> QED  BY <3>2, <4>1, HandedType DEF BalanceTypes
    <3> QED  BY <3>1, <3>2
  <2>3. f = h
    BY <2>1, <2>2
  <2>4. Round(F)[a] = before[a] + SumFunction(f) /\ Round(G)[a] = before[a] + SumFunction(h)
    BY <2>1 DEF Round
  <2> QED  BY <2>3, <2>4
<1>7. Waiting(B2, Round(F), G) /\ B2 \in SUBSET B
  BY <1>1, <1>2, <1>4, <1>6 DEF Waiting
<1> QED  BY <1>3, <1>7

LEMMA AllArrives ==
  ASSUME BalanceTypes, NEW G \in [Accounts -> Int], G = Round(G)
  PROVE  Inflow[Cardinality(Events)] = G
<1>1. PICK n, F : n = Cardinality(Events) /\ F = Inflow
  OBVIOUS
<1>2. n \in Nat /\ Rounds(F, n)
  BY <1>1, InflowIs, EventSets, FS_CardinalityType
<1>3. /\ \A i \in 0..n : F[i] \in [Accounts -> Int]
      /\ F[0] = before
      /\ \A i \in 1..n : F[i] = Round(F[i - 1])
  BY <1>2 DEF Rounds
<1>4. \A B \in SUBSET Sharing : IsFiniteSet(B) /\ Cardinality(B) \in Nat /\ Cardinality(B) <= n
  <2>1. \A B \in SUBSET Sharing : B \in SUBSET Events
    BY EventSets
  <2> QED  BY <1>1, <2>1, EventSets, FS_Subset, FS_CardinalityType
<1> DEFINE Few(i) == \E B \in SUBSET Sharing : /\ Waiting(B, F[i], G)
                                               /\ B = {} \/ Cardinality(B) + i <= n
           T == {i \in Nat : i <= n => Few(i)}
<1>5. 0 \in T
  <2>1. ASSUME NEW a \in Accounts, \A f \in Sharing : a \notin DOMAIN clearing[f]
        PROVE  before[a] = G[a]
    <3>1. PICK h : h = [e \in Sharing |-> Handed(G[e], e, a)]
      OBVIOUS
    <3>2. \A e \in Sharing : Handed(G[e], e, a) = 0
      <4>1. \A e \in Sharing : e \in Events /\ G[e] \in Int
        BY EventSets
      <4> QED  BY <2>1, <4>1, HandedType DEF BalanceTypes
    <3>3. h = [e \in Sharing |-> 0]
      BY <3>1, <3>2
    <3>4. SumFunction(h) = 0
      BY <3>3, EventSets, SumOfZeros
    <3>5. G[a] = before[a] + SumFunction(h)
      BY <3>1 DEF Round
    <3> QED  BY <3>4, <3>5 DEF BalanceTypes
  <2>2. Waiting(Sharing, F[0], G)
    BY <1>3, <2>1 DEF Waiting
  <2>3. Cardinality(Sharing) + 0 <= n
    BY <1>2, <1>4
  <2> QED  BY <2>2, <2>3
<1>6. ASSUME NEW i \in Nat, i \in T PROVE i + 1 \in T
  <2> SUFFICES ASSUME i + 1 <= n PROVE Few(i + 1)
    OBVIOUS
  <2>1. i + 1 \in 1..n /\ (i + 1) - 1 = i /\ i \in 0..n
    BY <1>2
  <2>2. F[i] \in [Accounts -> Int] /\ F[i + 1] = Round(F[i])
    BY <1>3, <2>1
  <2>3. PICK B \in SUBSET Sharing : /\ Waiting(B, F[i], G)
                                    /\ B = {} \/ Cardinality(B) + i <= n
    BY <1>2, <1>6, <2>1
  <2>4. PICK B2 \in SUBSET B : Waiting(B2, F[i + 1], G) /\ (B # {} => B2 # B)
    BY <2>2, <2>3, FewerWait
  <2>5. B = {} => B2 = {}
    OBVIOUS
  <2>6. B # {} => Cardinality(B2) < Cardinality(B)
    BY <1>4, <2>4, FS_Subset, FS_CardinalityType
  <2>7. B2 \in SUBSET Sharing /\ Cardinality(B2) \in Nat /\ Cardinality(B) \in Nat
    BY <1>4
  <2>8. B2 = {} \/ Cardinality(B2) + (i + 1) <= n
    BY <1>2, <2>3, <2>5, <2>6, <2>7
  <2> QED  BY <2>4, <2>7, <2>8
<1>7. T = Nat
  <2>1. T \in SUBSET Nat
    OBVIOUS
  <2> HIDE DEF T
  <2> QED  BY <1>5, <1>6, <2>1, Induction
<1>8. Few(n)
  BY <1>2, <1>7
<1>9. PICK B \in SUBSET Sharing : Waiting(B, F[n], G) /\ (B = {} \/ Cardinality(B) + n <= n)
  BY <1>8
<1>10. B = {}
  <2>1. Cardinality(B) + n <= n => Cardinality(B) = 0
    BY <1>2, <1>4
  <2> QED  BY <1>4, <1>9, <2>1, FS_EmptySet
<1>11. \A a \in Accounts : F[n][a] = G[a]
  BY <1>9, <1>10 DEF Waiting
<1>12. F[n] \in [Accounts -> Int]
  BY <1>2, <1>3
<1> QED  BY <1>1, <1>11, <1>12

LEMMA ClearedIsHandedDown ==
  ASSUME BalanceTypes, ClearInv
  PROVE  HandedDown
<1> SUFFICES ASSUME phase = "plan"
             PROVE  \A a \in Accounts : balance[a] = IF a \in Sharing THEN 0
                                                     ELSE Inflow[Cardinality(Events)][a]
  BY DEF HandedDown
<1>1. sorting = <<>> /\ \E g \in [Sharing -> Int] : Explains(g)
  BY DEF ClearInv
<1>2. PICK g \in [Sharing -> Int] : Explains(g)
  BY <1>1
<1>3. \A x : ~In(sorting, x)
  BY <1>1, EmptySequence
<1>4. \A a : Done(a) <=> a \in Sharing
  BY <1>3 DEF Done
<1>5. PICK G : G = [a \in Accounts |-> IF a \in Sharing THEN g[a] ELSE balance[a]]
  OBVIOUS
<1>6. G \in [Accounts -> Int]
  BY <1>5 DEF BalanceTypes
<1>7. \A e \in Sharing : G[e] = g[e]
  BY <1>5, EventSets
<1>8. ASSUME NEW a \in Accounts PROVE G[a] = Round(G)[a]
  <2>1. PICK f : f = [e \in Sharing |-> Handed(G[e], e, a)]
    OBVIOUS
  <2>2. f = [e \in Sharing |-> IF In(sorting, e) THEN 0 ELSE Handed(g[e], e, a)]
    BY <1>3, <1>7, <2>1
  <2>3. Flow(g, a) = before[a] + SumFunction(f)
    BY <2>2 DEF Flow
  <2>4. Round(G)[a] = before[a] + SumFunction(f)
    BY <2>1 DEF Round
  <2>5. G[a] = Flow(g, a)
    BY <1>2, <1>4, <1>5 DEF Explains
  <2> QED  BY <2>3, <2>4, <2>5
<1>9. G = Round(G)
  <2>1. Round(G) \in [Accounts -> Int]
    BY <1>6, RoundType
  <2> QED  BY <1>6, <1>8, <2>1
<1>10. Inflow[Cardinality(Events)] = G
  BY <1>6, <1>9, AllArrives
<1> QED  BY <1>2, <1>4, <1>5, <1>10 DEF Explains

BalanceInv == BalanceTypes /\ SortInv /\ ClearInv

LEMMA BooksOpened ==
  ASSUME BalanceTypes, OpenBooks
  PROVE  BalanceTypes'
<1>1. /\ balance' = [a \in Accounts |-> SumAll(LAMBDA t : Effect(bills[t], a), Alive)]
      /\ before' = balance' /\ phase' = "sort" /\ bills' = bills /\ clearing' = clearing
      /\ resolution' = resolution
  BY DEF OpenBooks, books
<1>2. IsFiniteSet(Alive)
  BY InputTypes, FS_Subset DEF Alive
<1>3. \A t \in Alive : bills[t] \in BillSet
  BY DEF BalanceTypes, BooksInv, Alive, NoBill
<1>4. ASSUME NEW a \in Accounts PROVE balance'[a] \in Int
  <2>1. PICK f : f = [t \in Alive |-> Effect(bills[t], a)]
    OBVIOUS
  <2>2. f \in [Alive -> Int]
    BY <1>3, <2>1, EffectType
  <2>3. balance'[a] = SumFunction(f)
    BY <1>1, <2>1 DEF SumAll
  <2> QED  BY <1>2, <2>2, <2>3, SumIsInt
<1>5. balance' \in [Accounts -> Int]
  BY <1>1, <1>4
<1> QED  BY <1>1, <1>5 DEF BalanceTypes, BooksInv

LEMMA BalanceInit ==
  ASSUME Init
  PROVE  BalanceInv
<1>1. /\ bills = [t \in Bills |-> NoBill] /\ clearing \in Clearings /\ ~HasCycle(clearing)
      /\ phase = "edit" /\ balance = [a \in Accounts |-> 0] /\ before = balance
      /\ resolution = [e \in Events |-> NoShares] /\ sorting = <<>>
  BY DEF Init
<1>2. BooksInv
  BY <1>1, InputsAre DEF BooksInv
<1>3. BalanceTypes
  BY <1>1, <1>2, NoSharesIsParts DEF BalanceTypes, NotYet
<1> QED  BY <1>1, <1>3 DEF BalanceInv, SortInv, ClearInv

\* Steps that leave alone what the clearing works on.
LEMMA ClearedStays ==
  ASSUME phase \in {"clear", "plan"}, ClearInv,
         UNCHANGED <<clearing, balance, before, resolution, sorting>>,
         phase' = "plan" => sorting = <<>>
  PROVE  ClearInv'
<1>1. Sharing' = Sharing
  BY DEF Sharing
<1>2. \A e : Done(e)' <=> Done(e)
  BY <1>1 DEF Done
<1>3. \A a : HistoryEnd(a)' = HistoryEnd(a)
  BY DEF HistoryEnd, SumAll
<1>4. ASSUME NEW g PROVE Explains(g)' <=> Explains(g)
  <2>1. \A a : Flow(g, a)' = Flow(g, a)
    BY <1>1 DEF Flow, Handed
  <2> QED  BY <1>2, <2>1 DEF Explains
<1>5. Topological(sorting)' <=> Topological(sorting)
  BY DEF Topological
<1>6. /\ sorting \in Seq(Sharing) /\ Once(sorting) /\ Topological(sorting)
      /\ \A e, f \in Sharing : ~In(sorting, e) /\ In(sorting, f) => e \notin DOMAIN clearing[f]
      /\ \A e \in Sharing : In(sorting, e) => resolution[e] = NoShares
      /\ \A a \in Accounts \ Sharing : HistoryEnd(a) = balance[a]
      /\ \E g \in [Sharing -> Int] : Explains(g)
  BY DEF ClearInv
<1>7. \E g \in [Sharing' -> Int] : Explains(g)'
  BY <1>1, <1>4, <1>6
<1>8. \A a \in Accounts \ Sharing' : HistoryEnd(a)' = balance'[a]
  BY <1>1, <1>3, <1>6
<1> QED  BY <1>1, <1>5, <1>6, <1>7, <1>8 DEF ClearInv

\* What only the two lists of the plan change.
LEMMA NothingCleared ==
  ASSUME BalanceInv, UNCHANGED <<books, phase, clearingVars>>
  PROVE  BalanceInv'
<1>1. /\ bills' = bills /\ clearing' = clearing /\ phase' = phase /\ balance' = balance
      /\ before' = before /\ resolution' = resolution /\ inDegree' = inDegree
      /\ ready' = ready /\ sorting' = sorting
  BY DEF books, clearingVars
<1>2. BalanceTypes'
  BY <1>1 DEF BalanceInv, BalanceTypes, BooksInv, NotYet
<1>3. SortInv'
  BY <1>1 DEF BalanceInv, SortInv, Sharing, Before, NotYet, Topological
<1>4. ClearInv'
  <2>1. CASE phase \in {"clear", "plan"}
    <3>1. ClearInv /\ (phase' = "plan" => sorting = <<>>)
      BY <1>1, <2>1 DEF BalanceInv, ClearInv
    <3> QED  BY <1>1, <2>1, <3>1, ClearedStays
  <2>2. CASE phase \notin {"clear", "plan"}
    BY <1>1, <2>2 DEF ClearInv
  <2> QED  BY <2>1, <2>2
<1> QED  BY <1>2, <1>3, <1>4 DEF BalanceInv

LEMMA EditKeeps ==
  Edit => phase = "edit" /\ UNCHANGED <<clearing, phase, clearingVars, settlement>>
<1>1. \A t, draft, touched :
        SaveBill(t, draft, touched) => phase = "edit" /\ UNCHANGED <<clearing, phase, clearingVars, settlement>>
  BY DEF SaveBill
<1>2. \A t, touched :
        UpdatePositions(t, touched) => phase = "edit" /\ UNCHANGED <<clearing, phase, clearingVars, settlement>>
  BY DEF UpdatePositions
<1>3. \A t : DeleteBill(t) => phase = "edit" /\ UNCHANGED <<clearing, phase, clearingVars, settlement>>
  BY DEF DeleteBill
<1> QED  BY <1>1, <1>2, <1>3 DEF Edit

LEMMA BalanceStep ==
  ASSUME BalanceInv, [Next]_vars
  PROVE  BalanceInv'
<1>0. BalanceTypes /\ SortInv /\ ClearInv
  BY DEF BalanceInv
<1>1. CASE Edit
  <2>1. /\ phase = "edit" /\ phase' = phase /\ balance' = balance /\ before' = before
        /\ resolution' = resolution /\ sorting' = sorting
    BY <1>1, EditKeeps DEF clearingVars
  <2>2. BooksInv'
    BY <1>0, <1>1, EditBooks DEF BalanceTypes
  <2>3. BalanceTypes'
    BY <1>0, <2>1, <2>2 DEF BalanceTypes, NotYet
  <2> QED  BY <2>1, <2>3 DEF BalanceInv, SortInv, ClearInv
<1>2. CASE OpenBooks
  <2>1. phase = "edit" /\ phase' = "sort"
    BY <1>2 DEF OpenBooks
  <2>2. SortInv'
    BY <1>0, <1>2, <2>1, OpenBooksSorts DEF BalanceTypes
  <2> QED  BY <1>0, <1>2, <2>1, <2>2, BooksOpened DEF BalanceInv, ClearInv
<1>3. CASE OpenFails
  <2>1. /\ bills' = bills /\ clearing' = clearing /\ phase' = "failed" /\ balance' = balance
        /\ before' = before /\ resolution' = resolution
    BY <1>3 DEF OpenFails, books, clearingVars
  <2>2. BalanceTypes'
    BY <1>0, <2>1 DEF BalanceTypes, BooksInv
  <2> QED  BY <2>1, <2>2 DEF BalanceInv, SortInv, ClearInv
<1>4. CASE SortNext
  <2>1. /\ bills' = bills /\ clearing' = clearing /\ phase = "sort" /\ phase' = "sort"
        /\ balance' = balance /\ before' = before /\ resolution' = resolution
    BY <1>4 DEF SortNext, books
  <2>2. BalanceTypes'
    BY <1>0, <2>1 DEF BalanceTypes, BooksInv
  <2>3. SortInv'
    BY <1>0, <1>4, <2>1, PersonPopped, EventPopped DEF BalanceTypes
  <2> QED  BY <2>1, <2>2, <2>3 DEF BalanceInv, ClearInv
<1>5. CASE SortEnds
  <2>1. /\ bills' = bills /\ clearing' = clearing /\ phase' = "clear" /\ balance' = balance
        /\ before' = before /\ resolution' = resolution
    BY <1>5 DEF SortEnds, books, clearingVars
  <2>2. BalanceTypes'
    BY <1>0, <2>1 DEF BalanceTypes, BooksInv
  <2>3. ClearInv'
    BY <1>0, <1>5, ClearingStarts
  <2> QED  BY <2>1, <2>2, <2>3 DEF BalanceInv, SortInv
<1>6. CASE ClearNext
  <2>1. phase' = "clear"
    BY <1>6 DEF ClearNext
  <2> QED  BY <1>0, <1>6, <2>1, EventCleared DEF BalanceInv, SortInv
<1>7. CASE ClearEnds
  <2>1. /\ bills' = bills /\ clearing' = clearing /\ phase = "clear" /\ phase' = "plan"
        /\ balance' = balance /\ before' = before /\ resolution' = resolution
        /\ sorting' = sorting /\ sorting = <<>>
    BY <1>7 DEF ClearEnds, books, clearingVars
  <2>2. BalanceTypes'
    BY <1>0, <2>1 DEF BalanceTypes, BooksInv
  <2>3. ClearInv'
    BY <1>0, <2>1, ClearedStays
  <2> QED  BY <2>1, <2>2, <2>3 DEF BalanceInv, SortInv
<1>8. CASE PlanNext \/ UNCHANGED vars
  <2>1. UNCHANGED <<books, phase, clearingVars>>
    BY <1>8 DEF PlanNext, vars, books, clearingVars
  <2> QED  BY <2>1, NothingCleared
<1> QED  BY <1>1, <1>2, <1>3, <1>4, <1>5, <1>6, <1>7, <1>8 DEF Next, Turn

LEMMA BalancesHold == Spec => []BalanceInv
<1> QED  BY BalanceInit, BalanceStep, PTL DEF Spec

\* Every event is handed down once, after all that flows into it has arrived
\* (the stack over in-degrees of computeAccountBalances): what the accounts end
\* up with is what the rounds of handing down come to, whatever the books are.
THEOREM ClearedOnceInOrder == Spec => []HandedDown
<1>1. BalanceInv => HandedDown
  BY ClearedIsHandedDown DEF BalanceInv
<1> QED  BY <1>1, BalancesHold, PTL

\* The history of an account, added up from the bills and from what the
\* clearing noted of each event, ends at the balance the clearing arrived at.
THEOREM HistoriesEnd == Spec => []HistoryEndsAtBalance
<1>1. BalanceInv => HistoryEndsAtBalance
  BY DEF BalanceInv, ClearInv, HistoryEndsAtBalance
<1> QED  BY <1>1, BalancesHold, PTL

\* settlementFor hands the plan whole balances of all accounts, and nothing
\* else touches its state: what is proved of the plan for any balances holds
\* for those of a group.
THEOREM BalancesCallSettlement == Spec => SettlementSpec
<1>1. Init => SettlementInit
  BY DEF Init
<1>2. BalanceInv /\ [Next]_vars
        => [SettlementNext \/ Call]_settlement
  <2> SUFFICES ASSUME BalanceInv, [Next]_vars
               PROVE  SettlementNext \/ Call \/ UNCHANGED settlement
    OBVIOUS
  <2>1. CASE PlanNext
    BY <2>1 DEF PlanNext
  <2>2. CASE ClearEnds
    BY <2>2 DEF ClearEnds, Call, BalanceInv, BalanceTypes
  <2>3. CASE Edit
    BY <2>3, EditKeeps
  <2>4. CASE OpenBooks \/ OpenFails \/ SortNext \/ SortEnds \/ ClearNext
    BY <2>4 DEF OpenBooks, OpenFails, SortNext, SortEnds, ClearNext
  <2>5. CASE UNCHANGED vars
    BY <2>5 DEF vars
  <2> QED  BY <2>1, <2>2, <2>3, <2>4, <2>5 DEF Next, Turn
<1> QED  BY <1>1, <1>2, BalancesHold, PTL DEF Spec, SettlementSpec

\* From the books of a group to the payments shown: the plan only lets those
\* pay who owe, settles exact pairs first, and leaves open less than a cent
\* for each payment not shown.
THEOREM GroupIsSettled == Spec => ImplementsPlan /\ []ExactPairsFirst /\ []SettlesUpToRounding
<1> QED
  BY BalancesCallSettlement, SettlementImplementsPlan, ExactPairsAreFound, SettledUpToRounding, PTL

(***************************************************************************)
(* More about sums, and about numbers that are a whole number of another.  *)
(***************************************************************************)
LEMMA SumTimes ==
  ASSUME NEW S, IsFiniteSet(S), NEW f \in [S -> Int], NEW h \in [S -> Int], NEW k \in Int,
         \A x \in S : h[x] = k * f[x]
  PROVE  SumFunction(h) = k * SumFunction(f)
<1>1. PICK a : SetSums(a, f, S)
  BY SetSumsExist
<1>2. /\ a \in [SUBSET S -> Int] /\ a[{}] = 0
      /\ \A T \in SUBSET S : \A x \in T : a[T] = f[x] + a[T \ {x}]
  BY <1>1 DEF SetSums
<1>3. PICK c : c = [T \in SUBSET S |-> k * a[T]]
  OBVIOUS
<1>4. SetSums(c, h, S)
  <2>1. \A n \in Int : k * n \in Int
    OBVIOUS
  <2>2. c \in [SUBSET S -> Int]
    BY <1>2, <1>3, <2>1
  <2>3. c[{}] = 0
    <3>1. k * 0 = 0
      OBVIOUS
    <3> QED  BY <1>2, <1>3, <3>1
  <2>4. ASSUME NEW T \in SUBSET S, NEW x \in T PROVE c[T] = h[x] + c[T \ {x}]
    <3>1. PICK m, n : m = f[x] /\ n = a[T \ {x}]
      OBVIOUS
    <3>2. x \in S /\ T \ {x} \in SUBSET S
      OBVIOUS
    <3>3. m \in Int /\ n \in Int /\ a[T] = m + n
      BY <1>2, <3>1, <3>2
    <3>4. c[T] = k * (m + n) /\ h[x] = k * m /\ c[T \ {x}] = k * n
      BY <1>3, <3>1, <3>2, <3>3
    <3>5. k * (m + n) = k * m + k * n
      BY ONLY <3>3, k \in Int
    <3> QED  BY <3>4, <3>5
  <2> QED  BY <2>2, <2>3, <2>4 DEF SetSums
<1>5. SumFunction(f) = a[S] /\ SumFunction(h) = c[S]
  BY <1>1, <1>4, SumIs
<1> QED  BY <1>3, <1>5

\* Zeros of other elements add nothing.
LEMMA SumOverMore ==
  ASSUME NEW W, IsFiniteSet(W), NEW S \in SUBSET W, NEW f \in [S -> Int], NEW h \in [W -> Int],
         \A x \in W : h[x] = IF x \in S THEN f[x] ELSE 0
  PROVE  SumFunction(h) = SumFunction(f)
<1>1. PICK a : SetSums(a, h, W)
  BY SetSumsExist
<1>2. /\ a \in [SUBSET W -> Int] /\ a[{}] = 0
      /\ \A T \in SUBSET W : \A x \in T : a[T] = h[x] + a[T \ {x}]
  BY <1>1 DEF SetSums
<1>3. PICK b : b = [T \in SUBSET S |-> a[T]]
  OBVIOUS
<1>4. SetSums(b, f, S)
  <2>1. \A T \in SUBSET S : T \in SUBSET W /\ b[T] = a[T]
    BY <1>3
  <2>2. b \in [SUBSET S -> Int] /\ b[{}] = 0
    BY <1>2, <1>3, <2>1
  <2>3. ASSUME NEW T \in SUBSET S, NEW x \in T PROVE b[T] = f[x] + b[T \ {x}]
    BY <1>2, <2>1
  <2> QED  BY <2>2, <2>3 DEF SetSums
<1>5. IsFiniteSet(S)
  BY FS_Subset
<1>6. SumFunction(h) = a[W] /\ SumFunction(f) = b[S] /\ b[S] = a[S]
  BY <1>1, <1>3, <1>4, <1>5, SumIs
<1> DEFINE G == {A \in SUBSET (W \ S) : a[S \cup A] = a[S]}
<1>7. {} \in G
  OBVIOUS
<1>8. ASSUME NEW A \in G, NEW x \in (W \ S) \ A PROVE A \cup {x} \in G
  <2>1. (S \cup (A \cup {x})) \ {x} = S \cup A /\ S \cup (A \cup {x}) \in SUBSET W
    OBVIOUS
  <2>2. a[S \cup (A \cup {x})] = h[x] + a[S \cup A]
    BY <1>2, <2>1
  <2>3. h[x] = 0 /\ a[S] \in Int
    BY <1>2
  <2> QED  BY <2>2, <2>3
<1>9. W \ S \in G
  <2>1. G \in SUBSET SUBSET (W \ S) /\ IsFiniteSet(W \ S)
    BY FS_Subset
  <2> HIDE DEF G
  <2>2. G = SUBSET (W \ S)
    BY <1>7, <1>8, <2>1, PartsInduction
  <2> QED  BY <2>2
<1>10. S \cup (W \ S) = W
  OBVIOUS
<1> QED  BY <1>6, <1>9, <1>10

\* The sum of a table by rows and by columns.
LEMMA SumSwap ==
  ASSUME NEW S, IsFiniteSet(S), NEW A, IsFiniteSet(A),
         NEW F, \A x \in S : F[x] \in [A -> Int],
         NEW rows, rows = [x \in S |-> SumFunction(F[x])],
         NEW cols, cols = [y \in A |-> SumFunction([x \in S |-> F[x][y]])]
  PROVE  SumFunction(rows) = SumFunction(cols)
<1>1. PICK col : col = [y \in A |-> [x \in S |-> F[x][y]]]
  OBVIOUS
<1>2. \A y \in A : col[y] \in [S -> Int] /\ \A x \in S : col[y][x] = F[x][y]
  BY <1>1
<1>3. \A y \in A : \E g : SetSums(g, col[y], S)
  BY <1>2, SetSumsExist
<1>4. PICK C : C = [y \in A |-> CHOOSE g : SetSums(g, col[y], S)]
  OBVIOUS
<1>5. \A y \in A : SetSums(C[y], col[y], S)
  BY <1>3, <1>4
<1>6. ASSUME NEW y \in A
      PROVE  /\ C[y] \in [SUBSET S -> Int] /\ C[y][{}] = 0
             /\ \A T \in SUBSET S : \A x \in T : C[y][T] = F[x][y] + C[y][T \ {x}]
  <2>1. PICK g, h : g = C[y] /\ h = col[y]
    OBVIOUS
  <2>2. SetSums(g, h, S) /\ \A x \in S : h[x] = F[x][y]
    BY <1>2, <1>5, <2>1
  <2>3. /\ g \in [SUBSET S -> Int] /\ g[{}] = 0
        /\ \A T \in SUBSET S : \A x \in T : g[T] = h[x] + g[T \ {x}]
    BY <2>2 DEF SetSums
  <2>4. \A T \in SUBSET S : \A x \in T : h[x] = F[x][y]
    BY <2>2
  <2>5. \A T \in SUBSET S : \A x \in T : g[T] = F[x][y] + g[T \ {x}]
    BY ONLY <2>3, <2>4
  <2> QED  BY <2>1, <2>3, <2>5
<1>7. rows \in [S -> Int]
  BY SumIsInt
<1>8. PICK R : SetSums(R, rows, S)
  BY <1>7, SetSumsExist
<1>9. /\ R[{}] = 0
      /\ \A T \in SUBSET S : \A x \in T : R[T] = rows[x] + R[T \ {x}]
  BY <1>8 DEF SetSums
<1> DEFINE Row(B) == [y \in A |-> C[y][B]]
           G == {B \in SUBSET S : R[B] = SumFunction(Row(B))}
<1>10. \A B \in SUBSET S : Row(B) \in [A -> Int]
  BY <1>6
<1>11. {} \in G
  <2>1. Row({}) = [y \in A |-> 0]
    BY <1>6
  <2> HIDE DEF Row
  <2>2. SumFunction(Row({})) = 0
    BY <2>1, SumOfZeros
  <2> QED  BY <1>9, <2>2
<1>12. ASSUME NEW B \in G, NEW x \in S \ B PROVE B \cup {x} \in G
  <2>1. PICK B2, p, q : B2 = B \cup {x} /\ p = Row(B) /\ q = Row(B2)
    OBVIOUS
  <2>2. B2 \in SUBSET S /\ B2 \ {x} = B /\ x \in S /\ x \in B2
    BY <2>1
  <2>3. p \in [A -> Int] /\ q \in [A -> Int] /\ F[x] \in [A -> Int]
    BY <1>10, <2>1, <2>2
  <2>4. \A y \in A : q[y] = F[x][y] + p[y]
    <3>1. ASSUME NEW y \in A PROVE C[y][B2] = F[x][y] + C[y][B]
      <4>1. \A T \in SUBSET S : \A z \in T : C[y][T] = F[z][y] + C[y][T \ {z}]
        BY ONLY <1>6, y \in A
      <4>2. C[y][B2] = F[x][y] + C[y][B2 \ {x}]
        BY ONLY <2>2, <4>1
      <4> QED  BY <2>2, <4>2
    <3>2. \A y \in A : q[y] = C[y][B2] /\ p[y] = C[y][B]
      BY <2>1
    <3> QED  BY ONLY <3>1, <3>2
  <2>5. SumFunction(q) = SumFunction(F[x]) + SumFunction(p)
    BY ONLY <2>3, <2>4, IsFiniteSet(A), SumPlus
  <2>6. R[B2] = rows[x] + R[B]
    <3>1. R[B2] = rows[x] + R[B2 \ {x}]
      BY <1>9, <2>2
    <3> QED  BY <2>2, <3>1
  <2>7. rows[x] = SumFunction(F[x]) /\ R[B] = SumFunction(p)
    BY <2>1, <2>2
  <2> QED  BY <2>1, <2>2, <2>5, <2>6, <2>7
<1>13. S \in G
  <2>1. G \in SUBSET SUBSET S
    OBVIOUS
  <2> HIDE DEF G
  <2>2. G = SUBSET S
    BY <1>11, <1>12, <2>1, PartsInduction
  <2> QED  BY <2>2
<1>14. SumFunction(rows) = R[S]
  BY <1>7, <1>8, SumIs
<1>15. PICK r : r = Row(S)
  OBVIOUS
<1>16. R[S] = SumFunction(r)
  BY <1>13, <1>15
<1>17. r = cols
  <2>1. ASSUME NEW y \in A PROVE C[y][S] = SumFunction(col[y])
    BY <1>2, <1>5, SumIs
  <2>2. \A y \in A : col[y] = [x \in S |-> F[x][y]]
    BY <1>1
  <2>3. \A y \in A : r[y] = cols[y]
    BY <1>15, <2>1, <2>2
  <2> QED  BY <1>15, <2>3
<1> QED  BY <1>14, <1>16, <1>17

Multiple(x, m) == \E k \in Int : x = m * k

LEMMA Multiples ==
  ASSUME NEW m \in Int
  PROVE  /\ Multiple(0, m)
         /\ \A x, y \in Int : Multiple(x, m) /\ Multiple(y, m)
                                => Multiple(x + y, m) /\ Multiple(x - y, m)
         /\ \A x, s \in Int : Multiple(x, m) => Multiple(x * s, m)
         /\ \A x, t \in Int : Multiple(x, m * t) => Multiple(x, m)
<1>1. Multiple(0, m)
  <2>1. 0 = m * 0 /\ 0 \in Int
    OBVIOUS
  <2> QED  BY <2>1 DEF Multiple
<1>2. ASSUME NEW x \in Int, NEW y \in Int, Multiple(x, m), Multiple(y, m)
      PROVE  Multiple(x + y, m) /\ Multiple(x - y, m)
  <2>1. PICK k \in Int, j \in Int : x = m * k /\ y = m * j
    BY <1>2 DEF Multiple
  <2>2. x + y = m * (k + j) /\ x - y = m * (k - j) /\ k + j \in Int /\ k - j \in Int
    BY <2>1
  <2> QED  BY <2>2 DEF Multiple
<1>3. ASSUME NEW x \in Int, NEW s \in Int, Multiple(x, m) PROVE Multiple(x * s, m)
  <2>1. PICK k \in Int : x = m * k
    BY <1>3 DEF Multiple
  <2>2. x * s = m * (k * s) /\ k * s \in Int
    BY <2>1
  <2> QED  BY <2>2 DEF Multiple
<1>4. ASSUME NEW x \in Int, NEW t \in Int, Multiple(x, m * t) PROVE Multiple(x, m)
  <2>1. PICK k \in Int : x = (m * t) * k
    BY <1>4 DEF Multiple
  <2>2. x = m * (t * k) /\ t * k \in Int
    BY <2>1
  <2> QED  BY <2>2 DEF Multiple
<1> QED  BY <1>1, <1>2, <1>3, <1>4

LEMMA MultipleSum ==
  ASSUME NEW m \in Int, NEW x \in Int, NEW y \in Int, Multiple(x, m), Multiple(y, m)
  PROVE  Multiple(x + y, m) /\ Multiple(x - y, m)
BY Multiples

LEMMA MultipleTimes ==
  ASSUME NEW m \in Int, NEW x \in Int, NEW k \in Int, Multiple(x, m)
  PROVE  Multiple(x * k, m)
BY Multiples

LEMMA SumMultiple ==
  ASSUME NEW S, IsFiniteSet(S), NEW f \in [S -> Int], NEW m \in Int,
         \A x \in S : Multiple(f[x], m)
  PROVE  Multiple(SumFunction(f), m)
<1>1. PICK a : SetSums(a, f, S)
  BY SetSumsExist
<1>2. /\ a \in [SUBSET S -> Int] /\ a[{}] = 0
      /\ \A T \in SUBSET S : \A x \in T : a[T] = f[x] + a[T \ {x}]
  BY <1>1 DEF SetSums
<1> DEFINE G == {A \in SUBSET S : Multiple(a[A], m)}
<1>3. {} \in G
  BY <1>2, Multiples
<1>4. ASSUME NEW A \in G, NEW x \in S \ A PROVE A \cup {x} \in G
  <2>1. A \cup {x} \in SUBSET S /\ (A \cup {x}) \ {x} = A /\ x \in S
    OBVIOUS
  <2>2. a[A \cup {x}] = f[x] + a[A] /\ a[A] \in Int /\ f[x] \in Int
    BY <1>2, <2>1
  <2>3. Multiple(f[x], m) /\ Multiple(a[A], m)
    BY <2>1
  <2>4. Multiple(f[x] + a[A], m)
    BY <2>2, <2>3, Multiples
  <2> QED  BY <2>1, <2>2, <2>4
<1>5. S \in G
  <2>1. G \in SUBSET SUBSET S
    OBVIOUS
  <2> HIDE DEF G
  <2>2. G = SUBSET S
    BY <1>3, <1>4, <2>1, PartsInduction
  <2> QED  BY <2>2
<1>6. SumFunction(f) = a[S]
  BY <1>1, SumIs
<1> QED  BY <1>5, <1>6

\* A part of a whole number of shares is exact, and of the same grain.
LEMMA PartExact ==
  ASSUME NEW x \in Int, NEW share \in Int, NEW whole \in Int, whole > 0, NEW k \in Int,
         x = whole * k
  PROVE  Part(x, share, whole) = k * share
<1>1. PICK z : z = k * share /\ z \in Int
  OBVIOUS
<1>2. PICK y : y = x * share /\ y \in Int
  OBVIOUS
<1>3. y = whole * z
  BY <1>1, <1>2
<1>4. y \div whole = z
  BY ONLY <1>1, <1>2, <1>3, whole \in Int, whole > 0
<1> QED  BY <1>1, <1>2, <1>4 DEF Part

LEMMA PartMultiple ==
  ASSUME NEW x \in Int, NEW share \in Int, NEW whole \in Int, whole > 0, NEW m \in Int,
         Multiple(x, whole * m)
  PROVE  Multiple(Part(x, share, whole), m)
<1>1. PICK j \in Int : x = (whole * m) * j
  BY DEF Multiple
<1>2. PICK k : k = m * j /\ k \in Int
  OBVIOUS
<1>3. x = whole * k
  BY <1>1, <1>2
<1>4. Part(x, share, whole) = k * share
  BY <1>2, <1>3, PartExact
<1>5. Multiple(k, m)
  BY <1>2 DEF Multiple
<1>6. Multiple(k * share, m)
  BY ONLY <1>2, <1>5, m \in Int, share \in Int, Multiples
<1> QED  BY <1>4, <1>6

\* What is shared out among the holders of shares.
LEMMA SharedOut ==
  ASSUME NEW s \in Parts, NEW x \in Int, NEW whole \in Int, whole > 0, NEW k \in Int,
         x = whole * k
  PROVE  SumFunction([a \in Accounts |-> Part(x, ShareOf(s, a), whole)]) = k * TotalOf(s)
<1>1. PICK S \in SUBSET Accounts : s \in [S -> Int]
  BY DEF Parts
<1>2. PICK f, h : /\ f = [a \in Accounts |-> ShareOf(s, a)]
                  /\ h = [a \in Accounts |-> Part(x, ShareOf(s, a), whole)]
  OBVIOUS
<1>3. \A a \in Accounts : ShareOf(s, a) \in Int
  BY PartsAre
<1>4. \A a \in Accounts : Part(x, ShareOf(s, a), whole) = k * ShareOf(s, a)
  BY <1>3, PartExact
<1>5. f \in [Accounts -> Int]
  BY <1>2, <1>3
<1>6. \A a \in Accounts : h[a] = k * f[a]
  BY <1>2, <1>4
<1>7. h \in [Accounts -> Int]
  <2>1. \A a \in Accounts : h[a] \in Int
    BY <1>5, <1>6
  <2> QED  BY <1>2, <2>1
<1>8. SumFunction(h) = k * SumFunction(f)
  BY <1>5, <1>6, <1>7, FiniteAccounts, SumTimes
<1>9. SumFunction(f) = SumFunction(s)
  <2>1. \A a \in Accounts : f[a] = IF a \in S THEN s[a] ELSE 0
    BY <1>1, <1>2 DEF ShareOf
  <2> QED  BY <1>1, <1>5, <2>1, FiniteAccounts, SumOverMore
<1> QED  BY <1>2, <1>8, <1>9 DEF TotalOf

LEMMA Divided ==
  ASSUME NEW x \in Int, NEW n \in Int, n > 0, x % n = 0
  PROVE  Multiple(x, n)
<1>1. x = n * (x \div n) /\ x \div n \in Int
  BY ONLY x \in Int, n \in Int, n > 0, x % n = 0
<1> QED  BY <1>1 DEF Multiple

\* Shares that are positive add up to something, unless there are none.
LEMMA SharesAddUp ==
  ASSUME NEW s \in Parts, DOMAIN s # {}, \A a \in DOMAIN s : s[a] > 0
  PROVE  TotalOf(s) > 0
<1>1. PICK S \in SUBSET Accounts : s \in [S -> Int]
  BY DEF Parts
<1>2. IsFiniteSet(S) /\ S = DOMAIN s
  BY <1>1, FiniteAccounts, FS_Subset
<1>3. PICK d \in S : TRUE
  BY <1>2
<1>4. PICK f : f = [x \in S |-> IF x = d THEN 1 ELSE 0]
  OBVIOUS
<1>5. f \in [S -> Int]
  BY <1>4
<1>6. \A x \in S : f[x] <= s[x]
  <2>1. \A x \in S : s[x] \in Int /\ s[x] > 0
    BY <1>1, <1>2
  <2> QED  BY <1>4, <2>1
<1>7. SumFunction(f) = 1
  BY <1>2, <1>4, SumOfOne
<1>8. SumFunction(f) <= SumFunction(s) /\ SumFunction(s) \in Int
  BY <1>1, <1>2, <1>5, <1>6, SumAtMost, SumIsInt
<1> QED  BY <1>7, <1>8 DEF TotalOf

\* What the constraints let in has somebody who paid and somebody it was for.
LEMMA AcceptedIsShared ==
  ASSUME NEW d \in Drafts, NEW touched, Accepted(d, touched)
  PROVE  TotalOf(d.creditors) > 0 /\ TotalOf(d.debitors) > 0 /\ DOMAIN d.creditors # {}
<1>1. /\ d.type \in {"purchase", "mimo", "transfer"}
      /\ d.creditors \in Parts /\ d.debitors \in Parts
      /\ \A a \in DOMAIN d.creditors : d.creditors[a] > 0
      /\ \A a \in DOMAIN d.debitors : d.debitors[a] > 0
  BY InputTypes, InputsAre
<1>2. PICK m, n : m = Cardinality(DOMAIN d.creditors) /\ n = Cardinality(DOMAIN d.debitors)
  OBVIOUS
<1>3. (m = 1 \/ m >= 1) /\ (n = 1 \/ n >= 1)
  BY <1>1, <1>2 DEF Accepted
<1>4. DOMAIN d.creditors # {} /\ DOMAIN d.debitors # {}
  BY <1>2, <1>3, FS_EmptySet
<1> QED  BY <1>1, <1>4, SharesAddUp, PartsAre

-----------------------------------------------------------------------------
\* Every amount of a bill can be divided by its divisors and still be a
\* multiple of m.
Fine(bill, m) ==
  /\ Multiple(Scale, TotalOf(bill.creditors) * m)
  /\ Multiple(Scale, TotalOf(bill.debitors) * m)
  /\ \A p \in Positions : Assigned(p) => Multiple(Scale, (TotalOf(bill.debitors) * ItemWhole(p)) * m)

ItemTaken(item) == IF Assigned(item) THEN item.price * Scale ELSE 0

LEMMA ItemTypes ==
  ASSUME NEW item \in Positions
  PROVE  /\ item.price \in Int /\ item.communist \in Int /\ item.usages \in Parts
         /\ TotalOf(item.usages) \in Int /\ ItemWhole(item) \in Int
         /\ Scale \in Int /\ item.price * Scale \in Int
         /\ \A share \in Int : ItemPart(item, share) \in Int
<1>1. item.price \in Int /\ item.communist \in Int /\ item.usages \in Parts /\ Scale \in Int
  BY InputsAre, ScalePositive
<1>2. TotalOf(item.usages) \in Int
  BY <1>1, PartsAre
<1>3. ItemWhole(item) \in Int
  BY <1>1, <1>2 DEF ItemWhole
<1>4. item.price * Scale \in Int
  BY <1>1
<1> QED  BY <1>1, <1>2, <1>3, <1>4, PartType DEF ItemPart

\* A position somebody is assigned to is divided without a rest, between
\* those it names and all of the bill.
LEMMA ItemDivided ==
  ASSUME NEW item \in Positions, Assigned(item) => Multiple(Scale, ItemWhole(item))
  PROVE  SumFunction([a \in Accounts |-> ItemPart(item, ShareOf(item.usages, a))])
           + ItemPart(item, item.communist) = ItemTaken(item)
<1>1. PICK n, t, c, x : /\ n = ItemWhole(item) /\ t = TotalOf(item.usages) /\ c = item.communist
                        /\ x = item.price * Scale
  OBVIOUS
<1>2. n \in Int /\ t \in Int /\ c \in Int /\ x \in Int /\ n = t + c /\ item.usages \in Parts
  BY <1>1, ItemTypes DEF ItemWhole
<1>3. PICK h : h = [a \in Accounts |-> Part(x, ShareOf(item.usages, a), n)]
  OBVIOUS
<1>4. [a \in Accounts |-> ItemPart(item, ShareOf(item.usages, a))] = h
      /\ ItemPart(item, item.communist) = Part(x, c, n)
  BY <1>1, <1>3 DEF ItemPart
<1>5. CASE Assigned(item)
  <2>1. n > 0
    BY <1>1, <1>5 DEF Assigned
  <2>2. PICK j \in Int : Scale = n * j
    BY <1>1, <1>5 DEF Multiple
  <2>3. PICK k : k = item.price * j
    OBVIOUS
  <2>4. item.price \in Int
    BY ItemTypes
  <2>5. k \in Int /\ x = n * k
    <3>1. PICK pr : pr = item.price
      OBVIOUS
    <3>2. pr \in Int /\ j \in Int /\ n \in Int /\ k = pr * j /\ x = pr * (n * j)
      BY <1>1, <1>2, <2>2, <2>3, <2>4, <3>1
    <3> QED  BY ONLY <3>2
  <2>6. SumFunction(h) = k * t
    BY <1>1, <1>2, <1>3, <2>1, <2>5, SharedOut
  <2>7. Part(x, c, n) = k * c
    BY <1>2, <2>1, <2>5, PartExact
  <2>8. k * t + k * c = x
    BY ONLY <1>2, <2>5
  <2> QED  BY <1>1, <1>4, <1>5, <2>6, <2>7, <2>8 DEF ItemTaken
<1>6. CASE ~Assigned(item)
  <2>1. ~(n > 0)
    BY <1>1, <1>6 DEF Assigned
  <2>2. h = [a \in Accounts |-> 0] /\ Part(x, c, n) = 0
    BY <1>3, <2>1 DEF Part
  <2>3. SumFunction(h) = 0
    BY <2>2, FiniteAccounts, SumOfZeros
  <2> QED  BY <1>4, <1>6, <2>2, <2>3 DEF ItemTaken
<1> QED  BY <1>5, <1>6

LEMMA ItemPartMultiple ==
  ASSUME NEW item \in Positions, NEW m \in Int, NEW share \in Int,
         Assigned(item) => Multiple(Scale, ItemWhole(item) * m)
  PROVE  Multiple(ItemPart(item, share), m)
<1>1. PICK n, x : n = ItemWhole(item) /\ x = item.price * Scale
  OBVIOUS
<1>2. n \in Int /\ x \in Int /\ item.price \in Int /\ Scale \in Int
  BY <1>1, ItemTypes
<1>3. ItemPart(item, share) = Part(x, share, n)
  BY <1>1 DEF ItemPart
<1>4. CASE n > 0
  <2>1. Multiple(Scale, n * m)
    BY <1>1, <1>4 DEF Assigned
  <2>2. n * m \in Int
    BY <1>2
  <2>3. Multiple(Scale * item.price, n * m)
    BY ONLY <1>2, <2>1, <2>2, Multiples
  <2>4. x = Scale * item.price
    BY ONLY <1>1, <1>2
  <2> QED  BY <1>2, <1>3, <1>4, <2>3, <2>4, PartMultiple
<1>5. CASE ~(n > 0)
  <2>1. Part(x, share, n) = 0
    BY <1>5 DEF Part
  <2> QED  BY <1>3, <2>1, Multiples
<1> QED  BY <1>4, <1>5

\* What is paid and what is owed of an amount that can be divided by the shares.
LEMMA AmountDivided ==
  ASSUME NEW s \in Parts, TotalOf(s) > 0, NEW x \in Int, Multiple(x, TotalOf(s))
  PROVE  SumFunction([a \in Accounts |-> Part(x, ShareOf(s, a), TotalOf(s))]) = x
<1>1. PICK t : t = TotalOf(s) /\ t \in Int
  BY PartsAre
<1>2. PICK k \in Int : x = t * k
  BY <1>1 DEF Multiple
<1>3. SumFunction([a \in Accounts |-> Part(x, ShareOf(s, a), t)]) = k * TotalOf(s)
  BY <1>1, <1>2, SharedOut
<1>4. k * t = x
  BY ONLY <1>1, <1>2
<1> QED  BY <1>1, <1>3, <1>4

\* The places of the positions that count, and what they are.
LEMMA LiveOnes ==
  ASSUME NEW bill \in BillSet
  PROVE  /\ IsFiniteSet(LiveItems(bill))
         /\ \A i \in LiveItems(bill) : bill.items[i] \in Positions
<1>1. bill.items \in Seq(Positions)
  BY DEF BillSet
<1>2. PICK S : S = LiveItems(bill)
  OBVIOUS
<1>3. Len(bill.items) \in Nat /\ DOMAIN bill.items = 1..Len(bill.items)
  BY <1>1, LenProperties
<1>4. S \in SUBSET (1..Len(bill.items))
  BY <1>2, <1>3 DEF LiveItems
<1>5. IsFiniteSet(1..Len(bill.items))
  BY <1>3, FS_Interval
<1> QED  BY <1>1, <1>2, <1>3, <1>4, <1>5, FS_Subset, ElementOfSeq

Sound(bill) ==
  \E d \in Drafts : /\ bill.creditors = d.creditors /\ bill.debitors = d.debitors
                    /\ TotalOf(d.creditors) > 0 /\ TotalOf(d.debitors) > 0
                    /\ DOMAIN d.creditors # {}

\* What the debitors have to share is what the bill is worth, less what the
\* positions book on those they name, and less what they book on nobody.
LEMMA RemainingIs ==
  ASSUME NEW bill \in BillSet, NEW m \in Int, Fine(bill, m)
  PROVE  /\ Remaining(bill) \in Int
         /\ Multiple(Remaining(bill), TotalOf(bill.debitors) * m)
<1>1. PICK S, v, f : /\ S = LiveItems(bill) /\ v = bill.value * Scale * bill.rate
                     /\ f = [i \in S |-> (bill.items[i].price * Scale
                              - ItemPart(bill.items[i], bill.items[i].communist)) * bill.rate]
  OBVIOUS
<1>2. Remaining(bill) = v - SumFunction(f)
  BY <1>1 DEF Remaining, SumAll
<1>3. bill.value \in Int /\ bill.rate \in Int /\ bill.debitors \in Parts /\ Scale \in Int
  BY ScalePositive DEF BillSet
<1>4. PICK w : w = TotalOf(bill.debitors) * m /\ w \in Int
  BY <1>3, PartsAre
<1>5. Multiple(Scale, w)
  BY <1>4 DEF Fine
<1>6. v \in Int /\ Multiple(v, w)
  <2>1. PICK n : n = bill.value * bill.rate /\ n \in Int
    BY <1>3
  <2>2. v = Scale * n
    BY <1>1, <1>3, <2>1
  <2>3. Multiple(Scale * n, w)
    BY ONLY <1>3, <1>4, <1>5, <2>1, MultipleTimes
  <2>4. Scale * n \in Int
    BY ONLY <1>3, <2>1
  <2> QED  BY <2>2, <2>3, <2>4
<1>7. ASSUME NEW i \in S PROVE f[i] \in Int /\ Multiple(f[i], w)
  <2>1. PICK item : item = bill.items[i] /\ item \in Positions
    BY <1>1, LiveOnes
  <2>2. PICK x, y : x = item.price * Scale /\ y = ItemPart(item, item.communist)
    OBVIOUS
  <2>3. x \in Int /\ y \in Int /\ item.price \in Int /\ item.communist \in Int
    BY <2>1, <2>2, ItemTypes
  <2>4. Multiple(x, w)
    <3>1. x = Scale * item.price
      BY ONLY <1>3, <2>2, <2>3
    <3> QED  BY ONLY <1>3, <1>4, <1>5, <2>3, <3>1, Multiples
  <2>5. Multiple(y, w)
    <3>1. Assigned(item) => Multiple(Scale, ItemWhole(item) * w)
      <4>1. Assigned(item) => Multiple(Scale, (TotalOf(bill.debitors) * ItemWhole(item)) * m)
        BY <2>1 DEF Fine
      <4>2. TotalOf(bill.debitors) \in Int /\ ItemWhole(item) \in Int
        BY <1>3, <2>1, PartsAre, ItemTypes
      <4>3. (TotalOf(bill.debitors) * ItemWhole(item)) * m = ItemWhole(item) * w
        BY ONLY <1>4, <4>2, m \in Int
      <4> QED  BY <4>1, <4>3
    <3> QED  BY <1>4, <2>1, <2>2, <2>3, <3>1, ItemPartMultiple
  <2>6. x - y \in Int /\ Multiple(x - y, w)
    BY ONLY <1>4, <2>3, <2>4, <2>5, Multiples
  <2>7. (x - y) * bill.rate \in Int /\ Multiple((x - y) * bill.rate, w)
    <3>1. PICK u, rate : u = x - y /\ rate = bill.rate
      OBVIOUS
    <3>2. u \in Int /\ rate \in Int /\ Multiple(u, w)
      BY ONLY <1>3, <2>6, <3>1
    <3>3. u * rate \in Int
      BY ONLY <3>2
    <3>4. Multiple(u * rate, w)
      BY ONLY <1>4, <3>2, MultipleTimes
    <3> QED  BY <3>1, <3>3, <3>4
  <2> QED  BY <1>1, <2>1, <2>2, <2>7
<1>8. f \in [S -> Int] /\ IsFiniteSet(S)
  BY <1>1, <1>7, LiveOnes
<1>9. SumFunction(f) \in Int /\ Multiple(SumFunction(f), w)
  BY <1>4, <1>7, <1>8, SumIsInt, SumMultiple
<1>10. v - SumFunction(f) \in Int /\ Multiple(v - SumFunction(f), w)
  <2>1. PICK y : y = SumFunction(f)
    OBVIOUS
  <2>2. y \in Int /\ Multiple(y, w)
    BY <1>9, <2>1
  <2>3. Multiple(v - y, w)
    BY ONLY <1>4, <1>6, <2>2, MultipleSum
  <2> QED  BY <1>6, <2>1, <2>2, <2>3
<1> QED  BY <1>2, <1>4, <1>10

LEMMA ShareMultiple ==
  ASSUME NEW s \in Parts, TotalOf(s) > 0, NEW x \in Int, NEW m \in Int,
         Multiple(x, TotalOf(s) * m), NEW a
  PROVE  Multiple(Part(x, ShareOf(s, a), TotalOf(s)), m)
BY PartsAre, PartMultiple

\* What a bill books on an account is a multiple of what its amounts can be
\* divided by beyond its own shares.
LEMMA EffectMultiple ==
  ASSUME NEW bill \in BillSet, Sound(bill), NEW m \in Int, Fine(bill, m), NEW a
  PROVE  Multiple(Effect(bill, a), m)
<1>1. PICK c, d : c = bill.creditors /\ d = bill.debitors
  OBVIOUS
<1>2. /\ bill.value \in Int /\ bill.rate \in Int /\ c \in Parts /\ d \in Parts /\ Scale \in Int
      /\ TotalOf(c) \in Int /\ TotalOf(d) \in Int /\ TotalOf(c) > 0 /\ TotalOf(d) > 0
  BY <1>1, ScalePositive, PartsAre DEF BillSet, Sound
<1>3. Multiple(FromCreditors(bill, a), m)
  <2>1. PICK v, n : v = bill.value * Scale * bill.rate /\ n = bill.value * bill.rate /\ n \in Int
    BY <1>2
  <2>2. v = Scale * n /\ v \in Int
    BY <1>2, <2>1
  <2>3. Multiple(Scale, TotalOf(c) * m) /\ TotalOf(c) * m \in Int
    BY <1>1, <1>2 DEF Fine
  <2>4. Multiple(v, TotalOf(c) * m)
    <3>1. PICK w : w = TotalOf(c) * m
      OBVIOUS
    <3>2. Multiple(Scale * n, w)
      BY ONLY <1>2, <2>1, <2>3, <3>1, MultipleTimes
    <3> QED  BY <2>2, <3>1, <3>2
  <2>5. Multiple(Part(v, ShareOf(c, a), TotalOf(c)), m)
    BY ONLY <1>2, <2>2, <2>4, m \in Int, ShareMultiple
  <2> QED  BY <1>1, <2>1, <2>5 DEF FromCreditors
<1>4. Multiple(FromDebitors(bill, a), m)
  <2>1. CASE bill.mode = "absolute"
    <3>1. ShareOf(d, a) \in Int
      BY <1>2, PartsAre
    <3>2. Multiple(Scale, m * TotalOf(d))
      <4>1. TotalOf(d) * m = m * TotalOf(d)
        BY <1>2
      <4> QED  BY <1>1, <4>1 DEF Fine
    <3>3. Multiple(Scale, m)
      BY ONLY <1>2, <3>2, m \in Int, Multiples
    <3>4. Multiple(Scale * ShareOf(d, a), m)
      BY ONLY <1>2, <3>1, <3>3, m \in Int, Multiples
    <3>5. ShareOf(d, a) * Scale = Scale * ShareOf(d, a)
      BY ONLY <1>2, <3>1
    <3> QED  BY <1>1, <2>1, <3>4, <3>5 DEF FromDebitors
  <2>2. CASE bill.mode # "absolute"
    <3>1. PICK r : r = Remaining(bill)
      OBVIOUS
    <3>2. r \in Int /\ Multiple(r, TotalOf(d) * m)
      BY <1>1, <3>1, RemainingIs
    <3>3. Multiple(Part(r, ShareOf(d, a), TotalOf(d)), m)
      BY ONLY <1>2, <3>2, m \in Int, ShareMultiple
    <3> QED  BY <1>1, <2>2, <3>1, <3>3 DEF FromDebitors
  <2> QED  BY <2>1, <2>2
<1>5. Multiple(FromPositions(bill, a), m) /\ FromPositions(bill, a) \in Int
  <2>1. PICK S, f : /\ S = LiveItems(bill)
                    /\ f = [i \in S |-> ItemPart(bill.items[i], ShareOf(bill.items[i].usages, a)) * bill.rate]
    OBVIOUS
  <2>2. FromPositions(bill, a) = SumFunction(f)
    BY <2>1 DEF FromPositions, SumAll
  <2>3. ASSUME NEW i \in S PROVE f[i] \in Int /\ Multiple(f[i], m)
    <3>1. PICK item, y : item = bill.items[i] /\ y = ItemPart(item, ShareOf(item.usages, a))
      OBVIOUS
    <3>2. item \in Positions
      BY <2>1, <3>1, LiveOnes
    <3>3. ShareOf(item.usages, a) \in Int /\ y \in Int /\ ItemWhole(item) \in Int
      BY <3>1, <3>2, ItemTypes, PartsAre
    <3>4. Assigned(item) => Multiple(Scale, ItemWhole(item) * m)
      <4>1. PICK n, t : n = ItemWhole(item) /\ t = TotalOf(d)
        OBVIOUS
      <4>2. n \in Int /\ t \in Int
        BY <1>2, <3>3, <4>1
      <4>3. Assigned(item) => Multiple(Scale, (t * n) * m)
        BY <1>1, <3>2, <4>1 DEF Fine
      <4>4. (t * n) * m = (n * m) * t /\ n * m \in Int
        BY ONLY <4>2, m \in Int
      <4>5. Multiple(Scale, (n * m) * t) => Multiple(Scale, n * m)
        BY ONLY <1>2, <4>2, <4>4, Multiples
      <4> QED  BY <4>1, <4>3, <4>4, <4>5
    <3>5. Multiple(y, m)
      BY <3>1, <3>2, <3>3, <3>4, ItemPartMultiple
    <3>6. y * bill.rate \in Int /\ Multiple(y * bill.rate, m)
      <4>1. PICK rate : rate = bill.rate
        OBVIOUS
      <4>2. rate \in Int
        BY <1>2, <4>1
      <4>3. Multiple(y * rate, m)
        BY ONLY <3>3, <3>5, <4>2, m \in Int, MultipleTimes
      <4> QED  BY <3>3, <4>1, <4>2, <4>3
    <3> QED  BY <2>1, <3>1, <3>6
  <2>4. f \in [S -> Int] /\ IsFiniteSet(S)
    BY <2>1, <2>3, LiveOnes
  <2> QED  BY <2>2, <2>3, <2>4, SumIsInt, SumMultiple
<1>6. PICK x, y, z : x = FromCreditors(bill, a) /\ y = FromPositions(bill, a) /\ z = FromDebitors(bill, a)
  OBVIOUS
<1>7. x \in Int /\ y \in Int /\ z \in Int
  BY <1>5, <1>6, AmountTypes
<1>8. Multiple(x, m) /\ Multiple(y, m) /\ Multiple(z, m)
  BY <1>3, <1>4, <1>5, <1>6
<1>9. x - y \in Int /\ Multiple(x - y, m)
  BY ONLY <1>7, <1>8, m \in Int, MultipleSum
<1>10. Multiple((x - y) - z, m)
  BY ONLY <1>7, <1>8, <1>9, m \in Int, MultipleSum
<1> QED  BY <1>6, <1>10 DEF Effect

\* The effects of a bill on all accounts add up to what it takes from nobody.
LEMMA EffectsAddUp ==
  ASSUME NEW bill \in BillSet, Sound(bill), ~Throws(bill), Fine(bill, 1)
  PROVE  Gap(bill) \in Int /\ SumFunction([a \in Accounts |-> Effect(bill, a)]) = Gap(bill)
<1>1. PICK c, d, v : c = bill.creditors /\ d = bill.debitors /\ v = bill.value * Scale * bill.rate
  OBVIOUS
<1>2. /\ bill.value \in Int /\ bill.rate \in Int /\ c \in Parts /\ d \in Parts /\ Scale \in Int
      /\ TotalOf(c) \in Int /\ TotalOf(d) \in Int /\ TotalOf(c) > 0 /\ TotalOf(d) > 0
  BY <1>1, ScalePositive, PartsAre DEF BillSet, Sound
<1>3. PICK out, use, rest, all :
        /\ out = [a \in Accounts |-> FromCreditors(bill, a)]
        /\ use = [a \in Accounts |-> FromPositions(bill, a)]
        /\ rest = [a \in Accounts |-> FromDebitors(bill, a)]
        /\ all = [a \in Accounts |-> Effect(bill, a)]
  OBVIOUS
<1>4. /\ out \in [Accounts -> Int] /\ use \in [Accounts -> Int]
      /\ rest \in [Accounts -> Int] /\ all \in [Accounts -> Int]
  BY <1>3, AmountTypes, EffectType
<1>5. SumFunction(all) = (SumFunction(out) - SumFunction(use)) - SumFunction(rest)
  <2>1. PICK both : both = [a \in Accounts |-> all[a] + rest[a]]
    OBVIOUS
  <2>2. both \in [Accounts -> Int] /\ \A a \in Accounts : both[a] = all[a] + rest[a]
    BY <1>4, <2>1
  <2>3. SumFunction(both) = SumFunction(all) + SumFunction(rest)
    BY <1>4, <2>2, FiniteAccounts, SumPlus
  <2>4. \A a \in Accounts : out[a] = both[a] + use[a]
    <3> SUFFICES ASSUME NEW a \in Accounts PROVE out[a] = both[a] + use[a]
      OBVIOUS
    <3>1. all[a] = out[a] - use[a] - rest[a]
      BY <1>3 DEF Effect
    <3>2. out[a] \in Int /\ use[a] \in Int /\ rest[a] \in Int /\ both[a] = all[a] + rest[a]
      BY <1>4, <2>2
    <3> QED  BY ONLY <3>1, <3>2
  <2>5. SumFunction(out) = SumFunction(both) + SumFunction(use)
    BY <1>4, <2>2, <2>4, FiniteAccounts, SumPlus
  <2>6. /\ SumFunction(out) \in Int /\ SumFunction(use) \in Int /\ SumFunction(rest) \in Int
        /\ SumFunction(all) \in Int
    BY <1>4, FiniteAccounts, SumIsInt
  <2> QED  BY ONLY <2>3, <2>5, <2>6
<1>6. v \in Int /\ SumFunction(out) = v
  <2>1. PICK n : n = bill.value * bill.rate /\ n \in Int
    BY <1>2
  <2>2. v = Scale * n /\ v \in Int
    BY <1>1, <1>2, <2>1
  <2>3. Multiple(Scale, TotalOf(c))
    BY <1>1, <1>2 DEF Fine
  <2>4. Multiple(v, TotalOf(c))
    BY <1>2, <2>1, <2>2, <2>3, MultipleTimes
  <2>5. SumFunction([a \in Accounts |-> Part(v, ShareOf(c, a), TotalOf(c))]) = v
    BY <1>2, <2>2, <2>4, AmountDivided
  <2>6. out = [a \in Accounts |-> Part(v, ShareOf(c, a), TotalOf(c))]
    BY <1>1, <1>3 DEF FromCreditors
  <2> QED  BY <2>2, <2>5, <2>6
<1>7. PICK S : S = LiveItems(bill) /\ IsFiniteSet(S) /\ \A i \in S : bill.items[i] \in Positions
  BY LiveOnes
<1>8. CASE bill.mode = "absolute"
  <2>1. S = {}
    <3>1. bill.items = <<>>
      BY <1>8 DEF Throws
    <3>2. DOMAIN bill.items = {}
      BY <3>1
    <3> QED  BY <1>7, <3>2 DEF LiveItems
  <2>2. SumFunction(use) = 0
    <3>1. ASSUME NEW a \in Accounts PROVE use[a] = 0
      <4>1. PICK f : f = [i \in S |-> ItemPart(bill.items[i], ShareOf(bill.items[i].usages, a)) * bill.rate]
        OBVIOUS
      <4>2. use[a] = SumFunction(f)
        BY <1>3, <1>7, <4>1 DEF FromPositions, SumAll
      <4>3. f = [i \in S |-> 0]
        BY <2>1, <4>1
      <4> QED  BY <1>7, <4>2, <4>3, SumOfZeros
    <3>2. use = [a \in Accounts |-> 0]
      BY <1>4, <3>1
    <3> QED  BY <3>2, FiniteAccounts, SumOfZeros
  <2>3. SumFunction(rest) = Scale * TotalOf(d)
    <3>1. PICK X \in SUBSET Accounts : d \in [X -> Int]
      BY <1>2 DEF Parts
    <3>2. PICK f : f = [a \in Accounts |-> ShareOf(d, a)]
      OBVIOUS
    <3>3. f \in [Accounts -> Int]
      BY <1>2, <3>2, PartsAre
    <3>4. SumFunction(f) = TotalOf(d)
      <4>1. \A a \in Accounts : f[a] = IF a \in X THEN d[a] ELSE 0
        BY <3>1, <3>2 DEF ShareOf
      <4> QED  BY <3>1, <3>3, <4>1, FiniteAccounts, SumOverMore DEF TotalOf
    <3>5. \A a \in Accounts : rest[a] = Scale * f[a]
      <4> SUFFICES ASSUME NEW a \in Accounts PROVE rest[a] = Scale * f[a]
        OBVIOUS
      <4>1. rest[a] = ShareOf(d, a) * Scale
        BY <1>1, <1>3, <1>8 DEF FromDebitors
      <4>2. f[a] = ShareOf(d, a) /\ f[a] \in Int
        BY <3>2, <3>3
      <4> QED  BY ONLY <1>2, <4>1, <4>2
    <3>6. SumFunction(rest) = Scale * SumFunction(f)
      BY <1>2, <1>4, <3>3, <3>5, FiniteAccounts, SumTimes
    <3> QED  BY <3>4, <3>6
  <2>4. Gap(bill) = Scale * (bill.value * bill.rate - TotalOf(d))
    BY <1>1, <1>8 DEF Gap
  <2>5. /\ Scale * (bill.value * bill.rate - TotalOf(d)) = (v - 0) - Scale * TotalOf(d)
        /\ Scale * (bill.value * bill.rate - TotalOf(d)) \in Int
    <3>1. PICK x, y, t : x = bill.value /\ y = bill.rate /\ t = TotalOf(d)
      OBVIOUS
    <3>2. x \in Int /\ y \in Int /\ t \in Int /\ v = x * Scale * y
      BY <1>1, <1>2, <3>1
    <3>3. Scale * (x * y - t) = (x * Scale * y - 0) - Scale * t /\ Scale * (x * y - t) \in Int
      BY ONLY <1>2, <3>2
    <3> QED  BY <3>1, <3>2, <3>3
  <2> QED  BY <1>3, <1>5, <1>6, <2>2, <2>3, <2>4, <2>5
<1>9. CASE bill.mode # "absolute"
  <2>1. PICK owed, table, booked, open :
          /\ owed = [i \in S |-> (bill.items[i].price * Scale
                                   - ItemPart(bill.items[i], bill.items[i].communist)) * bill.rate]
          /\ table = [i \in S |-> [a \in Accounts |->
                        ItemPart(bill.items[i], ShareOf(bill.items[i].usages, a)) * bill.rate]]
          /\ booked = [i \in S |-> SumFunction(table[i])]
          /\ open = [i \in S |-> IF Assigned(bill.items[i]) THEN 0
                                 ELSE bill.items[i].price * Scale * bill.rate]
    OBVIOUS
  <2>2. SumFunction(rest) = v - SumFunction(owed)
    <3>1. PICK r : r = Remaining(bill)
      OBVIOUS
    <3>2. r = v - SumFunction(owed)
      BY <1>1, <1>7, <2>1, <3>1 DEF Remaining, SumAll
    <3>3. r \in Int /\ Multiple(r, TotalOf(d))
      <4>1. TotalOf(d) * 1 = TotalOf(d)
        BY <1>2
      <4> QED  BY <1>1, <3>1, <4>1, RemainingIs
    <3>4. SumFunction([a \in Accounts |-> Part(r, ShareOf(d, a), TotalOf(d))]) = r
      BY <1>2, <3>3, AmountDivided
    <3>5. rest = [a \in Accounts |-> Part(r, ShareOf(d, a), TotalOf(d))]
      BY <1>1, <1>3, <1>9, <3>1 DEF FromDebitors
    <3> QED  BY <3>2, <3>4, <3>5
  <2>3. ASSUME NEW i \in S
        PROVE  /\ table[i] \in [Accounts -> Int] /\ booked[i] \in Int
               /\ owed[i] \in Int /\ open[i] \in Int
               /\ owed[i] = open[i] + booked[i]
    <3>1. PICK item, h, common, price, rate :
            /\ item = bill.items[i] /\ h = [a \in Accounts |-> ItemPart(item, ShareOf(item.usages, a))]
            /\ common = ItemPart(item, item.communist) /\ price = item.price * Scale
            /\ rate = bill.rate
      OBVIOUS
    <3>2. item \in Positions
      BY <1>7, <3>1
    <3>3. /\ common \in Int /\ price \in Int /\ rate \in Int /\ item.price \in Int
          /\ \A a \in Accounts : h[a] \in Int
      BY <1>2, <3>1, <3>2, ItemTypes, PartsAre
    <3>4. h \in [Accounts -> Int]
      BY <3>1, <3>3
    <3>5. Assigned(item) => Multiple(Scale, ItemWhole(item))
      <4>1. PICK n, t : n = ItemWhole(item) /\ t = TotalOf(d) /\ n \in Int
        BY <3>2, ItemTypes
      <4>2. Assigned(item) => Multiple(Scale, (t * n) * 1)
        BY <1>1, <3>2, <4>1 DEF Fine
      <4>3. (t * n) * 1 = n * t /\ t \in Int
        BY ONLY <1>2, <4>1
      <4>4. Multiple(Scale, n * t) => Multiple(Scale, n)
        BY ONLY <1>2, <4>1, <4>3, Multiples
      <4> QED  BY <4>1, <4>2, <4>3, <4>4
    <3>6. SumFunction(h) + common = ItemTaken(item)
      BY <3>1, <3>2, <3>5, ItemDivided
    <3>7. table[i] = [a \in Accounts |-> h[a] * rate]
      BY <2>1, <3>1
    <3>8. table[i] \in [Accounts -> Int] /\ \A a \in Accounts : table[i][a] = rate * h[a]
      BY <3>3, <3>4, <3>7
    <3>9. booked[i] = rate * SumFunction(h)
      <4>1. PICK w : w = table[i]
        OBVIOUS
      <4>2. w \in [Accounts -> Int] /\ \A a \in Accounts : w[a] = rate * h[a]
        BY <3>8, <4>1
      <4>3. SumFunction(w) = rate * SumFunction(h)
        BY ONLY <3>3, <3>4, <4>2, FiniteAccounts, SumTimes
      <4> QED  BY <2>1, <4>1, <4>3
    <3>10. PICK s : s = SumFunction(h) /\ s \in Int
      BY <3>4, FiniteAccounts, SumIsInt
    <3>11. owed[i] = (price - common) * rate /\ booked[i] = rate * s
      BY <2>1, <3>1, <3>9, <3>10
    <3>12. open[i] = IF Assigned(item) THEN 0 ELSE price * rate
      BY <2>1, <3>1
    <3>13. s + common = IF Assigned(item) THEN price ELSE 0
      BY <3>1, <3>6, <3>10 DEF ItemTaken
    <3>14. (price - common) * rate \in Int /\ rate * s \in Int /\ price * rate \in Int
      BY ONLY <3>3, <3>10
    <3>15. CASE Assigned(item)
      <4>1. (price - common) * rate = 0 + rate * s
        BY ONLY <3>3, <3>10, <3>13, <3>15
      <4> QED  BY <3>8, <3>11, <3>12, <3>14, <3>15, <4>1
    <3>16. CASE ~Assigned(item)
      <4>1. (price - common) * rate = price * rate + rate * s
        <5>1. s = 0 - common
          BY ONLY <3>3, <3>10, <3>13, <3>16
        <5>2. (price - common) * rate = price * rate + rate * (0 - common)
          BY ONLY <3>3
        <5> QED  BY <5>1, <5>2
      <4> QED  BY <3>8, <3>11, <3>12, <3>14, <3>16, <4>1
    <3> QED  BY <3>15, <3>16
  <2>4. /\ booked \in [S -> Int] /\ owed \in [S -> Int] /\ open \in [S -> Int]
        /\ \A i \in S : table[i] \in [Accounts -> Int]
    BY <2>1, <2>3
  <2>5. SumFunction(owed) = SumFunction(open) + SumFunction(booked)
    BY <1>7, <2>3, <2>4, SumPlus
  <2>6. SumFunction(use) = SumFunction(booked)
    <3>1. PICK cols : cols = [a \in Accounts |-> SumFunction([i \in S |-> table[i][a]])]
      OBVIOUS
    <3>2. SumFunction(booked) = SumFunction(cols)
      <4>1. booked = [i \in S |-> SumFunction(table[i])] /\ IsFiniteSet(S)
        BY <1>7, <2>1
      <4>2. \A i \in S : table[i] \in [Accounts -> Int]
        BY <2>4
      <4> QED  BY ONLY <3>1, <4>1, <4>2, FiniteAccounts, SumSwap
    <3>3. ASSUME NEW a \in Accounts PROVE use[a] = cols[a]
      <4>1. PICK f : f = [i \in S |-> ItemPart(bill.items[i], ShareOf(bill.items[i].usages, a)) * bill.rate]
        OBVIOUS
      <4>2. use[a] = SumFunction(f)
        BY <1>3, <1>7, <4>1 DEF FromPositions, SumAll
      <4>3. f = [i \in S |-> table[i][a]]
        BY <2>1, <4>1
      <4> QED  BY <3>1, <4>2, <4>3
    <3>4. use = cols
      BY <1>4, <3>1, <3>3
    <3> QED  BY <3>2, <3>4
  <2>7. Gap(bill) = SumFunction(open)
    BY <1>7, <1>9, <2>1 DEF Gap, SumAll
  <2>8. SumFunction(open) \in Int /\ SumFunction(booked) \in Int /\ SumFunction(owed) \in Int
    BY <1>7, <2>4, SumIsInt
  <2>9. SumFunction(all) = SumFunction(open)
    BY ONLY <1>5, <1>6, <2>2, <2>5, <2>6, <2>8
  <2> QED  BY <1>3, <2>7, <2>8, <2>9
<1> QED  BY <1>8, <1>9

\* The grain of each account: its balance is a multiple of it, and what an
\* event has can be divided by its shares into multiples of theirs.
Grained(G) ==
  /\ G \in [Accounts -> Int]
  /\ \A a \in Accounts : \A n \in Divisors : Multiple(Scale, n * G[a])
  /\ \A e \in Sharing : /\ TotalOf(clearing[e]) > 0
                        /\ \A a \in DOMAIN clearing[e] :
                             Multiple(G[e], TotalOf(clearing[e]) * G[a])

MoneyInv ==
  /\ clearing \in Clearings
  /\ \A t \in Bills : bills[t].exists => Sound(bills[t])
  /\ Opened => /\ OnlyGapsAreMissing
               /\ \E G : Grained(G) /\ \A a \in Accounts : Multiple(balance[a], G[a])

LEMMA GrainsExist ==
  ASSUME BooksInv, clearing \in Clearings
  PROVE  \E G : Grained(G)
<1>1. ~HasCycle(clearing) /\ \A e \in Events : clearing[e] \in Parts
  BY DEF BooksInv
<1>2. \A e \in Events : clearing[e] # NoShares => TotalOf(clearing[e]) > 0
  BY <1>1, ScaleDivides
<1>3. PICK g \in [Events -> {n \in 1..Scale : Scale % n = 0}] : Evenly(clearing, g)
  BY <1>1, ScaleDivides
<1>4. PICK G : G = [a \in Accounts |-> Grain(g, a)]
  OBVIOUS
<1>5. Scale \in Int
  BY ScalePositive
<1>6. \A a \in Accounts : G[a] \in Int /\ G[a] > 0
  <2>1. \A e \in Events : g[e] \in 1..Scale
    BY <1>3
  <2>2. \A e \in Events : g[e] \in Int /\ g[e] > 0
    BY <1>5, <2>1
  <2> QED  BY <1>4, <2>2 DEF Grain
<1>7. ASSUME NEW a \in Accounts, NEW n \in Divisors PROVE Multiple(Scale, n * G[a])
  <2>1. n \in Int /\ n > 0
    <3>1. \A d \in Drafts : TotalOf(d.creditors) \in Int /\ TotalOf(d.debitors) \in Int
      BY InputsAre, PartsAre
    <3>2. \A k \in {1} \cup {ItemWhole(p) : p \in Positions} : k \in Int
      BY ItemTypes
    <3>3. \A d \in Drafts : \A k \in {1} \cup {ItemWhole(p) : p \in Positions} :
            TotalOf(d.debitors) * k \in Int
      BY <3>1, <3>2
    <3> QED  BY <3>1, <3>3 DEF Divisors
  <2>2. Scale % (n * G[a]) = 0
    BY <1>3, <1>4 DEF Evenly
  <2>3. PICK m : m = n * G[a]
    OBVIOUS
  <2>4. m \in Int /\ m > 0
    BY <1>6, <2>1, <2>3
  <2> QED  BY <1>5, <2>2, <2>3, <2>4, Divided
<1>8. ASSUME NEW e \in Sharing, NEW a \in DOMAIN clearing[e]
      PROVE  TotalOf(clearing[e]) > 0 /\ Multiple(G[e], TotalOf(clearing[e]) * G[a])
  <2>1. e \in Events /\ e \in Accounts /\ clearing[e] # NoShares
    BY EventSets DEF Sharing
  <2>2. PICK t : t = TotalOf(clearing[e])
    OBVIOUS
  <2>3. t \in Int /\ t > 0 /\ a \in Accounts
    BY <1>1, <1>2, <2>1, <2>2, PartsAre
  <2>4. PICK m : m = t * G[a]
    OBVIOUS
  <2>5. m \in Int /\ m > 0
    BY <1>6, <2>3, <2>4
  <2>6. G[e] % m = 0
    <3>1. g[e] % (t * Grain(g, a)) = 0
      BY <1>3, <2>1, <2>2 DEF Evenly
    <3>2. G[e] = g[e] /\ G[a] = Grain(g, a)
      BY <1>4, <2>1, <2>3 DEF Grain
    <3> QED  BY <2>4, <3>1, <3>2
  <2>7. Multiple(G[e], m)
    BY <1>6, <2>1, <2>5, <2>6, Divided
  <2> QED  BY <2>2, <2>3, <2>4, <2>7
<1>9. \A e \in Sharing : TotalOf(clearing[e]) > 0
  BY <1>2, EventSets DEF Sharing
<1>10. G \in [Accounts -> Int]
  BY <1>4, <1>6
<1> QED  BY <1>7, <1>8, <1>9, <1>10 DEF Grained

LEMMA SoundIsFine ==
  ASSUME NEW bill \in BillSet, Sound(bill), NEW G, Grained(G), NEW a \in Accounts
  PROVE  Fine(bill, G[a])
<1>1. PICK d \in Drafts : /\ bill.creditors = d.creditors /\ bill.debitors = d.debitors
                          /\ TotalOf(d.creditors) > 0 /\ TotalOf(d.debitors) > 0
  BY DEF Sound
<1>2. PICK c, t : c = TotalOf(d.creditors) /\ t = TotalOf(d.debitors)
  OBVIOUS
<1>3. c \in Int /\ t \in Int /\ c > 0 /\ t > 0
  BY <1>1, <1>2, InputsAre, PartsAre
<1>4. c \in Divisors
  BY <1>2, <1>3 DEF Divisors
<1>5. \A k \in {1} \cup {ItemWhole(p) : p \in Positions} : t * k > 0 => t * k \in Divisors
  <2>1. PICK K : K = {1} \cup {ItemWhole(p) : p \in Positions}
    OBVIOUS
  <2>2. Divisors = {n \in {TotalOf(x.creditors) : x \in Drafts}
                          \cup {TotalOf(x.debitors) * k : x \in Drafts, k \in K} : n > 0}
    BY <2>1 DEF Divisors
  <2>3. ASSUME NEW k \in K, t * k > 0 PROVE t * k \in Divisors
    <3>1. PICK y : y = t * k
      OBVIOUS
    <3>2. y \in {TotalOf(x.debitors) * j : x \in Drafts, j \in K}
      BY <1>2, <3>1
    <3>3. y > 0
      BY <2>3, <3>1
    <3>4. y \in Divisors
      BY ONLY <2>2, <3>2, <3>3
    <3> QED  BY <3>1, <3>4
  <2> QED  BY ONLY <2>1, <2>3
<1>6. t \in Divisors
  <2>1. t * 1 = t
    BY <1>3
  <2> QED  BY <1>3, <1>5, <2>1
<1>7. ASSUME NEW p \in Positions, Assigned(p) PROVE t * ItemWhole(p) \in Divisors
  <2>1. PICK n : n = ItemWhole(p) /\ n \in Int /\ n > 0
    BY <1>7, ItemTypes DEF Assigned
  <2>2. t * n > 0
    BY ONLY <1>3, <2>1
  <2> QED  BY <1>5, <2>1, <2>2
<1> QED  BY <1>1, <1>2, <1>4, <1>6, <1>7 DEF Fine, Grained

LEMMA FineIsExact ==
  ASSUME NEW bill \in BillSet, NEW m \in Int, Fine(bill, m)
  PROVE  Fine(bill, 1)
<1>1. PICK c, d : c = TotalOf(bill.creditors) /\ d = TotalOf(bill.debitors)
  OBVIOUS
<1>2. c \in Int /\ d \in Int /\ Scale \in Int
  BY <1>1, ScalePositive, PartsAre DEF BillSet
<1>3. ASSUME NEW n \in Int, Multiple(Scale, n * m) PROVE Multiple(Scale, n * 1)
  <2>1. Multiple(Scale, n)
    BY ONLY <1>2, <1>3, m \in Int, Multiples
  <2>2. n * 1 = n
    OBVIOUS
  <2> QED  BY <2>1, <2>2
<1>4. ASSUME NEW p \in Positions PROVE d * ItemWhole(p) \in Int
  BY <1>2, ItemTypes
<1>5. Multiple(Scale, c * 1) /\ Multiple(Scale, d * 1)
  BY <1>1, <1>2, <1>3 DEF Fine
<1>6. ASSUME NEW p \in Positions, Assigned(p) PROVE Multiple(Scale, (d * ItemWhole(p)) * 1)
  <2>1. PICK n : n = d * ItemWhole(p)
    OBVIOUS
  <2>2. n \in Int /\ Multiple(Scale, n * m)
    BY <1>1, <1>4, <1>6, <2>1 DEF Fine
  <2> QED  BY <1>3, <2>1, <2>2
<1> QED  BY <1>1, <1>5, <1>6 DEF Fine

LEMMA EditedSoundly ==
  ASSUME BooksInv, MoneyInv, Edit
  PROVE  MoneyInv'
<1>1. PICK t \in Bills :
        \/ \E draft \in Drafts : SaveBill(t, draft, NoShares)
        \/ \E i \in 1..MaxItems, p \in Positions :
             \/ \E draft \in Drafts : SaveBill(t, draft, [j \in {i} |-> p])
             \/ UpdatePositions(t, [j \in {i} |-> p])
        \/ DeleteBill(t)
  BY DEF Edit
<1>2. clearing' = clearing /\ phase' = "edit"
  BY <1>1 DEF SaveBill, UpdatePositions, DeleteBill
<1>3. /\ bills \in [Bills -> BillSet \cup {NoBill}] /\ (bills[t].exists => bills[t] \in BillSet)
      /\ clearing \in Clearings /\ \A u \in Bills : bills[u].exists => Sound(bills[u])
  BY DEF BooksInv, NoBill, MoneyInv
<1>4. SUFFICES \E b : bills' = [bills EXCEPT ![t] = b] /\ Sound(b)
  <2>1. PICK b : bills' = [bills EXCEPT ![t] = b] /\ Sound(b)
    BY <1>4
  <2>2. \A u \in Bills : bills'[u].exists => Sound(bills'[u])
    BY <1>3, <2>1
  <2> QED  BY <1>2, <1>3, <2>2 DEF MoneyInv, Opened, Sound
<1>5. ASSUME NEW draft \in Drafts, NEW touched, SaveBill(t, draft, touched)
      PROVE  \E b : bills' = [bills EXCEPT ![t] = b] /\ Sound(b)
  <2>1. PICK items : bills' = [bills EXCEPT ![t] = Bill(draft, items)] /\ Accepted(draft, touched)
    BY <1>5 DEF SaveBill
  <2>2. Sound(Bill(draft, items))
    BY <2>1, AcceptedIsShared DEF Sound, Bill
  <2> QED  BY <2>1, <2>2
<1>6. ASSUME NEW touched, UpdatePositions(t, touched)
      PROVE  \E b : bills' = [bills EXCEPT ![t] = b] /\ Sound(b)
  <2>1. PICK items : bills' = [bills EXCEPT ![t] = [bills[t] EXCEPT !.items = items]]
                     /\ bills[t].exists
    BY <1>3, <1>6 DEF UpdatePositions
  <2>2. Sound([bills[t] EXCEPT !.items = items])
    BY <1>3, <2>1 DEF Sound, BillSet
  <2> QED  BY <2>1, <2>2
<1>7. ASSUME DeleteBill(t)
      PROVE  \E b : bills' = [bills EXCEPT ![t] = b] /\ Sound(b)
  <2>1. bills' = [bills EXCEPT ![t] = [bills[t] EXCEPT !.deleted = TRUE]] /\ bills[t].exists
    BY <1>3, <1>7 DEF DeleteBill
  <2>2. Sound([bills[t] EXCEPT !.deleted = TRUE])
    BY <1>3, <2>1 DEF Sound, BillSet
  <2> QED  BY <2>1, <2>2
<1> QED  BY <1>1, <1>5, <1>6, <1>7

LEMMA OpenedSoundly ==
  ASSUME BalanceTypes, MoneyInv, OpenBooks
  PROVE  MoneyInv'
<1>1. /\ balance' = [a \in Accounts |-> SumAll(LAMBDA t : Effect(bills[t], a), Alive)]
      /\ phase' = "sort" /\ bills' = bills /\ clearing' = clearing
      /\ \A t \in Alive : ~Throws(bills[t])
  BY DEF OpenBooks, books
<1>2. BooksInv /\ clearing \in Clearings /\ \A t \in Bills : bills[t].exists => Sound(bills[t])
  BY DEF BalanceTypes, MoneyInv
<1>3. PICK T : T = Alive /\ IsFiniteSet(T)
  BY InputTypes, FS_Subset DEF Alive
<1>4. \A t \in T : bills[t] \in BillSet /\ Sound(bills[t]) /\ ~Throws(bills[t])
  BY <1>1, <1>2, <1>3 DEF BooksInv, Alive, NoBill
<1>5. PICK G : Grained(G)
  BY <1>2, GrainsExist
<1>6. G \in [Accounts -> Int]
  BY <1>5 DEF Grained
<1>7. \A t \in T : \A a \in Accounts : Fine(bills[t], G[a]) /\ Multiple(Effect(bills[t], a), G[a])
  BY <1>4, <1>5, <1>6, SoundIsFine, EffectMultiple
<1>8. ASSUME NEW t \in T PROVE Fine(bills[t], 1)
  <2>1. PICK d \in Drafts : DOMAIN d.creditors # {}
    BY <1>4 DEF Sound
  <2>2. PICK a \in DOMAIN d.creditors : TRUE
    BY <2>1
  <2>3. a \in Accounts
    BY InputsAre, PartsAre
  <2>4. G[a] \in Int /\ Fine(bills[t], G[a])
    BY <1>6, <1>7, <2>3
  <2> QED  BY <1>4, <2>4, FineIsExact
<1>9. PICK F, rows : /\ F = [t \in T |-> [a \in Accounts |-> Effect(bills[t], a)]]
                     /\ rows = [t \in T |-> SumFunction(F[t])]
  OBVIOUS
<1>10. \A t \in T : F[t] \in [Accounts -> Int]
  BY <1>4, <1>9, EffectType
<1>11. rows = [t \in T |-> Gap(bills[t])]
  <2>1. ASSUME NEW t \in T PROVE rows[t] = Gap(bills[t])
    BY <1>4, <1>8, <1>9, EffectsAddUp
  <2> QED  BY <1>9, <2>1
<1>12. balance' = [a \in Accounts |-> SumFunction([t \in T |-> F[t][a]])]
  <2>1. ASSUME NEW a \in Accounts
        PROVE  balance'[a] = SumFunction([t \in T |-> F[t][a]])
    <3>1. PICK f : f = [t \in T |-> Effect(bills[t], a)]
      OBVIOUS
    <3>2. balance'[a] = SumFunction(f)
      BY <1>1, <1>3, <3>1 DEF SumAll
    <3>3. f = [t \in T |-> F[t][a]]
      BY <1>9, <3>1
    <3> QED  BY <3>2, <3>3
  <2>2. PICK h : h = [a \in Accounts |-> SumFunction([t \in T |-> F[t][a]])]
    OBVIOUS
  <2>3. balance' = [a \in Accounts |-> balance'[a]]
    BY <1>1
  <2>4. h = [a \in Accounts |-> balance'[a]]
    BY <2>1, <2>2
  <2> QED  BY <2>2, <2>3, <2>4
<1>13. SumFunction(rows) = SumFunction(balance')
  <2>1. PICK cols : cols = balance'
    OBVIOUS
  <2>2. /\ rows = [t \in T |-> SumFunction(F[t])] /\ IsFiniteSet(T)
        /\ cols = [a \in Accounts |-> SumFunction([t \in T |-> F[t][a]])]
    BY <1>3, <1>9, <1>12, <2>1
  <2>3. SumFunction(rows) = SumFunction(cols)
    BY ONLY <1>10, <2>2, FiniteAccounts, SumSwap
  <2> QED  BY <2>1, <2>3
<1>14. OnlyGapsAreMissing'
  <2>1. Alive' = T
    BY <1>1, <1>3 DEF Alive
  <2>2. SumAll(LAMBDA t : Gap(bills[t]), Alive)' = SumFunction([t \in T |-> Gap(bills[t])])
    BY <1>1, <2>1 DEF SumAll, Gap, LiveItems
  <2>3. SumOfBalances' = SumFunction(rows)
    BY <1>13 DEF SumOfBalances
  <2> QED  BY <1>11, <2>2, <2>3 DEF OnlyGapsAreMissing
<1>15. ASSUME NEW a \in Accounts PROVE Multiple(balance'[a], G[a])
  <2>1. PICK f : f = [t \in T |-> Effect(bills[t], a)]
    OBVIOUS
  <2>2. balance'[a] = SumFunction(f)
    BY <1>1, <1>3, <2>1 DEF SumAll
  <2>3. f \in [T -> Int] /\ \A t \in T : Multiple(f[t], G[a])
    BY <1>4, <1>7, <2>1, EffectType
  <2>4. G[a] \in Int
    BY <1>6
  <2> QED  BY <1>3, <2>2, <2>3, <2>4, SumMultiple
<1>16. Grained(G)'
  BY <1>1, <1>5 DEF Grained, Sharing
<1> QED  BY <1>1, <1>2, <1>14, <1>15, <1>16 DEF MoneyInv, Sound

\* An event is handed down without a rest.
LEMMA HandedWhole ==
  ASSUME BooksInv, balance \in [Accounts -> Int], NEW e \in Sharing, NEW G, Grained(G),
         \A a \in Accounts : Multiple(balance[a], G[a])
  PROVE  /\ SumFunction([a \in Accounts |-> Handed(balance[e], e, a)]) = balance[e]
         /\ \A a \in Accounts : Multiple(Handed(balance[e], e, a), G[a])
<1>1. PICK s, t, x : s = clearing[e] /\ t = TotalOf(clearing[e]) /\ x = balance[e]
  OBVIOUS
<1>2. e \in Events /\ e \in Accounts
  BY EventSets
<1>3. s \in Parts /\ t \in Int /\ t > 0 /\ x \in Int /\ G \in [Accounts -> Int]
  BY <1>1, <1>2, PartsAre DEF BooksInv, Grained
<1>4. \A a \in DOMAIN s : a \in Accounts /\ Multiple(G[e], t * G[a])
  BY <1>1, <1>3, PartsAre DEF Grained
<1>5. ASSUME NEW a \in DOMAIN s PROVE Multiple(x, t * G[a])
  <2>1. PICK g, m : g = G[e] /\ m = t * G[a]
    OBVIOUS
  <2>2. g \in Int /\ m \in Int /\ Multiple(g, m) /\ Multiple(x, g)
    BY <1>1, <1>2, <1>3, <1>4, <2>1
  <2>3. PICK k \in Int : x = g * k
    BY <2>2 DEF Multiple
  <2>4. Multiple(g * k, m)
    BY <2>2, MultipleTimes
  <2> QED  BY <2>1, <2>3, <2>4
<1>6. ASSUME NEW a \in Accounts PROVE Multiple(Handed(x, e, a), G[a])
  <2>1. G[a] \in Int
    BY <1>3
  <2>2. CASE a \in DOMAIN s
    <3>1. Multiple(Part(x, ShareOf(s, a), TotalOf(s)), G[a])
      BY <1>1, <1>3, <1>5, <2>1, <2>2, ShareMultiple
    <3> QED  BY <1>1, <3>1 DEF Handed
  <2>3. CASE a \notin DOMAIN s
    <3>1. Handed(x, e, a) = 0
      BY <1>1, <1>2, <1>3, <2>3, HandedType
    <3> QED  BY <2>1, <3>1, Multiples
  <2> QED  BY <2>2, <2>3
<1>7. Multiple(x, TotalOf(s))
  <2>1. DOMAIN s # {}
    <3>1. s # NoShares
      BY <1>1 DEF Sharing
    <3>2. s = [a \in DOMAIN s |-> s[a]]
      BY <1>3, PartsAre
    <3> QED  BY <3>1, <3>2 DEF NoShares
  <2>2. PICK a \in DOMAIN s : TRUE
    BY <2>1
  <2>3. G[a] \in Int
    BY <1>3, <1>4
  <2>4. Multiple(x, t * G[a])
    BY <1>5
  <2>5. Multiple(x, t)
    BY ONLY <1>3, <2>3, <2>4, Multiples
  <2> QED  BY <1>1, <2>5
<1>8. SumFunction([a \in Accounts |-> Part(x, ShareOf(s, a), TotalOf(s))]) = x
  BY <1>1, <1>3, <1>7, AmountDivided
<1> QED  BY <1>1, <1>6, <1>8 DEF Handed

LEMMA HandedDownSoundly ==
  ASSUME BalanceTypes, ClearInv, MoneyInv, ClearNext
  PROVE  MoneyInv'
<1>1. PICK e : e = Head(sorting)
  OBVIOUS
<1>2. /\ phase = "clear" /\ sorting # <<>>
      /\ balance' = [a \in Accounts |-> IF a = e THEN 0
                                        ELSE balance[a] + Handed(balance[e], e, a)]
      /\ bills' = bills /\ clearing' = clearing /\ phase' = phase
  BY <1>1 DEF ClearNext, books, Handed
<1>3. BooksInv /\ balance \in [Accounts -> Int] /\ clearing \in Clearings
  BY DEF BalanceTypes, MoneyInv
<1>4. e \in Sharing /\ e \in Accounts /\ e \in Events
  <2>1. sorting \in Seq(Sharing)
    BY <1>2 DEF ClearInv
  <2>2. PICK X : X = Sharing
    OBVIOUS
  <2>3. Head(sorting) \in X
    BY <1>2, <2>1, <2>2, TailOf
  <2> QED  BY <1>1, <2>2, <2>3, EventSets
<1>5. PICK G : Grained(G) /\ \A a \in Accounts : Multiple(balance[a], G[a])
  BY <1>2 DEF MoneyInv, Opened
<1>6. PICK x, into : x = balance[e] /\ into = [a \in Accounts |-> Handed(x, e, a)]
  OBVIOUS
<1>7. SumFunction(into) = x /\ \A a \in Accounts : Multiple(into[a], G[a])
  BY <1>3, <1>4, <1>5, <1>6, HandedWhole
<1>8. x \in Int /\ into \in [Accounts -> Int] /\ into[e] = 0
  <2>1. e \notin DOMAIN clearing[e]
    <3>1. PICK C : C = {e}
      OBVIOUS
    <3>2. C \in SUBSET Events /\ C # {}
      BY <1>4, <3>1
    <3>3. ~ \A f \in C : \E h \in C : f \in DOMAIN clearing[h]
      BY <1>3, <3>2 DEF BooksInv, HasCycle
    <3> QED  BY <3>1, <3>3
  <2>2. x \in Int
    BY <1>3, <1>4, <1>6
  <2> QED  BY <1>3, <1>4, <1>6, <2>1, <2>2, HandedType
<1>9. SumOfBalances' = SumOfBalances
  <2>1. PICK both, after : /\ both = [a \in Accounts |-> balance[a] + into[a]]
                           /\ after = balance'
    OBVIOUS
  <2>2. both \in [Accounts -> Int] /\ \A a \in Accounts : both[a] = balance[a] + into[a]
    BY <1>3, <1>8, <2>1
  <2>3. SumFunction(both) = SumFunction(balance) + SumFunction(into)
    BY <1>3, <1>8, <2>2, FiniteAccounts, SumPlus
  <2>4. /\ after \in [Accounts -> Int] /\ after[e] = 0
        /\ \A a \in Accounts : a # e => after[a] = both[a]
    BY <1>2, <1>4, <1>6, <2>1, <2>2
  <2>5. SumFunction(after) = SumFunction(both) + (after[e] - both[e])
    BY <1>4, <2>2, <2>4, FiniteAccounts, SumChanged
  <2>6. both[e] = x /\ SumFunction(balance) \in Int
    BY <1>3, <1>4, <1>6, <1>8, <2>2, FiniteAccounts, SumIsInt
  <2>7. SumFunction(after) = SumFunction(balance)
    BY ONLY <1>7, <1>8, <2>3, <2>4, <2>5, <2>6
  <2> QED  BY <2>1, <2>7 DEF SumOfBalances
<1>10. ASSUME NEW a \in Accounts PROVE Multiple(balance'[a], G[a])
  <2>1. G[a] \in Int /\ balance[a] \in Int /\ into[a] \in Int
    BY <1>3, <1>5, <1>8 DEF Grained
  <2>2. Multiple(balance[a] + into[a], G[a]) /\ Multiple(0, G[a])
    BY ONLY <1>5, <1>7, <2>1, a \in Accounts, MultipleSum, Multiples
  <2>3. balance'[a] = 0 \/ balance'[a] = balance[a] + into[a]
    BY <1>2, <1>6
  <2> QED  BY <2>2, <2>3
<1>11. OnlyGapsAreMissing'
  <2>1. Alive' = Alive
    BY <1>2 DEF Alive
  <2>2. SumAll(LAMBDA t : Gap(bills[t]), Alive)' = SumAll(LAMBDA t : Gap(bills[t]), Alive)
    BY <1>2, <2>1 DEF SumAll, Gap, LiveItems
  <2>3. SumOfBalances = SumAll(LAMBDA t : Gap(bills[t]), Alive)
    BY <1>2 DEF MoneyInv, Opened, OnlyGapsAreMissing
  <2> QED  BY <1>9, <2>2, <2>3 DEF OnlyGapsAreMissing
<1>12. Grained(G)'
  BY <1>2, <1>5 DEF Grained, Sharing
<1> QED  BY <1>2, <1>3, <1>10, <1>11, <1>12 DEF MoneyInv, Sound

\* What changes neither the bills nor a balance.
LEMMA MoneyStays ==
  ASSUME MoneyInv, UNCHANGED <<bills, clearing, balance>>, Opened' => Opened
  PROVE  MoneyInv'
<1>1. bills' = bills /\ clearing' = clearing /\ balance' = balance
  OBVIOUS
<1>2. \A G : Grained(G)' <=> Grained(G)
  BY <1>1 DEF Grained, Sharing
<1>3. Alive' = Alive
  BY <1>1 DEF Alive
<1>4. SumAll(LAMBDA t : Gap(bills[t]), Alive)' = SumAll(LAMBDA t : Gap(bills[t]), Alive)
  BY <1>1, <1>3 DEF SumAll, Gap, LiveItems
<1>5. Opened /\ OnlyGapsAreMissing => OnlyGapsAreMissing'
  BY <1>1, <1>4 DEF OnlyGapsAreMissing, SumOfBalances
<1>6. \A t \in Bills : bills'[t].exists => Sound(bills'[t])
  BY <1>1 DEF MoneyInv
<1> QED  BY <1>1, <1>2, <1>5, <1>6 DEF MoneyInv, Sound

LEMMA MoneyStep ==
  ASSUME BalanceInv, MoneyInv, [Next]_vars
  PROVE  MoneyInv'
<1>0. BalanceTypes /\ ClearInv /\ BooksInv
  BY DEF BalanceInv, BalanceTypes
<1>1. CASE Edit
  BY <1>0, <1>1, EditedSoundly
<1>2. CASE OpenBooks
  BY <1>0, <1>2, OpenedSoundly
<1>3. CASE ClearNext
  BY <1>0, <1>3, HandedDownSoundly
<1>4. CASE OpenFails
  BY <1>4, MoneyStays DEF OpenFails, books, clearingVars, Opened
<1>5. CASE SortNext \/ SortEnds \/ ClearEnds \/ PlanNext \/ UNCHANGED vars
  <2>1. UNCHANGED <<bills, clearing, balance>>
    BY <1>5 DEF SortNext, SortEnds, ClearEnds, PlanNext, vars, books, clearingVars
  <2>2. Opened' => Opened
    BY <1>5 DEF SortNext, SortEnds, ClearEnds, PlanNext, vars, books, clearingVars, Opened
  <2> QED  BY <2>1, <2>2, MoneyStays
<1> QED  BY <1>1, <1>2, <1>3, <1>4, <1>5 DEF Next, Turn

\* Money is neither created nor destroyed, by the effects of the bills
\* (computeTransactionBalanceEffect) nor by the handing down of events
\* (computeAccountBalances), for any bills the constraints let in, any events
\* and any shares, but for the two kinds of gap named.
THEOREM MoneyIsKept == Spec => []OnlyGapsAreMissing
<1>1. Init => MoneyInv
  <2> SUFFICES ASSUME Init PROVE MoneyInv
    OBVIOUS
  <2>1. \A t \in Bills : ~bills[t].exists
    BY DEF Init, NoBill
  <2>2. clearing \in Clearings /\ phase = "edit"
    BY DEF Init
  <2> QED  BY <2>1, <2>2 DEF MoneyInv, Opened
<1>2. BalanceInv /\ MoneyInv /\ [Next]_vars => MoneyInv'
  BY MoneyStep
<1>3. MoneyInv => OnlyGapsAreMissing
  BY DEF MoneyInv, OnlyGapsAreMissing
<1> QED  BY <1>1, <1>2, <1>3, BalancesHold, PTL DEF Spec
=============================================================================
