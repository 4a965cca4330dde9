--------------------------- MODULE HandCheck_proofs ---------------------------
(* Lemmas about hands: sums over the tile types, the first tile, and cutting *)
(* a hand into melds and a pair.                                             *)
EXTENDS HandCheck, FiniteSetTheorems, WellFoundedInduction, TLAPS

-----------------------------------------------------------------------------
(* Smallest elements                                                        *)

LEMMA LeastNumber ==
  ASSUME NEW T \in SUBSET Nat, T # {}
  PROVE  \E x \in T : \A y \in T : x <= y
  <1>1. PICK x \in T : \A y \in T : <<y, x>> \notin OpToRel(<, Nat)
    BY NatLessThanWellFounded, WFMin
  <1>2. ASSUME NEW y \in T
        PROVE  x <= y
    <2>1. ~ (y < x)
      BY <1>1 DEF OpToRel
    <2> QED
      BY <2>1
  <1> QED
    BY <1>2

LEMMA SmallestSet ==
  ASSUME NEW B, B # {}, \A s \in B : IsFiniteSet(s)
  PROVE  \E s \in B : \A t \in B : Cardinality(s) <= Cardinality(t)
  <1> DEFINE T == {Cardinality(s) : s \in B}
  <1>1. T \in SUBSET Nat /\ T # {}
    BY FS_CardinalityType
  <1>2. PICK n \in T : \A k \in T : n <= k
    BY <1>1, LeastNumber
  <1> QED
    BY <1>2

-----------------------------------------------------------------------------
(* The first tile of a hand                                                 *)

\* Hands that count tiles by these types.
IsTypes(D) == D \subseteq Nat /\ IsFiniteSet(D)

IsFirst(i, c) ==
  i \in DOMAIN c /\ c[i] > 0 /\ \A t \in DOMAIN c : c[t] > 0 => i <= t

LEMMA FirstTile ==
  ASSUME NEW D, IsTypes(D), NEW c \in [D -> Nat], Held(c) # {}
  PROVE  Min(Held(c)) \in D /\ IsFirst(Min(Held(c)), c)
  <1>1. Held(c) \in SUBSET Nat
    BY DEF Held, IsTypes
  <1>2. \E x \in Held(c) : \A y \in Held(c) : x =< y
    BY <1>1, LeastNumber
  <1>3. Min(Held(c)) \in Held(c) /\ \A y \in Held(c) : Min(Held(c)) =< y
    BY <1>2 DEF Min
  <1> QED
    BY <1>3 DEF Held, IsFirst

LEMMA OnlyFirst ==
  ASSUME NEW D, IsTypes(D), NEW c \in [D -> Nat], NEW i, IsFirst(i, c)
  PROVE  Held(c) # {} /\ Min(Held(c)) = i
  <1>1. Held(c) # {}
    BY DEF IsFirst, Held
  <1> DEFINE j == Min(Held(c))
  <1>2. j \in D /\ IsFirst(j, c)
    BY <1>1, FirstTile
  <1> HIDE DEF j
  <1>3. i \in D /\ i <= j /\ j <= i
    BY <1>2 DEF IsFirst
  <1>4. i \in Nat /\ j \in Nat
    BY <1>2, <1>3 DEF IsTypes
  <1>5. i = j
    BY <1>3, <1>4
  <1> QED
    BY <1>1, <1>5 DEF j

\* A tile is first of a hand when it is first of one that has more.
LEMMA FirstOfLess ==
  ASSUME NEW D, IsTypes(D), NEW c \in [D -> Nat], NEW b \in [D -> Nat],
         \A t \in D : b[t] <= c[t], NEW i, IsFirst(i, c), b[i] > 0
  PROVE  IsFirst(i, b)
  <1>1. ASSUME NEW t \in D, b[t] > 0
        PROVE  c[t] > 0
    <2>1. b[t] \in Nat /\ c[t] \in Nat /\ b[t] <= c[t]
      OBVIOUS
    <2> QED
      BY <1>1, <2>1
  <1> QED
    BY <1>1 DEF IsFirst

-----------------------------------------------------------------------------
(* Sums                                                                     *)

Any(s) == CHOOSE x \in s : TRUE

\* The sums of f over the sets of its arguments, one argument after the other.
IsSums(iter, f) ==
  iter = [s \in SUBSET DOMAIN f |->
            IF s = {} THEN 0 ELSE f[Any(s)] + iter[s \ {Any(s)}]]

Sums(f) == CHOOSE iter : IsSums(iter, f)

LEMMA SumIsLastSum ==
  ASSUME NEW f
  PROVE  SumFunction(f) = Sums(f)[DOMAIN f]
  BY DEF SumFunction, SumFunctionOnSet, FoldFunctionOnSet, MapThenFoldSet, Sums, IsSums, Any

\* The sums over the sets of at most n arguments.
Small(f, n) == {s \in SUBSET DOMAIN f : Cardinality(s) <= n}
IsPartialSums(g, f, n) ==
  g = [s \in Small(f, n) |-> IF s = {} THEN 0 ELSE f[Any(s)] + g[s \ {Any(s)}]]

LEMMA AnyIn ==
  ASSUME NEW s, s # {}
  PROVE  Any(s) \in s
  BY DEF Any

LEMMA OneLess ==
  ASSUME NEW D, IsFiniteSet(D), NEW s \in SUBSET D, NEW x \in s
  PROVE  /\ IsFiniteSet(s) /\ Cardinality(s) \in Nat
         /\ s \ {x} \in SUBSET D /\ IsFiniteSet(s \ {x})
         /\ Cardinality(s \ {x}) \in Nat /\ Cardinality(s \ {x}) = Cardinality(s) - 1
  <1>1. IsFiniteSet(s)
    BY FS_Subset
  <1>2. /\ IsFiniteSet(s \ {x})
        /\ Cardinality(s \ {x}) = IF x \in s THEN Cardinality(s) - 1 ELSE Cardinality(s)
    BY <1>1, FS_RemoveElement
  <1>3. Cardinality(s) \in Nat /\ Cardinality(s \ {x}) \in Nat
    BY <1>1, <1>2, FS_CardinalityType
  <1> QED
    BY <1>1, <1>2, <1>3

LEMMA PartialSumsExtend ==
  ASSUME NEW f, IsFiniteSet(DOMAIN f), NEW n \in Nat, NEW g, IsPartialSums(g, f, n)
  PROVE  \E h : IsPartialSums(h, f, n + 1)
  <1> DEFINE h == [s \in Small(f, n + 1) |->
                     IF s = {} THEN 0 ELSE f[Any(s)] + g[s \ {Any(s)}]]
  <1>1. ASSUME NEW s \in Small(f, n)
        PROVE  s \in Small(f, n + 1) /\ h[s] = g[s]
    <2>1. Cardinality(s) \in Nat
      BY FS_Subset, FS_CardinalityType DEF Small
    <2>2. s \in Small(f, n + 1)
      BY <2>1 DEF Small
    <2>3. h[s] = IF s = {} THEN 0 ELSE f[Any(s)] + g[s \ {Any(s)}]
      BY <2>2
    <2>4. g[s] = IF s = {} THEN 0 ELSE f[Any(s)] + g[s \ {Any(s)}]
      BY DEF IsPartialSums
    <2> QED
      BY <2>2, <2>3, <2>4
  <1>2. ASSUME NEW s \in Small(f, n + 1), s # {}
        PROVE  s \ {Any(s)} \in Small(f, n)
    <2>1. Any(s) \in s
      BY <1>2, AnyIn
    <2>2. Cardinality(s) <= n + 1 /\ s \in SUBSET DOMAIN f
      BY DEF Small
    <2>3. /\ s \ {Any(s)} \in SUBSET DOMAIN f /\ Cardinality(s) \in Nat
          /\ Cardinality(s \ {Any(s)}) = Cardinality(s) - 1
      BY <2>1, <2>2, OneLess
    <2> QED
      BY <2>2, <2>3 DEF Small
  <1>3. h = [s \in Small(f, n + 1) |-> IF s = {} THEN 0 ELSE f[Any(s)] + h[s \ {Any(s)}]]
    <2>1. ASSUME NEW s \in Small(f, n + 1), s # {}
          PROVE  g[s \ {Any(s)}] = h[s \ {Any(s)}]
      BY <1>1, <1>2, <2>1
    <2> HIDE DEF h
    <2>2. h = [s \in Small(f, n + 1) |-> IF s = {} THEN 0 ELSE f[Any(s)] + g[s \ {Any(s)}]]
      BY DEF h
    <2> QED
      BY <2>1, <2>2
  <1> QED
    BY <1>3 DEF IsPartialSums

LEMMA PartialSumsExist ==
  ASSUME NEW f, IsFiniteSet(DOMAIN f), NEW n \in Nat
  PROVE  \E g : IsPartialSums(g, f, n)
  <1> DEFINE T == {k \in Nat : ~ \E g : IsPartialSums(g, f, k)}
  <1> SUFFICES ASSUME T # {}
               PROVE  FALSE
    OBVIOUS
  <1>1. PICK k \in T : \A j \in T : k <= j
    BY LeastNumber
  <1>2. CASE k = 0
    <2> DEFINE g == [s \in Small(f, 0) |-> 0]
    <2>1. ASSUME NEW s \in Small(f, 0)
          PROVE  s = {}
      <3>1. IsFiniteSet(s) /\ Cardinality(s) \in Nat /\ Cardinality(s) <= 0
        BY FS_Subset, FS_CardinalityType DEF Small
      <3>2. Cardinality(s) = 0
        BY <3>1
      <3> QED
        BY <3>1, <3>2, FS_EmptySet
    <2>2. g = [s \in Small(f, 0) |-> IF s = {} THEN 0 ELSE f[Any(s)] + g[s \ {Any(s)}]]
      BY <2>1
    <2>3. IsPartialSums(g, f, 0)
      BY <2>2 DEF IsPartialSums
    <2> QED
      BY <1>2, <2>3
  <1>3. CASE k # 0
    <2>1. k - 1 \in Nat /\ k - 1 \notin T /\ (k - 1) + 1 = k
      BY <1>1, <1>3
    <2>2. PICK g : IsPartialSums(g, f, k - 1)
      BY <2>1
    <2>3. \E h : IsPartialSums(h, f, (k - 1) + 1)
      BY <2>1, <2>2, PartialSumsExtend
    <2> QED
      BY <2>1, <2>3
  <1> QED
    BY <1>2, <1>3

LEMMA SumsExist ==
  ASSUME NEW f, IsFiniteSet(DOMAIN f)
  PROVE  IsSums(Sums(f), f)
  <1>1. Cardinality(DOMAIN f) \in Nat
    BY FS_CardinalityType
  <1>2. PICK g : IsPartialSums(g, f, Cardinality(DOMAIN f))
    BY <1>1, PartialSumsExist
  <1>3. Small(f, Cardinality(DOMAIN f)) = SUBSET DOMAIN f
    BY FS_Subset DEF Small
  <1>4. IsSums(g, f)
    BY <1>2, <1>3 DEF IsPartialSums, IsSums
  <1> QED
    BY <1>4 DEF Sums

\* How a sum is made.
LEMMA SumsRule ==
  ASSUME NEW f, IsFiniteSet(DOMAIN f), NEW s \in SUBSET DOMAIN f
  PROVE  Sums(f)[s] = IF s = {} THEN 0 ELSE f[Any(s)] + Sums(f)[s \ {Any(s)}]
  BY SumsExist DEF IsSums

LEMMA SumsType ==
  ASSUME NEW D, IsFiniteSet(D), NEW f \in [D -> Int], NEW s \in SUBSET D
  PROVE  Sums(f)[s] \in Int
  <1> DEFINE B == {x \in SUBSET D : Sums(f)[x] \notin Int}
  <1> SUFFICES ASSUME B # {}
               PROVE  FALSE
    OBVIOUS
  <1>1. PICK x \in B : \A y \in B : Cardinality(x) <= Cardinality(y)
    BY SmallestSet, FS_Subset
  <1>2. Sums(f)[x] = IF x = {} THEN 0 ELSE f[Any(x)] + Sums(f)[x \ {Any(x)}]
    BY SumsRule
  <1>3. x # {} /\ Any(x) \in x
    BY <1>2, AnyIn
  <1>4. /\ x \ {Any(x)} \in SUBSET D /\ Cardinality(x) \in Nat
        /\ Cardinality(x \ {Any(x)}) = Cardinality(x) - 1
    BY <1>3, OneLess
  <1>5. ~ (Cardinality(x) <= Cardinality(x \ {Any(x)}))
    BY <1>4
  <1>6. Sums(f)[x \ {Any(x)}] \in Int
    BY <1>1, <1>4, <1>5
  <1> QED
    BY <1>2, <1>3, <1>6

\* Any element may be the first.
LEMMA SumsRemove ==
  ASSUME NEW D, IsFiniteSet(D), NEW f \in [D -> Int], NEW s \in SUBSET D, NEW x \in s
  PROVE  Sums(f)[s] = f[x] + Sums(f)[s \ {x}]
  <1> DEFINE B == {y \in SUBSET D : \E z \in y : Sums(f)[y] # f[z] + Sums(f)[y \ {z}]}
  <1> SUFFICES ASSUME B # {}
               PROVE  FALSE
    OBVIOUS
  <1>1. PICK y \in B : \A u \in B : Cardinality(y) <= Cardinality(u)
    BY SmallestSet, FS_Subset
  <1>2. PICK z \in y : Sums(f)[y] # f[z] + Sums(f)[y \ {z}]
    BY <1>1
  <1> DEFINE a == Any(y)
  <1>3. a \in y /\ Sums(f)[y] = f[a] + Sums(f)[y \ {a}]
    <2>1. y # {} /\ a \in y
      BY <1>2, AnyIn
    <2>2. Sums(f)[y] = IF y = {} THEN 0 ELSE f[a] + Sums(f)[y \ {a}]
      BY SumsRule
    <2> QED
      BY <2>1, <2>2
  <1> HIDE DEF a
  <1>4. a # z
    BY <1>2, <1>3
  <1>5. ASSUME NEW b \in y
        PROVE  /\ y \ {b} \in SUBSET D
               /\ \A u \in y \ {b} : Sums(f)[y \ {b}] = f[u] + Sums(f)[(y \ {b}) \ {u}]
    <2>1. /\ y \ {b} \in SUBSET D /\ Cardinality(y) \in Nat
          /\ Cardinality(y \ {b}) = Cardinality(y) - 1
      BY OneLess
    <2>2. ~ (Cardinality(y) <= Cardinality(y \ {b}))
      BY <2>1
    <2> QED
      BY <1>1, <2>1, <2>2
  <1> DEFINE u == (y \ {a}) \ {z}
  <1>6. Sums(f)[y \ {a}] = f[z] + Sums(f)[u]
    BY <1>2, <1>3, <1>4, <1>5
  <1>7. Sums(f)[y \ {z}] = f[a] + Sums(f)[u]
    <2>1. u = (y \ {z}) \ {a}
      OBVIOUS
    <2> QED
      BY <1>2, <1>3, <1>4, <1>5, <2>1
  <1>8. Sums(f)[u] \in Int /\ f[a] \in Int /\ f[z] \in Int
    <2>1. u \in SUBSET D /\ a \in D /\ z \in D
      BY <1>2, <1>3
    <2> QED
      BY <2>1, SumsType
  <1> HIDE DEF u, B
  <1> QED
    BY <1>2, <1>3, <1>6, <1>7, <1>8

LEMMA SumsNat ==
  ASSUME NEW D, IsFiniteSet(D), NEW f \in [D -> Nat], NEW s \in SUBSET D
  PROVE  Sums(f)[s] \in Nat
  <1> DEFINE B == {x \in SUBSET D : Sums(f)[x] \notin Nat}
  <1> SUFFICES ASSUME B # {}
               PROVE  FALSE
    OBVIOUS
  <1>1. PICK x \in B : \A y \in B : Cardinality(x) <= Cardinality(y)
    BY SmallestSet, FS_Subset
  <1>2. Sums(f)[x] = IF x = {} THEN 0 ELSE f[Any(x)] + Sums(f)[x \ {Any(x)}]
    BY SumsRule
  <1>3. x # {} /\ Any(x) \in x
    BY <1>2, AnyIn
  <1>4. /\ x \ {Any(x)} \in SUBSET D /\ Cardinality(x) \in Nat
        /\ Cardinality(x \ {Any(x)}) = Cardinality(x) - 1
    BY <1>3, OneLess
  <1>5. ~ (Cardinality(x) <= Cardinality(x \ {Any(x)}))
    BY <1>4
  <1>6. Sums(f)[x \ {Any(x)}] \in Nat
    BY <1>1, <1>4, <1>5
  <1> QED
    BY <1>2, <1>3, <1>6

LEMMA SumsAtLeast ==
  ASSUME NEW D, IsFiniteSet(D), NEW f \in [D -> Nat], NEW s \in SUBSET D, NEW x \in s
  PROVE  Sums(f)[s] >= f[x]
  <1>1. f \in [D -> Int] /\ f[x] \in Nat
    OBVIOUS
  <1>2. Sums(f)[s] = f[x] + Sums(f)[s \ {x}]
    BY <1>1, SumsRemove
  <1>3. Sums(f)[s \ {x}] \in Nat
    BY SumsNat
  <1> QED
    BY <1>1, <1>2, <1>3

LEMMA SumsOfNothing ==
  ASSUME NEW D, IsFiniteSet(D), NEW f \in [D -> Nat], NEW s \in SUBSET D, Sums(f)[s] # 0
  PROVE  \E x \in s : f[x] > 0
  <1> DEFINE B == {x \in SUBSET s : Sums(f)[x] # 0}
  <1> SUFFICES ASSUME \A x \in s : ~ (f[x] > 0)
               PROVE  FALSE
    OBVIOUS
  <1>1. B # {} /\ \A y \in B : IsFiniteSet(y)
    BY FS_Subset
  <1>2. PICK x \in B : \A y \in B : Cardinality(x) <= Cardinality(y)
    BY <1>1, SmallestSet
  <1>3. Sums(f)[x] = IF x = {} THEN 0 ELSE f[Any(x)] + Sums(f)[x \ {Any(x)}]
    BY SumsRule
  <1>4. x # {} /\ Any(x) \in x
    BY <1>2, <1>3, AnyIn
  <1>5. /\ x \ {Any(x)} \in SUBSET s /\ Cardinality(x) \in Nat
        /\ Cardinality(x \ {Any(x)}) = Cardinality(x) - 1
    BY <1>4, OneLess
  <1>6. ~ (Cardinality(x) <= Cardinality(x \ {Any(x)}))
    BY <1>5
  <1>7. Sums(f)[x \ {Any(x)}] = 0
    BY <1>2, <1>5, <1>6
  <1>8. f[Any(x)] = 0
    BY <1>4
  <1> QED
    BY <1>2, <1>3, <1>4, <1>7, <1>8

\* What a sum is made of alone decides it.
LEMMA SumsAgree ==
  ASSUME NEW D, IsFiniteSet(D), NEW f \in [D -> Int],
         NEW E, IsFiniteSet(E), NEW g \in [E -> Int],
         NEW s \in SUBSET D, s \in SUBSET E, \A x \in s : f[x] = g[x]
  PROVE  Sums(f)[s] = Sums(g)[s]
  <1> DEFINE B == {x \in SUBSET s : Sums(f)[x] # Sums(g)[x]}
  <1> SUFFICES ASSUME B # {}
               PROVE  FALSE
    OBVIOUS
  <1>1. PICK x \in B : \A y \in B : Cardinality(x) <= Cardinality(y)
    BY SmallestSet, FS_Subset
  <1>2. /\ Sums(f)[x] = IF x = {} THEN 0 ELSE f[Any(x)] + Sums(f)[x \ {Any(x)}]
        /\ Sums(g)[x] = IF x = {} THEN 0 ELSE g[Any(x)] + Sums(g)[x \ {Any(x)}]
    BY SumsRule
  <1>3. x # {} /\ Any(x) \in x
    BY <1>2, AnyIn
  <1>4. /\ x \ {Any(x)} \in SUBSET s /\ Cardinality(x) \in Nat
        /\ Cardinality(x \ {Any(x)}) = Cardinality(x) - 1
    BY <1>3, OneLess
  <1>5. ~ (Cardinality(x) <= Cardinality(x \ {Any(x)}))
    BY <1>4
  <1>6. Sums(f)[x \ {Any(x)}] = Sums(g)[x \ {Any(x)}] /\ f[Any(x)] = g[Any(x)]
    BY <1>1, <1>3, <1>4, <1>5
  <1> QED
    BY <1>2, <1>3, <1>6

-----------------------------------------------------------------------------
(* How many tiles a hand holds                                              *)

LEMMA TotalType ==
  ASSUME NEW D, IsFiniteSet(D), NEW c \in [D -> Nat]
  PROVE  /\ Total(c) \in Nat /\ \A t \in D : Total(c) >= c[t]
         /\ Total(c) = 0 <=> Held(c) = {}
  <1>1. Total(c) = Sums(c)[D]
    BY SumIsLastSum DEF Total
  <1>2. Total(c) \in Nat /\ \A t \in D : Total(c) >= c[t]
    BY <1>1, SumsNat, SumsAtLeast
  <1>3. Total(c) = 0 => Held(c) = {}
    BY <1>2 DEF Held
  <1>4. Total(c) # 0 => Held(c) # {}
    BY <1>1, SumsOfNothing DEF Held
  <1> QED
    BY <1>2, <1>3, <1>4

\* Tiles of one type are taken.
LEMMA TotalTakeOne ==
  ASSUME NEW D, IsFiniteSet(D), NEW c \in [D -> Int], NEW n \in Int, NEW i \in D
  PROVE  /\ Take(c, n, {i}) \in [D -> Int]
         /\ Total(Take(c, n, {i})) = Total(c) - n
  <1> DEFINE d == Take(c, n, {i})
  <1>a. d \in [D -> Int]
    BY DEF Take
  <1>1. d[i] = c[i] - n /\ \A t \in D \ {i} : d[t] = c[t]
    BY DEF Take
  <1> HIDE DEF d
  <1>2. Total(c) = Sums(c)[D] /\ Total(d) = Sums(d)[D]
    BY <1>a, SumIsLastSum DEF Total
  <1>3. Sums(c)[D] = c[i] + Sums(c)[D \ {i}]
    BY SumsRemove
  <1>4. Sums(d)[D] = d[i] + Sums(d)[D \ {i}]
    BY <1>a, SumsRemove
  <1>5. Sums(c)[D \ {i}] = Sums(d)[D \ {i}]
    BY <1>a, <1>1, SumsAgree
  <1>6. Sums(c)[D \ {i}] \in Int /\ c[i] \in Int
    BY SumsType
  <1>7. Total(d) = Total(c) - n
    BY <1>1, <1>2, <1>3, <1>4, <1>5, <1>6
  <1> QED
    BY <1>a, <1>7 DEF d

LEMMA TotalTakeThree ==
  ASSUME NEW D, IsFiniteSet(D), NEW c \in [D -> Int],
         NEW i \in D, NEW j \in D, NEW k \in D, i # j, i # k, j # k
  PROVE  Total(Take(c, 1, {i, j, k})) = Total(c) - 3
  <1> DEFINE c1 == Take(c, 1, {i})
             c2 == Take(c1, 1, {j})
             c3 == Take(c2, 1, {k})
  <1>1. c1 \in [D -> Int] /\ Total(c1) = Total(c) - 1
    BY TotalTakeOne
  <1> HIDE DEF c1
  <1>2. c2 \in [D -> Int] /\ Total(c2) = Total(c1) - 1
    BY <1>1, TotalTakeOne
  <1> HIDE DEF c2
  <1>3. Total(c3) = Total(c2) - 1
    BY <1>2, TotalTakeOne
  <1>4. Take(c, 1, {i, j, k}) = c3
    BY DEF Take, c1, c2
  <1>5. Total(c) \in Int
    BY SumIsLastSum, SumsType DEF Total
  <1> HIDE DEF c3
  <1> QED
    BY <1>1, <1>2, <1>3, <1>4, <1>5

\* One tile of each type of a sequence is taken.
LEMMA TotalTakeSequence ==
  ASSUME NEW D, IsFiniteSet(D), NEW c \in [D -> Int], NEW i \in Int,
         SequenceFrom(i) \subseteq D
  PROVE  Total(Take(c, 1, SequenceFrom(i))) = Total(c) - 3
  <1>1. i \in D /\ i + 1 \in D /\ i + 2 \in D /\ SequenceFrom(i) = {i, i + 1, i + 2}
    BY DEF SequenceFrom
  <1>2. \E a, b, d \in D : a # b /\ a # d /\ b # d /\ SequenceFrom(i) = {a, b, d}
    BY <1>1
  <1>3. PICK a \in D, b \in D, d \in D :
          a # b /\ a # d /\ b # d /\ SequenceFrom(i) = {a, b, d}
    BY <1>2
  <1> HIDE <1>1, <1>2
  <1>4. Total(Take(c, 1, {a, b, d})) = Total(c) - 3
    BY <1>3, TotalTakeThree
  <1> QED
    BY <1>3, <1>4

-----------------------------------------------------------------------------
(* One meld after the other                                                 *)

AreLeft(left, c) ==
  left = [n \in 0 .. MAX_MELDS |->
            IF n = 0 THEN {c} ELSE UNION {AfterMeld(d) : d \in left[n - 1]}]

Left(c) == CHOOSE left : AreLeft(left, c)

\* The hands left by one more meld.
AfterMelds(ds) == UNION {AfterMeld(d) : d \in ds}

LEMMA RemoveMeldsIsLeft ==
  ASSUME NEW c, NEW n
  PROVE  RemoveMelds(c, n) <=> Left(c)[n] # {}
  BY DEF RemoveMelds, Left, AreLeft

LEMMA LeftRule ==
  ASSUME NEW c
  PROVE  /\ Left(c)[0] = {c}
         /\ \A n \in 1 .. MAX_MELDS : Left(c)[n] = AfterMelds(Left(c)[n - 1])
  <1> DEFINE l1 == AfterMelds({c})
             l2 == AfterMelds(l1)
             l3 == AfterMelds(l2)
             l4 == AfterMelds(l3)
             left == [n \in 0 .. MAX_MELDS |->
                        IF n = 0 THEN {c} ELSE IF n = 1 THEN l1 ELSE
                        IF n = 2 THEN l2 ELSE IF n = 3 THEN l3 ELSE l4]
  <1>1. left[0] = {c} /\ left[1] = l1 /\ left[2] = l2 /\ left[3] = l3 /\ left[4] = l4
    BY DEF MAX_MELDS
  <1> HIDE DEF l1, l2, l3, l4
  <1>2. ASSUME NEW n \in 0 .. MAX_MELDS
        PROVE  left[n] = IF n = 0 THEN {c} ELSE AfterMelds(left[n - 1])
    <2>1. n \in {0, 1, 2, 3, 4}
      BY DEF MAX_MELDS
    <2>2. /\ l1 = AfterMelds({c}) /\ l2 = AfterMelds(l1)
          /\ l3 = AfterMelds(l2) /\ l4 = AfterMelds(l3)
      BY DEF l1, l2, l3, l4
    <2> HIDE DEF left
    <2>3. CASE n = 0
      BY <1>1, <2>3
    <2>4. CASE n = 1
      BY <1>1, <2>2, <2>4
    <2>5. CASE n = 2
      BY <1>1, <2>2, <2>5
    <2>6. CASE n = 3
      BY <1>1, <2>2, <2>6
    <2>7. CASE n = 4
      BY <1>1, <2>2, <2>7
    <2> QED
      BY <2>1, <2>3, <2>4, <2>5, <2>6, <2>7
  <1>3. left = [n \in 0 .. MAX_MELDS |->
                  IF n = 0 THEN {c} ELSE AfterMelds(left[n - 1])]
    <2>1. left = [n \in 0 .. MAX_MELDS |-> left[n]]
      OBVIOUS
    <2> HIDE DEF left
    <2> QED
      BY <1>2, <2>1
  <1>4. AreLeft(left, c)
    BY <1>3 DEF AreLeft, AfterMelds
  <1>5. AreLeft(Left(c), c)
    BY <1>4 DEF Left
  <1>6. Left(c) = [n \in 0 .. MAX_MELDS |->
                     IF n = 0 THEN {c} ELSE AfterMelds(Left(c)[n - 1])]
    BY <1>5 DEF AreLeft, AfterMelds
  <1> QED
    BY <1>6 DEF MAX_MELDS

\* The first meld may be taken first: it is the same.
LEMMA LeftFirst ==
  ASSUME NEW c, NEW n \in 1 .. MAX_MELDS
  PROVE  Left(c)[n] = UNION {Left(d)[n - 1] : d \in AfterMeld(c)}
  <1> DEFINE First(k) == Left(c)[k] = UNION {Left(d)[k - 1] : d \in AfterMeld(c)}
  <1>1. First(1)
    <2>1. Left(c)[1] = AfterMelds(Left(c)[0]) /\ Left(c)[0] = {c}
      BY LeftRule DEF MAX_MELDS
    <2>2. \A d : Left(d)[0] = {d}
      BY LeftRule
    <2>3. AfterMelds({c}) = AfterMeld(c)
      BY DEF AfterMelds
    <2>4. UNION {Left(d)[0] : d \in AfterMeld(c)} = AfterMeld(c)
      BY <2>2
    <2> QED
      BY <2>1, <2>3, <2>4
  <1>2. ASSUME NEW k \in 1 .. MAX_MELDS, k + 1 \in 1 .. MAX_MELDS, First(k)
        PROVE  First(k + 1)
    <2>1. \A d : Left(d)[k] = AfterMelds(Left(d)[k - 1])
      BY LeftRule
    <2>2. Left(c)[k + 1] = AfterMelds(Left(c)[k])
      <3>1. Left(c)[k + 1] = AfterMelds(Left(c)[(k + 1) - 1])
        BY <1>2, LeftRule
      <3> QED
        BY <3>1
    <2>3. AfterMelds(UNION {Left(d)[k - 1] : d \in AfterMeld(c)})
            = UNION {AfterMelds(Left(d)[k - 1]) : d \in AfterMeld(c)}
      BY DEF AfterMelds
    <2>4. Left(c)[k + 1] = UNION {Left(d)[k] : d \in AfterMeld(c)}
      BY <1>2, <2>1, <2>2, <2>3
    <2> QED
      BY <2>4
  <1> HIDE DEF First
  <1>3. First(1) /\ First(2) /\ First(3) /\ First(4)
    <2>1. /\ First(1) => First(1 + 1)
          /\ First(2) => First(2 + 1)
          /\ First(3) => First(3 + 1)
      BY <1>2 DEF MAX_MELDS
    <2> QED
      BY <1>1, <2>1
  <1> QED
    BY <1>3 DEF First, MAX_MELDS

\* The recursion of remove_melds.
LEMMA RemoveMeldsRule ==
  ASSUME NEW c
  PROVE  /\ RemoveMelds(c, 0)
         /\ \A n \in 1 .. MAX_MELDS :
              RemoveMelds(c, n) <=> \E d \in AfterMeld(c) : RemoveMelds(d, n - 1)
  <1>1. RemoveMelds(c, 0)
    BY RemoveMeldsIsLeft, LeftRule
  <1>2. ASSUME NEW n \in 1 .. MAX_MELDS
        PROVE  RemoveMelds(c, n) <=> \E d \in AfterMeld(c) : RemoveMelds(d, n - 1)
    <2>1. Left(c)[n] = UNION {Left(d)[n - 1] : d \in AfterMeld(c)}
      BY LeftFirst
    <2>2. \A d : RemoveMelds(d, n - 1) <=> Left(d)[n - 1] # {}
      BY RemoveMeldsIsLeft
    <2>3. RemoveMelds(c, n) <=> Left(c)[n] # {}
      BY RemoveMeldsIsLeft
    <2> QED
      BY <2>1, <2>2, <2>3
  <1> QED
    BY <1>1, <1>2

\* What one cut of a meld leaves of a hand whose first tile is i.
Melded(c, i, d) ==
  \/ c[i] >= 3 /\ d = Take(c, 3, {i})
  \/ HasSequence(c, i) /\ d = Take(c, 1, SequenceFrom(i))

LEMMA AfterMeldIs ==
  ASSUME NEW c, NEW d
  PROVE  d \in AfterMeld(c) <=> Held(c) # {} /\ Melded(c, Min(Held(c)), d)
  BY DEF AfterMeld, Melded, When

\* The number of tiles a meld takes, and what it leaves.
LEMMA MeldedType ==
  ASSUME NEW D, IsTypes(D), NEW c \in [D -> Nat], NEW i \in D, NEW d,
         Melded(c, i, d)
  PROVE  /\ d \in [D -> Nat] /\ Total(d) = Total(c) - 3
         /\ \A t \in D : d[t] <= c[t]
  <1>0. c \in [D -> Int] /\ IsFiniteSet(D)
    BY DEF IsTypes
  <1>1. CASE c[i] >= 3 /\ d = Take(c, 3, {i})
    <2>1. d \in [D -> Nat] /\ \A t \in D : d[t] <= c[t]
      BY <1>1 DEF Take
    <2>2. Total(d) = Total(c) - 3
      BY <1>0, <1>1, TotalTakeOne
    <2> QED
      BY <2>1, <2>2
  <1>2. CASE HasSequence(c, i) /\ d = Take(c, 1, SequenceFrom(i))
    <2>1. /\ SequenceFrom(i) \subseteq D /\ \A t \in SequenceFrom(i) : c[t] >= 1
          /\ i \in Int
      BY <1>2 DEF HasSequence, Contains, IsTypes
    <2>2. d \in [D -> Nat] /\ \A t \in D : d[t] <= c[t]
      BY <1>2, <2>1 DEF Take
    <2>3. Total(d) = Total(c) - 3
      BY <1>0, <1>2, <2>1, TotalTakeSequence
    <2> QED
      BY <2>2, <2>3
  <1> QED
    BY <1>1, <1>2 DEF Melded

\* What the pair p leaves of a hand.
Paired(c, p, b) == c[p] >= 2 /\ b = Take(c, 2, {p})

LEMMA PairedType ==
  ASSUME NEW D, IsTypes(D), NEW c \in [D -> Nat], NEW p \in D, NEW b, Paired(c, p, b)
  PROVE  /\ b \in [D -> Nat] /\ Total(b) = Total(c) - 2
         /\ \A t \in D : b[t] = IF t = p THEN c[t] - 2 ELSE c[t]
         /\ \A t \in D : b[t] <= c[t]
  <1>1. c \in [D -> Int] /\ IsFiniteSet(D)
    BY DEF IsTypes
  <1>2. Total(b) = Total(c) - 2
    BY <1>1, TotalTakeOne DEF Paired
  <1>3. /\ b \in [D -> Nat]
        /\ \A t \in D : b[t] = IF t = p THEN c[t] - 2 ELSE c[t]
    BY DEF Paired, Take
  <1> QED
    BY <1>2, <1>3

LEMMA StandardIsPaired ==
  ASSUME NEW D, NEW c \in [D -> Nat], NEW k
  PROVE  CheckStandard(c, k) <=> \E p \in D : \E b : Paired(c, p, b) /\ RemoveMelds(b, k)
  BY DEF CheckStandard, Paired

\* A pair and a meld are taken in either order.
LEMMA PairThenMeld ==
  ASSUME NEW D, IsTypes(D), NEW c \in [D -> Nat], NEW i \in D, NEW p \in D,
         NEW b, Paired(c, p, b), NEW e, Melded(b, i, e)
  PROVE  \E d : Melded(c, i, d) /\ Paired(d, p, e)
  <1>1. /\ b \in [D -> Nat] /\ DOMAIN b = D /\ DOMAIN c = D
        /\ \A t \in D : b[t] = IF t = p THEN c[t] - 2 ELSE c[t]
    BY PairedType
  <1>2. c[p] >= 2 /\ \A t \in D : b[t] \in Nat /\ c[t] \in Nat
    BY <1>1 DEF Paired
  <1>3. CASE b[i] >= 3 /\ e = Take(b, 3, {i})
    <2> DEFINE d == Take(c, 3, {i})
    <2>1. c[i] >= 3 /\ d[p] >= 2
      <3>1. CASE i = p
        BY <1>1, <1>2, <1>3, <3>1 DEF Take
      <3>2. CASE i # p
        BY <1>1, <1>2, <1>3, <3>2 DEF Take
      <3> QED
        BY <3>1, <3>2
    <2>2. e = Take(d, 2, {p})
      BY <1>1, <1>3 DEF Take, Paired
    <2> QED
      BY <2>1, <2>2 DEF Melded, Paired
  <1>4. CASE HasSequence(b, i) /\ e = Take(b, 1, SequenceFrom(i))
    <2> DEFINE d == Take(c, 1, SequenceFrom(i))
    <2>1. /\ StartsSequence(i) /\ SequenceFrom(i) \subseteq D
          /\ \A t \in SequenceFrom(i) : b[t] >= 1
      BY <1>1, <1>4 DEF HasSequence, Contains
    <2>2. ASSUME NEW t \in SequenceFrom(i)
          PROVE  c[t] >= 1 /\ (t = p => c[t] >= 3)
      BY <1>1, <1>2, <2>1
    <2>3. HasSequence(c, i)
      BY <1>1, <2>1, <2>2 DEF HasSequence, Contains
    <2>4. d[p] >= 2
      <3>1. d[p] = IF p \in SequenceFrom(i) THEN c[p] - 1 ELSE c[p]
        BY DEF Take
      <3> QED
        BY <1>2, <2>2, <3>1
    <2>5. e = Take(d, 2, {p})
      BY <1>1, <1>4 DEF Take, Paired
    <2> QED
      BY <2>3, <2>4, <2>5 DEF Melded, Paired
  <1> QED
    BY <1>3, <1>4 DEF Melded

LEMMA MeldThenPair ==
  ASSUME NEW D, IsTypes(D), NEW c \in [D -> Nat], NEW i \in D, NEW p \in D,
         NEW d, Melded(c, i, d), NEW e, Paired(d, p, e)
  PROVE  \E b : Paired(c, p, b) /\ Melded(b, i, e)
  <1> DEFINE b == Take(c, 2, {p})
  <1>1. /\ d \in [D -> Nat] /\ DOMAIN b = D /\ DOMAIN c = D
        /\ \A t \in D : b[t] = IF t = p THEN c[t] - 2 ELSE c[t]
    BY MeldedType DEF Take
  <1>2. d[p] >= 2 /\ \A t \in D : d[t] <= c[t] /\ d[t] \in Nat /\ c[t] \in Nat
    BY <1>1, MeldedType DEF Paired
  <1>3. c[p] >= 2
    BY <1>2
  <1>4. CASE c[i] >= 3 /\ d = Take(c, 3, {i})
    <2>1. b[i] >= 3
      <3>1. CASE i = p
        BY <1>1, <1>2, <1>4, <3>1 DEF Take
      <3>2. CASE i # p
        BY <1>1, <1>2, <1>4, <3>2
      <3> QED
        BY <3>1, <3>2
    <2>2. e = Take(b, 3, {i})
      BY <1>1, <1>4 DEF Take, Paired
    <2> QED
      BY <1>3, <2>1, <2>2 DEF Melded, Paired
  <1>5. CASE HasSequence(c, i) /\ d = Take(c, 1, SequenceFrom(i))
    <2>1. /\ StartsSequence(i) /\ SequenceFrom(i) \subseteq D
          /\ \A t \in SequenceFrom(i) : c[t] >= 1
      BY <1>1, <1>5 DEF HasSequence, Contains
    <2>2. p \in SequenceFrom(i) => c[p] >= 3
      <3>1. d[p] = IF p \in SequenceFrom(i) THEN c[p] - 1 ELSE c[p]
        BY <1>5 DEF Take
      <3> QED
        BY <1>2, <3>1
    <2> HIDE DEF b
    <2>3. ASSUME NEW t \in SequenceFrom(i)
          PROVE  b[t] >= 1
      <3>1. CASE t = p
        BY <1>1, <1>2, <2>1, <2>2, <3>1
      <3>2. CASE t # p
        BY <1>1, <2>1, <3>2
      <3> QED
        BY <3>1, <3>2
    <2>4. HasSequence(b, i)
      BY <1>1, <2>1, <2>3 DEF HasSequence, Contains
    <2>5. e = Take(b, 1, SequenceFrom(i))
      BY <1>1, <1>5 DEF Take, Paired, b
    <2> QED
      BY <1>3, <2>4, <2>5 DEF Melded, Paired, b
  <1> QED
    BY <1>4, <1>5 DEF Melded

-----------------------------------------------------------------------------
(* A hand of melds and a pair, cut at its first tile                        *)

LEMMA MeldsStep ==
  ASSUME NEW D, IsTypes(D), NEW c \in [D -> Nat], NEW i, IsFirst(i, c),
         NEW k \in 1 .. MAX_MELDS
  PROVE  RemoveMelds(c, k) <=> \E d : Melded(c, i, d) /\ RemoveMelds(d, k - 1)
  <1>1. Held(c) # {} /\ Min(Held(c)) = i
    BY OnlyFirst
  <1> QED
    BY <1>1, RemoveMeldsRule, AfterMeldIs

\* A complete hand has its pair or one of its melds at its first tile.
LEMMA StandardStep ==
  ASSUME NEW D, IsTypes(D), NEW c \in [D -> Nat], NEW i \in D, IsFirst(i, c),
         NEW k \in 0 .. MAX_MELDS, Total(c) = 3 * k + 2, CheckStandard(c, k)
  PROVE  \/ \E b : Paired(c, i, b) /\ RemoveMelds(b, k)
         \/ k > 0 /\ \E d : Melded(c, i, d) /\ CheckStandard(d, k - 1)
  <1>1. PICK p \in D : \E b : Paired(c, p, b) /\ RemoveMelds(b, k)
    BY StandardIsPaired
  <1>2. PICK b : Paired(c, p, b) /\ RemoveMelds(b, k)
    BY <1>1
  <1>3. /\ b \in [D -> Nat] /\ Total(b) = Total(c) - 2
        /\ \A t \in D : b[t] = IF t = p THEN c[t] - 2 ELSE c[t]
        /\ \A t \in D : b[t] <= c[t]
    BY <1>2, PairedType
  <1>4. CASE i = p
    BY <1>2, <1>4
  <1>5. CASE i # p
    <2>1. b[i] > 0
      BY <1>3, <1>5 DEF IsFirst
    <2>2. IsFirst(i, b)
      BY <1>3, <2>1, FirstOfLess
    <2>3. k \in 1 .. MAX_MELDS
      <3>1. Total(b) >= b[i]
        BY <1>3, TotalType DEF IsTypes
      <3>2. 3 * k >= b[i] /\ b[i] \in Nat
        BY <1>3, <3>1
      <3> QED
        BY <2>1, <3>2
    <2>4. PICK e : Melded(b, i, e) /\ RemoveMelds(e, k - 1)
      BY <1>2, <1>3, <2>2, <2>3, MeldsStep
    <2>5. PICK d : Melded(c, i, d) /\ Paired(d, p, e)
      BY <1>2, <2>4, PairThenMeld
    <2>6. d \in [D -> Nat]
      BY <2>5, MeldedType
    <2>7. CheckStandard(d, k - 1)
      BY <2>4, <2>5, <2>6, StandardIsPaired
    <2> QED
      BY <2>3, <2>5, <2>7
  <1> QED
    BY <1>4, <1>5

\* And a hand is complete if what is left without a meld at its first tile is.
LEMMA StandardStepBack ==
  ASSUME NEW D, IsTypes(D), NEW c \in [D -> Nat], NEW i \in D, IsFirst(i, c),
         NEW k \in 1 .. MAX_MELDS, NEW d, Melded(c, i, d), CheckStandard(d, k - 1)
  PROVE  CheckStandard(c, k)
  <1>1. d \in [D -> Nat]
    BY MeldedType
  <1>2. PICK p \in D : \E e : Paired(d, p, e) /\ RemoveMelds(e, k - 1)
    BY <1>1, StandardIsPaired
  <1>3. PICK e : Paired(d, p, e) /\ RemoveMelds(e, k - 1)
    BY <1>2
  <1>4. PICK b : Paired(c, p, b) /\ Melded(b, i, e)
    BY <1>3, MeldThenPair
  <1>5. b \in [D -> Nat] /\ \A t \in D : b[t] <= c[t]
    BY <1>4, PairedType
  <1>6. b[i] > 0
    <2>1. CASE b[i] >= 3
      BY <1>5, <2>1
    <2>2. CASE HasSequence(b, i)
      <3>1. i \in Int
        BY DEF IsTypes
      <3>2. i \in SequenceFrom(i) /\ SequenceFrom(i) \subseteq D
        BY <1>5, <2>2, <3>1 DEF HasSequence, Contains, SequenceFrom
      <3>3. b[i] >= 1
        BY <2>2, <3>2 DEF HasSequence, Contains
      <3> QED
        BY <1>5, <3>3
    <2> QED
      BY <1>4, <2>1, <2>2 DEF Melded
  <1>7. IsFirst(i, b)
    BY <1>5, <1>6, FirstOfLess
  <1>8. RemoveMelds(b, k)
    BY <1>3, <1>4, <1>5, <1>7, MeldsStep
  <1> QED
    BY <1>4, <1>8, StandardIsPaired
=============================================================================
