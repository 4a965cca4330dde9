----------------------------- MODULE Hands_proofs -----------------------------
(* The search over blocks (hand_analysis.c) and the division into melds and a *)
(* pair (hand_check.c) agree on which hands are complete, for every hand.     *)
EXTENDS Hands, HandCheck_proofs

-----------------------------------------------------------------------------
(* Tile types and suits                                                     *)

LEMMA TypesType == IsTypes(Types) /\ Types \subseteq Int /\ IsFiniteSet(Types)
  <1>1. IsFiniteSet(TileType) /\ TileType \subseteq Nat
    <2>1. 0 \in Int /\ 33 \in Int
      OBVIOUS
    <2>2. IsFiniteSet(0 .. 33)
      BY <2>1, FS_Interval
    <2> QED
      BY <2>2 DEF TileType
  <1>2. Types \subseteq TileType
    BY TypesAssumption
  <1>3. IsFiniteSet(Types)
    BY <1>1, <1>2, FS_Subset
  <1> QED
    BY <1>1, <1>2, <1>3 DEF IsTypes

\* Both searches let a sequence start at the same types.
LEMMA SequencesAgree ==
  ASSUME NEW i \in TileType
  PROVE  /\ SequenceFrom(i) = {i, i + 1, i + 2}
         /\ StartsSequence(i) => InOneSuit({i, i + 1, i + 2})
         /\ InOneSuit({i, i + 1, i + 2}) /\ i + 2 \in TileType => StartsSequence(i)
  <1>0. i \in Int /\ 0 <= i /\ i <= 33
    BY DEF TileType
  <1>1. SequenceFrom(i) = {i, i + 1, i + 2}
    BY <1>0 DEF SequenceFrom
  <1>2. ASSUME StartsSequence(i)
        PROVE  \A t, u \in {i, i + 1, i + 2} : Suit(t) = Suit(u) /\ Suit(t) # HONOR
    <2>1. i \div 9 # 3 /\ (i % 9) + 1 <= 7
      BY <1>2 DEF StartsSequence, Suit, Number, HONOR
    <2>2. (i + 1) \div 9 = i \div 9 /\ (i + 2) \div 9 = i \div 9
      BY <1>0, <2>1
    <2> QED
      BY <2>1, <2>2 DEF Suit, HONOR
  <1>3. ASSUME InOneSuit({i, i + 1, i + 2}), i + 2 \in TileType
        PROVE  StartsSequence(i)
    <2>1. ~ \E t \in {i, i + 1, i + 2} : {i, i + 1, i + 2} = {t}
      <3>1. i # i + 1
        BY <1>0
      <3> QED
        BY <3>1
    <2>2. Suit(i) = Suit(i + 2) /\ Suit(i) # HONOR
      BY <1>3, <2>1 DEF InOneSuit
    <2>3. i \div 9 = (i + 2) \div 9 /\ i \div 9 # 3
      BY <2>2 DEF Suit, HONOR
    <2>4. (i % 9) + 1 <= 7
      BY <1>0, <2>3
    <2> QED
      BY <2>3, <2>4 DEF StartsSequence, Suit, Number, HONOR
  <1> QED
    BY <1>1, <1>2, <1>3 DEF InOneSuit

-----------------------------------------------------------------------------
(* Least elements                                                           *)

\* The least of a set of integers from -1 on is -1 exactly if it has it.
LEMMA LeastFromMinusOne ==
  ASSUME NEW S, S # {}, \A x \in S : x \in Int /\ x >= -1
  PROVE  /\ Min(S) \in S /\ Min(S) \in Int /\ \A x \in S : Min(S) <= x
         /\ Min(S) = -1 <=> -1 \in S
  <1> DEFINE T == {x + 1 : x \in S}
  <1>1. T \in SUBSET Nat /\ T # {}
    OBVIOUS
  <1>2. PICK z \in T : \A y \in T : z <= y
    BY <1>1, LeastNumber
  <1>3. PICK x \in S : z = x + 1
    BY <1>2
  <1>4. \A y \in S : x <= y
    <2> TAKE y \in S
    <2>1. z <= y + 1
      BY <1>2
    <2> QED
      BY <1>3, <2>1
  <1>5. Min(S) \in S /\ \A y \in S : Min(S) <= y
    BY <1>4 DEF Min
  <1> QED
    BY <1>5

-----------------------------------------------------------------------------
(* Cutting off one block                                                    *)

LEMMA TotalTakeTwo ==
  ASSUME NEW D, IsFiniteSet(D), NEW c \in [D -> Int], NEW i \in D, NEW j \in D, i # j
  PROVE  Total(Take(c, 1, {i, j})) = Total(c) - 2
  <1> DEFINE c1 == Take(c, 1, {i})
             c2 == Take(c1, 1, {j})
  <1>1. c1 \in [D -> Int] /\ Total(c1) = Total(c) - 1
    BY TotalTakeOne
  <1> HIDE DEF c1
  <1>2. Total(c2) = Total(c1) - 1
    BY <1>1, TotalTakeOne
  <1>3. Take(c, 1, {i, j}) = c2
    BY DEF Take, c1
  <1>4. Total(c) \in Int
    BY SumIsLastSum, SumsType DEF Total
  <1> HIDE DEF c2
  <1> QED
    BY <1>1, <1>2, <1>3, <1>4

\* The tiles of a block.
Size(b) == 3 * b.meld + 2 * b.taatsu + 2 * b.pair
IsSingle(b) == b.meld = 0 /\ b.taatsu = 0 /\ b.pair = 0

\* A block that a hand c contains, whose first tile is i.
IsBlock(b, i, c) ==
  b \in Blocks(i) /\ b.types \subseteq DOMAIN c /\ \A t \in b.types : c[t] >= b.n

LEMMA BlockType ==
  ASSUME NEW i, NEW b \in Blocks(i)
  PROVE  /\ b.meld \in 0 .. 1 /\ b.taatsu \in 0 .. 1 /\ b.pair \in 0 .. 1
         /\ b.n \in 1 .. 3 /\ i \in b.types
  BY DEF Blocks

LEMMA BlockTakes ==
  ASSUME NEW D, IsTypes(D), NEW c \in [D -> Nat], NEW i \in D, NEW b, IsBlock(b, i, c)
  PROVE  /\ Take(c, b.n, b.types) \in [D -> Nat]
         /\ Total(Take(c, b.n, b.types))
              = Total(c) - (IF IsSingle(b) THEN 1 ELSE Size(b))
  <1>0. DOMAIN c = D
    OBVIOUS
  <1>1. IsFiniteSet(D) /\ c \in [D -> Int]
    BY DEF IsTypes
  <1>2. b \in Blocks(i) /\ b.types \subseteq D /\ \A t \in b.types : c[t] >= b.n
    BY <1>0 DEF IsBlock
  <1>3. Take(c, b.n, b.types) \in [D -> Nat]
    <2>1. b.n \in Int
      BY <1>2, BlockType
    <2>2. ASSUME NEW t \in b.types
          PROVE  c[t] - b.n \in Nat
      BY <1>2, <2>1
    <2> QED
      BY <1>2, <2>2 DEF Take
  <1>4. Total(Take(c, b.n, b.types)) = Total(c) - (IF IsSingle(b) THEN 1 ELSE Size(b))
    <2>1. CASE b = [n |-> 3, types |-> {i}, meld |-> 1, taatsu |-> 0, pair |-> 0]
      <3>1. b.n = 3 /\ b.types = {i} /\ ~ IsSingle(b) /\ Size(b) = 3
        BY <2>1 DEF IsSingle, Size
      <3>2. i \in D /\ 3 \in Int
        BY <1>2, <3>1
      <3>3. Total(Take(c, 3, {i})) = Total(c) - 3
        BY <1>1, <3>2, TotalTakeOne
      <3> QED
        BY <3>1, <3>3
    <2>2. CASE b = [n |-> 1, types |-> {i, i + 1, i + 2}, meld |-> 1, taatsu |-> 0, pair |-> 0]
      <3>1. b.n = 1 /\ b.types = {i, i + 1, i + 2} /\ ~ IsSingle(b) /\ Size(b) = 3
        BY <2>2 DEF IsSingle, Size
      <3>2. i \in D /\ i + 1 \in D /\ i + 2 \in D
        BY <1>2, <3>1
      <3>3. i # i + 1 /\ i # i + 2 /\ i + 1 # i + 2
        <4>1. i \in Int
          BY DEF IsTypes
        <4> QED
          BY <4>1
      <3> DEFINE j == i + 1
                 k == i + 2
      <3>4. j \in D /\ k \in D /\ i # j /\ i # k /\ j # k
        BY <3>2, <3>3
      <3> HIDE DEF j, k
      <3>5. Total(Take(c, 1, {i, j, k})) = Total(c) - 3
        BY <1>1, <3>2, <3>4, TotalTakeThree
      <3> QED
        BY <3>1, <3>5 DEF j, k
    <2>3. CASE \/ b = [n |-> 2, types |-> {i}, meld |-> 0, taatsu |-> 0, pair |-> 1]
               \/ b = [n |-> 2, types |-> {i}, meld |-> 0, taatsu |-> 1, pair |-> 0]
      <3>1. b.n = 2 /\ b.types = {i} /\ ~ IsSingle(b) /\ Size(b) = 2
        BY <2>3 DEF IsSingle, Size
      <3>2. i \in D /\ 2 \in Int
        BY <1>2, <3>1
      <3>3. Total(Take(c, 2, {i})) = Total(c) - 2
        BY <1>1, <3>2, TotalTakeOne
      <3> QED
        BY <3>1, <3>3
    <2>4. CASE \E j \in {i + 1, i + 2} :
                 b = [n |-> 1, types |-> {i, j}, meld |-> 0, taatsu |-> 1, pair |-> 0]
      <3>1. PICK j \in {i + 1, i + 2} :
                 b = [n |-> 1, types |-> {i, j}, meld |-> 0, taatsu |-> 1, pair |-> 0]
        BY <2>4
      <3>2. b.n = 1 /\ b.types = {i, j} /\ ~ IsSingle(b) /\ Size(b) = 2
        BY <3>1 DEF IsSingle, Size
      <3>3. i \in D /\ j \in D /\ i # j
        <4>1. i \in Int
          BY DEF IsTypes
        <4> QED
          BY <1>2, <3>1, <3>2, <4>1
      <3>4. Total(Take(c, 1, {i, j})) = Total(c) - 2
        BY <1>1, <3>3, TotalTakeTwo
      <3> QED
        BY <3>2, <3>4
    <2>5. CASE b = [n |-> 1, types |-> {i}, meld |-> 0, taatsu |-> 0, pair |-> 0]
      <3>1. b.n = 1 /\ b.types = {i} /\ IsSingle(b)
        BY <2>5 DEF IsSingle
      <3>2. i \in D /\ 1 \in Int
        BY <1>2, <3>1
      <3>3. Total(Take(c, 1, {i})) = Total(c) - 1
        BY <1>1, <3>2, TotalTakeOne
      <3> QED
        BY <3>1, <3>3
    <2> QED
      BY <1>2, <2>1, <2>2, <2>3, <2>4, <2>5 DEF Blocks
  <1> QED
    BY <1>3, <1>4

-----------------------------------------------------------------------------
(* The states of the search                                                 *)

\* A hand partly cut: no block counts more tiles than there are.
IsCutting(s) ==
  /\ s = [tiles |-> s.tiles, melds |-> s.melds, taatsu |-> s.taatsu, pair |-> s.pair]
  /\ s.tiles \in [Types -> Nat]
  /\ s.melds \in 0 .. MAX_MELDS /\ s.taatsu \in 0 .. MAX_MELDS /\ s.pair \in 0 .. 1
  /\ Total(s.tiles) + 3 * s.melds + 2 * s.taatsu + 2 * s.pair <= 14

\* What admits a block, and the types it may have.
LEMMA AdmittedIs ==
  ASSUME NEW s, IsCutting(s), NEW i \in Types, NEW b
  PROVE  b \in Admitted(s, i) <=>
           /\ b \in Blocks(i) /\ InOneSuit(b.types) /\ b.types \subseteq Types
           /\ \A t \in b.types : s.tiles[t] >= b.n
           /\ s.melds + b.meld <= MAX_MELDS
           /\ s.taatsu + b.taatsu <= MAX_MELDS
           /\ s.pair + b.pair <= 1
  <1>1. DOMAIN s.tiles = Types
    BY DEF IsCutting
  <1> QED
    BY <1>1 DEF Admitted, BlocksFrom, Contains

LEMMA CutOffType ==
  ASSUME NEW s, IsCutting(s), NEW i \in Types, NEW b \in Admitted(s, i)
  PROVE  /\ IsCutting(CutOff(s, b))
         /\ Total(CutOff(s, b).tiles)
              = Total(s.tiles) - (IF IsSingle(b) THEN 1 ELSE Size(b))
         /\ Total(CutOff(s, b).tiles) < Total(s.tiles)
         /\ Total(CutOff(s, b).tiles) \in Nat /\ Total(s.tiles) \in Nat
  <1> DEFINE c == s.tiles
             d == Take(s.tiles, b.n, b.types)
             r == CutOff(s, b)
  <1>1. /\ b \in Blocks(i) /\ b.types \subseteq Types /\ \A t \in b.types : s.tiles[t] >= b.n
        /\ s.melds + b.meld <= MAX_MELDS /\ s.taatsu + b.taatsu <= MAX_MELDS
        /\ s.pair + b.pair <= 1
    BY AdmittedIs
  <1>2. c \in [Types -> Nat] /\ IsBlock(b, i, c)
    BY <1>1 DEF IsCutting, IsBlock
  <1>3. d \in [Types -> Nat] /\ Total(d) = Total(c) - (IF IsSingle(b) THEN 1 ELSE Size(b))
    <2>1. IsTypes(Types)
      BY TypesType
    <2>2. d = Take(c, b.n, b.types)
      OBVIOUS
    <2> HIDE DEF c, d
    <2> QED
      BY <1>2, <2>1, <2>2, BlockTakes
  <1>4. /\ r.tiles = d /\ r.melds = s.melds + b.meld /\ r.taatsu = s.taatsu + b.taatsu
        /\ r.pair = s.pair + b.pair
        /\ r = [tiles |-> r.tiles, melds |-> r.melds, taatsu |-> r.taatsu, pair |-> r.pair]
    BY DEF CutOff
  <1>5. b.meld \in 0 .. 1 /\ b.taatsu \in 0 .. 1 /\ b.pair \in 0 .. 1
    BY <1>1, BlockType
  <1>6. Total(c) \in Nat /\ Total(d) \in Nat
    BY <1>2, <1>3, TypesType, TotalType
  <1>7. /\ s.melds \in 0 .. MAX_MELDS /\ s.taatsu \in 0 .. MAX_MELDS /\ s.pair \in 0 .. 1
        /\ Total(c) + 3 * s.melds + 2 * s.taatsu + 2 * s.pair <= 14
    BY DEF IsCutting
  <1> HIDE DEF c, d, r
  <1>8. r.melds \in 0 .. MAX_MELDS /\ r.taatsu \in 0 .. MAX_MELDS /\ r.pair \in 0 .. 1
    BY <1>1, <1>4, <1>5, <1>7 DEF MAX_MELDS
  <1>9. Total(d) + 3 * r.melds + 2 * r.taatsu + 2 * r.pair <= 14
    <2> DEFINE m == b.meld
               t == b.taatsu
               p == b.pair
               x == s.melds
               y == s.taatsu
               z == s.pair
    <2>a. /\ m \in 0 .. 1 /\ t \in 0 .. 1 /\ p \in 0 .. 1
          /\ x \in Int /\ y \in Int /\ z \in Int
          /\ r.melds = x + m /\ r.taatsu = y + t /\ r.pair = z + p
          /\ Total(c) + 3 * x + 2 * y + 2 * z <= 14
      BY <1>4, <1>5, <1>7
    <2>2. IsSingle(b) => 3 * m + 2 * t + 2 * p = 0
      BY DEF IsSingle
    <2>b. Size(b) = 3 * m + 2 * t + 2 * p
      BY DEF Size
    <2> HIDE DEF m, t, p, x, y, z
    <2>3. Total(d) <= Total(c) - (3 * m + 2 * t + 2 * p)
      BY <1>3, <1>6, <2>a, <2>b, <2>2
    <2> QED
      BY <1>6, <2>a, <2>3
  <1>10. Total(d) < Total(c)
    BY <1>3, <1>5, <1>6 DEF IsSingle, Size
  <1>11. IsCutting(r)
    BY <1>3, <1>4, <1>8, <1>9 DEF IsCutting
  <1> QED
    BY <1>3, <1>4, <1>6, <1>10, <1>11 DEF c, r

LEMMA FirstOfCutting ==
  ASSUME NEW s, IsCutting(s), Held(s.tiles) # {}
  PROVE  /\ Min(Held(s.tiles)) \in Types /\ IsFirst(Min(Held(s.tiles)), s.tiles)
         /\ Total(s.tiles) \in Nat /\ Total(s.tiles) > 0
  <1> DEFINE c == s.tiles
  <1>1. c \in [Types -> Nat] /\ Held(c) # {}
    BY DEF IsCutting
  <1> HIDE DEF c
  <1>2. Min(Held(c)) \in Types /\ IsFirst(Min(Held(c)), c)
    BY <1>1, TypesType, FirstTile
  <1>3. Total(c) \in Nat /\ Total(c) # 0
    BY <1>1, TypesType, TotalType
  <1> QED
    BY <1>2, <1>3 DEF c

\* The search always goes on, and comes to an end.
LEMMA AfterBlockType ==
  ASSUME NEW s, IsCutting(s)
  PROVE  /\ AfterBlock(s) # {}
         /\ \A r \in AfterBlock(s) :
              /\ IsCutting(r) /\ Total(r.tiles) \in Nat /\ Total(s.tiles) \in Nat
              /\ Total(r.tiles) = 0 \/ Total(r.tiles) < Total(s.tiles)
  <1>1. CASE Held(s.tiles) = {}
    <2>1. AfterBlock(s) = {s}
      BY <1>1 DEF AfterBlock
    <2>2. Total(s.tiles) = 0
      BY <1>1, TypesType, TotalType DEF IsCutting
    <2> QED
      BY <2>1, <2>2
  <1>2. CASE Held(s.tiles) # {}
    <2> DEFINE i == Min(Held(s.tiles))
               b == [n |-> 1, types |-> {i}, meld |-> 0, taatsu |-> 0, pair |-> 0]
    <2>1. i \in Types /\ IsFirst(i, s.tiles)
      BY <1>2, FirstOfCutting
    <2>2. AfterBlock(s) = {CutOff(s, x) : x \in Admitted(s, i)}
      BY <1>2 DEF AfterBlock
    <2> HIDE DEF i
    <2>3. b \in Blocks(i) /\ InOneSuit(b.types) /\ b.types \subseteq Types
      BY <2>1 DEF Blocks, InOneSuit
    <2>4. /\ \A t \in b.types : s.tiles[t] >= b.n
          /\ s.melds + b.meld <= MAX_MELDS /\ s.taatsu + b.taatsu <= MAX_MELDS
          /\ s.pair + b.pair <= 1
      BY <2>1 DEF IsFirst, IsCutting, MAX_MELDS
    <2>5. b \in Admitted(s, i)
      BY <2>1, <2>3, <2>4, AdmittedIs
    <2> QED
      BY <2>1, <2>2, <2>5, CutOffType
  <1> QED
    BY <1>1, <1>2

-----------------------------------------------------------------------------
(* The levels of the search                                                 *)

AfterBlocks(rs) == UNION {AfterBlock(r) : r \in rs}

IsCut(cut, s, n) ==
  cut = [k \in 0 .. n |->
           IF k = 0 THEN {s} ELSE UNION {AfterBlock(r) : r \in cut[k - 1]}]

Cut(s, n) == CHOOSE cut : IsCut(cut, s, n)

LEMMA CutsExtend ==
  ASSUME NEW s, NEW n \in Nat, NEW g, IsCut(g, s, n)
  PROVE  \E h : IsCut(h, s, n + 1)
  <1> DEFINE top == AfterBlocks(g[n])
             h == [k \in 0 .. (n + 1) |-> IF k <= n THEN g[k] ELSE top]
  <1>1. \A k \in 0 .. n : g[k] = IF k = 0 THEN {s} ELSE AfterBlocks(g[k - 1])
    BY DEF IsCut, AfterBlocks
  <1>2. top = AfterBlocks(g[n])
    OBVIOUS
  <1> HIDE DEF top
  <1>3. ASSUME NEW k \in 0 .. (n + 1)
        PROVE  h[k] = IF k = 0 THEN {s} ELSE AfterBlocks(h[k - 1])
    <2>1. CASE k = 0
      BY <1>1, <2>1
    <2>2. CASE k \in 1 .. n
      <3>1. h[k] = g[k] /\ h[k - 1] = g[k - 1] /\ k # 0 /\ k \in 0 .. n
        BY <2>2
      <3> QED
        BY <1>1, <3>1
    <2>3. CASE k = n + 1
      <3>1. h[k] = top /\ k - 1 = n /\ h[n] = g[n] /\ k # 0
        BY <2>3
      <3> QED
        BY <1>2, <3>1
    <2> QED
      BY <2>1, <2>2, <2>3
  <1>4. h = [k \in 0 .. (n + 1) |-> h[k]]
    OBVIOUS
  <1> HIDE DEF h
  <1>5. h = [k \in 0 .. (n + 1) |-> IF k = 0 THEN {s} ELSE AfterBlocks(h[k - 1])]
    BY <1>3, <1>4
  <1> QED
    BY <1>5 DEF IsCut, AfterBlocks

LEMMA CutsExist ==
  ASSUME NEW s, NEW n \in Nat
  PROVE  \E g : IsCut(g, s, n)
  <1> DEFINE T == {k \in Nat : ~ \E g : IsCut(g, s, k)}
  <1> SUFFICES ASSUME T # {}
               PROVE  FALSE
    OBVIOUS
  <1>1. PICK k \in T : \A j \in T : k <= j
    BY LeastNumber
  <1>2. CASE k = 0
    <2> DEFINE g == [j \in 0 .. 0 |-> {s}]
    <2>1. g = [j \in 0 .. 0 |->
                 IF j = 0 THEN {s} ELSE UNION {AfterBlock(r) : r \in g[j - 1]}]
      OBVIOUS
    <2>2. IsCut(g, s, 0)
      BY <2>1 DEF IsCut
    <2> QED
      BY <1>2, <2>2
  <1>3. CASE k # 0
    <2>1. k - 1 \in Nat /\ k - 1 \notin T /\ (k - 1) + 1 = k
      BY <1>1, <1>3
    <2>2. PICK g : IsCut(g, s, k - 1)
      BY <2>1
    <2>3. \E h : IsCut(h, s, (k - 1) + 1)
      BY <2>1, <2>2, CutsExtend
    <2> QED
      BY <2>1, <2>3
  <1> QED
    BY <1>2, <1>3

LEMMA CutRule ==
  ASSUME NEW s, NEW n \in Nat
  PROVE  /\ Cut(s, n)[0] = {s}
         /\ \A k \in 1 .. n : Cut(s, n)[k] = AfterBlocks(Cut(s, n)[k - 1])
  <1>1. IsCut(Cut(s, n), s, n)
    BY CutsExist DEF Cut
  <1>2. Cut(s, n) = [k \in 0 .. n |->
          IF k = 0 THEN {s} ELSE UNION {AfterBlock(r) : r \in Cut(s, n)[k - 1]}]
    BY <1>1 DEF IsCut
  <1> QED
    BY <1>2 DEF AfterBlocks

\* What is least over the last level.
Ends(c, m) == Cut(Uncut(c, m), Total(c))[Total(c)]
Shantens(rs) == {BlockShanten(r.melds, r.taatsu, r.pair) : r \in rs}

LEMMA StandardShantenIs ==
  ASSUME NEW c, NEW m
  PROVE  StandardShanten(c, m) = Min(Shantens(Ends(c, m)))
  BY DEF StandardShanten, Shantens, Ends, Cut, IsCut

\* Every level has states of the search, and every block counts.
LEMMA LevelsType ==
  ASSUME NEW s, IsCutting(s), NEW n \in Nat, n = Total(s.tiles), NEW k \in 0 .. n
  PROVE  /\ Cut(s, n)[k] # {}
         /\ \A r \in Cut(s, n)[k] :
              IsCutting(r) /\ Total(r.tiles) \in Nat /\ Total(r.tiles) + k <= n
  <1> DEFINE Typed(j) == /\ Cut(s, n)[j] # {}
                         /\ \A r \in Cut(s, n)[j] :
                              /\ IsCutting(r) /\ Total(r.tiles) \in Nat
                              /\ Total(r.tiles) + j <= n
             T == {j \in 0 .. n : ~ Typed(j)}
  <1> SUFFICES ASSUME T # {}
               PROVE  FALSE
    OBVIOUS
  <1>1. PICK j \in T : \A x \in T : j <= x
    <2>1. T \in SUBSET Nat
      OBVIOUS
    <2> HIDE DEF T
    <2> QED
      BY <2>1, LeastNumber
  <1>2. CASE j = 0
    <2>1. Typed(0)
      BY CutRule
    <2> QED
      BY <1>2, <2>1
  <1>3. CASE j # 0
    <2>1. j - 1 \in 0 .. n /\ j \in 1 .. n /\ j - 1 \notin T
      BY <1>1, <1>3
    <2>2. Typed(j - 1)
      BY <2>1
    <2>3. Cut(s, n)[j] = AfterBlocks(Cut(s, n)[j - 1])
      BY <2>1, CutRule
    <2>4. Cut(s, n)[j] # {}
      BY <2>2, <2>3, AfterBlockType DEF AfterBlocks
    <2>5. ASSUME NEW r \in Cut(s, n)[j]
          PROVE  IsCutting(r) /\ Total(r.tiles) \in Nat /\ Total(r.tiles) + j <= n
      <3>1. PICK q \in Cut(s, n)[j - 1] : r \in AfterBlock(q)
        BY <2>3 DEF AfterBlocks
      <3>2. IsCutting(q) /\ Total(q.tiles) \in Nat /\ Total(q.tiles) + (j - 1) <= n
        BY <2>2
      <3>3. /\ IsCutting(r) /\ Total(r.tiles) \in Nat
            /\ Total(r.tiles) = 0 \/ Total(r.tiles) < Total(q.tiles)
        BY <3>1, <3>2, AfterBlockType
      <3>4. Total(r.tiles) + j <= n
        BY <2>1, <3>2, <3>3
      <3> QED
        BY <3>3, <3>4
    <2> QED
      BY <2>4, <2>5
  <1> QED
    BY <1>2, <1>3

-----------------------------------------------------------------------------
(* The way to a complete hand                                               *)

\* A state of the search that cut off nothing but melds and a pair, and whose
\* tiles are divided into the rest.
OnTheWay(r) ==
  /\ r.taatsu = 0
  /\ Total(r.tiles) = 3 * (MAX_MELDS - r.melds) + 2 * (1 - r.pair)
  /\ IF r.pair = 1 THEN RemoveMelds(r.tiles, MAX_MELDS - r.melds)
                   ELSE CheckStandard(r.tiles, MAX_MELDS - r.melds)

LEMMA MeldBlock ==
  ASSUME NEW s, IsCutting(s), NEW i \in Types, NEW d, s.melds < MAX_MELDS,
         Melded(s.tiles, i, d)
  PROVE  \E b \in Admitted(s, i) :
           b.meld = 1 /\ b.taatsu = 0 /\ b.pair = 0 /\ Take(s.tiles, b.n, b.types) = d
  <1>1. /\ DOMAIN s.tiles = Types /\ s.melds + 1 <= MAX_MELDS
        /\ s.taatsu + 0 <= MAX_MELDS /\ s.pair + 0 <= 1
    BY DEF IsCutting, MAX_MELDS
  <1>2. i \in TileType
    BY TypesAssumption
  <1>3. CASE s.tiles[i] >= 3 /\ d = Take(s.tiles, 3, {i})
    <2> DEFINE b == [n |-> 3, types |-> {i}, meld |-> 1, taatsu |-> 0, pair |-> 0]
    <2>1. b \in Blocks(i) /\ InOneSuit(b.types)
      BY DEF Blocks, InOneSuit
    <2>2. b \in Admitted(s, i)
      BY <1>1, <1>3, <2>1, AdmittedIs
    <2> QED
      BY <1>3, <2>2
  <1>4. CASE HasSequence(s.tiles, i) /\ d = Take(s.tiles, 1, SequenceFrom(i))
    <2> DEFINE b == [n |-> 1, types |-> {i, i + 1, i + 2}, meld |-> 1, taatsu |-> 0, pair |-> 0]
    <2>1. /\ StartsSequence(i) /\ SequenceFrom(i) \subseteq Types
          /\ \A t \in SequenceFrom(i) : s.tiles[t] >= 1
      BY <1>1, <1>4 DEF HasSequence, Contains
    <2>2. SequenceFrom(i) = {i, i + 1, i + 2} /\ InOneSuit({i, i + 1, i + 2})
      BY <1>2, <2>1, SequencesAgree
    <2>3. b \in Blocks(i)
      BY DEF Blocks
    <2>4. b \in Admitted(s, i)
      BY <1>1, <2>1, <2>2, <2>3, AdmittedIs
    <2> QED
      BY <1>4, <2>2, <2>4
  <1> QED
    BY <1>3, <1>4 DEF Melded

LEMMA PairBlock ==
  ASSUME NEW s, IsCutting(s), NEW i \in Types, NEW d, s.pair = 0, Paired(s.tiles, i, d)
  PROVE  \E b \in Admitted(s, i) :
           b.meld = 0 /\ b.taatsu = 0 /\ b.pair = 1 /\ Take(s.tiles, b.n, b.types) = d
  <1> DEFINE b == [n |-> 2, types |-> {i}, meld |-> 0, taatsu |-> 0, pair |-> 1]
  <1>1. b \in Blocks(i) /\ InOneSuit(b.types)
    BY DEF Blocks, InOneSuit
  <1>2. b \in Admitted(s, i)
    <2>1. s.melds + 0 <= MAX_MELDS /\ s.taatsu + 0 <= MAX_MELDS /\ s.pair + 1 <= 1
      BY DEF IsCutting, MAX_MELDS
    <2> QED
      BY <1>1, <2>1, AdmittedIs DEF Paired
  <1> QED
    BY <1>2 DEF Paired

\* And back: what a block of a meld or of a pair leaves.
LEMMA BlockMelds ==
  ASSUME NEW s, IsCutting(s), NEW i \in Types, NEW b \in Admitted(s, i), b.taatsu = 0
  PROVE  /\ b.meld = 1 => b.pair = 0 /\ Melded(s.tiles, i, Take(s.tiles, b.n, b.types))
         /\ b.pair = 1 => b.meld = 0 /\ Paired(s.tiles, i, Take(s.tiles, b.n, b.types))
  <1>1. /\ b \in Blocks(i) /\ InOneSuit(b.types) /\ b.types \subseteq Types
        /\ \A t \in b.types : s.tiles[t] >= b.n
    BY AdmittedIs
  <1>2. i \in TileType /\ DOMAIN s.tiles = Types
    BY TypesAssumption DEF IsCutting
  <1>3. CASE b.meld = 1
    <2>1. CASE b = [n |-> 3, types |-> {i}, meld |-> 1, taatsu |-> 0, pair |-> 0]
      BY <1>1, <2>1 DEF Melded
    <2>2. CASE b = [n |-> 1, types |-> {i, i + 1, i + 2}, meld |-> 1, taatsu |-> 0, pair |-> 0]
      <3>1. b.n = 1 /\ b.types = {i, i + 1, i + 2} /\ b.pair = 0
        BY <2>2
      <3>2. i + 2 \in TileType
        BY <1>1, <3>1, TypesAssumption
      <3>3. SequenceFrom(i) = {i, i + 1, i + 2} /\ StartsSequence(i)
        BY <1>1, <1>2, <3>1, <3>2, SequencesAgree
      <3>4. HasSequence(s.tiles, i)
        BY <1>1, <1>2, <3>1, <3>3 DEF HasSequence, Contains
      <3> QED
        BY <3>1, <3>3, <3>4 DEF Melded
    <2> QED
      BY <1>1, <1>3, <2>1, <2>2 DEF Blocks
  <1>4. CASE b.pair = 1
    <2>1. b = [n |-> 2, types |-> {i}, meld |-> 0, taatsu |-> 0, pair |-> 1]
      BY <1>1, <1>4 DEF Blocks
    <2> QED
      BY <1>1, <2>1 DEF Paired
  <1> QED
    BY <1>3, <1>4

\* What cutting off a block does to the state.
LEMMA CutOffFields ==
  ASSUME NEW s, NEW b
  PROVE  /\ CutOff(s, b).tiles = Take(s.tiles, b.n, b.types)
         /\ CutOff(s, b).melds = s.melds + b.meld
         /\ CutOff(s, b).taatsu = s.taatsu + b.taatsu
         /\ CutOff(s, b).pair = s.pair + b.pair
  BY DEF CutOff

\* A state on the way has a block to cut off.
LEMMA OnTheWayOn ==
  ASSUME NEW s, IsCutting(s), NEW i \in Types, IsFirst(i, s.tiles), OnTheWay(s)
  PROVE  \E b \in Admitted(s, i) : OnTheWay(CutOff(s, b))
  <1> DEFINE c == s.tiles
             k == MAX_MELDS - s.melds
  <1>1. /\ c \in [Types -> Nat] /\ IsTypes(Types) /\ k \in 0 .. MAX_MELDS
        /\ s.melds \in 0 .. MAX_MELDS /\ s.melds = MAX_MELDS - k
        /\ s.pair \in 0 .. 1 /\ s.taatsu = 0
        /\ c[i] > 0 /\ Total(c) >= c[i] /\ c[i] \in Nat /\ Total(c) \in Nat
    <2>1. c \in [Types -> Nat] /\ IsTypes(Types) /\ IsFiniteSet(Types)
      BY TypesType DEF IsCutting
    <2>2. Total(c) \in Nat /\ Total(c) >= c[i]
      BY <2>1, TotalType
    <2> QED
      BY <2>1, <2>2 DEF IsCutting, OnTheWay, IsFirst, MAX_MELDS
  <1>2. /\ Total(c) = 3 * k + 2 * (1 - s.pair)
        /\ s.pair = 1 => RemoveMelds(c, k)
        /\ s.pair = 0 => CheckStandard(c, k)
    BY <1>1 DEF OnTheWay
  <1>a. IsFirst(i, c)
    OBVIOUS
  <1>3. ASSUME NEW d, Melded(c, i, d), k >= 1,
               IF s.pair = 1 THEN RemoveMelds(d, k - 1) ELSE CheckStandard(d, k - 1)
        PROVE  \E b \in Admitted(s, i) : OnTheWay(CutOff(s, b))
    <2>1. s.melds < MAX_MELDS
      BY <1>1, <1>3 DEF MAX_MELDS
    <2>2. PICK b \in Admitted(s, i) :
            b.meld = 1 /\ b.taatsu = 0 /\ b.pair = 0 /\ Take(c, b.n, b.types) = d
      BY <1>3, <2>1, MeldBlock
    <2> DEFINE r == CutOff(s, b)
    <2>3. r.tiles = d /\ r.melds = s.melds + 1 /\ r.taatsu = 0 /\ r.pair = s.pair
      BY <1>1, <2>2, CutOffFields
    <2> HIDE DEF c, k, r
    <2>4. Total(d) = Total(c) - 3
      BY <1>1, <1>3, MeldedType
    <2>5. MAX_MELDS - r.melds = k - 1
      BY <1>1, <2>3 DEF MAX_MELDS
    <2>6. Total(d) = 3 * (k - 1) + 2 * (1 - r.pair)
      BY <1>1, <1>2, <2>3, <2>4
    <2>7. OnTheWay(r)
      BY <1>3, <2>3, <2>5, <2>6 DEF OnTheWay
    <2> QED
      BY <2>7 DEF r
  <1>4. ASSUME NEW d, Paired(c, i, d), s.pair = 0, RemoveMelds(d, k)
        PROVE  \E b \in Admitted(s, i) : OnTheWay(CutOff(s, b))
    <2>2. PICK b \in Admitted(s, i) :
            b.meld = 0 /\ b.taatsu = 0 /\ b.pair = 1 /\ Take(c, b.n, b.types) = d
      BY <1>4, PairBlock
    <2> DEFINE r == CutOff(s, b)
    <2>3. r.tiles = d /\ r.melds = s.melds /\ r.taatsu = 0 /\ r.pair = 1
      BY <1>1, <1>4, <2>2, CutOffFields
    <2>5. MAX_MELDS - r.melds = k
      BY <2>3
    <2> HIDE DEF c, k, r
    <2>4. Total(d) = Total(c) - 2
      BY <1>1, <1>4, PairedType
    <2>6. Total(d) = 3 * k + 2 * (1 - r.pair)
      BY <1>1, <1>2, <1>4, <2>3, <2>4
    <2>7. OnTheWay(r)
      BY <1>4, <2>3, <2>5, <2>6 DEF OnTheWay
    <2> QED
      BY <2>7 DEF r
  <1> HIDE DEF c, k
  <1>5. CASE s.pair = 1
    <2>1. k \in 1 .. MAX_MELDS
      BY <1>1, <1>2, <1>5
    <2>2. \E d : Melded(c, i, d) /\ RemoveMelds(d, k - 1)
      BY <1>1, <1>2, <1>5, <1>a, <2>1, MeldsStep
    <2>3. k >= 1
      BY <2>1
    <2> QED
      BY <1>3, <1>5, <2>2, <2>3
  <1>6. CASE s.pair = 0
    <2>0. Total(c) = 3 * k + 2 /\ CheckStandard(c, k)
      BY <1>1, <1>2, <1>6
    <2>1. \/ \E b : Paired(c, i, b) /\ RemoveMelds(b, k)
          \/ k > 0 /\ \E d : Melded(c, i, d) /\ CheckStandard(d, k - 1)
      BY <1>1, <1>a, <2>0, StandardStep
    <2>2. k > 0 => k >= 1
      BY <1>1
    <2> QED
      BY <1>3, <1>4, <1>6, <2>1, <2>2
  <1> QED
    BY <1>1, <1>5, <1>6

\* And a state from which one is reached was on the way.
LEMMA OnTheWayBack ==
  ASSUME NEW s, IsCutting(s), NEW i \in Types, IsFirst(i, s.tiles),
         NEW b \in Admitted(s, i), OnTheWay(CutOff(s, b))
  PROVE  OnTheWay(s)
  <1> DEFINE c == s.tiles
             k == MAX_MELDS - s.melds
             d == Take(c, b.n, b.types)
             r == CutOff(s, b)
  <1>1. /\ c \in [Types -> Nat] /\ IsTypes(Types)
        /\ s.melds \in 0 .. MAX_MELDS /\ s.taatsu \in 0 .. MAX_MELDS /\ s.pair \in 0 .. 1
        /\ Total(c) + 3 * s.melds + 2 * s.taatsu + 2 * s.pair <= 14
    BY TypesType DEF IsCutting
  <1>2. /\ b.meld \in 0 .. 1 /\ b.taatsu \in 0 .. 1 /\ b.pair \in 0 .. 1
        /\ s.melds + b.meld <= MAX_MELDS
    BY AdmittedIs, BlockType
  <1>3. /\ r.tiles = d /\ r.melds = s.melds + b.meld /\ r.taatsu = s.taatsu + b.taatsu
        /\ r.pair = s.pair + b.pair
    BY CutOffFields
  <1>4. /\ Total(r.tiles) = Total(c) - (IF IsSingle(b) THEN 1 ELSE Size(b))
        /\ Total(r.tiles) \in Nat /\ Total(c) \in Nat
    BY CutOffType
  <1>5. /\ r.taatsu = 0 /\ Total(r.tiles) = 3 * (MAX_MELDS - r.melds) + 2 * (1 - r.pair)
        /\ r.pair = 1 => RemoveMelds(d, MAX_MELDS - r.melds)
        /\ r.pair # 1 => CheckStandard(d, MAX_MELDS - r.melds)
    BY <1>3 DEF OnTheWay
  <1>6. IsFirst(i, c) /\ k = MAX_MELDS - s.melds
    OBVIOUS
  <1>7. /\ b.meld = 1 /\ b.taatsu = 0 => b.pair = 0 /\ Melded(c, i, d)
        /\ b.pair = 1 /\ b.taatsu = 0 => b.meld = 0 /\ Paired(c, i, d)
    BY BlockMelds
  <1> HIDE DEF c, k, d, r
  <1>8. s.taatsu = 0 /\ b.taatsu = 0
    BY <1>1, <1>2, <1>3, <1>5
  <1>9. ~ IsSingle(b)
    <2>1. SUFFICES ASSUME IsSingle(b)
                   PROVE  FALSE
      OBVIOUS
    <2>2. r.melds = s.melds /\ r.pair = s.pair /\ Total(r.tiles) = Total(c) - 1
      BY <1>1, <1>2, <1>3, <1>4, <2>1 DEF IsSingle
    <2>3. Total(c) = 3 * (4 - s.melds) + 2 * (1 - s.pair) + 1
      BY <1>4, <1>5, <2>2 DEF MAX_MELDS
    <2>4. Total(c) = 12 - 3 * s.melds + 2 - 2 * s.pair + 1
      BY <1>1, <2>3 DEF MAX_MELDS
    <2> QED
      BY <1>1, <1>4, <1>8, <2>4 DEF MAX_MELDS
  <1>10. CASE b.meld = 1
    <2>1. b.pair = 0 /\ Melded(c, i, d) /\ Size(b) = 3
      BY <1>7, <1>8, <1>10 DEF Size
    <2>2. r.pair = s.pair /\ MAX_MELDS - r.melds = k - 1 /\ k \in 1 .. MAX_MELDS
      BY <1>1, <1>2, <1>3, <1>6, <1>10, <2>1 DEF MAX_MELDS
    <2>3. Total(c) = 3 * k + 2 * (1 - s.pair)
      <3>1. k \in Int /\ s.pair \in Int
        BY <1>1, <2>2 DEF MAX_MELDS
      <3>2. Total(r.tiles) = 3 * (k - 1) + 2 * (1 - s.pair)
        BY <1>5, <2>2
      <3>3. Total(r.tiles) = Total(c) - 3 /\ Total(c) \in Int
        BY <1>4, <1>9, <2>1
      <3> QED
        BY <3>1, <3>2, <3>3
    <2>4. s.pair = 1 => RemoveMelds(c, k)
      BY <1>1, <1>5, <1>6, <2>1, <2>2, MeldsStep
    <2>5. s.pair # 1 => CheckStandard(c, k)
      BY <1>1, <1>5, <1>6, <2>1, <2>2, StandardStepBack
    <2> QED
      BY <1>6, <1>8, <2>3, <2>4, <2>5 DEF OnTheWay, c
  <1>11. CASE b.pair = 1
    <2>1. b.meld = 0 /\ Paired(c, i, d) /\ Size(b) = 2
      BY <1>7, <1>8, <1>11 DEF Size
    <2>2. r.pair = 1 /\ s.pair = 0 /\ MAX_MELDS - r.melds = k
      <3>1. s.pair + 1 <= 1
        BY <1>11, AdmittedIs
      <3> QED
        BY <1>1, <1>3, <1>6, <1>11, <2>1, <3>1 DEF MAX_MELDS
    <2>3. Total(c) = 3 * k + 2 * (1 - s.pair)
      <3>1. k \in Int
        BY <1>1, <1>6 DEF MAX_MELDS
      <3> QED
        BY <1>4, <1>5, <1>9, <2>1, <2>2, <3>1
    <2>4. CheckStandard(c, k)
      BY <1>1, <1>5, <2>1, <2>2, StandardIsPaired
    <2> QED
      BY <1>6, <1>8, <2>2, <2>3, <2>4 DEF OnTheWay, c
  <1> QED
    BY <1>2, <1>8, <1>9, <1>10, <1>11 DEF IsSingle

LEMMA OnTheWayStep ==
  ASSUME NEW s, IsCutting(s)
  PROVE  OnTheWay(s) <=> \E r \in AfterBlock(s) : OnTheWay(r)
  <1>1. CASE Held(s.tiles) = {}
    BY <1>1 DEF AfterBlock
  <1>2. CASE Held(s.tiles) # {}
    <2> DEFINE i == Min(Held(s.tiles))
    <2>1. i \in Types /\ IsFirst(i, s.tiles)
      BY <1>2, FirstOfCutting
    <2>2. AfterBlock(s) = {CutOff(s, b) : b \in Admitted(s, i)}
      BY <1>2 DEF AfterBlock
    <2> HIDE DEF i
    <2> QED
      BY <2>1, <2>2, OnTheWayOn, OnTheWayBack
  <1> QED
    BY <1>1, <1>2

LEMMA LevelsOnTheWay ==
  ASSUME NEW s, IsCutting(s), NEW n \in Nat, n = Total(s.tiles), NEW k \in 0 .. n
  PROVE  OnTheWay(s) <=> \E r \in Cut(s, n)[k] : OnTheWay(r)
  <1> DEFINE Same(j) == OnTheWay(s) <=> \E r \in Cut(s, n)[j] : OnTheWay(r)
             T == {j \in 0 .. n : ~ Same(j)}
  <1> SUFFICES ASSUME T # {}
               PROVE  FALSE
    OBVIOUS
  <1>1. PICK j \in T : \A x \in T : j <= x
    <2>1. T \in SUBSET Nat
      OBVIOUS
    <2> HIDE DEF T
    <2> QED
      BY <2>1, LeastNumber
  <1>2. CASE j = 0
    <2>1. Same(0)
      BY CutRule
    <2> QED
      BY <1>2, <2>1
  <1>3. CASE j # 0
    <2>1. j - 1 \in 0 .. n /\ j \in 1 .. n /\ j - 1 \notin T
      BY <1>1, <1>3
    <2>2. Same(j - 1)
      BY <2>1
    <2>3. Cut(s, n)[j] = AfterBlocks(Cut(s, n)[j - 1])
      BY <2>1, CutRule
    <2>4. \A q \in Cut(s, n)[j - 1] :
            OnTheWay(q) <=> \E r \in AfterBlock(q) : OnTheWay(r)
      BY <2>1, LevelsType, OnTheWayStep
    <2> QED
      BY <2>2, <2>3, <2>4 DEF AfterBlocks
  <1> QED
    BY <1>2, <1>3

\* What a state is worth.
LEMMA BlockShantenType ==
  ASSUME NEW m \in 0 .. MAX_MELDS, NEW taatsu \in 0 .. MAX_MELDS, NEW pair \in 0 .. 1
  PROVE  /\ BlockShanten(m, taatsu, pair) \in Int /\ BlockShanten(m, taatsu, pair) >= -1
         /\ BlockShanten(m, taatsu, pair) = -1 <=> m = MAX_MELDS /\ pair = 1
  <1> DEFINE S == {taatsu, MAX_MELDS - m}
             x == Min(S)
  <1>1. S # {} /\ \A y \in S : y \in Int /\ y >= -1
    BY DEF MAX_MELDS
  <1>2. x \in S /\ x \in Int /\ \A y \in S : x <= y
    <2> HIDE DEF S
    <2> QED
      BY <1>1, LeastFromMinusOne
  <1>3. x <= MAX_MELDS - m /\ x >= 0
    BY <1>2 DEF MAX_MELDS
  <1>4. BlockShanten(m, taatsu, pair) = 8 - 2 * m - x - pair
    BY DEF BlockShanten
  <1> HIDE DEF x
  <1> QED
    BY <1>2, <1>3, <1>4 DEF MAX_MELDS

\* The search over blocks finds -1 where the hand is four melds and a pair.
LEMMA StandardAgrees ==
  ASSUME NEW c \in [Types -> Nat], NEW m \in 0 .. MAX_MELDS,
         Total(c) = 3 * (MAX_MELDS - m) + 2
  PROVE  /\ StandardShanten(c, m) \in Int /\ StandardShanten(c, m) >= -1
         /\ StandardShanten(c, m) = -1 <=> CheckStandard(c, MAX_MELDS - m)
  <1> DEFINE s == Uncut(c, m)
             n == Total(c)
             R == Ends(c, m)
             S == Shantens(R)
  <1>1. s.tiles = c /\ s.melds = m /\ s.taatsu = 0 /\ s.pair = 0
        /\ s = [tiles |-> s.tiles, melds |-> s.melds, taatsu |-> s.taatsu, pair |-> s.pair]
    BY DEF Uncut
  <1>2. n \in Nat
    BY TypesType, TotalType
  <1>3. R = Cut(s, n)[n] /\ StandardShanten(c, m) = Min(S)
    BY StandardShantenIs DEF Ends
  <1>a. n = 3 * (MAX_MELDS - m) + 2
    OBVIOUS
  <1>b. n = Total(s.tiles)
    BY <1>1
  <1> HIDE DEF s, n, R
  <1>4. IsCutting(s)
    <2>1. Total(s.tiles) + 3 * s.melds + 2 * s.taatsu + 2 * s.pair <= 14
      BY <1>1, <1>2, <1>a, <1>b DEF MAX_MELDS
    <2>2. 0 \in 0 .. MAX_MELDS /\ 0 \in 0 .. 1
      BY DEF MAX_MELDS
    <2> QED
      BY <1>1, <2>1, <2>2 DEF IsCutting
  <1>5. /\ R # {}
        /\ \A r \in R : IsCutting(r) /\ Total(r.tiles) \in Nat /\ Total(r.tiles) + n <= n
    <2>1. n \in 0 .. n
      BY <1>2
    <2> QED
      BY <1>2, <1>3, <1>4, <1>b, <2>1, LevelsType
  <1>6. OnTheWay(s) <=> \E r \in R : OnTheWay(r)
    <2>1. n \in 0 .. n
      BY <1>2
    <2> QED
      BY <1>2, <1>3, <1>4, <1>b, <2>1, LevelsOnTheWay
  <1>7. ASSUME NEW r \in R
        PROVE  /\ BlockShanten(r.melds, r.taatsu, r.pair) \in Int
               /\ BlockShanten(r.melds, r.taatsu, r.pair) >= -1
               /\ OnTheWay(r) <=> BlockShanten(r.melds, r.taatsu, r.pair) = -1
    <2>1. /\ IsCutting(r) /\ Total(r.tiles) = 0
      BY <1>2, <1>5
    <2>2. /\ r.melds \in 0 .. MAX_MELDS /\ r.taatsu \in 0 .. MAX_MELDS /\ r.pair \in 0 .. 1
          /\ 3 * r.melds + 2 * r.taatsu + 2 * r.pair <= 14
      BY <2>1 DEF IsCutting, MAX_MELDS
    <2>3. /\ BlockShanten(r.melds, r.taatsu, r.pair) \in Int
          /\ BlockShanten(r.melds, r.taatsu, r.pair) >= -1
          /\ BlockShanten(r.melds, r.taatsu, r.pair) = -1 <=> r.melds = MAX_MELDS /\ r.pair = 1
      BY <2>2, BlockShantenType
    <2>4. OnTheWay(r) => r.melds = MAX_MELDS /\ r.pair = 1
      <3>1. OnTheWay(r) => 0 = 3 * (MAX_MELDS - r.melds) + 2 * (1 - r.pair)
        BY <2>1 DEF OnTheWay
      <3> QED
        BY <2>2, <3>1 DEF MAX_MELDS
    <2>5. ASSUME r.melds = MAX_MELDS, r.pair = 1
          PROVE  OnTheWay(r)
      <3>1. r.taatsu = 0 /\ MAX_MELDS - r.melds = 0
        BY <2>2, <2>5 DEF MAX_MELDS
      <3>2. RemoveMelds(r.tiles, 0)
        BY RemoveMeldsRule
      <3> QED
        BY <2>1, <2>5, <3>1, <3>2 DEF OnTheWay
    <2> QED
      BY <2>3, <2>4, <2>5
  <1>8. /\ S # {} /\ \A x \in S : x \in Int /\ x >= -1
        /\ -1 \in S <=> \E r \in R : OnTheWay(r)
    BY <1>5, <1>7 DEF Shantens
  <1> HIDE DEF S
  <1>9. Min(S) \in Int /\ Min(S) >= -1 /\ (Min(S) = -1 <=> -1 \in S)
    BY <1>8, LeastFromMinusOne
  <1>10. OnTheWay(s) <=> CheckStandard(c, MAX_MELDS - m)
    <2>1. Total(s.tiles) = 3 * (MAX_MELDS - s.melds) + 2 * (1 - s.pair)
      BY <1>1, <1>a, <1>b DEF MAX_MELDS
    <2> QED
      BY <1>1, <2>1 DEF OnTheWay
  <1> QED
    BY <1>3, <1>6, <1>8, <1>9, <1>10

-----------------------------------------------------------------------------
(* Seven pairs and the orphans                                              *)

\* One tile of each of these types is taken.
LEMMA TotalTakeEach ==
  ASSUME NEW D, IsFiniteSet(D), NEW c \in [D -> Int], NEW A \in SUBSET D
  PROVE  /\ Take(c, 1, A) \in [D -> Int]
         /\ Total(Take(c, 1, A)) = Total(c) - Cardinality(A)
  <1>0. Total(c) \in Int
    BY SumIsLastSum, SumsType DEF Total
  <1> DEFINE B == {x \in SUBSET D : Total(Take(c, 1, x)) # Total(c) - Cardinality(x)}
  <1>1. ASSUME B # {}
        PROVE  FALSE
    <2>1. PICK x \in B : \A y \in B : Cardinality(x) <= Cardinality(y)
      BY <1>1, SmallestSet, FS_Subset
    <2>2. CASE x = {}
      <3>1. Take(c, 1, {}) = c
        BY DEF Take
      <3>2. Cardinality({}) = 0
        BY FS_EmptySet
      <3> QED
        BY <1>0, <2>1, <2>2, <3>1, <3>2
    <2>3. CASE x # {}
      <3>1. PICK e \in x : TRUE
        BY <2>3
      <3> DEFINE y == x \ {e}
                 d == Take(c, 1, y)
      <3>2. /\ y \in SUBSET D /\ Cardinality(x) \in Nat /\ Cardinality(y) \in Nat
            /\ Cardinality(y) = Cardinality(x) - 1
        BY <3>1, OneLess
      <3>3. ~ (Cardinality(x) <= Cardinality(y))
        BY <3>2
      <3>4. Total(d) = Total(c) - Cardinality(y)
        BY <2>1, <3>2, <3>3
      <3>5. d \in [D -> Int] /\ e \in D /\ 1 \in Int
        BY <3>1 DEF Take
      <3>6. Take(d, 1, {e}) = Take(c, 1, x)
        BY <3>1 DEF Take
      <3> HIDE DEF d, y
      <3>7. Total(Take(d, 1, {e})) = Total(d) - 1
        BY <3>5, TotalTakeOne
      <3>8. Total(Take(c, 1, x)) = Total(c) - Cardinality(x)
        BY <1>0, <3>2, <3>4, <3>6, <3>7
      <3> QED
        BY <3>8
    <2> QED
      BY <2>2, <2>3
  <1>2. Total(Take(c, 1, A)) = Total(c) - Cardinality(A)
    BY <1>1
  <1>3. Take(c, 1, A) \in [D -> Int]
    BY DEF Take
  <1> QED
    BY <1>2, <1>3

PairsOf(c) == {t \in Types : c[t] >= 2}

\* The pairs and the other types of a hand are never more than its tiles.
LEMMA PairsCounted ==
  ASSUME NEW c \in [Types -> Nat]
  PROVE  /\ Cardinality(PairsOf(c)) \in Nat /\ Cardinality(Held(c)) \in Nat
         /\ IsFiniteSet(Held(c)) /\ PairsOf(c) \subseteq Held(c)
         /\ Cardinality(PairsOf(c)) <= Cardinality(Held(c))
         /\ Cardinality(PairsOf(c)) = Cardinality(Held(c)) => PairsOf(c) = Held(c)
         /\ Cardinality(PairsOf(c)) + Cardinality(Held(c)) <= Total(c)
         /\ Cardinality(PairsOf(c)) + Cardinality(Held(c)) = Total(c)
              <=> \A t \in Types : c[t] <= 2
  <1> DEFINE P == PairsOf(c)
             H == Held(c)
             c1 == Take(c, 1, H)
             c2 == Take(c1, 1, P)
  <1>1. IsFiniteSet(Types)
    BY TypesType
  <1>2. H \in SUBSET Types /\ P \in SUBSET Types /\ P \subseteq H
    BY DEF Held, PairsOf
  <1>3. /\ c1 \in [Types -> Nat]
        /\ \A t \in Types : c1[t] = IF c[t] > 0 THEN c[t] - 1 ELSE 0
    BY <1>2 DEF Take, Held
  <1>4. /\ c2 \in [Types -> Nat]
        /\ \A t \in Types : c2[t] = IF t \in P THEN c1[t] - 1 ELSE c1[t]
    <2>1. \A t \in P : c1[t] - 1 \in Nat
      BY <1>2, <1>3 DEF PairsOf
    <2> HIDE DEF P, c1
    <2> QED
      BY <1>2, <1>3, <2>1 DEF Take
  <1>5. \A t \in Types : c2[t] = 0 <=> c[t] <= 2
    <2> TAKE t \in Types
    <2>1. c[t] \in Nat /\ (t \in P <=> c[t] >= 2)
      BY DEF PairsOf
    <2>2. c1[t] = (IF c[t] > 0 THEN c[t] - 1 ELSE 0)
      BY <1>3
    <2>3. c2[t] = IF t \in P THEN c1[t] - 1 ELSE c1[t]
      BY <1>4
    <2> HIDE DEF P, H, c1, c2
    <2> QED
      BY <2>1, <2>2, <2>3
  <1>6. c \in [Types -> Int] /\ c1 \in [Types -> Int]
    <2> HIDE DEF c1
    <2> QED
      BY <1>3
  <1> HIDE DEF P, H
  <1>7. Total(c1) = Total(c) - Cardinality(H)
    BY <1>1, <1>2, <1>6, TotalTakeEach
  <1> HIDE DEF c1
  <1>8. Total(c2) = Total(c1) - Cardinality(P)
    BY <1>1, <1>2, <1>6, TotalTakeEach
  <1> HIDE DEF c2
  <1>9. Total(c2) \in Nat /\ Total(c) \in Nat /\ (Total(c2) = 0 <=> Held(c2) = {})
    BY <1>1, <1>4, TotalType
  <1>10. Held(c2) = {} <=> \A t \in Types : c[t] <= 2
    BY <1>4, <1>5 DEF Held
  <1>11. /\ IsFiniteSet(H) /\ IsFiniteSet(P)
         /\ Cardinality(P) <= Cardinality(H)
         /\ Cardinality(P) = Cardinality(H) => P = H
    <2>1. IsFiniteSet(H)
      BY <1>1, <1>2, FS_Subset
    <2> QED
      BY <1>2, <2>1, FS_Subset
  <1>12. Cardinality(P) \in Nat /\ Cardinality(H) \in Nat
    BY <1>11, FS_CardinalityType
  <1>13. /\ Cardinality(P) + Cardinality(H) <= Total(c)
         /\ Cardinality(P) + Cardinality(H) = Total(c) <=> Total(c2) = 0
    BY <1>7, <1>8, <1>9, <1>12
  <1> QED
    BY <1>2, <1>9, <1>10, <1>11, <1>12, <1>13 DEF P, H

LEMMA ChiitoitsuAgrees ==
  ASSUME NEW c \in [Types -> Nat], Total(c) = 14
  PROVE  /\ ChiitoitsuShanten(c, 0) \in Int /\ ChiitoitsuShanten(c, 0) >= -1
         /\ ChiitoitsuShanten(c, 0) = -1 <=> CheckSevenPairs(c)
  <1> DEFINE p == Cardinality(PairsOf(c))
             h == Cardinality(Held(c))
             S == {0, 7 - h}
             x == Max(S)
  <1>1. /\ p \in Nat /\ h \in Nat /\ p <= h /\ (p = h => PairsOf(c) = Held(c))
        /\ p + h <= 14 /\ (p + h = 14 <=> \A t \in Types : c[t] <= 2)
    BY PairsCounted
  <1>2. ChiitoitsuShanten(c, 0) = 6 - p + x
    BY DEF ChiitoitsuShanten, PairsOf
  <1> HIDE DEF p, h
  <1>3. x \in S /\ \A y \in S : y <= x
    <2>1. \E z \in S : \A y \in S : z >= y
      <3>1. CASE h <= 7
        BY <1>1, <3>1
      <3>2. CASE ~ (h <= 7)
        BY <1>1, <3>2
      <3> QED
        BY <3>1, <3>2
    <2>2. x \in S /\ \A y \in S : x >= y
      <3> HIDE DEF S
      <3> QED
        BY <2>1 DEF Max
    <2> QED
      BY <1>1, <2>2
  <1>4. x \in Int /\ x >= 0 /\ x >= 7 - h /\ (x = 0 \/ x = 7 - h)
    BY <1>1, <1>3
  <1> HIDE DEF x
  <1>5. 6 - p + x >= -1 /\ (6 - p + x = -1 <=> p = 7 /\ h = 7)
    BY <1>1, <1>4
  <1>6. ASSUME p = 7, h = 7
        PROVE  CheckSevenPairs(c)
    <2>1. PairsOf(c) = Held(c) /\ \A t \in Types : c[t] <= 2
      BY <1>1, <1>6
    <2>2. \A t \in Types : c[t] = 0 \/ c[t] >= 2
      BY <2>1 DEF PairsOf, Held
    <2> QED
      BY <2>1, <2>2 DEF CheckSevenPairs
  <1>7. ASSUME CheckSevenPairs(c)
        PROVE  p = 7 /\ h = 7
    <2>1. \A t \in Types : c[t] \in {0, 2}
      BY <1>7 DEF CheckSevenPairs
    <2>2. PairsOf(c) = Held(c)
      BY <2>1 DEF PairsOf, Held
    <2>3. p = h
      BY <2>2 DEF p, h
    <2>4. p + h = 14
      BY <1>1, <2>1
    <2> QED
      BY <1>1, <2>3, <2>4
  <1> QED
    BY <1>1, <1>2, <1>4, <1>5, <1>6, <1>7

LEMMA OneMore ==
  ASSUME NEW S, IsFiniteSet(S), NEW n \in Nat, Cardinality(S) = n, NEW x, x \notin S
  PROVE  IsFiniteSet(S \cup {x}) /\ Cardinality(S \cup {x}) = n + 1
  BY FS_AddElement

LEMMA ThirteenOrphans ==
  /\ Orphans \subseteq TileType /\ IsFiniteSet(Orphans) /\ Cardinality(Orphans) = 13
  <1>1. Orphans = (((((27 .. 33 \cup {0}) \cup {8}) \cup {9}) \cup {17}) \cup {18}) \cup {26}
    <2>1. ASSUME NEW t \in TileType
          PROVE  IsYaochu(t) <=> t \in 27 .. 33 \cup {0, 8, 9, 17, 18, 26}
      <3>1. t \in Int /\ 0 <= t /\ t <= 33
        BY DEF TileType
      <3>2. CASE t <= 26
        <4>1. t \div 9 # 3 /\ (t % 9 = 0 <=> t \in {0, 9, 18}) /\ (t % 9 = 8 <=> t \in {8, 17, 26})
          BY <3>1, <3>2
        <4>2. 0 <= t % 9
          BY <3>1
        <4> QED
          BY <3>1, <3>2, <4>1, <4>2 DEF IsYaochu, Number, Suit, HONOR
      <3>3. CASE t > 26
        <4>1. t \div 9 = 3
          BY <3>1, <3>3
        <4> QED
          BY <3>1, <3>3, <4>1 DEF IsYaochu, Number, Suit, HONOR
      <3> QED
        BY <3>1, <3>2, <3>3
    <2> QED
      BY <2>1 DEF Orphans, TileType
  <1>2. IsFiniteSet(27 .. 33) /\ Cardinality(27 .. 33) = 7
    <2>1. 27 \in Int /\ 33 \in Int
      OBVIOUS
    <2>2. /\ IsFiniteSet(27 .. 33)
          /\ Cardinality(27 .. 33) = IF 27 > 33 THEN 0 ELSE 33 - 27 + 1
      BY <2>1, FS_Interval
    <2> QED
      BY <2>2
  <1> DEFINE A == 27 .. 33 \cup {0}
             B == A \cup {8}
             C == B \cup {9}
             E == C \cup {17}
             F == E \cup {18}
             G == F \cup {26}
  <1>3. /\ 0 \notin 27 .. 33 /\ 8 \notin A /\ 9 \notin B /\ 17 \notin C
        /\ 18 \notin E /\ 26 \notin F
    OBVIOUS
  <1>4. IsFiniteSet(A) /\ Cardinality(A) = 8
    BY <1>2, <1>3, OneMore
  <1> HIDE DEF A
  <1>5. IsFiniteSet(B) /\ Cardinality(B) = 9
    BY <1>3, <1>4, OneMore
  <1> HIDE DEF B
  <1>6. IsFiniteSet(C) /\ Cardinality(C) = 10
    BY <1>3, <1>5, OneMore
  <1> HIDE DEF C
  <1>7. IsFiniteSet(E) /\ Cardinality(E) = 11
    BY <1>3, <1>6, OneMore
  <1> HIDE DEF E
  <1>8. IsFiniteSet(F) /\ Cardinality(F) = 12
    BY <1>3, <1>7, OneMore
  <1> HIDE DEF F
  <1>9. IsFiniteSet(G) /\ Cardinality(G) = 13
    BY <1>3, <1>8, OneMore
  <1>10. Orphans = G
    BY <1>1 DEF A, B, C, E, F
  <1> QED
    BY <1>9, <1>10 DEF Orphans

\* All orphans are in the hand, one of them twice.
LEMMA OrphansPaired ==
  ASSUME NEW c \in [Types -> Nat], Total(c) = 14, Contains(c, 1, Orphans),
         NEW p \in Orphans, NEW q \in Orphans, c[p] >= 2, c[q] >= 2
  PROVE  p = q
  <1> DEFINE c1 == Take(c, 1, Orphans)
             c2 == Take(c1, 1, {p})
  <1>1. /\ Orphans \in SUBSET Types /\ \A t \in Orphans : c[t] >= 1
        /\ IsFiniteSet(Types) /\ c \in [Types -> Int]
    BY TypesType DEF Contains
  <1>2. c1 \in [Types -> Nat] /\ c1[p] = c[p] - 1 /\ c1[q] = c[q] - 1
    BY <1>1 DEF Take
  <1>3. Total(c1) = Total(c) - Cardinality(Orphans)
    BY <1>1, TotalTakeEach
  <1>4. Total(c1) = 1
    BY <1>3, ThirteenOrphans
  <1> HIDE DEF c1
  <1>5. c1 \in [Types -> Int] /\ p \in Types /\ 1 \in Int
    BY <1>1, <1>2
  <1>6. Total(c2) = Total(c1) - 1
    BY <1>1, <1>5, TotalTakeOne
  <1>7. c2 \in [Types -> Nat]
    <2>1. c1[p] - 1 \in Nat
      BY <1>1, <1>2
    <2> QED
      BY <1>2, <1>5, <2>1 DEF Take
  <1>8. p # q => c2[q] = c1[q]
    BY <1>1, <1>2 DEF Take
  <1> HIDE DEF c2
  <1>9. Held(c2) = {}
    BY <1>1, <1>4, <1>6, <1>7, TotalType
  <1>10. c2[q] = 0
    BY <1>1, <1>7, <1>9 DEF Held
  <1>11. c[q] \in Nat
    BY <1>1
  <1> QED
    BY <1>2, <1>8, <1>10, <1>11

LEMMA KokushiAgrees ==
  ASSUME NEW c \in [Types -> Nat], Total(c) = 14
  PROVE  /\ KokushiShanten(c, 0) \in Int /\ KokushiShanten(c, 0) >= -1
         /\ KokushiShanten(c, 0) = -1 <=> CheckKokushi(c)
  <1> DEFINE H == Held(c) \cap Orphans
             h == Cardinality(H)
             twice == \E t \in H : c[t] >= 2
  <1>1. KokushiShanten(c, 0) = 13 - h - (IF twice THEN 1 ELSE 0)
    BY DEF KokushiShanten
  <1>2. H \subseteq Orphans
    OBVIOUS
  <1>3. h \in Nat /\ h <= 13 /\ (h = 13 <=> H = Orphans)
    <2> HIDE DEF H
    <2>1. IsFiniteSet(H) /\ h <= 13 /\ (h = 13 => H = Orphans)
      BY <1>2, ThirteenOrphans, FS_Subset
    <2> QED
      BY <2>1, ThirteenOrphans, FS_CardinalityType
  <1>4. H = Orphans <=> Contains(c, 1, Orphans)
    BY DEF Held, Contains
  <1>5. ASSUME H = Orphans, twice
        PROVE  CheckKokushi(c)
    <2>1. PICK p \in Orphans : c[p] >= 2
      BY <1>5
    <2>2. Contains(c, 1, Orphans)
      BY <1>4, <1>5
    <2>3. {t \in Orphans : c[t] >= 2} = {p}
      BY <2>1, <2>2, OrphansPaired
    <2> QED
      BY <2>1, <2>2, <2>3 DEF CheckKokushi
  <1>6. ASSUME CheckKokushi(c)
        PROVE  H = Orphans /\ twice
    <2>1. H = Orphans
      BY <1>4, <1>6 DEF CheckKokushi
    <2>2. \E t \in Orphans : c[t] >= 2
      BY <1>6 DEF CheckKokushi
    <2> QED
      BY <2>1, <2>2
  <1> HIDE DEF h, H, twice
  <1> QED
    BY <1>1, <1>3, <1>5, <1>6

-----------------------------------------------------------------------------
(* Complete hands                                                           *)

\* A hand of the right size is complete exactly if its shanten is -1.
LEMMA CompleteIsMinusOne ==
  ASSUME NEW c \in [Types -> Nat], NEW m \in 0 .. MAX_MELDS,
         Total(c) = 3 * (MAX_MELDS - m) + 2
  PROVE  IsComplete(c, m) <=> Minimum(Raw(c, m)) = -1
  <1> DEFINE a == StandardShanten(c, m)
             b == ChiitoitsuShanten(c, m)
             d == KokushiShanten(c, m)
             S == {a, b, d}
  <1>1. a \in Int /\ a >= -1 /\ (a = -1 <=> CheckStandard(c, MAX_MELDS - m))
    BY StandardAgrees
  <1>2. /\ b \in Int /\ b >= -1 /\ (b = -1 <=> m = 0 /\ CheckSevenPairs(c))
        /\ d \in Int /\ d >= -1 /\ (d = -1 <=> m = 0 /\ CheckKokushi(c))
    <2>1. CASE m = 0
      <3>1. Total(c) = 14
        BY <2>1 DEF MAX_MELDS
      <3> QED
        BY <2>1, <3>1, ChiitoitsuAgrees, KokushiAgrees
    <2>2. CASE m # 0
      <3>1. b = 127 /\ d = 127
        BY <2>2 DEF ChiitoitsuShanten, KokushiShanten, NOT_APPLICABLE
      <3> HIDE DEF b, d
      <3> QED
        BY <2>2, <3>1
    <2> QED
      BY <2>1, <2>2
  <1>3. Minimum(Raw(c, m)) = Min(S)
    BY DEF Minimum, Raw
  <1> HIDE DEF a, b, d
  <1>4. S # {} /\ (\A x \in S : x \in Int /\ x >= -1) /\ (-1 \in S <=> a = -1 \/ b = -1 \/ d = -1)
    BY <1>1, <1>2
  <1> HIDE DEF S
  <1>5. Min(S) = -1 <=> -1 \in S
    BY <1>4, LeastFromMinusOne
  <1>6. IsComplete(c, m) <=> \/ m = 0 /\ (CheckKokushi(c) \/ CheckSevenPairs(c))
                            \/ CheckStandard(c, MAX_MELDS - m)
    BY DEF IsComplete
  <1> QED
    BY <1>1, <1>2, <1>3, <1>4, <1>5, <1>6

-----------------------------------------------------------------------------
(* One hand played alone                                                    *)

\* A hand has the tiles its melds leave it, and one more while it owes a
\* discard.
HandInv ==
  /\ hand \in [Types -> Nat]
  /\ melds \in 0 .. MAX_MELDS
  /\ Total(hand) \in {AfterDiscardTotal(melds), AfterDiscardTotal(melds) + 1}

LEMMA DrawnType ==
  ASSUME NEW c \in [Types -> Nat], NEW t \in Types
  PROVE  AfterDraw(c, t) \in [Types -> Nat] /\ Total(AfterDraw(c, t)) = Total(c) + 1
  <1>1. AfterDraw(c, t) = Take(c, -1, {t})
    <2>1. c[t] - (-1) = c[t] + 1
      OBVIOUS
    <2>2. Take(c, -1, {t}) = [u \in Types |-> IF u \in {t} THEN c[u] - (-1) ELSE c[u]]
      BY DEF Take
    <2>3. AfterDraw(c, t) = [u \in Types |-> IF u = t THEN c[t] + 1 ELSE c[u]]
      BY DEF AfterDraw
    <2> QED
      BY <2>1, <2>2, <2>3
  <1>2. AfterDraw(c, t) \in [Types -> Nat]
    BY DEF AfterDraw
  <1>3. c \in [Types -> Int] /\ IsFiniteSet(Types) /\ -1 \in Int
    BY TypesType
  <1>4. Total(Take(c, -1, {t})) = Total(c) - (-1)
    BY <1>3, TotalTakeOne
  <1>5. Total(c) \in Nat
    BY <1>3, TotalType
  <1> QED
    BY <1>1, <1>2, <1>4, <1>5

LEMMA TakenType ==
  ASSUME NEW c \in [Types -> Nat], NEW t \in Types, NEW n \in Nat, c[t] >= n
  PROVE  /\ Take(c, n, {t}) \in [Types -> Nat] /\ Total(Take(c, n, {t})) = Total(c) - n
         /\ Total(c) \in Nat /\ Total(c) >= c[t]
  <1>1. Take(c, n, {t}) \in [Types -> Nat]
    BY DEF Take
  <1>2. IsFiniteSet(Types) /\ c \in [Types -> Int] /\ n \in Int
    BY TypesType
  <1>3. Total(Take(c, n, {t})) = Total(c) - n
    BY <1>2, TotalTakeOne
  <1> QED
    BY <1>1, <1>2, <1>3, TotalType

LEMMA DiscardedType ==
  ASSUME NEW c \in [Types -> Nat], NEW t \in Types, c[t] > 0
  PROVE  AfterDiscard(c, t) \in [Types -> Nat] /\ Total(AfterDiscard(c, t)) = Total(c) - 1
  <1>1. AfterDiscard(c, t) = Take(c, 1, {t})
    BY DEF AfterDiscard, Take
  <1>2. c[t] >= 1 /\ 1 \in Nat
    OBVIOUS
  <1> QED
    BY <1>1, <1>2, TakenType

LEMMA HandInvInit == Init => HandInv
  <1> SUFFICES ASSUME Init
               PROVE  HandInv
    OBVIOUS
  <1>1. PICK deal \in Deals : hand = deal.tiles /\ melds = deal.melds
    BY DEF Init
  <1>2. /\ deal.tiles \in [Types -> 0 .. TILE_PER_TYPE] /\ deal.melds \in 0 .. MAX_MELDS
        /\ Total(deal.tiles) = 3 * (MAX_MELDS - deal.melds) + 1
    BY DealsAssumption
  <1>3. deal.tiles \in [Types -> Nat]
    BY <1>2 DEF TILE_PER_TYPE
  <1> QED
    BY <1>1, <1>2, <1>3 DEF HandInv, AfterDiscardTotal

LEMMA HandInvStep == HandInv /\ [Next]_vars => HandInv'
  <1> SUFFICES ASSUME HandInv, [Next]_vars
               PROVE  HandInv'
    OBVIOUS
  <1>0. /\ hand \in [Types -> Nat] /\ melds \in 0 .. MAX_MELDS
        /\ Total(hand) \in {AfterDiscardTotal(melds), AfterDiscardTotal(melds) + 1}
        /\ Total(hand) \in Nat
        /\ OwesDiscard <=> Total(hand) = AfterDiscardTotal(melds) + 1
    BY TypesType, TotalType DEF HandInv, OwesDiscard
  <1>1. ASSUME NEW type \in Draws, Draw(type)
        PROVE  HandInv'
    <2>1. type \in Types
      BY DrawsAssumption
    <2>2. hand' = AfterDraw(hand, type) /\ melds' = melds /\ ~ OwesDiscard
      BY <1>1 DEF Draw
    <2>3. hand' \in [Types -> Nat] /\ Total(hand') = Total(hand) + 1
      BY <1>0, <2>1, <2>2, DrawnType
    <2> QED
      BY <1>0, <2>2, <2>3 DEF HandInv
  <1>2. ASSUME NEW type \in Types, Discard(type)
        PROVE  HandInv'
    <2>1. hand' = AfterDiscard(hand, type) /\ melds' = melds /\ OwesDiscard /\ hand[type] > 0
      BY <1>2 DEF Discard
    <2>2. hand' \in [Types -> Nat] /\ Total(hand') = Total(hand) - 1
      BY <1>0, <2>1, DiscardedType
    <2>3. AfterDiscardTotal(melds) \in Int
      BY <1>0 DEF AfterDiscardTotal, MAX_MELDS
    <2> QED
      BY <1>0, <2>1, <2>2, <2>3 DEF HandInv
  <1>3. ASSUME NEW type \in Draws, Pon(type)
        PROVE  HandInv'
    <2>1. type \in Types
      BY DrawsAssumption
    <2>2. /\ hand' = Take(hand, 2, {type}) /\ melds' = melds + 1 /\ ~ OwesDiscard
          /\ melds < MAX_MELDS /\ hand[type] >= 2
      BY <1>3 DEF Pon
    <2>3. 2 \in Nat
      OBVIOUS
    <2>4. hand' \in [Types -> Nat] /\ Total(hand') = Total(hand) - 2
      BY <1>0, <2>1, <2>2, <2>3, TakenType
    <2>5. melds' \in 0 .. MAX_MELDS
      BY <1>0, <2>2 DEF MAX_MELDS
    <2>6. Total(hand') = AfterDiscardTotal(melds') + 1
      BY <1>0, <2>2, <2>4 DEF AfterDiscardTotal, MAX_MELDS
    <2> QED
      BY <2>4, <2>5, <2>6 DEF HandInv
  <1>4. ASSUME NEW type \in Types, Ankan(type)
        PROVE  HandInv'
    <2>1. /\ hand' = Take(hand, 4, {type}) /\ melds' = melds + 1 /\ OwesDiscard
          /\ hand[type] = 4
      BY <1>4 DEF Ankan
    <2>2. hand[type] >= 4 /\ 4 \in Nat
      BY <2>1
    <2>3. /\ hand' \in [Types -> Nat] /\ Total(hand') = Total(hand) - 4
          /\ Total(hand) >= hand[type]
      BY <1>0, <2>1, <2>2, TakenType
    <2>4. melds' \in 0 .. MAX_MELDS
      BY <1>0, <2>1, <2>3 DEF AfterDiscardTotal, MAX_MELDS
    <2>5. Total(hand') = AfterDiscardTotal(melds')
      BY <1>0, <2>1, <2>3 DEF AfterDiscardTotal, MAX_MELDS
    <2> QED
      BY <2>3, <2>4, <2>5 DEF HandInv
  <1>5. CASE UNCHANGED vars
    BY <1>5 DEF vars, HandInv
  <1> QED
    BY <1>1, <1>2, <1>3, <1>4, <1>5 DEF Next

\* The hand and its melds always have the tiles of a player's hand: the sizes
\* that hand_analysis.c:21 expects.
THEOREM HandInvHolds == Spec => []HandInv
  BY HandInvInit, HandInvStep, PTL DEF Spec

LEMMA CompletionFollows == HandInv => CompletionAgrees
  <1> SUFFICES ASSUME HandInv
               PROVE  CompletionAgrees
    OBVIOUS
  <1>1. hand \in [Types -> Nat] /\ melds \in 0 .. MAX_MELDS
    BY DEF HandInv
  <1>2. CASE OwesDiscard
    <2>1. Total(hand) = 3 * (MAX_MELDS - melds) + 2
      BY <1>1, <1>2 DEF OwesDiscard, AfterDiscardTotal, MAX_MELDS
    <2>2. IsComplete(hand, melds) <=> Minimum(Raw(hand, melds)) = -1
      BY <1>1, <2>1, CompleteIsMinusOne
    <2> QED
      BY <1>2, <2>2 DEF CompletionAgrees
  <1>3. CASE ~ OwesDiscard
    <2>1. Total(hand) = 3 * (MAX_MELDS - melds) + 1
      BY <1>3 DEF HandInv, OwesDiscard, AfterDiscardTotal
    <2>2. ASSUME NEW t \in Types
          PROVE  IsComplete(AfterDraw(hand, t), melds)
                   <=> Minimum(Raw(AfterDraw(hand, t), melds)) = -1
      <3> DEFINE c == AfterDraw(hand, t)
      <3>1. c \in [Types -> Nat] /\ Total(c) = Total(hand) + 1
        BY <1>1, DrawnType
      <3> HIDE DEF c
      <3>2. Total(c) = 3 * (MAX_MELDS - melds) + 2
        BY <1>1, <2>1, <3>1 DEF MAX_MELDS
      <3>3. IsComplete(c, melds) <=> Minimum(Raw(c, melds)) = -1
        BY <1>1, <3>1, <3>2, CompleteIsMinusOne
      <3> QED
        BY <3>3 DEF c
    <2>3. Waits(hand, melds) =
            {t \in Types : /\ hand[t] < TILE_PER_TYPE
                           /\ IsComplete(AfterDraw(hand, t), melds)}
      BY <2>2 DEF Waits
    <2> QED
      BY <1>3, <2>3 DEF CompletionAgrees
  <1> QED
    BY <1>2, <1>3

\* The tiles a hand waits for, found by minimising over blocks
\* (hand_analysis.c:381), are the tiles it may win with, found by dividing it
\* into melds and a pair (hand_check.c:156): for every hand of any tile types.
THEOREM CompletionAlwaysAgrees == Spec => []CompletionAgrees
  BY HandInvHolds, CompletionFollows, PTL

-----------------------------------------------------------------------------
(* A hand as blocks, in no order                                            *)

Amount(b, t) == IF t \in b.types THEN b.n ELSE 0

AllBlocks == UNION {BlocksFrom[i] : i \in Types}

\* The blocks that B[j] names are the tiles of c, M of them melds, U taatsu and
\* P pairs.
Gives(B, c, M, U, P) ==
  /\ \A t \in Types : SumFunction([j \in DOMAIN B |-> Amount(B[j], t)]) = c[t]
  /\ SumFunction([j \in DOMAIN B |-> B[j].meld]) = M
  /\ SumFunction([j \in DOMAIN B |-> B[j].taatsu]) = U
  /\ SumFunction([j \in DOMAIN B |-> B[j].pair]) = P

Parts(c, M, U, P) ==
  \E J : IsFiniteSet(J) /\ \E B \in [J -> AllBlocks] : Gives(B, c, M, U, P)

LEMMA SumWithout ==
  ASSUME NEW D, IsFiniteSet(D), NEW f \in [D -> Nat], NEW x \in D
  PROVE  /\ SumFunction(f) = f[x] + SumFunction([y \in D \ {x} |-> f[y]])
         /\ SumFunction(f) \in Nat /\ SumFunction([y \in D \ {x} |-> f[y]]) \in Nat
         /\ SumFunction(f) >= f[x]
  <1> DEFINE E == D \ {x}
             g == [y \in E |-> f[y]]
  <1>1. IsFiniteSet(E) /\ E \in SUBSET D /\ g \in [E -> Nat] /\ DOMAIN g = E
    BY FS_Subset
  <1>2. \A y \in E : f[y] = g[y]
    OBVIOUS
  <1>a. f \in [D -> Int]
    OBVIOUS
  <1>3. SumFunction(f) = Sums(f)[D] /\ SumFunction(g) = Sums(g)[E]
    BY <1>1, SumIsLastSum
  <1>4. Sums(f)[D] = f[x] + Sums(f)[E]
    BY <1>a, SumsRemove
  <1>5. Sums(f)[D] \in Nat /\ Sums(g)[E] \in Nat /\ f[x] \in Nat
    <2> HIDE DEF g, E
    <2> QED
      BY <1>1, SumsNat
  <1>6. Sums(f)[E] = Sums(g)[E]
    <2>1. g \in [E -> Int]
      OBVIOUS
    <2> HIDE DEF g, E
    <2> QED
      BY <1>a, <1>1, <1>2, <2>1, SumsAgree
  <1> HIDE DEF g
  <1>7. SumFunction(f) = f[x] + SumFunction(g)
    BY <1>3, <1>4, <1>6
  <1>8. SumFunction(f) \in Nat /\ SumFunction(g) \in Nat /\ f[x] \in Nat
    BY <1>3, <1>5
  <1>9. SumFunction(f) >= f[x]
    BY <1>7, <1>8
  <1> QED
    BY <1>7, <1>8, <1>9 DEF g, E

\* g is f without its value at x.
IsWithout(g, f, x) ==
  /\ IsFiniteSet(DOMAIN f) /\ f \in [DOMAIN f -> Nat] /\ x \in DOMAIN f
  /\ g = [y \in DOMAIN f \ {x} |-> f[y]]

LEMMA SumOfWithout ==
  ASSUME NEW f, NEW g, NEW x, IsWithout(g, f, x)
  PROVE  /\ SumFunction(f) = SumFunction(g) + f[x] /\ SumFunction(f) >= f[x]
         /\ SumFunction(g) = SumFunction(f) - f[x]
  <1> DEFINE D == DOMAIN f
  <1>1. IsFiniteSet(D) /\ f \in [D -> Nat] /\ x \in D /\ g = [y \in D \ {x} |-> f[y]]
    BY DEF IsWithout
  <1> HIDE DEF D
  <1>2. /\ SumFunction(f) = f[x] + SumFunction(g) /\ SumFunction(g) \in Nat
        /\ SumFunction(f) >= f[x]
    BY <1>1, SumWithout
  <1>3. f[x] \in Nat
    BY <1>1
  <1> QED
    BY <1>2, <1>3

\* No finite set has all numbers.
LEMMA FreshNumber ==
  ASSUME NEW J, IsFiniteSet(J)
  PROVE  \E x : x \notin J
  <1> DEFINE n == Cardinality(J)
  <1>1. n \in Nat
    BY FS_CardinalityType
  <1>2. IsFiniteSet(0 .. n) /\ Cardinality(0 .. n) = IF 0 > n THEN 0 ELSE n - 0 + 1
    <2>1. 0 \in Int /\ n \in Int
      BY <1>1
    <2> HIDE DEF n
    <2> QED
      BY <2>1, FS_Interval
  <1>3. Cardinality(0 .. n) = n + 1
    BY <1>1, <1>2
  <1>4. ~ (0 .. n \subseteq J)
    <2>1. 0 .. n \subseteq J => Cardinality(0 .. n) <= Cardinality(J)
      BY FS_Subset
    <2> QED
      BY <1>1, <1>3, <2>1
  <1> QED
    BY <1>4

LEMMA AllBlocksType ==
  ASSUME NEW b \in AllBlocks
  PROVE  /\ b.meld \in Nat /\ b.taatsu \in Nat /\ b.pair \in Nat
         /\ b.n \in Nat /\ b.n > 0 /\ b.types \subseteq Types /\ InOneSuit(b.types)
         /\ \A t : Amount(b, t) \in Nat
         /\ \E i \in Types : b \in Blocks(i) /\ b \in BlocksFrom[i]
  <1>1. PICK i \in Types : b \in BlocksFrom[i]
    BY DEF AllBlocks
  <1>2. b \in Blocks(i) /\ b.types \subseteq Types /\ InOneSuit(b.types)
    BY <1>1 DEF BlocksFrom
  <1>3. b.meld \in 0 .. 1 /\ b.taatsu \in 0 .. 1 /\ b.pair \in 0 .. 1 /\ b.n \in 1 .. 3
    BY <1>2, BlockType
  <1> QED
    BY <1>1, <1>2, <1>3 DEF Amount

\* One of the blocks is taken away.
LEMMA WithoutBlock ==
  ASSUME NEW J, IsFiniteSet(J), NEW B \in [J -> AllBlocks],
         NEW c \in [Types -> Nat], NEW M \in Nat, NEW U \in Nat, NEW P \in Nat,
         Gives(B, c, M, U, P), NEW j \in J, NEW b, b = B[j]
  PROVE  /\ b \in AllBlocks /\ \A t \in b.types : c[t] >= b.n
         /\ M >= b.meld /\ U >= b.taatsu /\ P >= b.pair
         /\ Parts(Take(c, b.n, b.types), M - b.meld, U - b.taatsu, P - b.pair)
  <1> DEFINE K == J \ {j}
             C == [x \in K |-> B[x]]
             d == Take(c, b.n, b.types)
  <1>1. /\ b \in AllBlocks /\ DOMAIN B = J /\ IsFiniteSet(K)
        /\ C \in [K -> AllBlocks] /\ DOMAIN C = K
    BY FS_Subset
  <1>2. ASSUME NEW t \in Types
        PROVE  /\ c[t] >= Amount(b, t)
               /\ SumFunction([x \in K |-> Amount(C[x], t)]) = c[t] - Amount(b, t)
    <2> DEFINE f == [x \in J |-> Amount(B[x], t)]
               g == [x \in K |-> Amount(C[x], t)]
    <2>1. f \in [J -> Nat]
      BY AllBlocksType
    <2>2. g = [x \in J \ {j} |-> f[x]] /\ f[j] = Amount(b, t)
      OBVIOUS
    <2>3. SumFunction(f) = c[t]
      BY <1>1 DEF Gives
    <2> HIDE DEF f, g, K, C
    <2>a. IsWithout(g, f, j)
      BY <2>1, <2>2 DEF IsWithout
    <2>4. c[t] >= f[j] /\ SumFunction(g) = c[t] - f[j]
      BY <2>a, <2>3, SumOfWithout
    <2> QED
      BY <2>2, <2>4 DEF g
  <1>3. M >= b.meld /\ SumFunction([x \in K |-> C[x].meld]) = M - b.meld
    <2> DEFINE f == [x \in J |-> B[x].meld]
               g == [x \in K |-> C[x].meld]
    <2>1. f \in [J -> Nat]
      BY AllBlocksType
    <2>2. g = [x \in J \ {j} |-> f[x]] /\ f[j] = b.meld
      OBVIOUS
    <2>3. SumFunction(f) = M
      BY <1>1 DEF Gives
    <2> HIDE DEF f, g, K, C
    <2>a. IsWithout(g, f, j)
      BY <2>1, <2>2 DEF IsWithout
    <2>4. M >= f[j] /\ SumFunction(g) = M - f[j]
      BY <2>a, <2>3, SumOfWithout
    <2> QED
      BY <2>2, <2>4 DEF g
  <1>4. U >= b.taatsu /\ SumFunction([x \in K |-> C[x].taatsu]) = U - b.taatsu
    <2> DEFINE f == [x \in J |-> B[x].taatsu]
               g == [x \in K |-> C[x].taatsu]
    <2>1. f \in [J -> Nat]
      BY AllBlocksType
    <2>2. g = [x \in J \ {j} |-> f[x]] /\ f[j] = b.taatsu
      OBVIOUS
    <2>3. SumFunction(f) = U
      BY <1>1 DEF Gives
    <2> HIDE DEF f, g, K, C
    <2>a. IsWithout(g, f, j)
      BY <2>1, <2>2 DEF IsWithout
    <2>4. U >= f[j] /\ SumFunction(g) = U - f[j]
      BY <2>a, <2>3, SumOfWithout
    <2> QED
      BY <2>2, <2>4 DEF g
  <1>5. P >= b.pair /\ SumFunction([x \in K |-> C[x].pair]) = P - b.pair
    <2> DEFINE f == [x \in J |-> B[x].pair]
               g == [x \in K |-> C[x].pair]
    <2>1. f \in [J -> Nat]
      BY AllBlocksType
    <2>2. g = [x \in J \ {j} |-> f[x]] /\ f[j] = b.pair
      OBVIOUS
    <2>3. SumFunction(f) = P
      BY <1>1 DEF Gives
    <2> HIDE DEF f, g, K, C
    <2>a. IsWithout(g, f, j)
      BY <2>1, <2>2 DEF IsWithout
    <2>4. P >= f[j] /\ SumFunction(g) = P - f[j]
      BY <2>a, <2>3, SumOfWithout
    <2> QED
      BY <2>2, <2>4 DEF g
  <1>6. ASSUME NEW t \in Types
        PROVE  d[t] = c[t] - Amount(b, t)
    BY DEF Take, Amount
  <1>7. \A t \in b.types : c[t] >= b.n
    BY <1>1, <1>2, AllBlocksType DEF Amount
  <1> HIDE DEF C, K, d
  <1>8. Gives(C, d, M - b.meld, U - b.taatsu, P - b.pair)
    BY <1>1, <1>2, <1>3, <1>4, <1>5, <1>6 DEF Gives
  <1> QED
    BY <1>1, <1>3, <1>4, <1>5, <1>7, <1>8 DEF Parts, d

\* A block of a hand is put back.
LEMMA WithBlock ==
  ASSUME NEW c \in [Types -> Nat], NEW b \in AllBlocks, \A t \in b.types : c[t] >= b.n,
         NEW M \in Nat, NEW U \in Nat, NEW P \in Nat,
         Parts(Take(c, b.n, b.types), M, U, P)
  PROVE  Parts(c, M + b.meld, U + b.taatsu, P + b.pair)
  <1> DEFINE d == Take(c, b.n, b.types)
  <1>1. PICK J : IsFiniteSet(J) /\ \E B \in [J -> AllBlocks] : Gives(B, d, M, U, P)
    BY DEF Parts
  <1>2. PICK B \in [J -> AllBlocks] : Gives(B, d, M, U, P)
    BY <1>1
  <1>3. PICK x : x \notin J
    BY <1>1, FreshNumber
  <1> DEFINE K == J \cup {x}
             C == [y \in K |-> IF y = x THEN b ELSE B[y]]
  <1>4. IsFiniteSet(K) /\ DOMAIN B = J /\ DOMAIN C = K /\ C \in [K -> AllBlocks] /\ x \in K
    BY <1>1, FS_AddElement
  <1>5. ASSUME NEW t \in Types
        PROVE  SumFunction([y \in K |-> Amount(C[y], t)]) = c[t]
    <2> DEFINE f == [y \in K |-> Amount(C[y], t)]
               g == [y \in J |-> Amount(B[y], t)]
    <2>1. f \in [K -> Nat]
      BY AllBlocksType
    <2>2. g = [y \in K \ {x} |-> f[y]] /\ f[x] = Amount(b, t)
      BY <1>3
    <2>3. SumFunction(g) = d[t]
      BY <1>2, <1>4 DEF Gives
    <2>4. d[t] = c[t] - Amount(b, t) /\ Amount(b, t) \in Nat /\ c[t] \in Nat
      BY AllBlocksType DEF Take, Amount
    <2> HIDE DEF f, g, K, C, d
    <2>a. IsWithout(g, f, x)
      BY <1>4, <2>1, <2>2 DEF IsWithout
    <2>5. SumFunction(f) = SumFunction(g) + f[x]
      BY <2>a, SumOfWithout
    <2>6. SumFunction(f) = c[t]
      BY <2>2, <2>3, <2>4, <2>5
    <2> QED
      BY <2>6 DEF f
  <1>6. SumFunction([y \in K |-> C[y].meld]) = M + b.meld
    <2> DEFINE f == [y \in K |-> C[y].meld]
               g == [y \in J |-> B[y].meld]
    <2>1. f \in [K -> Nat]
      BY AllBlocksType
    <2>2. g = [y \in K \ {x} |-> f[y]] /\ f[x] = b.meld
      BY <1>3
    <2>3. SumFunction(g) = M
      BY <1>2, <1>4 DEF Gives
    <2> HIDE DEF f, g, K, C, d
    <2>a. IsWithout(g, f, x)
      BY <1>4, <2>1, <2>2 DEF IsWithout
    <2>5. SumFunction(f) = SumFunction(g) + f[x]
      BY <2>a, SumOfWithout
    <2>6. SumFunction(f) = M + b.meld
      BY <2>2, <2>3, <2>5
    <2> QED
      BY <2>6 DEF f
  <1>7. SumFunction([y \in K |-> C[y].taatsu]) = U + b.taatsu
    <2> DEFINE f == [y \in K |-> C[y].taatsu]
               g == [y \in J |-> B[y].taatsu]
    <2>1. f \in [K -> Nat]
      BY AllBlocksType
    <2>2. g = [y \in K \ {x} |-> f[y]] /\ f[x] = b.taatsu
      BY <1>3
    <2>3. SumFunction(g) = U
      BY <1>2, <1>4 DEF Gives
    <2> HIDE DEF f, g, K, C, d
    <2>a. IsWithout(g, f, x)
      BY <1>4, <2>1, <2>2 DEF IsWithout
    <2>5. SumFunction(f) = SumFunction(g) + f[x]
      BY <2>a, SumOfWithout
    <2>6. SumFunction(f) = U + b.taatsu
      BY <2>2, <2>3, <2>5
    <2> QED
      BY <2>6 DEF f
  <1>8. SumFunction([y \in K |-> C[y].pair]) = P + b.pair
    <2> DEFINE f == [y \in K |-> C[y].pair]
               g == [y \in J |-> B[y].pair]
    <2>1. f \in [K -> Nat]
      BY AllBlocksType
    <2>2. g = [y \in K \ {x} |-> f[y]] /\ f[x] = b.pair
      BY <1>3
    <2>3. SumFunction(g) = P
      BY <1>2, <1>4 DEF Gives
    <2> HIDE DEF f, g, K, C, d
    <2>a. IsWithout(g, f, x)
      BY <1>4, <2>1, <2>2 DEF IsWithout
    <2>5. SumFunction(f) = SumFunction(g) + f[x]
      BY <2>a, SumOfWithout
    <2>6. SumFunction(f) = P + b.pair
      BY <2>2, <2>3, <2>5
    <2> QED
      BY <2>6 DEF f
  <1> HIDE DEF C, K
  <1>9. Gives(C, c, M + b.meld, U + b.taatsu, P + b.pair)
    BY <1>4, <1>5, <1>6, <1>7, <1>8 DEF Gives
  <1> QED
    BY <1>4, <1>9 DEF Parts

\* A hand of blocks has, at each of its tiles, a block that holds it.
LEMMA BlockAt ==
  ASSUME NEW c \in [Types -> Nat], NEW M \in Nat, NEW U \in Nat, NEW P \in Nat,
         Parts(c, M, U, P), NEW t \in Types, c[t] > 0
  PROVE  \E b \in AllBlocks :
           /\ t \in b.types /\ \A u \in b.types : c[u] >= b.n
           /\ M >= b.meld /\ U >= b.taatsu /\ P >= b.pair
           /\ Parts(Take(c, b.n, b.types), M - b.meld, U - b.taatsu, P - b.pair)
  <1>1. PICK J : IsFiniteSet(J) /\ \E B \in [J -> AllBlocks] : Gives(B, c, M, U, P)
    BY DEF Parts
  <1>2. PICK B \in [J -> AllBlocks] : Gives(B, c, M, U, P)
    BY <1>1
  <1> DEFINE f == [j \in J |-> Amount(B[j], t)]
  <1>3. f \in [J -> Nat] /\ DOMAIN f = J
    BY AllBlocksType
  <1>4. SumFunction(f) = c[t]
    BY <1>2 DEF Gives
  <1> HIDE DEF f
  <1>5. SumFunction(f) = Sums(f)[J]
    BY <1>3, SumIsLastSum
  <1>6. \E j \in J : f[j] > 0
    <2>1. Sums(f)[J] # 0 /\ J \in SUBSET J
      BY <1>4, <1>5
    <2> QED
      BY <1>1, <1>3, <2>1, SumsOfNothing
  <1>7. PICK j \in J : f[j] > 0
    BY <1>6
  <1>8. t \in B[j].types
    BY <1>7 DEF f, Amount
  <1> QED
    BY <1>1, <1>2, <1>8, WithoutBlock

\* A hand without tiles has no blocks.
LEMMA NoBlocks ==
  ASSUME NEW c \in [Types -> Nat], Held(c) = {},
         NEW M \in Nat, NEW U \in Nat, NEW P \in Nat
  PROVE  Parts(c, M, U, P) <=> M = 0 /\ U = 0 /\ P = 0
  <1>0. \A t \in Types : c[t] = 0
    BY DEF Held
  <1>1. SumFunction([j \in {} |-> 0]) = 0
    <2> DEFINE f == [j \in {} |-> 0]
    <2>1. f \in [{} -> Nat] /\ DOMAIN f = {} /\ IsFiniteSet({})
      BY FS_EmptySet
    <2> HIDE DEF f
    <2>2. SumFunction(f) = Sums(f)[{}] /\ Sums(f)[{}] = 0
      BY <2>1, SumIsLastSum, SumsRule
    <2> QED
      BY <2>2 DEF f
  <1>2. ASSUME Parts(c, M, U, P)
        PROVE  M = 0 /\ U = 0 /\ P = 0
    <2>1. PICK J : IsFiniteSet(J) /\ \E B \in [J -> AllBlocks] : Gives(B, c, M, U, P)
      BY <1>2 DEF Parts
    <2>2. PICK B \in [J -> AllBlocks] : Gives(B, c, M, U, P)
      BY <2>1
    <2>3. J = {}
      <3>1. SUFFICES ASSUME NEW j \in J
                     PROVE  FALSE
        OBVIOUS
      <3> DEFINE b == B[j]
      <3>2. b \in AllBlocks /\ \A t \in b.types : c[t] >= b.n
        BY <2>1, <2>2, WithoutBlock
      <3>3. PICK i \in Types : b \in Blocks(i)
        BY <3>2, AllBlocksType
      <3>4. i \in b.types /\ b.n > 0 /\ b.n \in Nat
        BY <3>2, <3>3, BlockType, AllBlocksType
      <3> HIDE DEF b
      <3>5. c[i] >= b.n
        BY <3>2, <3>4
      <3> QED
        BY <1>0, <3>4, <3>5
    <2>4. /\ [j \in DOMAIN B |-> B[j].meld] = [j \in {} |-> 0]
          /\ [j \in DOMAIN B |-> B[j].taatsu] = [j \in {} |-> 0]
          /\ [j \in DOMAIN B |-> B[j].pair] = [j \in {} |-> 0]
      BY <2>3
    <2> QED
      BY <1>1, <2>2, <2>4 DEF Gives
  <1>3. Parts(c, 0, 0, 0)
    <2> DEFINE B == [j \in {} |-> {}]
    <2>1. B \in [{} -> AllBlocks] /\ IsFiniteSet({}) /\ DOMAIN B = {}
      BY FS_EmptySet
    <2>2. /\ \A t : [j \in DOMAIN B |-> Amount(B[j], t)] = [j \in {} |-> 0]
          /\ [j \in DOMAIN B |-> B[j].meld] = [j \in {} |-> 0]
          /\ [j \in DOMAIN B |-> B[j].taatsu] = [j \in {} |-> 0]
          /\ [j \in DOMAIN B |-> B[j].pair] = [j \in {} |-> 0]
      OBVIOUS
    <2>3. Gives(B, c, 0, 0, 0)
      BY <1>0, <1>1, <2>2 DEF Gives
    <2> QED
      BY <2>1, <2>3 DEF Parts
  <1> QED
    BY <1>2, <1>3

-----------------------------------------------------------------------------
(* Blocks may be cut off in any order                                       *)

IsDivided(c, M, U, P) ==
  c \in [Types -> Nat] /\ M \in Nat /\ U \in Nat /\ P \in Nat /\ Parts(c, M, U, P)

Without(c, b) == Take(c, b.n, b.types)

Fits(c, b) == c \in [Types -> Nat] /\ b \in AllBlocks /\ \A t \in b.types : c[t] >= b.n

LEMMA FitsType ==
  ASSUME NEW c, NEW b, Fits(c, b)
  PROVE  /\ Without(c, b) \in [Types -> Nat]
         /\ Total(Without(c, b)) = Total(c) - (IF IsSingle(b) THEN 1 ELSE Size(b))
         /\ Total(c) \in Nat /\ Total(Without(c, b)) \in Nat
         /\ Total(Without(c, b)) < Total(c)
         /\ b.meld \in 0 .. 1 /\ b.taatsu \in 0 .. 1 /\ b.pair \in 0 .. 1
  <1>1. c \in [Types -> Nat] /\ b \in AllBlocks /\ DOMAIN c = Types
    BY DEF Fits
  <1>2. PICK i \in Types : b \in Blocks(i)
    BY <1>1, AllBlocksType
  <1>3. IsBlock(b, i, c)
    BY <1>1, <1>2, AllBlocksType DEF IsBlock, Fits
  <1>4. IsTypes(Types)
    BY TypesType
  <1>5. /\ Without(c, b) \in [Types -> Nat]
        /\ Total(Without(c, b)) = Total(c) - (IF IsSingle(b) THEN 1 ELSE Size(b))
    BY <1>1, <1>3, <1>4, BlockTakes DEF Without
  <1>6. Total(c) \in Nat /\ Total(Without(c, b)) \in Nat
    BY <1>1, <1>5, TypesType, TotalType
  <1>7. b.meld \in 0 .. 1 /\ b.taatsu \in 0 .. 1 /\ b.pair \in 0 .. 1
    BY <1>2, BlockType
  <1>8. Total(Without(c, b)) < Total(c)
    <2>1. ~ IsSingle(b) => Size(b) >= 1 /\ Size(b) \in Nat
      BY <1>7 DEF IsSingle, Size
    <2> QED
      BY <1>5, <1>6, <2>1
  <1> QED
    BY <1>5, <1>6, <1>7, <1>8

LEMMA PutBack ==
  ASSUME NEW c, NEW b, Fits(c, b), NEW M, NEW U, NEW P, IsDivided(Without(c, b), M, U, P)
  PROVE  IsDivided(c, M + b.meld, U + b.taatsu, P + b.pair)
  <1>1. /\ c \in [Types -> Nat] /\ b \in AllBlocks /\ \A t \in b.types : c[t] >= b.n
        /\ M \in Nat /\ U \in Nat /\ P \in Nat /\ Parts(Take(c, b.n, b.types), M, U, P)
    BY DEF Fits, IsDivided, Without
  <1>2. Parts(c, M + b.meld, U + b.taatsu, P + b.pair)
    BY <1>1, WithBlock
  <1>3. b.meld \in Nat /\ b.taatsu \in Nat /\ b.pair \in Nat
    BY <1>1, AllBlocksType
  <1> QED
    BY <1>1, <1>2, <1>3 DEF IsDivided

LEMMA CutAt ==
  ASSUME NEW c, NEW M, NEW U, NEW P, IsDivided(c, M, U, P), NEW t \in Types, c[t] > 0
  PROVE  \E b : /\ Fits(c, b) /\ t \in b.types
                /\ M >= b.meld /\ U >= b.taatsu /\ P >= b.pair
                /\ IsDivided(Without(c, b), M - b.meld, U - b.taatsu, P - b.pair)
  <1>1. /\ c \in [Types -> Nat] /\ M \in Nat /\ U \in Nat /\ P \in Nat /\ Parts(c, M, U, P)
    BY DEF IsDivided
  <1>2. PICK b \in AllBlocks :
           /\ t \in b.types /\ \A u \in b.types : c[u] >= b.n
           /\ M >= b.meld /\ U >= b.taatsu /\ P >= b.pair
           /\ Parts(Take(c, b.n, b.types), M - b.meld, U - b.taatsu, P - b.pair)
    BY <1>1, BlockAt
  <1>3. Fits(c, b)
    BY <1>1, <1>2 DEF Fits
  <1>4. b.meld \in Nat /\ b.taatsu \in Nat /\ b.pair \in Nat
    BY AllBlocksType
  <1>5. M - b.meld \in Nat /\ U - b.taatsu \in Nat /\ P - b.pair \in Nat
    BY <1>1, <1>2, <1>4
  <1> QED
    BY <1>2, <1>3, <1>5, FitsType DEF IsDivided, Without

LEMMA FitsTwice ==
  ASSUME NEW c, NEW b, NEW e, Fits(c, b), Fits(Without(c, b), e)
  PROVE  /\ Fits(c, e) /\ Fits(Without(c, e), b)
         /\ Without(Without(c, b), e) = Without(Without(c, e), b)
  <1>1. /\ c \in [Types -> Nat] /\ b \in AllBlocks /\ e \in AllBlocks
        /\ \A t \in b.types : c[t] >= b.n
        /\ \A t \in e.types : Without(c, b)[t] >= e.n
    BY DEF Fits
  <1>2. /\ b.n \in Nat /\ e.n \in Nat /\ b.types \subseteq Types /\ e.types \subseteq Types
    BY <1>1, AllBlocksType
  <1>3. ASSUME NEW t \in Types
        PROVE  /\ Without(c, b)[t] = IF t \in b.types THEN c[t] - b.n ELSE c[t]
               /\ Without(c, e)[t] = IF t \in e.types THEN c[t] - e.n ELSE c[t]
               /\ c[t] \in Nat
    BY <1>1 DEF Without, Take
  <1>4. \A t \in e.types : c[t] >= e.n
    BY <1>1, <1>2, <1>3
  <1>5. Fits(c, e)
    BY <1>1, <1>4 DEF Fits
  <1>6. \A t \in b.types : Without(c, e)[t] >= b.n
    BY <1>1, <1>2, <1>3
  <1>7. Without(c, e) \in [Types -> Nat]
    BY <1>5, FitsType
  <1>8. Without(Without(c, b), e) = Without(Without(c, e), b)
    <2>1. \A t \in Types : (c[t] - b.n) - e.n = (c[t] - e.n) - b.n
      BY <1>1, <1>2
    <2> QED
      BY <1>1, <2>1 DEF Without, Take
  <1> QED
    BY <1>1, <1>5, <1>6, <1>7, <1>8 DEF Fits

-----------------------------------------------------------------------------
(* The search finds every division                                          *)

\* From s it may come to M melds, U taatsu and P pairs.
MayReach(s, M, U, P) == IsDivided(s.tiles, M - s.melds, U - s.taatsu, P - s.pair)

LEMMA FirstBlock ==
  ASSUME NEW c \in [Types -> Nat], NEW i \in Types, IsFirst(i, c), NEW b, Fits(c, b), i \in b.types
  PROVE  b \in BlocksFrom[i] /\ b \in Blocks(i)
  <1>1. b \in AllBlocks /\ b.n > 0 /\ b.n \in Nat /\ b.types \subseteq Types
    BY AllBlocksType DEF Fits
  <1>2. PICK j \in Types : b \in Blocks(j) /\ b \in BlocksFrom[j]
    BY <1>1, AllBlocksType
  <1>3. j \in Int /\ i \in Int
    BY TypesType
  <1>4. j \in b.types /\ \A u \in b.types : j <= u
    BY <1>2, <1>3 DEF Blocks
  <1>5. c[j] > 0
    BY <1>1, <1>4 DEF Fits
  <1>6. i <= j /\ j <= i
    BY <1>4, <1>5 DEF IsFirst
  <1>7. i = j
    BY <1>3, <1>6
  <1> QED
    BY <1>2, <1>7

LEMMA SearchStep ==
  ASSUME NEW s, IsCutting(s),
         NEW M \in 0 .. MAX_MELDS, NEW U \in 0 .. MAX_MELDS, NEW P \in 0 .. 1
  PROVE  MayReach(s, M, U, P) <=> \E r \in AfterBlock(s) : MayReach(r, M, U, P)
  <1>1. CASE Held(s.tiles) = {}
    BY <1>1 DEF AfterBlock
  <1>2. CASE Held(s.tiles) # {}
    <2> DEFINE i == Min(Held(s.tiles))
    <2>1. i \in Types /\ IsFirst(i, s.tiles)
      BY <1>2, FirstOfCutting
    <2>2. AfterBlock(s) = {CutOff(s, b) : b \in Admitted(s, i)}
      BY <1>2 DEF AfterBlock
    <2> HIDE DEF i
    <2>3. /\ s.tiles \in [Types -> Nat] /\ s.melds \in 0 .. MAX_MELDS
          /\ s.taatsu \in 0 .. MAX_MELDS /\ s.pair \in 0 .. 1
      BY DEF IsCutting
    <2>a. M \in Int /\ U \in Int /\ P \in Int /\ M <= MAX_MELDS /\ U <= MAX_MELDS /\ P <= 1
      BY DEF MAX_MELDS
    <2>b. s.melds \in Int /\ s.taatsu \in Int /\ s.pair \in Int /\ MAX_MELDS \in Int
      BY <2>3 DEF MAX_MELDS
    <2>4. ASSUME MayReach(s, M, U, P)
          PROVE  \E r \in AfterBlock(s) : MayReach(r, M, U, P)
      <3>1. s.tiles[i] > 0
        BY <2>1 DEF IsFirst
      <3>2. PICK b : /\ Fits(s.tiles, b) /\ i \in b.types
                     /\ M - s.melds >= b.meld /\ U - s.taatsu >= b.taatsu /\ P - s.pair >= b.pair
                     /\ IsDivided(Without(s.tiles, b), (M - s.melds) - b.meld,
                                  (U - s.taatsu) - b.taatsu, (P - s.pair) - b.pair)
        BY <2>1, <2>4, <3>1, CutAt DEF MayReach
      <3>3. b \in BlocksFrom[i] /\ b \in Blocks(i)
        BY <2>1, <2>3, <3>2, FirstBlock
      <3>4. b.meld \in Int /\ b.taatsu \in Int /\ b.pair \in Int
        BY <3>2, FitsType
      <3>5. /\ s.melds + b.meld <= MAX_MELDS /\ s.taatsu + b.taatsu <= MAX_MELDS
            /\ s.pair + b.pair <= 1
        BY <2>a, <2>b, <3>2, <3>4
      <3>6. b \in Admitted(s, i)
        <4>1. /\ InOneSuit(b.types) /\ b.types \subseteq Types
              /\ \A t \in b.types : s.tiles[t] >= b.n
          BY <3>2, AllBlocksType DEF Fits
        <4> QED
          BY <2>1, <3>3, <3>5, <4>1, AdmittedIs
      <3>7. MayReach(CutOff(s, b), M, U, P)
        <4>1. /\ (M - s.melds) - b.meld = M - (s.melds + b.meld)
              /\ (U - s.taatsu) - b.taatsu = U - (s.taatsu + b.taatsu)
              /\ (P - s.pair) - b.pair = P - (s.pair + b.pair)
          BY <2>a, <2>b, <3>4
        <4> QED
          BY <3>2, <4>1, CutOffFields DEF MayReach, Without
      <3> QED
        BY <2>2, <3>6, <3>7
    <2>5. ASSUME NEW b \in Admitted(s, i), MayReach(CutOff(s, b), M, U, P)
          PROVE  MayReach(s, M, U, P)
      <3>1. /\ b \in Blocks(i) /\ b.types \subseteq Types /\ b \in BlocksFrom[i]
            /\ \A t \in b.types : s.tiles[t] >= b.n
        BY <2>1, AdmittedIs DEF Admitted
      <3>2. Fits(s.tiles, b)
        BY <2>1, <2>3, <3>1 DEF Fits, AllBlocks
      <3>3. b.meld \in Int /\ b.taatsu \in Int /\ b.pair \in Int
        BY <3>2, FitsType
      <3>4. IsDivided(Without(s.tiles, b), M - (s.melds + b.meld),
                      U - (s.taatsu + b.taatsu), P - (s.pair + b.pair))
        BY <2>5, CutOffFields DEF MayReach, Without
      <3>5. IsDivided(s.tiles, (M - (s.melds + b.meld)) + b.meld,
                      (U - (s.taatsu + b.taatsu)) + b.taatsu, (P - (s.pair + b.pair)) + b.pair)
        BY <3>2, <3>4, PutBack
      <3>6. /\ (M - (s.melds + b.meld)) + b.meld = M - s.melds
            /\ (U - (s.taatsu + b.taatsu)) + b.taatsu = U - s.taatsu
            /\ (P - (s.pair + b.pair)) + b.pair = P - s.pair
        BY <2>a, <2>b, <3>3
      <3> QED
        BY <3>5, <3>6 DEF MayReach
    <2> QED
      BY <2>2, <2>4, <2>5
  <1> QED
    BY <1>1, <1>2

LEMMA LevelsMayReach ==
  ASSUME NEW s, IsCutting(s), NEW n \in Nat, n = Total(s.tiles), NEW k \in 0 .. n,
         NEW M \in 0 .. MAX_MELDS, NEW U \in 0 .. MAX_MELDS, NEW P \in 0 .. 1
  PROVE  MayReach(s, M, U, P) <=> \E r \in Cut(s, n)[k] : MayReach(r, M, U, P)
  <1> DEFINE Same(j) == MayReach(s, M, U, P) <=> \E r \in Cut(s, n)[j] : MayReach(r, M, U, P)
             T == {j \in 0 .. n : ~ Same(j)}
  <1> SUFFICES ASSUME T # {}
               PROVE  FALSE
    OBVIOUS
  <1>1. PICK j \in T : \A x \in T : j <= x
    <2>1. T \in SUBSET Nat
      OBVIOUS
    <2> HIDE DEF T
    <2> QED
      BY <2>1, LeastNumber
  <1>2. CASE j = 0
    <2>1. Same(0)
      BY CutRule
    <2> QED
      BY <1>2, <2>1
  <1>3. CASE j # 0
    <2>1. j - 1 \in 0 .. n /\ j \in 1 .. n /\ j - 1 \notin T
      BY <1>1, <1>3
    <2>2. Same(j - 1)
      BY <2>1
    <2>3. Cut(s, n)[j] = AfterBlocks(Cut(s, n)[j - 1])
      BY <2>1, CutRule
    <2>4. \A q \in Cut(s, n)[j - 1] :
            MayReach(q, M, U, P) <=> \E r \in AfterBlock(q) : MayReach(r, M, U, P)
      BY <2>1, LevelsType, SearchStep
    <2> QED
      BY <2>2, <2>3, <2>4 DEF AfterBlocks
  <1> QED
    BY <1>2, <1>3

LEMMA BlockShantenIs ==
  ASSUME NEW m \in 0 .. MAX_MELDS, NEW taatsu \in 0 .. MAX_MELDS, NEW pair \in 0 .. 1
  PROVE  /\ BlockShanten(m, taatsu, pair)
              = 8 - 2 * m - (IF taatsu <= MAX_MELDS - m THEN taatsu ELSE MAX_MELDS - m) - pair
         /\ BlockShanten(m, taatsu, pair) \in Int /\ BlockShanten(m, taatsu, pair) >= -1
  <1> DEFINE S == {taatsu, MAX_MELDS - m}
             x == Min(S)
  <1>1. S # {} /\ \A y \in S : y \in Int /\ y >= -1
    BY DEF MAX_MELDS
  <1>2. x \in S /\ x \in Int /\ \A y \in S : x <= y
    <2> HIDE DEF S
    <2> QED
      BY <1>1, LeastFromMinusOne
  <1>3. x = IF taatsu <= MAX_MELDS - m THEN taatsu ELSE MAX_MELDS - m
    BY <1>2 DEF MAX_MELDS
  <1>4. BlockShanten(m, taatsu, pair) = 8 - 2 * m - x - pair
    BY DEF BlockShanten
  <1> QED
    BY <1>3, <1>4, BlockShantenType

\* A hand beside m melds that fits into four melds and a pair.
IsHand(c, m) ==
  c \in [Types -> Nat] /\ m \in 0 .. MAX_MELDS /\ Total(c) + 3 * m <= 14

\* M melds, the m that are called with them, U taatsu and P pairs are in the hand
\* and the search counts them.
Counts(c, m, M, U, P) ==
  /\ M \in 0 .. MAX_MELDS /\ U \in 0 .. MAX_MELDS /\ P \in 0 .. 1
  /\ IsDivided(c, M - m, U, P)

\* What the search finds is the best division of the hand.
LEMMA StandardIsBest ==
  ASSUME NEW c, NEW m, IsHand(c, m)
  PROVE  /\ StandardShanten(c, m) \in Int /\ StandardShanten(c, m) >= -1
         /\ \E M, U, P : /\ Counts(c, m, M, U, P)
                         /\ StandardShanten(c, m) = BlockShanten(M, U, P)
         /\ \A M, U, P : Counts(c, m, M, U, P)
                           => StandardShanten(c, m) <= BlockShanten(M, U, P)
  <1> DEFINE s == Uncut(c, m)
             n == Total(c)
             R == Ends(c, m)
             S == Shantens(R)
  <1>0. c \in [Types -> Nat] /\ m \in 0 .. MAX_MELDS /\ Total(c) + 3 * m <= 14
    BY DEF IsHand
  <1>1. s.tiles = c /\ s.melds = m /\ s.taatsu = 0 /\ s.pair = 0
        /\ s = [tiles |-> s.tiles, melds |-> s.melds, taatsu |-> s.taatsu, pair |-> s.pair]
    BY DEF Uncut
  <1>2. n \in Nat
    BY <1>0, TypesType, TotalType
  <1>3. R = Cut(s, n)[n] /\ StandardShanten(c, m) = Min(S)
    BY StandardShantenIs DEF Ends
  <1>a. n + 3 * m <= 14
    BY <1>0
  <1>b. n = Total(s.tiles)
    BY <1>1
  <1> HIDE DEF s, n, R
  <1>4. IsCutting(s)
    <2>1. Total(s.tiles) + 3 * s.melds + 2 * s.taatsu + 2 * s.pair <= 14
      BY <1>0, <1>1, <1>2, <1>a, <1>b DEF MAX_MELDS
    <2>2. 0 \in 0 .. MAX_MELDS /\ 0 \in 0 .. 1
      BY DEF MAX_MELDS
    <2> QED
      BY <1>0, <1>1, <2>1, <2>2 DEF IsCutting
  <1>5. n \in 0 .. n
    BY <1>2
  <1>6. /\ R # {}
        /\ \A r \in R : IsCutting(r) /\ Total(r.tiles) \in Nat /\ Total(r.tiles) + n <= n
    BY <1>2, <1>3, <1>4, <1>5, <1>b, LevelsType
  <1>7. ASSUME NEW r \in R
        PROVE  /\ r.melds \in 0 .. MAX_MELDS /\ r.taatsu \in 0 .. MAX_MELDS /\ r.pair \in 0 .. 1
               /\ BlockShanten(r.melds, r.taatsu, r.pair) \in Int
               /\ BlockShanten(r.melds, r.taatsu, r.pair) >= -1
               /\ r.tiles \in [Types -> Nat] /\ Held(r.tiles) = {}
    <2>1. /\ IsCutting(r) /\ Total(r.tiles) = 0
      BY <1>2, <1>6
    <2>2. Held(r.tiles) = {}
      BY <2>1, FirstOfCutting
    <2> QED
      BY <2>1, <2>2, BlockShantenIs DEF IsCutting
  <1>8. S # {} /\ \A x \in S : x \in Int /\ x >= -1
    BY <1>6, <1>7 DEF Shantens
  <1>9. /\ Min(S) \in S /\ Min(S) \in Int /\ Min(S) >= -1
        /\ \A x \in S : Min(S) <= x
    <2> HIDE DEF S
    <2> QED
      BY <1>8, LeastFromMinusOne
  <1>10. ASSUME NEW M \in 0 .. MAX_MELDS, NEW U \in 0 .. MAX_MELDS, NEW P \in 0 .. 1
         PROVE  IsDivided(c, M - m, U, P)
                  <=> \E r \in R : r.melds = M /\ r.taatsu = U /\ r.pair = P
    <2>1. MayReach(s, M, U, P) <=> \E r \in R : MayReach(r, M, U, P)
      BY <1>2, <1>3, <1>4, <1>5, <1>b, LevelsMayReach
    <2>2. MayReach(s, M, U, P) <=> IsDivided(c, M - m, U, P)
      <3>1. U - 0 = U /\ P - 0 = P
        OBVIOUS
      <3> QED
        BY <1>1, <3>1 DEF MayReach
    <2>3. ASSUME NEW r \in R
          PROVE  MayReach(r, M, U, P) <=> r.melds = M /\ r.taatsu = U /\ r.pair = P
      <3> DEFINE x == M - r.melds
                 y == U - r.taatsu
                 z == P - r.pair
      <3>1. x \in Int /\ y \in Int /\ z \in Int
        BY <1>7 DEF MAX_MELDS
      <3>2. /\ x = 0 <=> r.melds = M
            /\ y = 0 <=> r.taatsu = U
            /\ z = 0 <=> r.pair = P
        BY <1>7 DEF MAX_MELDS
      <3>3. MayReach(r, M, U, P) <=> IsDivided(r.tiles, x, y, z)
        BY DEF MayReach
      <3> HIDE DEF x, y, z
      <3>4. IsDivided(r.tiles, x, y, z) <=> x = 0 /\ y = 0 /\ z = 0
        BY <1>7, NoBlocks DEF IsDivided
      <3> QED
        BY <3>2, <3>3, <3>4
    <2> QED
      BY <2>1, <2>2, <2>3
  <1>11. \E M, U, P : Counts(c, m, M, U, P) /\ Min(S) = BlockShanten(M, U, P)
    <2>1. PICK r \in R : Min(S) = BlockShanten(r.melds, r.taatsu, r.pair)
      BY <1>9 DEF Shantens
    <2> QED
      BY <1>7, <1>10, <2>1 DEF Counts
  <1>12. ASSUME NEW M, NEW U, NEW P, Counts(c, m, M, U, P)
         PROVE  Min(S) <= BlockShanten(M, U, P)
    <2>1. PICK r \in R : r.melds = M /\ r.taatsu = U /\ r.pair = P
      BY <1>10, <1>12 DEF Counts
    <2>2. BlockShanten(M, U, P) \in S
      BY <2>1 DEF Shantens
    <2> QED
      BY <1>9, <2>2
  <1> QED
    BY <1>3, <1>9, <1>11, <1>12

-----------------------------------------------------------------------------
(* One tile more or less in a division                                      *)

Lone(t) == [n |-> 1, types |-> {t}, meld |-> 0, taatsu |-> 0, pair |-> 0]

LEMMA AnyBlock ==
  ASSUME NEW i \in Types, NEW b \in Blocks(i), InOneSuit(b.types), b.types \subseteq Types
  PROVE  b \in AllBlocks
  BY DEF AllBlocks, BlocksFrom

LEMMA LoneIsBlock ==
  ASSUME NEW t \in Types
  PROVE  /\ Lone(t) \in AllBlocks /\ Lone(t).n = 1 /\ Lone(t).types = {t}
         /\ Lone(t).meld = 0 /\ Lone(t).taatsu = 0 /\ Lone(t).pair = 0
         /\ \A c \in [Types -> Nat] : c[t] > 0 => Fits(c, Lone(t))
  <1>1. /\ Lone(t).n = 1 /\ Lone(t).types = {t}
        /\ Lone(t).meld = 0 /\ Lone(t).taatsu = 0 /\ Lone(t).pair = 0
    BY DEF Lone
  <1>2. Lone(t) \in Blocks(t)
    BY DEF Lone, Blocks
  <1>3. Lone(t) \in AllBlocks
    BY <1>1, <1>2, AnyBlock DEF InOneSuit
  <1>4. ASSUME NEW c \in [Types -> Nat], c[t] > 0
        PROVE  Fits(c, Lone(t))
    <2>1. c[t] \in Nat
      OBVIOUS
    <2>2. c[t] >= 1
      BY <1>4, <2>1
    <2> QED
      BY <1>1, <1>3, <2>2 DEF Fits
  <1> QED
    BY <1>1, <1>3, <1>4

\* A tile more, by itself.
LEMMA AddLone ==
  ASSUME NEW c, NEW M, NEW U, NEW P, IsDivided(c, M, U, P), NEW t \in Types
  PROVE  IsDivided(AfterDraw(c, t), M, U, P)
  <1> DEFINE h == AfterDraw(c, t)
  <1>1. c \in [Types -> Nat] /\ M \in Nat /\ U \in Nat /\ P \in Nat
    BY DEF IsDivided
  <1>2. h \in [Types -> Nat] /\ h[t] > 0
    <2>1. c[t] \in Nat
      BY <1>1
    <2> QED
      BY <1>1, <2>1 DEF AfterDraw
  <1>3. Fits(h, Lone(t))
    BY <1>2, LoneIsBlock
  <1>4. Without(h, Lone(t)) = c
    <2>1. \A u \in Types : Without(h, Lone(t))[u] = c[u]
      <3>1. \A u \in Types : c[u] \in Nat
        BY <1>1
      <3> QED
        BY <1>1, <3>1, LoneIsBlock DEF Without, Take, AfterDraw
    <2>2. Without(h, Lone(t)) \in [Types -> Nat]
      BY <1>3, FitsType
    <2> QED
      BY <1>1, <2>1, <2>2
  <1> HIDE DEF h
  <1>5. IsDivided(h, M + Lone(t).meld, U + Lone(t).taatsu, P + Lone(t).pair)
    BY <1>3, <1>4, PutBack
  <1>6. M + 0 = M /\ U + 0 = U /\ P + 0 = P
    BY <1>1
  <1> QED
    BY <1>5, <1>6, LoneIsBlock DEF h

\* f is b without one tile t.
IsLess(f, b, t) ==
  /\ f \in AllBlocks /\ b \in AllBlocks /\ t \in b.types
  /\ \A u \in Types : Amount(b, u) = Amount(f, u) + (IF u = t THEN 1 ELSE 0)

LEMMA LessFits ==
  ASSUME NEW h, NEW b, NEW f, NEW t, Fits(h, b), IsLess(f, b, t)
  PROVE  /\ AfterDiscard(h, t) \in [Types -> Nat]
         /\ Fits(AfterDiscard(h, t), f)
         /\ Without(AfterDiscard(h, t), f) = Without(h, b)
  <1> DEFINE c == AfterDiscard(h, t)
  <1>1. /\ h \in [Types -> Nat] /\ b \in AllBlocks /\ f \in AllBlocks /\ t \in b.types
        /\ \A u \in b.types : h[u] >= b.n
    BY DEF Fits, IsLess
  <1>2. /\ b.n \in Nat /\ f.n \in Nat /\ b.n > 0 /\ f.n > 0
        /\ b.types \subseteq Types /\ f.types \subseteq Types
    BY <1>1, AllBlocksType
  <1>3. h[t] > 0 /\ t \in Types /\ h[t] \in Nat
    BY <1>1, <1>2
  <1>4. c \in [Types -> Nat]
    BY <1>1, <1>3, DiscardedType
  <1>5. ASSUME NEW u \in Types
        PROVE  /\ c[u] = h[u] - (IF u = t THEN 1 ELSE 0) /\ h[u] \in Nat
               /\ Amount(b, u) \in Nat /\ Amount(f, u) \in Nat /\ h[u] >= Amount(b, u)
    <2>1. h[u] \in Nat
      BY <1>1
    <2>2. Amount(b, u) \in Nat /\ Amount(f, u) \in Nat
      BY <1>2 DEF Amount
    <2>3. h[u] >= Amount(b, u)
      BY <1>1, <2>1 DEF Amount
    <2> QED
      BY <1>1, <2>1, <2>2, <2>3 DEF AfterDiscard
  <1>6. \A u \in Types : Amount(b, u) = Amount(f, u) + (IF u = t THEN 1 ELSE 0)
    BY DEF IsLess
  <1> HIDE DEF c
  <1>7. \A u \in Types : c[u] >= Amount(f, u) /\ c[u] - Amount(f, u) = h[u] - Amount(b, u)
    BY <1>5, <1>6
  <1>8. \A u \in f.types : c[u] >= f.n
    BY <1>2, <1>7 DEF Amount
  <1>9. Fits(c, f)
    BY <1>1, <1>4, <1>8 DEF Fits
  <1>10. /\ \A u \in Types : Without(c, f)[u] = c[u] - Amount(f, u)
         /\ \A u \in Types : Without(h, b)[u] = h[u] - Amount(b, u)
    BY <1>1, <1>4, <1>5 DEF Without, Take, Amount
  <1>11. Without(c, f) \in [Types -> Nat] /\ Without(h, b) \in [Types -> Nat]
    BY <1>9, FitsType
  <1>12. Without(c, f) = Without(h, b)
    BY <1>7, <1>10, <1>11
  <1> QED
    BY <1>4, <1>9, <1>12 DEF c

\* What is left of a block without one of its tiles.
LEMMA LessExists ==
  ASSUME NEW b \in AllBlocks, ~ IsSingle(b), NEW t \in b.types
  PROVE  \E f : /\ IsLess(f, b, t) /\ f.meld = 0 /\ f.pair = 0 /\ f.taatsu = b.meld
  <1>1. PICK i \in Types : b \in Blocks(i) /\ b \in BlocksFrom[i]
    BY AllBlocksType
  <1>2. b.types \subseteq Types /\ InOneSuit(b.types)
    BY AllBlocksType
  <1>3. i \in Int /\ t \in Types /\ t \in Int
    BY <1>2, TypesType
  <1>4. ASSUME NEW f, f \in AllBlocks,
               \A u \in Types : Amount(b, u) = Amount(f, u) + (IF u = t THEN 1 ELSE 0),
               f.meld = 0, f.pair = 0, f.taatsu = b.meld
        PROVE  \E g : /\ IsLess(g, b, t) /\ g.meld = 0 /\ g.pair = 0 /\ g.taatsu = b.meld
    BY <1>4 DEF IsLess
  <1>5. CASE b = [n |-> 3, types |-> {i}, meld |-> 1, taatsu |-> 0, pair |-> 0]
    <2> DEFINE f == [n |-> 2, types |-> {i}, meld |-> 0, taatsu |-> 1, pair |-> 0]
    <2>1. f \in AllBlocks
      <3>1. f \in Blocks(i) /\ f.types = {i}
        BY DEF Blocks
      <3> HIDE DEF f
      <3> QED
        BY <3>1, AnyBlock DEF InOneSuit
    <2>2. \A u \in Types : Amount(b, u) = Amount(f, u) + (IF u = t THEN 1 ELSE 0)
      BY <1>5 DEF Amount
    <2> QED
      BY <1>4, <1>5, <2>1, <2>2
  <1>6. CASE b = [n |-> 1, types |-> {i, i + 1, i + 2}, meld |-> 1, taatsu |-> 0, pair |-> 0]
    <2>1. i + 1 \in Types /\ i + 2 \in Types /\ b.types = {i, i + 1, i + 2}
      BY <1>2, <1>6
    <2>2. \A x, y \in b.types : Suit(x) = Suit(y) /\ Suit(x) # HONOR
      <3>1. i # i + 1
        BY <1>3
      <3>2. ~ \E x \in b.types : b.types = {x}
        BY <2>1, <3>1
      <3> QED
        BY <1>2, <3>2 DEF InOneSuit
    <2>3. CASE t = i
      <3> DEFINE f == [n |-> 1, types |-> {i + 1, (i + 1) + 1}, meld |-> 0, taatsu |-> 1, pair |-> 0]
      <3>1. (i + 1) + 1 = i + 2
        BY <1>3
      <3>2. f \in AllBlocks
        <4>1. f \in Blocks(i + 1) /\ f.types = {i + 1, i + 2}
          BY <3>1 DEF Blocks
        <4> HIDE DEF f
        <4>2. f.types \subseteq b.types /\ f.types \subseteq Types
          BY <2>1, <4>1
        <4>3. InOneSuit(f.types)
          BY <2>2, <4>2 DEF InOneSuit
        <4> QED
          BY <2>1, <4>1, <4>2, <4>3, AnyBlock
      <3>3. \A u \in Types : Amount(b, u) = Amount(f, u) + (IF u = t THEN 1 ELSE 0)
        BY <1>3, <1>6, <2>3, <3>1 DEF Amount
      <3> QED
        BY <1>4, <1>6, <3>2, <3>3
    <2>4. CASE t = i + 1
      <3> DEFINE f == [n |-> 1, types |-> {i, i + 2}, meld |-> 0, taatsu |-> 1, pair |-> 0]
      <3>2. f \in AllBlocks
        <4>1. f \in Blocks(i) /\ f.types = {i, i + 2}
          BY DEF Blocks
        <4> HIDE DEF f
        <4>2. f.types \subseteq b.types /\ f.types \subseteq Types
          BY <2>1, <4>1
        <4>3. InOneSuit(f.types)
          BY <2>2, <4>2 DEF InOneSuit
        <4> QED
          BY <2>1, <4>1, <4>2, <4>3, AnyBlock
      <3>3. \A u \in Types : Amount(b, u) = Amount(f, u) + (IF u = t THEN 1 ELSE 0)
        BY <1>3, <1>6, <2>4 DEF Amount
      <3> QED
        BY <1>4, <1>6, <3>2, <3>3
    <2>5. CASE t = i + 2
      <3> DEFINE f == [n |-> 1, types |-> {i, i + 1}, meld |-> 0, taatsu |-> 1, pair |-> 0]
      <3>2. f \in AllBlocks
        <4>1. f \in Blocks(i) /\ f.types = {i, i + 1}
          BY DEF Blocks
        <4> HIDE DEF f
        <4>2. f.types \subseteq b.types /\ f.types \subseteq Types
          BY <2>1, <4>1
        <4>3. InOneSuit(f.types)
          BY <2>2, <4>2 DEF InOneSuit
        <4> QED
          BY <2>1, <4>1, <4>2, <4>3, AnyBlock
      <3>3. \A u \in Types : Amount(b, u) = Amount(f, u) + (IF u = t THEN 1 ELSE 0)
        BY <1>3, <1>6, <2>5 DEF Amount
      <3> QED
        BY <1>4, <1>6, <3>2, <3>3
    <2> QED
      BY <2>1, <2>3, <2>4, <2>5
  <1>7. CASE b.n = 2 /\ b.types = {i} /\ b.meld = 0
    <2>1. \A u \in Types : Amount(b, u) = Amount(Lone(i), u) + (IF u = t THEN 1 ELSE 0)
      BY <1>7, LoneIsBlock DEF Amount
    <2> QED
      BY <1>4, <1>7, <2>1, LoneIsBlock
  <1>8. ASSUME NEW j, i # j, b.n = 1, b.types = {i, j}, b.meld = 0
        PROVE  \E g : /\ IsLess(g, b, t) /\ g.meld = 0 /\ g.pair = 0 /\ g.taatsu = b.meld
    <2>1. PICK x \in {i, j} : b.types = {x, t} /\ x # t
      BY <1>8
    <2>2. x \in Types
      BY <1>2, <1>8
    <2>3. \A u \in Types : Amount(b, u) = Amount(Lone(x), u) + (IF u = t THEN 1 ELSE 0)
      BY <1>8, <2>1, <2>2, LoneIsBlock DEF Amount
    <2> QED
      BY <1>4, <1>8, <2>2, <2>3, LoneIsBlock
  <1>9. i # i + 1 /\ i # i + 2
    BY <1>3
  <1> QED
    BY <1>1, <1>5, <1>6, <1>7, <1>8, <1>9 DEF Blocks, IsSingle

\* A tile is taken from a block of the hand.
LEMMA Shrink ==
  ASSUME NEW h, NEW b, Fits(h, b), NEW t \in b.types, NEW M, NEW U, NEW P,
         IsDivided(Without(h, b), M, U, P)
  PROVE  /\ IsDivided(AfterDiscard(h, t), M, U, P)
         /\ IsDivided(AfterDiscard(h, t), M, U + b.meld, P)
  <1>0. h \in [Types -> Nat] /\ b \in AllBlocks /\ M \in Nat /\ U \in Nat /\ P \in Nat
    BY DEF Fits, IsDivided
  <1>1. b.types \subseteq Types /\ b.meld \in Nat /\ t \in Types
    BY <1>0, AllBlocksType
  <1>2. CASE IsSingle(b)
    <2>1. PICK i \in Types : b \in Blocks(i)
      BY <1>0, AllBlocksType
    <2>2. b.n = 1 /\ b.types = {t} /\ b.meld = 0
      BY <1>2, <2>1 DEF Blocks, IsSingle
    <2>3. Without(h, b) = AfterDiscard(h, t)
      BY <1>0, <1>1, <2>2 DEF Without, Take, AfterDiscard
    <2>4. U + 0 = U
      BY <1>0
    <2> QED
      BY <2>2, <2>3, <2>4
  <1>3. ASSUME NEW g, NEW e, NEW u, Fits(g, e), ~ IsSingle(e), u \in e.types,
               IsDivided(Without(g, e), M, U, P)
        PROVE  \E f : /\ Fits(AfterDiscard(g, u), f)
                      /\ f.meld = 0 /\ f.pair = 0 /\ f.taatsu = e.meld
                      /\ Without(AfterDiscard(g, u), f) = Without(g, e)
                      /\ IsDivided(AfterDiscard(g, u), M, U + e.meld, P)
    <2>1. e \in AllBlocks
      BY <1>3 DEF Fits
    <2>2. PICK f : IsLess(f, e, u) /\ f.meld = 0 /\ f.pair = 0 /\ f.taatsu = e.meld
      BY <1>3, <2>1, LessExists
    <2>3. Fits(AfterDiscard(g, u), f) /\ Without(AfterDiscard(g, u), f) = Without(g, e)
      BY <1>3, <2>2, LessFits
    <2>4. IsDivided(AfterDiscard(g, u), M + f.meld, U + f.taatsu, P + f.pair)
      BY <1>3, <2>3, PutBack
    <2>5. M + 0 = M /\ P + 0 = P
      BY <1>0
    <2> QED
      BY <2>2, <2>3, <2>4, <2>5
  <1>4. CASE ~ IsSingle(b)
    <2>1. PICK f : /\ Fits(AfterDiscard(h, t), f)
                   /\ f.meld = 0 /\ f.pair = 0 /\ f.taatsu = b.meld
                   /\ Without(AfterDiscard(h, t), f) = Without(h, b)
                   /\ IsDivided(AfterDiscard(h, t), M, U + b.meld, P)
      BY <1>3, <1>4
    <2>2. CASE b.meld = 0
      <3>1. U + 0 = U
        BY <1>0
      <3> QED
        BY <2>1, <2>2, <3>1
    <2>3. CASE b.meld # 0
      <3> DEFINE c == AfterDiscard(h, t)
      <3>1. ~ IsSingle(f) /\ f \in AllBlocks /\ c \in [Types -> Nat]
        BY <2>1, <2>3 DEF IsSingle, Fits
      <3>2. PICK u \in Types : f \in Blocks(u)
        BY <3>1, AllBlocksType
      <3>3. u \in f.types /\ \A x \in f.types : c[x] >= f.n
        BY <2>1, <3>2, BlockType DEF Fits
      <3>4. c[u] > 0
        <4>1. f.n \in Nat /\ f.n > 0 /\ c[u] \in Nat
          BY <3>1, AllBlocksType
        <4> QED
          BY <3>3, <4>1
      <3> HIDE DEF c
      <3>5. IsDivided(AfterDiscard(c, u), M, U + f.meld, P)
        BY <1>3, <2>1, <3>1, <3>3 DEF c
      <3>6. U + 0 = U
        BY <1>0
      <3>7. IsDivided(AfterDraw(AfterDiscard(c, u), u), M, U, P)
        BY <2>1, <3>5, <3>6, AddLone
      <3>8. AfterDraw(AfterDiscard(c, u), u) = c
        <4>1. \A x \in Types : c[x] \in Nat
          BY <3>1
        <4>2. (c[u] - 1) + 1 = c[u]
          BY <4>1
        <4> QED
          BY <3>1, <4>2 DEF AfterDraw, AfterDiscard
      <3> QED
        BY <2>1, <3>7, <3>8 DEF c
    <2> QED
      BY <2>1, <2>2, <2>3
  <1> QED
    BY <1>2, <1>4

-----------------------------------------------------------------------------
(* A tile changes the standard shanten by one at most                       *)

LEMMA CountsType ==
  ASSUME NEW c, NEW m, IsHand(c, m), NEW M, NEW U, NEW P, Counts(c, m, M, U, P)
  PROVE  /\ c \in [Types -> Nat] /\ m \in 0 .. 4
         /\ M \in 0 .. 4 /\ U \in 0 .. 4 /\ P \in 0 .. 1 /\ M >= m
         /\ IsDivided(c, M - m, U, P)
         /\ BlockShanten(M, U, P) = 8 - 2 * M - (IF U <= 4 - M THEN U ELSE 4 - M) - P
  <1>1. /\ c \in [Types -> Nat] /\ m \in 0 .. 4
        /\ M \in 0 .. 4 /\ U \in 0 .. 4 /\ P \in 0 .. 1 /\ IsDivided(c, M - m, U, P)
    BY DEF IsHand, Counts, MAX_MELDS
  <1>2. BlockShanten(M, U, P) = 8 - 2 * M - (IF U <= 4 - M THEN U ELSE 4 - M) - P
    BY <1>1, BlockShantenIs DEF MAX_MELDS
  <1>3. M - m \in Nat
    BY <1>1 DEF IsDivided
  <1>4. M >= m
    BY <1>1, <1>3
  <1> QED
    BY <1>1, <1>2, <1>4

LEMMA OneKind ==
  ASSUME NEW b \in AllBlocks
  PROVE  /\ b.meld \in 0 .. 1 /\ b.taatsu \in 0 .. 1 /\ b.pair \in 0 .. 1
         /\ b.meld + b.taatsu + b.pair <= 1
  <1>1. PICK i \in Types : b \in Blocks(i)
    BY AllBlocksType
  <1> QED
    BY <1>1 DEF Blocks

LEMMA LosesOne ==
  ASSUME NEW h, NEW m, IsHand(h, m), NEW M, NEW U, NEW P, Counts(h, m, M, U, P),
         NEW t \in Types, h[t] > 0
  PROVE  \E V, W, Q : /\ Counts(AfterDiscard(h, t), m, V, W, Q)
                      /\ BlockShanten(V, W, Q) <= BlockShanten(M, U, P) + 1
  <1> DEFINE c == AfterDiscard(h, t)
  <1>1. /\ h \in [Types -> Nat] /\ m \in 0 .. 4
        /\ M \in 0 .. 4 /\ U \in 0 .. 4 /\ P \in 0 .. 1 /\ M >= m
        /\ IsDivided(h, M - m, U, P)
        /\ BlockShanten(M, U, P) = 8 - 2 * M - (IF U <= 4 - M THEN U ELSE 4 - M) - P
    BY CountsType
  <1>2. PICK b : /\ Fits(h, b) /\ t \in b.types
                 /\ M - m >= b.meld /\ U >= b.taatsu /\ P >= b.pair
                 /\ IsDivided(Without(h, b), (M - m) - b.meld, U - b.taatsu, P - b.pair)
    BY <1>1, CutAt
  <1>3. /\ b.meld \in 0 .. 1 /\ b.taatsu \in 0 .. 1 /\ b.pair \in 0 .. 1
        /\ b.meld + b.taatsu + b.pair <= 1
    BY <1>2, OneKind DEF Fits
  <1>4. /\ IsDivided(c, (M - m) - b.meld, U - b.taatsu, P - b.pair)
        /\ IsDivided(c, (M - m) - b.meld, (U - b.taatsu) + b.meld, P - b.pair)
    BY <1>2, Shrink
  <1> HIDE DEF c
  <1> DEFINE x == b.meld
             y == b.taatsu
             z == b.pair
             V == M - x
             W == IF (U - y) + x <= 4 THEN (U - y) + x ELSE U - y
             Q == P - z
  <1>5. /\ V \in 0 .. 4 /\ W \in 0 .. 4 /\ Q \in 0 .. 1 /\ V - m = (M - m) - x
    <2>1. x \in 0 .. 1 /\ y \in 0 .. 1 /\ z \in 0 .. 1 /\ x + y + z <= 1
          /\ M - m >= x /\ U >= y /\ P >= z
      BY <1>2, <1>3
    <2> HIDE DEF x, y, z
    <2> QED
      BY <1>1, <2>1
  <1>6. IsDivided(c, V - m, W, Q)
    BY <1>4, <1>5
  <1>7. Counts(c, m, V, W, Q)
    BY <1>5, <1>6 DEF Counts, MAX_MELDS
  <1>8. BlockShanten(V, W, Q) = 8 - 2 * V - (IF W <= 4 - V THEN W ELSE 4 - V) - Q
    BY <1>5, BlockShantenIs DEF MAX_MELDS
  <1>9. BlockShanten(V, W, Q) <= BlockShanten(M, U, P) + 1
    <2>1. x \in 0 .. 1 /\ y \in 0 .. 1 /\ z \in 0 .. 1 /\ x + y + z <= 1
          /\ M - m >= x /\ U >= y /\ P >= z
      BY <1>2, <1>3
    <2> HIDE DEF x, y, z
    <2>2. CASE x = 1
      <3>1. y = 0 /\ z = 0 /\ M >= 1
        BY <1>1, <2>1, <2>2
      <3> QED
        BY <1>1, <1>8, <2>2, <3>1
    <2>3. CASE x = 0 /\ y = 1
      <3>1. z = 0
        BY <2>1, <2>3
      <3> QED
        BY <1>1, <1>8, <2>1, <2>3, <3>1
    <2>4. CASE x = 0 /\ y = 0
      BY <1>1, <1>8, <2>1, <2>4
    <2> QED
      BY <2>1, <2>2, <2>3, <2>4
  <1> QED
    BY <1>7, <1>9 DEF c

LEMMA StandardDraw ==
  ASSUME NEW c \in [Types -> Nat], NEW t \in Types, NEW m, IsHand(AfterDraw(c, t), m)
  PROVE  /\ IsHand(c, m)
         /\ StandardShanten(AfterDraw(c, t), m) <= StandardShanten(c, m)
         /\ StandardShanten(c, m) - 1 <= StandardShanten(AfterDraw(c, t), m)
  <1> DEFINE h == AfterDraw(c, t)
             v == StandardShanten(c, m)
             w == StandardShanten(h, m)
  <1>1. h \in [Types -> Nat] /\ Total(h) = Total(c) + 1
    BY DrawnType
  <1>2. Total(c) \in Nat
    BY TypesType, TotalType
  <1>3. h[t] > 0 /\ AfterDiscard(h, t) = c
    <2>1. \A u \in Types : c[u] \in Nat
      OBVIOUS
    <2>2. (c[t] + 1) - 1 = c[t] /\ c[t] + 1 > 0
      BY <2>1
    <2> QED
      BY <2>2 DEF AfterDraw, AfterDiscard
  <1> HIDE DEF h
  <1>4. IsHand(h, m)
    BY DEF h
  <1>5. IsHand(c, m)
    <2>1. m \in 0 .. MAX_MELDS /\ Total(h) + 3 * m <= 14
      BY <1>4 DEF IsHand
    <2>2. Total(c) + 3 * m <= 14
      BY <1>1, <1>2, <2>1 DEF MAX_MELDS
    <2> QED
      BY <2>1, <2>2 DEF IsHand
  <1>6. v \in Int /\ w \in Int
    BY <1>4, <1>5, StandardIsBest
  <1>7. w <= v
    <2>1. PICK M, U, P : Counts(c, m, M, U, P) /\ v = BlockShanten(M, U, P)
      BY <1>5, StandardIsBest
    <2>2. Counts(h, m, M, U, P)
      BY <2>1, AddLone DEF Counts, h
    <2> QED
      BY <1>4, <2>1, <2>2, StandardIsBest
  <1>8. v - 1 <= w
    <2>1. PICK M, U, P : Counts(h, m, M, U, P) /\ w = BlockShanten(M, U, P)
      BY <1>4, StandardIsBest
    <2>2. PICK V, W, Q : /\ Counts(c, m, V, W, Q)
                         /\ BlockShanten(V, W, Q) <= BlockShanten(M, U, P) + 1
      BY <1>3, <1>4, <2>1, LosesOne
    <2>3. v <= BlockShanten(V, W, Q)
      BY <1>5, <2>2, StandardIsBest
    <2>4. BlockShanten(V, W, Q) \in Int
      BY <2>2, BlockShantenIs DEF Counts
    <2> HIDE DEF v, w
    <2> QED
      BY <1>6, <2>1, <2>2, <2>3, <2>4
  <1> QED
    BY <1>5, <1>7, <1>8 DEF h

-----------------------------------------------------------------------------
(* A tile changes the other shantens by one at most                         *)

LEMMA SevenPairsIs ==
  ASSUME NEW c \in [Types -> Nat]
  PROVE  LET p == Cardinality(PairsOf(c))
             d == Cardinality(Held(c))
         IN /\ ChiitoitsuShanten(c, 0) = 6 - p + (IF d <= 7 THEN 7 - d ELSE 0)
            /\ p \in Nat /\ d \in Nat
  <1> DEFINE p == Cardinality(PairsOf(c))
             d == Cardinality(Held(c))
             S == {0, 7 - d}
             x == Max(S)
  <1>1. p \in Nat /\ d \in Nat
    BY PairsCounted
  <1>2. ChiitoitsuShanten(c, 0) = 6 - p + x
    BY DEF ChiitoitsuShanten, PairsOf
  <1> HIDE DEF p, d
  <1>3. x \in S /\ \A y \in S : y <= x
    <2>1. \E z \in S : \A y \in S : z >= y
      <3>1. CASE d <= 7
        BY <1>1, <3>1
      <3>2. CASE ~ (d <= 7)
        BY <1>1, <3>2
      <3> QED
        BY <3>1, <3>2
    <2>2. x \in S /\ \A y \in S : x >= y
      <3> HIDE DEF S
      <3> QED
        BY <2>1 DEF Max
    <2> QED
      BY <1>1, <2>2
  <1>4. x = IF d <= 7 THEN 7 - d ELSE 0
    BY <1>1, <1>3
  <1> QED
    BY <1>1, <1>2, <1>4 DEF p, d

\* The types a draw adds to the hand and to its pairs.
LEMMA DrawnSets ==
  ASSUME NEW c \in [Types -> Nat], NEW t \in Types
  PROVE  /\ Held(AfterDraw(c, t)) = Held(c) \cup {t}
         /\ c[t] = 0 => PairsOf(AfterDraw(c, t)) = PairsOf(c)
         /\ c[t] > 0 => PairsOf(AfterDraw(c, t)) = PairsOf(c) \cup {t}
         /\ t \in Held(c) <=> c[t] > 0
         /\ t \in PairsOf(c) <=> c[t] >= 2
         /\ c[t] \in Nat
  <1> DEFINE h == AfterDraw(c, t)
  <1>1. h \in [Types -> Nat] /\ \A u \in Types : h[u] = IF u = t THEN c[u] + 1 ELSE c[u]
    BY DrawnType DEF AfterDraw
  <1>2. \A u \in Types : c[u] \in Nat
    OBVIOUS
  <1> HIDE DEF h
  <1>3. Held(h) = {u \in Types : h[u] > 0} /\ Held(c) = {u \in Types : c[u] > 0}
    BY <1>1 DEF Held
  <1>4. Held(h) = Held(c) \cup {t}
    BY <1>1, <1>2, <1>3
  <1>5. c[t] = 0 => PairsOf(h) = PairsOf(c)
    BY <1>1, <1>2 DEF PairsOf
  <1>6. c[t] > 0 => PairsOf(h) = PairsOf(c) \cup {t}
    BY <1>1, <1>2 DEF PairsOf
  <1> QED
    BY <1>2, <1>3, <1>4, <1>5, <1>6 DEF h, PairsOf

LEMMA ChiitoitsuDraw ==
  ASSUME NEW c \in [Types -> Nat], NEW t \in Types
  PROVE  /\ ChiitoitsuShanten(c, 0) \in Int /\ ChiitoitsuShanten(AfterDraw(c, t), 0) \in Int
         /\ ChiitoitsuShanten(AfterDraw(c, t), 0) <= ChiitoitsuShanten(c, 0)
         /\ ChiitoitsuShanten(c, 0) - 1 <= ChiitoitsuShanten(AfterDraw(c, t), 0)
         /\ c[t] = 1 /\ Cardinality(Held(c)) >= 7
              => ChiitoitsuShanten(AfterDraw(c, t), 0) = ChiitoitsuShanten(c, 0) - 1
         /\ c[t] = 0 /\ Cardinality(Held(c)) < 7
              => ChiitoitsuShanten(AfterDraw(c, t), 0) = ChiitoitsuShanten(c, 0) - 1
         /\ c[t] >= 2 => ChiitoitsuShanten(AfterDraw(c, t), 0) = ChiitoitsuShanten(c, 0)
         /\ c[t] = 0 /\ Cardinality(Held(c)) >= 7
              => ChiitoitsuShanten(AfterDraw(c, t), 0) = ChiitoitsuShanten(c, 0)
  <1> DEFINE h == AfterDraw(c, t)
             p == Cardinality(PairsOf(c))
             d == Cardinality(Held(c))
             q == Cardinality(PairsOf(h))
             e == Cardinality(Held(h))
             v == ChiitoitsuShanten(c, 0)
             w == ChiitoitsuShanten(h, 0)
  <1>1. h \in [Types -> Nat]
    BY DrawnType
  <1>2. /\ v = 6 - p + (IF d <= 7 THEN 7 - d ELSE 0)
        /\ p \in Nat /\ d \in Nat
    BY SevenPairsIs
  <1>3. /\ w = 6 - q + (IF e <= 7 THEN 7 - e ELSE 0)
        /\ q \in Nat /\ e \in Nat
    <2> HIDE DEF h
    <2> QED
      BY <1>1, SevenPairsIs
  <1>4. /\ Held(h) = Held(c) \cup {t}
        /\ c[t] = 0 => PairsOf(h) = PairsOf(c)
        /\ c[t] > 0 => PairsOf(h) = PairsOf(c) \cup {t}
        /\ t \in Held(c) <=> c[t] > 0
        /\ t \in PairsOf(c) <=> c[t] >= 2
        /\ c[t] \in Nat
    BY DrawnSets
  <1>5. IsFiniteSet(Held(c)) /\ IsFiniteSet(PairsOf(c))
    BY PairsCounted, FS_Subset
  <1> HIDE DEF h
  <1>6. CASE c[t] = 0
    <2>1. q = p
      BY <1>4, <1>6
    <2>2. e = d + 1
      BY <1>2, <1>4, <1>5, <1>6, OneMore
    <2> HIDE DEF p, d, q, e, v, w
    <2> QED
      BY <1>2, <1>3, <1>6, <2>1, <2>2 DEF h, p, d, q, e, v, w
  <1>7. CASE c[t] = 1
    <2>1. q = p + 1
      BY <1>2, <1>4, <1>5, <1>7, OneMore
    <2>2. e = d
      <3>1. Held(h) = Held(c)
        BY <1>4, <1>7
      <3> QED
        BY <3>1
    <2> HIDE DEF p, d, q, e, v, w
    <2> QED
      BY <1>2, <1>3, <1>7, <2>1, <2>2 DEF h, p, d, q, e, v, w
  <1>8. CASE c[t] >= 2
    <2>1. q = p /\ e = d
      <3>1. PairsOf(h) = PairsOf(c) /\ Held(h) = Held(c)
        BY <1>4, <1>8
      <3> QED
        BY <3>1
    <2> HIDE DEF p, d, q, e, v, w
    <2> QED
      BY <1>2, <1>3, <1>4, <1>8, <2>1 DEF h, p, d, q, e, v, w
  <1> QED
    BY <1>4, <1>6, <1>7, <1>8

HeldOrphans(c) == Held(c) \cap Orphans

HasOrphanPair(c) == \E t \in HeldOrphans(c) : c[t] >= 2

LEMMA OrphansCounted ==
  ASSUME NEW c \in [Types -> Nat]
  PROVE  /\ KokushiShanten(c, 0)
              = 13 - Cardinality(HeldOrphans(c)) - (IF HasOrphanPair(c) THEN 1 ELSE 0)
         /\ IsFiniteSet(HeldOrphans(c)) /\ Cardinality(HeldOrphans(c)) \in Nat
         /\ Cardinality(HeldOrphans(c)) <= 13
         /\ Cardinality(HeldOrphans(c)) = 13 => HeldOrphans(c) = Orphans
  <1>1. HeldOrphans(c) \subseteq Orphans
    BY DEF HeldOrphans
  <1>2. IsFiniteSet(HeldOrphans(c)) /\ Cardinality(HeldOrphans(c)) <= 13
        /\ (Cardinality(HeldOrphans(c)) = 13 => HeldOrphans(c) = Orphans)
    BY <1>1, ThirteenOrphans, FS_Subset
  <1>3. KokushiShanten(c, 0)
          = 13 - Cardinality(HeldOrphans(c)) - (IF HasOrphanPair(c) THEN 1 ELSE 0)
    BY DEF KokushiShanten, HeldOrphans, HasOrphanPair
  <1> QED
    BY <1>2, <1>3, FS_CardinalityType

LEMMA KokushiDraw ==
  ASSUME NEW c \in [Types -> Nat], NEW t \in Types
  PROVE  /\ KokushiShanten(c, 0) \in Int /\ KokushiShanten(AfterDraw(c, t), 0) \in Int
         /\ KokushiShanten(AfterDraw(c, t), 0) <= KokushiShanten(c, 0)
         /\ KokushiShanten(c, 0) - 1 <= KokushiShanten(AfterDraw(c, t), 0)
         /\ t \notin Orphans => KokushiShanten(AfterDraw(c, t), 0) = KokushiShanten(c, 0)
         /\ t \in Orphans /\ c[t] = 0
              => KokushiShanten(AfterDraw(c, t), 0) = KokushiShanten(c, 0) - 1
         /\ t \in Orphans /\ c[t] > 0 /\ ~ HasOrphanPair(c)
              => KokushiShanten(AfterDraw(c, t), 0) = KokushiShanten(c, 0) - 1
         /\ t \in Orphans /\ c[t] > 0 /\ HasOrphanPair(c)
              => KokushiShanten(AfterDraw(c, t), 0) = KokushiShanten(c, 0)
  <1> DEFINE h == AfterDraw(c, t)
             k == Cardinality(HeldOrphans(c))
             l == Cardinality(HeldOrphans(h))
             v == KokushiShanten(c, 0)
             w == KokushiShanten(h, 0)
  <1>1. h \in [Types -> Nat] /\ \A u \in Types : h[u] = IF u = t THEN c[u] + 1 ELSE c[u]
    BY DrawnType DEF AfterDraw
  <1>2. /\ v = 13 - k - (IF HasOrphanPair(c) THEN 1 ELSE 0)
        /\ k \in Nat /\ IsFiniteSet(HeldOrphans(c))
    BY OrphansCounted
  <1>3. Held(h) = Held(c) \cup {t} /\ (t \in Held(c) <=> c[t] > 0) /\ c[t] \in Nat
    BY DrawnSets
  <1> HIDE DEF h
  <1>4. /\ w = 13 - l - (IF HasOrphanPair(h) THEN 1 ELSE 0)
        /\ l \in Nat
    BY <1>1, OrphansCounted
  <1>5. Held(c) \subseteq Types /\ \A u \in Types : c[u] \in Nat
    BY DEF Held
  <1>6. CASE t \notin Orphans
    <2>1. HeldOrphans(h) = HeldOrphans(c)
      BY <1>3, <1>6 DEF HeldOrphans
    <2>2. \A u \in HeldOrphans(c) : h[u] = c[u]
      BY <1>1, <1>5, <1>6 DEF HeldOrphans
    <2>3. HasOrphanPair(h) <=> HasOrphanPair(c)
      BY <2>1, <2>2 DEF HasOrphanPair
    <2>4. l = k
      BY <2>1
    <2> HIDE DEF k, l, v, w
    <2> QED
      BY <1>2, <1>4, <1>6, <2>3, <2>4 DEF h, v, w
  <1>7. CASE t \in Orphans /\ c[t] = 0
    <2>1. HeldOrphans(h) = HeldOrphans(c) \cup {t} /\ t \notin HeldOrphans(c)
      BY <1>3, <1>7 DEF HeldOrphans
    <2>2. \A u \in HeldOrphans(c) : h[u] = c[u]
      BY <1>1, <1>5, <2>1 DEF HeldOrphans
    <2>3. ~ (h[t] >= 2)
      BY <1>1, <1>7
    <2>4. HasOrphanPair(h) <=> HasOrphanPair(c)
      BY <2>1, <2>2, <2>3 DEF HasOrphanPair
    <2>5. l = k + 1
      BY <1>2, <2>1, OneMore
    <2> HIDE DEF k, l, v, w
    <2> QED
      BY <1>2, <1>4, <1>7, <2>4, <2>5 DEF h, v, w
  <1>8. CASE t \in Orphans /\ c[t] > 0
    <2>1. HeldOrphans(h) = HeldOrphans(c) /\ t \in HeldOrphans(c)
      BY <1>3, <1>8 DEF HeldOrphans
    <2>2. h[t] >= 2
      BY <1>1, <1>3, <1>8
    <2>3. HasOrphanPair(h)
      BY <2>1, <2>2 DEF HasOrphanPair
    <2>4. l = k
      BY <2>1
    <2> HIDE DEF k, l, v, w
    <2> QED
      BY <1>2, <1>3, <1>4, <1>8, <2>3, <2>4 DEF h, v, w
  <1> QED
    BY <1>3, <1>6, <1>7, <1>8

-----------------------------------------------------------------------------
(* A tile changes the shanten by one at most                                *)

IsRaw(r) ==
  /\ r.standard \in Int /\ r.chiitoitsu \in Int /\ r.kokushi \in Int
  /\ r.standard >= -1 /\ r.chiitoitsu >= -1 /\ r.kokushi >= -1

LEMMA MinimumIs ==
  ASSUME NEW r, IsRaw(r)
  PROVE  /\ Minimum(r) \in Int /\ Minimum(r) >= -1
         /\ Minimum(r) <= r.standard /\ Minimum(r) <= r.chiitoitsu /\ Minimum(r) <= r.kokushi
         /\ \/ Minimum(r) = r.standard
            \/ Minimum(r) = r.chiitoitsu
            \/ Minimum(r) = r.kokushi
  <1> DEFINE S == {r.standard, r.chiitoitsu, r.kokushi}
  <1>1. S # {} /\ \A x \in S : x \in Int /\ x >= -1
    BY DEF IsRaw
  <1>2. Minimum(r) = Min(S)
    BY DEF Minimum
  <1>3. Min(S) \in S /\ Min(S) \in Int /\ \A x \in S : Min(S) <= x
    <2> HIDE DEF S
    <2> QED
      BY <1>1, LeastFromMinusOne
  <1>4. Min(S) >= -1
    BY <1>1, <1>3
  <1> QED
    BY <1>2, <1>3, <1>4

\* r is no worse than q, by one at most.
IsNear(r, q) ==
  /\ r.standard <= q.standard /\ q.standard - 1 <= r.standard
  /\ r.chiitoitsu <= q.chiitoitsu /\ q.chiitoitsu - 1 <= r.chiitoitsu
  /\ r.kokushi <= q.kokushi /\ q.kokushi - 1 <= r.kokushi

LEMMA MinimumNear ==
  ASSUME NEW r, NEW q, IsRaw(r), IsRaw(q), IsNear(r, q)
  PROVE  Minimum(r) <= Minimum(q) /\ Minimum(q) - 1 <= Minimum(r)
  <1> DEFINE x == Minimum(r)
             y == Minimum(q)
  <1>1. /\ x \in Int /\ x <= r.standard /\ x <= r.chiitoitsu /\ x <= r.kokushi
        /\ x = r.standard \/ x = r.chiitoitsu \/ x = r.kokushi
    BY MinimumIs
  <1>2. /\ y \in Int /\ y <= q.standard /\ y <= q.chiitoitsu /\ y <= q.kokushi
        /\ y = q.standard \/ y = q.chiitoitsu \/ y = q.kokushi
    BY MinimumIs
  <1> HIDE DEF x, y
  <1>3. x <= y
    BY <1>1, <1>2 DEF IsRaw, IsNear
  <1>4. y - 1 <= x
    BY <1>1, <1>2 DEF IsRaw, IsNear
  <1> QED
    BY <1>3, <1>4 DEF x, y

LEMMA RawType ==
  ASSUME NEW c, NEW m, IsHand(c, m)
  PROVE  IsRaw(Raw(c, m))
  <1>0. c \in [Types -> Nat] /\ m \in 0 .. MAX_MELDS /\ Total(c) + 3 * m <= 14
    BY DEF IsHand
  <1>1. StandardShanten(c, m) \in Int /\ StandardShanten(c, m) >= -1
    BY StandardIsBest
  <1>2. /\ ChiitoitsuShanten(c, m) \in Int /\ ChiitoitsuShanten(c, m) >= -1
        /\ KokushiShanten(c, m) \in Int /\ KokushiShanten(c, m) >= -1
    <2>1. CASE m = 0
      <3> DEFINE p == Cardinality(PairsOf(c))
                 d == Cardinality(Held(c))
                 k == Cardinality(HeldOrphans(c))
      <3>1. /\ ChiitoitsuShanten(c, 0) = 6 - p + (IF d <= 7 THEN 7 - d ELSE 0)
            /\ p \in Nat /\ d \in Nat
        BY <1>0, SevenPairsIs
      <3>2. p <= d /\ p + d <= Total(c)
        BY <1>0, PairsCounted
      <3>3. Total(c) \in Nat
        BY <1>0, TypesType, TotalType
      <3>4. /\ KokushiShanten(c, 0) = 13 - k - (IF HasOrphanPair(c) THEN 1 ELSE 0)
            /\ k \in Nat /\ k <= 13
        BY <1>0, OrphansCounted
      <3> HIDE DEF p, d, k
      <3>5. p + p <= 14
        BY <1>0, <2>1, <3>1, <3>2, <3>3
      <3>6. ChiitoitsuShanten(c, 0) \in Int /\ ChiitoitsuShanten(c, 0) >= -1
        BY <3>1, <3>5
      <3>7. KokushiShanten(c, 0) \in Int /\ KokushiShanten(c, 0) >= -1
        BY <3>4
      <3> QED
        BY <2>1, <3>6, <3>7
    <2>2. CASE m # 0
      BY <2>2 DEF ChiitoitsuShanten, KokushiShanten, NOT_APPLICABLE
    <2> QED
      BY <2>1, <2>2
  <1> QED
    BY <1>1, <1>2 DEF IsRaw, Raw

LEMMA RawDraw ==
  ASSUME NEW c \in [Types -> Nat], NEW t \in Types, NEW m, IsHand(AfterDraw(c, t), m)
  PROVE  /\ IsHand(c, m) /\ IsRaw(Raw(c, m)) /\ IsRaw(Raw(AfterDraw(c, t), m))
         /\ Minimum(Raw(AfterDraw(c, t), m)) <= Minimum(Raw(c, m))
         /\ Minimum(Raw(c, m)) - 1 <= Minimum(Raw(AfterDraw(c, t), m))
  <1> DEFINE h == AfterDraw(c, t)
             r == Raw(h, m)
             q == Raw(c, m)
  <1>1. /\ IsHand(c, m)
        /\ StandardShanten(h, m) <= StandardShanten(c, m)
        /\ StandardShanten(c, m) - 1 <= StandardShanten(h, m)
    BY StandardDraw
  <1>2. IsRaw(q) /\ IsRaw(r)
    BY <1>1, RawType
  <1>3. /\ ChiitoitsuShanten(h, m) <= ChiitoitsuShanten(c, m)
        /\ ChiitoitsuShanten(c, m) - 1 <= ChiitoitsuShanten(h, m)
        /\ KokushiShanten(h, m) <= KokushiShanten(c, m)
        /\ KokushiShanten(c, m) - 1 <= KokushiShanten(h, m)
    <2>1. CASE m = 0
      BY <2>1, ChiitoitsuDraw, KokushiDraw
    <2>2. CASE m # 0
      BY <2>2 DEF ChiitoitsuShanten, KokushiShanten, NOT_APPLICABLE
    <2> QED
      BY <2>1, <2>2
  <1>4. IsNear(r, q)
    BY <1>1, <1>3 DEF IsNear, Raw
  <1> HIDE DEF r, q
  <1>5. Minimum(r) <= Minimum(q) /\ Minimum(q) - 1 <= Minimum(r)
    BY <1>2, <1>4, MinimumNear
  <1> QED
    BY <1>1, <1>2, <1>5 DEF r, q, h

-----------------------------------------------------------------------------
(* A hand that owes a discard                                               *)

LEMMA TakeMinimumIs ==
  ASSUME NEW S, S # {}, \A r \in S : IsRaw(r)
  PROVE  /\ Minimum(TakeMinimum(S)) \in Int
         /\ \A r \in S : Minimum(TakeMinimum(S)) <= Minimum(r)
         /\ \E r \in S : Minimum(TakeMinimum(S)) = Minimum(r)
  <1> DEFINE A == {r.standard : r \in S}
             B == {r.chiitoitsu : r \in S}
             C == {r.kokushi : r \in S}
             q == TakeMinimum(S)
  <1>1. /\ A # {} /\ \A x \in A : x \in Int /\ x >= -1
        /\ B # {} /\ \A x \in B : x \in Int /\ x >= -1
        /\ C # {} /\ \A x \in C : x \in Int /\ x >= -1
    BY DEF IsRaw
  <1>2. q.standard = Min(A) /\ q.chiitoitsu = Min(B) /\ q.kokushi = Min(C)
    BY DEF TakeMinimum
  <1>3. q.standard \in A /\ q.standard \in Int /\ \A x \in A : q.standard <= x
    <2> HIDE DEF A, q
    <2> QED
      BY <1>1, <1>2, LeastFromMinusOne
  <1>4. q.chiitoitsu \in B /\ q.chiitoitsu \in Int /\ \A x \in B : q.chiitoitsu <= x
    <2> HIDE DEF B, q
    <2> QED
      BY <1>1, <1>2, LeastFromMinusOne
  <1>5. q.kokushi \in C /\ q.kokushi \in Int /\ \A x \in C : q.kokushi <= x
    <2> HIDE DEF C, q
    <2> QED
      BY <1>1, <1>2, LeastFromMinusOne
  <1>6. IsRaw(q)
    BY <1>1, <1>3, <1>4, <1>5 DEF IsRaw
  <1> HIDE DEF q
  <1>7. /\ Minimum(q) \in Int
        /\ Minimum(q) <= q.standard /\ Minimum(q) <= q.chiitoitsu /\ Minimum(q) <= q.kokushi
        /\ \/ Minimum(q) = q.standard
           \/ Minimum(q) = q.chiitoitsu
           \/ Minimum(q) = q.kokushi
    BY <1>6, MinimumIs
  <1>8. ASSUME NEW r \in S
        PROVE  /\ Minimum(q) <= Minimum(r) /\ Minimum(r) \in Int
               /\ Minimum(r) <= r.standard /\ Minimum(r) <= r.chiitoitsu
               /\ Minimum(r) <= r.kokushi
    <2>1. IsRaw(r)
      OBVIOUS
    <2>2. /\ Minimum(r) \in Int
          /\ Minimum(r) <= r.standard /\ Minimum(r) <= r.chiitoitsu /\ Minimum(r) <= r.kokushi
          /\ \/ Minimum(r) = r.standard
             \/ Minimum(r) = r.chiitoitsu
             \/ Minimum(r) = r.kokushi
      BY <2>1, MinimumIs
    <2>3. q.standard <= r.standard /\ q.chiitoitsu <= r.chiitoitsu /\ q.kokushi <= r.kokushi
      BY <1>3, <1>4, <1>5
    <2>4. q.standard \in Int /\ q.chiitoitsu \in Int /\ q.kokushi \in Int
          /\ r.standard \in Int /\ r.chiitoitsu \in Int /\ r.kokushi \in Int
      BY <1>3, <1>4, <1>5, <2>1 DEF IsRaw
    <2> QED
      BY <1>7, <2>2, <2>3, <2>4
  <1>9. ASSUME NEW r \in S, \/ Minimum(q) = r.standard
                            \/ Minimum(q) = r.chiitoitsu
                            \/ Minimum(q) = r.kokushi
        PROVE  Minimum(q) = Minimum(r)
    BY <1>7, <1>8, <1>9
  <1>10. \E r \in S : \/ Minimum(q) = r.standard
                      \/ Minimum(q) = r.chiitoitsu
                      \/ Minimum(q) = r.kokushi
    BY <1>3, <1>4, <1>5, <1>7
  <1> QED
    BY <1>7, <1>8, <1>9, <1>10 DEF q

\* c is a hand of which a discard is owed.
Owes(c, m) ==
  /\ c \in [Types -> Nat] /\ m \in 0 .. MAX_MELDS /\ Total(c) = AfterDiscardTotal(m) + 1

LEMMA OwingHand ==
  ASSUME NEW h, NEW m, Owes(h, m)
  PROVE  /\ h \in [Types -> Nat] /\ IsHand(h, m) /\ Held(h) # {} /\ Held(h) \subseteq Types
         /\ \A t \in Held(h) :
              /\ AfterDiscard(h, t) \in [Types -> Nat]
              /\ AfterDraw(AfterDiscard(h, t), t) = h
              /\ Total(AfterDiscard(h, t)) = AfterDiscardTotal(m)
         /\ Shanten(h, m) = TakeMinimum({Raw(AfterDiscard(h, t), m) : t \in Held(h)})
  <1>1. h \in [Types -> Nat] /\ m \in 0 .. 4 /\ Total(h) = AfterDiscardTotal(m) + 1
    BY DEF Owes, MAX_MELDS
  <1>2. AfterDiscardTotal(m) = 3 * (4 - m) + 1 /\ AfterDiscardTotal(m) \in Nat
    BY <1>1 DEF AfterDiscardTotal, MAX_MELDS
  <1>3. IsHand(h, m)
    BY <1>1, <1>2 DEF IsHand, MAX_MELDS
  <1>4. Held(h) \subseteq Types /\ \A t \in Held(h) : h[t] > 0
    BY <1>1 DEF Held
  <1>5. Held(h) # {}
    <2>1. Held(h) = {} => Total(h) = 0
      BY <1>1, TypesType, TotalType
    <2> QED
      BY <1>1, <1>2, <2>1
  <1>6. ASSUME NEW t \in Held(h)
        PROVE  /\ AfterDiscard(h, t) \in [Types -> Nat]
               /\ AfterDraw(AfterDiscard(h, t), t) = h
               /\ Total(AfterDiscard(h, t)) = AfterDiscardTotal(m)
    <2>1. t \in Types /\ h[t] > 0 /\ h[t] \in Nat
      BY <1>1, <1>4
    <2>2. AfterDiscard(h, t) \in [Types -> Nat] /\ Total(AfterDiscard(h, t)) = Total(h) - 1
      BY <1>1, <2>1, DiscardedType
    <2>3. (h[t] - 1) + 1 = h[t]
      BY <2>1
    <2>4. AfterDraw(AfterDiscard(h, t), t) = h
      BY <1>1, <2>1, <2>3 DEF AfterDraw, AfterDiscard
    <2>5. Total(AfterDiscard(h, t)) = AfterDiscardTotal(m)
      BY <1>1, <1>2, <2>2
    <2> QED
      BY <2>2, <2>4, <2>5
  <1>7. Total(h) # AfterDiscardTotal(m)
    BY <1>1, <1>2
  <1> QED
    BY <1>1, <1>3, <1>4, <1>5, <1>6, <1>7 DEF Shanten

LEMMA OwingShanten ==
  ASSUME NEW h, NEW m, Owes(h, m)
  PROVE  /\ Minimum(Shanten(h, m)) \in Int /\ Minimum(Raw(h, m)) \in Int
         /\ \A t \in Held(h) :
              /\ Minimum(Raw(AfterDiscard(h, t), m)) \in Int
              /\ Minimum(Shanten(h, m)) <= Minimum(Raw(AfterDiscard(h, t), m))
              /\ Minimum(Raw(h, m)) <= Minimum(Raw(AfterDiscard(h, t), m))
              /\ Minimum(Raw(AfterDiscard(h, t), m)) - 1 <= Minimum(Raw(h, m))
         /\ \E t \in Held(h) :
              Minimum(Shanten(h, m)) = Minimum(Raw(AfterDiscard(h, t), m))
  <1> DEFINE S == {Raw(AfterDiscard(h, t), m) : t \in Held(h)}
  <1>1. /\ IsHand(h, m) /\ Held(h) # {} /\ Held(h) \subseteq Types
        /\ Shanten(h, m) = TakeMinimum(S)
        /\ \A t \in Held(h) : /\ AfterDiscard(h, t) \in [Types -> Nat]
                              /\ AfterDraw(AfterDiscard(h, t), t) = h
    <2>1. IsHand(h, m) /\ Held(h) # {} /\ Held(h) \subseteq Types
      BY OwingHand
    <2>2. Shanten(h, m) = TakeMinimum(S)
      BY OwingHand
    <2>3. ASSUME NEW t \in Held(h)
          PROVE  AfterDiscard(h, t) \in [Types -> Nat] /\ AfterDraw(AfterDiscard(h, t), t) = h
      BY OwingHand
    <2> QED
      BY <2>1, <2>2, <2>3
  <1>2. ASSUME NEW t \in Held(h)
        PROVE  /\ IsRaw(Raw(AfterDiscard(h, t), m)) /\ IsRaw(Raw(h, m))
               /\ Minimum(Raw(h, m)) <= Minimum(Raw(AfterDiscard(h, t), m))
               /\ Minimum(Raw(AfterDiscard(h, t), m)) - 1 <= Minimum(Raw(h, m))
    <2> DEFINE c == AfterDiscard(h, t)
    <2>1. c \in [Types -> Nat] /\ t \in Types /\ AfterDraw(c, t) = h
      BY <1>1
    <2> HIDE DEF c
    <2>2. IsHand(AfterDraw(c, t), m)
      BY <1>1, <2>1
    <2>3. /\ IsRaw(Raw(c, m)) /\ IsRaw(Raw(AfterDraw(c, t), m))
          /\ Minimum(Raw(AfterDraw(c, t), m)) <= Minimum(Raw(c, m))
          /\ Minimum(Raw(c, m)) - 1 <= Minimum(Raw(AfterDraw(c, t), m))
      BY <2>1, <2>2, RawDraw
    <2> QED
      BY <2>1, <2>3 DEF c
  <1>3. S # {} /\ \A r \in S : IsRaw(r)
    BY <1>1, <1>2
  <1>4. /\ Minimum(TakeMinimum(S)) \in Int
        /\ \A r \in S : Minimum(TakeMinimum(S)) <= Minimum(r)
        /\ \E r \in S : Minimum(TakeMinimum(S)) = Minimum(r)
    <2> HIDE DEF S
    <2> QED
      BY <1>3, TakeMinimumIs
  <1>5. Minimum(Raw(h, m)) \in Int
    BY <1>1, RawType, MinimumIs
  <1> QED
    BY <1>1, <1>2, <1>4, <1>5, MinimumIs

-----------------------------------------------------------------------------
(* Shanten along a hand                                                     *)

\* The shanten told is that of the hand.
Told == shanten = Shanten(hand, melds)

LEMMA ToldStep == HandInv /\ HandInv' /\ Told /\ [Next]_vars => Told'
  <1> SUFFICES ASSUME HandInv, HandInv', Told, [Next]_vars
               PROVE  Told'
    OBVIOUS
  <1>1. ASSUME NEW type \in Draws, Draw(type) \/ Pon(type)
        PROVE  Told'
    BY <1>1 DEF Draw, Pon, Told
  <1>2. ASSUME NEW type \in Types, Discard(type)
        PROVE  Told'
    <2>1. /\ hand' = AfterDiscard(hand, type) /\ melds' = melds /\ OwesDiscard
          /\ hand[type] > 0 /\ shanten' = Raw(AfterDiscard(hand, type), melds)
      BY <1>2 DEF Discard, ShantenAfterDiscard
    <2>2. Owes(hand, melds) /\ type \in Held(hand)
      BY <2>1 DEF HandInv, OwesDiscard, Owes, Held
    <2>3. Total(hand') = AfterDiscardTotal(melds)
      BY <2>1, <2>2, OwingHand
    <2>4. Shanten(hand', melds) = Raw(hand', melds)
      BY <2>3 DEF Shanten
    <2> QED
      BY <2>1, <2>4 DEF Told
  <1>3. ASSUME NEW type \in Types, Ankan(type)
        PROVE  Told'
    BY <1>3 DEF Ankan, Told
  <1>4. CASE UNCHANGED vars
    BY <1>4 DEF vars, Told
  <1> QED
    BY <1>1, <1>2, <1>3, <1>4 DEF Next

LEMMA ToldHolds == Spec => [](HandInv /\ Told)
  <1>1. Init => Told
    BY DEF Init, Told
  <1> QED
    BY <1>1, HandInvInit, HandInvStep, ToldStep, PTL DEF Spec

LEMMA OneTileStep ==
  HandInv /\ Told /\ [Next]_vars =>
    [melds' = melds =>
        Minimum(shanten') - Minimum(shanten)
          \in IF OwesDiscard THEN {0, 1} ELSE {-1, 0}]_vars
  <1> SUFFICES ASSUME HandInv, Told, Next, melds' = melds
               PROVE  Minimum(shanten') - Minimum(shanten)
                        \in IF OwesDiscard THEN {0, 1} ELSE {-1, 0}
    OBVIOUS
  <1>0. hand \in [Types -> Nat] /\ melds \in 0 .. MAX_MELDS /\ melds \in Int
    BY DEF HandInv, MAX_MELDS
  <1>1. ASSUME NEW type \in Draws, Draw(type)
        PROVE  Minimum(shanten') - Minimum(shanten)
                 \in IF OwesDiscard THEN {0, 1} ELSE {-1, 0}
    <2> DEFINE h == AfterDraw(hand, type)
    <2>1. type \in Types
      BY DrawsAssumption
    <2>2. shanten' = Shanten(h, melds) /\ ~ OwesDiscard
      BY <1>1 DEF Draw
    <2>3. Total(hand) = AfterDiscardTotal(melds)
      BY <2>2 DEF HandInv, OwesDiscard
    <2>4. h \in [Types -> Nat] /\ Total(h) = Total(hand) + 1
      BY <1>0, <2>1, DrawnType
    <2>5. shanten = Raw(hand, melds)
      BY <2>3 DEF Told, Shanten
    <2>6. type \in Held(h) /\ AfterDiscard(h, type) = hand
      <3>1. hand[type] \in Nat
        BY <1>0, <2>1
      <3>2. (hand[type] + 1) - 1 = hand[type] /\ hand[type] + 1 > 0
        BY <3>1
      <3> QED
        BY <1>0, <2>1, <3>2 DEF AfterDraw, AfterDiscard, Held
    <2> HIDE DEF h
    <2>7. Owes(h, melds)
      BY <1>0, <2>3, <2>4 DEF Owes
    <2> DEFINE x == Minimum(Shanten(h, melds))
               y == Minimum(Raw(h, melds))
               z == Minimum(Raw(hand, melds))
    <2>8. /\ x \in Int /\ y \in Int /\ z \in Int /\ x <= z /\ z - 1 <= y
      BY <2>6, <2>7, OwingShanten
    <2>9. y <= x
      <3>1. PICK t \in Held(h) : x = Minimum(Raw(AfterDiscard(h, t), melds))
        BY <2>7, OwingShanten
      <3> QED
        BY <2>7, <3>1, OwingShanten
    <2>10. x - z \in {-1, 0}
      <3> HIDE DEF x, y, z
      <3> QED
        BY <2>8, <2>9
    <2> QED
      BY <2>2, <2>5, <2>10
  <1>2. ASSUME NEW type \in Types, Discard(type)
        PROVE  Minimum(shanten') - Minimum(shanten)
                 \in IF OwesDiscard THEN {0, 1} ELSE {-1, 0}
    <2>1. /\ OwesDiscard /\ hand[type] > 0 /\ shanten' = Raw(AfterDiscard(hand, type), melds)
      BY <1>2 DEF Discard, ShantenAfterDiscard
    <2>2. Owes(hand, melds) /\ type \in Held(hand)
      BY <1>0, <2>1 DEF OwesDiscard, Owes, Held
    <2> DEFINE x == Minimum(Raw(AfterDiscard(hand, type), melds))
               y == Minimum(Raw(hand, melds))
               z == Minimum(Shanten(hand, melds))
    <2>3. x \in Int /\ y \in Int /\ z \in Int /\ z <= x /\ x - 1 <= y
      BY <2>2, OwingShanten
    <2>4. y <= z
      <3>1. PICK t \in Held(hand) : z = Minimum(Raw(AfterDiscard(hand, t), melds))
        BY <2>2, OwingShanten
      <3> QED
        BY <2>2, <3>1, OwingShanten
    <2>5. x - z \in {0, 1}
      <3> HIDE DEF x, y, z
      <3> QED
        BY <2>3, <2>4
    <2> QED
      BY <2>1, <2>5 DEF Told
  <1>3. ASSUME NEW type, Pon(type) \/ Ankan(type)
        PROVE  FALSE
    <2>1. melds' = melds + 1
      BY <1>3 DEF Pon, Ankan
    <2> QED
      BY <1>0, <2>1
  <1> QED
    BY <1>1, <1>2, <1>3 DEF Next

\* A draw improves a hand by at most one and never worsens it, and a discard
\* leaves it no better than promised nor more than one worse
\* (hand_analysis.c:262): for every hand of any tile types.
THEOREM OneTileAlwaysOneStep == Spec => OneTileIsOneStep
  BY ToldHolds, OneTileStep, PTL DEF Spec, OneTileIsOneStep

-----------------------------------------------------------------------------
(* Some draw brings the standard shanten down                               *)

LEMMA WithoutLone ==
  ASSUME NEW c \in [Types -> Nat], NEW x \in Types
  PROVE  Without(c, Lone(x)) = AfterDiscard(c, x)
  BY LoneIsBlock DEF Without, Take, AfterDiscard

\* The blocks of a division weigh no more than the hand, and what they leave
\* over is a tile by itself.
HasLone(c, M, U, P) ==
  /\ Total(c) >= 3 * M + 2 * U + 2 * P
  /\ Total(c) > 3 * M + 2 * U + 2 * P =>
       \E x \in Types : /\ Fits(c, Lone(x))
                        /\ IsDivided(Without(c, Lone(x)), M, U, P)

LEMMA LoneAt ==
  ASSUME NEW c, NEW b, Fits(c, b), NEW M, NEW U, NEW P,
         IsDivided(Without(c, b), M, U, P), HasLone(Without(c, b), M, U, P)
  PROVE  HasLone(c, M + b.meld, U + b.taatsu, P + b.pair)
  <1> DEFINE e == Without(c, b)
  <1>1. M \in Nat /\ U \in Nat /\ P \in Nat
    BY DEF IsDivided
  <1>2. /\ Total(e) = Total(c) - (IF IsSingle(b) THEN 1 ELSE Size(b))
        /\ Total(c) \in Nat /\ Total(e) \in Nat
        /\ b.meld \in 0 .. 1 /\ b.taatsu \in 0 .. 1 /\ b.pair \in 0 .. 1
    BY FitsType
  <1>3. b \in AllBlocks /\ c \in [Types -> Nat]
    BY DEF Fits
  <1> DEFINE w == 3 * M + 2 * U + 2 * P
             z == 3 * (M + b.meld) + 2 * (U + b.taatsu) + 2 * (P + b.pair)
  <1>4. z = w + Size(b) /\ z \in Nat /\ w \in Nat /\ Size(b) \in Nat
    <2> DEFINE x == b.meld
               y == b.taatsu
               p == b.pair
    <2>1. x \in Nat /\ y \in Nat /\ p \in Nat
      BY <1>2
    <2>2. Size(b) = 3 * x + 2 * y + 2 * p
      BY DEF Size
    <2> HIDE DEF x, y, p
    <2>3. /\ 3 * (M + x) = 3 * M + 3 * x /\ 2 * (U + y) = 2 * U + 2 * y
          /\ 2 * (P + p) = 2 * P + 2 * p
      BY <1>1, <2>1
    <2>4. 3 * M \in Nat /\ 3 * x \in Nat /\ 2 * U \in Nat /\ 2 * y \in Nat
          /\ 2 * P \in Nat /\ 2 * p \in Nat
      BY <1>1, <2>1
    <2> QED
      BY <2>2, <2>3, <2>4 DEF x, y, p
  <1>5. Total(e) >= w
    BY DEF HasLone
  <1>6. IsSingle(b) => Size(b) = 0
    BY DEF IsSingle, Size
  <1> HIDE DEF e
  <1>7. Total(c) >= z
    <2> HIDE DEF w, z
    <2> QED
      BY <1>2, <1>4, <1>5, <1>6
  <1>8. ASSUME Total(c) > z
        PROVE  \E x \in Types :
                 /\ Fits(c, Lone(x))
                 /\ IsDivided(Without(c, Lone(x)), M + b.meld, U + b.taatsu, P + b.pair)
    <2>1. CASE IsSingle(b)
      <3>1. PICK i \in Types : b \in Blocks(i)
        BY <1>3, AllBlocksType
      <3>2. b = Lone(i)
        BY <2>1, <3>1 DEF Blocks, IsSingle, Lone
      <3>3. M + 0 = M /\ U + 0 = U /\ P + 0 = P
        BY <1>1
      <3>4. b.meld = 0 /\ b.taatsu = 0 /\ b.pair = 0
        BY <2>1 DEF IsSingle
      <3> QED
        BY <3>1, <3>2, <3>3, <3>4
    <2>2. CASE ~ IsSingle(b)
      <3>1. Total(e) > w
        <4> HIDE DEF w, z
        <4> QED
          BY <1>2, <1>4, <1>8, <2>2
      <3>2. PICK x \in Types : Fits(e, Lone(x)) /\ IsDivided(Without(e, Lone(x)), M, U, P)
        BY <3>1 DEF HasLone, e
      <3>3. /\ Fits(c, Lone(x)) /\ Fits(Without(c, Lone(x)), b)
            /\ Without(e, Lone(x)) = Without(Without(c, Lone(x)), b)
        BY <3>2, FitsTwice DEF e
      <3>4. IsDivided(Without(c, Lone(x)), M + b.meld, U + b.taatsu, P + b.pair)
        BY <3>2, <3>3, PutBack
      <3> QED
        BY <3>3, <3>4
    <2> QED
      BY <2>1, <2>2
  <1> QED
    BY <1>7, <1>8 DEF HasLone

LEMMA LonesExist ==
  ASSUME NEW c, NEW M, NEW U, NEW P, IsDivided(c, M, U, P)
  PROVE  HasLone(c, M, U, P)
  <1> DEFINE T == {n \in Nat : \E d, A, B, C : /\ IsDivided(d, A, B, C) /\ Total(d) = n
                                               /\ ~ HasLone(d, A, B, C)}
  <1>1. \A d, A, B, C : IsDivided(d, A, B, C) => d \in [Types -> Nat] /\ Total(d) \in Nat
    BY TypesType, TotalType DEF IsDivided
  <1>2. SUFFICES ASSUME T # {}
                 PROVE  FALSE
    BY <1>1
  <1>3. PICK n \in T : \A x \in T : n <= x
    <2>1. T \in SUBSET Nat
      OBVIOUS
    <2> HIDE DEF T
    <2> QED
      BY <1>2, <2>1, LeastNumber
  <1>4. PICK d, A, B, C : IsDivided(d, A, B, C) /\ Total(d) = n /\ ~ HasLone(d, A, B, C)
    BY <1>3
  <1>5. A \in Nat /\ B \in Nat /\ C \in Nat /\ d \in [Types -> Nat] /\ Total(d) \in Nat
    BY <1>1, <1>4 DEF IsDivided
  <1>6. CASE Held(d) = {}
    <2>1. A = 0 /\ B = 0 /\ C = 0
      BY <1>4, <1>5, <1>6, NoBlocks DEF IsDivided
    <2>2. Total(d) = 0
      BY <1>5, <1>6, TypesType, TotalType
    <2>3. 3 * A + 2 * B + 2 * C = 0
      BY <2>1
    <2>4. HasLone(d, A, B, C)
      BY <2>2, <2>3 DEF HasLone
    <2> QED
      BY <1>4, <2>4
  <1>7. CASE Held(d) # {}
    <2>1. PICK t \in Types : d[t] > 0
      BY <1>5, <1>7 DEF Held
    <2>2. PICK b : /\ Fits(d, b) /\ A >= b.meld /\ B >= b.taatsu /\ C >= b.pair
                   /\ IsDivided(Without(d, b), A - b.meld, B - b.taatsu, C - b.pair)
      BY <1>4, <2>1, CutAt
    <2>3. /\ Total(Without(d, b)) < Total(d) /\ Total(Without(d, b)) \in Nat
          /\ b.meld \in Int /\ b.taatsu \in Int /\ b.pair \in Int
      BY <2>2, FitsType
    <2>4. HasLone(Without(d, b), A - b.meld, B - b.taatsu, C - b.pair)
      <3>1. ~ (n <= Total(Without(d, b)))
        BY <1>4, <1>5, <2>3
      <3>2. Total(Without(d, b)) \notin T
        BY <1>3, <3>1
      <3> QED
        BY <2>2, <2>3, <3>2
    <2>5. HasLone(d, (A - b.meld) + b.meld, (B - b.taatsu) + b.taatsu, (C - b.pair) + b.pair)
      BY <2>2, <2>4, LoneAt
    <2>6. /\ (A - b.meld) + b.meld = A /\ (B - b.taatsu) + b.taatsu = B
          /\ (C - b.pair) + b.pair = C
      BY <1>5, <2>3
    <2> QED
      BY <1>4, <2>5, <2>6
  <1> QED
    BY <1>6, <1>7

\* A division with taatsu has one to take.
LEMMA TaatsuExists ==
  ASSUME NEW c, NEW M, NEW U, NEW P, IsDivided(c, M, U, P), U > 0
  PROVE  \E b : /\ Fits(c, b) /\ b.meld = 0 /\ b.taatsu = 1 /\ b.pair = 0
                /\ IsDivided(Without(c, b), M, U - 1, P)
  <1>0. c \in [Types -> Nat] /\ M \in Nat /\ U \in Nat /\ P \in Nat /\ Parts(c, M, U, P)
    BY DEF IsDivided
  <1>1. PICK J : IsFiniteSet(J) /\ \E B \in [J -> AllBlocks] : Gives(B, c, M, U, P)
    BY <1>0 DEF Parts
  <1>2. PICK B \in [J -> AllBlocks] : Gives(B, c, M, U, P)
    BY <1>1
  <1> DEFINE f == [j \in J |-> B[j].taatsu]
  <1>3. f \in [J -> Nat] /\ DOMAIN f = J
    BY AllBlocksType
  <1>4. SumFunction(f) = U
    BY <1>2 DEF Gives
  <1> HIDE DEF f
  <1>5. SumFunction(f) = Sums(f)[J]
    BY <1>3, SumIsLastSum
  <1>6. \E j \in J : f[j] > 0
    <2>1. Sums(f)[J] # 0 /\ J \in SUBSET J
      BY <1>0, <1>4, <1>5
    <2> QED
      BY <1>1, <1>3, <2>1, SumsOfNothing
  <1>7. PICK j \in J : f[j] > 0
    BY <1>6
  <1> DEFINE b == B[j]
  <1>8. b.taatsu > 0 /\ b \in AllBlocks
    BY <1>7 DEF f
  <1> HIDE DEF b
  <1>9. b.meld = 0 /\ b.taatsu = 1 /\ b.pair = 0
    BY <1>8, OneKind
  <1>10. /\ \A t \in b.types : c[t] >= b.n
         /\ Parts(Take(c, b.n, b.types), M - b.meld, U - b.taatsu, P - b.pair)
    BY <1>0, <1>1, <1>2, WithoutBlock DEF b
  <1>11. Fits(c, b)
    BY <1>0, <1>8, <1>10 DEF Fits
  <1>12. M - 0 = M /\ P - 0 = P /\ U - 1 \in Nat
    BY <1>0
  <1>13. IsDivided(Without(c, b), M, U - 1, P)
    BY <1>0, <1>9, <1>10, <1>11, <1>12, FitsType DEF IsDivided, Without
  <1> QED
    BY <1>9, <1>11, <1>13

\* The tile that makes f of it a larger block is drawn.
LEMMA Grow ==
  ASSUME NEW c, NEW b, NEW f, NEW t, Fits(c, f), IsLess(f, b, t),
         NEW M, NEW U, NEW P, IsDivided(Without(c, f), M, U, P)
  PROVE  IsDivided(AfterDraw(c, t), M + b.meld, U + b.taatsu, P + b.pair)
  <1> DEFINE h == AfterDraw(c, t)
  <1>1. /\ c \in [Types -> Nat] /\ f \in AllBlocks /\ b \in AllBlocks /\ t \in b.types
        /\ \A u \in f.types : c[u] >= f.n
    BY DEF Fits, IsLess
  <1>2. t \in Types /\ b.n \in Nat /\ f.n \in Nat /\ b.types \subseteq Types
    BY <1>1, AllBlocksType
  <1>3. h \in [Types -> Nat] /\ \A u \in Types : h[u] = c[u] + (IF u = t THEN 1 ELSE 0)
    <2>1. \A u \in Types : c[u] \in Nat
      BY <1>1
    <2> QED
      BY <1>1, <1>2, <2>1, DrawnType DEF AfterDraw
  <1>4. AfterDiscard(h, t) = c
    <2>1. c[t] \in Nat
      BY <1>1, <1>2
    <2>2. (c[t] + 1) - 1 = c[t]
      BY <2>1
    <2> QED
      BY <1>1, <1>2, <2>2 DEF AfterDraw, AfterDiscard
  <1> HIDE DEF h
  <1>5. ASSUME NEW u \in b.types
        PROVE  h[u] >= b.n
    <2>1. u \in Types /\ Amount(b, u) = b.n
      BY <1>2 DEF Amount
    <2>2. Amount(b, u) = Amount(f, u) + (IF u = t THEN 1 ELSE 0)
      BY <2>1 DEF IsLess
    <2>3. c[u] >= Amount(f, u) /\ c[u] \in Nat /\ Amount(f, u) \in Nat
      BY <1>1, <1>2, <2>1 DEF Amount
    <2> QED
      BY <1>3, <2>1, <2>2, <2>3
  <1>6. Fits(h, b)
    BY <1>1, <1>3, <1>5 DEF Fits
  <1>7. Without(h, b) = Without(c, f)
    BY <1>4, <1>6, LessFits
  <1>8. IsDivided(h, M + b.meld, U + b.taatsu, P + b.pair)
    BY <1>6, <1>7, PutBack
  <1> QED
    BY <1>8 DEF h

\* Every taatsu has a tile that makes it a meld, and every tile by itself one
\* that makes it a pair or a taatsu.
LEMMA TaatsuGrows ==
  ASSUME NEW f \in AllBlocks, f.taatsu = 1
  PROVE  \E b, t : /\ IsLess(f, b, t) /\ b.meld = 1 /\ b.taatsu = 0 /\ b.pair = 0
  <1>1. PICK i \in Types : f \in Blocks(i) /\ f \in BlocksFrom[i]
    BY AllBlocksType
  <1>2. f.types \subseteq Types /\ InOneSuit(f.types)
    BY AllBlocksType
  <1>3. i \in Int
    BY TypesType
  <1>4. CASE f.n = 2 /\ f.types = {i}
    <2> DEFINE b == [n |-> 3, types |-> {i}, meld |-> 1, taatsu |-> 0, pair |-> 0]
    <2>1. b \in Blocks(i) /\ b.types = {i}
      BY DEF Blocks
    <2>2. b \in AllBlocks
      <3> HIDE DEF b
      <3> QED
        BY <2>1, AnyBlock DEF InOneSuit
    <2>3. \A u \in Types : Amount(b, u) = Amount(f, u) + (IF u = i THEN 1 ELSE 0)
      BY <1>4 DEF Amount
    <2>4. IsLess(f, b, i)
      BY <2>1, <2>2, <2>3 DEF IsLess
    <2> QED
      BY <2>4
  <1>5. ASSUME NEW u, u = i + 1 \/ u = i + 2, f.n = 1, f.types = {i, u}
        PROVE  \E b, t : /\ IsLess(f, b, t) /\ b.meld = 1 /\ b.taatsu = 0 /\ b.pair = 0
    <2>1. u \in Types /\ i < u /\ u <= i + 2 /\ InOneSuit({i, u})
      BY <1>2, <1>3, <1>5
    <2>2. PICK x \in Types, j \in Types :
             /\ {j, j + 1, j + 2} = {i, u, x} /\ x \notin {i, u} /\ InOneSuit({i, u, x})
      BY <2>1, BlocksAssumption
    <2> DEFINE b == [n |-> 1, types |-> {j, j + 1, j + 2}, meld |-> 1, taatsu |-> 0, pair |-> 0]
    <2>3. b \in Blocks(j) /\ b.types = {i, u, x} /\ b.n = 1
      BY <2>2 DEF Blocks
    <2>4. b \in AllBlocks
      <3>1. b.types \subseteq Types /\ InOneSuit(b.types)
        BY <2>1, <2>2, <2>3
      <3> HIDE DEF b
      <3> QED
        BY <2>3, <3>1, AnyBlock
    <2>5. \A y \in Types : Amount(b, y) = Amount(f, y) + (IF y = x THEN 1 ELSE 0)
      <3>1. b.meld = 1 /\ b.taatsu = 0 /\ b.pair = 0
        OBVIOUS
      <3> HIDE DEF b
      <3> QED
        BY <1>5, <2>2, <2>3 DEF Amount
    <2>6. IsLess(f, b, x)
      BY <2>3, <2>4, <2>5 DEF IsLess
    <2> QED
      BY <2>6
  <1> QED
    BY <1>1, <1>4, <1>5 DEF Blocks

LEMMA LoneGrows ==
  ASSUME NEW x \in Types
  PROVE  /\ \E b : /\ IsLess(Lone(x), b, x) /\ b.meld = 0 /\ b.taatsu = 0 /\ b.pair = 1
         /\ \E b : /\ IsLess(Lone(x), b, x) /\ b.meld = 0 /\ b.taatsu = 1 /\ b.pair = 0
  <1>1. ASSUME NEW b \in Blocks(x), b.n = 2, b.types = {x}
        PROVE  IsLess(Lone(x), b, x)
    <2>1. b \in AllBlocks
      BY <1>1, AnyBlock DEF InOneSuit
    <2>2. \A u \in Types : Amount(b, u) = Amount(Lone(x), u) + (IF u = x THEN 1 ELSE 0)
      BY <1>1, LoneIsBlock DEF Amount
    <2> QED
      BY <1>1, <2>1, <2>2, LoneIsBlock DEF IsLess
  <1> DEFINE p == [n |-> 2, types |-> {x}, meld |-> 0, taatsu |-> 0, pair |-> 1]
             q == [n |-> 2, types |-> {x}, meld |-> 0, taatsu |-> 1, pair |-> 0]
  <1>2. p \in Blocks(x) /\ q \in Blocks(x)
    BY DEF Blocks
  <1>3. IsLess(Lone(x), p, x) /\ IsLess(Lone(x), q, x)
    BY <1>1, <1>2
  <1> QED
    BY <1>3

LEMMA CountsWeigh ==
  ASSUME NEW c, NEW m, IsHand(c, m), NEW M, NEW U, NEW P, Counts(c, m, M, U, P),
         NEW n \in Nat, Total(c) = 3 * (4 - m) + n
  PROVE  /\ 12 + n >= 3 * M + 2 * U + 2 * P
         /\ 12 + n > 3 * M + 2 * U + 2 * P =>
              \E x \in Types : Fits(c, Lone(x)) /\ IsDivided(Without(c, Lone(x)), M - m, U, P)
  <1>1. /\ m \in 0 .. 4 /\ M \in 0 .. 4 /\ U \in 0 .. 4 /\ P \in 0 .. 1 /\ M >= m
        /\ IsDivided(c, M - m, U, P)
    BY CountsType
  <1> DEFINE D == M - m
             w == 3 * D + 2 * U + 2 * P
  <1>2. /\ Total(c) >= w
        /\ Total(c) > w =>
             \E x \in Types : Fits(c, Lone(x)) /\ IsDivided(Without(c, Lone(x)), M - m, U, P)
    BY <1>1, LonesExist DEF HasLone
  <1>3. w + 3 * m = 3 * M + 2 * U + 2 * P /\ w \in Int
    BY <1>1
  <1>4. Total(c) + 3 * m = 12 + n /\ Total(c) \in Int
    BY <1>1
  <1> HIDE DEF w, D
  <1> QED
    BY <1>1, <1>2, <1>3, <1>4

LEMMA DrawnHand ==
  ASSUME NEW c \in [Types -> Nat], NEW m \in 0 .. MAX_MELDS, Total(c) = AfterDiscardTotal(m),
         NEW t \in Types
  PROVE  IsHand(c, m) /\ IsHand(AfterDraw(c, t), m) /\ Owes(AfterDraw(c, t), m)
  <1>1. AfterDraw(c, t) \in [Types -> Nat] /\ Total(AfterDraw(c, t)) = Total(c) + 1
    BY DrawnType
  <1>2. AfterDiscardTotal(m) = 3 * (4 - m) + 1 /\ m \in 0 .. 4
    BY DEF AfterDiscardTotal, MAX_MELDS
  <1>3. Owes(AfterDraw(c, t), m)
    BY <1>1 DEF Owes
  <1>4. Total(c) + 3 * m <= 14
    BY <1>2
  <1> QED
    BY <1>3, <1>4, OwingHand DEF IsHand

LEMMA StandardCloser ==
  ASSUME NEW c \in [Types -> Nat], NEW m \in 0 .. MAX_MELDS, Total(c) = AfterDiscardTotal(m)
  PROVE  /\ StandardShanten(c, m) \in Int
         /\ StandardShanten(c, m) >= 0 /\ StandardShanten(c, m) <= 8
         /\ \E t \in Types :
              StandardShanten(AfterDraw(c, t), m) <= StandardShanten(c, m) - 1
  <1> DEFINE v == StandardShanten(c, m)
  <1>0. m \in 0 .. 4 /\ Total(c) = 3 * (4 - m) + 1 /\ IsHand(c, m)
    <2>1. m \in 0 .. 4 /\ Total(c) = 3 * (4 - m) + 1
      BY DEF AfterDiscardTotal, MAX_MELDS
    <2>2. Total(c) + 3 * m <= 14
      BY <2>1
    <2> QED
      BY <2>1, <2>2 DEF IsHand
  <1>1. PICK M, U, P : Counts(c, m, M, U, P) /\ v = BlockShanten(M, U, P)
    BY <1>0, StandardIsBest
  <1>2. /\ M \in 0 .. 4 /\ U \in 0 .. 4 /\ P \in 0 .. 1 /\ M >= m /\ M - m \in Nat
        /\ IsDivided(c, M - m, U, P)
        /\ v = 8 - 2 * M - (IF U <= 4 - M THEN U ELSE 4 - M) - P
    <2>1. /\ M \in 0 .. 4 /\ U \in 0 .. 4 /\ P \in 0 .. 1 /\ M >= m
          /\ IsDivided(c, M - m, U, P)
          /\ BlockShanten(M, U, P) = 8 - 2 * M - (IF U <= 4 - M THEN U ELSE 4 - M) - P
      BY <1>0, <1>1, CountsType
    <2>2. M - m \in Nat
      BY <1>0, <2>1
    <2> QED
      BY <1>1, <2>1, <2>2
  <1>3. /\ 13 >= 3 * M + 2 * U + 2 * P
        /\ 13 > 3 * M + 2 * U + 2 * P =>
             \E x \in Types : Fits(c, Lone(x)) /\ IsDivided(Without(c, Lone(x)), M - m, U, P)
    <2>1. 1 \in Nat /\ 12 + 1 = 13
      OBVIOUS
    <2>2. /\ 12 + 1 >= 3 * M + 2 * U + 2 * P
          /\ 12 + 1 > 3 * M + 2 * U + 2 * P =>
               \E x \in Types : Fits(c, Lone(x)) /\ IsDivided(Without(c, Lone(x)), M - m, U, P)
      BY <1>0, <1>1, <2>1, CountsWeigh
    <2> QED
      BY <2>1, <2>2
  <1> HIDE DEF v
  <1>4. v \in Int /\ v >= 0 /\ v <= 8
    <2>1. CASE M = 4
      <3>1. U = 0 /\ P = 0
        BY <1>2, <1>3, <2>1
      <3> QED
        BY <1>2, <2>1, <3>1
    <2>2. CASE M # 4
      BY <1>2, <2>2
    <2> QED
      BY <2>1, <2>2
  <1>a. SUFFICES \E t \in Types : StandardShanten(AfterDraw(c, t), m) <= v - 1
    BY <1>4 DEF v
  <1>5. ASSUME NEW t \in Types, NEW V, NEW W, NEW Q,
               V \in 0 .. 4 /\ W \in 0 .. 4 /\ Q \in 0 .. 1,
               IsDivided(AfterDraw(c, t), V - m, W, Q),
               8 - 2 * V - (IF W <= 4 - V THEN W ELSE 4 - V) - Q <= v - 1
        PROVE  \E u \in Types : StandardShanten(AfterDraw(c, u), m) <= v - 1
    <2>1. Counts(AfterDraw(c, t), m, V, W, Q)
      BY <1>5 DEF Counts, MAX_MELDS
    <2>2. IsHand(AfterDraw(c, t), m)
      BY DrawnHand
    <2>3. /\ StandardShanten(AfterDraw(c, t), m) <= BlockShanten(V, W, Q)
          /\ StandardShanten(AfterDraw(c, t), m) \in Int
      BY <2>1, <2>2, StandardIsBest
    <2>4. BlockShanten(V, W, Q) = 8 - 2 * V - (IF W <= 4 - V THEN W ELSE 4 - V) - Q
      BY <1>5, BlockShantenIs DEF MAX_MELDS
    <2>5. BlockShanten(V, W, Q) \in Int
      BY <1>5, BlockShantenIs DEF MAX_MELDS
    <2>6. BlockShanten(V, W, Q) <= v - 1
      BY <1>5, <2>4
    <2> QED
      BY <1>4, <2>3, <2>5, <2>6
  <1>6. CASE U > 0
    <2>1. M < 4
      BY <1>2, <1>3, <1>6
    <2>2. PICK f : /\ Fits(c, f) /\ f.meld = 0 /\ f.taatsu = 1 /\ f.pair = 0
                   /\ IsDivided(Without(c, f), M - m, U - 1, P)
      BY <1>2, <1>6, TaatsuExists
    <2>3. PICK b, t : IsLess(f, b, t) /\ b.meld = 1 /\ b.taatsu = 0 /\ b.pair = 0
      BY <2>2, TaatsuGrows DEF Fits
    <2>4. t \in Types
      BY <2>3, AllBlocksType DEF IsLess
    <2>5. IsDivided(AfterDraw(c, t), (M - m) + b.meld, (U - 1) + b.taatsu, P + b.pair)
      BY <2>2, <2>3, Grow
    <2>6. (M - m) + 1 = (M + 1) - m /\ (U - 1) + 0 = U - 1 /\ P + 0 = P
      BY <1>0, <1>2
    <2>7. IsDivided(AfterDraw(c, t), (M + 1) - m, U - 1, P)
      BY <2>3, <2>5, <2>6
    <2> DEFINE V == M + 1
               W == U - 1
    <2>8. /\ V \in 0 .. 4 /\ W \in 0 .. 4
          /\ 8 - 2 * V - (IF W <= 4 - V THEN W ELSE 4 - V) - P <= v - 1
      BY <1>2, <1>6, <2>1
    <2>9. IsDivided(AfterDraw(c, t), V - m, W, P)
      BY <2>7
    <2> HIDE DEF V, W
    <2> QED
      BY <1>2, <1>5, <2>4, <2>8, <2>9
  <1>7. CASE U = 0
    <2>1. 13 > 3 * M + 2 * U + 2 * P
      BY <1>2, <1>3, <1>7
    <2>2. PICK x \in Types : /\ Fits(c, Lone(x))
                             /\ IsDivided(Without(c, Lone(x)), M - m, U, P)
      BY <1>3, <2>1
    <2>3. CASE P = 0
      <3>1. PICK b : IsLess(Lone(x), b, x) /\ b.meld = 0 /\ b.taatsu = 0 /\ b.pair = 1
        BY LoneGrows
      <3>2. IsDivided(AfterDraw(c, x), (M - m) + b.meld, U + b.taatsu, P + b.pair)
        BY <2>2, <3>1, Grow
      <3>3. (M - m) + 0 = M - m /\ U + 0 = U /\ P + 1 = 1
        BY <1>2, <2>3
      <3>4. IsDivided(AfterDraw(c, x), M - m, U, 1)
        BY <3>1, <3>2, <3>3
      <3>5. 1 \in 0 .. 1 /\ 8 - 2 * M - (IF U <= 4 - M THEN U ELSE 4 - M) - 1 <= v - 1
        BY <1>2, <2>3
      <3> QED
        BY <1>2, <1>5, <3>4, <3>5
    <2>4. CASE P = 1
      <3>0. M < 4
        BY <1>2, <1>3, <2>4
      <3>1. PICK b : IsLess(Lone(x), b, x) /\ b.meld = 0 /\ b.taatsu = 1 /\ b.pair = 0
        BY LoneGrows
      <3>2. IsDivided(AfterDraw(c, x), (M - m) + b.meld, U + b.taatsu, P + b.pair)
        BY <2>2, <3>1, Grow
      <3>3. (M - m) + 0 = M - m /\ U + 1 = 1 /\ P + 0 = P
        BY <1>2, <1>7
      <3>4. IsDivided(AfterDraw(c, x), M - m, 1, P)
        BY <3>1, <3>2, <3>3
      <3>5. 1 \in 0 .. 4 /\ 8 - 2 * M - (IF 1 <= 4 - M THEN 1 ELSE 4 - M) - P <= v - 1
        BY <1>2, <1>7, <2>4, <3>0
      <3> QED
        BY <1>2, <1>5, <3>4, <3>5
    <2> QED
      BY <1>2, <2>3, <2>4
  <1> QED
    BY <1>2, <1>6, <1>7

\* Of a hand that is not complete some tile may be discarded for nothing.
LEMMA StandardSpare ==
  ASSUME NEW h, NEW m, Owes(h, m), StandardShanten(h, m) >= 0
  PROVE  \E t \in Held(h) : StandardShanten(AfterDiscard(h, t), m) <= StandardShanten(h, m)
  <1> DEFINE v == StandardShanten(h, m)
  <1>0. /\ h \in [Types -> Nat] /\ m \in 0 .. 4 /\ Total(h) = 3 * (4 - m) + 2 /\ IsHand(h, m)
    <2>1. /\ h \in [Types -> Nat] /\ m \in 0 .. 4 /\ Total(h) = (3 * (4 - m) + 1) + 1
      BY DEF Owes, AfterDiscardTotal, MAX_MELDS
    <2>2. (3 * (4 - m) + 1) + 1 = 3 * (4 - m) + 2
      BY <2>1
    <2>3. IsHand(h, m)
      BY OwingHand
    <2> QED
      BY <2>1, <2>2, <2>3
  <1>1. PICK M, U, P : Counts(h, m, M, U, P) /\ v = BlockShanten(M, U, P)
    BY <1>0, StandardIsBest
  <1>2. /\ M \in 0 .. 4 /\ U \in 0 .. 4 /\ P \in 0 .. 1 /\ M >= m
        /\ IsDivided(h, M - m, U, P)
        /\ v = 8 - 2 * M - (IF U <= 4 - M THEN U ELSE 4 - M) - P /\ v >= 0
    BY <1>0, <1>1, CountsType
  <1>3. /\ 14 >= 3 * M + 2 * U + 2 * P
        /\ 14 > 3 * M + 2 * U + 2 * P =>
             \E x \in Types : Fits(h, Lone(x)) /\ IsDivided(Without(h, Lone(x)), M - m, U, P)
    <2>1. 2 \in Nat /\ 12 + 2 = 14
      OBVIOUS
    <2>2. /\ 12 + 2 >= 3 * M + 2 * U + 2 * P
          /\ 12 + 2 > 3 * M + 2 * U + 2 * P =>
               \E x \in Types : Fits(h, Lone(x)) /\ IsDivided(Without(h, Lone(x)), M - m, U, P)
      BY <1>0, <1>1, <2>1, CountsWeigh
    <2> QED
      BY <2>1, <2>2
  <1>4. \A t \in Held(h) : IsHand(AfterDiscard(h, t), m)
    <2>1. \A t \in Held(h) : /\ AfterDiscard(h, t) \in [Types -> Nat]
                             /\ Total(AfterDiscard(h, t)) = AfterDiscardTotal(m)
      BY OwingHand
    <2>2. AfterDiscardTotal(m) + 3 * m <= 14
      BY <1>0 DEF AfterDiscardTotal, MAX_MELDS
    <2> QED
      BY <1>0, <2>1, <2>2 DEF IsHand, MAX_MELDS
  <1>5. \A t \in Types : t \in Held(h) <=> h[t] > 0
    BY <1>0 DEF Held
  <1> HIDE DEF v
  <1>a. SUFFICES \E u \in Held(h) : StandardShanten(AfterDiscard(h, u), m) <= v
    BY DEF v
  <1>6. ASSUME NEW t \in Held(h), NEW W, W \in 0 .. 4,
               IsDivided(AfterDiscard(h, t), M - m, W, P),
               8 - 2 * M - (IF W <= 4 - M THEN W ELSE 4 - M) - P = v
        PROVE  \E u \in Held(h) : StandardShanten(AfterDiscard(h, u), m) <= v
    <2>1. Counts(AfterDiscard(h, t), m, M, W, P)
      BY <1>2, <1>6 DEF Counts, MAX_MELDS
    <2>2. StandardShanten(AfterDiscard(h, t), m) <= BlockShanten(M, W, P)
      BY <1>4, <2>1, StandardIsBest
    <2>3. BlockShanten(M, W, P) = 8 - 2 * M - (IF W <= 4 - M THEN W ELSE 4 - M) - P
      BY <1>2, <1>6, BlockShantenIs DEF MAX_MELDS
    <2> QED
      BY <1>6, <2>2, <2>3
  <1>7. CASE 14 > 3 * M + 2 * U + 2 * P
    <2>1. PICK x \in Types : /\ Fits(h, Lone(x))
                             /\ IsDivided(Without(h, Lone(x)), M - m, U, P)
      BY <1>3, <1>7
    <2>2. x \in Held(h)
      <3>1. h[x] >= 1 /\ h[x] \in Nat
        BY <1>0, <2>1, LoneIsBlock DEF Fits
      <3> QED
        BY <1>5, <3>1
    <2>3. IsDivided(AfterDiscard(h, x), M - m, U, P)
      BY <1>0, <2>1, WithoutLone
    <2> QED
      BY <1>2, <1>6, <2>2, <2>3
  <1>8. CASE 14 = 3 * M + 2 * U + 2 * P
    <2>1. U > 0 /\ U - 1 \in 0 .. 4 /\ U - 1 >= 4 - M
      <3>1. M # 0 /\ M # 1 /\ M # 3
        BY <1>2, <1>8
      <3>2. M = 2 \/ M = 4
        BY <1>2, <3>1
      <3>3. CASE M = 2
        BY <1>2, <1>8, <3>3
      <3>4. CASE M = 4
        BY <1>2, <1>8, <3>4
      <3> QED
        BY <3>2, <3>3, <3>4
    <2>2. PICK b : /\ Fits(h, b) /\ b.meld = 0 /\ b.taatsu = 1 /\ b.pair = 0
                   /\ IsDivided(Without(h, b), M - m, U - 1, P)
      BY <1>2, <2>1, TaatsuExists
    <2>3. b \in AllBlocks /\ \A u \in b.types : h[u] >= b.n
      BY <2>2 DEF Fits
    <2>4. PICK t \in Types : b \in Blocks(t)
      BY <2>3, AllBlocksType
    <2>5. t \in b.types /\ b.n \in Nat /\ b.n > 0
      BY <2>3, <2>4, BlockType, AllBlocksType
    <2>6. t \in Held(h)
      <3>1. h[t] >= b.n /\ h[t] \in Nat
        BY <1>0, <2>3, <2>5
      <3> QED
        BY <1>5, <2>5, <3>1
    <2>7. IsDivided(AfterDiscard(h, t), M - m, U - 1, P)
      BY <2>2, <2>5, Shrink
    <2> DEFINE W == U - 1
    <2>8. 8 - 2 * M - (IF W <= 4 - M THEN W ELSE 4 - M) - P = v
      BY <1>2, <2>1
    <2>9. W \in 0 .. 4 /\ IsDivided(AfterDiscard(h, t), M - m, W, P)
      BY <2>1, <2>7
    <2> HIDE DEF W
    <2> QED
      BY <1>6, <2>6, <2>8, <2>9
  <1>9. 14 > 3 * M + 2 * U + 2 * P \/ 14 = 3 * M + 2 * U + 2 * P
    BY <1>2, <1>3
  <1> QED
    BY <1>7, <1>8, <1>9

-----------------------------------------------------------------------------
(* Some draw brings the other shantens down                                 *)

LEMMA SevenPairsCloser ==
  ASSUME NEW c \in [Types -> Nat], Total(c) = 13
  PROVE  /\ ChiitoitsuShanten(c, 0) \in Int /\ ChiitoitsuShanten(c, 0) >= 0
         /\ \E t \in Types :
              ChiitoitsuShanten(AfterDraw(c, t), 0) <= ChiitoitsuShanten(c, 0) - 1
  <1> DEFINE p == Cardinality(PairsOf(c))
             d == Cardinality(Held(c))
             v == ChiitoitsuShanten(c, 0)
  <1>1. /\ v = 6 - p + (IF d <= 7 THEN 7 - d ELSE 0) /\ p \in Nat /\ d \in Nat
    BY SevenPairsIs
  <1>2. /\ IsFiniteSet(Held(c)) /\ PairsOf(c) \subseteq Held(c) /\ p <= d /\ p + d <= 13
    BY PairsCounted
  <1>3. v \in Int /\ v >= 0 /\ p <= 6
    <2> HIDE DEF p, d, v
    <2> QED
      BY <1>1, <1>2
  <1>4. \A t \in Types : c[t] \in Nat /\ (t \in Held(c) <=> c[t] > 0)
                         /\ (t \in PairsOf(c) <=> c[t] >= 2)
    BY DrawnSets
  <1>5. CASE d < 7
    <2>1. \E t \in Orphans : t \notin Held(c)
      <3>1. Orphans \subseteq Held(c) => Cardinality(Orphans) <= d
        BY <1>2, FS_Subset
      <3>2. ~ (13 <= d)
        BY <1>1, <1>5
      <3> QED
        BY <3>1, <3>2, ThirteenOrphans
    <2>2. PICK t \in Types : c[t] = 0
      BY <1>4, <2>1, BlocksAssumption
    <2>3. ChiitoitsuShanten(AfterDraw(c, t), 0) = v - 1
      BY <1>5, <2>2, ChiitoitsuDraw
    <2>4. v - 1 <= v - 1
      BY <1>3
    <2> QED
      BY <1>3, <2>3, <2>4
  <1>6. CASE ~ (d < 7)
    <2>1. PairsOf(c) # Held(c)
      <3>1. p # d
        BY <1>1, <1>3, <1>6
      <3> QED
        BY <3>1
    <2>2. PICK t \in Types : t \in Held(c) /\ t \notin PairsOf(c)
      <3>1. Held(c) \subseteq Types
        BY DEF Held
      <3> QED
        BY <1>2, <2>1, <3>1
    <2>3. c[t] = 1
      BY <1>4, <2>2
    <2>4. d >= 7
      BY <1>1, <1>6
    <2>5. ChiitoitsuShanten(AfterDraw(c, t), 0) = v - 1
      BY <2>3, <2>4, ChiitoitsuDraw
    <2>6. v - 1 <= v - 1
      BY <1>3
    <2> QED
      BY <1>3, <2>5, <2>6
  <1> QED
    BY <1>5, <1>6

\* The hand before its last draw.
LEMMA Before ==
  ASSUME NEW h \in [Types -> Nat], NEW t \in Types, h[t] > 0
  PROVE  /\ AfterDiscard(h, t) \in [Types -> Nat] /\ AfterDraw(AfterDiscard(h, t), t) = h
         /\ AfterDiscard(h, t)[t] = h[t] - 1 /\ AfterDiscard(h, t)[t] \in Nat
         /\ \A u \in Types : u # t => AfterDiscard(h, t)[u] = h[u]
         /\ h[t] \in Nat
  <1>1. h[t] \in Nat /\ (h[t] - 1) + 1 = h[t] /\ h[t] - 1 \in Nat
    OBVIOUS
  <1>2. AfterDiscard(h, t) \in [Types -> Nat]
    BY DiscardedType
  <1>3. AfterDraw(AfterDiscard(h, t), t) = h
    BY <1>1 DEF AfterDraw, AfterDiscard
  <1> QED
    BY <1>1, <1>2, <1>3 DEF AfterDiscard

LEMMA SevenPairsSpare ==
  ASSUME NEW h \in [Types -> Nat], Total(h) = 14, ChiitoitsuShanten(h, 0) >= 0
  PROVE  \E t \in Held(h) :
           ChiitoitsuShanten(AfterDiscard(h, t), 0) = ChiitoitsuShanten(h, 0)
  <1> DEFINE p == Cardinality(PairsOf(h))
             d == Cardinality(Held(h))
             v == ChiitoitsuShanten(h, 0)
  <1>1. /\ v = 6 - p + (IF d <= 7 THEN 7 - d ELSE 0) /\ p \in Nat /\ d \in Nat
    BY SevenPairsIs
  <1>2. /\ IsFiniteSet(Held(h)) /\ PairsOf(h) \subseteq Held(h) /\ p <= d
        /\ p + d = 14 <=> \A t \in Types : h[t] <= 2
    BY PairsCounted
  <1>3. \A t \in Types : h[t] \in Nat /\ (t \in Held(h) <=> h[t] > 0)
                         /\ (t \in PairsOf(h) <=> h[t] >= 2)
    BY DrawnSets
  <1>4. ASSUME NEW t \in Types, h[t] >= 3
        PROVE  t \in Held(h) /\ ChiitoitsuShanten(AfterDiscard(h, t), 0) = v
    <2> DEFINE c == AfterDiscard(h, t)
    <2>1. h[t] > 0 /\ t \in Held(h)
      BY <1>3, <1>4
    <2>2. c \in [Types -> Nat] /\ AfterDraw(c, t) = h /\ c[t] = h[t] - 1 /\ h[t] \in Nat
      BY <2>1, Before
    <2>3. c[t] >= 2
      BY <1>4, <2>2
    <2> HIDE DEF c
    <2>4. ChiitoitsuShanten(AfterDraw(c, t), 0) = ChiitoitsuShanten(c, 0)
      BY <2>2, <2>3, ChiitoitsuDraw
    <2> QED
      BY <2>1, <2>2, <2>4 DEF c
  <1>5. ASSUME \A t \in Types : h[t] <= 2
        PROVE  \E t \in Held(h) : ChiitoitsuShanten(AfterDiscard(h, t), 0) = v
    <2>1. p + d = 14
      BY <1>2, <1>5
    <2>2. p <= 6 /\ d >= 8 /\ p # d
      <3>1. v >= 0
        OBVIOUS
      <3> HIDE DEF p, d, v
      <3>2. CASE p <= 6
        BY <1>1, <2>1, <3>2
      <3>3. CASE p > 6
        <4>1. p = 7 /\ d = 7
          BY <1>1, <1>2, <2>1, <3>3
        <4> QED
          BY <1>1, <3>1, <4>1
      <3> QED
        BY <1>1, <3>2, <3>3
    <2>3. PairsOf(h) # Held(h)
      BY <2>2
    <2>4. PICK t \in Types : t \in Held(h) /\ t \notin PairsOf(h)
      <3>1. Held(h) \subseteq Types
        BY DEF Held
      <3> QED
        BY <1>2, <2>3, <3>1
    <2> DEFINE c == AfterDiscard(h, t)
    <2>5. h[t] = 1
      BY <1>3, <2>4
    <2>6. c \in [Types -> Nat] /\ AfterDraw(c, t) = h /\ c[t] = 0
      <3>1. h[t] > 0 /\ 1 - 1 = 0
        BY <2>5
      <3> QED
        BY <2>5, <3>1, Before
    <2> HIDE DEF c
    <2>7. Cardinality(Held(c)) >= 7
      <3>1. Held(AfterDraw(c, t)) = Held(c) \cup {t} /\ t \notin Held(c)
        BY <2>6, DrawnSets
      <3>2. Held(h) = Held(c) \cup {t}
        BY <2>6, <3>1
      <3>3. IsFiniteSet(Held(c)) /\ Cardinality(Held(c)) \in Nat
        BY <2>6, PairsCounted
      <3>4. d = Cardinality(Held(c)) + 1
        BY <3>1, <3>2, <3>3, OneMore
      <3> QED
        BY <1>1, <2>2, <3>3, <3>4
    <2>8. ChiitoitsuShanten(AfterDraw(c, t), 0) = ChiitoitsuShanten(c, 0)
      BY <2>6, <2>7, ChiitoitsuDraw
    <2> QED
      BY <2>4, <2>6, <2>8 DEF c
  <1>6. (\A t \in Types : h[t] <= 2) \/ \E t \in Types : h[t] >= 3
    BY <1>3
  <1> QED
    BY <1>4, <1>5, <1>6

LEMMA KokushiCloser ==
  ASSUME NEW c \in [Types -> Nat], Total(c) = 13
  PROVE  /\ KokushiShanten(c, 0) \in Int /\ KokushiShanten(c, 0) >= 0
         /\ \E t \in Types : KokushiShanten(AfterDraw(c, t), 0) <= KokushiShanten(c, 0) - 1
  <1> DEFINE k == Cardinality(HeldOrphans(c))
             v == KokushiShanten(c, 0)
  <1>1. /\ v = 13 - k - (IF HasOrphanPair(c) THEN 1 ELSE 0)
        /\ k \in Nat /\ k <= 13 /\ (k = 13 => HeldOrphans(c) = Orphans)
    BY OrphansCounted
  <1>2. HeldOrphans(c) = Orphans => ~ HasOrphanPair(c)
    <2>1. SUFFICES ASSUME HeldOrphans(c) = Orphans, HasOrphanPair(c)
                   PROVE  FALSE
      OBVIOUS
    <2>2. /\ IsFiniteSet(Held(c)) /\ PairsOf(c) \subseteq Held(c)
          /\ Cardinality(PairsOf(c)) \in Nat /\ Cardinality(Held(c)) \in Nat
          /\ Cardinality(PairsOf(c)) + Cardinality(Held(c)) <= 13
      BY PairsCounted
    <2>3. Cardinality(Held(c)) >= 13
      <3>1. Orphans \subseteq Held(c)
        BY <2>1 DEF HeldOrphans
      <3>2. Cardinality(Orphans) <= Cardinality(Held(c))
        BY <2>2, <3>1, FS_Subset
      <3> QED
        BY <3>2, ThirteenOrphans
    <2>4. PairsOf(c) # {}
      BY <2>1 DEF HasOrphanPair, HeldOrphans, Held, PairsOf
    <2>5. Cardinality(PairsOf(c)) # 0
      <3>1. IsFiniteSet(PairsOf(c))
        BY <2>2, FS_Subset
      <3> QED
        BY <2>4, <3>1, FS_EmptySet
    <2> QED
      BY <2>2, <2>3, <2>5
  <1>3. v \in Int /\ v >= 0
    <2> HIDE DEF k, v
    <2> QED
      BY <1>1, <1>2
  <1>4. \A t \in Types : c[t] \in Nat /\ (t \in Held(c) <=> c[t] > 0)
    BY DrawnSets
  <1>5. ASSUME NEW t \in Types, KokushiShanten(AfterDraw(c, t), 0) = v - 1
        PROVE  \E u \in Types : KokushiShanten(AfterDraw(c, u), 0) <= v - 1
    <2>1. v - 1 <= v - 1
      BY <1>3
    <2> QED
      BY <1>5, <2>1
  <1>6. CASE HeldOrphans(c) # Orphans
    <2>1. PICK t \in Orphans : t \notin Held(c)
      BY <1>6 DEF HeldOrphans
    <2>2. t \in Types /\ c[t] = 0
      BY <1>4, <2>1, BlocksAssumption
    <2>3. KokushiShanten(AfterDraw(c, t), 0) = v - 1
      BY <2>1, <2>2, KokushiDraw
    <2> QED
      BY <1>3, <1>5, <2>2, <2>3
  <1>7. CASE HeldOrphans(c) = Orphans
    <2>1. Orphans # {}
      BY ThirteenOrphans, FS_EmptySet
    <2>2. PICK t \in Orphans : TRUE
      BY <2>1
    <2>3. t \in Types /\ c[t] > 0
      BY <1>4, <1>7, <2>2, BlocksAssumption DEF HeldOrphans
    <2>4. KokushiShanten(AfterDraw(c, t), 0) = v - 1
      BY <1>2, <1>7, <2>2, <2>3, KokushiDraw
    <2> QED
      BY <1>3, <1>5, <2>3, <2>4
  <1> QED
    BY <1>6, <1>7

LEMMA KokushiSpare ==
  ASSUME NEW h \in [Types -> Nat], Total(h) = 14, KokushiShanten(h, 0) >= 0
  PROVE  \E t \in Held(h) : KokushiShanten(AfterDiscard(h, t), 0) = KokushiShanten(h, 0)
  <1> DEFINE k == Cardinality(HeldOrphans(h))
             v == KokushiShanten(h, 0)
             p == Cardinality(PairsOf(h))
             d == Cardinality(Held(h))
  <1>1. /\ v = 13 - k - (IF HasOrphanPair(h) THEN 1 ELSE 0)
        /\ k \in Nat /\ k <= 13
    BY OrphansCounted
  <1>2. /\ IsFiniteSet(Held(h)) /\ PairsOf(h) \subseteq Held(h) /\ p \in Nat /\ d \in Nat
        /\ p + d = 14 <=> \A t \in Types : h[t] <= 2
    BY PairsCounted
  <1>3. \A t \in Types : h[t] \in Nat /\ (t \in Held(h) <=> h[t] > 0)
                         /\ (t \in PairsOf(h) <=> h[t] >= 2)
    BY DrawnSets
  <1>4. Held(h) \subseteq Types
    BY DEF Held
  <1>5. ASSUME NEW t \in Types, h[t] > 0
        PROVE  /\ t \notin Orphans => KokushiShanten(AfterDiscard(h, t), 0) = v
               /\ t \in Orphans /\ h[t] >= 2 /\ HasOrphanPair(AfterDiscard(h, t))
                    => KokushiShanten(AfterDiscard(h, t), 0) = v
    <2> DEFINE c == AfterDiscard(h, t)
    <2>1. c \in [Types -> Nat] /\ AfterDraw(c, t) = h /\ c[t] = h[t] - 1 /\ h[t] \in Nat
      BY <1>5, Before
    <2> HIDE DEF c
    <2>2. h[t] >= 2 => c[t] > 0
      BY <2>1
    <2>3. /\ t \notin Orphans => KokushiShanten(AfterDraw(c, t), 0) = KokushiShanten(c, 0)
          /\ t \in Orphans /\ c[t] > 0 /\ HasOrphanPair(c)
               => KokushiShanten(AfterDraw(c, t), 0) = KokushiShanten(c, 0)
      BY <2>1, KokushiDraw
    <2> QED
      BY <2>1, <2>2, <2>3 DEF c
  <1>6. CASE \E t \in Held(h) : t \notin Orphans
    BY <1>3, <1>4, <1>5, <1>6
  <1>7. CASE \E t \in Held(h) : t \in Orphans /\ h[t] >= 3
    <2>1. PICK t \in Held(h) : t \in Orphans /\ h[t] >= 3
      BY <1>7
    <2>2. t \in Types /\ h[t] > 0 /\ h[t] >= 2
      BY <1>3, <1>4, <2>1
    <2> DEFINE c == AfterDiscard(h, t)
    <2>3. c \in [Types -> Nat] /\ c[t] = h[t] - 1 /\ h[t] \in Nat
      BY <2>2, Before
    <2> HIDE DEF c
    <2>4. c[t] >= 2 /\ c[t] > 0
      BY <2>1, <2>3
    <2>5. HasOrphanPair(c)
      BY <2>1, <2>2, <2>3, <2>4 DEF HasOrphanPair, HeldOrphans, Held
    <2> QED
      BY <1>5, <2>1, <2>2, <2>5 DEF c
  <1>8. CASE \A t \in Held(h) : t \in Orphans /\ ~ (h[t] >= 3)
    <2>1. \A t \in Types : h[t] <= 2
      BY <1>3, <1>8
    <2>2. p + d = 14
      BY <1>2, <2>1
    <2>3. Held(h) \subseteq Orphans /\ HeldOrphans(h) = Held(h)
      BY <1>8 DEF HeldOrphans
    <2>4. k = d
      BY <2>3
    <2>5. PairsOf(h) # {}
      <3>1. p # 0
        BY <1>1, <2>2, <2>4
      <3> QED
        BY <3>1, FS_EmptySet
    <2>6. PICK t \in PairsOf(h) : TRUE
      BY <2>5
    <2>7. HasOrphanPair(h)
      BY <1>2, <2>3, <2>6 DEF HasOrphanPair, PairsOf
    <2>8. k < 13
      <3>1. v = 13 - k - 1 /\ v >= 0
        BY <1>1, <2>7
      <3> HIDE DEF k, v
      <3> QED
        BY <1>1, <3>1
    <2>9. p # 1
      BY <1>1, <2>2, <2>4, <2>8
    <2>10. PairsOf(h) # {t}
      BY <2>9, FS_Singleton
    <2>11. PICK u \in PairsOf(h) : u # t
      BY <2>6, <2>10
    <2>12. /\ t \in Types /\ u \in Types /\ t \in Orphans /\ u \in Orphans
           /\ h[t] >= 2 /\ h[u] >= 2 /\ h[t] > 0 /\ h[u] > 0 /\ t \in Held(h)
      BY <1>2, <1>3, <1>4, <2>3, <2>6, <2>11
    <2> DEFINE c == AfterDiscard(h, t)
    <2>13. c \in [Types -> Nat] /\ c[u] = h[u]
      BY <2>11, <2>12, Before
    <2> HIDE DEF c
    <2>14. HasOrphanPair(c)
      BY <2>12, <2>13 DEF HasOrphanPair, HeldOrphans, Held
    <2> QED
      BY <1>5, <2>12, <2>14 DEF c
  <1> QED
    BY <1>6, <1>7, <1>8

-----------------------------------------------------------------------------
(* No hand is stuck                                                         *)

\* A form that is least, or can be made less than least.
LEMMA BelowMinimum ==
  ASSUME NEW r, IsRaw(r), NEW n \in Int,
         r.standard <= n \/ r.chiitoitsu <= n \/ r.kokushi <= n
  PROVE  Minimum(r) <= n
  <1>1. /\ Minimum(r) \in Int
        /\ Minimum(r) <= r.standard /\ Minimum(r) <= r.chiitoitsu /\ Minimum(r) <= r.kokushi
    BY MinimumIs
  <1> QED
    BY <1>1 DEF IsRaw

\* A hand that waits for its next draw.
Rests(c, m) ==
  c \in [Types -> Nat] /\ m \in 0 .. MAX_MELDS /\ Total(c) = AfterDiscardTotal(m)

LEMMA RestingHand ==
  ASSUME NEW c, NEW m, Rests(c, m)
  PROVE  /\ c \in [Types -> Nat] /\ m \in 0 .. MAX_MELDS /\ Total(c) = AfterDiscardTotal(m)
         /\ IsHand(c, m) /\ (m = 0 => Total(c) = 13)
         /\ IsRaw(Raw(c, m)) /\ Minimum(Raw(c, m)) \in Int
         /\ Minimum(Raw(c, m)) >= 0 /\ Minimum(Raw(c, m)) <= 8
  <1> DEFINE r == Raw(c, m)
  <1>1. c \in [Types -> Nat] /\ m \in 0 .. MAX_MELDS /\ Total(c) = AfterDiscardTotal(m)
    BY DEF Rests
  <1>2. m = 0 => Total(c) = 13
    BY <1>1 DEF AfterDiscardTotal, MAX_MELDS
  <1>3. IsHand(c, m)
    <2>1. AfterDiscardTotal(m) + 3 * m <= 14
      BY <1>1 DEF AfterDiscardTotal, MAX_MELDS
    <2> QED
      BY <1>1, <2>1 DEF IsHand
  <1>4. IsRaw(r)
    BY <1>3, RawType
  <1>5. r.standard >= 0 /\ r.standard <= 8
    BY <1>1, StandardCloser DEF Raw
  <1>6. r.chiitoitsu >= 0 /\ r.kokushi >= 0
    <2>1. CASE m = 0
      BY <1>1, <1>2, <2>1, SevenPairsCloser, KokushiCloser DEF Raw
    <2>2. CASE m # 0
      BY <2>2 DEF Raw, ChiitoitsuShanten, KokushiShanten, NOT_APPLICABLE
    <2> QED
      BY <2>1, <2>2
  <1> HIDE DEF r
  <1>7. Minimum(r) \in Int /\ Minimum(r) >= 0 /\ Minimum(r) <= 8
    <2>1. /\ Minimum(r) \in Int /\ Minimum(r) <= r.standard
          /\ \/ Minimum(r) = r.standard
             \/ Minimum(r) = r.chiitoitsu
             \/ Minimum(r) = r.kokushi
      BY <1>4, MinimumIs
    <2> QED
      BY <1>4, <1>5, <1>6, <2>1 DEF IsRaw
  <1> QED
    BY <1>1, <1>2, <1>3, <1>4, <1>7 DEF r

\* Some draw brings a hand nearer.
LEMMA SomeDrawHelps ==
  ASSUME NEW c, NEW m, Rests(c, m)
  PROVE  /\ \E t \in Types : Minimum(Raw(AfterDraw(c, t), m)) <= Minimum(Raw(c, m)) - 1
         /\ Minimum(Raw(c, m)) > 0 =>
              \E t \in Types : Minimum(Shanten(AfterDraw(c, t), m)) <= Minimum(Raw(c, m)) - 1
  <1> DEFINE r == Raw(c, m)
             v == Minimum(r)
  <1>1. /\ c \in [Types -> Nat] /\ m \in 0 .. MAX_MELDS /\ Total(c) = AfterDiscardTotal(m)
        /\ IsHand(c, m) /\ (m = 0 => Total(c) = 13) /\ IsRaw(r)
        /\ v \in Int /\ v >= 0 /\ v <= 8
    BY RestingHand
  <1>2. v = r.standard \/ v = r.chiitoitsu \/ v = r.kokushi
    BY <1>1, MinimumIs
  <1>3. /\ r.standard = StandardShanten(c, m)
        /\ r.chiitoitsu = ChiitoitsuShanten(c, m)
        /\ r.kokushi = KokushiShanten(c, m)
    BY DEF Raw
  <1> HIDE DEF r, v
  <1>4. ASSUME NEW t \in Types
        PROVE  /\ AfterDraw(c, t) \in [Types -> Nat]
               /\ Owes(AfterDraw(c, t), m) /\ IsHand(AfterDraw(c, t), m)
               /\ m = 0 => Total(AfterDraw(c, t)) = 14
               /\ IsRaw(Raw(AfterDraw(c, t), m))
    <2>1. AfterDraw(c, t) \in [Types -> Nat] /\ Total(AfterDraw(c, t)) = Total(c) + 1
      BY <1>1, DrawnType
    <2>2. Owes(AfterDraw(c, t), m) /\ IsHand(AfterDraw(c, t), m)
      BY <1>1, DrawnHand
    <2> QED
      BY <1>1, <2>1, <2>2, RawType
  <1>5. ASSUME NEW t \in Types,
               \/ StandardShanten(AfterDraw(c, t), m) <= v - 1
               \/ ChiitoitsuShanten(AfterDraw(c, t), m) <= v - 1
               \/ KokushiShanten(AfterDraw(c, t), m) <= v - 1
        PROVE  Minimum(Raw(AfterDraw(c, t), m)) <= v - 1
    <2> DEFINE q == Raw(AfterDraw(c, t), m)
    <2>1. q.standard <= v - 1 \/ q.chiitoitsu <= v - 1 \/ q.kokushi <= v - 1
      BY <1>5 DEF Raw
    <2>2. IsRaw(q) /\ v - 1 \in Int
      BY <1>1, <1>4
    <2> HIDE DEF q
    <2>3. Minimum(q) <= v - 1
      BY <2>1, <2>2, BelowMinimum
    <2> QED
      BY <2>3 DEF q
  <1>6. ASSUME NEW t \in Types, NEW u \in Held(AfterDraw(c, t)),
               \/ StandardShanten(AfterDiscard(AfterDraw(c, t), u), m) <= v - 1
               \/ ChiitoitsuShanten(AfterDiscard(AfterDraw(c, t), u), m) <= v - 1
               \/ KokushiShanten(AfterDiscard(AfterDraw(c, t), u), m) <= v - 1
        PROVE  Minimum(Shanten(AfterDraw(c, t), m)) <= v - 1
    <2> DEFINE h == AfterDraw(c, t)
               e == AfterDiscard(h, u)
               q == Raw(e, m)
    <2>1. q.standard <= v - 1 \/ q.chiitoitsu <= v - 1 \/ q.kokushi <= v - 1
      BY <1>6 DEF Raw
    <2>2. /\ Minimum(Shanten(h, m)) \in Int /\ Minimum(q) \in Int
          /\ Minimum(Shanten(h, m)) <= Minimum(q)
      BY <1>4, OwingShanten
    <2>3. Rests(e, m)
      BY <1>1, <1>4, OwingHand DEF Rests
    <2>4. IsRaw(q) /\ v - 1 \in Int
      BY <1>1, <2>3, RestingHand
    <2> HIDE DEF q, e, h
    <2>5. Minimum(q) <= v - 1
      BY <2>1, <2>4, BelowMinimum
    <2>6. Minimum(Shanten(h, m)) <= v - 1
      BY <2>2, <2>4, <2>5
    <2> QED
      BY <2>6 DEF h
  <1>7. CASE v = r.standard
    <2>1. PICK t \in Types : StandardShanten(AfterDraw(c, t), m) <= v - 1
      BY <1>1, <1>3, <1>7, StandardCloser
    <2>2. Minimum(Raw(AfterDraw(c, t), m)) <= v - 1
      BY <1>5, <2>1
    <2>3. ASSUME v > 0
          PROVE  Minimum(Shanten(AfterDraw(c, t), m)) <= v - 1
      <3> DEFINE h == AfterDraw(c, t)
      <3>1. /\ StandardShanten(h, m) \in Int /\ StandardShanten(h, m) >= v - 1
        BY <1>1, <1>3, <1>4, <1>7, StandardDraw, StandardIsBest
      <3>2. StandardShanten(h, m) >= 0
        BY <1>1, <2>3, <3>1
      <3>3. Owes(h, m)
        BY <1>4
      <3> HIDE DEF h
      <3>4. PICK u \in Held(h) : StandardShanten(AfterDiscard(h, u), m) <= StandardShanten(h, m)
        BY <3>2, <3>3, StandardSpare
      <3>5. StandardShanten(AfterDiscard(h, u), m) \in Int
        <4>1. Rests(AfterDiscard(h, u), m)
          BY <1>1, <3>3, OwingHand DEF Rests
        <4> QED
          BY <4>1, RestingHand, StandardIsBest
      <3>6. StandardShanten(AfterDiscard(h, u), m) <= v - 1
        BY <1>1, <2>1, <3>1, <3>4, <3>5 DEF h
      <3> QED
        BY <1>6, <3>4, <3>6 DEF h
    <2> QED
      BY <2>2, <2>3 DEF v, r
  <1>8. CASE m # 0
    <2>1. r.chiitoitsu = 127 /\ r.kokushi = 127
      BY <1>3, <1>8 DEF ChiitoitsuShanten, KokushiShanten, NOT_APPLICABLE
    <2> QED
      BY <1>1, <1>2, <1>7, <2>1
  <1>9. CASE m = 0 /\ v = r.chiitoitsu
    <2>1. PICK t \in Types : ChiitoitsuShanten(AfterDraw(c, t), m) <= v - 1
      BY <1>1, <1>3, <1>9, SevenPairsCloser
    <2>2. Minimum(Raw(AfterDraw(c, t), m)) <= v - 1
      BY <1>5, <2>1
    <2>3. ASSUME v > 0
          PROVE  Minimum(Shanten(AfterDraw(c, t), m)) <= v - 1
      <3> DEFINE h == AfterDraw(c, t)
      <3>1. ChiitoitsuShanten(h, 0) \in Int /\ ChiitoitsuShanten(h, 0) >= v - 1
        BY <1>1, <1>3, <1>9, ChiitoitsuDraw
      <3>2. ChiitoitsuShanten(h, 0) >= 0
        BY <1>1, <2>3, <3>1
      <3>3. h \in [Types -> Nat] /\ Total(h) = 14
        BY <1>4, <1>9
      <3> HIDE DEF h
      <3>4. PICK u \in Held(h) : ChiitoitsuShanten(AfterDiscard(h, u), 0) = ChiitoitsuShanten(h, 0)
        BY <3>2, <3>3, SevenPairsSpare
      <3>5. ChiitoitsuShanten(AfterDiscard(h, u), m) <= v - 1
        BY <1>9, <2>1, <3>4 DEF h
      <3> QED
        BY <1>6, <3>4, <3>5 DEF h
    <2> QED
      BY <2>2, <2>3 DEF v, r
  <1>10. CASE m = 0 /\ v = r.kokushi
    <2>1. PICK t \in Types : KokushiShanten(AfterDraw(c, t), m) <= v - 1
      BY <1>1, <1>3, <1>10, KokushiCloser
    <2>2. Minimum(Raw(AfterDraw(c, t), m)) <= v - 1
      BY <1>5, <2>1
    <2>3. ASSUME v > 0
          PROVE  Minimum(Shanten(AfterDraw(c, t), m)) <= v - 1
      <3> DEFINE h == AfterDraw(c, t)
      <3>1. KokushiShanten(h, 0) \in Int /\ KokushiShanten(h, 0) >= v - 1
        BY <1>1, <1>3, <1>10, KokushiDraw
      <3>2. KokushiShanten(h, 0) >= 0
        BY <1>1, <2>3, <3>1
      <3>3. h \in [Types -> Nat] /\ Total(h) = 14
        BY <1>4, <1>10
      <3> HIDE DEF h
      <3>4. PICK u \in Held(h) : KokushiShanten(AfterDiscard(h, u), 0) = KokushiShanten(h, 0)
        BY <3>2, <3>3, KokushiSpare
      <3>5. KokushiShanten(AfterDiscard(h, u), m) <= v - 1
        BY <1>10, <2>1, <3>4 DEF h
      <3> QED
        BY <1>6, <3>4, <3>5 DEF h
    <2> QED
      BY <2>2, <2>3 DEF v, r
  <1> QED
    BY <1>2, <1>7, <1>8, <1>9, <1>10

LEMMA HelpFollows == HandInv /\ Told => SomeTileHelps
  <1> SUFFICES ASSUME HandInv, Told, ~ OwesDiscard, Minimum(shanten) > 0
               PROVE  \E t \in Types :
                        Minimum(Shanten(AfterDraw(hand, t), melds)) < Minimum(shanten)
    BY DEF SomeTileHelps
  <1>1. Rests(hand, melds)
    BY DEF HandInv, OwesDiscard, Rests
  <1>2. shanten = Raw(hand, melds)
    BY <1>1 DEF Told, Shanten, Rests
  <1> DEFINE v == Minimum(Raw(hand, melds))
  <1>3. v \in Int /\ v > 0
    BY <1>1, <1>2, RestingHand
  <1>4. PICK t \in Types : Minimum(Shanten(AfterDraw(hand, t), melds)) <= v - 1
    BY <1>1, <1>3, SomeDrawHelps
  <1>5. Minimum(Shanten(AfterDraw(hand, t), melds)) \in Int
    <2>1. Owes(AfterDraw(hand, t), melds)
      BY <1>1, RestingHand, DrawnHand
    <2> QED
      BY <2>1, OwingShanten
  <1>6. Minimum(Shanten(AfterDraw(hand, t), melds)) < v
    <2> HIDE DEF v
    <2> QED
      BY <1>3, <1>4, <1>5
  <1> QED
    BY <1>2, <1>6

LEMMA TenpaiFollows == HandInv => TenpaiWaitsForSomething
  <1> DEFINE completing == {t \in Types : IsComplete(AfterDraw(hand, t), melds)}
  <1> SUFFICES ASSUME HandInv, ~ OwesDiscard
               PROVE  /\ IsShapeTenpai(hand, melds) <=> completing # {}
                      /\ PlayerIsShapeTenpai(hand, melds)
                           <=> \E t \in completing : hand[t] < TILE_PER_TYPE
    BY DEF TenpaiWaitsForSomething
  <1>1. Rests(hand, melds)
    BY DEF HandInv, OwesDiscard, Rests
  <1>2. /\ hand \in [Types -> Nat] /\ melds \in 0 .. MAX_MELDS
        /\ Total(hand) = AfterDiscardTotal(melds)
    BY <1>1 DEF Rests
  <1>3. ASSUME NEW t \in Types
        PROVE  /\ IsComplete(AfterDraw(hand, t), melds)
                    <=> Minimum(Raw(AfterDraw(hand, t), melds)) = -1
               /\ Minimum(Raw(AfterDraw(hand, t), melds)) \in Int
               /\ Minimum(Raw(AfterDraw(hand, t), melds)) >= -1
               /\ Minimum(Raw(hand, melds)) - 1 <= Minimum(Raw(AfterDraw(hand, t), melds))
    <2> DEFINE h == AfterDraw(hand, t)
    <2>1. h \in [Types -> Nat] /\ Total(h) = Total(hand) + 1
      BY <1>2, DrawnType
    <2>2. IsHand(h, melds)
      BY <1>2, DrawnHand
    <2>3. /\ IsRaw(Raw(h, melds))
          /\ Minimum(Raw(hand, melds)) - 1 <= Minimum(Raw(h, melds))
      BY <1>2, <2>2, RawDraw
    <2> HIDE DEF h
    <2>4. Total(h) = 3 * (MAX_MELDS - melds) + 2
      BY <1>2, <2>1 DEF AfterDiscardTotal, MAX_MELDS
    <2>5. IsComplete(h, melds) <=> Minimum(Raw(h, melds)) = -1
      BY <1>2, <2>1, <2>4, CompleteIsMinusOne
    <2>6. Minimum(Raw(h, melds)) \in Int /\ Minimum(Raw(h, melds)) >= -1
      BY <2>3, MinimumIs
    <2> QED
      BY <2>3, <2>5, <2>6 DEF h
  <1> DEFINE v == Minimum(Raw(hand, melds))
  <1>4. v \in Int /\ v >= 0
    BY <1>1, RestingHand
  <1>5. IsShapeTenpai(hand, melds) <=> v = 0
    BY <1>2 DEF IsShapeTenpai, Shanten
  <1>6. ASSUME v = 0
        PROVE  completing # {}
    <2>1. PICK t \in Types : Minimum(Raw(AfterDraw(hand, t), melds)) <= v - 1
      BY <1>1, SomeDrawHelps
    <2> HIDE DEF v
    <2>2. Minimum(Raw(AfterDraw(hand, t), melds)) = -1
      BY <1>3, <1>6, <2>1
    <2> QED
      BY <1>3, <2>2
  <1>7. ASSUME NEW t \in completing
        PROVE  v = 0
    <2>1. Minimum(Raw(AfterDraw(hand, t), melds)) = -1 /\ v - 1 <= -1
      BY <1>3
    <2> HIDE DEF v
    <2> QED
      BY <1>4, <2>1
  <1>8. Waits(hand, melds) = {t \in completing : hand[t] < TILE_PER_TYPE}
    BY <1>3 DEF Waits
  <1>9. PlayerIsShapeTenpai(hand, melds) <=> \E t \in completing : hand[t] < TILE_PER_TYPE
    <2> HIDE DEF completing
    <2> QED
      BY <1>8 DEF PlayerIsShapeTenpai
  <1>10. IsShapeTenpai(hand, melds) <=> completing # {}
    <2> HIDE DEF v
    <2> QED
      BY <1>5, <1>6, <1>7
  <1> QED
    BY <1>9, <1>10

\* While a hand is not tenpai some tile brings it nearer: shanten counts the
\* exchanges to tenpai, as hand_analysis.c:262 promises the players, for every
\* hand of any tile types.
THEOREM SomeTileAlwaysHelps == Spec => []SomeTileHelps
  BY ToldHolds, HelpFollows, PTL

\* What the players are told is tenpai (hand_analysis.c:572) is a hand that some
\* tile completes; what riichi and the tenpai payment ask (state_score.c:8) is a
\* hand that a tile which may exist completes.
THEOREM TenpaiAlwaysWaits == Spec => []TenpaiWaitsForSomething
  BY HandInvHolds, TenpaiFollows, PTL

\* The whole set of tile types satisfies BlocksAssumption: of two tiles of a
\* sequence there is always a third.
LEMMA AllTypesHaveThirds ==
  /\ Orphans \subseteq TileType
  /\ \A t, u \in TileType :
       t < u /\ u <= t + 2 /\ InOneSuit({t, u}) =>
         \E x, i \in TileType : /\ {i, i + 1, i + 2} = {t, u, x} /\ x \notin {t, u}
                                /\ InOneSuit({t, u, x})
  <1>1. ASSUME NEW t \in TileType, NEW u \in TileType,
               t < u, u <= t + 2, InOneSuit({t, u})
        PROVE  \E x, i \in TileType : /\ {i, i + 1, i + 2} = {t, u, x} /\ x \notin {t, u}
                                      /\ InOneSuit({t, u, x})
    <2>1. t \in Int /\ u \in Int /\ 0 <= t /\ u <= 33
      BY DEF TileType
    <2>2. Suit(t) = Suit(u) /\ Suit(t) # HONOR
      <3>1. ~ \E y \in {t, u} : {t, u} = {y}
        BY <1>1, <2>1
      <3> QED
        BY <1>1, <3>1 DEF InOneSuit
    <2>3. t \div 9 = u \div 9 /\ t \div 9 # 3
      BY <2>2 DEF Suit, HONOR
    <2>4. ASSUME NEW x \in TileType, NEW i \in TileType, {i, i + 1, i + 2} = {t, u, x},
                 x \notin {t, u}, x \div 9 = t \div 9
          PROVE  \E y, j \in TileType : /\ {j, j + 1, j + 2} = {t, u, y} /\ y \notin {t, u}
                                        /\ InOneSuit({t, u, y})
      <3>1. Suit(x) = Suit(t)
        BY <2>4 DEF Suit
      <3>2. InOneSuit({t, u, x})
        BY <2>2, <3>1 DEF InOneSuit
      <3> QED
        BY <2>4, <3>2
    <2>5. CASE u = t + 2
      <3>1. t + 1 \in TileType /\ {t, t + 1, t + 2} = {t, u, t + 1} /\ t + 1 \notin {t, u}
        BY <2>1, <2>5 DEF TileType
      <3>2. (t + 1) \div 9 = t \div 9
        BY <2>1, <2>3, <2>5
      <3> QED
        BY <2>4, <3>1, <3>2
    <2>6. CASE u = t + 1 /\ (t + 2) \div 9 = t \div 9
      <3>1. t + 2 \in TileType
        BY <2>1, <2>3, <2>6 DEF TileType
      <3>2. {t, t + 1, t + 2} = {t, u, t + 2} /\ t + 2 \notin {t, u}
        BY <2>1, <2>6
      <3> QED
        BY <2>4, <2>6, <3>1, <3>2
    <2>7. CASE u = t + 1 /\ (t + 2) \div 9 # t \div 9
      <3>1. t - 1 \in Int /\ t - 1 >= 0 /\ (t - 1) \div 9 = t \div 9
        BY <2>1, <2>3, <2>7
      <3>2. t - 1 \in TileType
        BY <2>1, <3>1 DEF TileType
      <3>3. {t - 1, (t - 1) + 1, (t - 1) + 2} = {t, u, t - 1} /\ t - 1 \notin {t, u}
        <4>1. (t - 1) + 1 = t /\ (t - 1) + 2 = t + 1 /\ t - 1 # t /\ t - 1 # t + 1
          BY <2>1
        <4> QED
          BY <2>7, <4>1
      <3> QED
        BY <2>4, <3>1, <3>2, <3>3
    <2>8. u = t + 1 \/ u = t + 2
      BY <1>1, <2>1
    <2> QED
      BY <2>5, <2>6, <2>7, <2>8
  <1> QED
    BY <1>1, ThirteenOrphans
=============================================================================
