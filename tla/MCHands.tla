------------------------------- MODULE MCHands -------------------------------
(* Deals for Hands: the shapes that are hard to tell apart.                 *)
EXTENDS Hands

\* The tile types, given one by one, as a hand.
HandOf(s) == [t \in Types |-> Cardinality({i \in DOMAIN s : s[i] = t})]

Dealt(s, m) == [tiles |-> HandOf(s), melds |-> m]

\* All thirteen orphans and three more types of the first suit.
ManyTypes == Orphans \cup 1 .. 3

\* Thirteen tiles: kokushi with and without its pair, six pairs, four tiles of
\* a type among pairs.
ClosedDeals ==
  {Dealt(<<0, 8, 9, 17, 18, 26, 27, 28, 29, 30, 31, 32, 33>>, 0),
   Dealt(<<0, 0, 9, 17, 18, 26, 27, 28, 29, 30, 31, 32, 33>>, 0),
   Dealt(<<0, 0, 9, 9, 17, 17, 27, 27, 31, 31, 33, 33, 1>>, 0),
   Dealt(<<0, 0, 0, 0, 9, 9, 17, 17, 27, 27, 31, 31, 2>>, 0)}

\* Hands of seven tiles of four types in a row beside two melds, and hands of
\* four tiles, honors among them, beside three melds.
OpenDeals ==
  {[tiles |-> [t \in ManyTypes |-> IF t \in DOMAIN c THEN c[t] ELSE 0],
    melds |-> 2] : c \in {f \in [0 .. 3 -> {0, 1, 3, 4}] : SumFunction(f) = 7}}
    \cup {Dealt(<<a, b, c, d>>, 3) : a, b, c, d \in {0, 1, 2, 27}}

MCDeals == ClosedDeals \cup OpenDeals
=============================================================================
