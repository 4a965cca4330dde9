------------------------------ MODULE HandCheck ------------------------------
(***************************************************************************)
(* When is a hand complete: src/core/hand_check.c.  A hand counts its      *)
(* concealed tiles by type; it has m melds beside them.                    *)
(***************************************************************************)
EXTENDS Tiles, FiniteSetsExt, Functions

MAX_MELDS == 4

Total(c) == SumFunction(c)
Held(c)  == {t \in DOMAIN c : c[t] > 0}

\* Without n tiles of each of these types.
Take(c, n, ts) == [t \in DOMAIN c |-> IF t \in ts THEN c[t] - n ELSE c[t]]

AfterDraw(c, type)    == [c EXCEPT ![type] = @ + 1]
AfterDiscard(c, type) == [c EXCEPT ![type] = @ - 1]

Contains(c, n, ts) == ts \subseteq DOMAIN c /\ \A t \in ts : c[t] >= n

HasSequence(c, type) ==
  StartsSequence(type) /\ Contains(c, 1, SequenceFrom(type))

When(condition, x) == IF condition THEN {x} ELSE {}

\* The hands left without a meld of the first tile.
AfterMeld(c) ==
  IF Held(c) = {}
    THEN {}
    ELSE LET i == Min(Held(c))
         IN When(c[i] >= 3, Take(c, 3, {i}))
              \cup When(HasSequence(c, i), Take(c, 1, SequenceFrom(i)))

\* Every way to divide the tiles into melds has one with the first of them:
\* left[n] are the hands left after n such melds.
RemoveMelds(c, needed) ==
  LET left[n \in 0 .. MAX_MELDS] ==
        IF n = 0 THEN {c} ELSE UNION {AfterMeld(d) : d \in left[n - 1]}
  IN left[needed] # {}

CheckStandard(c, needed) ==
  \E i \in DOMAIN c : c[i] >= 2 /\ RemoveMelds(Take(c, 2, {i}), needed)

Bug_FourAreTwoPairs(c) == \A t \in DOMAIN c : c[t] \in {0, 2, 4}

CheckSevenPairs(c) == \A t \in DOMAIN c : c[t] \in {0, 2}

Orphans == {t \in TileType : IsYaochu(t)}

CheckKokushi(c) ==
  /\ Contains(c, 1, Orphans)
  /\ \E pair \in Orphans : {t \in Orphans : c[t] >= 2} = {pair}

IsComplete(c, m) ==
  /\ Total(c) = 3 * (MAX_MELDS - m) + 2
  /\ \/ m = 0 /\ (CheckKokushi(c) \/ CheckSevenPairs(c))
     \/ CheckStandard(c, MAX_MELDS - m)
=============================================================================
