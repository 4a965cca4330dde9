-------------------------------- MODULE Hands --------------------------------
(***************************************************************************)
(* Is a hand complete (src/core/hand_check.c), how far is it from complete *)
(* and what does it wait for (src/core/hand_analysis.c).  A hand is how    *)
(* many concealed tiles it has of each type, beside a number of melds.     *)
(*                                                                         *)
(* The two files answer related questions by unrelated searches: the first *)
(* divides a hand into melds and a pair, the second minimises a formula    *)
(* over all ways to cut it into blocks.  Who wins rests on the first; the  *)
(* waits, and with them riichi, furiten, a kan in riichi and the tenpai    *)
(* payment, on the second.                                                 *)
(*                                                                         *)
(* The state machine below plays one hand alone: draw, discard, pon, kan.  *)
(***************************************************************************)
EXTENDS HandCheck

CONSTANTS
  Types,      \* the tile types of the instance
  Deals,      \* the hands it starts from
  Draws,      \* the types it draws or is offered
  MaxSteps    \* how often it draws or is offered a tile

ASSUME TypesAssumption == Types \subseteq TileType
ASSUME DealsAssumption ==
  /\ Deals \subseteq [tiles : [Types -> 0 .. TILE_PER_TYPE], melds : 0 .. MAX_MELDS]
  /\ \A deal \in Deals : Total(deal.tiles) = 3 * (MAX_MELDS - deal.melds) + 1
ASSUME DrawsAssumption == Draws \subseteq Types
ASSUME StepsAssumption == MaxSteps \in Nat

NOT_APPLICABLE == 127

-----------------------------------------------------------------------------
(* hand_analysis.c                                                         *)

\* The blocks that may be cut from a hand whose first tile is i, each with
\* what it adds to the search: n tiles of each of the types.
Blocks(i) ==
  {[n |-> 3, types |-> {i},              meld |-> 1, taatsu |-> 0, pair |-> 0],
   [n |-> 1, types |-> {i, i + 1, i + 2}, meld |-> 1, taatsu |-> 0, pair |-> 0],
   [n |-> 2, types |-> {i},              meld |-> 0, taatsu |-> 0, pair |-> 1],
   [n |-> 2, types |-> {i},              meld |-> 0, taatsu |-> 1, pair |-> 0],
   [n |-> 1, types |-> {i, i + 1},        meld |-> 0, taatsu |-> 1, pair |-> 0],
   [n |-> 1, types |-> {i, i + 2},        meld |-> 0, taatsu |-> 1, pair |-> 0],
   [n |-> 1, types |-> {i},              meld |-> 0, taatsu |-> 0, pair |-> 0]}

InOneSuit(ts) ==
  \/ \E t \in ts : ts = {t}
  \/ \A t, u \in ts : Suit(t) = Suit(u) /\ Suit(t) # HONOR

BlocksFrom ==
  [i \in Types |-> {b \in Blocks(i) : InOneSuit(b.types) /\ b.types \subseteq Types}]

\* The instance has every orphan and, with any two tiles of a sequence, a third,
\* as the whole set of types has.
ASSUME BlocksAssumption ==
  /\ Orphans \subseteq Types
  /\ \A t, u \in Types :
       t < u /\ u <= t + 2 /\ InOneSuit({t, u}) =>
         \E x, i \in Types : /\ {i, i + 1, i + 2} = {t, u, x} /\ x \notin {t, u}
                             /\ InOneSuit({t, u, x})

\* A hand partly cut into blocks, and those that may be cut off it when its
\* first tile is i.
Admitted(s, i) ==
  {b \in BlocksFrom[i] : /\ Contains(s.tiles, b.n, b.types)
                         /\ s.melds + b.meld <= MAX_MELDS
                         /\ s.taatsu + b.taatsu <= MAX_MELDS
                         /\ s.pair + b.pair <= 1}

Uncut(c, m) == [tiles |-> c, melds |-> m, taatsu |-> 0, pair |-> 0]

CutOff(s, b) ==
  [tiles  |-> Take(s.tiles, b.n, b.types), melds |-> s.melds + b.meld,
   taatsu |-> s.taatsu + b.taatsu,         pair  |-> s.pair + b.pair]

AfterBlock(s) ==
  IF Held(s.tiles) = {}
    THEN {s}
    ELSE {CutOff(s, b) : b \in Admitted(s, Min(Held(s.tiles)))}

Bug_SlotKeptForPair(m, taatsu, pair) ==
  8 - 2 * m - Min({taatsu, MAX_MELDS - m - 1}) - pair

\* Four melds or taatsu count at most, and one pair.
BlockShanten(m, taatsu, pair) ==
  8 - 2 * m - Min({taatsu, MAX_MELDS - m}) - pair

\* cj4_standard_shanten_search: the least shanten over all ways to cut the
\* tiles into blocks; cut[n] are the hands after n of them.
StandardShanten(c, m) ==
  LET cut[n \in 0 .. Total(c)] ==
        IF n = 0 THEN {Uncut(c, m)} ELSE UNION {AfterBlock(s) : s \in cut[n - 1]}
  IN Min({BlockShanten(s.melds, s.taatsu, s.pair) : s \in cut[Total(c)]})

Bug_AnyTwoTiles(c, m) ==
  IF m # 0 THEN NOT_APPLICABLE
           ELSE 6 - SumFunction([t \in Types |-> c[t] \div 2])

\* Seven pairs need seven types: a fourth tile is no second pair.
ChiitoitsuShanten(c, m) ==
  IF m # 0
    THEN NOT_APPLICABLE
    ELSE LET pairs == Cardinality({t \in Types : c[t] >= 2})
             distinct == Cardinality(Held(c))
         IN 6 - pairs + Max({0, 7 - distinct})

KokushiShanten(c, m) ==
  IF m # 0
    THEN NOT_APPLICABLE
    ELSE LET held == Held(c) \cap Orphans
         IN 13 - Cardinality(held)
               - (IF \E t \in held : c[t] >= 2 THEN 1 ELSE 0)

Raw(c, m) ==
  [standard   |-> StandardShanten(c, m),
   chiitoitsu |-> ChiitoitsuShanten(c, m),
   kokushi    |-> KokushiShanten(c, m)]

Minimum(r) == Min({r.standard, r.chiitoitsu, r.kokushi})

Bug_OneCandidate(rs) == CHOOSE r \in rs : TRUE

\* Field by field.
TakeMinimum(rs) ==
  [standard   |-> Min({r.standard : r \in rs}),
   chiitoitsu |-> Min({r.chiitoitsu : r \in rs}),
   kokushi    |-> Min({r.kokushi : r \in rs})]

AfterDiscardTotal(m) == 3 * (MAX_MELDS - m) + 1

\* cj4_calculate_shanten; a hand that owes a discard is as good as the best
\* hand it may become.
Shanten(c, m) ==
  IF Total(c) = AfterDiscardTotal(m)
    THEN Raw(c, m)
    ELSE TakeMinimum({Raw(AfterDiscard(c, t), m) : t \in Held(c)})

ShantenAfterDiscard(c, m, type) == Raw(AfterDiscard(c, type), m)

\* cj4_is_shape_tenpai
IsShapeTenpai(c, m) == Minimum(Shanten(c, m)) = 0

\* The fifth tile of a type is nobody's wait.
Waits(c, m) ==
  {t \in Types : /\ c[t] < TILE_PER_TYPE
                 /\ Minimum(Raw(AfterDraw(c, t), m)) = -1}

\* cj4_player_is_shape_tenpai, the tenpai of riichi and of the settlement.
PlayerIsShapeTenpai(c, m) == Waits(c, m) # {}

-----------------------------------------------------------------------------
(* One hand played alone                                                   *)

VARIABLES
  hand,       \* concealed tiles by type
  melds,      \* number of melds
  melded,     \* tiles in the own melds by type
  shanten,    \* what cj4_calculate_shanten last said of the hand
  steps       \* tiles drawn or called so far, bounded by MaxSteps

vars == <<hand, melds, melded, shanten, steps>>

OwesDiscard == Total(hand) = AfterDiscardTotal(melds) + 1

\* Nobody holds more than the four tiles of a type.
IsLeft(type) == hand[type] + melded[type] < TILE_PER_TYPE

Init ==
  \E deal \in Deals :
    /\ hand = deal.tiles /\ melds = deal.melds
    /\ melded = [t \in Types |-> 0]
    /\ shanten = Shanten(deal.tiles, deal.melds)
    /\ steps = 0

Draw(type) ==
  /\ ~ OwesDiscard /\ steps < MaxSteps /\ IsLeft(type)
  /\ hand' = AfterDraw(hand, type)
  /\ steps' = steps + 1
  /\ shanten' = Shanten(hand', melds)
  /\ UNCHANGED <<melds, melded>>

Discard(type) ==
  /\ OwesDiscard /\ hand[type] > 0
  /\ hand' = AfterDiscard(hand, type)
  /\ shanten' = ShantenAfterDiscard(hand, melds, type)
  /\ UNCHANGED <<melds, melded, steps>>

Pon(type) ==
  /\ ~ OwesDiscard /\ steps < MaxSteps /\ melds < MAX_MELDS
  /\ IsLeft(type) /\ hand[type] >= 2
  /\ hand' = Take(hand, 2, {type})
  /\ melded' = [melded EXCEPT ![type] = @ + 3]
  /\ melds' = melds + 1
  /\ shanten' = Shanten(hand', melds')
  /\ steps' = steps + 1

Ankan(type) ==
  /\ OwesDiscard /\ hand[type] = 4
  /\ hand' = Take(hand, 4, {type})
  /\ melded' = [melded EXCEPT ![type] = @ + 4]
  /\ melds' = melds + 1
  /\ shanten' = Shanten(hand', melds')
  /\ UNCHANGED steps

Next ==
  \/ \E type \in Draws : Draw(type) \/ Pon(type)
  \/ \E type \in Types : Discard(type) \/ Ankan(type)

Spec == Init /\ [][Next]_vars

-----------------------------------------------------------------------------
(* Properties                                                              *)

\* The two searches agree on which hands are complete, and so the tiles a hand
\* waits for (hand_analysis.c:381), which decide on furiten and on a kan
\* during riichi, are the tiles it may win with (hand_check.c:156).
CompletionAgrees ==
  IF OwesDiscard
    THEN IsComplete(hand, melds) <=> Minimum(Raw(hand, melds)) = -1
    ELSE Waits(hand, melds) =
           {t \in Types : /\ hand[t] < TILE_PER_TYPE
                          /\ IsComplete(AfterDraw(hand, t), melds)}

\* The two notions of tenpai.  What the players are told (hand_analysis.c:572)
\* is that some tile, be it the fifth of its type, completes the hand; what
\* riichi and the tenpai payment ask (state_score.c:8) is that a tile which may
\* exist does.  They part exactly where only a fifth tile would complete it.
TenpaiWaitsForSomething ==
  ~ OwesDiscard =>
    LET completing == {t \in Types : IsComplete(AfterDraw(hand, t), melds)}
    IN /\ IsShapeTenpai(hand, melds) <=> completing # {}
       /\ PlayerIsShapeTenpai(hand, melds)
            <=> \E t \in completing : hand[t] < TILE_PER_TYPE

\* Shanten counts exchanges: a draw improves a hand by at most one and never
\* worsens it, and the hand left by a discard is never better than promised
\* nor more than one worse (hand_analysis.c:262).
OneTileIsOneStep ==
  [][ melds' = melds =>
        Minimum(shanten') - Minimum(shanten)
          \in IF OwesDiscard THEN {0, 1} ELSE {-1, 0} ]_vars

\* No hand is stuck: while it is not tenpai, some tile brings it nearer.
\* With OneTileIsOneStep, shanten is the distance to tenpai.
SomeTileHelps ==
  ~ OwesDiscard /\ Minimum(shanten) > 0 =>
    \E t \in Types :
      Minimum(Shanten(AfterDraw(hand, t), melds)) < Minimum(shanten)
=============================================================================
