-------------------------------- MODULE Score --------------------------------
(***************************************************************************)
(* What a winning hand is worth: the yaku it has, its han and fu and what  *)
(* it earns (src/core/state_yaku.c), at two moments: when the win is       *)
(* declared (state_tsumo.c, state_ron.c) and when the ended round is       *)
(* settled, from a state rebuilt out of what the round end left behind     *)
(* (cj4_yaku_prepare_round_end_state).                                     *)
(*                                                                         *)
(* A win is one player's hand with the winning tile in it:                 *)
(*   tiles    concealed tiles by type, the winning tile counted            *)
(*   melds    sequence of [kind, base], base being the lowest type         *)
(*   type     the type of the winning tile                                 *)
(*   live     the phase it comes in: DRAW, DISCARD, or the resolution of a *)
(*            kan                                                          *)
(*   rinshan, empty    drawn from the dead wall; no live tile is left      *)
(*   riichi, double_riichi, ippatsu, furiten, dealer                       *)
(*   first_turn        nobody has called and it is the first draw          *)
(*   round_wind, seat_wind                                                 *)
(*   dora, ura, aka    indicated types in sequence; number of red tiles    *)
(*   reading           the division and the place of the winning tile that *)
(*                     the hand was put together by, for the properties    *)
(***************************************************************************)
EXTENDS HandCheck, Points, Sequences

CONSTANTS
  Wins,       \* the wins of the instance
  RuleSets,   \* the rules they are played under
  MaxWinners  \* how many players may win with the same tile

LivePhases == {"DRAW", "DISCARD", "KAKAN_RESOLVE", "ANKAN_RESOLVE"}

MeldKinds  == {"CHI", "PON", "ANKAN", "MINKAN", "KAKAN"}

WinFields ==
  {"tiles", "melds", "type", "live", "rinshan", "empty", "riichi", "double_riichi", "ippatsu",
   "furiten", "dealer", "first_turn", "round_wind", "seat_wind", "dora", "ura", "aka", "reading"}

IsWin(w) ==
  /\ DOMAIN w = WinFields
  /\ w.live \in LivePhases
  /\ DOMAIN w.tiles \subseteq TileType /\ w.tiles \in [DOMAIN w.tiles -> 0 .. TILE_PER_TYPE]
  /\ w.type \in DOMAIN w.tiles /\ w.tiles[w.type] > 0
  /\ w.melds \in Seq([kind : MeldKinds, base : TileType]) /\ Len(w.melds) <= MAX_MELDS
  /\ \A i \in DOMAIN w.melds : w.melds[i].kind = "CHI" => StartsSequence(w.melds[i].base)
  /\ Total(w.tiles) = 3 * (MAX_MELDS - Len(w.melds)) + 2
  /\ w.dealer \in BOOLEAN /\ w.riichi \in BOOLEAN
  /\ w.round_wind \in Winds /\ w.seat_wind \in Winds
  /\ w.dora \in Seq(TileType) /\ w.ura \in Seq(TileType) /\ w.aka \in Nat

ASSUME WinsAssumption == \A w \in Wins : IsWin(w)
ASSUME WinnersAssumption == MaxWinners \in 1 .. 3
ASSUME RulesAssumption ==
  \A r \in RuleSets : /\ r.kuitan \in BOOLEAN
                      /\ r.kazoe_yakuman \in BOOLEAN /\ r.kiriage_mangan \in BOOLEAN

NONE == "NONE"

-----------------------------------------------------------------------------
(* The context of a win                                                    *)

Kind(meld) == CASE meld.kind = "CHI" -> "SEQUENCE"
                [] meld.kind = "PON" -> "TRIPLET"
                [] meld.kind \in {"ANKAN", "MINKAN", "KAKAN"} -> "QUAD"

\* A group of a divided hand; wins says that it holds the winning tile.
MeldGroup(meld) ==
  [kind |-> Kind(meld), base |-> meld.base, open |-> meld.kind # "ANKAN", wins |-> FALSE]

GroupTypes(g) == IF g.kind = "SEQUENCE" THEN SequenceFrom(g.base) ELSE {g.base}
GroupCount(g, t) ==
  IF t \notin GroupTypes(g)
    THEN 0
    ELSE CASE g.kind = "SEQUENCE" -> 1 [] g.kind = "TRIPLET" -> 3 [] g.kind = "QUAD" -> 4

Melds(w) == [i \in DOMAIN w.melds |-> MeldGroup(w.melds[i])]

IsClosed(w) == \A i \in DOMAIN w.melds : w.melds[i].kind = "ANKAN"

Bug_OpenKansOnly(w) ==
  Cardinality({i \in DOMAIN w.melds : w.melds[i].kind \in {"MINKAN", "KAKAN"}})

Quads(w) == Cardinality({i \in DOMAIN w.melds : Kind(w.melds[i]) = "QUAD"})

AllTypes(w) ==
  Held(w.tiles) \cup UNION {GroupTypes(Melds(w)[i]) : i \in DOMAIN w.melds}

\* All tiles, concealed and melded, by type.
TotalCounts(w) ==
  [t \in AllTypes(w) |->
     (IF t \in DOMAIN w.tiles THEN w.tiles[t] ELSE 0)
       + SumFunction([i \in DOMAIN w.melds |-> GroupCount(Melds(w)[i], t)])]

TotalOf(c, t) == IF t \in DOMAIN c.total THEN c.total[t] ELSE 0

\* cj4_yaku_detect_win_state
DetectWin(w, s) ==
  LET ron == ~ s.own
  IN CASE s.phase = "DRAW" /\ s.own /\ s.drawn -> "TSUMO"
       [] s.phase = "DISCARD" /\ ron /\ s.discarded -> "RON"
       [] s.phase \in {"KAKAN_RESOLVE", "ANKAN_RESOLVE"} /\ s.chankan /\ ron
            /\ s.pending # NONE -> "CHANKAN"
       [] OTHER -> NONE

\* cj4_yaku_collect_context
Context(w, s) ==
  LET how == DetectWin(w, s)
  IN [win     |-> IF how = "CHANKAN" THEN "RON" ELSE how,
      rinshan |-> how = "TSUMO" /\ w.rinshan,
      haitei  |-> how = "TSUMO" /\ ~ w.rinshan /\ w.empty,
      houtei  |-> how = "RON" /\ w.empty,
      chankan |-> how = "CHANKAN",
      total   |-> TotalCounts(w),
      suits   |-> {Suit(t) : t \in AllTypes(w)} \ {HONOR},
      honor   |-> \E t \in AllTypes(w) : Suit(t) = HONOR,
      simple  |-> \E t \in AllTypes(w) : ~ IsYaochu(t),
      terminal |-> \E t \in AllTypes(w) : Number(t) \in {1, 9}]

-----------------------------------------------------------------------------
(* Yaku that the tiles alone decide                                        *)

IsChiitoi(w) == w.melds = <<>> /\ CheckSevenPairs(w.tiles)

\* The orphan whose second tile makes the hand.
IsKokushi(w) == w.melds = <<>> /\ CheckKokushi(w.tiles)
IsKokushi13Wait(w) == IsKokushi(w) /\ w.tiles[w.type] = 2

\* 1112345678999 and any tile of the suit.
NineGates(n) == IF n \in {1, 9} THEN 3 ELSE 1
IsChuuren(w, c) ==
  /\ w.melds = <<>> /\ ~ c.honor /\ Cardinality(c.suits) = 1
  /\ \E suit \in c.suits : \A n \in 1 .. 9 :
       TotalOf(c, 9 * suit + n - 1) >= NineGates(n)
IsJunseiChuuren(w, c) ==
  IsChuuren(w, c) /\ w.tiles[w.type] = NineGates(Number(w.type)) + 1

GreenTypes == {19, 20, 21, 23, 25, 32}

TripletsIn(c, types) == Cardinality({t \in types : TotalOf(c, t) >= 3})

ValueWinds(w) == {w.seat_wind, w.round_wind}

\* cj4_yaku_apply_count_based_yaku
CountBasedYaku(w, rules, c) ==
  LET one_suit == Cardinality(c.suits) = 1
  IN When(w.riichi, "RIICHI")
     \cup When(w.double_riichi, "DOUBLE_RIICHI")
     \cup When(rules.ippatsu /\ w.ippatsu, "IPPATSU")
     \cup When(c.win = "TSUMO" /\ IsClosed(w), "MENZEN_TSUMO")
     \cup When(c.rinshan, "RINSHAN") \cup When(c.haitei, "HAITEI")
     \cup When(c.houtei, "HOUTEI") \cup When(c.chankan, "CHANKAN")
     \cup When(c.win = "TSUMO" /\ w.first_turn /\ w.dealer, "TENHOU")
     \cup When(c.win = "TSUMO" /\ w.first_turn /\ ~ w.dealer, "CHIIHOU")
     \cup When(IsKokushi(w), "KOKUSHI")
     \cup When(IsKokushi13Wait(w), "KOKUSHI_13")
     \cup When(IsChiitoi(w), "CHIITOI")
     \cup When(IsChuuren(w, c), "CHUUREN")
     \cup When(IsJunseiChuuren(w, c), "JUNSEI_CHUUREN")
     \cup When(/\ ~ c.honor /\ ~ c.terminal
               /\ IsClosed(w) \/ rules.kuitan, "TANYAO")
     \cup When(TripletsIn(c, Dragons \cup ValueWinds(w)) > 0, "YAKUHAI")
     \cup When(~ c.simple, "HONROUTOU")
     \cup When(c.honor /\ one_suit, "HONITSU")
     \cup When(~ c.honor /\ one_suit, "CHINITSU")
     \cup When(c.suits = {}, "TSUUIISOU")
     \cup When(AllTypes(w) \subseteq GreenTypes, "RYUUIISOU")
     \cup When(~ c.simple /\ ~ c.honor, "CHINROUTOU")
     \cup When(Quads(w) >= 3, "SANKANTSU") \cup When(Quads(w) = 4, "SUUKANTSU")
     \cup When(TripletsIn(c, Dragons) = 3, "DAISANGEN")
     \cup When(TripletsIn(c, Winds) = 4, "DAISUUSHII")

-----------------------------------------------------------------------------
(* Yaku of one reading of the hand: its four groups and its pair           *)

IsSequence(g)    == g.kind = "SEQUENCE"
HasYaochu(g)     == IF IsSequence(g) THEN Number(g.base) \in {1, 7} ELSE IsYaochu(g.base)
IsValuePair(w, t) == t \in Dragons \cup ValueWinds(w)

Bug_SevenIsRyanmen(g, type) ==
  /\ IsSequence(g) /\ g.wins
  /\ \/ type = g.base
     \/ type = g.base + 2 /\ Number(g.base) # 1

\* The winning tile is at an end of the sequence, and the other end was open.
IsRyanmenWait(g, type) ==
  /\ IsSequence(g) /\ g.wins
  /\ \/ type = g.base /\ Number(g.base) # 7
     \/ type = g.base + 2 /\ Number(g.base) # 1

\* A triplet completed by another player's tile is not concealed.
IsConcealedTriplet(g, c) ==
  ~ IsSequence(g) /\ ~ g.open /\ ~ (c.win = "RON" /\ g.wins)

\* Two equal sequences, counted once for every two.
EqualSequences(gs) ==
  SumFunction([b \in {g.base : g \in {gs[i] : i \in DOMAIN gs}} |->
    Cardinality({i \in DOMAIN gs : IsSequence(gs[i]) /\ gs[i].base = b}) \div 2])

\* cj4_yaku_evaluate_decomposition
DecompositionYaku(w, c, d) ==
  LET gs        == d.groups
      bases     == {gs[i].base : i \in {j \in DOMAIN gs : IsSequence(gs[j])}}
      triplets  == {i \in DOMAIN gs : ~ IsSequence(gs[i])}
      types     == {gs[i].base : i \in triplets}
      concealed == Cardinality({i \in triplets : IsConcealedTriplet(gs[i], c)})
      equal     == EqualSequences(gs)
      yaochu    == /\ bases # {} /\ IsYaochu(d.pair)
                   /\ \A i \in DOMAIN gs : HasYaochu(gs[i])
  IN When(/\ IsClosed(w) /\ triplets = {} /\ ~ d.pair_wins /\ ~ IsValuePair(w, d.pair)
          /\ \E i \in DOMAIN gs : IsRyanmenWait(gs[i], w.type), "PINFU")
     \cup When(IsClosed(w) /\ equal = 1, "IIPEIKOU")
     \cup When(IsClosed(w) /\ equal >= 2, "RYANPEIKOU")
     \cup When(\E b \in bases : {b, b + 9, b + 18} \subseteq bases, "SANSHOKU_DOUJUN")
     \cup When(\E b \in bases : Number(b) = 1 /\ {b, b + 3, b + 6} \subseteq bases, "ITTSUU")
     \cup When(\E t \in types : /\ Suit(t) = MANZU
                                /\ {t, t + 9, t + 18} \subseteq types, "SANSHOKU_DOUKOU")
     \cup When(yaochu /\ ~ c.honor, "JUNCHAN")
     \cup When(yaochu /\ c.honor, "CHANTA")
     \cup When(concealed >= 3, "SANANKOU")
     \cup When(Cardinality(types \cap Dragons) = 2 /\ d.pair \in Dragons, "SHOUSANGEN")
     \cup When(Cardinality(types \cap Winds) = 3 /\ d.pair \in Winds, "SHOUSUUSHII")
     \cup When(concealed = 4, "SUUANKOU")
     \cup When(concealed = 4 /\ d.pair_wins, "SUUANKOU_TANKI")
     \cup When(Cardinality(triplets) = 4, "TOITOI")

-----------------------------------------------------------------------------
(* The readings of a hand                                                  *)

NO_PAIR == -1

\* A hand partly divided: the tiles left, whether the winning tile is still to
\* be placed, the groups found, the pair, and whether it took the winning tile.
Undivided(w, c) ==
  [tiles |-> w.tiles, available |-> c.win # NONE,
   groups |-> Melds(w), pair |-> NO_PAIR, pair_wins |-> FALSE]

\* What may be cut off it when its first tile is i.
Cuts(r, i) ==
  LET Cut(kind, n, types) == [kind |-> kind, n |-> n, types |-> types]
  IN When(r.pair = NO_PAIR /\ r.tiles[i] >= 2, Cut("PAIR", 2, {i}))
     \cup When(Len(r.groups) < MAX_MELDS /\ r.tiles[i] >= 3, Cut("TRIPLET", 3, {i}))
     \cup When(Len(r.groups) < MAX_MELDS /\ HasSequence(r.tiles, i),
               Cut("SEQUENCE", 1, SequenceFrom(i)))

\* Does the cut take the winning tile?  It may where the tile is still to be
\* placed, and must where no other tile of the type is left.
Bug_AlwaysAtOnce(r, cut, type) == {r.available /\ type \in cut.types}

Takes(r, cut, type) ==
  IF r.available /\ type \in cut.types
    THEN {wins \in BOOLEAN : wins \/ r.tiles[type] > cut.n}
    ELSE {FALSE}

After(r, i, cut, wins) ==
  [tiles     |-> Take(r.tiles, cut.n, cut.types),
   available |-> r.available /\ ~ wins,
   groups    |-> IF cut.kind = "PAIR"
                   THEN r.groups
                   ELSE Append(r.groups, [kind |-> cut.kind, base |-> i,
                                          open |-> FALSE, wins |-> wins]),
   pair      |-> IF cut.kind = "PAIR" THEN i ELSE r.pair,
   pair_wins |-> IF cut.kind = "PAIR" THEN wins ELSE r.pair_wins]

Divided(r, type) ==
  IF Held(r.tiles) = {}
    THEN {}
    ELSE LET i == Min(Held(r.tiles))
         IN UNION {{After(r, i, cut, wins) : wins \in Takes(r, cut, type)} :
                     cut \in Cuts(r, i)}

IsWhole(r) ==
  Held(r.tiles) = {} /\ r.pair # NO_PAIR /\ Len(r.groups) = MAX_MELDS /\ ~ r.available

\* cj4_yaku_search_standard and cj4_yaku_search_best_standard: the divisions
\* of the tiles, each with each place for the winning tile.  A hand with m
\* melds takes one cut for the pair and 4 - m for its groups.
ReadingsOf(w, c) ==
  LET partly[n \in 0 .. MAX_MELDS + 1] ==
        IF n = 0 THEN {Undivided(w, c)}
                 ELSE UNION {Divided(r, w.type) : r \in partly[n - 1]}
  IN {[groups |-> r.groups, pair |-> r.pair, pair_wins |-> r.pair_wins] :
        r \in {x \in partly[MAX_MELDS + 1 - Len(w.melds)] : IsWhole(x)}}

\* cj4_has_yaku
HasYaku(w, rules, c) ==
  /\ IsComplete(w.tiles, Len(w.melds))
  /\ \/ CountBasedYaku(w, rules, c) # {}
     \/ /\ ~ IsChiitoi(w) /\ ~ IsKokushi(w)
        /\ \E d \in ReadingsOf(w, c) : DecompositionYaku(w, c, d) # {}

-----------------------------------------------------------------------------
(* Yakuman, han and fu                                                     *)

Valued(yaku, worth) == SumFunction([y \in yaku \cap DOMAIN worth |-> worth[y]])

Double(enabled) == IF enabled THEN 2 ELSE 1

YakumanWorth(rules) ==
  [KOKUSHI_13     |-> Double(rules.kokushi_13_wait_double),
   SUUANKOU_TANKI |-> Double(rules.suuankou_tanki_double),
   JUNSEI_CHUUREN |-> Double(rules.junsei_chuuren_double),
   DAISUUSHII     |-> Double(rules.daisuushii_double),
   KOKUSHI |-> 1, SUUANKOU |-> 1, CHUUREN |-> 1, DAISANGEN |-> 1,
   SHOUSUUSHII |-> 1, TSUUIISOU |-> 1, RYUUIISOU |-> 1, CHINROUTOU |-> 1,
   SUUKANTSU |-> 1, TENHOU |-> 1, CHIIHOU |-> 1]

\* cj4_yaku_count_yakuman; the form that counts double stands for the plain.
Yakuman(yaku, rules) ==
  LET implied == When("KOKUSHI_13" \in yaku, "KOKUSHI")
                   \cup When("SUUANKOU_TANKI" \in yaku, "SUUANKOU")
                   \cup When("JUNSEI_CHUUREN" \in yaku, "CHUUREN")
  IN Valued(yaku \ implied, YakumanWorth(rules))

\* A triplet of the own wind counts again when it is the round's.
YakuhaiHan(w, c) ==
  TripletsIn(c, Dragons) + TripletsIn(c, {w.seat_wind}) + TripletsIn(c, {w.round_wind})

Indicated(c, types) == SumFunction([i \in DOMAIN types |-> TotalOf(c, types[i])])

HanWorth(w, c) ==
  LET closed == IsClosed(w)
  IN [RIICHI |-> 1, DOUBLE_RIICHI |-> 2, IPPATSU |-> 1, MENZEN_TSUMO |-> 1,
      TANYAO |-> 1, CHIITOI |-> 2, TOITOI |-> 2, HONROUTOU |-> 2,
      HONITSU  |-> IF closed THEN 3 ELSE 2,
      CHINITSU |-> IF closed THEN 6 ELSE 5,
      PINFU |-> 1, IIPEIKOU |-> 1, RYANPEIKOU |-> 3,
      SANSHOKU_DOUJUN |-> IF closed THEN 2 ELSE 1,
      ITTSUU          |-> IF closed THEN 2 ELSE 1,
      JUNCHAN         |-> IF closed THEN 3 ELSE 2,
      CHANTA          |-> IF closed THEN 2 ELSE 1,
      SANANKOU |-> 2, SHOUSANGEN |-> 2, SANKANTSU |-> 2, SANSHOKU_DOUKOU |-> 2,
      RINSHAN |-> 1, HAITEI |-> 1, HOUTEI |-> 1, CHANKAN |-> 1,
      YAKUHAI |-> YakuhaiHan(w, c)]

\* cj4_yaku_count_han
Han(w, c, yaku) ==
  Valued(yaku \ When("DOUBLE_RIICHI" \in yaku, "RIICHI"), HanWorth(w, c))
    + Indicated(c, w.dora) + w.aka + (IF w.riichi THEN Indicated(c, w.ura) ELSE 0)

One(condition) == IF condition THEN 1 ELSE 0

PairFu(w, t) == 2 * (One(t \in Dragons) + One(t = w.seat_wind) + One(t = w.round_wind))

GroupFu(g, c) ==
  LET concealed == IsConcealedTriplet(g, c)
      simple == CASE g.kind = "SEQUENCE" -> 0
                  [] g.kind = "TRIPLET"  -> IF concealed THEN 4 ELSE 2
                  [] g.kind = "QUAD"     -> IF concealed THEN 16 ELSE 8
  IN IF IsYaochu(g.base) THEN 2 * simple ELSE simple

\* Two for a wait on a single type within a sequence or on the pair.
WaitFu(w, d) ==
  IF \/ d.pair_wins
     \/ \E i \in DOMAIN d.groups :
          LET g == d.groups[i]
          IN IsSequence(g) /\ g.wins /\ ~ IsRyanmenWait(g, w.type)
    THEN 2 ELSE 0

NO_READING == [groups |-> <<>>, pair |-> NO_PAIR, pair_wins |-> FALSE]

RoundUp10(fu) == ((fu + 9) \div 10) * 10

\* cj4_yaku_calculate_fu
Fu(w, c, d, yaku) ==
  LET pinfu == "PINFU" \in yaku
      shape == IF d = NO_READING
                 THEN 0
                 ELSE PairFu(w, d.pair) + (IF pinfu THEN 0 ELSE WaitFu(w, d))
                        + SumFunction([i \in DOMAIN d.groups |-> GroupFu(d.groups[i], c)])
      fu == 20 + (IF c.win = "RON" /\ IsClosed(w) THEN 10 ELSE 0)
               + (IF c.win = "TSUMO" THEN 2 ELSE 0) + shape
  IN CASE "CHIITOI" \in yaku -> 25
       [] "CHIITOI" \notin yaku /\ pinfu /\ c.win = "TSUMO" -> 20
       [] OTHER -> IF fu = 20 /\ c.win = "RON" THEN 30 ELSE RoundUp10(fu)

-----------------------------------------------------------------------------
(* The score                                                               *)

\* cj4_yaku_consider_score: the score of a reading that has these yaku.  value
\* is what two readings are compared by.
Scored(w, rules, c, d, yaku) ==
  LET yakuman == Yakuman(yaku, rules)
      hand    == [yakuman |-> yakuman,
                  han     |-> IF yakuman = 0 THEN Han(w, c, yaku) ELSE 0,
                  fu      |-> Fu(w, c, d, yaku)]
      base    == BasicPoints(hand, rules)
      tsumo   == c.win = "TSUMO"
      dealer  == IF tsumo THEN TsumoDealerPayment(base, w.dealer) ELSE 0
      others  == IF tsumo THEN TsumoNonDealerPayment(base, w.dealer) ELSE 0
      ron     == IF tsumo THEN 0 ELSE RonPoints(base, w.dealer)
  IN [han |-> hand.han, fu |-> hand.fu, yakuman |-> YakumanCount(hand, rules),
      ron_points |-> ron, tsumo_dealer_payment |-> dealer,
      tsumo_non_dealer_payment |-> others,
      value |-> CASE ~ tsumo -> ron
                  [] tsumo /\ w.dealer -> 3 * others
                  [] tsumo /\ ~ w.dealer -> dealer + 2 * others]

Better(a, b) ==
  \/ a.value > b.value
  \/ a.value = b.value /\ a.han > b.han
  \/ a.value = b.value /\ a.han = b.han /\ a.fu > b.fu

BestOf(scores) == CHOOSE s \in scores : \A t \in scores : ~ Better(t, s)

\* What the hand may be scored as: seven pairs or orphans as such, and by each
\* reading.
Candidates(w, rules, c) ==
  LET base     == CountBasedYaku(w, rules, c)
      standard == base \ {"CHIITOI"}
  IN When({"CHIITOI", "KOKUSHI"} \cap base # {},
          [yaku |-> base, reading |-> NO_READING])
     \cup (IF "KOKUSHI" \in base
             THEN {}
             ELSE {[yaku |-> standard \cup DecompositionYaku(w, c, d), reading |-> d] :
                     d \in ReadingsOf(w, c)})

NO_SCORE == [value |-> 0]
UNKNOWN  == [value |-> -1]

\* cj4_yaku_collect_best_result
BestResult(w, rules, c) ==
  LET scores == {Scored(w, rules, c, k.reading, k.yaku) :
                   k \in {x \in Candidates(w, rules, c) : x.yaku # {}}}
  IN IF IsComplete(w.tiles, Len(w.melds)) /\ scores # {} THEN BestOf(scores) ELSE NO_SCORE

-----------------------------------------------------------------------------
(* A win is declared, the round ends, and the settlement scores it         *)

VARIABLES
  win,        \* the winning hand and how it wins, fixed
  rules,      \* the rules, fixed
  state,      \* the part of the round that the context is read from
  declared,   \* the score the hand had when the win was declared
  result      \* what cj4_calculate_hand_score makes of the ended round

vars == <<win, rules, state, declared, result>>

\* own: the winner is the current player; drawn, discarded: the winning tile
\* is draw_tile, the last discard; pending: which pending kan tile it is.
LiveState(w) ==
  [phase     |-> w.live,
   own       |-> w.live = "DRAW",
   drawn     |-> w.live = "DRAW",
   discarded |-> w.live = "DISCARD",
   pending   |-> IF w.live \in {"KAKAN_RESOLVE", "ANKAN_RESOLVE"} THEN w.live ELSE NONE,
   chankan   |-> FALSE,
   winners   |-> 0]

Init ==
  /\ win \in Wins /\ rules \in RuleSets
  /\ state = LiveState(win)
  /\ declared = NO_SCORE /\ result = UNKNOWN

\* The copy that cj4_can_ron asks about has the tile in the hand, and is a
\* chankan only when a tile is added to a pon.
RonState == [state EXCEPT !.chankan = state.phase = "KAKAN_RESOLVE"]

CanTsumo == state.phase = "DRAW" /\ HasYaku(win, rules, Context(win, state))

CanRon ==
  /\ ~ win.furiten
  /\ \/ /\ state.phase \in {"DISCARD", "KAKAN_RESOLVE"}
        /\ HasYaku(win, rules, Context(win, RonState))
     \/ /\ state.phase = "ANKAN_RESOLVE" /\ rules.kokushi_ron_on_ankan
        /\ IsKokushi(win)

\* cj4_state_finish_tsumo
Tsumo ==
  /\ CanTsumo
  /\ state' = [state EXCEPT !.phase = "ROUND_END", !.winners = 1, !.pending = NONE]
  /\ declared' = BestResult(win, rules, Context(win, state))
  /\ UNCHANGED <<win, rules, result>>

Bug_PendingCleared(winners) ==
  [state EXCEPT !.phase = "ROUND_END", !.winners = winners, !.pending = NONE]

\* cj4_state_finish_multi_ron keeps the pending kan.
FinishMultiRon(winners) ==
  [state EXCEPT !.phase = "ROUND_END", !.winners = winners]

\* The tile may win for another player too.
Ron(winners) ==
  /\ CanRon
  /\ state' = FinishMultiRon(winners)
  /\ declared' = BestResult(win, rules,
       Context(win, [state EXCEPT !.chankan = state.pending # NONE]))
  /\ UNCHANGED <<win, rules, result>>

SelfDrawn == state.winners = 1 /\ state.own /\ state.drawn

\* cj4_yaku_prepare_round_end_state, of an ended round
Prepared ==
  CASE SelfDrawn -> [state EXCEPT !.phase = "DRAW"]
    [] ~ SelfDrawn /\ state.pending # NONE ->
         [state EXCEPT !.phase = state.pending, !.chankan = TRUE]
    [] ~ SelfDrawn /\ state.pending = NONE ->
         [state EXCEPT !.phase = "DISCARD", !.chankan = FALSE]

\* cj4_calculate_hand_score, called by cj4_do_settle
Calculate ==
  /\ state.phase = "ROUND_END" /\ result = UNKNOWN
  /\ result' = BestResult(win, rules, Context(win, Prepared))
  /\ UNCHANGED <<win, rules, state, declared>>

Next == Tsumo \/ (\E winners \in 1 .. MaxWinners : Ron(winners)) \/ Calculate

Spec == Init /\ [][Next]_vars

-----------------------------------------------------------------------------
(* Properties                                                              *)

IsOver == state.phase = "ROUND_END"

\* The context in which the win was declared.
DeclaredContext(w) ==
  Context(w, [LiveState(w) EXCEPT !.chankan = w.live \notin {"DRAW", "DISCARD"}])

\* Every win that was declared has a score once the round has ended, so that
\* the settlement's assertion holds (state_settle.c:367), and it is the score
\* the hand had when it was declared, although the state it was declared in
\* (a tile still to be claimed, a kan still to be made) is gone and rebuilt
\* (state_yaku.c:2387).
ScoredAsDeclared ==
  result # UNKNOWN => result # NO_SCORE /\ result = declared

Groups == [kind : {"SEQUENCE", "TRIPLET", "QUAD"}, base : TileType,
           open : BOOLEAN, wins : BOOLEAN]

\* The melds come first, and there are no other quads or open groups.
IsReading(d, w) ==
  /\ d.pair \in TileType /\ d.pair_wins \in BOOLEAN
  /\ d.groups \in Seq(Groups) /\ Len(d.groups) = 4
  /\ \A i \in 1 .. 4 :
       d.groups[i] \in Groups
         /\ (IF i <= Len(w.melds) THEN d.groups[i] = MeldGroup(w.melds[i])
                                  ELSE d.groups[i].kind # "QUAD" /\ ~ d.groups[i].open)

\* How many tiles of a type these of its groups have.
CountIn(d, some, t) ==
  SumFunction([i \in 1 .. 4 |-> IF i \in some THEN GroupCount(d.groups[i], t) ELSE 0])

Due(w) == (Len(w.melds) + 1) .. 4

HeldOf(w, t) == IF t \in DOMAIN w.tiles THEN w.tiles[t] ELSE 0

\* A way to read a hand, whatever order its groups are listed in: they and the
\* pair are the concealed tiles, and one of them has the winning tile.
IsDivision(d, w) ==
  /\ IsReading(d, w)
  /\ \A i \in Due(w) : IsSequence(d.groups[i]) => StartsSequence(d.groups[i].base)
  /\ \A t \in TileType : HeldOf(w, t) = CountIn(d, Due(w), t) + 2 * One(t = d.pair)
  /\ IF d.pair_wins
       THEN w.type = d.pair /\ \A i \in Due(w) : ~ d.groups[i].wins
       ELSE \E i \in Due(w) : /\ w.type \in GroupTypes(d.groups[i])
                             /\ \A j \in Due(w) : d.groups[j].wins <=> j = i

ASSUME DivisionAssumption ==
  \A w \in Wins : w.reading # NO_READING => IsDivision(w.reading, w)

\* However the hand is divided, and whichever tile of its type is said to be
\* the winning one, no way to read it is worth more than what it is paid
\* (state_yaku.c:1894).
NoBetterReading ==
  IsOver /\ win.reading # NO_READING =>
    LET c    == DeclaredContext(win)
        yaku == (CountBasedYaku(win, rules, c) \ {"CHIITOI"})
                  \cup DecompositionYaku(win, c, win.reading)
    IN yaku # {} => ~ Better(Scored(win, rules, c, win.reading, yaku), declared)

\* The same hand in another suit, counted from nine down to one.
Image(t) == IF Suit(t) = HONOR THEN t ELSE 9 * ((Suit(t) + 1) % 3) + 9 - Number(t)
Unimage(t) == Image(Image(Image(Image(Image(t)))))

Twin(w) ==
  [w EXCEPT
     !.tiles = [t \in {Image(u) : u \in DOMAIN w.tiles} |-> w.tiles[Unimage(t)]],
     !.melds = [i \in DOMAIN w.melds |->
                  [w.melds[i] EXCEPT !.base =
                     Image(IF w.melds[i].kind = "CHI" THEN @ + 2 ELSE @)]],
     !.type = Image(@),
     !.dora = [i \in DOMAIN @ |-> Image(@[i])],
     !.ura  = [i \in DOMAIN @ |-> Image(@[i])]]

IsGreen(w) == AllTypes(w) \subseteq GreenTypes

\* No suit and no end of a suit is favoured: tables and bounds by tile type
\* treat 123 as 789 and the suits alike (state_yaku.c:905).  Only the all green
\* hand knows its suit.
SuitsAlike ==
  IsOver /\ ~ IsGreen(win) /\ ~ IsGreen(Twin(win)) =>
    BestResult(Twin(win), rules, DeclaredContext(Twin(win))) = declared

\* Below five han no hand is paid more than a mangan, though the basic points
\* grow with fu and are not capped (state_yaku.c:1772): the hands with the most
\* fu have the yaku that lift them.
MostFuIsWithinMangan ==
  IsOver /\ declared.yakuman = 0 /\ declared.han <= 4 =>
    declared.value <= (IF win.dealer THEN 12000 ELSE 8000)
=============================================================================
