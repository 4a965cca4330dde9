------------------------------- MODULE MCScore -------------------------------
(* Wins for Score: hands put together from groups, in every way.            *)
EXTENDS Score, TLC

Group(kind, base) == [kind |-> kind, base |-> base, open |-> FALSE, wins |-> FALSE]
Sequences(bases)  == {Group("SEQUENCE", b) : b \in bases}
Triplets(bases)   == {Group("TRIPLET", b) : b \in bases}
Meld(kind, base)  == [kind |-> kind, base |-> base]

Rank(g) == g.base + (IF g.kind = "SEQUENCE" THEN 0 ELSE 34)

\* n groups in any combination, repeated or not.
Combinations(n, groups) ==
  {gs \in [1 .. n -> groups] : \A i \in 1 .. (n - 1) : Rank(gs[i]) <= Rank(gs[i + 1])}

\* How often a type is in the concealed part.
TilesIn(gs, pair, t) ==
  SumFunction([i \in DOMAIN gs |-> GroupCount(gs[i], t)]) + (IF t = pair THEN 2 ELSE 0)

TilesOf(gs, pair) ==
  [t \in {pair} \cup UNION {GroupTypes(gs[i]) : i \in DOMAIN gs} |-> TilesIn(gs, pair, t)]

Plain ==
  [live |-> "DISCARD", rinshan |-> FALSE, empty |-> FALSE, riichi |-> FALSE,
   double_riichi |-> FALSE, ippatsu |-> FALSE, furiten |-> FALSE, dealer |-> FALSE,
   first_turn |-> FALSE, round_wind |-> EAST, seat_wind |-> EAST + 1,
   dora |-> <<>>, ura |-> <<>>, aka |-> 0]

Hand(circumstances, tiles, melds, type, reading) ==
  [tiles |-> tiles, melds |-> melds, type |-> type, reading |-> reading] @@ circumstances

\* Every place of the winning tile: 0 is the pair.
Readable(melds, gs, pair, place) ==
  [groups |-> [i \in DOMAIN melds |-> MeldGroup(melds[i])]
                \o [i \in DOMAIN gs |-> [gs[i] EXCEPT !.wins = (i = place)]],
   pair |-> pair, pair_wins |-> place = 0]

HandsOf(circumstances, melds, gs, pair) ==
  LET tiles == TilesOf(gs, pair)
      types(place) == IF place = 0 THEN {pair} ELSE GroupTypes(gs[place])
      all == [tiles |-> tiles, melds |-> melds]
  IN IF \E t \in AllTypes(all) : TotalCounts(all)[t] > TILE_PER_TYPE
       THEN {}
       ELSE UNION {{Hand(s, tiles, melds, type, Readable(melds, gs, pair, place)) :
                      s \in circumstances, type \in types(place)} :
                   place \in 0 .. Len(gs)}

Pool(circumstances, melds, groups, pairs) ==
  UNION {HandsOf(circumstances, melds, gs, pair) :
           gs \in Combinations(MAX_MELDS - Len(melds), groups), pair \in pairs}

Tsumo0  == [Plain EXCEPT !.live = "DRAW", !.empty = TRUE, !.dealer = TRUE, !.seat_wind = EAST]
Riichi  == [Plain EXCEPT !.riichi = TRUE, !.double_riichi = TRUE, !.ippatsu = TRUE,
                         !.dora = <<0>>, !.ura = <<1, 10>>]
Dealer  == [Plain EXCEPT !.dealer = TRUE, !.seat_wind = EAST]
Houtei  == [Plain EXCEPT !.empty = TRUE]
Chankan == [Plain EXCEPT !.live = "KAKAN_RESOLVE", !.aka = 1]
Ankan   == [Plain EXCEPT !.live = "ANKAN_RESOLVE"]
Rinshan == [Plain EXCEPT !.live = "DRAW", !.rinshan = TRUE, !.dora = <<27, 8>>]
First   == [Plain EXCEPT !.live = "DRAW", !.first_turn = TRUE]
Furiten == [Plain EXCEPT !.furiten = TRUE]

\* Closed hands of one suit, whose tiles can be divided in several ways.
OneSuit ==
  Pool({Plain, Tsumo0}, <<>>, Sequences(0 .. 2) \cup Triplets({0, 1}), {3, 27})

\* Groups that make a yaku across suits, at the ends of a suit and with honors.
ManySuits ==
  Pool({Chankan}, <<Meld("CHI", 9), Meld("CHI", 18)>>,
       Sequences({0, 3, 4, 9, 24}) \cup Triplets({31}), {17, 27})
    \cup Pool({Rinshan}, <<Meld("PON", 9), Meld("ANKAN", 18)>>,
              Sequences({0, 3, 6}) \cup Triplets({0, 9, 13, 27}), {8, 29})

Honors ==
  Pool({Houtei}, <<Meld("PON", 31)>>, Triplets({27, 28, 29, 32}) \cup Sequences({19}), {30, 33})

\* The most fu: three or four kans, and the pair of a double wind.
Kans ==
  UNION {Pool({Dealer, Tsumo0},
              <<Meld(a, 8), Meld("ANKAN", 17), Meld(b, 18)>>,
              Sequences({1}) \cup Triplets({1, 30}), {4, 27}) :
         a \in {"ANKAN", "MINKAN"}, b \in {"ANKAN", "PON", "KAKAN"}}

\* Seven pairs, thirteen orphans, nine gates and the all green hand.
Pairs(types) == [t \in types |-> 2]
Orphans14(pair) == [t \in Orphans |-> IF t = pair THEN 2 ELSE 1]
Gates(t) == [u \in 0 .. 8 |-> NineGates(Number(u)) + (IF u = t THEN 1 ELSE 0)]

Special ==
  {Hand(s, Pairs({0, 4, 12, 15, 20, 24, 31}), <<>>, 31, NO_READING) :
     s \in {Plain, Tsumo0, Riichi, Furiten}}
    \cup {Hand(s, Orphans14(27), <<>>, t, NO_READING) :
            s \in {Plain, First, Ankan}, t \in {8, 27}}
    \cup {Hand(s, Gates(2), <<>>, t, NO_READING) : s \in {Plain, First}, t \in {2, 5}}
    \cup Pool({Plain, Riichi}, <<>>, Sequences({19}) \cup Triplets({23, 25, 32}), {21})
    \cup Pool({Riichi, Furiten}, <<>>, Sequences({1, 10, 20}), {4, 13})

MCWins == OneSuit \cup ManySuits \cup Honors \cup Kans \cup Special

Rules(b) ==
  [kuitan |-> b, ippatsu |-> b, kokushi_ron_on_ankan |-> TRUE,
   kokushi_13_wait_double |-> b, suuankou_tanki_double |-> b,
   junsei_chuuren_double |-> b, daisuushii_double |-> b,
   kazoe_yakuman |-> b, kiriage_mangan |-> ~ b]

MCRules == {Rules(b) : b \in BOOLEAN}
=============================================================================
