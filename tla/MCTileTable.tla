----------------------------- MODULE MCTileTable -----------------------------
(* Walls for TileTable and PlayerView, and the hand check they use.         *)
EXTENDS PlayerView, Sequences

HC == INSTANCE HandCheck

IsComplete(c, m) == HC!IsComplete(c, m)
IsKokushi(c) == HC!CheckKokushi(c)

\* The first n copies of a type.
Copies(n, type) == {4 * type + i : i \in 0 .. (n - 1)}

Before(t, ts) == Cardinality({u \in ts : u < t})

\* Where the deal takes the k-th tile of a player from.
Slot(p, k) == IF k < 12 THEN 16 * (k \div 4) + 4 * p + (k % 4) ELSE 48 + p

\* Thirteen tiles for each player, the dealer's next, the live and dead walls.
WallOf(hands, first, live, dead) ==
  LET places == UNION {{<<t, Slot(p, Before(t, hands[p]))>> : t \in hands[p]} : p \in Player}
                  \cup {<<first, 52>>}
                  \cup {<<live[i], 52 + i>> : i \in DOMAIN live}
                  \cup {<<dead[i], 121 + i>> : i \in DOMAIN dead}
  IN [t \in {x[1] : x \in places} |-> (CHOOSE x \in places : x[1] = t)[2]]

Triplets(types) == UNION {Copies(3, type) : type \in types}

\* Player 1 may call all dragons, from three players, and add a kan later, and
\* is left with 4566 of a suit, by which kuikae forbids to call the 3.
Dragons4 ==
  [wall |-> WallOf(
     [p \in Player |->
        CASE p = 0 -> {126} \cup Copies(1, 2) \cup Triplets({27, 28, 29}) \cup Copies(2, 30)
          [] p = 1 -> UNION {Copies(2, type) : type \in {31, 32, 33, 5}}
                        \cup UNION {Copies(1, type) : type \in {3, 4, 9, 17, 18}}
          [] p = 2 -> {130, 0} \cup Triplets({11, 14, 20}) \cup Copies(2, 23)
          [] p = 3 -> {134, 1} \cup Triplets({12, 15, 21}) \cup Copies(2, 24)],
     104, <<28, 29, 30, 31, 32, 33, 127, 34>>,
     <<47, 59, 83, 95, 51, 63, 87, 99, 111, 115, 119, 35, 105, 106>>),
   parts |-> {126, 130, 134, 8, 36, 68, 72}]

\* Player 1 holds four triplets, and the others discard the tiles that make each
\* a pon or a kan; player 3 holds the tiles of a closed kan.
FourKans ==
  [wall |-> WallOf(
     [p \in Player |->
        CASE p = 0 -> {3} \cup Triplets({27, 28, 29, 30})
          [] p = 1 -> {68} \cup Triplets({0, 4, 8, 9})
          [] p = 2 -> {19, 35} \cup Triplets({11, 14, 20}) \cup Copies(2, 23)
          [] p = 3 -> {39} \cup Copies(4, 26) \cup Triplets({12, 15}) \cup Copies(2, 24)],
     125, <<124, 128, 132, 126, 130, 134, 129, 133>>,
     <<47, 59, 83, 94, 95, 51, 63, 98, 99, 111, 115, 119, 123, 135>>),
   parts |-> {3, 19, 35, 39, 68}]

\* Player 1 waits with thirteen orphans for the wind of which player 2 holds
\* four.
Orphans13 ==
  [wall |-> WallOf(
     [p \in Player |->
        CASE p = 0 -> {4} \cup Triplets({10, 12, 14, 16})
          [] p = 1 -> UNION {Copies(1, type) : type \in HC!Orphans \ {NORTH}} \cup {133}
          [] p = 2 -> Copies(4, NORTH) \cup Triplets({19, 21, 23})
          [] p = 3 -> {8} \cup Triplets({11, 13, 15, 20})],
     5, <<12, 13, 14, 20, 21, 22, 24, 25>>,
     <<43, 51, 59, 67, 79, 87, 95, 47, 55, 63, 83, 28, 29, 30>>),
   parts |-> {}]

\* Everyone holds an east wind; player 1 may declare riichi with it, draws the
\* fourth tile of a triplet later, and may win on a tile of player 2.
EastWinds ==
  [wall |-> WallOf(
     [p \in Player |->
        CASE p = 0 -> {108} \cup Triplets({4, 6, 8, 28})
          [] p = 1 -> {109} \cup Triplets({1}) \cup Copies(2, 19)
                        \cup UNION {Copies(1, type) : type \in (11 .. 16) \cup {22}}
          [] p = 2 -> {110} \cup Triplets({29, 30, 33, 26})
          [] p = 3 -> {111, 128} \cup Triplets({9, 17, 0}) \cup Copies(2, 2)],
     129, <<92, 124, 125, 126, 7, 84, 127, 130>>,
     <<19, 27, 35, 115, 119, 123, 135, 107, 39, 71, 3, 10, 11, 131>>),
   parts |-> {108, 109, 110, 111, 128}]

MCDeals == {Dragons4, FourKans, Orphans13, EastWinds}

MCRules ==
  {[kan_dora_timing          |-> "EARLY",
    four_kans_abort_timing   |-> "AFTER_DISCARD",
    max_ron_players          |-> 3,
    kokushi_ron_on_ankan     |-> TRUE,
    triple_ron_abortive_draw |-> FALSE,
    abortive_kyuushu_kyuuhai |-> TRUE,
    abortive_suufon_renda    |-> TRUE,
    abortive_four_riichi     |-> TRUE]}

MCScores == [p \in Player |-> 1000]
=============================================================================
