------------------------------- MODULE MCGame -------------------------------
(* Values for the constants of Game that a .cfg cannot write down.          *)
EXTENDS Game

DefaultRules ==
  [game_type                          |-> "HANCHAN",
   target_score                       |-> 30000,
   tobi_end                           |-> TRUE,
   noten_penalty                      |-> TRUE,
   noten_penalty_points               |-> 3000,
   nagashi_mangan                     |-> TRUE,
   kazoe_yakuman                      |-> TRUE,
   kiriage_mangan                     |-> TRUE,
   pao                                |-> {"DAISANGEN", "DAISUUSHII", "SUUKANTSU"},
   pao_liability_only                 |-> FALSE,
   daisuushii_double                  |-> TRUE,
   multi_ron_honba_first_only         |-> FALSE,
   nagashi_dealer_tenpai_renchan      |-> FALSE,
   target_score_excludes_riichi_sticks |-> FALSE]

\* Both forms of liability, and the honba of a multiple ron.
MoneyRules ==
  {[DefaultRules EXCEPT !.tobi_end = FALSE, !.pao_liability_only = l,
                        !.multi_ron_honba_first_only = m] :
     l \in BOOLEAN, m \in BOOLEAN}

\* A cheap hand and a multiple yakuman.
MoneyHands ==
  {[han |-> 3, fu |-> 40, yakuman |-> 0], [han |-> 0, fu |-> 0, yakuman |-> 3]}

ProgressRulesOf(game_type, target_score, excludes) ==
  [DefaultRules EXCEPT !.game_type = game_type, !.target_score = target_score,
                       !.noten_penalty = FALSE, !.nagashi_mangan = FALSE,
                       !.target_score_excludes_riichi_sticks = excludes]

\* All lengths of a game; the target is reached with any tsumo, or with a
\* tsumo and a stick that another player deposited.
ProgressRules ==
  {ProgressRulesOf(g, 10000, FALSE) : g \in {"TONPUU", "HANCHAN", "FULL"}}
    \cup {ProgressRulesOf("TONPUU", 13000, e) : e \in BOOLEAN}

ProgressHands == {[han |-> 5, fu |-> 30, yakuman |-> 0]}

\* cj4_rules_validate admits every positive multiple of 100.
OddPenalty == {[DefaultRules EXCEPT !.noten_penalty_points = 1000]}
=============================================================================
