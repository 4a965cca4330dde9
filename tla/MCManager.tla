----------------------------- MODULE MCManager -----------------------------
(* Values for the constants of Manager that a .cfg cannot write down.       *)
EXTENDS Manager

Broke == [p \in Player |-> 0]

DefaultRules ==
  [kan_dora_timing          |-> "EARLY",
   four_kans_abort_timing   |-> "AFTER_DISCARD",
   max_ron_players          |-> 3,
   kokushi_ron_on_ankan     |-> TRUE,
   triple_ron_abortive_draw |-> FALSE,
   abortive_kyuushu_kyuuhai |-> TRUE,
   abortive_suufon_renda    |-> TRUE,
   abortive_four_riichi     |-> TRUE]

\* Head bump, and the abort on a triple ron.
ClaimRules ==
  {[DefaultRules EXCEPT !.max_ron_players = 1],
   [DefaultRules EXCEPT !.triple_ron_abortive_draw = TRUE]}

\* Both timings of the four-kan abort.
SeatRules ==
  {DefaultRules, [DefaultRules EXCEPT !.kan_dora_timing = "LATE",
                                      !.four_kans_abort_timing = "IMMEDIATE"]}
=============================================================================
