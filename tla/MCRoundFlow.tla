---------------------------- MODULE MCRoundFlow ----------------------------
(* Values for the constants of RoundFlow that a .cfg cannot write down.     *)
EXTENDS RoundFlow

Rich  == [p \in Player |-> 1000]
Broke == [p \in Player |-> 0]

\* The rules on which a run does not focus stay as in cj4_rules_default.
DefaultRules ==
  [kan_dora_timing          |-> "EARLY",
   four_kans_abort_timing   |-> "AFTER_DISCARD",
   max_ron_players          |-> 3,
   kokushi_ron_on_ankan     |-> TRUE,
   triple_ron_abortive_draw |-> FALSE,
   abortive_kyuushu_kyuuhai |-> TRUE,
   abortive_suufon_renda    |-> TRUE,
   abortive_four_riichi     |-> TRUE]

\* Both timings of the kan dora and of the four-kan abort.
KanRules ==
  {[DefaultRules EXCEPT !.kan_dora_timing = d, !.four_kans_abort_timing = f] :
     d \in {"EARLY", "LATE"}, f \in {"IMMEDIATE", "AFTER_DISCARD"}}

\* Head bump, and the abort on a triple ron.
WinRules ==
  {[DefaultRules EXCEPT !.max_ron_players = m, !.triple_ron_abortive_draw = t] :
     m \in {1, 3}, t \in BOOLEAN}
=============================================================================
