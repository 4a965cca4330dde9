---------------------------- MODULE RoundContract ----------------------------
(***************************************************************************)
(* What a round promises to the game around it, however it is played: the  *)
(* only points that move before the settlement are riichi stakes, each     *)
(* paid once and by a player who has it; then the round ends, once, with a *)
(* result the settlement knows.  cj4_do_settle and the model Game rely on  *)
(* nothing else.                                                           *)
(*                                                                         *)
(* RoundFlow implements this specification: its variables of the same name *)
(* are the ones here, and everything else about the round is hidden.       *)
(***************************************************************************)
EXTENDS Integers, FiniteSets

CONSTANTS
  InitialScores,  \* scores at the deal
  InitialSticks,  \* riichi sticks left by earlier rounds
  Waiters         \* players whose hands may become tenpai

VARIABLES
  riichi, scores, riichi_sticks,  \* who declared riichi, and the money
  current_player,                 \* the player to act, then the discarder
  round_result, winners

Player == 0 .. 3
money  == <<riichi, scores, riichi_sticks>>
result == <<round_result, winners>>
vars   == <<money, current_player, result>>

Open == round_result.type = "NONE"

Init ==
  /\ riichi = {} /\ scores = InitialScores /\ riichi_sticks = InitialSticks
  /\ current_player \in Player
  /\ round_result = [type |-> "NONE", reason |-> "NONE"] /\ winners = {}

\* A declaration nobody answered with a ron: the stake becomes a stick.
Stake(p) ==
  /\ p \in Waiters \ riichi
  /\ scores[p] >= 1000
  /\ riichi' = riichi \cup {p}
  /\ scores' = [scores EXCEPT ![p] = @ - 1000]
  /\ riichi_sticks' = riichi_sticks + 1

\* A turn passes or is taken by a call, and with it stands a declaration.
Turn ==
  /\ Open
  /\ \/ UNCHANGED money
     \/ Stake(current_player)
  /\ current_player' \in Player
  /\ UNCHANGED result

\* A win stands before a declaration it answers, which then costs nothing.
Win ==
  /\ Open
  /\ \/ /\ round_result' = [type |-> "TSUMO", reason |-> "NONE"]
        /\ winners' = {current_player}
     \/ /\ round_result' = [type |-> "RON", reason |-> "NONE"]
        /\ winners' # {} /\ winners' \subseteq Waiters \ {current_player}
  /\ winners' \subseteq Waiters
  /\ UNCHANGED <<money, current_player>>

\* The wall runs out behind the last discard.
ExhaustiveDraw ==
  /\ Open
  /\ UNCHANGED money \/ Stake(current_player)
  /\ round_result' = [type |-> "EXHAUSTIVE_DRAW", reason |-> "NONE"]
  /\ winners' = {}
  /\ UNCHANGED current_player

\* Four declarations abort the round only once all four are paid; a fourth
\* kan may pass the turn to its caller before it aborts.
Abort(reason) ==
  /\ Open
  /\ UNCHANGED money \/ Stake(current_player)
  /\ round_result' = [type |-> "ABORTIVE_DRAW", reason |-> reason]
  /\ winners' = {}
  /\ reason = "FOUR_RIICHI" => riichi' = Player
  /\ reason \in {"KYUUSHU_KYUUHAI", "TRIPLE_RON"} => UNCHANGED money
  /\ IF reason = "FOUR_KANS" THEN current_player' \in Player
                             ELSE UNCHANGED current_player

Next ==
  \/ Turn \/ Win \/ ExhaustiveDraw
  \/ \E reason \in {"KYUUSHU_KYUUHAI", "FOUR_KANS", "SUUFON_RENDA",
                    "FOUR_RIICHI", "TRIPLE_RON"} : Abort(reason)

Spec == Init /\ [][Next]_vars
=============================================================================
