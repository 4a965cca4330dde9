------------------------------ MODULE Manager ------------------------------
(***************************************************************************)
(* cj4m_step: the manager drives a round of RoundFlow by asking players.   *)
(* In the phases DRAW and AFTER_CALL one answer of the player to act is    *)
(* the transition.  Over an offered tile the three others are asked in     *)
(* seat order, each with the actions cj4m_collect_actions offers, and only *)
(* then one claim is carried out: ron, else pon or minkan, else chi, else  *)
(* pass.  The delegate is a callback into the caller's code, so that every *)
(* question is a step here.                                                *)
(*                                                                         *)
(* A delegate may return anything; an action that was not offered is       *)
(* replaced, by PASS over an offered tile and by the first offered action  *)
(* on the player's own turn, hence by an offered action in either case.  A *)
(* seat without a delegate passes, which does nothing on its own turn.     *)
(***************************************************************************)
EXTENDS RoundFlow

CONSTANT Seated      \* players with a delegate

ASSUME SeatedAssumption == Seated \subseteq Player

VARIABLES
  player,        \* the player to be asked next; 4 when everyone was asked
  ron_players, best_call, best_chi,
  answers        \* history: what each player answered to the offered tile

askVars == <<player, ron_players, best_call, best_chi, answers>>
mvars == <<vars, askVars>>

TurnPhases     == {"DRAW", "AFTER_CALL"}
ReactionPhases == {"DISCARD", "KAKAN_RESOLVE", "ANKAN_RESOLVE"}

CLAIMS == {"RON", "PON", "MINKAN", "CHI", "PASS"}
NoCall == [player |-> NO_PLAYER, type |-> "PASS"]
NoAnswers == [p \in Player |-> "NONE"]

NothingAsked ==
  /\ player = 0 /\ ron_players = {} /\ best_call = NoCall
  /\ best_chi = NO_PLAYER /\ answers = NoAnswers

ForgetAnswers ==
  /\ player' = 0 /\ ron_players' = {} /\ best_call' = NoCall
  /\ best_chi' = NO_PLAYER /\ answers' = NoAnswers

-----------------------------------------------------------------------------
(* What the manager offers                                                 *)

Bug_FuritenOffered(p) ==
  {"PASS"} \cup (IF p \in ready THEN {"RON"} ELSE {})

Bug_RonHiddenByCall(p) ==
  {"PASS"}
    \cup (IF p \in CanRon /\ ~ CanMinkan(p) THEN {"RON"} ELSE {})
    \cup (IF CanChiOrPon(p) THEN {"PON"} ELSE {})
    \cup (IF CanMinkan(p) THEN {"MINKAN"} ELSE {})
    \cup (IF CanChiOrPon(p) /\ p = NextPlayer(current_player) THEN {"CHI"} ELSE {})

\* cj4m_collect_actions over an offered tile.  Whether the tile fits a pon,
\* minkan or chi of this player is the choice of RoundFlow's Callers.
Offered(p) ==
  {"PASS"}
    \cup (IF p \in CanRon THEN {"RON"} ELSE {})
    \cup (IF CanChiOrPon(p) THEN {"PON"} ELSE {})
    \cup (IF CanMinkan(p) THEN {"MINKAN"} ELSE {})
    \cup (IF CanChiOrPon(p) /\ p = NextPlayer(current_player) THEN {"CHI"} ELSE {})

\* The answers that count: any offered action, or PASS for an empty seat.
Selected(p) == IF p \in Seated THEN Offered(p) ELSE {"PASS"}

-----------------------------------------------------------------------------
(* Asking                                                                  *)

\* The player to act is asked and the transition is made.
TurnStep ==
  /\ phase \in TurnPhases
  /\ current_player \in Seated
  /\ Discard \/ Riichi \/ Tsumo \/ KyuushuKyuuhai \/ Ankan \/ Kakan
  /\ UNCHANGED askVars

\* The player whose tile is offered is not asked.
SkipCurrent ==
  /\ phase \in ReactionPhases
  /\ player = current_player
  /\ player' = player + 1
  /\ UNCHANGED <<vars, ron_players, best_call, best_chi, answers>>

\* The caller closest to the player to act comes first.
BetterCall(p, type) ==
  IF \/ best_call.player = NO_PLAYER
     \/ DistanceFromDiscarder(p) < DistanceFromDiscarder(best_call.player)
    THEN [player |-> p, type |-> type]
    ELSE best_call

Ask ==
  /\ phase \in ReactionPhases
  /\ player \in Player \ {current_player}
  /\ \E answer \in Selected(player) :
       /\ answers' = [answers EXCEPT ![player] = answer]
       /\ ron_players' = IF answer = "RON" THEN ron_players \cup {player}
                                           ELSE ron_players
       /\ best_call' = IF answer \in {"PON", "MINKAN"}
                         THEN BetterCall(player, answer) ELSE best_call
       /\ best_chi' = IF answer = "CHI" THEN player ELSE best_chi
  /\ player' = player + 1
  /\ UNCHANGED vars

-----------------------------------------------------------------------------
(* Carrying out one claim                                                  *)

Pass == PassIntoAbort \/ PassIntoExhaustiveDraw \/ PassIntoNextTurn

Bug_CallBeforeRon ==
  \/ best_call.type = "PON" /\ Pon(best_call.player)
  \/ best_call.type = "MINKAN" /\ Minkan(best_call.player)
  \/ best_call = NoCall /\ ron_players # {} /\ Ron(ron_players)
  \/ best_call = NoCall /\ ron_players = {} /\ best_chi # NO_PLAYER /\ Chi
  \/ best_call = NoCall /\ ron_players = {} /\ best_chi = NO_PLAYER /\ Pass

ResolveDiscard ==
  \/ ron_players # {} /\ Ron(ron_players)
  \/ ron_players = {} /\ best_call.type = "PON" /\ Pon(best_call.player)
  \/ ron_players = {} /\ best_call.type = "MINKAN" /\ Minkan(best_call.player)
  \/ ron_players = {} /\ best_call = NoCall /\ best_chi # NO_PLAYER /\ Chi
  \/ ron_players = {} /\ best_call = NoCall /\ best_chi = NO_PLAYER /\ Pass

ResolveKan ==
  \/ ron_players # {} /\ Ron(ron_players)
  \/ ron_players = {} /\ RinshanDraw

Resolve ==
  /\ player = 4
  /\ \/ phase = "DISCARD" /\ ResolveDiscard
     \/ phase \in {"KAKAN_RESOLVE", "ANKAN_RESOLVE"} /\ ResolveKan
  /\ ForgetAnswers

-----------------------------------------------------------------------------
MInit == Init /\ NothingAsked

MNext == TurnStep \/ SkipCurrent \/ Ask \/ Resolve

MSpec == MInit /\ [][MNext]_mvars

\* The caller keeps stepping the round (README.md:180), and a delegate returns.
MFairSpec == MSpec /\ WF_mvars(MNext)

-----------------------------------------------------------------------------
(* Properties                                                              *)

Answered(type) == {p \in Player : answers[p] = type}

\* Once all have answered, the strongest claim decides the round's next
\* state: any ron ends it, with the claimants closest to the discarder as the
\* winners; else the closest caller of pon or minkan gets the turn, else the
\* caller of chi, and a turn passes on only when nobody claimed the tile.
StrongestClaimWins ==
  [][ phase = "DISCARD" /\ player = 4 /\ player' = 0 =>
        LET ron == Answered("RON")
            calls == Answered("PON") \cup Answered("MINKAN")
        IN /\ ron # {} =>
                /\ round_result'.type = "RON" \/ round_result'.reason = "TRIPLE_RON"
                /\ \A w \in winners', p \in ron \ winners' :
                     DistanceFromDiscarder(w) < DistanceFromDiscarder(p)
           /\ ron = {} /\ calls # {} =>
                /\ current_player' \in calls
                /\ \A p \in calls : DistanceFromDiscarder(current_player')
                                      <= DistanceFromDiscarder(p)
           /\ ron = {} /\ calls = {} /\ Answered("CHI") # {} =>
                Answered("CHI") = {current_player'} /\ phase' = "AFTER_CALL"
           /\ ron = {} /\ calls = {} /\ Answered("CHI") = {} =>
                melds' = melds ]_mvars

\* Who gave up a winning tile by an answer of his own is furiten when the
\* round goes on without a call; nobody becomes furiten who claimed the tile.
OnlyDecliningIsPunished ==
  [][ \A p \in (temporary_furiten' \cup riichi_furiten')
                 \ (temporary_furiten \cup riichi_furiten) :
        answers[p] # "RON" /\ "RON" \in Offered(p) ]_mvars

\* Whatever the delegates do and whichever seats are empty, the round ends or
\* waits for ever for the turn of an empty seat: no answer over an offered
\* tile is ever refused, and empty seats do not hold up the turns of others.
EndsOrWaitsForEmptySeat ==
  <>[](\/ phase = "ROUND_END"
       \/ phase \in TurnPhases /\ current_player \notin Seated)
=============================================================================
