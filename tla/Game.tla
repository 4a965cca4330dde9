-------------------------------- MODULE Game --------------------------------
(***************************************************************************)
(* A game from its first round to GAME_END, as the caller's loop of        *)
(* README.md:180-188 drives it: rounds, their settlement (cj4_do_settle),  *)
(* the deal of the next round (cj4_do_next_round) and the end              *)
(* (cj4_do_game_end).                                                      *)
(*                                                                         *)
(* A round is one step here, PlayRound, which chooses any outcome a round  *)
(* of RoundFlow may have: riichi paid by players who can afford it, then a *)
(* win, a draw or an abort.  The values of the winning hands are chosen    *)
(* too; Points turns them into payments as the library does.               *)
(*                                                                         *)
(* An operator Bug_... is a wrong variant of the definition after it.      *)
(***************************************************************************)
EXTENDS Integers, FiniteSets, Points

CONSTANTS
  InitialScore,  \* cj4_rules.initial_score
  RuleSets,      \* the rule sets a game may be played under
  Hands,         \* values of winning hands: records of han, fu and yakuman
  PaoTypes,      \* kinds of liability that a yakuman may carry
  Waiters,       \* players whose hands may become tenpai
  Declarers,     \* those of them who may declare riichi
  MaxHonba,      \* bound: a dealer keeps the deal at most so often in a row
  LastSeat       \* bound: no round starts after this seat, 4 * wind + dealer

Player == 0 .. 3
NO_PLAYER == 4                        \* CJ4_PLAYER_COUNT as "nobody"
Winds == 0 .. 3                       \* east, south, west, north
NORTH == 3

RuleRecords ==
  [game_type                          : {"TONPUU", "HANCHAN", "FULL"},
   target_score                       : Int,
   tobi_end                           : BOOLEAN,
   noten_penalty                      : BOOLEAN,
   noten_penalty_points               : Nat,
   nagashi_mangan                     : BOOLEAN,
   kazoe_yakuman                      : BOOLEAN,
   kiriage_mangan                     : BOOLEAN,
   pao                                : SUBSET {"DAISANGEN", "DAISUUSHII",
                                                "SUUKANTSU"},
   pao_liability_only                 : BOOLEAN,
   daisuushii_double                  : BOOLEAN,
   multi_ron_honba_first_only         : BOOLEAN,
   nagashi_dealer_tenpai_renchan      : BOOLEAN,
   target_score_excludes_riichi_sticks : BOOLEAN]

ASSUME GameAssumption ==
  /\ InitialScore \in Nat
  /\ RuleSets \subseteq RuleRecords
  /\ Hands \subseteq [han : Nat, fu : Nat, yakuman : Nat]
  /\ Waiters \subseteq Player /\ Declarers \subseteq Waiters
  /\ PaoTypes \subseteq {"DAISANGEN", "DAISUUSHII", "SUUKANTSU"}
  /\ MaxHonba \in 0 .. 255 /\ LastSeat \in Nat

VARIABLES
  rules,
  phase,                   \* ROUND, ROUND_END, SETTLE or GAME_END
  scores, riichi_sticks,
  round_wind, dealer, honba,
  outcome,                 \* how the round ended
  next_round_wind, next_dealer, settlement_should_end

progressVars == <<next_round_wind, next_dealer, settlement_should_end>>
seatVars == <<round_wind, dealer>>
vars == <<rules, phase, scores, riichi_sticks, seatVars, honba, outcome,
          progressVars>>

Sum(f) == f[0] + f[1] + f[2] + f[3]
NoPoints == [p \in Player |-> 0]
Plus(f, g) == [p \in Player |-> f[p] + g[p]]

-----------------------------------------------------------------------------
(* The outcomes of a round                                                 *)

NoPao == [type |-> "NONE", player |-> NO_PLAYER]

\* A liability is recorded only with melds that make the hand a yakuman.
WinsOf(winner) ==
  {[hand |-> h, pao |-> NoPao] : h \in Hands}
    \cup {[hand |-> h, pao |-> [type |-> t, player |-> p]] :
            h \in {g \in Hands : g.yakuman > 0},
            t \in PaoTypes, p \in Player \ {winner}}

NoOutcome == [type |-> "NONE"]

Wins(winners) ==
  {w \in [winners -> UNION {WinsOf(p) : p \in winners}] :
     \A p \in winners : w[p] \in WinsOf(p)}

TsumoOutcomes ==
  UNION {{[type |-> "TSUMO", current_player |-> p, wins |-> w] :
            w \in Wins({p})} : p \in Waiters}

RonOutcomes ==
  UNION {UNION {{[type |-> "RON", current_player |-> p, wins |-> w] :
                   w \in Wins(winners)} :
            winners \in (SUBSET (Waiters \ {p})) \ {{}}} : p \in Player}

\* Who is tenpai, and who discarded terminals and honours only.
DrawOutcomes ==
  [type : {"EXHAUSTIVE_DRAW"}, tenpai : SUBSET Waiters, nagashi : SUBSET Player]

AbortOutcomes == {[type |-> "ABORTIVE_DRAW"]}

Outcomes == TsumoOutcomes \cup RonOutcomes \cup DrawOutcomes \cup AbortOutcomes

-----------------------------------------------------------------------------
(* Payments of a win                                                       *)

Winners == IF outcome.type \in {"TSUMO", "RON"} THEN DOMAIN outcome.wins ELSE {}

Distance(p) == (p + 4 - outcome.current_player) % 4

\* cj4_get_winner(state, 0): the winner closest to the player to act.
FirstWinner ==
  CHOOSE p \in Winners : \A q \in Winners : Distance(p) <= Distance(q)

Base(w) == BasicPoints(outcome.wins[w].hand, rules)
Yakuman(w) == YakumanCount(outcome.wins[w].hand, rules)

\* The player liable for the win, if the rules know that liability.
PaoPlayer(w) ==
  IF outcome.wins[w].pao.type \in rules.pao
    THEN outcome.wins[w].pao.player
    ELSE NO_PLAYER

ResponsibleYakuman(w) ==
  IF ~ rules.pao_liability_only \/ Yakuman(w) <= 1
    THEN Yakuman(w)
  ELSE IF outcome.wins[w].pao.type = "DAISUUSHII" /\ rules.daisuushii_double
    THEN 2
    ELSE 1

\* Every loser's own share of a tsumo, the honba included.
TsumoShare(w, p) ==
  100 * honba
    + (IF p = dealer THEN TsumoDealerPayment(Base(w), w = dealer)
                     ELSE TsumoNonDealerPayment(Base(w), w = dealer))

\* Of the share of p, what the liable player takes over.
TsumoPaoPart(w, p) ==
  ((TsumoShare(w, p) - 100 * honba) * ResponsibleYakuman(w)) \div Yakuman(w)

TsumoTotal(w) ==
  Sum([p \in Player |-> IF p = w THEN 0 ELSE TsumoShare(w, p)])

Bug_LiablePlayerPaysOnce(w) ==
  [p \in Player |-> IF p = w THEN TsumoTotal(w)
                    ELSE IF PaoPlayer(w) # NO_PLAYER
                      THEN (IF p = PaoPlayer(w) THEN - TsumoShare(w, p) ELSE 0)
                    ELSE - TsumoShare(w, p)]

\* cj4_settle_apply_tsumo: the change of everybody's score.
TsumoPayments(w) ==
  LET pao == PaoPlayer(w)
      shared == /\ rules.pao_liability_only
                /\ Yakuman(w) > ResponsibleYakuman(w)
      taken == [p \in Player |->
                  IF p \in {w, pao} THEN 0 ELSE TsumoPaoPart(w, p)]
  IN [p \in Player |->
        CASE p = w -> TsumoTotal(w)
          [] p # w /\ pao = NO_PLAYER -> - TsumoShare(w, p)
          [] p # w /\ pao # NO_PLAYER /\ ~ shared ->
               IF p = pao THEN - TsumoTotal(w) ELSE 0
          [] p # w /\ pao # NO_PLAYER /\ shared ->
               IF p = pao THEN - TsumoShare(w, p) - Sum(taken)
                          ELSE taken[p] - TsumoShare(w, p)]

RonHonba(w) ==
  IF rules.multi_ron_honba_first_only /\ w # FirstWinner THEN 0 ELSE 300 * honba

Bug_WholePartOfTheYakuman(w) ==
  LET points == RonPoints(Base(w), w = dealer)
  IN IF rules.pao_liability_only
       THEN points * ResponsibleYakuman(w)
       ELSE points - (points \div 2) + RonHonba(w)

\* What the liable player pays of a ron that somebody else dealt into.
RonPaoPart(w) ==
  LET points == RonPoints(Base(w), w = dealer)
  IN IF rules.pao_liability_only
       THEN (points * ResponsibleYakuman(w)) \div Yakuman(w)
       ELSE points - (points \div 2) + RonHonba(w)

\* One winner's part of cj4_settle_apply_ron.
RonPayments(w) ==
  LET loser == outcome.current_player
      total == RonPoints(Base(w), w = dealer) + RonHonba(w)
      pao == IF PaoPlayer(w) = loser THEN NO_PLAYER ELSE PaoPlayer(w)
      part == IF pao = NO_PLAYER THEN 0 ELSE RonPaoPart(w)
  IN [p \in Player |->
        (IF p = w THEN total ELSE 0)
          - (IF p = loser THEN total - part ELSE 0)
          - (IF p = pao THEN part ELSE 0)]

AllRonPayments ==
  [p \in Player |->
     Sum([w \in Player |-> IF w \in Winners THEN RonPayments(w)[p] ELSE 0])]

-----------------------------------------------------------------------------
(* Payments of a draw                                                      *)

NagashiOf(o) ==
  IF o.type = "EXHAUSTIVE_DRAW" /\ rules.nagashi_mangan THEN o.nagashi ELSE {}

NagashiPlayers == NagashiOf(outcome)

NagashiShare(w, p) ==
  100 * honba + (IF dealer \in {w, p} THEN 4000 ELSE 2000)

NagashiPayments ==
  [p \in Player |->
     IF p \in NagashiPlayers
       THEN Sum([q \in Player |->
                   IF q \in NagashiPlayers THEN 0 ELSE NagashiShare(p, q)])
       ELSE - Sum([w \in Player |->
                     IF w \in NagashiPlayers THEN NagashiShare(w, p) ELSE 0])]

\* The noten players share the penalty, the tenpai players share it out;
\* both divisions round down.
NotenPayments ==
  LET tenpai == outcome.tenpai
      n == Cardinality(tenpai)
  IN IF rules.noten_penalty /\ n \in 1 .. 3
       THEN [p \in Player |->
               IF p \in tenpai
                 THEN rules.noten_penalty_points \div n
                 ELSE - (rules.noten_penalty_points \div (4 - n))]
       ELSE NoPoints

-----------------------------------------------------------------------------
(* cj4_do_settle                                                           *)

\* The winner of the deposited sticks; nobody when the round was a draw.
StickWinner ==
  IF Winners # {} THEN FirstWinner
  ELSE IF NagashiPlayers # {}
    THEN CHOOSE p \in NagashiPlayers : \A q \in NagashiPlayers : p <= q
    ELSE NO_PLAYER

Payments ==
  CASE outcome.type = "TSUMO" -> TsumoPayments(FirstWinner)
    [] outcome.type = "RON" -> AllRonPayments
    [] outcome.type = "EXHAUSTIVE_DRAW" ->
         IF NagashiPlayers # {} THEN NagashiPayments ELSE NotenPayments
    [] outcome.type = "ABORTIVE_DRAW" -> NoPoints

SticksAwarded == IF StickWinner = NO_PLAYER THEN 0 ELSE riichi_sticks

ContinuesAfter(o) ==
  CASE o.type \in {"TSUMO", "RON"} -> dealer \in DOMAIN o.wins
    [] o.type = "EXHAUSTIVE_DRAW" ->
         IF NagashiOf(o) # {} /\ ~ rules.nagashi_dealer_tenpai_renchan
           THEN dealer \in NagashiOf(o)
           ELSE dealer \in o.tenpai
    [] o.type = "ABORTIVE_DRAW" -> TRUE

DealerContinues == ContinuesAfter(outcome)

LastRoundWind ==
  CASE rules.game_type = "TONPUU"  -> 0
    [] rules.game_type = "HANCHAN" -> 1
    [] rules.game_type = "FULL"    -> 3

ExtensionLastRoundWind ==
  CASE rules.game_type = "TONPUU"  -> 1
    [] rules.game_type = "HANCHAN" -> 2
    [] rules.game_type = "FULL"    -> 3

IsEndgameRound ==
  \/ round_wind > LastRoundWind
  \/ round_wind = LastRoundWind /\ dealer = 3

\* The score of p that counts for the end of the game.
ProgressScore(score, p) ==
  score[p]
    - (IF rules.target_score_excludes_riichi_sticks /\ p = StickWinner
         THEN 1000 * SticksAwarded ELSE 0)

HasTopScore(score, p) ==
  \A q \in Player : ProgressScore(score, q) <= ProgressScore(score, p)

ReachedTarget(score) ==
  \E p \in Player : ProgressScore(score, p) >= rules.target_score

Bug_TobiIgnored(score) ==
  /\ IsEndgameRound
  /\ \/ /\ ~ DealerContinues
        /\ ReachedTarget(score) \/ round_wind >= ExtensionLastRoundWind
     \/ ReachedTarget(score) /\ HasTopScore(score, dealer)

Bug_OvertimeNeedsTheLastDealer(score) ==
  \/ rules.tobi_end /\ \E p \in Player : score[p] < 0
  \/ /\ IsEndgameRound
     /\ \/ /\ ~ DealerContinues /\ dealer = 3
           /\ ReachedTarget(score) \/ round_wind >= ExtensionLastRoundWind
        \/ DealerContinues /\ ReachedTarget(score) /\ HasTopScore(score, dealer)

Bug_NoExtensionLimit(score) ==
  \/ rules.tobi_end /\ \E p \in Player : score[p] < 0
  \/ /\ IsEndgameRound /\ ReachedTarget(score)
     /\ ~ DealerContinues \/ HasTopScore(score, dealer)

\* Does the game end once the round brought the players to this score?
ShouldEnd(score) ==
  \/ rules.tobi_end /\ \E p \in Player : score[p] < 0
  \/ /\ IsEndgameRound
     /\ \/ /\ ~ DealerContinues /\ dealer = 3
           /\ ReachedTarget(score) \/ round_wind >= ExtensionLastRoundWind
        \/ /\ ReachedTarget(score)
           /\ ~ DealerContinues \/ HasTopScore(score, dealer)

Bug_HonbaNeverReset == (honba + (IF DealerContinues THEN 1 ELSE 0)) % 256

\* honba is a byte.
NextHonba == IF DealerContinues THEN (honba + 1) % 256 ELSE 0

Settle ==
  LET settled == [Plus(scores, Payments) EXCEPT
                    ![IF StickWinner = NO_PLAYER THEN 0 ELSE StickWinner] =
                      @ + 1000 * SticksAwarded]
  IN /\ phase = "ROUND_END"
     /\ scores' = settled
     /\ riichi_sticks' = riichi_sticks - SticksAwarded
     /\ next_dealer' = IF DealerContinues THEN dealer ELSE (dealer + 1) % 4
     /\ next_round_wind' =
          IF ~ DealerContinues /\ dealer = 3 /\ round_wind < NORTH
            THEN round_wind + 1 ELSE round_wind
     /\ settlement_should_end' = ShouldEnd(settled)
     /\ honba' = IF ShouldEnd(settled) /\ DealerContinues /\ NextHonba > honba
                   THEN honba ELSE NextHonba
     /\ phase' = "SETTLE"
     /\ UNCHANGED <<rules, seatVars, outcome>>

-----------------------------------------------------------------------------
(* The rounds of a game                                                    *)

Init ==
  /\ rules \in RuleSets
  /\ phase = "ROUND"
  /\ scores = [p \in Player |-> InitialScore] /\ riichi_sticks = 0
  /\ round_wind = 0 /\ dealer = 0 /\ honba = 0
  /\ outcome = NoOutcome
  /\ next_round_wind = 0 /\ next_dealer = 0 /\ settlement_should_end = FALSE

\* Four wind melds alone are a double yakuman, where the rules have it so;
\* the discards of a draw are told apart only where the rules look at them.
Possible(o) ==
  /\ o.type \in {"TSUMO", "RON"} /\ rules.daisuushii_double =>
       \A w \in DOMAIN o.wins :
         o.wins[w].pao.type = "DAISUUSHII" => o.wins[w].hand.yakuman >= 2
  /\ o.type = "EXHAUSTIVE_DRAW" /\ ~ rules.nagashi_mangan => o.nagashi = {}

\* A round of RoundFlow, from its deal to ROUND_END.  A riichi established in
\* it was paid; who is in riichi is tenpai when the wall runs out.
PlayRound ==
  /\ phase = "ROUND"
  /\ 4 * round_wind + dealer <= LastSeat
  /\ outcome' \in {o \in Outcomes : Possible(o)}
  /\ honba >= MaxHonba => ~ ContinuesAfter(outcome')
  /\ \E declared \in SUBSET {p \in Declarers : scores[p] >= 1000} :
       /\ outcome'.type = "EXHAUSTIVE_DRAW" => declared \subseteq outcome'.tenpai
       /\ scores' = [p \in Player |->
                       scores[p] - (IF p \in declared THEN 1000 ELSE 0)]
       /\ riichi_sticks' = riichi_sticks + Cardinality(declared)
  /\ phase' = "ROUND_END"
  /\ UNCHANGED <<rules, seatVars, honba, progressVars>>

NextRound ==
  /\ phase = "SETTLE" /\ ~ settlement_should_end
  /\ phase' = "ROUND"
  /\ round_wind' = next_round_wind /\ dealer' = next_dealer
  /\ outcome' = NoOutcome
  /\ next_round_wind' = 0 /\ next_dealer' = 0 /\ settlement_should_end' = FALSE
  /\ UNCHANGED <<rules, scores, riichi_sticks, honba>>

GameEnd ==
  /\ phase = "SETTLE" /\ settlement_should_end
  /\ phase' = "GAME_END"
  /\ UNCHANGED <<rules, scores, riichi_sticks, seatVars, honba, outcome,
                 progressVars>>

Next == PlayRound \/ Settle \/ NextRound \/ GameEnd

Spec == Init /\ [][Next]_vars

\* A caller that plays a game keeps stepping it until it is over.
FairSpec == Spec /\ WF_vars(Next)

-----------------------------------------------------------------------------
(* Properties                                                              *)

\* No settlement creates or destroys points: with the deposited sticks they
\* always add up to what the game began with.  The noten penalty is exact
\* only when it divides by three (state_settle.c:475-476).
PointsConserved ==
  rules.noten_penalty_points % 3 = 0 =>
    Sum(scores) + 1000 * riichi_sticks = 4 * InitialScore

\* Who did not win never profits from somebody else's win, and who neither
\* dealt in nor is liable pays nothing for a ron.
LosersNeverGain ==
  [][ phase = "ROUND_END" /\ Winners # {} =>
        /\ \A p \in Player \ Winners : scores'[p] <= scores[p]
        /\ outcome.type = "RON" =>
             \A p \in Player \ (Winners \cup {outcome.current_player}
                                  \cup {PaoPlayer(w) : w \in Winners}) :
               scores'[p] = scores[p] ]_vars

\* Where debt ends the game, no round is dealt to a player in debt.
NobodyPlaysInDebt ==
  rules.tobi_end /\ phase = "ROUND" => \A p \in Player : scores[p] >= 0

\* A round beyond the last wind is played only because nobody had reached
\* the target when the deal last moved on; a dealer on top of the target
\* does not play on either.
OvertimeMeansNobodyWon ==
  /\ phase = "ROUND" /\ round_wind > LastRoundWind
  /\ ~ rules.target_score_excludes_riichi_sticks
  => /\ honba = 0 => \A p \in Player : scores[p] < rules.target_score
     /\ (\A p \in Player : scores[p] <= scores[dealer]) =>
          scores[dealer] < rules.target_score

\* Overtime is one wind at most.
RoundWithinExtension == round_wind <= ExtensionLastRoundWind

\* The place of a round in the game.
Seat == 4 * round_wind + dealer

\* From one round to the next the deal stays with the dealer, who adds a
\* honba, or moves to the next seat, whose first round has none; the wind
\* changes with the deal of player 0 only.
SeatsRotate ==
  [][ phase = "SETTLE" /\ phase' = "ROUND" =>
        Seat' = (IF honba > 0 THEN Seat ELSE Seat + 1) ]_vars

\* A game whose dealers do not keep the deal for ever comes to its end.
GameEnds == <>(phase = "GAME_END")

\* The penalty of an exhaustive draw is the rule's total, as README.md says
\* of noten_penalty_points: what the noten pay and what the tenpai receive.
PenaltyIsTheTotal ==
  [][ phase = "ROUND_END" /\ outcome.type = "EXHAUSTIVE_DRAW"
        /\ NagashiPlayers = {} /\ rules.noten_penalty
        /\ Cardinality(outcome.tenpai) \in 1 .. 3 =>
        rules.noten_penalty_points =
          Sum([p \in Player |-> IF p \in outcome.tenpai
                                  THEN scores'[p] - scores[p] ELSE 0]) ]_vars
=============================================================================
