--------------------------- MODULE Manager_proofs ---------------------------
(* A round driven by the manager is a round of RoundFlow.                   *)
EXTENDS Manager, RoundFlow_results

\* Questions leave the round alone; a claim is carried out by one transition
\* of the core, of players of the game.
LEMMA ManagerStep ==
  ASSUME TypeOK, [MNext]_mvars
  PROVE  [Next]_vars
  <1>1. CASE TurnStep
    BY <1>1 DEF TurnStep, Next
  <1>2. CASE SkipCurrent
    BY <1>2 DEF SkipCurrent
  <1>3. CASE Ask
    BY <1>3 DEF Ask
  <1>4. CASE Resolve
    <2>1. ASSUME NEW claimants, Ron(claimants)
          PROVE  Next
      <3>1. claimants \in SUBSET Player
        BY <2>1 DEF Ron, CanRon, TypeOK
      <3> QED
        BY <2>1, <3>1 DEF Next
    <2>2. ASSUME NEW p, Pon(p) \/ Minkan(p)
          PROVE  Next
      <3>1. p \in Player
        BY <2>2, PeopleAssumption
        DEF Pon, Minkan, ChiOrPon, CanChiOrPon, CanMinkan, CanClaimDiscard
      <3> QED
        BY <2>2, <3>1 DEF Next
    <2>3. ResolveDiscard \/ ResolveKan
      BY <1>4 DEF Resolve
    <2> QED
      BY <2>1, <2>2, <2>3 DEF ResolveDiscard, ResolveKan, Pass, Next
  <1>5. CASE UNCHANGED mvars
    BY <1>5 DEF mvars
  <1> QED
    BY <1>1, <1>2, <1>3, <1>4, <1>5 DEF MNext

\* Whatever delegates answer, the manager makes nothing but admitted
\* transitions: what holds of RoundFlow's rounds holds of driven rounds.
THEOREM ManagerRefinesRound == MSpec => Spec
  <1>1. MInit => Init /\ TypeOK
    BY TypeInit DEF MInit
  <1>2. TypeOK /\ [MNext]_mvars => [Next]_vars /\ TypeOK'
    BY ManagerStep, TypeStep
  <1> QED
    BY <1>1, <1>2, PTL DEF MSpec, Spec

\* In a driven round, too, types, accounts, riichi and results agree in every
\* state, whatever the delegates answer and whichever seats are empty.
THEOREM DrivenRoundsAgree == MSpec => []RoundInv
  BY ManagerRefinesRound, RoundInvariant, PTL

-----------------------------------------------------------------------------
(* The answers given so far                                                 *)

Calls == Answered("PON") \cup Answered("MINKAN")

\* The players before the next one were asked; an answer was offered.
AskedInOrder ==
  /\ player \in 0 .. 4
  /\ phase \notin ReactionPhases => NothingAsked
  /\ answers \in [Player -> CLAIMS \cup {"NONE"}]
  /\ \A p \in Player : /\ answers[p] # "NONE" => answers[p] \in Offered(p)
                       /\ p >= player => answers[p] = "NONE"

\* best_call of cj4m_step is the pon or minkan closest to the discarder.
BestCallIsClosest ==
  /\ Calls = {} => best_call = NoCall
  /\ Calls # {} =>
       /\ best_call.player \in Calls
       /\ best_call.type = answers[best_call.player]
       /\ \A p \in Calls : DistanceFromDiscarder(best_call.player)
                             <= DistanceFromDiscarder(p)

\* The locals of cj4m_step are what the answers given so far make of them.
AskInv ==
  /\ AskedInOrder
  /\ ron_players = Answered("RON")
  /\ BestCallIsClosest
  /\ Answered("CHI") = IF best_chi = NO_PLAYER THEN {} ELSE {best_chi}

LEMMA NobodyAsked == NothingAsked => AskInv
  <1> SUFFICES ASSUME NothingAsked PROVE AskInv
    OBVIOUS
  <1>1. \A type \in CLAIMS : Answered(type) = {}
    BY DEF NothingAsked, NoAnswers, Answered, CLAIMS
  <1>2. Answered("RON") = {} /\ Calls = {} /\ Answered("CHI") = {}
    BY <1>1 DEF Calls, CLAIMS
  <1>3. AskedInOrder
    BY DEF NothingAsked, NoAnswers, AskedInOrder
  <1> QED
    BY <1>2, <1>3 DEF NothingAsked, AskInv, BestCallIsClosest

LEMMA NobodyAskedNext == NothingAsked' => AskInv'
  BY NobodyAsked, PTL

\* Only the next player may chi.
LEMMA OfferedClaims ==
  ASSUME NEW p \in Player
  PROVE  /\ Offered(p) \subseteq CLAIMS
         /\ "CHI" \in Offered(p) => p = NextPlayer(current_player)
         /\ "RON" \in Offered(p) <=> p \in CanRon
  BY DEF Offered, CLAIMS

\* One more answer, of the player to be asked.
LEMMA AskStep ==
  ASSUME TypeOK, AskInv, Ask
  PROVE  AskInv'
  <1> DEFINE same(type) == Answered(type)' = Answered(type)
  <1>1. PICK answer \in Selected(player) :
          /\ answers' = [answers EXCEPT ![player] = answer]
          /\ ron_players' = IF answer = "RON" THEN ron_players \cup {player}
                                              ELSE ron_players
          /\ best_call' = IF answer \in {"PON", "MINKAN"}
                            THEN BetterCall(player, answer) ELSE best_call
          /\ best_chi' = IF answer = "CHI" THEN player ELSE best_chi
    BY DEF Ask
  <1>2. /\ phase \in ReactionPhases /\ player \in Player /\ player' = player + 1
        /\ UNCHANGED vars
    BY DEF Ask
  <1>3. /\ phase' = phase /\ current_player' = current_player
        /\ \A p \in Player : Offered(p)' = Offered(p)
    <2>1. UNCHANGED <<phase, current_player, melds, hand, riichi, ready,
                      temporary_furiten, riichi_furiten, wall_pos,
                      dead_wall_draw_count>>
      BY <1>2 DEF vars, turnVars, riichiVars, furitenVars, wallVars, tileVars
    <2>2. CanRon' = CanRon
      BY <2>1 DEF CanRon
    <2>3. LiveWallRemaining' = LiveWallRemaining
      BY <2>1 DEF LiveWallRemaining, LiveWallEnd
    <2>4. CountTotalKans(melds)' = CountTotalKans(melds)
      BY <2>1
    <2>5. /\ FourKansAbortIsPending' = FourKansAbortIsPending
          /\ CanDeclareMoreKans' = CanDeclareMoreKans
      BY <2>1, <2>3, <2>4 DEF FourKansAbortIsPending, CanDeclareMoreKans
    <2>6. \A p \in Player : /\ CanChiOrPon(p)' = CanChiOrPon(p)
                            /\ CanMinkan(p)' = CanMinkan(p)
      BY <2>1, <2>3, <2>5 DEF CanChiOrPon, CanMinkan, CanClaimDiscard
    <2> QED
      BY <2>1, <2>2, <2>6 DEF Offered, NextPlayer
  <1>4. answer \in Offered(player) /\ answer \in CLAIMS
    BY <1>1, <1>2, OfferedClaims DEF Selected, Offered
  <1>5. /\ answers \in [Player -> CLAIMS \cup {"NONE"}] /\ answers[player] = "NONE"
        /\ \A p \in Player : answers'[p] = IF p = player THEN answer ELSE answers[p]
    BY <1>1, <1>2 DEF AskInv, AskedInOrder
  <1>6. \A type \in CLAIMS :
          Answered(type)' = Answered(type) \cup (IF type = answer THEN {player} ELSE {})
    BY <1>2, <1>4, <1>5 DEF Answered, CLAIMS
  <1>7. AskedInOrder'
    <2>1. player' \in 0 .. 4 /\ \A p \in Player : p >= player' => p # player /\ p >= player
      BY <1>2 DEF Player
    <2>2. answers' \in [Player -> CLAIMS \cup {"NONE"}]
      BY <1>1, <1>2, <1>4, <1>5
    <2> QED
      BY <1>2, <1>3, <1>4, <1>5, <2>1, <2>2 DEF AskInv, AskedInOrder
  <1>8. (ron_players = Answered("RON"))'
    BY <1>1, <1>6 DEF AskInv, CLAIMS
  <1>9. BestCallIsClosest'
    <2>1. Calls' = Calls \cup (IF answer \in {"PON", "MINKAN"} THEN {player} ELSE {})
      BY <1>6 DEF Calls, CLAIMS
    <2>2. Calls \subseteq Player /\ player \notin Calls
      BY <1>5 DEF Calls, Answered
    <2>3. \A p \in Player : DistanceFromDiscarder(p)' = DistanceFromDiscarder(p)
      BY <1>3 DEF DistanceFromDiscarder
    <2>4. \A p \in Player : DistanceFromDiscarder(p) \in Int
      BY DEF DistanceFromDiscarder, Player, TypeOK
    <2>5. CASE answer \notin {"PON", "MINKAN"}
      <3>1. Calls' = Calls /\ best_call' = best_call
        BY <1>1, <2>1, <2>5
      <3>2. \A p \in Calls : answers'[p] = answers[p]
        BY <1>5, <2>2
      <3>3. \A p \in Calls : DistanceFromDiscarder(p)' = DistanceFromDiscarder(p)
        BY <2>2, <2>3
      <3> QED
        BY <3>1, <3>2, <3>3 DEF AskInv, BestCallIsClosest
    <2>6. CASE answer \in {"PON", "MINKAN"} /\ Calls = {}
      <3>1. best_call' = [player |-> player, type |-> answer] /\ Calls' = {player}
        BY <1>1, <2>1, <2>6 DEF AskInv, BestCallIsClosest, BetterCall, NoCall
      <3> QED
        BY <1>2, <1>5, <2>3, <2>4, <3>1 DEF BestCallIsClosest
    <2>7. CASE answer \in {"PON", "MINKAN"} /\ Calls # {}
      <3>1. /\ best_call.player \in Calls /\ best_call.type = answers[best_call.player]
            /\ \A p \in Calls : DistanceFromDiscarder(best_call.player)
                                  <= DistanceFromDiscarder(p)
        BY <2>7 DEF AskInv, BestCallIsClosest
      <3>2. best_call.player # NO_PLAYER
        BY <2>2, <3>1 DEF NO_PLAYER, Player
      <3>3. best_call' =
              IF DistanceFromDiscarder(player) < DistanceFromDiscarder(best_call.player)
                THEN [player |-> player, type |-> answer] ELSE best_call
        BY <1>1, <2>7, <3>2 DEF BetterCall
      <3>4. Calls' = Calls \cup {player}
        BY <2>1, <2>7
      <3>5. /\ best_call'.player \in Calls' /\ best_call'.player \in Player
            /\ best_call'.type = answers'[best_call'.player]
        BY <1>2, <1>5, <2>2, <3>1, <3>3, <3>4
      <3> DEFINE d == [p \in Player |-> DistanceFromDiscarder(p)]
      <3>6. /\ d \in [Player -> Int] /\ player \in Player /\ best_call.player \in Player
            /\ \A p \in Calls : p \in Player /\ d[best_call.player] <= d[p]
        BY <1>2, <2>2, <2>4, <3>1
      <3>7. best_call'.player = IF d[player] < d[best_call.player]
                                  THEN player ELSE best_call.player
        BY <3>3, <3>6
      <3> HIDE DEF d
      <3>8. \A p \in Calls' : d[best_call'.player] <= d[p]
        BY <3>4, <3>6, <3>7
      <3>9. \A p \in Player : DistanceFromDiscarder(p)' = d[p]
        BY <2>3 DEF d
      <3>10. /\ best_call'.player \in Player /\ Calls' \subseteq Player
        BY <2>2, <3>4, <3>6, <3>7
      <3>11. \A p \in Player : DistanceFromDiscarder(p)' = (p + 4 - current_player') % 4
        BY DEF DistanceFromDiscarder
      <3>12. \A p \in Calls' :
               (best_call'.player + 4 - current_player') % 4
                 <= (p + 4 - current_player') % 4
        BY <3>8, <3>9, <3>10, <3>11
      <3> QED
        BY <3>4, <3>5, <3>12 DEF BestCallIsClosest, DistanceFromDiscarder
    <2> QED
      BY <2>5, <2>6, <2>7
  <1>10. (Answered("CHI") = IF best_chi = NO_PLAYER THEN {} ELSE {best_chi})'
    <2>1. CASE answer # "CHI"
      BY <1>1, <1>6, <2>1 DEF AskInv, CLAIMS
    <2>2. CASE answer = "CHI"
      <3>1. player = NextPlayer(current_player)
        BY <1>2, <1>4, <2>2, OfferedClaims
      <3>2. \A p \in Answered("CHI") : p = NextPlayer(current_player) /\ p # player
        BY <1>5, OfferedClaims DEF Answered, AskInv, AskedInOrder
      <3>3. Answered("CHI")' = {player} /\ best_chi' = player
        BY <1>1, <1>6, <2>2, <3>1, <3>2 DEF CLAIMS
      <3> QED
        BY <1>2, <3>3 DEF NO_PLAYER, Player
    <2> QED
      BY <2>1, <2>2
  <1> QED
    BY <1>7, <1>8, <1>9, <1>10 DEF AskInv

\* A step that leaves the round and the answers alone.
LEMMA SameAnswers ==
  ASSUME TypeOK, AskInv, UNCHANGED vars,
         UNCHANGED <<ron_players, best_call, best_chi, answers>>,
         player' \in 0 .. 4, player' >= player,
         phase \notin ReactionPhases => player' = player
  PROVE  AskInv'
  <1>1. UNCHANGED <<phase, current_player, melds, hand, riichi, ready,
                    temporary_furiten, riichi_furiten, wall_pos, dead_wall_draw_count>>
    BY DEF vars, turnVars, riichiVars, furitenVars, wallVars, tileVars
  <1>2. \A p \in Player : Offered(p)' = Offered(p)
    BY <1>1
    DEF Offered, CanRon, CanChiOrPon, CanMinkan, CanClaimDiscard, NextPlayer,
        FourKansAbortIsPending, CanDeclareMoreKans, LiveWallRemaining, LiveWallEnd
  <1>3. AskedInOrder'
    <2>1. player \in 0 .. 4 /\ \A p \in Player : p >= player' => p >= player
      BY DEF AskInv, AskedInOrder, Player
    <2> QED
      BY <1>1, <1>2, <2>1 DEF AskInv, AskedInOrder, NothingAsked
  <1>4. Calls' = Calls /\ \A type : Answered(type)' = Answered(type)
    BY DEF Calls, Answered
  <1> QED
    BY <1>1, <1>3, <1>4 DEF AskInv, BestCallIsClosest, DistanceFromDiscarder

LEMMA AskInvStep ==
  ASSUME TypeOK, AskInv, [MNext]_mvars
  PROVE  AskInv'
  <1>1. CASE TurnStep
    <2>1. NothingAsked
      BY <1>1 DEF TurnStep, TurnPhases, ReactionPhases, AskInv, AskedInOrder
    <2>2. NothingAsked'
      BY <1>1, <2>1 DEF TurnStep, askVars, NothingAsked
    <2> QED
      BY <2>2, NobodyAskedNext
  <1>2. CASE SkipCurrent
    <2>1. player' \in 0 .. 4 /\ player' >= player
      BY <1>2 DEF SkipCurrent, TypeOK, Player
    <2> QED
      BY <1>2, <2>1, SameAnswers DEF SkipCurrent
  <1>3. CASE Ask
    BY <1>3, AskStep
  <1>4. CASE Resolve
    <2>1. NothingAsked'
      BY <1>4 DEF Resolve, ForgetAnswers, NothingAsked
    <2> QED
      BY <2>1, NobodyAskedNext
  <1>5. CASE UNCHANGED mvars
    <2>1. player \in 0 .. 4 /\ player' = player /\ player' >= player
      BY <1>5 DEF mvars, askVars, AskInv, AskedInOrder
    <2> QED
      BY <1>5, <2>1, SameAnswers DEF mvars, askVars
  <1> QED
    BY <1>1, <1>2, <1>3, <1>4, <1>5 DEF MNext

\* Whatever the delegates answer, what cj4m_step knows of the answers is what
\* was answered.
THEOREM AnswersInvariant == MSpec => [](TypeOK /\ AskInv)
  <1>1. MInit => TypeOK /\ AskInv
    BY TypeInit, NobodyAsked DEF MInit
  <1>2. TypeOK /\ AskInv /\ [MNext]_mvars => TypeOK' /\ AskInv'
    BY ManagerStep, TypeStep, AskInvStep
  <1> QED
    BY <1>1, <1>2, PTL DEF MSpec

-----------------------------------------------------------------------------
(* What becomes of the claims                                               *)

\* Who wins by a ron sits closer to the discarder than any claimant who does not.
LEMMA CloserClaimantWins ==
  ASSUME TypeOK, NEW claimants \in SUBSET Player,
         NEW w \in RonWinners(claimants), NEW p \in claimants \ RonWinners(claimants)
  PROVE  DistanceFromDiscarder(w) < DistanceFromDiscarder(p)
  <1> DEFINE closer(q) == {r \in claimants :
               DistanceFromDiscarder(r) < DistanceFromDiscarder(q)}
  <1>1. \A q \in Player : DistanceFromDiscarder(q) \in Int
    BY DEF DistanceFromDiscarder, Player, TypeOK
  <1>2. w \in Player /\ p \in Player
    BY DEF RonWinners
  <1> SUFFICES ASSUME DistanceFromDiscarder(p) <= DistanceFromDiscarder(w)
               PROVE  FALSE
    BY <1>1, <1>2
  <1>3. closer(p) \subseteq closer(w)
    BY <1>1, <1>2
  <1>4. IsFiniteSet(closer(w))
    BY PlayersFinite
  <1>5. /\ Cardinality(closer(p)) <= Cardinality(closer(w))
        /\ Cardinality(closer(p)) \in Nat /\ Cardinality(closer(w)) \in Nat
    BY <1>3, <1>4, FS_Subset, FS_CardinalityType
  <1>6. rules.max_ron_players \in Nat
    BY RulesAssumption DEF TypeOK, RuleRecords
  <1>7. /\ Cardinality(closer(w)) < rules.max_ron_players
        /\ ~ (Cardinality(closer(p)) < rules.max_ron_players)
    BY DEF RonWinners
  <1> QED
    BY <1>5, <1>6, <1>7

\* The property's words about a step that carries out the claims.
StrongestWins ==
  LET ron == Answered("RON")
      calls == Answered("PON") \cup Answered("MINKAN")
  IN /\ ron # {} =>
          /\ round_result'.type = "RON" \/ round_result'.reason = "TRIPLE_RON"
          /\ \A w \in winners', p \in ron \ winners' :
               DistanceFromDiscarder(w) < DistanceFromDiscarder(p)
     /\ ron = {} /\ calls # {} =>
          /\ current_player' \in calls
          /\ \A p \in calls : DistanceFromDiscarder(current_player')
                                <= DistanceFromDiscarder(p)
     /\ ron = {} /\ calls = {} /\ Answered("CHI") # {} =>
          Answered("CHI") = {current_player'} /\ phase' = "AFTER_CALL"
     /\ ron = {} /\ calls = {} /\ Answered("CHI") = {} =>
          melds' = melds

LEMMA ClaimsResolved ==
  ASSUME TypeOK, AskInv, ResolveDiscard
  PROVE  StrongestWins
  <1> DEFINE ron == Answered("RON")
             chi == Answered("CHI")
  <1>1. ron_players = ron /\ ron \in SUBSET Player
    BY DEF AskInv, Answered
  <1>2. /\ chi = IF best_chi = NO_PLAYER THEN {} ELSE {best_chi}
        /\ \A p \in chi : p = NextPlayer(current_player)
    BY OfferedClaims DEF AskInv, AskedInOrder, Answered
  <1>3. best_call.type \in {"PON", "MINKAN"} <=> Calls # {}
    BY DEF AskInv, BestCallIsClosest, NoCall, Calls, Answered
  <1>4. Calls # {} => /\ best_call.player \in Calls
                      /\ \A p \in Calls : DistanceFromDiscarder(best_call.player)
                                            <= DistanceFromDiscarder(p)
    BY DEF AskInv, BestCallIsClosest
  <1>5. Calls = Answered("PON") \cup Answered("MINKAN")
    BY DEF Calls
  <1> HIDE DEF ron, chi
  <1>6. CASE ron # {}
    <2>1. Ron(ron)
      BY <1>1, <1>6 DEF ResolveDiscard
    <2>2. CASE TripleRonAborts(ron)
      <3>1. round_result'.reason = "TRIPLE_RON" /\ winners' = {}
        BY <2>1, <2>2 DEF Ron, FinishAbortiveDraw, FinishDrawRound
      <3> QED
        BY <1>6, <3>1 DEF StrongestWins, ron
    <2>3. CASE ~ TripleRonAborts(ron)
      <3>1. round_result'.type = "RON" /\ winners' = RonWinners(ron)
        BY <2>1, <2>3 DEF Ron, FinishMultiRon
      <3>2. \A w \in winners', p \in ron \ winners' :
              DistanceFromDiscarder(w) < DistanceFromDiscarder(p)
        BY <1>1, <3>1, CloserClaimantWins
      <3> QED
        BY <1>6, <3>1, <3>2 DEF StrongestWins, ron
    <2> QED
      BY <2>2, <2>3
  <1>7. CASE ron = {} /\ Calls # {}
    <2>1. Pon(best_call.player) \/ Minkan(best_call.player)
      BY <1>1, <1>3, <1>7 DEF ResolveDiscard, NoCall
    <2>2. current_player' = best_call.player
      BY <2>1 DEF Pon, ChiOrPon, Minkan, FinishOpenCall
    <2> QED
      BY <1>4, <1>5, <1>7, <2>2 DEF StrongestWins, ron
  <1>8. CASE ron = {} /\ Calls = {} /\ chi # {}
    <2>1. best_chi # NO_PLAYER
      BY <1>2, <1>8
    <2>2. Chi
      BY <1>1, <1>3, <1>8, <2>1 DEF ResolveDiscard
    <2>3. current_player' = NextPlayer(current_player) /\ phase' = "AFTER_CALL"
      BY <2>2 DEF Chi, ChiOrPon, FinishOpenCall
    <2>4. chi = {current_player'}
      BY <1>2, <1>8, <2>3
    <2> QED
      BY <1>5, <1>8, <2>3, <2>4 DEF StrongestWins, ron, chi
  <1>9. CASE ron = {} /\ Calls = {} /\ chi = {}
    <2>1. best_chi = NO_PLAYER
      BY <1>2, <1>9
    <2>2. Pass
      BY <1>1, <1>3, <1>9, <2>1 DEF ResolveDiscard
    <2>3. melds' = melds
      BY <2>2 DEF Pass, PassIntoAbort, PassIntoExhaustiveDraw, PassIntoNextTurn,
                  PassReactions
    <2> QED
      BY <1>5, <1>9, <2>3 DEF StrongestWins, ron, chi
  <1> QED
    BY <1>6, <1>7, <1>8, <1>9

\* Ron, then the closest pon or minkan, then chi: no order of questions and no
\* combination of answers lets a weaker claim decide.
THEOREM StrongestClaimAlwaysWins == MSpec => StrongestClaimWins
  <1>1. ASSUME TypeOK, AskInv, [MNext]_mvars
        PROVE  [phase = "DISCARD" /\ player = 4 /\ player' = 0 => StrongestWins]_mvars
    <2>1. CASE Resolve
      BY <1>1, <2>1, ClaimsResolved DEF Resolve, ResolveKan
    <2>2. CASE TurnStep
      BY <2>2 DEF TurnStep, TurnPhases
    <2>3. CASE SkipCurrent
      BY <1>1, <2>3 DEF SkipCurrent
    <2>4. CASE Ask
      BY <2>4 DEF Ask
    <2> QED
      BY <1>1, <2>1, <2>2, <2>3, <2>4 DEF MNext
  <1> QED
    BY <1>1, AnswersInvariant, PTL DEF MSpec, StrongestClaimWins, StrongestWins

\* Temporary and riichi furiten are imposed by a pass and by the draw for a kan
\* nobody robs, hence only where nobody answered with a ron.
THEOREM OnlyDecliningEverPunished == MSpec => OnlyDecliningIsPunished
  <1> DEFINE punished == (temporary_furiten' \cup riichi_furiten')
                           \ (temporary_furiten \cup riichi_furiten)
             Declined == \A p \in punished : answers[p] # "RON" /\ "RON" \in Offered(p)
  <1>1. ASSUME TypeOK, AskInv, [MNext]_mvars
        PROVE  [Declined]_mvars
    <2>1. ASSUME NEW drawers, DeclineRon(drawers), ron_players = {}
          PROVE  Declined
      <3>1. punished \subseteq CanRon
        BY <2>1 DEF DeclineRon
      <3>2. \A p \in Player : answers[p] # "RON"
        BY <1>1, <2>1 DEF AskInv, Answered
      <3>3. CanRon \subseteq Player
        BY <1>1 DEF CanRon, TypeOK
      <3> QED
        BY <3>1, <3>2, <3>3, OfferedClaims
    <2>2. CASE Resolve
      <3>1. ASSUME NEW claimants, Ron(claimants)
            PROVE  punished = {}
        BY <3>1 DEF Ron, furitenVars
      <3>2. ASSUME NEW p, Pon(p) \/ Minkan(p) \/ Chi
            PROVE  punished = {}
        BY <3>2 DEF Pon, Chi, ChiOrPon, Minkan, furitenVars
      <3>3. ASSUME Pass \/ RinshanDraw
            PROVE  \E drawers : DeclineRon(drawers)
        BY <3>3 DEF Pass, PassIntoAbort, PassIntoExhaustiveDraw, PassIntoNextTurn,
                    RinshanDraw
      <3>4. \/ \E claimants : Ron(claimants)
            \/ \E p : Pon(p) \/ Minkan(p) \/ Chi
            \/ ron_players = {} /\ (Pass \/ RinshanDraw)
        BY <2>2 DEF Resolve, ResolveDiscard, ResolveKan
      <3> QED
        BY <2>1, <3>1, <3>2, <3>3, <3>4
    <2>3. CASE TurnStep
      BY <2>3 DEF TurnStep, Discard, Riichi, Tsumo, KyuushuKyuuhai, Ankan, Kakan,
                  furitenVars
    <2>4. CASE SkipCurrent \/ Ask
      BY <2>4 DEF SkipCurrent, Ask, vars, furitenVars
    <2> QED
      BY <1>1, <2>2, <2>3, <2>4 DEF MNext
  <1> QED
    BY <1>1, AnswersInvariant, PTL DEF MSpec, OnlyDecliningIsPunished
=============================================================================
