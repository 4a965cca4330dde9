----------------------------- MODULE Game_proofs -----------------------------
(* A game neither creates nor loses points, its losers never profit, and    *)
(* deal, wind, debt and overtime follow the rules: for every initial score, *)
(* every set of rules and every value that a winning hand may have.         *)
EXTENDS Game, TLAPS, FiniteSetTheorems

-----------------------------------------------------------------------------
(* What is known of an outcome                                              *)

HandRecords == [han : Nat, fu : Nat, yakuman : Nat]

LEMMA ProductType ==
  ASSUME NEW a \in Nat, NEW b \in Nat
  PROVE  a * b \in Nat
  OBVIOUS

LEMMA PowerType ==
  ASSUME NEW n \in {2, 3, 4, 5, 6, 7}
  PROVE  2 ^ n \in Nat
  <1>1. CASE n = 2
    BY <1>1
  <1>2. CASE n = 3
    BY <1>2
  <1>3. CASE n = 4
    BY <1>3
  <1>4. CASE n = 5
    BY <1>4
  <1>5. CASE n = 6
    BY <1>5
  <1>6. CASE n = 7
    BY <1>6
  <1> QED
    BY <1>1, <1>2, <1>3, <1>4, <1>5, <1>6

\* The value of a hand is a number of points.
LEMMA HandValue ==
  ASSUME NEW h \in HandRecords, NEW r \in RuleRecords
  PROVE  /\ BasicPoints(h, r) \in Nat /\ YakumanCount(h, r) \in Nat
         /\ h.yakuman > 0 => YakumanCount(h, r) > 0
  <1>1. /\ h.han \in Nat /\ h.fu \in Nat /\ h.yakuman \in Nat
        /\ r.kazoe_yakuman \in BOOLEAN /\ r.kiriage_mangan \in BOOLEAN
    BY DEF HandRecords, RuleRecords
  <1>2. YakumanCount(h, r) \in Nat /\ (h.yakuman > 0 => YakumanCount(h, r) > 0)
    BY <1>1 DEF YakumanCount
  <1>3. CASE YakumanCount(h, r) > 0
    <2>1. 8000 * YakumanCount(h, r) \in Nat
      BY <1>2
    <2>2. h.yakuman = 0 => h.han >= 13 /\ r.kazoe_yakuman
      BY <1>1, <1>3 DEF YakumanCount
    <2> QED
      BY <1>1, <1>2, <1>3, <2>1, <2>2 DEF BasicPoints
  <1>4. CASE YakumanCount(h, r) = 0 /\ h.han > 5
    BY <1>1, <1>2, <1>4 DEF BasicPoints, YakumanCount
  <1>5. CASE YakumanCount(h, r) = 0 /\ h.han <= 5
    <2>1. h.yakuman = 0
      BY <1>1, <1>2, <1>5
    <2>2. h.fu * 2 ^ (h.han + 2) \in Nat
      <3>1. h.han + 2 \in {2, 3, 4, 5, 6, 7}
        BY <1>1, <1>5
      <3>2. 2 ^ (h.han + 2) \in Nat
        BY <3>1, PowerType
      <3> QED
        BY <1>1, <3>2, ProductType
    <2> QED
      BY <1>1, <1>5, <2>1, <2>2 DEF BasicPoints
  <1> QED
    BY <1>1, <1>2, <1>3, <1>4, <1>5

\* A number of points, rounded up, is a number of points.
LEMMA RoundedUp ==
  ASSUME NEW x \in Nat
  PROVE  RoundUp100(x) \in Nat
  BY DEF RoundUp100

\* An outcome is of the kind its type says.
LEMMA OutcomeTypes ==
  ASSUME NEW o \in Outcomes
  PROVE  /\ o.type = "TSUMO" => o \in TsumoOutcomes
         /\ o.type = "RON" => o \in RonOutcomes
         /\ o.type = "EXHAUSTIVE_DRAW" => o \in DrawOutcomes
         /\ o.type \in {"TSUMO", "RON", "EXHAUSTIVE_DRAW", "ABORTIVE_DRAW"}
  <1>1. ASSUME o \in TsumoOutcomes PROVE o.type = "TSUMO"
    <2>1. PICK p \in Waiters : \E w \in Wins({p}) :
            o = [type |-> "TSUMO", current_player |-> p, wins |-> w]
      BY <1>1 DEF TsumoOutcomes
    <2> QED
      BY <2>1
  <1>2. ASSUME o \in RonOutcomes PROVE o.type = "RON"
    <2>1. PICK p \in Player : \E ps \in (SUBSET (Waiters \ {p})) \ {{}} :
            \E w \in Wins(ps) :
              o = [type |-> "RON", current_player |-> p, wins |-> w]
      BY <1>2 DEF RonOutcomes
    <2> QED
      BY <2>1
  <1>3. o \in DrawOutcomes => o.type = "EXHAUSTIVE_DRAW"
    BY DEF DrawOutcomes
  <1>4. o \in AbortOutcomes => o.type = "ABORTIVE_DRAW"
    BY DEF AbortOutcomes
  <1> QED
    BY <1>1, <1>2, <1>3, <1>4 DEF Outcomes

\* Who can win with which liability, in an outcome with a win.
LEMMA WinOutcome ==
  ASSUME outcome \in Outcomes, Winners # {}
  PROVE  /\ outcome.current_player \in Player
         /\ \/ outcome.type = "TSUMO" /\ Winners = {outcome.current_player}
            \/ outcome.type = "RON" /\ Winners \subseteq Player \ {outcome.current_player}
         /\ \A w \in Winners : outcome.wins[w] \in WinsOf(w)
  <1>1. outcome.type \in {"TSUMO", "RON"} /\ Winners = DOMAIN outcome.wins
    BY DEF Winners
  <1>2. outcome \in TsumoOutcomes \cup RonOutcomes
    BY <1>1, OutcomeTypes
  <1>3. CASE outcome \in TsumoOutcomes
    <2>1. PICK p \in Waiters : \E w \in Wins({p}) :
            outcome = [type |-> "TSUMO", current_player |-> p, wins |-> w]
      BY <1>3 DEF TsumoOutcomes
    <2>2. /\ outcome.current_player = p /\ outcome.type = "TSUMO"
          /\ DOMAIN outcome.wins = {p} /\ outcome.wins[p] \in WinsOf(p)
      BY <2>1 DEF Wins
    <2> QED
      BY <1>1, <2>1, <2>2, GameAssumption
  <1>4. CASE outcome \in RonOutcomes
    <2>1. PICK p \in Player : \E ps \in (SUBSET (Waiters \ {p})) \ {{}} :
            \E w \in Wins(ps) :
              outcome = [type |-> "RON", current_player |-> p, wins |-> w]
      BY <1>4 DEF RonOutcomes
    <2>2. /\ outcome.current_player = p /\ outcome.type = "RON"
          /\ DOMAIN outcome.wins \subseteq Waiters \ {p}
          /\ \A q \in DOMAIN outcome.wins : outcome.wins[q] \in WinsOf(q)
      BY <2>1 DEF Wins
    <2> QED
      BY <1>1, <2>1, <2>2, GameAssumption
  <1> QED
    BY <1>2, <1>3, <1>4

\* What the settlement computes of one win.
LEMMA WinValue ==
  ASSUME rules \in RuleRecords, outcome \in Outcomes, NEW w \in Winners
  PROVE  /\ w \in Player
         /\ Base(w) \in Nat /\ Yakuman(w) \in Nat /\ ResponsibleYakuman(w) \in Nat
         /\ PaoPlayer(w) \in (Player \ {w}) \cup {NO_PLAYER}
         /\ PaoPlayer(w) # NO_PLAYER => Yakuman(w) > 0
  <1>1. w \in Player /\ outcome.wins[w] \in WinsOf(w)
    BY WinOutcome
  <1>2. /\ outcome.wins[w].hand \in Hands
        /\ \/ outcome.wins[w].pao = NoPao
           \/ /\ outcome.wins[w].pao.player \in Player \ {w}
              /\ outcome.wins[w].hand.yakuman > 0
    BY <1>1 DEF WinsOf
  <1>3. outcome.wins[w].hand \in HandRecords
    BY <1>2, GameAssumption DEF HandRecords
  <1>4. /\ Base(w) \in Nat /\ Yakuman(w) \in Nat
        /\ outcome.wins[w].hand.yakuman > 0 => Yakuman(w) > 0
    BY <1>3, HandValue DEF Base, Yakuman
  <1>5. ResponsibleYakuman(w) \in Nat
    BY <1>4 DEF ResponsibleYakuman
  <1>6. rules.pao \subseteq {"DAISANGEN", "DAISUUSHII", "SUUKANTSU"}
    BY DEF RuleRecords
  <1>7. /\ PaoPlayer(w) \in (Player \ {w}) \cup {NO_PLAYER}
        /\ PaoPlayer(w) # NO_PLAYER => outcome.wins[w].hand.yakuman > 0
    BY <1>2, <1>6 DEF PaoPlayer, NoPao, NO_PLAYER
  <1> QED
    BY <1>1, <1>4, <1>5, <1>7

\* Among some players one is the lowest in any numbering from 0 to 3.
LEMMA LowestPlayer ==
  ASSUME NEW ps, ps # {}, NEW f \in [ps -> {0, 1, 2, 3}]
  PROVE  \E p \in ps : \A q \in ps : f[p] <= f[q]
  <1> SUFFICES ASSUME \A p \in ps : \E q \in ps : f[q] < f[p]
               PROVE  FALSE
    OBVIOUS
  <1>1. \A p \in ps : f[p] # 0
    OBVIOUS
  <1>2. \A p \in ps : f[p] # 1
    BY <1>1
  <1>3. \A p \in ps : f[p] # 2
    BY <1>1, <1>2
  <1>4. \A p \in ps : f[p] # 3
    BY <1>1, <1>2, <1>3
  <1> QED
    BY <1>1, <1>2, <1>3, <1>4

\* The sticks and the honba of a ron go to one of the winners.
LEMMA FirstWinnerWins ==
  ASSUME outcome \in Outcomes, Winners # {}
  PROVE  FirstWinner \in Winners
  <1>1. Winners \subseteq Player /\ outcome.current_player \in Player
    BY WinOutcome
  <1> DEFINE f == [p \in Winners |-> Distance(p)]
  <1>2. f \in [Winners -> {0, 1, 2, 3}]
    BY <1>1 DEF Distance, Player
  <1>3. \E p \in Winners : \A q \in Winners : f[p] <= f[q]
    BY <1>2, LowestPlayer
  <1> QED
    BY <1>3 DEF FirstWinner

LEMMA StickWinnerType ==
  ASSUME outcome \in Outcomes
  PROVE  /\ StickWinner \in Winners \cup NagashiPlayers \cup {NO_PLAYER}
         /\ Winners # {} => StickWinner = FirstWinner /\ StickWinner \in Winners
         /\ NagashiPlayers \subseteq Player /\ Winners \subseteq Player
  <1>1. Winners \subseteq Player
    BY WinOutcome
  <1>2. NagashiPlayers \subseteq Player
    <2>1. CASE NagashiPlayers = {}
      BY <2>1
    <2>2. CASE NagashiPlayers # {}
      <3>1. outcome.type = "EXHAUSTIVE_DRAW" /\ NagashiPlayers = outcome.nagashi
        BY <2>2 DEF NagashiPlayers, NagashiOf
      <3>2. outcome \in DrawOutcomes
        BY <3>1, OutcomeTypes
      <3>3. outcome.nagashi \subseteq Player
        BY ONLY <3>2 DEF DrawOutcomes
      <3> QED
        BY <3>1, <3>3
    <2> QED
      BY <2>1, <2>2
  <1>3. NagashiPlayers # {} =>
          \E p \in NagashiPlayers : \A q \in NagashiPlayers : p <= q
    <2> DEFINE f == [p \in NagashiPlayers |-> p]
    <2>1. f \in [NagashiPlayers -> {0, 1, 2, 3}]
      BY <1>2 DEF Player
    <2>2. NagashiPlayers # {} =>
            \E p \in NagashiPlayers : \A q \in NagashiPlayers : f[p] <= f[q]
      BY <2>1, LowestPlayer
    <2> QED
      BY <2>2
  <1> QED
    BY <1>1, <1>2, <1>3, FirstWinnerWins DEF StickWinner

-----------------------------------------------------------------------------
(* Payments of a win                                                        *)

\* A part of a sum of points, of which it is r parts of y.
LEMMA PartOf ==
  ASSUME NEW x \in Nat, NEW r \in Nat, NEW y \in Nat, y > 0, r <= y
  PROVE  (x * r) \div y \in Nat /\ (x * r) \div y <= x
  OBVIOUS

\* What a loser pays for a tsumo.
LEMMA ShareType ==
  ASSUME rules \in RuleRecords, outcome \in Outcomes, honba \in Nat,
         NEW w \in Winners, NEW p \in Player
  PROVE  /\ TsumoShare(w, p) \in Nat
         /\ TsumoShare(w, p) - 100 * honba \in Nat
  <1>1. Base(w) \in Nat
    BY WinValue
  <1>2. /\ TsumoDealerPayment(Base(w), w = dealer) \in Nat
        /\ TsumoNonDealerPayment(Base(w), w = dealer) \in Nat
    BY <1>1, RoundedUp DEF TsumoDealerPayment, TsumoNonDealerPayment
  <1> QED
    BY <1>2 DEF TsumoShare

\* A tsumo moves points from the losers, or from the player liable for it, to
\* the winner.
LEMMA TsumoBalanced ==
  ASSUME rules \in RuleRecords, outcome \in Outcomes, honba \in Nat,
         NEW w \in Winners
  PROVE  /\ TsumoPayments(w) \in [Player -> Int]
         /\ Sum(TsumoPayments(w)) = 0
         /\ \A p \in Player \ {w} : TsumoPayments(w)[p] <= 0
  <1> DEFINE pay == TsumoPayments(w)
             total == TsumoTotal(w)
             share == [p \in Player |-> TsumoShare(w, p)]
             pao == PaoPlayer(w)
             part == [p \in Player |-> IF p \in {w, pao} THEN 0 ELSE TsumoPaoPart(w, p)]
             shared == rules.pao_liability_only /\ Yakuman(w) > ResponsibleYakuman(w)
  <1>1. /\ w \in Player /\ pao \in (Player \ {w}) \cup {NO_PLAYER}
        /\ pao # NO_PLAYER => Yakuman(w) > 0
        /\ Yakuman(w) \in Nat /\ ResponsibleYakuman(w) \in Nat
    BY WinValue
  <1>2. Player = {0, 1, 2, 3} /\ NO_PLAYER \notin Player
    BY DEF Player, NO_PLAYER
  <1>3. \A p \in Player : share[p] \in Nat /\ share[p] = TsumoShare(w, p)
    BY ShareType
  <1>4. pao # NO_PLAYER /\ shared =>
          \A p \in Player : part[p] \in Nat /\ part[p] <= share[p]
    <2> SUFFICES ASSUME pao # NO_PLAYER, shared, NEW p \in Player
                 PROVE  part[p] \in Nat /\ part[p] <= share[p]
      OBVIOUS
    <2> DEFINE own == TsumoShare(w, p) - 100 * honba
    <2>1. own \in Nat /\ own <= TsumoShare(w, p)
      BY ShareType
    <2>2. TsumoPaoPart(w, p) = (own * ResponsibleYakuman(w)) \div Yakuman(w)
      BY DEF TsumoPaoPart
    <2> HIDE DEF own
    <2>3. TsumoPaoPart(w, p) \in Nat /\ TsumoPaoPart(w, p) <= own
      BY <1>1, <2>1, <2>2, PartOf
    <2> QED
      BY <1>3, <2>1, <2>3
  <1>5. total = (IF 0 = w THEN 0 ELSE share[0]) + (IF 1 = w THEN 0 ELSE share[1])
                 + (IF 2 = w THEN 0 ELSE share[2]) + (IF 3 = w THEN 0 ELSE share[3])
    BY <1>2 DEF TsumoTotal, Sum
  <1>6. Sum(part) = part[0] + part[1] + part[2] + part[3]
    BY DEF Sum
  <1>7. /\ DOMAIN pay = Player /\ pay = [p \in Player |-> pay[p]]
        /\ \A p \in Player :
             pay[p] = CASE p = w -> total
                        [] p # w /\ pao = NO_PLAYER -> - share[p]
                        [] p # w /\ pao # NO_PLAYER /\ ~ shared ->
                             IF p = pao THEN - total ELSE 0
                        [] p # w /\ pao # NO_PLAYER /\ shared ->
                             IF p = pao THEN - share[p] - Sum(part)
                                        ELSE part[p] - share[p]
    BY <1>3 DEF TsumoPayments
  <1>8. Sum(pay) = pay[0] + pay[1] + pay[2] + pay[3]
    BY DEF Sum
  <1>9. pao # NO_PLAYER /\ shared => part[w] = 0 /\ part[pao] = 0
    BY <1>1
  <1> HIDE DEF pay, total, share, pao, part, shared
  <1>10. total \in Nat
    BY <1>2, <1>3, <1>5
  <1>11. CASE pao = NO_PLAYER
    <2>1. \A p \in Player : pay[p] = IF p = w THEN total ELSE - share[p]
      BY <1>7, <1>11
    <2> QED
      BY <1>1, <1>2, <1>3, <1>5, <1>7, <1>8, <1>10, <2>1 DEF pay
  <1>12. CASE pao # NO_PLAYER /\ ~ shared
    <2>1. \A p \in Player : pay[p] = IF p = w THEN total
                                      ELSE IF p = pao THEN - total ELSE 0
      BY <1>7, <1>12
    <2>2. pao \in Player \ {w}
      BY <1>1, <1>12
    <2>3. /\ pay[w] = total /\ pay[pao] = - total
          /\ \A p \in Player \ {w, pao} : pay[p] = 0
      BY <1>1, <2>1, <2>2
    <2>4. /\ \A p \in Player : pay[p] \in Int
          /\ \A p \in Player \ {w} : pay[p] <= 0
      BY <1>10, <2>1
    <2>5. Sum(pay) = 0
      BY ONLY <1>1, <1>2, <1>8, <1>10, <2>2, <2>3
    <2> QED
      BY <1>7, <2>4, <2>5 DEF pay
  <1>13. CASE pao # NO_PLAYER /\ shared
    <2>1. \A p \in Player : pay[p] = IF p = w THEN total
                                      ELSE IF p = pao THEN - share[p] - Sum(part)
                                      ELSE part[p] - share[p]
      BY <1>7, <1>13
    <2>2. Sum(part) \in Nat
      BY <1>2, <1>4, <1>6, <1>13
    <2>3. /\ \A p \in Player : pay[p] \in Int
          /\ \A p \in Player \ {w} : pay[p] <= 0
      BY <1>3, <1>4, <1>10, <1>13, <2>1, <2>2
    <2>4. Sum(pay) = 0
      <3>1. share \in [Player -> Int] /\ part \in [Player -> Int]
        BY <1>3, <1>4, <1>13 DEF share, part
      <3>2. total = share[0] + share[1] + share[2] + share[3] - share[w]
        BY <1>1, <1>2, <1>3, <1>5
      <3>3. pay \in [Player -> Int] /\ pao \in Player \ {w}
        BY <1>1, <1>7, <1>13, <2>3
      <3>4. /\ pay[w] = total /\ pay[pao] = - share[pao] - Sum(part)
            /\ \A p \in Player \ {w, pao} : pay[p] = part[p] - share[p]
        BY <1>1, <2>1, <3>3
      <3>5. part[w] = 0 /\ part[pao] = 0 /\ w \in Player
        BY <1>1, <1>9, <1>13
      <3> QED
        BY ONLY <1>2, <1>6, <1>8, <3>1, <3>2, <3>3, <3>4, <3>5
    <2> QED
      BY <1>7, <2>3, <2>4 DEF pay
  <1> QED
    BY <1>11, <1>12, <1>13

\* What a ron costs, and the liable player's part of it.
LEMMA RonPartType ==
  ASSUME rules \in RuleRecords, outcome \in Outcomes, honba \in Nat,
         NEW w \in Winners
  PROVE  LET total == RonPoints(Base(w), w = dealer) + RonHonba(w)
         IN /\ total \in Nat
            /\ PaoPlayer(w) # NO_PLAYER => RonPaoPart(w) \in 0 .. total
  <1> DEFINE points == RonPoints(Base(w), w = dealer)
             total == points + RonHonba(w)
  <1>1. points \in Nat
    BY WinValue, RoundedUp DEF RonPoints
  <1>2. RonHonba(w) \in Nat
    BY DEF RonHonba
  <1> HIDE DEF points
  <1>3. ASSUME PaoPlayer(w) # NO_PLAYER
        PROVE  RonPaoPart(w) \in 0 .. total
    <2>1. /\ Yakuman(w) \in Nat /\ Yakuman(w) > 0
          /\ ResponsibleYakuman(w) \in Nat /\ ResponsibleYakuman(w) <= Yakuman(w)
      BY <1>3, WinValue DEF ResponsibleYakuman
    <2>2. /\ (points * ResponsibleYakuman(w)) \div Yakuman(w) \in Nat
          /\ (points * ResponsibleYakuman(w)) \div Yakuman(w) <= points
      BY <1>1, <2>1, PartOf
    <2>3. points - (points \div 2) \in Nat /\ points - (points \div 2) <= points
      BY <1>1
    <2>4. RonPaoPart(w) = IF rules.pao_liability_only
                            THEN (points * ResponsibleYakuman(w)) \div Yakuman(w)
                            ELSE points - (points \div 2) + RonHonba(w)
      BY DEF RonPaoPart, points
    <2>5. CASE rules.pao_liability_only
      BY <1>1, <1>2, <2>2, <2>4, <2>5
    <2>6. CASE ~ rules.pao_liability_only
      BY <1>1, <1>2, <2>3, <2>4, <2>6
    <2> QED
      BY <2>5, <2>6
  <1> QED
    BY <1>1, <1>2, <1>3 DEF points

\* Each ron moves points from the discarder and the liable player to the winner.
LEMMA RonBalanced ==
  ASSUME rules \in RuleRecords, outcome \in Outcomes, honba \in Nat,
         outcome.type = "RON", NEW w \in Winners
  PROVE  LET pay == RonPayments(w)
         IN /\ pay \in [Player -> Int]
            /\ pay[0] + pay[1] + pay[2] + pay[3] = 0
            /\ \A p \in Player \ {w} : pay[p] <= 0
            /\ \A p \in Player \ {w, outcome.current_player, PaoPlayer(w)} : pay[p] = 0
  <1> DEFINE pay == RonPayments(w)
             loser == outcome.current_player
             total == RonPoints(Base(w), w = dealer) + RonHonba(w)
             pao == IF PaoPlayer(w) = loser THEN NO_PLAYER ELSE PaoPlayer(w)
             part == IF pao = NO_PLAYER THEN 0 ELSE RonPaoPart(w)
  <1>1. w \in Player /\ loser \in Player /\ w # loser
    BY WinOutcome
  <1>2. PaoPlayer(w) \in (Player \ {w}) \cup {NO_PLAYER}
    BY WinValue
  <1>3. total \in Nat /\ part \in Nat /\ part <= total
    BY RonPartType
  <1>4. Player = {0, 1, 2, 3} /\ NO_PLAYER = 4
    BY DEF Player, NO_PLAYER
  <1>5. pay = [p \in Player |-> (IF p = w THEN total ELSE 0)
                                 - (IF p = loser THEN total - part ELSE 0)
                                 - (IF p = pao THEN part ELSE 0)]
    BY DEF RonPayments
  <1>6. pao \notin {w, loser} /\ pao \in Player \cup {NO_PLAYER}
    BY <1>1, <1>2, <1>4
  <1>7. pao = NO_PLAYER => part = 0
    OBVIOUS
  <1>8. pao \in {loser, NO_PLAYER, PaoPlayer(w)}
    OBVIOUS
  <1> HIDE DEF pay, loser, total, pao, part
  <1>9. pay \in [Player -> Int]
    BY <1>3, <1>5
  <1>10. /\ pay[w] = total /\ pay[loser] = part - total
         /\ pao # NO_PLAYER => pay[pao] = - part
         /\ \A p \in Player \ {w, loser, pao} : pay[p] = 0
    BY <1>1, <1>3, <1>5, <1>6
  <1>11. pay[0] + pay[1] + pay[2] + pay[3] = 0
    <2>1. CASE pao = NO_PLAYER
      BY ONLY <1>1, <1>3, <1>4, <1>7, <1>9, <1>10, <2>1
    <2>2. CASE pao # NO_PLAYER
      BY ONLY <1>1, <1>3, <1>4, <1>6, <1>9, <1>10, <2>2
    <2> QED
      BY <2>1, <2>2
  <1>12. \A p \in Player \ {w} : pay[p] <= 0
    BY <1>3, <1>4, <1>9, <1>10
  <1>13. \A p \in Player \ {w, loser, PaoPlayer(w)} : pay[p] = 0
    BY <1>4, <1>8, <1>10
  <1> QED
    BY <1>9, <1>11, <1>12, <1>13 DEF pay, loser

\* Amounts that a player owes another cancel out.
LEMMA DebtsCancel ==
  ASSUME NEW m \in [Player -> [Player -> Int]]
  PROVE  LET in(p) == m[p][0] + m[p][1] + m[p][2] + m[p][3]
             out(p) == m[0][p] + m[1][p] + m[2][p] + m[3][p]
         IN (in(0) - out(0)) + (in(1) - out(1)) + (in(2) - out(2)) + (in(3) - out(3)) = 0
  <1>1. Player = {0, 1, 2, 3}
    BY DEF Player
  <1> QED
    BY <1>1

\* Several rons are as many payments.
LEMMA AllRonBalanced ==
  ASSUME rules \in RuleRecords, outcome \in Outcomes, honba \in Nat,
         outcome.type = "RON"
  PROVE  /\ AllRonPayments \in [Player -> Int]
         /\ Sum(AllRonPayments) = 0
         /\ \A p \in Player \ Winners : AllRonPayments[p] <= 0
         /\ \A p \in Player \ (Winners \cup {outcome.current_player}
                                  \cup {PaoPlayer(w) : w \in Winners}) :
              AllRonPayments[p] = 0
  <1> DEFINE m == [w \in Player |-> [p \in Player |->
                     IF w \in Winners THEN RonPayments(w)[p] ELSE 0]]
             all == AllRonPayments
  <1>1. Player = {0, 1, 2, 3}
    BY DEF Player
  <1>2. m \in [Player -> [Player -> Int]]
    BY RonBalanced
  <1>3. \A w \in Player : m[w][0] + m[w][1] + m[w][2] + m[w][3] = 0
    BY <1>1, RonBalanced
  <1>4. \A w \in Player, p \in Player \ Winners : m[w][p] <= 0
    BY RonBalanced
  <1>5. \A w \in Player, p \in Player \ (Winners \cup {outcome.current_player}
                                  \cup {PaoPlayer(v) : v \in Winners}) :
          m[w][p] = 0
    BY RonBalanced
  <1>6. all = [p \in Player |-> m[0][p] + m[1][p] + m[2][p] + m[3][p]]
    BY <1>1 DEF AllRonPayments, Sum
  <1>7. Sum(all) = all[0] + all[1] + all[2] + all[3]
    BY DEF Sum
  <1> HIDE DEF m, all
  <1>8. all \in [Player -> Int]
    BY <1>1, <1>2, <1>6
  <1>9. Sum(all) = 0
    BY <1>1, <1>2, <1>3, <1>6, <1>7
  <1>10. \A p \in Player \ Winners : all[p] <= 0
    BY <1>1, <1>2, <1>4, <1>6
  <1>11. \A p \in Player \ (Winners \cup {outcome.current_player}
                                  \cup {PaoPlayer(w) : w \in Winners}) : all[p] = 0
    BY <1>1, <1>2, <1>5, <1>6
  <1> QED
    BY <1>8, <1>9, <1>10, <1>11 DEF all

-----------------------------------------------------------------------------
(* Payments of a draw                                                       *)

LEMMA NagashiBalanced ==
  ASSUME honba \in Nat
  PROVE  NagashiPayments \in [Player -> Int] /\ Sum(NagashiPayments) = 0
  <1> DEFINE m == [w \in Player |-> [p \in Player |->
                     IF w \in NagashiPlayers /\ p \notin NagashiPlayers
                       THEN NagashiShare(w, p) ELSE 0]]
             pay == NagashiPayments
             gets == [p \in Player |-> m[p][0] + m[p][1] + m[p][2] + m[p][3]]
             owes == [p \in Player |-> m[0][p] + m[1][p] + m[2][p] + m[3][p]]
  <1>1. Player = {0, 1, 2, 3}
    BY DEF Player
  <1>2. m \in [Player -> [Player -> Int]]
    BY DEF NagashiShare
  <1>3. pay = [p \in Player |-> IF p \in NagashiPlayers THEN gets[p] ELSE - owes[p]]
    BY <1>1 DEF NagashiPayments, Sum
  <1>4. \A p \in Player : /\ p \in NagashiPlayers => owes[p] = 0
                          /\ p \notin NagashiPlayers => gets[p] = 0
    BY <1>1
  <1>5. Sum(pay) = pay[0] + pay[1] + pay[2] + pay[3]
    BY DEF Sum
  <1> HIDE DEF m, pay
  <1>6. \A p \in Player : gets[p] \in Int /\ owes[p] \in Int
    BY <1>1, <1>2
  <1> HIDE DEF gets, owes
  <1>7. pay \in [Player -> Int] /\ \A p \in Player : pay[p] = gets[p] - owes[p]
    <2>1. \A p \in Player : pay[p] = IF p \in NagashiPlayers THEN gets[p] ELSE - owes[p]
      BY <1>3
    <2>2. \A p \in Player : pay[p] = gets[p] - owes[p]
      BY <1>4, <1>6, <2>1
    <2>3. \A p \in Player : pay[p] \in Int
      BY <1>6, <2>2
    <2> QED
      BY <1>3, <2>2, <2>3
  <1>8. (gets[0] - owes[0]) + (gets[1] - owes[1])
          + (gets[2] - owes[2]) + (gets[3] - owes[3]) = 0
    BY <1>1, <1>2, DebtsCancel DEF gets, owes
  <1>9. pay[0] + pay[1] + pay[2] + pay[3] = 0
    <2>1. /\ pay[0] = gets[0] - owes[0] /\ pay[1] = gets[1] - owes[1]
          /\ pay[2] = gets[2] - owes[2] /\ pay[3] = gets[3] - owes[3]
      BY <1>1, <1>7
    <2> QED
      BY <1>8, <2>1
  <1> QED
    BY <1>5, <1>7, <1>9 DEF pay

\* A set of players has as many members as players are in it.
LEMMA PlayersCounted ==
  ASSUME NEW ps \in SUBSET Player
  PROVE  LET one == [p \in Player |-> IF p \in ps THEN 1 ELSE 0]
         IN Cardinality(ps) = one[0] + one[1] + one[2] + one[3]
  <1> DEFINE one == [p \in Player |-> IF p \in ps THEN 1 ELSE 0]
  <1>1. /\ IsFiniteSet(ps \cap {0}) /\ Cardinality(ps \cap {0}) = one[0]
    <2>1. CASE 0 \in ps
      <3>1. ps \cap {0} = {0}
        BY <2>1
      <3> QED
        BY <2>1, <3>1, FS_Singleton DEF Player
    <2>2. CASE 0 \notin ps
      <3>1. ps \cap {0} = {}
        BY <2>2
      <3> QED
        BY <2>2, <3>1, FS_EmptySet DEF Player
    <2> QED
      BY <2>1, <2>2
  <1>2. ASSUME NEW s, NEW x \in Player, IsFiniteSet(ps \cap s), x \notin s
        PROVE  /\ IsFiniteSet(ps \cap (s \cup {x}))
               /\ Cardinality(ps \cap (s \cup {x})) = Cardinality(ps \cap s) + one[x]
    <2>1. Cardinality(ps \cap s) \in Nat
      BY <1>2, FS_CardinalityType
    <2>2. CASE x \in ps
      <3>1. ps \cap (s \cup {x}) = (ps \cap s) \cup {x}
        BY <2>2
      <3> QED
        BY <1>2, <2>2, <3>1, FS_AddElement
    <2>3. CASE x \notin ps
      <3>1. ps \cap (s \cup {x}) = ps \cap s
        BY <2>3
      <3> QED
        BY <1>2, <2>1, <2>3, <3>1
    <2> QED
      BY <2>2, <2>3
  <1> DEFINE s0 == {0}
             s1 == s0 \cup {1}
             s2 == s1 \cup {2}
             s3 == s2 \cup {3}
  <1>3. /\ {1, 2, 3} \subseteq Player /\ 1 \notin s0 /\ 2 \notin s1 /\ 3 \notin s2
        /\ ps \subseteq s3
    BY DEF Player
  <1> HIDE DEF one, s0
  <1> USE <1>3
  <1>4. /\ IsFiniteSet(ps \cap s0) /\ Cardinality(ps \cap s0) = one[0]
    BY <1>1 DEF s0
  <1> HIDE DEF s1
  <1>5. /\ IsFiniteSet(ps \cap s1) /\ Cardinality(ps \cap s1) = one[0] + one[1]
    BY <1>2, <1>4 DEF s1
  <1> HIDE DEF s2
  <1>6. /\ IsFiniteSet(ps \cap s2)
        /\ Cardinality(ps \cap s2) = one[0] + one[1] + one[2]
    BY <1>2, <1>5 DEF s2
  <1> HIDE DEF s3
  <1>7. Cardinality(ps \cap s3) = one[0] + one[1] + one[2] + one[3]
    BY <1>2, <1>6 DEF s3
  <1>8. ps \cap s3 = ps
    OBVIOUS
  <1> QED
    BY <1>7, <1>8 DEF one

\* The penalty of the noten is what the tenpai get, if it divides by three.
LEMMA NotenBalanced ==
  ASSUME rules \in RuleRecords, outcome \in DrawOutcomes
  PROVE  /\ NotenPayments \in [Player -> Int]
         /\ rules.noten_penalty_points % 3 = 0 => Sum(NotenPayments) = 0
  <1> DEFINE tenpai == outcome.tenpai
             n == Cardinality(tenpai)
             one == [p \in Player |-> IF p \in tenpai THEN 1 ELSE 0]
             points == rules.noten_penalty_points
             pay == NotenPayments
  <1>1. Player = {0, 1, 2, 3} /\ points \in Nat
    BY DEF Player, RuleRecords
  <1>2. tenpai \in SUBSET Player
    BY GameAssumption DEF DrawOutcomes
  <1>3. n = one[0] + one[1] + one[2] + one[3]
    BY <1>2, PlayersCounted
  <1>4. one \in [Player -> {0, 1}]
    OBVIOUS
  <1>5. pay = IF rules.noten_penalty /\ n \in 1 .. 3
                THEN [p \in Player |-> IF one[p] = 1 THEN points \div n
                                                   ELSE - (points \div (4 - n))]
                ELSE NoPoints
    BY DEF NotenPayments
  <1>6. Sum(pay) = pay[0] + pay[1] + pay[2] + pay[3]
    BY DEF Sum
  <1> HIDE DEF one, n, points, pay
  <1>7. CASE rules.noten_penalty /\ n \in 1 .. 3
    <2>1. \A p \in Player : pay[p] = IF one[p] = 1 THEN points \div n
                                                  ELSE - (points \div (4 - n))
      BY <1>5, <1>7
    <2>2. points \div n \in Int /\ points \div (4 - n) \in Int
      BY <1>1, <1>7
    <2>3. pay \in [Player -> Int]
      BY <1>5, <1>7, <2>2
    <2>4. Sum(pay) = n * (points \div n) - (4 - n) * (points \div (4 - n))
      BY <1>1, <1>3, <1>4, <1>6, <1>7, <2>1, <2>2
    <2>5. points % 3 = 0 => n * (points \div n) = (4 - n) * (points \div (4 - n))
      <3>1. CASE n = 1
        BY <1>1, <3>1
      <3>2. CASE n = 2
        BY <1>1, <3>2
      <3>3. CASE n = 3
        BY <1>1, <3>3
      <3> QED
        BY <1>7, <3>1, <3>2, <3>3
    <2>6. n * (points \div n) \in Int
      BY <1>7, <2>2
    <2> QED
      BY <2>3, <2>4, <2>5, <2>6 DEF pay, points
  <1>8. CASE ~ (rules.noten_penalty /\ n \in 1 .. 3)
    BY <1>1, <1>5, <1>6, <1>8 DEF NoPoints, pay
  <1> QED
    BY <1>7, <1>8

\* Whatever the outcome, the payments cancel out; the losers of a win never
\* receive any.
LEMMA PaymentsBalanced ==
  ASSUME rules \in RuleRecords, outcome \in Outcomes, honba \in Nat
  PROVE  /\ Payments \in [Player -> Int]
         /\ rules.noten_penalty_points % 3 = 0 => Sum(Payments) = 0
         /\ \A p \in Player \ Winners : Winners # {} => Payments[p] <= 0
         /\ outcome.type = "RON" =>
              \A p \in Player \ (Winners \cup {outcome.current_player}
                                   \cup {PaoPlayer(w) : w \in Winners}) :
                Payments[p] = 0
  <1>1. CASE outcome.type = "TSUMO"
    <2>1. PICK p \in Waiters : \E w \in Wins({p}) :
            outcome = [type |-> "TSUMO", current_player |-> p, wins |-> w]
      BY <1>1, OutcomeTypes DEF TsumoOutcomes
    <2>2. Winners = {p}
      BY <2>1 DEF Winners, Wins
    <2>3. FirstWinner \in Winners
      BY <2>2, FirstWinnerWins
    <2>4. Payments = TsumoPayments(FirstWinner)
      BY <1>1 DEF Payments
    <2> QED
      BY <1>1, <2>2, <2>3, <2>4, TsumoBalanced
  <1>2. CASE outcome.type = "RON"
    <2>1. Payments = AllRonPayments
      BY <1>2 DEF Payments
    <2> QED
      BY <1>2, <2>1, AllRonBalanced
  <1>3. CASE outcome.type = "EXHAUSTIVE_DRAW"
    <2>1. Payments = IF NagashiPlayers # {} THEN NagashiPayments ELSE NotenPayments
      BY <1>3 DEF Payments
    <2>2. outcome \in DrawOutcomes
      BY <1>3, OutcomeTypes
    <2>3. Winners = {}
      BY <1>3 DEF Winners
    <2> QED
      BY <1>3, <2>1, <2>2, <2>3, NagashiBalanced, NotenBalanced
  <1>4. CASE outcome.type = "ABORTIVE_DRAW"
    <2>1. Payments = NoPoints
      BY <1>4 DEF Payments
    <2>2. NoPoints \in [Player -> Int] /\ Sum(NoPoints) = 0
      BY DEF NoPoints, Sum, Player
    <2>3. Winners = {}
      BY <1>4 DEF Winners
    <2> QED
      BY <1>4, <2>1, <2>2, <2>3
  <1> QED
    BY <1>1, <1>2, <1>3, <1>4, OutcomeTypes

-----------------------------------------------------------------------------
(* The inductive invariant                                                  *)

GameTypes ==
  /\ rules \in RuleSets
  /\ phase \in {"ROUND", "ROUND_END", "SETTLE", "GAME_END"}
  /\ scores \in [Player -> Int] /\ riichi_sticks \in Nat
  /\ round_wind \in Winds /\ dealer \in Player
  /\ next_round_wind \in Winds /\ next_dealer \in Player
  /\ settlement_should_end \in BOOLEAN
  /\ phase = "ROUND_END" => outcome \in Outcomes

\* The bound on the deals in a row keeps honba from wrapping around.
HonbaWithinBound ==
  /\ honba \in 0 .. MaxHonba
  /\ phase = "ROUND_END" /\ honba >= MaxHonba => ~ DealerContinues

\* What the settlement decided about the round to come is what the properties
\* of rounds ask for.
NextRoundPrepared ==
  phase = "SETTLE" /\ ~ settlement_should_end =>
    /\ rules.tobi_end => \A p \in Player : scores[p] >= 0
    /\ next_round_wind <= ExtensionLastRoundWind
    /\ 4 * next_round_wind + next_dealer = IF honba > 0 THEN Seat ELSE Seat + 1
    /\ next_round_wind > LastRoundWind
         /\ ~ rules.target_score_excludes_riichi_sticks =>
           /\ honba = 0 => \A p \in Player : scores[p] < rules.target_score
           /\ (\A p \in Player : scores[p] <= scores[next_dealer]) =>
                scores[next_dealer] < rules.target_score

GameInv ==
  /\ GameTypes
  /\ HonbaWithinBound
  /\ NextRoundPrepared
  /\ PointsConserved
  /\ NobodyPlaysInDebt
  /\ OvertimeMeansNobodyWon
  /\ RoundWithinExtension

\* What a settlement makes of the scores.
Settled ==
  [Plus(scores, Payments) EXCEPT
     ![IF StickWinner = NO_PLAYER THEN 0 ELSE StickWinner] =
       @ + 1000 * SticksAwarded]

LEMMA SettledScores ==
  ASSUME rules \in RuleRecords, outcome \in Outcomes, honba \in Nat,
         scores \in [Player -> Int], riichi_sticks \in Nat
  PROVE  /\ Settled \in [Player -> Int] /\ SticksAwarded \in {0, riichi_sticks}
         /\ Sum(Settled) = Sum(scores) + Sum(Payments) + 1000 * SticksAwarded
         /\ \A p \in Player : p # StickWinner => Settled[p] = scores[p] + Payments[p]
  <1> DEFINE winner == IF StickWinner = NO_PLAYER THEN 0 ELSE StickWinner
             pay == Payments
             award == SticksAwarded
             settled == Settled
  <1>1. Player = {0, 1, 2, 3}
    BY DEF Player
  <1>2. pay \in [Player -> Int]
    BY PaymentsBalanced
  <1>3. winner \in Player
    BY <1>1, StickWinnerType
  <1>4. award \in {0, riichi_sticks} /\ (StickWinner = NO_PLAYER => award = 0)
    BY DEF SticksAwarded
  <1>5. settled = [p \in Player |-> scores[p] + pay[p]
                                     + (IF p = winner THEN 1000 * award ELSE 0)]
    <2> DEFINE before == Plus(scores, pay)
    <2> HIDE DEF winner, pay, award
    <2>1. settled = [before EXCEPT ![winner] = before[winner] + 1000 * award]
      BY DEF Settled, winner, pay, award
    <2>2. before = [p \in Player |-> scores[p] + pay[p]]
      BY DEF Plus
    <2>3. 1000 * award \in Int /\ \A p \in Player : scores[p] + pay[p] \in Int
      BY <1>2, <1>4
    <2> HIDE DEF settled, before
    <2>4. settled = [p \in Player |-> IF p = winner THEN before[p] + 1000 * award
                                                   ELSE before[p]]
      BY <1>3, <2>1, <2>2
    <2>5. \A p \in Player : settled[p] = scores[p] + pay[p]
                                     + (IF p = winner THEN 1000 * award ELSE 0)
      BY <2>2, <2>3, <2>4
    <2> QED
      BY <2>4, <2>5
  <1>6. StickWinner # NO_PLAYER => StickWinner = winner
    OBVIOUS
  <1>7. /\ Sum(settled) = settled[0] + settled[1] + settled[2] + settled[3]
        /\ Sum(scores) = scores[0] + scores[1] + scores[2] + scores[3]
        /\ Sum(pay) = pay[0] + pay[1] + pay[2] + pay[3]
    BY DEF Sum
  <1> HIDE DEF winner, pay, award, settled
  <1>8. settled \in [Player -> Int]
    BY <1>2, <1>3, <1>4, <1>5
  <1>9. Sum(settled) = Sum(scores) + Sum(pay) + 1000 * award
    <2>1. \A p \in Player : settled[p] = scores[p] + pay[p]
                                     + (IF p = winner THEN 1000 * award ELSE 0)
      BY <1>5
    <2>2. scores \in [Player -> Int]
      OBVIOUS
    <2>3. 1000 * award \in Int
      BY <1>4
    <2> QED
      BY ONLY <1>1, <1>2, <1>3, <1>7, <2>1, <2>2, <2>3
  <1>10. \A p \in Player : p # StickWinner => settled[p] = scores[p] + pay[p]
    <2> SUFFICES ASSUME NEW p \in Player, p # StickWinner
                 PROVE  settled[p] = scores[p] + pay[p]
      OBVIOUS
    <2>1. settled[p] = scores[p] + pay[p] + (IF p = winner THEN 1000 * award ELSE 0)
      BY <1>5
    <2>2. p = winner => award = 0
      BY <1>4, <1>6
    <2> QED
      BY <1>2, <2>1, <2>2
  <1> QED
    BY <1>4, <1>8, <1>9, <1>10 DEF pay, award, settled

LEMMA GameInit == Init => GameInv
  <1> SUFFICES ASSUME Init PROVE GameInv
    OBVIOUS
  <1> USE GameAssumption DEF Init
  <1>1. GameTypes
    <2>1. scores \in [Player -> Int]
      OBVIOUS
    <2>2. 0 \in Winds /\ 0 \in Player /\ 0 \in Nat
      BY DEF Winds, Player
    <2> QED
      BY <2>1, <2>2 DEF GameTypes
  <1>2. HonbaWithinBound /\ NextRoundPrepared
    BY DEF HonbaWithinBound, NextRoundPrepared
  <1>3. rules.game_type \in {"TONPUU", "HANCHAN", "FULL"}
    BY DEF RuleRecords
  <1>4. PointsConserved
    BY DEF PointsConserved, Sum, Player
  <1>5. NobodyPlaysInDebt
    BY DEF NobodyPlaysInDebt
  <1>6. LastRoundWind \in {0, 1, 3} /\ ExtensionLastRoundWind \in {1, 2, 3}
    BY <1>3 DEF LastRoundWind, ExtensionLastRoundWind
  <1>7. OvertimeMeansNobodyWon /\ RoundWithinExtension
    BY <1>6 DEF OvertimeMeansNobodyWon, RoundWithinExtension
  <1> QED
    BY <1>1, <1>2, <1>4, <1>5, <1>7 DEF GameInv

\* The last winds of the lengths of a game.
LEMMA LastWinds ==
  ASSUME rules \in RuleRecords
  PROVE  /\ LastRoundWind \in {0, 1, 3} /\ ExtensionLastRoundWind \in {1, 2, 3}
         /\ LastRoundWind <= ExtensionLastRoundWind
         /\ LastRoundWind = ExtensionLastRoundWind <=> LastRoundWind = 3
  <1>1. rules.game_type \in {"TONPUU", "HANCHAN", "FULL"}
    BY DEF RuleRecords
  <1> QED
    BY <1>1 DEF LastRoundWind, ExtensionLastRoundWind

LEMMA PlayRoundStep ==
  ASSUME GameInv, PlayRound
  PROVE  GameInv'
  <1> USE DEF GameInv, GameTypes
  <1>1. PICK declared \in SUBSET {p \in Declarers : scores[p] >= 1000} :
          /\ scores' = [p \in Player |->
                          scores[p] - (IF p \in declared THEN 1000 ELSE 0)]
          /\ riichi_sticks' = riichi_sticks + Cardinality(declared)
    BY DEF PlayRound
  <1>2. /\ phase = "ROUND" /\ phase' = "ROUND_END" /\ outcome' \in Outcomes
        /\ honba >= MaxHonba => ~ ContinuesAfter(outcome')
        /\ UNCHANGED <<rules, round_wind, dealer, honba, next_round_wind,
                       next_dealer, settlement_should_end>>
    BY DEF PlayRound, seatVars, progressVars
  <1>3. declared \in SUBSET Player
    BY <1>1, GameAssumption
  <1> DEFINE one == [p \in Player |-> IF p \in declared THEN 1 ELSE 0]
  <1>4. Cardinality(declared) = one[0] + one[1] + one[2] + one[3]
    BY <1>3, PlayersCounted
  <1>5. one \in [Player -> {0, 1}] /\ Player = {0, 1, 2, 3}
    BY DEF Player
  <1>6. scores' = [p \in Player |-> scores[p] - 1000 * one[p]]
    BY <1>1
  <1> HIDE DEF one
  <1>7. GameTypes'
    <2>1. scores' \in [Player -> Int]
      BY <1>5, <1>6
    <2>2. riichi_sticks' \in Nat
      BY <1>1, <1>4, <1>5
    <2> QED
      BY <1>2, <2>1, <2>2
  <1>8. HonbaWithinBound'
    <2>1. DealerContinues' = ContinuesAfter(outcome')
      BY <1>2 DEF DealerContinues, ContinuesAfter, NagashiOf
    <2> QED
      BY <1>2, <2>1 DEF HonbaWithinBound
  <1>9. NextRoundPrepared' /\ NobodyPlaysInDebt' /\ OvertimeMeansNobodyWon'
    BY <1>2 DEF NextRoundPrepared, NobodyPlaysInDebt, OvertimeMeansNobodyWon
  <1>10. PointsConserved'
    <2>1. Sum(scores') + 1000 * riichi_sticks' = Sum(scores) + 1000 * riichi_sticks
      <3>1. scores \in [Player -> Int] /\ riichi_sticks \in Nat
        OBVIOUS
      <3>2. \A p \in Player : scores'[p] = scores[p] - 1000 * one[p]
        BY <1>6
      <3>3. riichi_sticks' = riichi_sticks + Cardinality(declared)
        BY <1>1
      <3>4. /\ Sum(scores) = scores[0] + scores[1] + scores[2] + scores[3]
            /\ Sum(scores') = scores'[0] + scores'[1] + scores'[2] + scores'[3]
        BY DEF Sum
      <3> QED
        BY ONLY <1>4, <1>5, <3>1, <3>2, <3>3, <3>4
    <2> QED
      BY <1>2, <2>1 DEF PointsConserved
  <1>11. RoundWithinExtension'
    BY <1>2 DEF RoundWithinExtension, ExtensionLastRoundWind
  <1> QED
    BY <1>7, <1>8, <1>9, <1>10, <1>11

LEMMA SettleStep ==
  ASSUME GameInv, Settle
  PROVE  GameInv'
  <1> USE DEF GameInv, GameTypes
  <1>1. /\ phase = "ROUND_END" /\ phase' = "SETTLE" /\ scores' = Settled
        /\ riichi_sticks' = riichi_sticks - SticksAwarded
        /\ next_dealer' = IF DealerContinues THEN dealer ELSE (dealer + 1) % 4
        /\ next_round_wind' = IF ~ DealerContinues /\ dealer = 3 /\ round_wind < NORTH
                                THEN round_wind + 1 ELSE round_wind
        /\ settlement_should_end' = ShouldEnd(scores')
        /\ honba' = IF ShouldEnd(scores') /\ DealerContinues /\ NextHonba > honba
                      THEN honba ELSE NextHonba
        /\ UNCHANGED <<rules, round_wind, dealer, outcome>>
    BY DEF Settle, Settled, seatVars
  <1>2. /\ rules \in RuleRecords /\ outcome \in Outcomes /\ honba \in Nat
        /\ rules.target_score \in Int
    BY <1>1, GameAssumption DEF HonbaWithinBound, RuleRecords
  <1>3. /\ scores' \in [Player -> Int] /\ SticksAwarded \in {0, riichi_sticks}
        /\ Sum(scores') = Sum(scores) + Sum(Payments) + 1000 * SticksAwarded
    BY <1>1, <1>2, SettledScores
  <1>4. /\ Player = {0, 1, 2, 3} /\ NORTH = 3 /\ round_wind \in {0, 1, 2, 3}
        /\ dealer \in {0, 1, 2, 3} /\ Winds = {0, 1, 2, 3}
    BY DEF Player, NORTH, Winds
  <1>5. ASSUME DealerContinues
        PROVE  honba < MaxHonba /\ NextHonba = honba + 1
    BY <1>1, <1>5, GameAssumption DEF HonbaWithinBound, NextHonba
  <1>6. ~ DealerContinues => NextHonba = 0
    BY DEF NextHonba
  <1> DEFINE ends == ShouldEnd(scores')
  <1>7. GameTypes'
    <2>1. riichi_sticks' \in Nat
      BY <1>1, <1>3
    <2>2. next_round_wind' \in Winds /\ next_dealer' \in Player
      BY <1>1, <1>4
    <2>3. ends \in BOOLEAN
      BY DEF ShouldEnd
    <2> QED
      BY <1>1, <1>3, <2>1, <2>2, <2>3
  <1>8. HonbaWithinBound'
    <2>1. honba' \in 0 .. MaxHonba
      BY <1>1, <1>5, <1>6, GameAssumption DEF HonbaWithinBound
    <2> QED
      BY <1>1, <2>1 DEF HonbaWithinBound
  <1>9. PointsConserved'
    <2>1. rules.noten_penalty_points % 3 = 0 => Sum(Payments) = 0
      BY <1>2, PaymentsBalanced
    <2>2. Sum(scores) \in Int
      BY <1>4 DEF Sum
    <2>3. ASSUME rules.noten_penalty_points % 3 = 0
          PROVE  Sum(scores') + 1000 * riichi_sticks' = 4 * InitialScore
      BY <1>1, <1>3, <2>1, <2>2, <2>3 DEF PointsConserved
    <2> QED
      BY <1>1, <2>3 DEF PointsConserved
  <1>10. RoundWithinExtension'
    BY <1>1 DEF RoundWithinExtension, ExtensionLastRoundWind
  <1>11. NobodyPlaysInDebt' /\ OvertimeMeansNobodyWon'
    BY <1>1 DEF NobodyPlaysInDebt, OvertimeMeansNobodyWon
  <1>12. NextRoundPrepared'
    <2> DEFINE last == LastRoundWind
               extension == ExtensionLastRoundWind
               target == rules.target_score
               top(p) == \A q \in Player : scores'[q] <= scores'[p]
               reached == \E p \in Player : scores'[p] >= target
    <2> SUFFICES ASSUME ~ ends
                 PROVE
             /\ rules.tobi_end => \A p \in Player : scores'[p] >= 0
             /\ next_round_wind' <= extension
             /\ 4 * next_round_wind' + next_dealer' =
                  IF honba' > 0 THEN Seat ELSE Seat + 1
             /\ next_round_wind' > last /\ ~ rules.target_score_excludes_riichi_sticks =>
                  /\ honba' = 0 => \A p \in Player : scores'[p] < target
                  /\ top(next_dealer') => scores'[next_dealer'] < target
      BY <1>1 DEF NextRoundPrepared, LastRoundWind, ExtensionLastRoundWind, Seat
    <2>1. /\ last \in {0, 1, 3} /\ extension \in {1, 2, 3} /\ last <= extension
          /\ last = extension <=> last = 3
          /\ round_wind <= extension
      BY <1>2, LastWinds DEF RoundWithinExtension
    <2>2. /\ rules.tobi_end => \A p \in Player : ~ (scores'[p] < 0)
          /\ IsEndgameRound =>
               /\ ~ DealerContinues /\ dealer = 3 => round_wind < extension
               /\ ReachedTarget(scores') =>
                    DealerContinues /\ ~ HasTopScore(scores', dealer)
      BY <1>4, <2>1 DEF ShouldEnd
    <2>3. IsEndgameRound <=> \/ round_wind > last
                             \/ round_wind = last /\ dealer = 3
      BY DEF IsEndgameRound
    <2>4. honba' = NextHonba
      BY <1>1
    <2>5. ~ rules.target_score_excludes_riichi_sticks =>
            /\ ReachedTarget(scores') <=> reached
            /\ \A p \in Player : HasTopScore(scores', p) <=> top(p)
      <3>1. ~ rules.target_score_excludes_riichi_sticks =>
              \A p \in Player : ProgressScore(scores', p) = scores'[p]
        BY <1>3 DEF ProgressScore
      <3> QED
        BY <3>1 DEF ReachedTarget, HasTopScore
    <2> HIDE DEF last, extension, target, ends
    <2>6. rules.tobi_end => \A p \in Player : scores'[p] >= 0
      BY <1>3, <2>2
    <2>7. next_round_wind' <= extension
      BY <1>1, <1>4, <2>1, <2>2, <2>3
    <2>8. 4 * next_round_wind' + next_dealer' = IF honba' > 0 THEN Seat ELSE Seat + 1
      <3>1. CASE DealerContinues
        BY <1>1, <1>2, <1>4, <1>5, <2>4, <3>1 DEF Seat
      <3>2. CASE ~ DealerContinues /\ dealer = 3
        <4>1. round_wind < 3
          BY <1>4, <2>1, <2>2, <2>3, <3>2
        <4> QED
          BY <1>1, <1>4, <1>6, <2>4, <3>2, <4>1 DEF Seat
      <3>3. CASE ~ DealerContinues /\ dealer # 3
        BY <1>1, <1>4, <1>6, <2>4, <3>3 DEF Seat
      <3> QED
        BY <3>1, <3>2, <3>3
    <2>9. ASSUME next_round_wind' > last, ~ rules.target_score_excludes_riichi_sticks
          PROVE  /\ honba' = 0 => \A p \in Player : scores'[p] < target
                 /\ top(next_dealer') => scores'[next_dealer'] < target
      <3>1. IsEndgameRound
        BY <1>1, <1>4, <2>1, <2>3, <2>9
      <3>2. target \in Int
        BY <1>2 DEF target
      <3>3. CASE DealerContinues
        <4>1. honba' > 0 /\ next_dealer' = dealer
          BY <1>1, <1>2, <1>5, <2>4, <3>3
        <4>2. reached => ~ top(dealer)
          BY <2>2, <2>5, <2>9, <3>1
        <4> QED
          BY <1>3, <1>4, <3>2, <4>1, <4>2
      <3>4. CASE ~ DealerContinues
        <4>1. ~ reached
          BY <2>2, <2>5, <2>9, <3>1, <3>4
        <4>2. \A p \in Player : scores'[p] < target
          BY <1>3, <3>2, <4>1
        <4> QED
          BY <1>1, <1>4, <4>2
      <3> QED
        BY <3>3, <3>4
    <2> QED
      BY <2>6, <2>7, <2>8, <2>9
  <1> QED
    BY <1>7, <1>8, <1>9, <1>10, <1>11, <1>12

LEMMA NextRoundStep ==
  ASSUME GameInv, NextRound
  PROVE  GameInv'
  <1> USE DEF GameInv, GameTypes
  <1>1. /\ phase = "SETTLE" /\ phase' = "ROUND" /\ ~ settlement_should_end
        /\ round_wind' = next_round_wind /\ dealer' = next_dealer
        /\ next_round_wind' = 0 /\ next_dealer' = 0 /\ settlement_should_end' = FALSE
        /\ UNCHANGED <<rules, scores, riichi_sticks, honba>>
    BY DEF NextRound
  <1>2. GameTypes'
    <2>1. 0 \in Winds /\ 0 \in Player
      BY DEF Winds, Player
    <2> QED
      BY <1>1, <2>1
  <1>3. HonbaWithinBound' /\ NextRoundPrepared'
    BY <1>1 DEF HonbaWithinBound, NextRoundPrepared
  <1>4. PointsConserved'
    BY <1>1 DEF PointsConserved
  <1>5. /\ rules.tobi_end => \A p \in Player : scores[p] >= 0
        /\ next_round_wind <= ExtensionLastRoundWind
        /\ next_round_wind > LastRoundWind
             /\ ~ rules.target_score_excludes_riichi_sticks =>
               /\ honba = 0 => \A p \in Player : scores[p] < rules.target_score
               /\ (\A p \in Player : scores[p] <= scores[next_dealer]) =>
                    scores[next_dealer] < rules.target_score
    BY <1>1 DEF NextRoundPrepared
  <1>6. NobodyPlaysInDebt'
    BY <1>1, <1>5 DEF NobodyPlaysInDebt
  <1>7. LastRoundWind' = LastRoundWind /\ ExtensionLastRoundWind' = ExtensionLastRoundWind
    BY <1>1 DEF LastRoundWind, ExtensionLastRoundWind
  <1>8. OvertimeMeansNobodyWon' /\ RoundWithinExtension'
    BY <1>1, <1>5, <1>7 DEF OvertimeMeansNobodyWon, RoundWithinExtension
  <1> QED
    BY <1>2, <1>3, <1>4, <1>6, <1>8

LEMMA GameInvStep == GameInv /\ [Next]_vars => GameInv'
  <1> SUFFICES ASSUME GameInv, [Next]_vars PROVE GameInv'
    OBVIOUS
  <1>1. CASE PlayRound
    BY <1>1, PlayRoundStep
  <1>2. CASE Settle
    BY <1>2, SettleStep
  <1>3. CASE NextRound
    BY <1>3, NextRoundStep
  <1>4. CASE GameEnd
    <2>1. /\ phase' = "GAME_END"
          /\ UNCHANGED <<rules, scores, riichi_sticks, round_wind, dealer, honba,
                         next_round_wind, next_dealer, settlement_should_end>>
      BY <1>4 DEF GameEnd, seatVars, progressVars
    <2>2. GameTypes' /\ HonbaWithinBound' /\ NextRoundPrepared'
      BY <2>1 DEF GameInv, GameTypes, HonbaWithinBound, NextRoundPrepared
    <2>3. PointsConserved' /\ NobodyPlaysInDebt' /\ OvertimeMeansNobodyWon'
      BY <2>1 DEF GameInv, PointsConserved, NobodyPlaysInDebt, OvertimeMeansNobodyWon
    <2>4. RoundWithinExtension'
      BY <2>1 DEF GameInv, RoundWithinExtension, ExtensionLastRoundWind
    <2> QED
      BY <2>2, <2>3, <2>4 DEF GameInv
  <1>5. CASE UNCHANGED vars
    <2>1. UNCHANGED <<rules, phase, scores, riichi_sticks, round_wind, dealer, honba,
                      outcome, next_round_wind, next_dealer, settlement_should_end>>
      BY <1>5 DEF vars, seatVars, progressVars
    <2>2. GameTypes' /\ PointsConserved' /\ NobodyPlaysInDebt'
      BY <2>1 DEF GameInv, GameTypes, PointsConserved, NobodyPlaysInDebt
    <2>3. HonbaWithinBound'
      BY <2>1 DEF GameInv, HonbaWithinBound, DealerContinues, ContinuesAfter, NagashiOf
    <2>4. /\ LastRoundWind' = LastRoundWind /\ Seat' = Seat
          /\ ExtensionLastRoundWind' = ExtensionLastRoundWind
      BY <2>1 DEF LastRoundWind, ExtensionLastRoundWind, Seat
    <2>5. NextRoundPrepared'
      BY <2>1, <2>4 DEF GameInv, NextRoundPrepared
    <2>6. OvertimeMeansNobodyWon' /\ RoundWithinExtension'
      BY <2>1, <2>4 DEF GameInv, OvertimeMeansNobodyWon, RoundWithinExtension
    <2> QED
      BY <2>2, <2>3, <2>5, <2>6 DEF GameInv
  <1> QED
    BY <1>1, <1>2, <1>3, <1>4, <1>5 DEF Next

\* The invariant from which the properties of rounds and scores follow.
THEOREM GameInvariant == Spec => []GameInv
  BY GameInit, GameInvStep, PTL DEF Spec

-----------------------------------------------------------------------------
(* The properties                                                           *)

\* Whatever is won, lost, deposited or penalised, in any number of rounds, the
\* points on the table stay the points the game began with.
THEOREM PointsAreConserved == Spec => []PointsConserved
  <1>1. GameInv => PointsConserved
    BY DEF GameInv
  <1> QED
    BY <1>1, GameInvariant, PTL

\* cj4_do_settle ends a game with debts before another round can be dealt.
THEOREM NobodyEverPlaysInDebt == Spec => []NobodyPlaysInDebt
  <1>1. GameInv => NobodyPlaysInDebt
    BY DEF GameInv
  <1> QED
    BY <1>1, GameInvariant, PTL

\* should_end_after lets a round beyond the last wind be played only while
\* nobody who could have won the game has.
THEOREM OvertimeAlwaysMeansNobodyWon == Spec => []OvertimeMeansNobodyWon
  <1>1. GameInv => OvertimeMeansNobodyWon
    BY DEF GameInv
  <1> QED
    BY <1>1, GameInvariant, PTL

\* The settlement of the last round of overtime ends the game.
THEOREM RoundsWithinExtension == Spec => []RoundWithinExtension
  <1>1. GameInv => RoundWithinExtension
    BY DEF GameInv
  <1> QED
    BY <1>1, GameInvariant, PTL

\* The seat of the next round and its honba agree on whether the dealer kept
\* the deal.
THEOREM SeatsAlwaysRotate == Spec => SeatsRotate
  <1>1. ASSUME GameInv, [Next]_vars
        PROVE  [phase = "SETTLE" /\ phase' = "ROUND" =>
                  Seat' = (IF honba > 0 THEN Seat ELSE Seat + 1)]_vars
    <2>1. CASE NextRound
      <3>1. /\ phase = "SETTLE" /\ ~ settlement_should_end
            /\ round_wind' = next_round_wind /\ dealer' = next_dealer
        BY <2>1 DEF NextRound
      <3>2. 4 * next_round_wind + next_dealer = IF honba > 0 THEN Seat ELSE Seat + 1
        BY <1>1, <3>1 DEF GameInv, NextRoundPrepared
      <3>3. Seat' = 4 * round_wind' + dealer'
        BY DEF Seat
      <3> QED
        BY <3>1, <3>2, <3>3
    <2>2. CASE PlayRound \/ Settle \/ GameEnd
      BY <2>2 DEF PlayRound, Settle, GameEnd
    <2> QED
      BY <1>1, <2>1, <2>2 DEF Next
  <1> QED
    BY <1>1, GameInvariant, PTL DEF Spec, SeatsRotate

\* In cj4_settle_apply_tsumo and cj4_settle_apply_ron, liability included,
\* points go to winners only, and a ron costs only who caused it.
THEOREM LosersNeverEverGain == Spec => LosersNeverGain
  <1> DEFINE Fair ==
        phase = "ROUND_END" /\ Winners # {} =>
          /\ \A p \in Player \ Winners : scores'[p] <= scores[p]
          /\ outcome.type = "RON" =>
               \A p \in Player \ (Winners \cup {outcome.current_player}
                                    \cup {PaoPlayer(w) : w \in Winners}) :
                 scores'[p] = scores[p]
  <1>1. ASSUME GameInv, [Next]_vars
        PROVE  [Fair]_vars
    <2>1. CASE Settle
      <3>1. /\ phase = "ROUND_END" /\ scores' = Settled
        BY <2>1 DEF Settle, Settled
      <3>2. /\ rules \in RuleRecords /\ outcome \in Outcomes /\ honba \in Nat
            /\ scores \in [Player -> Int] /\ riichi_sticks \in Nat
        BY <1>1, <3>1, GameAssumption DEF GameInv, GameTypes, HonbaWithinBound
      <3>3. /\ Payments \in [Player -> Int]
            /\ \A p \in Player \ Winners : Winners # {} => Payments[p] <= 0
            /\ outcome.type = "RON" =>
                 \A p \in Player \ (Winners \cup {outcome.current_player}
                                      \cup {PaoPlayer(w) : w \in Winners}) :
                   Payments[p] = 0
        BY <3>2, PaymentsBalanced
      <3>4. Winners # {} =>
              \A p \in Player \ Winners : scores'[p] = scores[p] + Payments[p]
        BY <3>1, <3>2, SettledScores, StickWinnerType
      <3> QED
        BY <3>2, <3>3, <3>4
    <2>2. CASE PlayRound \/ NextRound \/ GameEnd
      BY <2>2 DEF PlayRound, NextRound, GameEnd
    <2> QED
      BY <1>1, <2>1, <2>2 DEF Next
  <1> QED
    BY <1>1, GameInvariant, PTL DEF Spec, LosersNeverGain
=============================================================================
