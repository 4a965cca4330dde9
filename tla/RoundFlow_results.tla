-------------------------- MODULE RoundFlow_results --------------------------
(* What a round leaves to its settlement.  First riichi: what a declaration  *)
(* pays, and which of the flags furiten, ippatsu and double riichi may stand *)
(* beside it.  Then the outcome: the first go-around, the kan that a ron     *)
(* robbed, and who wins how.  Last how many turns one player can have, and   *)
(* what a round promises to the game around it.                              *)
EXTENDS RoundFlow_proofs, FiniteSetTheorems

-----------------------------------------------------------------------------
(* Riichi: the inductive invariant                                           *)

\* Whoever draws is no longer temporarily furiten, so whoever declares is not.
DeclarerNotFuriten ==
  phase = "DRAW" \/ pending_riichi.player # NO_PLAYER =>
    current_player \notin temporary_furiten

Stakes == RiichiPaidOnce /\ RiichiFlagsAgree /\ DeclarerNotFuriten

-----------------------------------------------------------------------------
(* Steps that establish nothing                                             *)

\* A declaration waits in phase DISCARD only.
LEMMA NothingPending ==
  ASSUME Stakes, phase # "DISCARD"
  PROVE  pending_riichi.player = NO_PLAYER
  BY DEF Stakes, RiichiPaidOnce

\* A step that establishes and declares no riichi, marks nobody and draws
\* nothing keeps the invariant.
LEMMA StakesKept ==
  ASSUME Stakes,
         UNCHANGED <<riichi, double_riichi, scores, riichi_sticks, furitenVars>>,
         ippatsu' \subseteq ippatsu,
         pending_riichi'.player = NO_PLAYER,
         phase' # "DRAW"
  PROVE  Stakes'
  BY DEF Stakes, RiichiPaidOnce, RiichiFlagsAgree, DeclarerNotFuriten, furitenVars

\* When nothing is established, passing over a winning tile marks players in
\* riichi for good and the others until they draw.
LEMMA FuritenKept ==
  ASSUME Stakes, NEW drawers, DeclineRon(drawers),
         UNCHANGED <<riichi, double_riichi, scores, riichi_sticks>>,
         ippatsu' \subseteq ippatsu,
         pending_riichi'.player = NO_PLAYER,
         phase' = "DRAW" => current_player' \in drawers
  PROVE  Stakes'
  BY DEF Stakes, RiichiPaidOnce, RiichiFlagsAgree, DeclarerNotFuriten, DeclineRon

-----------------------------------------------------------------------------
(* Establishing a riichi                                                    *)

\* Nobody but the discarder waits for the reactions, and he is not furiten.
LEMMA OnlyTheDiscarderEstablishes ==
  ASSUME Stakes, TypeOK
  PROVE  /\ EstablishingPlayers \subseteq {current_player}
         /\ EstablishingPlayers \cap temporary_furiten = {}
         /\ EstablishingPlayers \cap riichi = {}
  BY DEF Stakes, RiichiPaidOnce, DeclarerNotFuriten, EstablishingPlayers, TypeOK,
         Player, NO_PLAYER

\* An established riichi pays one stake into the sticks.
LEMMA StakePaid ==
  ASSUME Stakes, TypeOK, EstablishPendingRiichi
  PROVE  /\ riichi' = riichi \cup EstablishingPlayers
         /\ double_riichi' \subseteq riichi'
         /\ pending_riichi'.player = NO_PLAYER
         /\ \A p \in Player :
              scores'[p] = InitialScores[p]
                             - (IF p \in riichi' THEN RIICHI_STAKE ELSE 0)
         /\ riichi_sticks' = InitialSticks + Cardinality(riichi')
  <1> DEFINE p == pending_riichi.player
  <1>1. riichi' = riichi \cup EstablishingPlayers /\ pending_riichi'.player = NO_PLAYER
    BY DEF EstablishPendingRiichi, NoPendingRiichi
  <1>2. \A q \in Player :
          scores[q] = InitialScores[q] - (IF q \in riichi THEN RIICHI_STAKE ELSE 0)
    BY DEF Stakes, RiichiPaidOnce
  <1>3. riichi_sticks = InitialSticks + Cardinality(riichi)
    BY DEF Stakes, RiichiPaidOnce
  <1>4. double_riichi \subseteq riichi
    BY DEF Stakes, RiichiFlagsAgree
  <1>5. CASE p \in Player \ riichi
    <2>1. EstablishingPlayers = {p}
      BY <1>5 DEF EstablishingPlayers
    <2>2. riichi' = riichi \cup {p}
      BY <1>1, <2>1
    <2>3. /\ scores' = [scores EXCEPT ![p] = @ - RIICHI_STAKE]
          /\ riichi_sticks' = riichi_sticks + 1
          /\ double_riichi' \subseteq double_riichi \cup {p}
      BY <1>5 DEF EstablishPendingRiichi
    <2>4. scores \in [Player -> Int] /\ InitialScores \in [Player -> Int]
      BY ScoresAssumption DEF TypeOK
    <2>5. \A q \in Player :
            scores'[q] = InitialScores[q]
                           - (IF q \in riichi' THEN RIICHI_STAKE ELSE 0)
      BY <1>2, <1>5, <2>2, <2>3, <2>4 DEF RIICHI_STAKE
    <2>6. IsFiniteSet(riichi) /\ Cardinality(riichi) \in Nat
      <3>1. riichi \in SUBSET Nat /\ \A q \in riichi : q <= 3
        BY DEF TypeOK, Player
      <3>2. IsFiniteSet(riichi)
        BY <3>1, 3 \in Nat, FS_BoundedSetOfNaturals
      <3> QED
        BY <3>2, FS_CardinalityType
    <2>7. Cardinality(riichi') = Cardinality(riichi) + 1
      BY <1>5, <2>2, <2>6, FS_AddElement
    <2>8. riichi_sticks' = InitialSticks + Cardinality(riichi')
      BY <1>3, <2>3, <2>6, <2>7, SticksAssumption
    <2> QED
      BY <1>1, <1>4, <2>2, <2>3, <2>5, <2>8
  <1>6. CASE p \notin Player \ riichi
    <2>1. riichi' = riichi
      BY <1>1, <1>6 DEF EstablishingPlayers
    <2>2. UNCHANGED <<scores, riichi_sticks, double_riichi>>
      BY <1>6 DEF EstablishPendingRiichi
    <2> QED
      BY <1>1, <1>2, <1>3, <1>4, <2>1, <2>2
  <1> QED
    BY <1>5, <1>6

\* What remains to be shown of a step that establishes a riichi.
LEMMA StakesEstablished ==
  ASSUME Stakes, TypeOK, EstablishPendingRiichi,
         riichi_furiten' \subseteq riichi',
         riichi' \cap temporary_furiten' = {},
         ippatsu' \subseteq riichi',
         phase' = "DRAW" => current_player' \notin temporary_furiten'
  PROVE  Stakes'
  BY StakePaid DEF Stakes, RiichiPaidOnce, RiichiFlagsAgree, DeclarerNotFuriten

\* Riichi is established before the reactions are over, and marks nobody.
LEMMA StakesPass ==
  ASSUME Stakes, TypeOK, PassReactions, NEW drawers, DeclineRon(drawers),
         phase' = "DRAW" => current_player' \in drawers
  PROVE  Stakes'
  <1>1. EstablishPendingRiichi
    BY DEF PassReactions
  <1>2. /\ riichi' = riichi \cup EstablishingPlayers
        /\ EstablishingPlayers \subseteq {current_player}
        /\ EstablishingPlayers \cap temporary_furiten = {}
    BY <1>1, StakePaid, OnlyTheDiscarderEstablishes
  <1>3. current_player \notin CanRon
    BY DEF CanRon
  <1>4. riichi_furiten' \subseteq riichi'
    BY <1>2 DEF DeclineRon, Stakes, RiichiFlagsAgree
  <1>5. riichi' \cap temporary_furiten' = {}
    BY <1>2, <1>3 DEF DeclineRon, Stakes, RiichiFlagsAgree
  <1>6. ippatsu' \subseteq riichi'
    BY <1>2 DEF PassReactions, Stakes, RiichiFlagsAgree
  <1>7. phase' = "DRAW" => current_player' \notin temporary_furiten'
    BY DEF DeclineRon
  <1> QED
    BY <1>1, <1>4, <1>5, <1>6, <1>7, StakesEstablished

\* Chi, pon and minkan establish it too, and break the ippatsu.
LEMMA StakesCall ==
  ASSUME Stakes, TypeOK, NEW p, FinishOpenCall(p), EstablishPendingRiichi,
         riichi_furiten' = riichi_furiten,
         temporary_furiten' \subseteq temporary_furiten,
         phase' = "DRAW" => p \notin temporary_furiten'
  PROVE  Stakes'
  <1>1. /\ riichi' = riichi \cup EstablishingPlayers
        /\ EstablishingPlayers \cap temporary_furiten = {}
    BY StakePaid, OnlyTheDiscarderEstablishes
  <1>2. ippatsu' = {} /\ current_player' = p
    BY DEF FinishOpenCall
  <1>3. riichi_furiten' \subseteq riichi' /\ riichi' \cap temporary_furiten' = {}
    BY <1>1 DEF Stakes, RiichiFlagsAgree
  <1> QED
    BY <1>2, <1>3, StakesEstablished

-----------------------------------------------------------------------------
(* Every step                                                               *)

\* No stake is paid and nobody is furiten when a round begins.
LEMMA StakesInit == Init => Stakes
  <1> SUFFICES ASSUME Init PROVE Stakes
    OBVIOUS
  <1>1. Cardinality(riichi) = 0
    BY FS_EmptySet DEF Init
  <1>2. riichi_sticks = InitialSticks + Cardinality(riichi)
    BY <1>1, SticksAssumption DEF Init
  <1>3. \A p \in Player :
          scores[p] = InitialScores[p] - (IF p \in riichi THEN RIICHI_STAKE ELSE 0)
    BY ScoresAssumption DEF Init
  <1> QED
    BY <1>2, <1>3
    DEF Init, Stakes, RiichiPaidOnce, RiichiFlagsAgree, DeclarerNotFuriten,
        NoPendingRiichi

\* A declaration is made by a player who is not in riichi, can pay for it and
\* has just drawn.
LEMMA StakesDeclared ==
  ASSUME Stakes, TypeOK, Riichi
  PROVE  Stakes'
  <1>1. /\ UNCHANGED <<riichi, double_riichi, scores, riichi_sticks, ippatsu,
                       temporary_furiten, riichi_furiten, current_player>>
        /\ phase = "DRAW" /\ phase' = "DISCARD"
        /\ pending_riichi'.player = current_player
        /\ current_player \notin riichi
        /\ scores[current_player] >= RIICHI_STAKE
    BY DEF Riichi, furitenVars, OfferDiscard
  <1>2. RiichiPaidOnce'
    BY <1>1 DEF RiichiPaidOnce, Stakes
  <1> QED
    BY <1>1, <1>2 DEF Stakes, RiichiFlagsAgree, DeclarerNotFuriten

\* Robbing is over: whoever could have robbed the kan is marked.
LEMMA StakesRinshan ==
  ASSUME Stakes, TypeOK, RinshanDraw
  PROVE  Stakes'
  <1>1. pending_riichi.player = NO_PLAYER
    BY NothingPending DEF RinshanDraw
  <1>2. /\ UNCHANGED <<riichi, double_riichi, scores, riichi_sticks, current_player>>
        /\ ippatsu' \subseteq ippatsu
        /\ pending_riichi'.player = NO_PLAYER
    BY <1>1 DEF RinshanDraw, FinishAbortiveDraw, FinishDrawRound, NoPendingRiichi
  <1>3. PICK drawers : /\ DeclineRon(drawers)
                       /\ phase' = "DRAW" => current_player \in drawers
    <2>1. \/ DeclineRon({}) /\ phase' = "ROUND_END"
          \/ DeclineRon({current_player})
      BY DEF RinshanDraw, FinishAbortiveDraw, FinishDrawRound
    <2> QED
      BY <2>1
  <1> QED
    BY <1>2, <1>3, FuritenKept

\* Every step keeps the invariant.
LEMMA StakesStep ==
  ASSUME Stakes, TypeOK, [Next]_vars
  PROVE  Stakes'
  <1>1. CASE Discard
    <2>1. pending_riichi'.player = NO_PLAYER
      BY <1>1, NothingPending DEF Discard, CanDiscard, riichiVars
    <2> QED
      BY <1>1, <2>1, StakesKept DEF Discard, OfferDiscard, riichiVars
  <1>2. CASE Tsumo
    BY <1>2, StakesKept DEF Tsumo, NoPendingRiichi
  <1>3. CASE KyuushuKyuuhai
    BY <1>3, StakesKept
    DEF KyuushuKyuuhai, FinishAbortiveDraw, FinishDrawRound, NoPendingRiichi
  <1>4. CASE Ankan
    <2>1. pending_riichi.player = NO_PLAYER
      BY <1>4, NothingPending DEF Ankan
    <2>2. /\ pending_riichi'.player = NO_PLAYER
          /\ ippatsu' \subseteq ippatsu /\ phase' # "DRAW"
      BY <1>4, <2>1 DEF Ankan, FinishAbortiveDraw, FinishDrawRound, NoPendingRiichi
    <2> QED
      BY <1>4, <2>2, StakesKept DEF Ankan
  <1>5. CASE Kakan
    <2>1. pending_riichi.player = NO_PLAYER
      BY <1>5, NothingPending DEF Kakan
    <2>2. /\ pending_riichi'.player = NO_PLAYER
          /\ ippatsu' \subseteq ippatsu /\ phase' # "DRAW"
      BY <1>5, <2>1 DEF Kakan, FinishAbortiveDraw, FinishDrawRound, NoPendingRiichi
    <2> QED
      BY <1>5, <2>2, StakesKept DEF Kakan
  <1>6. ASSUME NEW claimants, Ron(claimants)
        PROVE  Stakes'
    <2>1. pending_riichi'.player = NO_PLAYER /\ phase' # "DRAW"
      BY <1>6 DEF Ron, FinishAbortiveDraw, FinishDrawRound, FinishMultiRon,
                  NoPendingRiichi
    <2> QED
      BY <1>6, <2>1, StakesKept DEF Ron
  <1>7. ASSUME NEW p, NEW kind, ChiOrPon(p, kind)
        PROVE  Stakes'
    BY <1>7, StakesCall DEF ChiOrPon, furitenVars
  <1>8. ASSUME NEW p, Minkan(p)
        PROVE  Stakes'
    <2>1. \/ temporary_furiten' = temporary_furiten \ {p}
          \/ phase' = "ROUND_END" /\ temporary_furiten' = temporary_furiten
      BY <1>8 DEF Minkan, FinishAbortiveDraw, FinishDrawRound
    <2> QED
      BY <1>8, <2>1, StakesCall DEF Minkan
  <1>9. CASE PassIntoAbort
    <2>1. PassReactions /\ DeclineRon({}) /\ phase' # "DRAW"
      BY <1>9 DEF PassIntoAbort, FinishAbortiveDraw, FinishDrawRound
    <2> QED
      BY <2>1, StakesPass
  <1>10. CASE PassIntoExhaustiveDraw
    <2>1. PassReactions /\ DeclineRon({}) /\ phase' # "DRAW"
      BY <1>10 DEF PassIntoExhaustiveDraw, FinishDrawRound
    <2> QED
      BY <2>1, StakesPass
  <1>11. CASE PassIntoNextTurn
    <2>1. /\ PassReactions /\ DeclineRon({current_player'})
          /\ current_player' \in {current_player'}
      BY <1>11 DEF PassIntoNextTurn
    <2> QED
      BY <2>1, StakesPass
  <1>12. CASE UNCHANGED vars
    BY <1>12
    DEF vars, turnVars, riichiVars, furitenVars, Stakes, RiichiPaidOnce,
        RiichiFlagsAgree, DeclarerNotFuriten
  <1> QED
    BY <1>1, <1>2, <1>3, <1>4, <1>5, <1>6, <1>7, <1>8, <1>9, <1>10, <1>11, <1>12,
       StakesDeclared, StakesRinshan DEF Next, Chi, Pon

\* What holds of every state of a round, as far as its riichi go.
RiichiInv == TypeOK /\ Accounts /\ Stakes

\* The riichi of a round agree with its stakes and flags in every state.
THEOREM RiichiInvariant == Spec => []RiichiInv
  <1>1. Init => RiichiInv
    BY TypeInit, AccountsInit, StakesInit DEF RiichiInv
  <1>2. RiichiInv /\ [Next]_vars => RiichiInv'
    BY TypeStep, AccountsStep, StakesStep DEF RiichiInv
  <1> QED
    BY <1>1, <1>2, PTL DEF Spec

\* A declared riichi is paid once, by its declarer, when it is established.
THEOREM RiichiAlwaysPaidOnce == Spec => []RiichiPaidOnce
  BY RiichiInvariant, PTL DEF RiichiInv, Stakes

\* Furiten, ippatsu and double riichi never contradict the riichi they are about.
THEOREM RiichiFlagsAlwaysAgree == Spec => []RiichiFlagsAgree
  BY RiichiInvariant, PTL DEF RiichiInv, Stakes

-----------------------------------------------------------------------------
(* What a step may never do                                                 *)

\* Discards are recorded for the current player, by a discard or a riichi.
LEMMA OwnDiscardOnly ==
  ASSUME TypeOK, [Next]_vars, NEW p \in Player, discards'[p] # discards[p]
  PROVE  (Discard \/ Riichi) /\ p = current_player
  <1>1. CASE Discard \/ Riichi
    <2>1. RecordDiscard
      BY <1>1 DEF Discard, Riichi
    <2> QED
      BY <1>1, <2>1 DEF RecordDiscard, TypeOK
  <1>2. CASE ~ (Discard \/ Riichi)
    <2>1. discards' = discards
      BY <1>2
      DEF Next, vars, tileVars, Tsumo, KyuushuKyuuhai, Ankan, Kakan, Chi, Pon,
          ChiOrPon, Minkan, Ron, PassReactions, PassIntoAbort,
          PassIntoExhaustiveDraw, PassIntoNextTurn, RinshanDraw
    <2> QED
      BY <2>1
  <1> QED
    BY <1>1, <1>2

\* Ippatsu is opened by nothing but the riichi that is established.
LEMMA IppatsuOpened ==
  ASSUME [Next]_vars
  PROVE  ippatsu' \subseteq ippatsu \cup EstablishingPlayers
  <1>1. CASE PassReactions
    BY <1>1 DEF PassReactions
  <1>2. CASE ~ PassReactions
    BY <1>2
    DEF Next, vars, Discard, Riichi, Tsumo, KyuushuKyuuhai, Ankan, Kakan, Chi, Pon,
        ChiOrPon, Minkan, FinishOpenCall, Ron, PassIntoAbort,
        PassIntoExhaustiveDraw, PassIntoNextTurn, RinshanDraw
  <1> QED
    BY <1>1, <1>2

\* Every meld ends every ippatsu.
LEMMA MeldEndsIppatsu ==
  ASSUME [Next]_vars, melds' # melds
  PROVE  ippatsu' = {}
  <1>1. CASE RinshanDraw
    BY <1>1 DEF RinshanDraw
  <1>2. CASE ~ RinshanDraw
    BY <1>2
    DEF Next, vars, tileVars, Discard, Riichi, Tsumo, KyuushuKyuuhai, Ankan, Kakan,
        Chi, Pon, ChiOrPon, Minkan, FinishOpenCall, Ron, PassReactions,
        PassIntoAbort, PassIntoExhaustiveDraw, PassIntoNextTurn
  <1> QED
    BY <1>1, <1>2

\* Ippatsu lasts until somebody melds or the own next discard, which may be no
\* riichi declaration since ippatsu is for players in riichi only.
THEOREM IppatsuAlwaysCloses == Spec => IppatsuWindow
  <1>1. ASSUME RiichiInv, [Next]_vars
        PROVE  /\ melds' # melds => ippatsu' = {}
               /\ \A p \in Player :
                    /\ p \in ippatsu /\ discards'[p] > discards[p] => p \notin ippatsu'
                    /\ p \in ippatsu' \ ippatsu => p = pending_riichi.player
    <2>1. melds' # melds => ippatsu' = {}
      BY <1>1, MeldEndsIppatsu
    <2>2. ASSUME NEW p \in Player, p \in ippatsu, discards'[p] > discards[p]
          PROVE  p \notin ippatsu'
      <3>1. discards'[p] # discards[p]
        BY <1>1, <2>2 DEF RiichiInv, TypeOK
      <3>2. (Discard \/ Riichi) /\ p = current_player
        BY <1>1, <3>1, OwnDiscardOnly DEF RiichiInv
      <3>3. current_player \in riichi
        BY <1>1, <2>2, <3>2 DEF RiichiInv, Stakes, RiichiFlagsAgree
      <3> QED
        BY <3>2, <3>3 DEF Discard, Riichi
    <2>3. ASSUME NEW p \in Player, p \in ippatsu' \ ippatsu
          PROVE  p = pending_riichi.player
      BY <1>1, <2>3, IppatsuOpened DEF EstablishingPlayers
    <2> QED
      BY <2>1, <2>2, <2>3
  <1> QED
    BY <1>1, RiichiInvariant, PTL DEF Spec, IppatsuWindow

\* Furiten in riichi is never taken back.
LEMMA RiichiFuritenStays ==
  ASSUME [Next]_vars
  PROVE  riichi_furiten \subseteq riichi_furiten'
  BY DEF Next, vars, furitenVars, Discard, Riichi, Tsumo, KyuushuKyuuhai, Ankan,
         Kakan, Chi, Pon, ChiOrPon, Minkan, Ron, DeclineRon, PassIntoAbort,
         PassIntoExhaustiveDraw, PassIntoNextTurn, RinshanDraw

\* Temporary furiten ends with a tile drawn by the player, and no other way.
LEMMA FuritenEndsWithDraw ==
  ASSUME [Next]_vars, NEW p \in temporary_furiten \ temporary_furiten'
  PROVE  current_player' = p /\ phase' = "DRAW" /\ draw_tile'
  BY DEF Next, vars, furitenVars, Discard, Riichi, Tsumo, KyuushuKyuuhai, Ankan,
         Kakan, Chi, Pon, ChiOrPon, Minkan, FinishOpenCall, Ron, DeclineRon,
         PassIntoAbort, PassIntoExhaustiveDraw, PassIntoNextTurn, RinshanDraw,
         FinishAbortiveDraw, FinishDrawRound

\* A minkan shows: it finds a free meld group.
LEMMA MinkanMelds ==
  ASSUME TypeOK, Accounts, NEW p \in Player, Minkan(p)
  PROVE  melds' # melds
  <1>1. hand[p] > 2 /\ p # current_player /\ phase = "DISCARD"
    BY DEF Minkan, CanMinkan, CanClaimDiscard
  <1>2. MeldCount(melds[p]) < MaxMelds
    BY <1>1, RoomForAMeld DEF Accounts, HoldsExtraTile, TypeOK
  <1>3. CountTotalKans(AddMeld(p, "minkan")) = CountTotalKans(melds) + 1
    BY <1>1, <1>2, MeldAdded DEF MeldKinds, KanKinds
  <1>4. CountTotalKans(melds) \in Nat
    BY TotalsType DEF TypeOK, MeldRecords
  <1>5. melds' = AddMeld(p, "minkan")
    BY DEF Minkan
  <1> QED
    BY <1>3, <1>4, <1>5

\* The only step from the reactions to a draw without a meld is the next turn.
LEMMA TurnMovesOn ==
  ASSUME TypeOK, Accounts, Next,
         phase = "DISCARD", phase' = "DRAW", draw_tile', melds' = melds
  PROVE  PassIntoNextTurn
  <1>1. \A p \in Player : ~ Minkan(p)
    BY MinkanMelds
  <1> QED
    BY <1>1
    DEF Next, Discard, CanDiscard, Riichi, Tsumo, KyuushuKyuuhai, Ankan, Kakan, Chi,
        Pon, ChiOrPon, Ron, FinishMultiRon, PassIntoAbort, PassIntoExhaustiveDraw,
        RinshanDraw, FinishAbortiveDraw, FinishDrawRound

\* A player who lets a winning tile pass while the turn moves on is furiten
\* until the next tile he draws, and for good in riichi.
THEOREM DeclinedRonAlwaysFuriten == Spec => DeclinedRonIsFuriten
  <1> DEFINE Marked == temporary_furiten' \cup riichi_furiten'
             Declined ==
               /\ riichi_furiten \subseteq riichi_furiten'
               /\ \A p \in temporary_furiten \ temporary_furiten' :
                    current_player' = p /\ phase' = "DRAW" /\ draw_tile'
               /\ phase' = "DRAW" /\ draw_tile' /\ ~ draw_tile /\ phase = "DISCARD"
                    /\ melds' = melds => CanRon \ {current_player'} \subseteq Marked
               /\ phase \in {"ANKAN_RESOLVE", "KAKAN_RESOLVE"} /\ phase' = "DRAW" =>
                    CanRon \subseteq Marked
  <1>1. ASSUME RiichiInv, Next
        PROVE  Declined
    <2>1. ASSUME phase' = "DRAW", draw_tile', phase = "DISCARD", melds' = melds
          PROVE  CanRon \ {current_player'} \subseteq Marked
      <3>1. PassIntoNextTurn
        BY <1>1, <2>1, TurnMovesOn DEF RiichiInv
      <3>2. DeclineRon({current_player'})
        BY <3>1 DEF PassIntoNextTurn
      <3> QED
        BY <3>2 DEF DeclineRon
    <2>2. ASSUME phase \in {"ANKAN_RESOLVE", "KAKAN_RESOLVE"}, phase' = "DRAW"
          PROVE  CanRon \subseteq Marked
      <3>1. RinshanDraw
        BY <1>1, <2>2
        DEF Next, Discard, CanDiscard, Riichi, Tsumo, KyuushuKyuuhai, Ankan, Kakan,
            Chi, Pon, ChiOrPon, CanChiOrPon, Minkan, CanMinkan, CanClaimDiscard,
            Ron, FinishMultiRon, PassIntoAbort, PassIntoExhaustiveDraw,
            PassIntoNextTurn, PassReactions, FinishAbortiveDraw, FinishDrawRound
      <3>2. DeclineRon({current_player})
        BY <2>2, <3>1 DEF RinshanDraw, FinishAbortiveDraw, FinishDrawRound
      <3>3. current_player \notin CanRon
        BY DEF CanRon
      <3> QED
        BY <3>2, <3>3 DEF DeclineRon
    <2> QED
      BY <1>1, <2>1, <2>2, RiichiFuritenStays, FuritenEndsWithDraw
  <1>2. RiichiInv /\ [Next]_vars => [Declined]_vars
    BY <1>1
  <1> QED
    BY <1>2, RiichiInvariant, PTL DEF Spec, DeclinedRonIsFuriten

-----------------------------------------------------------------------------
(* The outcome: the inductive invariants                                    *)

Uncalled == \A p \in Player : MeldCount(melds[p]) = 0

\* The position of a player in the first go-around.
Turn(p) == (p + 4 - Dealer) % 4

\* In the first go-around the players up to the current one have drawn once
\* and discarded what they drew; once it is over, a player may still be
\* without a discard only if somebody called or declared a kan.
FirstTurns ==
  /\ first_turn =>
       /\ Uncalled
       /\ phase \in {"DRAW", "DISCARD"}
       /\ \A p \in Player :
            draw_turn[p] = IF Turn(p) <= Turn(current_player) THEN 1 ELSE 0
       /\ \A p \in Player :
            discards[p] + (IF p = current_player /\ phase = "DRAW" THEN 1 ELSE 0)
              = draw_turn[p]
  /\ ~ first_turn /\ Uncalled /\ phase # "ANKAN_RESOLVE" =>
       \A p \in Player : discards[p] > 0

\* The pending tile is that of the kan being resolved.
PendingKan ==
  /\ phase = "ANKAN_RESOLVE" => pending_kan = "ANKAN"
  /\ phase = "KAKAN_RESOLVE" => pending_kan = "KAKAN"

Results ==
  /\ phase # "ROUND_END" =>
       FirstTurns /\ PendingKan /\ round_result = NoResult /\ winners = {}
  /\ FirstGoAround /\ RobbedKanKept /\ ResultConsistent

\* What holds of every state of a round.
RoundInv == RiichiInv /\ Results

-----------------------------------------------------------------------------
(* Winners                                                                  *)

\* The players other than the discarder sit at different distances from him.
LEMMA Distances ==
  ASSUME current_player \in Player
  PROVE  \A p, q \in Player :
           /\ DistanceFromDiscarder(p) \in 0 .. 3
           /\ p # q => DistanceFromDiscarder(p) # DistanceFromDiscarder(q)
  BY DEF Player, DistanceFromDiscarder

\* A set of players is finite.
LEMMA PlayersFinite ==
  ASSUME NEW S \in SUBSET Player
  PROVE  IsFiniteSet(S) /\ Cardinality(S) \in Nat
  <1>1. S \in SUBSET Nat /\ \A q \in S : q <= 3
    BY DEF Player
  <1>2. IsFiniteSet(S)
    BY <1>1, 3 \in Nat, FS_BoundedSetOfNaturals
  <1> QED
    BY <1>2, FS_CardinalityType

\* The head bump leaves no more winners than the rules allow: all winners but
\* the furthest are closer than that one.
LEMMA WinnersLimited ==
  ASSUME TypeOK, NEW claimants \in SUBSET Player
  PROVE  Cardinality(RonWinners(claimants)) <= rules.max_ron_players
  <1> DEFINE W == RonWinners(claimants)
             Closer(p) == {q \in claimants :
                             DistanceFromDiscarder(q) < DistanceFromDiscarder(p)}
  <1>1. rules.max_ron_players \in 1 .. 3
    BY RulesAssumption DEF TypeOK, RuleRecords
  <1>2. W \in SUBSET Player /\ W \subseteq claimants
    BY DEF RonWinners
  <1>3. \A p \in W : Cardinality(Closer(p)) < rules.max_ron_players
    BY DEF RonWinners
  <1>4. CASE W = {}
    BY <1>1, <1>4, FS_EmptySet
  <1>5. CASE W # {}
    <2>1. \A p, q \in W :
            /\ DistanceFromDiscarder(p) \in 0 .. 3
            /\ p # q => DistanceFromDiscarder(p) # DistanceFromDiscarder(q)
      BY <1>2, Distances DEF TypeOK
    <2>2. PICK f \in W :
            \A q \in W : DistanceFromDiscarder(q) <= DistanceFromDiscarder(f)
      <3> HIDE DEF W
      <3>1. CASE \E p \in W : DistanceFromDiscarder(p) = 3
        BY <2>1, <3>1
      <3>2. CASE /\ \A p \in W : DistanceFromDiscarder(p) # 3
                 /\ \E p \in W : DistanceFromDiscarder(p) = 2
        BY <2>1, <3>2
      <3>3. CASE /\ \A p \in W : DistanceFromDiscarder(p) \notin {2, 3}
                 /\ \E p \in W : DistanceFromDiscarder(p) = 1
        BY <2>1, <3>3
      <3>4. CASE \A p \in W : DistanceFromDiscarder(p) \notin {1, 2, 3}
        BY <1>5, <2>1, <3>4
      <3> QED
        BY <3>1, <3>2, <3>3, <3>4
    <2>3. \A q \in W \ {f} : DistanceFromDiscarder(q) < DistanceFromDiscarder(f)
      BY <2>1, <2>2
    <2>4. W \ {f} \in SUBSET Closer(f)
      BY <1>2, <2>3
    <2>5. Closer(f) \in SUBSET Player
      OBVIOUS
    <2> HIDE DEF W, Closer
    <2>6. IsFiniteSet(W) /\ IsFiniteSet(Closer(f)) /\ Cardinality(Closer(f)) \in Nat
      BY <1>2, <2>5, PlayersFinite
    <2>7. Cardinality(W \ {f}) <= Cardinality(Closer(f))
      BY <2>4, <2>6, FS_Subset
    <2>8. Cardinality(W \ {f}) = Cardinality(W) - 1 /\ Cardinality(W) \in Nat
      BY <1>2, <2>2, <2>6, PlayersFinite, FS_RemoveElement
    <2>9. Cardinality(W) <= rules.max_ron_players
      BY <1>1, <1>3, <2>2, <2>6, <2>7, <2>8
    <2> QED
      BY <2>9 DEF W
  <1> QED
    BY <1>4, <1>5

-----------------------------------------------------------------------------
(* The first go-around                                                      *)

\* A discard is recorded, and counts for the current player.
LEMMA OneMoreDiscard ==
  ASSUME TypeOK, Accounts, phase \in {"DRAW", "AFTER_CALL"}, RecordDiscard
  PROVE  discards' = [discards EXCEPT ![current_player] = @ + 1]
  <1>1. Sum(discards') = Sum(discards) + 1 /\ Sum(discards) \in Nat
    BY DiscardRecorded, DiscardSumType
  <1> QED
    BY <1>1 DEF RecordDiscard

\* The step that discards the drawn tile ends a player's first turn.
LEMMA FirstTurnsDiscard ==
  ASSUME TypeOK, Accounts, FirstTurns, phase \in {"DRAW", "AFTER_CALL"},
         RecordDiscard, phase' = "DISCARD",
         UNCHANGED <<first_turn, draw_turn, current_player, melds>>
  PROVE  /\ FirstTurns'
         /\ first_turn => discards'[current_player] = 1 /\ Uncalled
         /\ ~ first_turn /\ Uncalled => discards'[current_player] > 1
  <1>1. discards' = [discards EXCEPT ![current_player] = @ + 1]
    BY OneMoreDiscard
  <1>2. discards \in [Player -> Nat] /\ current_player \in Player
    BY DEF TypeOK
  <1>3. \A p \in Player :
          discards'[p] = discards[p] + (IF p = current_player THEN 1 ELSE 0)
    BY <1>1, <1>2
  <1>4. Uncalled' <=> Uncalled
    BY DEF Uncalled
  <1>5. CASE first_turn
    <2>1. phase = "DRAW" /\ Uncalled
      BY <1>5 DEF FirstTurns
    <2>2. \A p \in Player : discards'[p] = draw_turn[p]
      BY <1>2, <1>3, <1>5, <2>1 DEF FirstTurns
    <2>3. draw_turn[current_player] = 1
      BY <1>2, <1>5, DealerAssumption DEF FirstTurns, Turn, Player
    <2>4. \A p \in Player :
            draw_turn'[p] = IF Turn(p) <= Turn(current_player') THEN 1 ELSE 0
      BY <1>5 DEF FirstTurns
    <2>5. \A p \in Player :
            discards'[p] + (IF p = current_player' /\ phase' = "DRAW" THEN 1 ELSE 0)
              = draw_turn'[p]
      BY <1>2, <1>3, <2>2
    <2> QED
      BY <1>2, <1>4, <1>5, <2>1, <2>2, <2>3, <2>4, <2>5 DEF FirstTurns
  <1>6. CASE ~ first_turn
    <2>1. Uncalled => \A p \in Player : discards[p] > 0
      BY <1>6 DEF FirstTurns
    <2>2. Uncalled => \A p \in Player : discards'[p] > 0
      BY <1>2, <1>3, <2>1
    <2>3. Uncalled => discards'[current_player] > 1
      BY <1>2, <1>3, <2>1
    <2> QED
      BY <1>4, <1>6, <2>2, <2>3 DEF FirstTurns
  <1> QED
    BY <1>5, <1>6

\* The first go-around is over when it is the dealer's turn again: then
\* everybody has discarded.
LEMMA FirstTurnsPass ==
  ASSUME TypeOK, FirstTurns, PassIntoNextTurn
  PROVE  FirstTurns'
  <1> DEFINE next == NextPlayer(current_player)
  <1>1. /\ discards \in [Player -> Nat] /\ draw_turn \in [Player -> 0 .. 2]
        /\ current_player \in Player /\ next \in Player
    BY NextPlayerType DEF TypeOK
  <1>2. /\ phase = "DISCARD" /\ phase' = "DRAW" /\ current_player' = next
        /\ UNCHANGED <<melds, discards>>
        /\ first_turn' = (first_turn /\ draw_turn[next] = 0)
        /\ draw_turn' = [draw_turn EXCEPT ![next] = IF @ = 0 THEN 1 ELSE 2]
    BY DEF PassIntoNextTurn, PassReactions
  <1>3. Uncalled' <=> Uncalled
    BY <1>2 DEF Uncalled
  <1>4. CASE ~ first_turn
    BY <1>2, <1>3, <1>4 DEF FirstTurns
  <1>5. ASSUME first_turn
        PROVE  \A p \in Player :
                 /\ draw_turn[p] = IF Turn(p) <= Turn(current_player) THEN 1 ELSE 0
                 /\ discards[p] = draw_turn[p]
    BY <1>1, <1>2, <1>5 DEF FirstTurns
  <1>6. CASE first_turn /\ draw_turn[next] = 0
    <2>1. \A p \in Player :
            Turn(p) <= Turn(next) <=> p = next \/ Turn(p) <= Turn(current_player)
      <3>1. Turn(next) > Turn(current_player)
        BY <1>1, <1>5, <1>6, DealerAssumption DEF Turn, Player
      <3> QED
        BY <1>1, <3>1, DealerAssumption DEF Turn, NextPlayer, Player
    <2>2. \A p \in Player :
            draw_turn'[p] = IF p = next THEN 1 ELSE draw_turn[p]
      BY <1>1, <1>2, <1>6
    <2>3. \A p \in Player :
            draw_turn'[p] = IF Turn(p) <= Turn(current_player') THEN 1 ELSE 0
      BY <1>2, <1>5, <1>6, <2>1, <2>2
    <2>4. \A p \in Player :
            discards'[p] + (IF p = current_player' /\ phase' = "DRAW" THEN 1 ELSE 0)
              = draw_turn'[p]
      BY <1>1, <1>2, <1>5, <1>6, <2>2
    <2>5. Uncalled
      BY <1>6 DEF FirstTurns
    <2> QED
      BY <1>2, <1>3, <1>6, <2>3, <2>4, <2>5 DEF FirstTurns
  <1>7. CASE first_turn /\ draw_turn[next] # 0
    <2>1. \A p \in Player : Turn(p) <= Turn(current_player)
      <3>1. Turn(next) <= Turn(current_player)
        BY <1>1, <1>5, <1>7
      <3> QED
        BY <1>1, <3>1, DealerAssumption DEF Turn, NextPlayer, Player
    <2>2. \A p \in Player : discards'[p] > 0
      BY <1>1, <1>2, <1>5, <1>7, <2>1
    <2>3. ~ first_turn'
      BY <1>2, <1>7
    <2> QED
      BY <2>2, <2>3 DEF FirstTurns
  <1> QED
    BY <1>4, <1>6, <1>7

\* Whoever melds ends it for all.
LEMMA CalledIsNoFirstTurn ==
  ASSUME ~ first_turn', NEW p \in Player, MeldCount(melds'[p]) # 0
  PROVE  FirstTurns'
  BY DEF FirstTurns, Uncalled

-----------------------------------------------------------------------------
(* Steps that go on, and steps that end the round                           *)

\* What remains to be shown of a step after which the round goes on and no
\* riichi is declared.
LEMMA RoundGoesOn ==
  ASSUME phase' # "ROUND_END", round_result' = NoResult, winners' = {},
         pending_riichi'.player = NO_PLAYER,
         FirstTurns',
         \/ phase' \notin {"ANKAN_RESOLVE", "KAKAN_RESOLVE"} /\ pending_kan' = "NONE"
         \/ phase' = "ANKAN_RESOLVE" /\ pending_kan' = "ANKAN"
         \/ phase' = "KAKAN_RESOLVE" /\ pending_kan' = "KAKAN"
  PROVE  Results'
  BY DEF Results, PendingKan, NoResult, FirstGoAround, RobbedKanKept, ResultConsistent

\* What remains to be shown of a step that ends the round without a winner.
LEMMA RoundIsDrawn ==
  ASSUME NEW type, NEW reason, FinishDrawRound(type, reason),
         \/ type = "EXHAUSTIVE_DRAW" /\ reason = "NONE"
         \/ type = "ABORTIVE_DRAW" /\ reason # "NONE",
         reason = "KYUUSHU_KYUUHAI" => Uncalled' /\ discards'[current_player'] = 0,
         reason = "SUUFON_RENDA" => Uncalled' /\ \A p \in Player : discards'[p] = 1
  PROVE  Results'
  <1>1. /\ phase' = "ROUND_END" /\ winners' = {} /\ pending_kan' = "NONE"
        /\ round_result'.type = type /\ round_result'.reason = reason
        /\ pending_riichi'.player = NO_PLAYER
    BY DEF FinishDrawRound, NoPendingRiichi
  <1> QED
    BY <1>1 DEF Results, FirstGoAround, RobbedKanKept, ResultConsistent, Uncalled

\* An abort on four kans.
LEMMA FourKansIsNoOtherAbort ==
  ASSUME FinishAbortiveDraw("FOUR_KANS")
  PROVE  Results'
  BY RoundIsDrawn DEF FinishAbortiveDraw

\* A riichi is double in an uncalled round with the player's first discard.
LEMMA ResultsRiichi ==
  ASSUME RoundInv, Riichi
  PROVE  Results'
  <1>1. /\ phase = "DRAW" /\ phase' = "DISCARD" /\ RecordDiscard
        /\ UNCHANGED <<current_player, first_turn, draw_turn, melds, round_result,
                       winners>>
        /\ pending_kan' = "NONE"
        /\ pending_riichi' = [player |-> current_player,
                              double |-> first_turn /\ draw_turn[current_player] = 1]
    BY DEF Riichi, OfferDiscard, resultVars
  <1>2. /\ FirstTurns'
        /\ first_turn => discards'[current_player] = 1 /\ Uncalled
        /\ ~ first_turn /\ Uncalled => discards'[current_player] > 1
    BY <1>1, FirstTurnsDiscard DEF RoundInv, RiichiInv, Results
  <1>3. current_player \in Player
    BY DEF RoundInv, RiichiInv, TypeOK
  <1>4. first_turn => draw_turn[current_player] = 1
    BY <1>1, <1>3, DealerAssumption DEF RoundInv, Results, FirstTurns, Turn, Player
  <1>5. pending_riichi'.double <=> first_turn
    BY <1>1, <1>4
  <1>6. Uncalled' <=> Uncalled
    BY <1>1 DEF Uncalled
  <1>7. discards'[current_player] > 1 => discards'[current_player] # 1
    <2>1. discards'[current_player] \in Nat
      BY <1>3, TypeStep DEF RoundInv, RiichiInv, Next, TypeOK
    <2> QED
      BY <2>1
  <1>8. pending_riichi'.double <=> Uncalled' /\ discards'[pending_riichi'.player] = 1
    BY <1>1, <1>2, <1>5, <1>6, <1>7
  <1>9. round_result' = NoResult /\ winners' = {}
    BY <1>1 DEF RoundInv, Results
  <1> QED
    BY <1>1, <1>2, <1>8, <1>9
    DEF Results, PendingKan, NoResult, FirstGoAround, Uncalled, RobbedKanKept,
        ResultConsistent

\* A discard without a declaration.
LEMMA ResultsDiscard ==
  ASSUME RoundInv, Discard
  PROVE  Results'
  <1>1. /\ phase \in {"DRAW", "AFTER_CALL"} /\ phase' = "DISCARD" /\ RecordDiscard
        /\ UNCHANGED <<current_player, first_turn, draw_turn, melds, round_result,
                       winners, pending_riichi>>
        /\ pending_kan' = "NONE"
    BY DEF Discard, CanDiscard, OfferDiscard, resultVars, riichiVars
  <1>2. FirstTurns'
    BY <1>1, FirstTurnsDiscard DEF RoundInv, RiichiInv, Results
  <1>3. pending_riichi'.player = NO_PLAYER
    BY <1>1, NothingPending DEF RoundInv, RiichiInv
  <1>4. round_result' = NoResult /\ winners' = {}
    BY <1>1 DEF RoundInv, Results
  <1> QED
    BY <1>1, <1>2, <1>3, <1>4, RoundGoesOn

\* A tsumo is a win of the player to act.
LEMMA ResultsTsumo ==
  ASSUME RoundInv, Tsumo
  PROVE  Results'
  <1>1. /\ phase' = "ROUND_END" /\ pending_kan' = "NONE"
        /\ winners' = {current_player'}
        /\ round_result' = [type |-> "TSUMO", reason |-> "NONE"]
        /\ pending_riichi'.player = NO_PLAYER
    BY DEF Tsumo, NoPendingRiichi
  <1> QED
    BY <1>1 DEF Results, FirstGoAround, RobbedKanKept, ResultConsistent

\* Nine terminals and honours are declared before the first discard.
LEMMA ResultsKyuushu ==
  ASSUME RoundInv, KyuushuKyuuhai
  PROVE  Results'
  <1>1. /\ FinishDrawRound("ABORTIVE_DRAW", "KYUUSHU_KYUUHAI")
        /\ phase = "DRAW" /\ first_turn
        /\ UNCHANGED <<current_player, discards, melds>>
    BY DEF KyuushuKyuuhai, FinishAbortiveDraw, tileVars
  <1>2. current_player \in Player /\ discards[current_player] \in Nat
    BY DEF RoundInv, RiichiInv, TypeOK
  <1>3. /\ Uncalled /\ draw_turn[current_player] = 1
        /\ discards[current_player] + 1 = draw_turn[current_player]
    BY <1>1, <1>2, DealerAssumption
    DEF RoundInv, Results, FirstTurns, Turn, Player
  <1>4. Uncalled' /\ discards'[current_player'] = 0
    BY <1>1, <1>2, <1>3 DEF Uncalled
  <1> QED
    BY <1>1, <1>4, RoundIsDrawn

\* A declared ankan ends the first go-around and waits to be melded.
LEMMA ResultsAnkan ==
  ASSUME RoundInv, Ankan
  PROVE  Results'
  <1>1. /\ phase = "DRAW" /\ ~ first_turn'
        /\ round_result = NoResult /\ winners = {}
        /\ pending_riichi.player = NO_PLAYER
    BY NothingPending DEF Ankan, RoundInv, RiichiInv, Results
  <1>2. CASE FinishAbortiveDraw("FOUR_KANS")
    BY <1>2, FourKansIsNoOtherAbort
  <1>3. CASE /\ phase' = "ANKAN_RESOLVE" /\ pending_kan' = "ANKAN"
             /\ UNCHANGED <<pending_riichi, round_result, winners>>
    <2>1. FirstTurns'
      BY <1>1, <1>3 DEF FirstTurns
    <2> QED
      BY <1>1, <1>3, <2>1, RoundGoesOn
  <1> QED
    BY <1>2, <1>3 DEF Ankan, resultVars

\* A kakan is declared by a player who has melded.
LEMMA ResultsKakan ==
  ASSUME RoundInv, Kakan
  PROVE  Results'
  <1>1. /\ phase = "DRAW" /\ ~ first_turn'
        /\ round_result = NoResult /\ winners = {}
        /\ pending_riichi.player = NO_PLAYER
    BY NothingPending DEF Kakan, RoundInv, RiichiInv, Results
  <1>2. CASE FinishAbortiveDraw("FOUR_KANS")
    BY <1>2, FourKansIsNoOtherAbort
  <1>3. CASE /\ phase' = "KAKAN_RESOLVE" /\ pending_kan' = "KAKAN"
             /\ UNCHANGED <<pending_riichi, round_result, winners>>
    <2>1. /\ current_player \in Player
          /\ MeldCount(melds'[current_player]) = MeldCount(melds[current_player])
      BY PonUpgraded DEF RoundInv, RiichiInv, TypeOK
    <2>2. melds[current_player] \in MeldRecords /\ melds[current_player].pon > 0
      BY <2>1 DEF Kakan, RoundInv, RiichiInv, TypeOK, MeldRecords
    <2>3. MeldCount(melds[current_player]) # 0
      BY <2>2 DEF MeldCount, MeldRecords, MeldKinds
    <2>4. FirstTurns'
      BY <1>1, <2>1, <2>3, CalledIsNoFirstTurn
    <2> QED
      BY <1>1, <1>3, <2>4, RoundGoesOn
  <1> QED
    BY <1>2, <1>3 DEF Kakan, resultVars

\* Whoever calls has melded: the first go-around is over for all.
LEMMA CallEndsFirstTurns ==
  ASSUME RoundInv, NEW p \in Player, NEW kind \in MeldKinds,
         MeldCount(melds[p]) < MaxMelds, melds' = AddMeld(p, kind), ~ first_turn'
  PROVE  FirstTurns'
  <1>1. MeldCount(melds'[p]) = MeldCount(melds[p]) + 1
    BY MeldAdded DEF RoundInv, RiichiInv
  <1>2. MeldCount(melds[p]) \in Nat
    BY MeldCountType DEF RoundInv, RiichiInv, TypeOK, MeldRecords
  <1> QED
    BY <1>1, <1>2, CalledIsNoFirstTurn

\* A chi or a pon.
LEMMA ResultsChiOrPon ==
  ASSUME RoundInv, NEW p \in Player, NEW kind \in {"chi", "pon"}, ChiOrPon(p, kind)
  PROVE  Results'
  <1>1. /\ phase' = "AFTER_CALL" /\ pending_kan' = "NONE" /\ ~ first_turn'
        /\ pending_riichi'.player = NO_PLAYER
        /\ UNCHANGED <<round_result, winners>>
        /\ melds' = AddMeld(p, kind) /\ MeldCount(melds[p]) < MaxMelds
        /\ phase = "DISCARD"
    BY DEF ChiOrPon, CanChiOrPon, CanClaimDiscard, FinishOpenCall,
           EstablishPendingRiichi, NoPendingRiichi, resultVars
  <1>2. FirstTurns'
    BY <1>1, CallEndsFirstTurns DEF MeldKinds
  <1>3. round_result' = NoResult /\ winners' = {}
    BY <1>1 DEF RoundInv, Results
  <1> QED
    BY <1>1, <1>2, <1>3, RoundGoesOn

\* A minkan draws its rinshan tile or aborts the round.
LEMMA ResultsMinkan ==
  ASSUME RoundInv, NEW p \in Player, Minkan(p)
  PROVE  Results'
  <1>1. /\ pending_kan' = "NONE" /\ ~ first_turn' /\ phase = "DISCARD"
        /\ pending_riichi'.player = NO_PLAYER
        /\ melds' = AddMeld(p, "minkan") /\ hand[p] > 2 /\ p # current_player
    BY DEF Minkan, CanMinkan, CanClaimDiscard, FinishOpenCall,
           EstablishPendingRiichi, NoPendingRiichi
  <1>2. CASE FinishAbortiveDraw("FOUR_KANS")
    BY <1>2, FourKansIsNoOtherAbort
  <1>3. CASE phase' = "DRAW" /\ UNCHANGED <<round_result, winners>>
    <2>1. MeldCount(melds[p]) < MaxMelds
      BY <1>1, RoomForAMeld
      DEF RoundInv, RiichiInv, Accounts, HoldsExtraTile, TypeOK
    <2>2. FirstTurns'
      BY <1>1, <2>1, CallEndsFirstTurns DEF MeldKinds
    <2>3. round_result' = NoResult /\ winners' = {}
      BY <1>1, <1>3 DEF RoundInv, Results
    <2> QED
      BY <1>1, <1>3, <2>2, <2>3, RoundGoesOn
  <1> QED
    BY <1>2, <1>3 DEF Minkan, resultVars

\* A ron keeps the pending kan tile when, and only when, it robs a kan.
LEMMA ResultsRon ==
  ASSUME RoundInv, NEW claimants \in SUBSET Player, Ron(claimants)
  PROVE  Results'
  <1>1. CASE FinishAbortiveDraw("TRIPLE_RON")
    BY <1>1, RoundIsDrawn DEF FinishAbortiveDraw
  <1>2. CASE FinishMultiRon(RonWinners(claimants))
    <2>1. /\ phase' = "ROUND_END" /\ winners' = RonWinners(claimants)
          /\ round_result' = [type |-> "RON", reason |-> "NONE"]
          /\ pending_riichi'.player = NO_PLAYER
          /\ pending_kan' = pending_kan
      BY <1>2 DEF FinishMultiRon, NoPendingRiichi
    <2>2. /\ claimants # {} /\ claimants \subseteq CanRon
          /\ UNCHANGED <<rules, current_player, temporary_furiten, riichi_furiten,
                         dead_wall_draw_count, hand, melds>>
      BY DEF Ron, furitenVars, wallVars, tileVars
    <2>3. phase \in {"DISCARD", "KAKAN_RESOLVE", "ANKAN_RESOLVE"}
      BY <2>2 DEF CanRon
    <2>4. winners' \cap ({current_player} \cup temporary_furiten
                                          \cup riichi_furiten) = {}
      BY <2>1, <2>2, <2>3 DEF CanRon, RonWinners
    <2>5. Cardinality(winners') <= rules'.max_ron_players
      BY <2>1, <2>2, WinnersLimited DEF RoundInv, RiichiInv
    <2>6. winners' # {}
      <3>1. rules.max_ron_players \in 1 .. 3
        BY RulesAssumption DEF RoundInv, RiichiInv, TypeOK, RuleRecords
      <3>2. \A p \in claimants : DistanceFromDiscarder(p) \in 0 .. 3
        BY Distances DEF RoundInv, RiichiInv, TypeOK
      <3>3. PICK p \in claimants :
              \A q \in claimants : ~ (DistanceFromDiscarder(q) < DistanceFromDiscarder(p))
        <4>1. CASE \E p \in claimants : DistanceFromDiscarder(p) = 0
          BY <3>2, <4>1
        <4>2. CASE /\ \A p \in claimants : DistanceFromDiscarder(p) # 0
                   /\ \E p \in claimants : DistanceFromDiscarder(p) = 1
          BY <3>2, <4>2
        <4>3. CASE /\ \A p \in claimants : DistanceFromDiscarder(p) \notin {0, 1}
                   /\ \E p \in claimants : DistanceFromDiscarder(p) = 2
          BY <3>2, <4>3
        <4>4. CASE \A p \in claimants : DistanceFromDiscarder(p) \notin {0, 1, 2}
          BY <2>2, <3>2, <4>4
        <4> QED
          BY <4>1, <4>2, <4>3, <4>4
      <3>4. {q \in claimants : DistanceFromDiscarder(q) < DistanceFromDiscarder(p)} = {}
        BY <3>3
      <3>5. Cardinality({q \in claimants :
              DistanceFromDiscarder(q) < DistanceFromDiscarder(p)}) = 0
        BY <3>4, FS_EmptySet
      <3>6. Cardinality({q \in claimants :
              DistanceFromDiscarder(q) < DistanceFromDiscarder(p)})
              < rules.max_ron_players
        BY <3>1, <3>5
      <3>7. p \in RonWinners(claimants)
        BY <3>6 DEF RonWinners
      <3> QED
        BY <2>1, <3>7
    <2>7. ResultConsistent'
      BY <2>1, <2>2, <2>4, <2>5, <2>6 DEF ResultConsistent
    <2>8. /\ pending_kan = "KAKAN" <=> phase = "KAKAN_RESOLVE"
          /\ pending_kan = "ANKAN" <=> phase = "ANKAN_RESOLVE"
      BY <2>3 DEF RoundInv, Results, PendingKan, RobbedKanKept
    <2>9. phase = "KAKAN_RESOLVE"
            <=> CountTotalKans(melds) = dead_wall_draw_count + 1
      <3>1. CountTotalKans(melds) =
              dead_wall_draw_count + (IF phase = "KAKAN_RESOLVE" THEN 1 ELSE 0)
        BY <2>3 DEF RoundInv, RiichiInv, Accounts, KanSupply
      <3>2. dead_wall_draw_count \in Nat
        BY DEF RoundInv, RiichiInv, TypeOK
      <3> QED
        BY <3>1, <3>2
    <2>10. phase = "ANKAN_RESOLVE"
             <=> hand[current_player] + 3 * MeldCount(melds[current_player])
                   = HandTiles + 1
      <3>1. hand[current_player] + 3 * MeldCount(melds[current_player]) =
              HandTiles + (IF phase = "ANKAN_RESOLVE" THEN 1 ELSE 0)
        BY <2>3 DEF RoundInv, RiichiInv, TypeOK, Accounts, HandsBalanced, HoldsExtraTile
      <3>2. HandTiles \in Nat
        BY MaxMeldsAssumption DEF HandTiles
      <3> QED
        BY <3>1, <3>2
    <2>11. RobbedKanKept'
      <3>1. /\ CountTotalKans(melds') = CountTotalKans(melds)
            /\ HandTiles' = HandTiles
            /\ MeldCount(melds'[current_player']) = MeldCount(melds[current_player])
            /\ hand'[current_player'] = hand[current_player]
            /\ dead_wall_draw_count' = dead_wall_draw_count
        BY <2>2 DEF HandTiles
      <3> QED
        BY <2>1, <2>8, <2>9, <2>10, <3>1 DEF RobbedKanKept
    <2>12. FirstGoAround'
      BY <2>1 DEF FirstGoAround
    <2> QED
      BY <2>1, <2>7, <2>11, <2>12 DEF Results
  <1> QED
    BY <1>1, <1>2 DEF Ron

\* A passed discard that aborts the round: the same wind counts in the first
\* go-around only, when everybody has discarded once.
LEMMA ResultsPassIntoAbort ==
  ASSUME RoundInv, PassIntoAbort
  PROVE  Results'
  <1>1. PICK same_wind \in BOOLEAN :
          /\ PassAbortReason(same_wind) # "NONE"
          /\ FinishAbortiveDraw(PassAbortReason(same_wind))
    BY DEF PassIntoAbort
  <1>2. phase = "DISCARD" /\ UNCHANGED <<melds, discards>>
    BY DEF PassIntoAbort, PassReactions
  <1> DEFINE reason == PassAbortReason(same_wind)
  <1>3. FinishDrawRound("ABORTIVE_DRAW", reason) /\ reason # "NONE"
    BY <1>1 DEF FinishAbortiveDraw
  <1>4. reason # "KYUUSHU_KYUUHAI"
    BY DEF PassAbortReason
  <1>5. reason = "SUUFON_RENDA" => Uncalled' /\ \A p \in Player : discards'[p] = 1
    <2> SUFFICES ASSUME reason = "SUUFON_RENDA"
                 PROVE  Uncalled' /\ \A p \in Player : discards'[p] = 1
      OBVIOUS
    <2>1. first_turn /\ \A p \in Player : discards[p] = 1
      BY DEF PassAbortReason
    <2>2. Uncalled
      BY <1>2, <2>1 DEF RoundInv, Results, FirstTurns
    <2> QED
      BY <1>2, <2>1, <2>2 DEF Uncalled
  <1> HIDE DEF reason
  <1> QED
    BY <1>3, <1>4, <1>5, RoundIsDrawn

\* A passed discard that goes on to the next player.
LEMMA ResultsPassIntoNextTurn ==
  ASSUME RoundInv, PassIntoNextTurn
  PROVE  Results'
  <1>1. /\ phase = "DISCARD" /\ phase' = "DRAW"
        /\ pending_riichi'.player = NO_PLAYER
        /\ UNCHANGED <<round_result, winners>>
        /\ pending_kan' = IF pending_kan = "KAKAN" THEN "NONE" ELSE pending_kan
    BY DEF PassIntoNextTurn, PassReactions, EstablishPendingRiichi, NoPendingRiichi,
           resultVars
  <1>2. /\ pending_kan = "NONE" /\ FirstTurns
        /\ round_result = NoResult /\ winners = {}
    BY <1>1 DEF RoundInv, Results, RobbedKanKept
  <1>3. FirstTurns'
    BY <1>2, FirstTurnsPass DEF RoundInv, RiichiInv
  <1> QED
    BY <1>1, <1>2, <1>3, RoundGoesOn

\* A kan that nobody robs: it aborts the round or goes on, and counts as a call.
LEMMA ResultsRinshanDraw ==
  ASSUME RoundInv, RinshanDraw
  PROVE  Results'
  <1>1. CASE FinishAbortiveDraw("FOUR_KANS")
    BY <1>1, FourKansIsNoOtherAbort
  <1>2. CASE /\ phase' = "DRAW" /\ pending_kan' = "NONE"
             /\ melds' = IF phase = "ANKAN_RESOLVE"
                           THEN AddMeld(current_player, "ankan") ELSE melds
             /\ UNCHANGED <<pending_riichi, round_result, winners>>
    <2>1. /\ phase \in {"ANKAN_RESOLVE", "KAKAN_RESOLVE"}
          /\ UNCHANGED <<first_turn, discards>>
      BY DEF RinshanDraw
    <2>2. ~ first_turn
      BY <2>1 DEF RoundInv, Results, FirstTurns
    <2>3. current_player \in Player
      BY DEF RoundInv, RiichiInv, TypeOK
    <2>4. FirstTurns'
      <3>1. CASE phase = "ANKAN_RESOLVE"
        <4>1. MeldCount(melds'[current_player]) = MeldCount(melds[current_player]) + 1
          BY <1>2, <3>1, AnkanMelded DEF RoundInv, RiichiInv
        <4>2. MeldCount(melds[current_player]) \in Nat
          BY <2>3, MeldCountType DEF RoundInv, RiichiInv, TypeOK, MeldRecords
        <4> QED
          BY <2>1, <2>2, <2>3, <4>1, <4>2, CalledIsNoFirstTurn
      <3>2. CASE phase = "KAKAN_RESOLVE"
        <4>1. Uncalled' <=> Uncalled
          BY <1>2, <3>2 DEF Uncalled
        <4> QED
          BY <2>1, <2>2, <3>2, <4>1 DEF RoundInv, Results, FirstTurns
      <3> QED
        BY <2>1, <3>1, <3>2
    <2>5. /\ pending_riichi'.player = NO_PLAYER
          /\ round_result' = NoResult /\ winners' = {}
      BY <1>2, <2>1, NothingPending DEF RoundInv, RiichiInv, Results
    <2> QED
      BY <1>2, <2>4, <2>5, RoundGoesOn
  <1> QED
    BY <1>1, <1>2 DEF RinshanDraw, resultVars

-----------------------------------------------------------------------------
(* The theorems                                                             *)

\* A dealt round has no result, and the dealer has drawn.
LEMMA ResultsInit == Init => Results
  <1> SUFFICES ASSUME Init PROVE Results
    OBVIOUS
  <1>1. \A p \in Player : MeldCount(melds[p]) = 0
    BY DEF Init, MeldCount, MeldKinds
  <1>2. \A p \in Player : Turn(p) <= Turn(Dealer) <=> p = Dealer
    BY DealerAssumption DEF Turn, Player
  <1>3. FirstTurns
    BY <1>1, <1>2, DealerAssumption DEF Init, FirstTurns, Uncalled
  <1>4. /\ phase = "DRAW" /\ pending_kan = "NONE" /\ winners = {}
        /\ round_result = NoResult /\ pending_riichi.player = NO_PLAYER
    BY DEF Init, NoPendingRiichi
  <1> QED
    BY <1>3, <1>4
    DEF Results, PendingKan, NoResult, FirstGoAround, RobbedKanKept, ResultConsistent

\* Every step keeps it.
LEMMA ResultsStep ==
  ASSUME RoundInv, [Next]_vars
  PROVE  Results'
  <1>1. CASE UNCHANGED vars
    BY <1>1
    DEF vars, turnVars, riichiVars, furitenVars, wallVars, doraVars, tileVars,
        resultVars, RoundInv, Results, FirstTurns, Uncalled, PendingKan,
        FirstGoAround, RobbedKanKept, ResultConsistent
  <1>2. CASE PassIntoExhaustiveDraw
    BY <1>2, RoundIsDrawn DEF PassIntoExhaustiveDraw
  <1>3. CASE Chi
    <2>1. NextPlayer(current_player) \in Player
      BY NextPlayerType DEF RoundInv, RiichiInv, TypeOK
    <2> QED
      BY <1>3, <2>1, ResultsChiOrPon DEF Chi
  <1>4. ASSUME NEW p \in Player, Pon(p)
        PROVE  Results'
    BY <1>4, ResultsChiOrPon DEF Pon
  <1> QED
    BY <1>1, <1>2, <1>3, <1>4, ResultsDiscard, ResultsRiichi, ResultsTsumo,
       ResultsKyuushu, ResultsAnkan, ResultsKakan, ResultsMinkan, ResultsRon,
       ResultsPassIntoAbort, ResultsPassIntoNextTurn, ResultsRinshanDraw
    DEF Next

\* Types, accounts, riichi and results agree in every state of a round.
THEOREM RoundInvariant == Spec => []RoundInv
  <1>1. Init => RoundInv
    BY TypeInit, AccountsInit, StakesInit, ResultsInit DEF RoundInv, RiichiInv
  <1>2. RoundInv /\ [Next]_vars => RoundInv'
    BY TypeStep, AccountsStep, StakesStep, ResultsStep DEF RoundInv, RiichiInv
  <1> QED
    BY <1>1, <1>2, PTL DEF Spec

\* Double riichi and the two aborts of the first go-around are granted to
\* players nobody called before, with their first discard or before it.
THEOREM FirstGoAroundAlways == Spec => []FirstGoAround
  BY RoundInvariant, PTL DEF RoundInv, Results

\* A ron keeps the tile of the kan it robs, and no other.
THEOREM RobbedKanAlwaysKept == Spec => []RobbedKanKept
  BY RoundInvariant, PTL DEF RoundInv, Results

\* The winners, the kind of the result and the rules agree.
THEOREM ResultAlwaysConsistent == Spec => []ResultConsistent
  BY RoundInvariant, PTL DEF RoundInv, Results


-----------------------------------------------------------------------------
(* Turns go round                                                           *)

Owed(p) == IF OwesDiscard(p) THEN 1 ELSE 0

\* How many places the player to act is past p.
Past(c, p) == (c - p) % 4

\* Seats in numbers.
LEMMA Seats ==
  ASSUME NEW c \in Player, NEW p \in Player
  PROVE  /\ Past(c, p) = IF c >= p THEN c - p ELSE c - p + 4
         /\ NextPlayer(c) = IF c = 3 THEN 0 ELSE c + 1
  BY DEF Past, NextPlayer, Player

\* The terms of the invariant are numbers.
LEMMA TurnTypes ==
  ASSUME TypeOK
  PROVE  /\ current_player \in Player /\ wall_pos \in Nat
         /\ OpenMelds(melds) \in Nat
         /\ \A p \in Player : discards[p] \in Nat /\ Owed(p) \in 0 .. 1
  BY TotalsType DEF TypeOK, MeldRecords, Owed

\* The invariant, in these terms.
LEMMA TurnsInTerms ==
  TurnsGoRound <=>
    \A p \in Player : 4 * (discards[p] + Owed(p) - 1) + Past(current_player, p)
                        <= wall_pos + 3 * OpenMelds(melds)
  BY DEF TurnsGoRound, Owed, Past

\* A step in the turn of the same player that records no discard unless one
\* was owed.
LEMMA SameTurn ==
  ASSUME TypeOK, TypeOK', TurnsGoRound,
         UNCHANGED current_player, wall_pos' >= wall_pos,
         OpenMelds(melds') >= OpenMelds(melds),
         \A p \in Player : discards'[p] + Owed(p)' <= discards[p] + Owed(p)
  PROVE  TurnsGoRound'
  <1> SUFFICES ASSUME NEW p \in Player
               PROVE  4 * (discards'[p] + Owed(p)' - 1) + Past(current_player', p)
                        <= wall_pos' + 3 * OpenMelds(melds')
    BY DEF TurnsGoRound, Owed, Past
  <1>1. /\ current_player \in Player /\ wall_pos \in Nat
        /\ OpenMelds(melds) \in Nat /\ discards[p] \in Nat /\ Owed(p) \in 0 .. 1
    BY TurnTypes
  <1>2. /\ wall_pos' \in Nat /\ discards'[p] \in Nat /\ Owed(p)' \in 0 .. 1
    BY DEF TypeOK, Owed
  <1>3. OpenMelds(melds') \in Nat
    BY TotalsType DEF TypeOK, MeldRecords
  <1>4. Past(current_player, p) \in 0 .. 3
    BY <1>1, Seats DEF Player
  <1>5. 4 * (discards[p] + Owed(p) - 1) + Past(current_player, p)
          <= wall_pos + 3 * OpenMelds(melds)
    BY TurnsInTerms
  <1>6. discards'[p] + Owed(p)' <= discards[p] + Owed(p)
    OBVIOUS
  <1> HIDE DEF Owed, Past
  <1> QED
    BY <1>1, <1>2, <1>3, <1>4, <1>5, <1>6

\* A step that gives the turn to q: by a draw to the next player, by an open
\* meld to anybody else.
LEMMA NextTurn ==
  ASSUME TypeOK, TypeOK', TurnsGoRound, NEW q \in Player,
         phase = "DISCARD", current_player' = q, UNCHANGED discards,
         \/ /\ q = NextPlayer(current_player)
            /\ wall_pos' = wall_pos + 1
            /\ OpenMelds(melds') = OpenMelds(melds)
         \/ /\ q # current_player
            /\ wall_pos' = wall_pos
            /\ OpenMelds(melds') = OpenMelds(melds) + 1
  PROVE  TurnsGoRound'
  <1> SUFFICES ASSUME NEW p \in Player
               PROVE  4 * (discards'[p] + Owed(p)' - 1) + Past(current_player', p)
                        <= wall_pos' + 3 * OpenMelds(melds')
    BY DEF TurnsGoRound, Owed, Past
  <1>1. /\ current_player \in Player /\ wall_pos \in Nat
        /\ OpenMelds(melds) \in Nat /\ discards[p] \in Nat
    BY TurnTypes
  <1>2. Owed(p) = 0 /\ Owed(p)' \in 0 .. 1 /\ (p # q => Owed(p)' = 0)
    BY DEF Owed, OwesDiscard
  <1>3. 4 * (discards[p] - 1) + Past(current_player, p)
          <= wall_pos + 3 * OpenMelds(melds)
    <2>1. 4 * (discards[p] + Owed(p) - 1) + Past(current_player, p)
            <= wall_pos + 3 * OpenMelds(melds)
      BY TurnsInTerms
    <2>2. discards[p] + Owed(p) - 1 = discards[p] - 1
      BY <1>1, <1>2
    <2> QED
      BY <2>1, <2>2
  <1>4. /\ Past(current_player, p) =
             IF current_player >= p THEN current_player - p
                                    ELSE current_player - p + 4
        /\ Past(q, p) = IF q >= p THEN q - p ELSE q - p + 4
        /\ NextPlayer(current_player) =
             IF current_player = 3 THEN 0 ELSE current_player + 1
    BY <1>1, Seats
  <1>5. current_player \in 0 .. 3 /\ p \in 0 .. 3 /\ q \in 0 .. 3
    BY <1>1 DEF Player
  <1>6. discards'[p] = discards[p]
    OBVIOUS
  <1> QED
    BY <1>1, <1>2, <1>3, <1>4, <1>5, <1>6

\* The dealer has the first turn.
LEMMA TurnsInit == Init => TurnsGoRound
  <1> SUFFICES ASSUME Init, NEW p \in Player
               PROVE  4 * (discards[p] + Owed(p) - 1) + Past(current_player, p)
                        <= wall_pos + 3 * OpenMelds(melds)
    BY DEF TurnsGoRound, Owed, Past
  <1>1. /\ current_player = Dealer /\ discards[p] = 0 /\ wall_pos = 0
        /\ Dealer \in Player
    BY DealerAssumption DEF Init
  <1>2. OpenMelds(melds) \in Nat
    BY TypeInit, TotalsType DEF TypeOK, MeldRecords
  <1>3. Past(Dealer, p) = IF Dealer >= p THEN Dealer - p ELSE Dealer - p + 4
    BY <1>1, Seats
  <1>4. Owed(p) = IF p = Dealer THEN 1 ELSE 0
    BY DEF Init, Owed, OwesDiscard
  <1>5. Dealer \in 0 .. 3 /\ p \in 0 .. 3
    BY <1>1 DEF Player
  <1> QED
    BY <1>1, <1>2, <1>3, <1>4, <1>5

\* A recorded discard is the one that was owed.
LEMMA TurnsDiscard ==
  ASSUME TypeOK, TypeOK', TurnsGoRound,
         RecordDiscard, phase \in {"DRAW", "AFTER_CALL"}, phase' = "DISCARD",
         UNCHANGED <<current_player, wall_pos, melds>>
  PROVE  TurnsGoRound'
  <1>1. ASSUME NEW p \in Player
        PROVE  discards'[p] + Owed(p)' <= discards[p] + Owed(p)
    <2>1. discards \in [Player -> Nat]
      BY DEF TypeOK
    <2>2. discards'[p] <= discards[p] + (IF p = current_player THEN 1 ELSE 0)
      BY <2>1 DEF RecordDiscard
    <2>3. Owed(p) = IF p = current_player THEN 1 ELSE 0
      BY DEF Owed, OwesDiscard
    <2>4. Owed(p)' = 0
      BY DEF Owed, OwesDiscard
    <2>5. discards[p] \in Nat /\ discards'[p] \in Nat
      BY DEF TypeOK
    <2> QED
      BY <2>2, <2>3, <2>4, <2>5
  <1>2. /\ wall_pos' >= wall_pos /\ OpenMelds(melds') >= OpenMelds(melds)
        /\ UNCHANGED current_player
    BY TurnTypes
  <1> QED
    BY <1>1, <1>2, SameTurn

\* A step in which nobody discards and no turn begins.
LEMMA TurnsKept ==
  ASSUME TypeOK, TypeOK', TurnsGoRound,
         UNCHANGED <<current_player, wall_pos, discards>>,
         OpenMelds(melds') = OpenMelds(melds),
         \/ phase' \notin {"DRAW", "AFTER_CALL", "ANKAN_RESOLVE", "KAKAN_RESOLVE"}
         \/ phase \in {"DRAW", "AFTER_CALL", "ANKAN_RESOLVE", "KAKAN_RESOLVE"}
         \/ UNCHANGED phase
  PROVE  TurnsGoRound'
  <1>1. ASSUME NEW p \in Player
        PROVE  discards'[p] + Owed(p)' <= discards[p] + Owed(p)
    <2>1. Owed(p)' = 0 \/ Owed(p) = 1 \/ Owed(p)' = Owed(p)
      BY DEF Owed, OwesDiscard
    <2>2. /\ Owed(p) \in 0 .. 1 /\ discards[p] \in Nat
          /\ Owed(p)' \in 0 .. 1 /\ discards'[p] = discards[p]
      BY TurnTypes DEF Owed
    <2> QED
      BY <2>1, <2>2
  <1>2. wall_pos' >= wall_pos /\ OpenMelds(melds') >= OpenMelds(melds)
    BY TurnTypes
  <1> QED
    BY <1>1, <1>2, SameTurn

\* Chi and pon: another player's turn, and an open meld more.
LEMMA TurnsChiOrPon ==
  ASSUME RoundInv, TypeOK', TurnsGoRound,
         NEW p \in Player, NEW kind \in {"chi", "pon"}, ChiOrPon(p, kind)
  PROVE  TurnsGoRound'
  <1>1. /\ phase = "DISCARD" /\ p # current_player /\ current_player' = p
        /\ MeldCount(melds[p]) < MaxMelds /\ melds' = AddMeld(p, kind)
        /\ UNCHANGED <<discards, wall_pos>>
    BY DEF ChiOrPon, CanChiOrPon, CanClaimDiscard, FinishOpenCall, wallVars
  <1>2. OpenMelds(melds') = OpenMelds(melds) + 1
    BY <1>1, MeldAdded DEF RoundInv, RiichiInv, MeldKinds
  <1> QED
    BY <1>1, <1>2, NextTurn DEF RoundInv, RiichiInv

\* Minkan: likewise, since a hand with three tiles has a free meld group.
LEMMA TurnsMinkan ==
  ASSUME RoundInv, TypeOK', TurnsGoRound, NEW p \in Player, Minkan(p)
  PROVE  TurnsGoRound'
  <1>1. /\ phase = "DISCARD" /\ p # current_player /\ current_player' = p
        /\ hand[p] > 2 /\ melds' = AddMeld(p, "minkan")
        /\ UNCHANGED <<discards, wall_pos>>
    BY DEF Minkan, CanMinkan, CanClaimDiscard, FinishOpenCall
  <1>2. TypeOK /\ HandsBalanced
    BY DEF RoundInv, RiichiInv, Accounts
  <1>3. MeldCount(melds[p]) < MaxMelds
    BY <1>1, <1>2, RoomForAMeld DEF HoldsExtraTile, TypeOK
  <1>4. OpenMelds(melds') = OpenMelds(melds) + 1
    BY <1>1, <1>2, <1>3, MeldAdded DEF MeldKinds
  <1> QED
    BY <1>1, <1>2, <1>4, NextTurn

\* Ankan, declared or aborted: no open meld.
LEMMA TurnsAnkan ==
  ASSUME RoundInv, TypeOK', TurnsGoRound, Ankan
  PROVE  TurnsGoRound'
  <1>1. /\ phase = "DRAW" /\ hand[current_player] >= 4
        /\ UNCHANGED <<current_player, wall_pos, discards>>
        /\ melds' = melds \/ melds' = AddMeld(current_player, "ankan")
    BY DEF Ankan, wallVars
  <1>2. TypeOK /\ HandsBalanced /\ current_player \in Player
    BY DEF RoundInv, RiichiInv, Accounts, TypeOK
  <1>3. MeldCount(melds[current_player]) < MaxMelds
    BY <1>1, <1>2, RoomForAMeld DEF HoldsExtraTile, TypeOK
  <1>4. OpenMelds(AddMeld(current_player, "ankan")) = OpenMelds(melds) + 0
    BY <1>2, <1>3, MeldAdded DEF MeldKinds
  <1>5. OpenMelds(melds) \in Nat
    BY <1>2, TurnTypes
  <1>6. OpenMelds(melds') = OpenMelds(melds)
    BY <1>1, <1>4, <1>5
  <1> QED
    BY <1>1, <1>2, <1>6, TurnsKept

\* The resolution of a kan: the same player goes on.
LEMMA TurnsRinshanDraw ==
  ASSUME RoundInv, TypeOK', TurnsGoRound, RinshanDraw
  PROVE  TurnsGoRound'
  <1>1. /\ phase \in {"ANKAN_RESOLVE", "KAKAN_RESOLVE"}
        /\ UNCHANGED <<current_player, wall_pos, discards>>
        /\ \/ melds' = melds
           \/ phase = "ANKAN_RESOLVE" /\ melds' = AddMeld(current_player, "ankan")
    BY DEF RinshanDraw
  <1>2. TypeOK /\ HandsBalanced /\ DeclaredKan /\ current_player \in Player
    BY DEF RoundInv, RiichiInv, Accounts, TypeOK
  <1>3. OpenMelds(melds) \in Nat
    BY <1>2, TurnTypes
  <1>4. CASE melds' = melds
    <2>1. OpenMelds(melds') = OpenMelds(melds)
      BY <1>4
    <2> QED
      BY <1>1, <1>2, <2>1, TurnsKept
  <1>5. CASE phase = "ANKAN_RESOLVE" /\ melds' = AddMeld(current_player, "ankan")
    <2>1. MeldCount(melds[current_player]) < MaxMelds
      BY <1>2, <1>5, RoomForAMeld DEF HoldsExtraTile, DeclaredKan, TypeOK
    <2>2. OpenMelds(AddMeld(current_player, "ankan")) = OpenMelds(melds) + 0
      BY <1>2, <2>1, MeldAdded DEF MeldKinds
    <2>3. OpenMelds(melds') = OpenMelds(melds)
      BY <1>3, <1>5, <2>2
    <2> QED
      BY <1>1, <1>2, <2>3, TurnsKept
  <1> QED
    BY <1>1, <1>4, <1>5

\* Every step keeps the turns going round.
LEMMA TurnsStep ==
  ASSUME RoundInv, RoundInv', TurnsGoRound, [Next]_vars
  PROVE  TurnsGoRound'
  <1>1. TypeOK /\ TypeOK' /\ current_player \in Player
    BY DEF RoundInv, RiichiInv, TypeOK
  <1>2. CASE UNCHANGED vars
    BY <1>2 DEF vars, turnVars, wallVars, tileVars, TurnsGoRound, OwesDiscard
  <1>3. CASE Discard \/ Riichi
    <2>1. /\ RecordDiscard /\ phase \in {"DRAW", "AFTER_CALL"} /\ phase' = "DISCARD"
          /\ UNCHANGED <<current_player, wall_pos, melds>>
      BY <1>3 DEF Discard, Riichi, CanDiscard, OfferDiscard, wallVars
    <2> QED
      BY <1>1, <2>1, TurnsDiscard
  <1>4. CASE \/ Tsumo \/ KyuushuKyuuhai
             \/ \E claimants \in SUBSET Player : Ron(claimants)
             \/ PassIntoAbort \/ PassIntoExhaustiveDraw
    <2>1. /\ phase' = "ROUND_END"
          /\ UNCHANGED <<current_player, wall_pos, discards, melds>>
      BY <1>4 DEF Tsumo, KyuushuKyuuhai, Ron, PassIntoAbort, PassIntoExhaustiveDraw,
                  PassReactions, FinishAbortiveDraw, FinishDrawRound, FinishMultiRon,
                  wallVars, tileVars
    <2>2. OpenMelds(melds') = OpenMelds(melds)
      BY <2>1
    <2> QED
      BY <1>1, <2>1, <2>2, TurnsKept
  <1>5. CASE Kakan
    <2>1. /\ phase = "DRAW" /\ UNCHANGED <<current_player, wall_pos, discards>>
      BY <1>5 DEF Kakan, wallVars
    <2>2. OpenMelds(melds') = OpenMelds(melds)
      BY <1>1, <1>5, PonUpgraded
    <2> QED
      BY <1>1, <2>1, <2>2, TurnsKept
  <1>6. CASE PassIntoNextTurn
    <2>1. /\ phase = "DISCARD" /\ current_player' = NextPlayer(current_player)
          /\ wall_pos' = wall_pos + 1 /\ UNCHANGED <<discards, melds>>
      BY <1>6 DEF PassIntoNextTurn, PassReactions
    <2>2. OpenMelds(melds') = OpenMelds(melds)
      BY <2>1
    <2>3. NextPlayer(current_player) \in Player
      BY <1>1, NextPlayerType
    <2> QED
      BY <1>1, <2>1, <2>2, <2>3, NextTurn
  <1>7. CASE Chi
    <2>1. NextPlayer(current_player) \in Player
      BY <1>1, NextPlayerType
    <2> QED
      BY <1>1, <1>7, <2>1, TurnsChiOrPon DEF Chi
  <1>8. ASSUME NEW p \in Player, Pon(p) \/ Minkan(p)
        PROVE  TurnsGoRound'
    BY <1>1, <1>8, TurnsChiOrPon, TurnsMinkan DEF Pon
  <1> QED
    BY <1>1, <1>2, <1>3, <1>4, <1>5, <1>6, <1>7, <1>8, TurnsAnkan, TurnsRinshanDraw
    DEF Next

\* In every round the turns go round: a player has one more turn for four
\* tiles drawn, and for a call at most three quarters of one.
THEOREM TurnsAlwaysGoRound == Spec => []TurnsGoRound
  <1>1. RoundInv /\ RoundInv' /\ TurnsGoRound /\ [Next]_vars => TurnsGoRound'
    BY TurnsStep
  <1> QED
    BY <1>1, TurnsInit, RoundInvariant, PTL DEF Spec

\* The discards of one player, in the library's 31 indices.
OwnDiscardsFit ==
  LiveTiles <= 69 /\ MaxMelds <= 4 => \A p \in Player : discards[p] <= 30

\* With the library's wall and meld groups nobody discards more than 30 times:
\* the assertion on player_index (state_ops.c:295) holds in every round.
THEOREM OwnDiscardsAlwaysFit == Spec => []OwnDiscardsFit
  <1>1. RoundInv /\ TurnsGoRound => OwnDiscardsFit
    <2> SUFFICES ASSUME RoundInv, TurnsGoRound, LiveTiles <= 69, MaxMelds <= 4,
                        NEW p \in Player
                 PROVE  discards[p] <= 30
      BY DEF OwnDiscardsFit
    <2>1. TypeOK /\ Accounts /\ dead_wall_draw_count \in Nat
      BY DEF RoundInv, RiichiInv, TypeOK
    <2>2. /\ current_player \in Player /\ wall_pos \in Nat
          /\ OpenMelds(melds) \in Nat
          /\ discards[p] \in Nat /\ Owed(p) \in 0 .. 1
      BY <2>1, TurnTypes
    <2>3. OpenMelds(melds) <= 16
      BY <2>1, <2>2, OpenMeldsFit, MaxMeldsAssumption DEF Accounts
    <2>4. wall_pos <= 69
      BY <2>1, <2>2, LiveTilesAssumption DEF Accounts, KanSupply
    <2>5. Past(current_player, p) \in 0 .. 3
      BY <2>2, Seats DEF Player
    <2>6. 4 * (discards[p] + Owed(p) - 1) + Past(current_player, p)
            <= wall_pos + 3 * OpenMelds(melds)
      BY TurnsInTerms
    <2> HIDE DEF Owed, Past
    <2> QED
      BY <2>2, <2>3, <2>4, <2>5, <2>6
  <1> QED
    BY <1>1, RoundInvariant, TurnsAlwaysGoRound, PTL

-----------------------------------------------------------------------------
(* The contract with the game                                               *)

\* Only players whose hands can be tenpai declare riichi and win on a tile.
WaitersOnly ==
  /\ pending_riichi.player # NO_PLAYER => pending_riichi.player \in Waiters
  /\ ready \subseteq Waiters

\* It holds at the deal, and every step keeps it.
LEMMA WaitersInductive ==
  /\ Init => WaitersOnly
  /\ WaitersOnly /\ [Next]_vars => WaitersOnly'
  <1>1. Init => WaitersOnly
    BY DEF Init, WaitersOnly, NoPendingRiichi
  <1>2. ASSUME WaitersOnly, [Next]_vars
        PROVE  WaitersOnly'
    <2>1. CASE UNCHANGED vars
      BY <1>2, <2>1 DEF WaitersOnly, vars, riichiVars
    <2>2. CASE Discard \/ Riichi
      <3>1. ready' \subseteq Waiters
        BY <2>2 DEF Discard, Riichi, OfferDiscard
      <3>2. pending_riichi' = pending_riichi \/ pending_riichi'.player \in Waiters
        BY <2>2 DEF Discard, Riichi, riichiVars
      <3> QED
        BY <1>2, <3>1, <3>2 DEF WaitersOnly
    <2>3. CASE Tsumo \/ KyuushuKyuuhai \/ PassIntoAbort \/ PassIntoExhaustiveDraw
      <3>1. CASE Tsumo
        BY <1>2, <3>1 DEF Tsumo, NoPendingRiichi, WaitersOnly
      <3>2. CASE \E type, reason : FinishDrawRound(type, reason)
        BY <3>2 DEF FinishDrawRound, NoPendingRiichi, WaitersOnly
      <3> QED
        BY <2>3, <3>1, <3>2 DEF KyuushuKyuuhai, PassIntoAbort,
           PassIntoExhaustiveDraw, FinishAbortiveDraw
    <2>4. CASE Ankan
      BY <1>2, <2>4 DEF Ankan, FinishAbortiveDraw, FinishDrawRound, WaitersOnly,
                        NoPendingRiichi
    <2>5. CASE Kakan
      BY <1>2, <2>5 DEF Kakan, FinishAbortiveDraw, FinishDrawRound, WaitersOnly,
                        NoPendingRiichi
    <2>6. ASSUME NEW p, NEW kind, ChiOrPon(p, kind)
          PROVE  WaitersOnly'
      BY <1>2, <2>6 DEF ChiOrPon, FinishOpenCall, EstablishPendingRiichi,
                        WaitersOnly, NoPendingRiichi
    <2>7. ASSUME NEW p, Minkan(p)
          PROVE  WaitersOnly'
      BY <1>2, <2>7 DEF Minkan, FinishOpenCall, EstablishPendingRiichi,
         FinishAbortiveDraw, FinishDrawRound, WaitersOnly, NoPendingRiichi
    <2>8. ASSUME NEW claimants, Ron(claimants)
          PROVE  WaitersOnly'
      BY <1>2, <2>8 DEF Ron, FinishMultiRon, FinishAbortiveDraw, FinishDrawRound,
                        WaitersOnly, NoPendingRiichi
    <2>9. CASE PassIntoNextTurn
      BY <1>2, <2>9 DEF PassIntoNextTurn, PassReactions, EstablishPendingRiichi,
                        WaitersOnly, NoPendingRiichi
    <2>10. CASE RinshanDraw
      BY <1>2, <2>10 DEF RinshanDraw, FinishAbortiveDraw, FinishDrawRound,
                         WaitersOnly, NoPendingRiichi
    <2> QED
      BY <1>2, <2>1, <2>2, <2>3, <2>4, <2>5, <2>6, <2>7, <2>8, <2>9, <2>10
      DEF Next, Chi, Pon
  <1> QED
    BY <1>1, <1>2

ContractInv == RoundInv /\ WaitersOnly

\* A declaration that stands is paid as the contract has it: by the player
\* to act, or not at all.
LEMMA ContractStake ==
  ASSUME ContractInv, phase = "DISCARD", EstablishPendingRiichi
  PROVE  \/ UNCHANGED <<riichi, scores, riichi_sticks>>
         \/ Contract!Stake(current_player)
  <1>1. CASE pending_riichi.player \in Player \ riichi
    <2>1. pending_riichi.player # NO_PLAYER
      BY <1>1 DEF Player, NO_PLAYER
    <2>2. /\ pending_riichi.player = current_player
          /\ scores[current_player] >= RIICHI_STAKE
          /\ current_player \notin riichi
      BY <2>1 DEF ContractInv, RoundInv, RiichiInv, Stakes, RiichiPaidOnce
    <2>3. current_player \in Waiters
      BY <2>1, <2>2 DEF ContractInv, WaitersOnly
    <2>4. EstablishingPlayers = {current_player}
      BY <1>1, <2>2 DEF EstablishingPlayers
    <2>5. /\ riichi' = riichi \cup {current_player}
          /\ scores' = [scores EXCEPT ![current_player] = @ - 1000]
          /\ riichi_sticks' = riichi_sticks + 1
      BY <1>1, <2>2, <2>4 DEF EstablishPendingRiichi, RIICHI_STAKE
    <2> QED
      BY <2>2, <2>3, <2>5 DEF Contract!Stake, RIICHI_STAKE
  <1>2. CASE pending_riichi.player \notin Player \ riichi
    BY <1>2 DEF EstablishPendingRiichi, EstablishingPlayers
  <1> QED
    BY <1>1, <1>2

\* In a round that goes on the contract is open, and the turn is a player's.
LEMMA ContractOpen ==
  ASSUME ContractInv, phase # "ROUND_END"
  PROVE  Contract!Open /\ current_player \in Player /\ TypeOK
  BY DEF ContractInv, RoundInv, RiichiInv, Results, NoResult, Contract!Open, TypeOK

\* A step that decides nothing is a turn of the contract.
LEMMA ContractTurn ==
  ASSUME ContractInv, phase # "ROUND_END", current_player' \in Player,
         UNCHANGED <<round_result, winners>>,
         \/ UNCHANGED <<riichi, scores, riichi_sticks>>
         \/ Contract!Stake(current_player)
  PROVE  Contract!Next
  BY ContractOpen DEF Contract!Next, Contract!Turn, Contract!money, Contract!result,
                      Contract!Player, Player

\* An abort is an abort of the contract, the one on four kans in any turn.
LEMMA ContractAbort ==
  ASSUME ContractInv, phase # "ROUND_END",
         NEW reason \in {"KYUUSHU_KYUUHAI", "FOUR_KANS", "SUUFON_RENDA",
                         "FOUR_RIICHI", "TRIPLE_RON"},
         FinishAbortiveDraw(reason),
         \/ UNCHANGED <<riichi, scores, riichi_sticks>>
         \/ Contract!Stake(current_player),
         reason = "FOUR_RIICHI" => riichi' = Player,
         reason \in {"KYUUSHU_KYUUHAI", "TRIPLE_RON"} =>
           UNCHANGED <<riichi, scores, riichi_sticks>>,
         IF reason = "FOUR_KANS" THEN current_player' \in Player
                                 ELSE UNCHANGED current_player
  PROVE  Contract!Next
  <1>1. Contract!Abort(reason)
    BY ContractOpen DEF Contract!Abort, Contract!money, Contract!Player, Player,
                        FinishAbortiveDraw, FinishDrawRound
  <1> QED
    BY <1>1 DEF Contract!Next

\* A ron is a win, or the abort on a triple ron.
LEMMA ContractRon ==
  ASSUME ContractInv, NEW claimants \in SUBSET Player, Ron(claimants)
  PROVE  Contract!Next
  <1>1. /\ claimants # {} /\ claimants \subseteq CanRon
        /\ UNCHANGED <<riichi, scores, riichi_sticks, current_player>>
    BY DEF Ron
  <1>2. phase # "ROUND_END" /\ claimants \subseteq Waiters \ {current_player}
    BY <1>1 DEF CanRon, ContractInv, WaitersOnly
  <1>3. CASE FinishAbortiveDraw("TRIPLE_RON")
    BY <1>1, <1>2, <1>3, ContractAbort
  <1>4. CASE FinishMultiRon(RonWinners(claimants))
    <2>1. ResultConsistent'
      BY ResultsRon DEF ContractInv, Results
    <2>2. /\ round_result' = [type |-> "RON", reason |-> "NONE"]
          /\ winners' = RonWinners(claimants)
      BY <1>4 DEF FinishMultiRon
    <2>3. winners' # {} /\ winners' \subseteq claimants
      BY <2>1, <2>2 DEF ResultConsistent, RonWinners
    <2>4. Contract!Win
      BY <1>1, <1>2, <2>2, <2>3, ContractOpen DEF Contract!Win, Contract!money
    <2> QED
      BY <2>4 DEF Contract!Next
  <1> QED
    BY <1>3, <1>4 DEF Ron

\* Every step of a round is one the contract allows, or shows nothing of
\* itself to the game.
LEMMA ContractStep ==
  ASSUME ContractInv, [Next]_vars
  PROVE  [Contract!Next]_(Contract!vars)
  <1>1. CASE UNCHANGED vars
    BY <1>1 DEF vars, turnVars, riichiVars, resultVars, Contract!vars,
                Contract!money, Contract!result
  <1>2. CASE Discard \/ Riichi
    BY <1>2 DEF Discard, Riichi, CanDiscard, riichiVars, resultVars, Contract!vars,
                Contract!money, Contract!result
  <1>3. CASE Tsumo
    <2>1. /\ phase # "ROUND_END" /\ current_player \in Waiters
          /\ winners' = {current_player}
          /\ round_result' = [type |-> "TSUMO", reason |-> "NONE"]
          /\ UNCHANGED <<riichi, scores, riichi_sticks, current_player>>
      BY <1>3 DEF Tsumo
    <2> QED
      BY <2>1, ContractOpen DEF Contract!Next, Contract!Win, Contract!money
  <1>4. CASE KyuushuKyuuhai
    <2>1. /\ phase # "ROUND_END" /\ FinishAbortiveDraw("KYUUSHU_KYUUHAI")
          /\ UNCHANGED <<riichi, scores, riichi_sticks, current_player>>
      BY <1>4 DEF KyuushuKyuuhai
    <2> QED
      BY <2>1, ContractAbort
  <1>5. CASE Ankan \/ Kakan \/ RinshanDraw
    <2>1. /\ phase # "ROUND_END"
          /\ UNCHANGED <<riichi, scores, riichi_sticks, current_player>>
          /\ FinishAbortiveDraw("FOUR_KANS") \/ UNCHANGED <<round_result, winners>>
      BY <1>5 DEF Ankan, Kakan, RinshanDraw, resultVars
    <2>2. current_player' \in Player
      BY <2>1, ContractOpen
    <2> QED
      BY <2>1, <2>2, ContractAbort, ContractTurn
  <1>6. ASSUME NEW p \in Player, Pon(p) \/ Minkan(p) \/ (p = NextPlayer(current_player) /\ Chi)
        PROVE  Contract!Next
    <2>1. /\ phase = "DISCARD" /\ EstablishPendingRiichi /\ current_player' = p
          /\ FinishAbortiveDraw("FOUR_KANS") \/ UNCHANGED <<round_result, winners>>
      BY <1>6 DEF Pon, Chi, ChiOrPon, CanChiOrPon, Minkan, CanMinkan, CanClaimDiscard,
                  FinishOpenCall, resultVars
    <2>2. \/ UNCHANGED <<riichi, scores, riichi_sticks>>
          \/ Contract!Stake(current_player)
      BY <2>1, ContractStake
    <2> QED
      BY <2>1, <2>2, ContractAbort, ContractTurn
  <1>7. CASE Chi
    <2>1. phase # "ROUND_END"
      BY <1>7 DEF Chi, ChiOrPon, CanChiOrPon, CanClaimDiscard
    <2>2. NextPlayer(current_player) \in Player
      BY <2>1, ContractOpen, NextPlayerType
    <2> QED
      BY <1>6, <1>7, <2>2
  <1>8. CASE PassIntoAbort
    <2>1. PICK same_wind \in BOOLEAN :
            /\ PassAbortReason(same_wind) # "NONE"
            /\ FinishAbortiveDraw(PassAbortReason(same_wind))
      BY <1>8 DEF PassIntoAbort
    <2>2. /\ phase = "DISCARD" /\ EstablishPendingRiichi /\ UNCHANGED current_player
      BY <1>8 DEF PassIntoAbort, PassReactions
    <2>3. /\ PassAbortReason(same_wind) \in {"FOUR_KANS", "SUUFON_RENDA", "FOUR_RIICHI"}
          /\ PassAbortReason(same_wind) = "FOUR_RIICHI" =>
               riichi \cup EstablishingPlayers = Player
      BY <2>1 DEF PassAbortReason
    <2>4. riichi' = riichi \cup EstablishingPlayers
      BY <2>2 DEF EstablishPendingRiichi
    <2>5. \/ UNCHANGED <<riichi, scores, riichi_sticks>>
          \/ Contract!Stake(current_player)
      BY <2>2, ContractStake
    <2>6. current_player' \in Player
      BY <2>2, ContractOpen
    <2> QED
      BY <2>1, <2>2, <2>3, <2>4, <2>5, <2>6, ContractAbort
  <1>9. CASE PassIntoExhaustiveDraw
    <2>1. /\ phase = "DISCARD" /\ EstablishPendingRiichi /\ UNCHANGED current_player
          /\ round_result' = [type |-> "EXHAUSTIVE_DRAW", reason |-> "NONE"]
          /\ winners' = {}
      BY <1>9 DEF PassIntoExhaustiveDraw, PassReactions, FinishDrawRound
    <2>2. \/ UNCHANGED <<riichi, scores, riichi_sticks>>
          \/ Contract!Stake(current_player)
      BY <2>1, ContractStake
    <2> QED
      BY <2>1, <2>2, ContractOpen
      DEF Contract!Next, Contract!ExhaustiveDraw, Contract!money
  <1>10. CASE PassIntoNextTurn
    <2>1. /\ phase = "DISCARD" /\ EstablishPendingRiichi
          /\ current_player' = NextPlayer(current_player)
          /\ UNCHANGED <<round_result, winners>>
      BY <1>10 DEF PassIntoNextTurn, PassReactions, resultVars
    <2>2. current_player' \in Player
      BY <2>1, ContractOpen, NextPlayerType
    <2>3. \/ UNCHANGED <<riichi, scores, riichi_sticks>>
          \/ Contract!Stake(current_player)
      BY <2>1, ContractStake
    <2> QED
      BY <2>1, <2>2, <2>3, ContractTurn
  <1> QED
    BY <1>1, <1>2, <1>3, <1>4, <1>5, <1>6, <1>7, <1>8, <1>9, <1>10, ContractRon
    DEF Next

\* Every round keeps the contract with the game around it, for every wall,
\* rule set and choice of callers and waiters.
THEOREM RoundKeepsContract == Spec => KeepsContract
  <1>1. Init => Contract!Init /\ ContractInv
    <2>1. Init => Contract!Init
      BY DealerAssumption DEF Init, Contract!Init, NoResult, Player, Contract!Player
    <2>2. Init => ContractInv
      BY TypeInit, AccountsInit, StakesInit, ResultsInit, WaitersInductive
      DEF ContractInv, RoundInv, RiichiInv
    <2> QED
      BY <2>1, <2>2
  <1>2. RoundInv /\ WaitersOnly /\ [Next]_vars => WaitersOnly'
    BY WaitersInductive
  <1>3. ContractInv /\ [Next]_vars => [Contract!Next]_(Contract!vars)
    BY ContractStep
  <1> QED
    BY <1>1, <1>2, <1>3, RoundInvariant, PTL
    DEF Spec, ContractInv, KeepsContract, Contract!Spec
=============================================================================
