-------------------------- MODULE RoundFlow_proofs --------------------------
(* Proofs about RoundFlow, for every number of live tiles, every set of      *)
(* rules and every choice of callers and waiters: types, and the accounts of *)
(* a round, in which tiles of the hands and of the walls, recorded discards  *)
(* and dora indicators follow every draw, call and kan.                      *)
EXTENDS RoundFlow, TLAPS

-----------------------------------------------------------------------------
(* Type correctness                                                         *)

\* A ron among players whose hands win makes winners of players.
LEMMA RonWinnersType ==
  ASSUME NEW claimants \in SUBSET Player
  PROVE  RonWinners(claimants) \subseteq Player
  BY DEF RonWinners

\* A further meld of a player leaves counts of melds.
LEMMA AddMeldType ==
  ASSUME TypeOK, NEW p \in Player, NEW kind \in MeldKinds
  PROVE  AddMeld(p, kind) \in [Player -> [MeldKinds -> Nat]]
  <1>1. melds \in [Player -> [MeldKinds -> Nat]]
    BY DEF TypeOK
  <1>2. [melds[p] EXCEPT ![kind] = @ + 1] \in [MeldKinds -> Nat]
    BY <1>1
  <1> QED
    BY <1>1, <1>2 DEF AddMeld

\* The hand left after a meld is a number of tiles.
LEMMA HandAfterMeldType ==
  ASSUME TypeOK, NEW p \in Player, NEW used \in Nat
  PROVE  HandAfterMeld(p, used) \in Int
  BY DEF TypeOK, HandAfterMeld

\* Establishing a declared riichi, or finding none, keeps the types.
LEMMA EstablishType ==
  ASSUME TypeOK, EstablishPendingRiichi
  PROVE  /\ riichi' \subseteq Player /\ double_riichi' \subseteq Player
         /\ pending_riichi' \in [player : Player \cup {NO_PLAYER}, double : BOOLEAN]
         /\ scores' \in [Player -> Int] /\ riichi_sticks' \in Nat
  <1>1. scores \in [Player -> Int] /\ riichi_sticks \in Nat
        /\ riichi \subseteq Player /\ double_riichi \subseteq Player
    BY DEF TypeOK
  <1>2. CASE pending_riichi.player \in Player \ riichi
    BY <1>1, <1>2
    DEF EstablishPendingRiichi, EstablishingPlayers, NoPendingRiichi, NO_PLAYER,
        RIICHI_STAKE
  <1>3. CASE pending_riichi.player \notin Player \ riichi
    BY <1>1, <1>3
    DEF EstablishPendingRiichi, EstablishingPlayers, NoPendingRiichi, NO_PLAYER
  <1> QED
    BY <1>2, <1>3

\* Only players become furiten.
LEMMA DeclineType ==
  ASSUME TypeOK, NEW drawers, DeclineRon(drawers)
  PROVE  temporary_furiten' \subseteq Player /\ riichi_furiten' \subseteq Player
  BY DEF TypeOK, DeclineRon, CanRon

\* Recording a discard keeps the hands and the histories counts.
LEMMA RecordType ==
  ASSUME TypeOK, RecordDiscard
  PROVE  discards' \in [Player -> Nat] /\ hand' \in [Player -> Int]
  BY DEF TypeOK, RecordDiscard

\* What the end of a round without a winner leaves behind.
LEMMA FinishType ==
  ASSUME NEW type \in {"EXHAUSTIVE_DRAW", "ABORTIVE_DRAW"},
         NEW reason \in {"NONE", "KYUUSHU_KYUUHAI", "FOUR_KANS", "SUUFON_RENDA",
                         "FOUR_RIICHI", "TRIPLE_RON"},
         FinishDrawRound(type, reason)
  PROVE  /\ phase' \in Phases /\ winners' \subseteq Player
         /\ pending_riichi' \in [player : Player \cup {NO_PLAYER}, double : BOOLEAN]
         /\ pending_kan' \in {"NONE", "ANKAN", "KAKAN"}
         /\ pending_kan_dora_count' \in 0 .. MAX_DORA
         /\ ready' \subseteq Player
         /\ round_result' \in
              [type : {"NONE", "TSUMO", "RON", "EXHAUSTIVE_DRAW", "ABORTIVE_DRAW"},
               reason : {"NONE", "KYUUSHU_KYUUHAI", "FOUR_KANS", "SUUFON_RENDA",
                         "FOUR_RIICHI", "TRIPLE_RON"}]
  BY DEF FinishDrawRound, NoPendingRiichi, Phases, MAX_DORA, NO_PLAYER

\* No way of adding or revealing indicators exceeds five of them.
LEMMA DoraType ==
  ASSUME TypeOK
  PROVE  /\ \A n \in 0 .. MAX_DORA : AddDoraIndicator(n) \in 0 .. MAX_DORA
         /\ AddPendingKanDora \in 0 .. MAX_DORA
         /\ RevealedDora \in 0 .. MAX_DORA
  BY DEF TypeOK, AddDoraIndicator, AddPendingKanDora, RevealedDora, MAX_DORA

\* The next seat is a seat.
LEMMA NextPlayerType ==
  ASSUME NEW p \in Player
  PROVE  NextPlayer(p) \in Player
  BY DEF Player, NextPlayer

\* A round is dealt with every field in its range.
LEMMA TypeInit == Init => TypeOK
  <1> SUFFICES ASSUME Init PROVE TypeOK
    OBVIOUS
  <1>1. /\ hand \in [Player -> Int] /\ discards \in [Player -> Nat]
        /\ draw_turn \in [Player -> 0 .. 2]
    BY MaxMeldsAssumption DEF Init, HandTiles
  <1>2. melds \in [Player -> [MeldKinds -> Nat]]
    BY DEF Init
  <1> QED
    BY <1>1, <1>2, DealerAssumption, ScoresAssumption, SticksAssumption
    DEF Init, TypeOK, Phases, NoPendingRiichi, NoResult, NO_PLAYER,
        RINSHAN_TILE_COUNT, MAX_DORA

\* A discard keeps the types.
LEMMA TypeDiscard ==
  ASSUME TypeOK, Discard
  PROVE  TypeOK'
  <1>1. discards' \in [Player -> Nat] /\ hand' \in [Player -> Int]
    BY RecordType DEF Discard
  <1>2. dora_count' \in 0 .. MAX_DORA /\ pending_kan_dora_count' \in 0 .. MAX_DORA
    BY DoraType DEF Discard, RevealPendingKanDora, MAX_DORA
  <1> QED
    BY <1>1, <1>2, PeopleAssumption
    DEF TypeOK, Discard, OfferDiscard, Phases, riichiVars, furitenVars, wallVars,
        resultVars

\* A riichi declaration keeps the types.
LEMMA TypeRiichi ==
  ASSUME TypeOK, Riichi
  PROVE  TypeOK'
  BY RecordType, PeopleAssumption
  DEF TypeOK, Riichi, OfferDiscard, Phases, furitenVars, wallVars, doraVars,
      resultVars

\* A tsumo keeps the types.
LEMMA TypeTsumo ==
  ASSUME TypeOK, Tsumo
  PROVE  TypeOK'
  BY DEF TypeOK, Tsumo, Phases, NoPendingRiichi, NO_PLAYER, furitenVars, wallVars,
         tileVars, MAX_DORA

\* The abort on nine terminals keeps the types.
LEMMA TypeKyuushu ==
  ASSUME TypeOK, KyuushuKyuuhai
  PROVE  TypeOK'
  BY FinishType
  DEF TypeOK, KyuushuKyuuhai, FinishAbortiveDraw, furitenVars, wallVars, tileVars

\* An ankan, declared or aborting, keeps the types.
LEMMA TypeAnkan ==
  ASSUME TypeOK, Ankan
  PROVE  TypeOK'
  <1>1. CASE CountTotalKans(melds) # 4
    <2>1. ready' \subseteq Player
      BY <1>1, PeopleAssumption DEF Ankan
    <2>2. /\ dora_count' \in 0 .. MAX_DORA /\ pending_kan_dora_count' \in 0 .. MAX_DORA
          /\ phase' \in Phases /\ pending_kan' \in {"NONE", "ANKAN", "KAKAN"}
      BY <1>1, DoraType DEF Ankan, RevealPendingKanDora, MAX_DORA, Phases
    <2>3. UNCHANGED <<draw_tile, ippatsu, hand, melds, pending_riichi, round_result,
                      winners>>
      BY <1>1 DEF Ankan, resultVars
    <2> QED
      BY <2>1, <2>2, <2>3 DEF TypeOK, Ankan, furitenVars, wallVars
  <1>2. CASE CountTotalKans(melds) = 4
    <2>1. FinishAbortiveDraw("FOUR_KANS") /\ draw_tile' = FALSE /\ ippatsu' = {}
      BY <1>2 DEF Ankan
    <2>2. melds' \in [Player -> [MeldKinds -> Nat]] /\ hand' \in [Player -> Int]
      <3>1. current_player \in Player /\ "ankan" \in MeldKinds
        BY DEF TypeOK, MeldKinds
      <3>2. /\ AddMeld(current_player, "ankan") \in [Player -> [MeldKinds -> Nat]]
            /\ HandAfterMeld(current_player, 4) \in Int
        BY <3>1, AddMeldType, HandAfterMeldType
      <3> QED
        BY <1>2, <3>2 DEF Ankan, TypeOK
    <2>3. dora_count' \in 0 .. MAX_DORA
      BY <1>2, DoraType DEF Ankan
    <2> QED
      BY <2>1, <2>2, <2>3, FinishType
      DEF TypeOK, Ankan, FinishAbortiveDraw, furitenVars, wallVars
  <1> QED
    BY <1>1, <1>2

\* A kakan, declared or aborting, keeps the types.
LEMMA TypeKakan ==
  ASSUME TypeOK, Kakan
  PROVE  TypeOK'
  <1>1. melds' \in [Player -> [MeldKinds -> Nat]]
    <2>1. /\ melds \in [Player -> [MeldKinds -> Nat]] /\ current_player \in Player
          /\ melds[current_player].pon > 0
      BY DEF TypeOK, Kakan
    <2> DEFINE m == melds[current_player]
    <2>2. [m EXCEPT !["pon"] = m["pon"] - 1, !["kakan"] = m["kakan"] + 1]
            \in [MeldKinds -> Nat]
      BY <2>1 DEF MeldKinds
    <2>3. melds' = [melds EXCEPT ![current_player] =
                      [m EXCEPT !["pon"] = m["pon"] - 1,
                                !["kakan"] = m["kakan"] + 1]]
      BY <2>1 DEF Kakan, MeldKinds
    <2> QED
      BY <2>1, <2>2, <2>3
  <1>2. hand' \in [Player -> Int]
    BY DEF Kakan, TypeOK
  <1>3. dora_count' \in 0 .. MAX_DORA
    BY DoraType DEF Kakan
  <1>4. CASE CountTotalKans(melds) # 4
    <2>1. ready' \subseteq Player
      BY <1>4, PeopleAssumption DEF Kakan
    <2> QED
      BY <1>1, <1>2, <1>3, <1>4, <2>1
      DEF TypeOK, Kakan, Phases, resultVars, furitenVars, wallVars, MAX_DORA
  <1>5. CASE CountTotalKans(melds) = 4
    <2>1. FinishAbortiveDraw("FOUR_KANS")
      BY <1>5 DEF Kakan
    <2> QED
      BY <1>1, <1>2, <1>3, <2>1, FinishType
      DEF TypeOK, Kakan, FinishAbortiveDraw, furitenVars, wallVars
  <1> QED
    BY <1>4, <1>5

\* Chi and pon are one transition with two kinds of meld.
LEMMA TypeChiOrPon ==
  ASSUME TypeOK, NEW p \in Player, NEW kind \in MeldKinds, ChiOrPon(p, kind)
  PROVE  TypeOK'
  <1>1. melds' \in [Player -> [MeldKinds -> Nat]] /\ hand' \in [Player -> Int]
    BY AddMeldType, HandAfterMeldType DEF ChiOrPon, TypeOK
  <1>2. EstablishPendingRiichi
    BY DEF ChiOrPon
  <1> QED
    BY <1>1, <1>2, EstablishType
    DEF TypeOK, ChiOrPon, FinishOpenCall, Phases, furitenVars, wallVars, doraVars,
        resultVars

\* A chi keeps the types.
LEMMA TypeChi ==
  ASSUME TypeOK, Chi
  PROVE  TypeOK'
  <1>1. NextPlayer(current_player) \in Player
    BY NextPlayerType DEF TypeOK
  <1> QED
    BY <1>1, TypeChiOrPon DEF Chi, MeldKinds

\* A pon keeps the types.
LEMMA TypePon ==
  ASSUME TypeOK, NEW p \in Player, Pon(p)
  PROVE  TypeOK'
  BY TypeChiOrPon DEF Pon, MeldKinds

\* A minkan, drawing or aborting, keeps the types.
LEMMA TypeMinkan ==
  ASSUME TypeOK, NEW p \in Player, Minkan(p)
  PROVE  TypeOK'
  <1>1. melds' \in [Player -> [MeldKinds -> Nat]]
    BY AddMeldType DEF Minkan, MeldKinds
  <1>2. hand' \in [Player -> Int]
    BY HandAfterMeldType DEF Minkan, TypeOK
  <1>3. EstablishPendingRiichi
    BY DEF Minkan
  <1>4. CASE ~ ShouldAbortOnFourKans(AddMeld(p, "minkan"))
    <2>1. dora_count' \in 0 .. MAX_DORA /\ pending_kan_dora_count' \in 0 .. MAX_DORA
      BY <1>4, DoraType DEF Minkan, KanDoraByTiming, TypeOK
    <2>2. /\ phase' = "DRAW" /\ draw_tile' = TRUE /\ first_turn' = FALSE
          /\ current_player' = p /\ ippatsu' = {} /\ ready' = {}
          /\ pending_kan' = "NONE"
          /\ dead_wall_draw_count' = dead_wall_draw_count + 1
          /\ temporary_furiten' = temporary_furiten \ {p}
          /\ UNCHANGED <<round_result, winners, rules, draw_turn, riichi_furiten,
                         wall_pos, discards>>
      BY <1>4 DEF Minkan, FinishOpenCall, resultVars
    <2>3. "DRAW" \in Phases /\ "NONE" \in {"NONE", "ANKAN", "KAKAN"}
      BY DEF Phases
    <2>4. dead_wall_draw_count' \in Nat /\ temporary_furiten' \subseteq Player
      BY <2>2 DEF TypeOK
    <2>5. /\ riichi' \subseteq Player /\ double_riichi' \subseteq Player
          /\ pending_riichi' \in [player : Player \cup {NO_PLAYER}, double : BOOLEAN]
          /\ scores' \in [Player -> Int] /\ riichi_sticks' \in Nat
      BY <1>3, EstablishType
    <2> QED
      BY <1>1, <1>2, <2>1, <2>2, <2>3, <2>4, <2>5 DEF TypeOK
  <1>5. CASE ShouldAbortOnFourKans(AddMeld(p, "minkan"))
    <2>1. FinishAbortiveDraw("FOUR_KANS") /\ dora_count' \in 0 .. MAX_DORA
      BY <1>5, DoraType DEF Minkan, TypeOK
    <2>2. /\ draw_tile' = FALSE /\ current_player' = p /\ ippatsu' = {}
          /\ first_turn' = FALSE
          /\ UNCHANGED <<dead_wall_draw_count, temporary_furiten, rules, draw_turn,
                         riichi_furiten, wall_pos, discards>>
      BY <1>5 DEF Minkan, FinishOpenCall
    <2>3. FinishDrawRound("ABORTIVE_DRAW", "FOUR_KANS")
      BY <2>1 DEF FinishAbortiveDraw
    <2> QED
      BY <1>1, <1>2, <1>3, <2>1, <2>2, <2>3, EstablishType, FinishType DEF TypeOK
  <1> QED
    BY <1>4, <1>5

\* A ron, won or aborting, keeps the types.
LEMMA TypeRon ==
  ASSUME TypeOK, NEW claimants \in SUBSET Player, Ron(claimants)
  PROVE  TypeOK'
  <1>1. CASE TripleRonAborts(claimants)
    <2>1. FinishAbortiveDraw("TRIPLE_RON")
      BY <1>1 DEF Ron
    <2> QED
      BY <2>1, FinishType
      DEF TypeOK, Ron, FinishAbortiveDraw, furitenVars, wallVars, tileVars
  <1>2. CASE ~ TripleRonAborts(claimants)
    <2>1. FinishMultiRon(RonWinners(claimants))
      BY <1>2 DEF Ron
    <2> QED
      BY <2>1, RonWinnersType
      DEF TypeOK, Ron, FinishMultiRon, NoPendingRiichi, Phases, MAX_DORA, NO_PLAYER,
          furitenVars, wallVars, tileVars
  <1> QED
    BY <1>1, <1>2

\* What every pass does first.
LEMMA TypePassReactions ==
  ASSUME TypeOK, PassReactions
  PROVE  /\ riichi' \subseteq Player /\ double_riichi' \subseteq Player
         /\ pending_riichi' \in [player : Player \cup {NO_PLAYER}, double : BOOLEAN]
         /\ scores' \in [Player -> Int] /\ riichi_sticks' \in Nat
         /\ ippatsu' \subseteq Player
         /\ UNCHANGED <<rules, dead_wall_draw_count, dora_count, melds, discards>>
  BY EstablishType DEF TypeOK, PassReactions, EstablishingPlayers

\* A pass that aborts the round keeps the types.
LEMMA TypePassIntoAbort ==
  ASSUME TypeOK, PassIntoAbort
  PROVE  TypeOK'
  <1>1. PICK same_wind \in BOOLEAN :
          FinishAbortiveDraw(PassAbortReason(same_wind))
    BY DEF PassIntoAbort
  <1>2. PassAbortReason(same_wind) \in
          {"NONE", "FOUR_KANS", "SUUFON_RENDA", "FOUR_RIICHI"}
    BY DEF PassAbortReason
  <1>3. PassReactions /\ DeclineRon({})
    BY DEF PassIntoAbort
  <1> QED
    BY <1>1, <1>2, <1>3, TypePassReactions, DeclineType, FinishType
    DEF TypeOK, PassIntoAbort, FinishAbortiveDraw

\* A pass over the last discard keeps the types.
LEMMA TypePassIntoExhaustiveDraw ==
  ASSUME TypeOK, PassIntoExhaustiveDraw
  PROVE  TypeOK'
  BY TypePassReactions, DeclineType, FinishType DEF TypeOK, PassIntoExhaustiveDraw

\* A pass into the next turn keeps the types.
LEMMA TypePassIntoNextTurn ==
  ASSUME TypeOK, PassIntoNextTurn
  PROVE  TypeOK'
  <1>1. PassReactions /\ DeclineRon({NextPlayer(current_player)})
    BY DEF PassIntoNextTurn
  <1>2. NextPlayer(current_player) \in Player
    BY NextPlayerType DEF TypeOK
  <1> QED
    BY <1>1, <1>2, TypePassReactions, DeclineType
    DEF TypeOK, PassIntoNextTurn, Phases, resultVars

\* The resolution of a kan keeps the types.
LEMMA TypeRinshanDraw ==
  ASSUME TypeOK, RinshanDraw
  PROVE  TypeOK'
  <1> DEFINE p == current_player
             committed == IF phase = "ANKAN_RESOLVE" THEN AddMeld(p, "ankan") ELSE melds
             used == IF phase = "ANKAN_RESOLVE" THEN hand[p] - HandAfterMeld(p, 4)
                                                ELSE 0
  <1>1. committed \in [Player -> [MeldKinds -> Nat]] /\ used \in Int
    BY AddMeldType, HandAfterMeldType DEF TypeOK, MeldKinds
  <1>2. /\ current_player' \in Player /\ rules' \in RuleSets /\ first_turn' \in BOOLEAN
        /\ draw_turn' \in [Player -> 0 .. 2] /\ riichi' \subseteq Player
        /\ double_riichi' \subseteq Player /\ scores' \in [Player -> Int]
        /\ riichi_sticks' \in Nat /\ wall_pos' \in Nat /\ discards' \in [Player -> Nat]
    BY DEF TypeOK, RinshanDraw
  <1>3. CASE ShouldAbortOnFourKans(melds)
    <2>1. FinishAbortiveDraw("FOUR_KANS") /\ DeclineRon({})
      BY <1>3 DEF RinshanDraw
    <2>2. UNCHANGED <<draw_tile, ippatsu, melds, hand, dora_count,
                      dead_wall_draw_count>>
      BY <1>3 DEF RinshanDraw
    <2> QED
      BY <1>2, <2>1, <2>2, FinishType, DeclineType DEF TypeOK, FinishAbortiveDraw
  <1>4. CASE ~ ShouldAbortOnFourKans(melds) /\ ShouldAbortOnFourKans(committed)
    <2>1. FinishAbortiveDraw("FOUR_KANS") /\ DeclineRon({})
      BY <1>4 DEF RinshanDraw
    <2>2. /\ melds' = committed /\ hand' = [hand EXCEPT ![p] = @ - used]
          /\ dora_count' = AddDoraIndicator(dora_count)
          /\ draw_tile' = FALSE /\ ippatsu' = {} /\ UNCHANGED dead_wall_draw_count
      BY <1>4 DEF RinshanDraw
    <2>3. hand' \in [Player -> Int] /\ dora_count' \in 0 .. MAX_DORA
      BY <1>1, <2>2, DoraType DEF TypeOK
    <2> QED
      BY <1>1, <1>2, <2>1, <2>2, <2>3, FinishType, DeclineType
      DEF TypeOK, FinishAbortiveDraw
  <1>5. CASE ~ ShouldAbortOnFourKans(melds) /\ ~ ShouldAbortOnFourKans(committed)
    <2>1. /\ DeclineRon({p}) /\ melds' = committed
          /\ hand' = [hand EXCEPT ![p] = @ - used + 1]
          /\ dead_wall_draw_count' = dead_wall_draw_count + 1
          /\ draw_tile' = TRUE /\ pending_kan' = "NONE" /\ phase' = "DRAW"
          /\ ready' = {} /\ UNCHANGED <<pending_riichi, round_result, winners>>
      BY <1>5 DEF RinshanDraw, resultVars
    <2>2. /\ dora_count' \in 0 .. MAX_DORA /\ pending_kan_dora_count' \in 0 .. MAX_DORA
          /\ ippatsu' \subseteq Player
      BY <1>5, DoraType DEF TypeOK, RinshanDraw, KanDoraByTiming
    <2>3. hand' \in [Player -> Int]
      BY <1>1, <2>1 DEF TypeOK
    <2> QED
      BY <1>1, <1>2, <2>1, <2>2, <2>3, DeclineType DEF TypeOK, Phases
  <1> QED
    BY <1>3, <1>4, <1>5

\* Every step of a round keeps the types.
LEMMA TypeStep ==
  ASSUME TypeOK, [Next]_vars
  PROVE  TypeOK'
  <1>1. CASE Next
    BY <1>1, TypeDiscard, TypeRiichi, TypeTsumo, TypeKyuushu, TypeAnkan, TypeKakan,
       TypeChi, TypePon, TypeMinkan, TypeRon, TypePassIntoAbort,
       TypePassIntoExhaustiveDraw, TypePassIntoNextTurn, TypeRinshanDraw
    DEF Next
  <1>2. CASE UNCHANGED vars
    BY <1>2
    DEF vars, turnVars, riichiVars, furitenVars, wallVars, doraVars, tileVars,
        resultVars, TypeOK
  <1> QED
    BY <1>1, <1>2

\* The variables of a round always have their types, whatever the wall, the
\* rules and the hands.
THEOREM TypeCorrect == Spec => []TypeOK
  BY TypeInit, TypeStep, PTL DEF Spec


-----------------------------------------------------------------------------
(* The inductive invariant                                                  *)

\* Nobody has more melds than meld groups.
MeldLimit == \A p \in Player : MeldCount(melds[p]) <= MaxMelds

\* A declared ankan is still in the hand, a declared kakan is melded.
DeclaredKan ==
  /\ phase = "ANKAN_RESOLVE" => hand[current_player] >= 4
  /\ phase = "KAKAN_RESOLVE" => melds[current_player].kakan > 0

\* An indicator is delayed only after an open kan, which ends closed hands:
\* cj4_do_riichi, which reveals nothing, never meets one.
DelayedDoraIsOpen ==
  pending_kan_dora_count > 0 => ~ IsClosed(melds[current_player])

Accounts ==
  /\ HandsBalanced /\ MeldLimit /\ DeclaredKan
  /\ DiscardBudget /\ KanSupply
  /\ NoKanDoraLost /\ DelayedDoraIsOpen

-----------------------------------------------------------------------------
(* Counting melds and discards                                              *)

MeldRecords == [MeldKinds -> Nat]

\* The counts of a player's melds are natural numbers.
LEMMA MeldCountType ==
  ASSUME NEW m \in MeldRecords
  PROVE  /\ MeldCount(m) \in Nat /\ KanCount(m) \in Nat
         /\ MeldCount(m) - m.ankan \in Nat
  <1>1. /\ m.chi \in Nat /\ m.pon \in Nat /\ m.minkan \in Nat
        /\ m.ankan \in Nat /\ m.kakan \in Nat
    BY DEF MeldRecords, MeldKinds
  <1> QED
    BY <1>1 DEF MeldCount, KanCount

\* A sum over the players, spelled out.
LEMMA SumOfPlayers ==
  ASSUME NEW ms \in [Player -> MeldRecords]
  PROVE  /\ CountTotalKans(ms) = KanCount(ms[0]) + KanCount(ms[1])
                                   + KanCount(ms[2]) + KanCount(ms[3])
         /\ OpenMelds(ms) = (MeldCount(ms[0]) - ms[0].ankan)
                              + (MeldCount(ms[1]) - ms[1].ankan)
                              + (MeldCount(ms[2]) - ms[2].ankan)
                              + (MeldCount(ms[3]) - ms[3].ankan)
  <1>1. 0 \in Player /\ 1 \in Player /\ 2 \in Player /\ 3 \in Player
    BY DEF Player
  <1> QED
    BY <1>1 DEF CountTotalKans, OpenMelds, Sum

\* The totals are natural numbers.
LEMMA TotalsType ==
  ASSUME NEW ms \in [Player -> MeldRecords]
  PROVE  CountTotalKans(ms) \in Nat /\ OpenMelds(ms) \in Nat
  <1>1. \A p \in {0, 1, 2, 3} : /\ KanCount(ms[p]) \in Nat
                                /\ MeldCount(ms[p]) - ms[p].ankan \in Nat
    BY MeldCountType DEF Player
  <1> QED
    BY <1>1, SumOfPlayers

\* When the melds of one player change, the totals change by what that
\* player's counts do.
LEMMA TotalsChange ==
  ASSUME NEW ms \in [Player -> MeldRecords], NEW p \in Player,
         NEW m \in MeldRecords,
         NEW after, after = [ms EXCEPT ![p] = m]
  PROVE  /\ after \in [Player -> MeldRecords]
         /\ CountTotalKans(after) = CountTotalKans(ms) - KanCount(ms[p]) + KanCount(m)
         /\ OpenMelds(after) = OpenMelds(ms) - (MeldCount(ms[p]) - ms[p].ankan)
                                 + (MeldCount(m) - m.ankan)
  <1>1. after \in [Player -> MeldRecords]
    OBVIOUS
  <1>2. /\ after[p] = m /\ \A q \in Player \ {p} : after[q] = ms[q]
    OBVIOUS
  <1>3. \A q \in {0, 1, 2, 3} : /\ KanCount(ms[q]) \in Nat
                                /\ MeldCount(ms[q]) - ms[q].ankan \in Nat
    BY MeldCountType DEF Player
  <1>4. KanCount(m) \in Nat /\ MeldCount(m) - m.ankan \in Nat
    BY MeldCountType
  <1>5. p = 0 \/ p = 1 \/ p = 2 \/ p = 3
    BY DEF Player
  <1>6. /\ CountTotalKans(ms) = KanCount(ms[0]) + KanCount(ms[1])
                                   + KanCount(ms[2]) + KanCount(ms[3])
        /\ CountTotalKans(after) = KanCount(after[0]) + KanCount(after[1])
                                   + KanCount(after[2]) + KanCount(after[3])
    BY <1>1, SumOfPlayers
  <1>7. \A q \in {0, 1, 2, 3} \ {p} : after[q] = ms[q]
    BY <1>2 DEF Player
  <1>8. CountTotalKans(after) = CountTotalKans(ms) - KanCount(ms[p]) + KanCount(m)
    BY <1>2, <1>3, <1>4, <1>5, <1>6, <1>7
  <1>9. OpenMelds(after) = OpenMelds(ms) - (MeldCount(ms[p]) - ms[p].ankan)
                             + (MeldCount(m) - m.ankan)
    <2> DEFINE Open(r) == MeldCount(r) - r.ankan
    <2>1. /\ OpenMelds(ms) = Open(ms[0]) + Open(ms[1]) + Open(ms[2]) + Open(ms[3])
          /\ OpenMelds(after) = Open(after[0]) + Open(after[1])
                                  + Open(after[2]) + Open(after[3])
      BY <1>1, SumOfPlayers
    <2>2. \A q \in {0, 1, 2, 3} : Open(ms[q]) \in Nat
      BY <1>3
    <2>3. Open(m) \in Nat
      BY <1>4
    <2> HIDE DEF Open
    <2>4. OpenMelds(after) = OpenMelds(ms) - Open(ms[p]) + Open(m)
      BY <1>2, <1>5, <1>7, <2>1, <2>2, <2>3
    <2> QED
      BY <2>4 DEF Open
  <1> QED
    BY <1>1, <1>8, <1>9

\* A new meld adds one to the counts of its kind.
LEMMA OneMoreMeld ==
  ASSUME NEW m \in MeldRecords, NEW kind \in MeldKinds
  PROVE  LET n == [m EXCEPT ![kind] = @ + 1]
         IN /\ n \in MeldRecords
            /\ MeldCount(n) = MeldCount(m) + 1
            /\ KanCount(n) = KanCount(m) + (IF kind \in KanKinds THEN 1 ELSE 0)
            /\ n.ankan = m.ankan + (IF kind = "ankan" THEN 1 ELSE 0)
            /\ kind \in {"minkan"} => ~ IsClosed(n)
            /\ \A k \in MeldKinds : n[k] >= m[k]
  <1> DEFINE n == [m EXCEPT ![kind] = @ + 1]
  <1>1. n \in MeldRecords
    BY DEF MeldRecords
  <1>2. /\ m.chi \in Nat /\ m.pon \in Nat /\ m.minkan \in Nat
        /\ m.ankan \in Nat /\ m.kakan \in Nat
    BY DEF MeldRecords, MeldKinds
  <1>3. \A k \in MeldKinds : n[k] = IF k = kind THEN m[k] + 1 ELSE m[k]
    BY DEF MeldRecords
  <1>4. /\ n.chi = IF kind = "chi" THEN m.chi + 1 ELSE m.chi
        /\ n.pon = IF kind = "pon" THEN m.pon + 1 ELSE m.pon
        /\ n.minkan = IF kind = "minkan" THEN m.minkan + 1 ELSE m.minkan
        /\ n.ankan = IF kind = "ankan" THEN m.ankan + 1 ELSE m.ankan
        /\ n.kakan = IF kind = "kakan" THEN m.kakan + 1 ELSE m.kakan
    BY <1>3 DEF MeldKinds
  <1>5. kind \in {"chi", "pon", "minkan", "ankan", "kakan"}
    BY DEF MeldKinds
  <1> HIDE DEF n
  <1>6. MeldCount(n) = MeldCount(m) + 1
    BY <1>2, <1>4, <1>5 DEF MeldCount
  <1>7. KanCount(n) = KanCount(m) + (IF kind \in KanKinds THEN 1 ELSE 0)
    BY <1>2, <1>4, <1>5 DEF KanCount, KanKinds
  <1>8. n.ankan = m.ankan + (IF kind = "ankan" THEN 1 ELSE 0)
    BY <1>2, <1>4
  <1>9. kind = "minkan" => ~ IsClosed(n)
    BY <1>2, <1>4 DEF IsClosed
  <1>10. \A k \in MeldKinds : n[k] >= m[k]
    BY <1>3 DEF MeldRecords
  <1> QED
    BY <1>1, <1>6, <1>7, <1>8, <1>9, <1>10 DEF n

\* A player with a free meld group gets the meld, and nobody else does.
LEMMA MeldAdded ==
  ASSUME TypeOK, NEW p \in Player, NEW kind \in MeldKinds,
         MeldCount(melds[p]) < MaxMelds,
         NEW after, after = AddMeld(p, kind)
  PROVE  /\ after \in [Player -> MeldRecords]
         /\ MeldCount(after[p]) = MeldCount(melds[p]) + 1
         /\ \A q \in Player \ {p} : after[q] = melds[q]
         /\ CountTotalKans(after) =
              CountTotalKans(melds) + (IF kind \in KanKinds THEN 1 ELSE 0)
         /\ OpenMelds(after) =
              OpenMelds(melds) + (IF kind = "ankan" THEN 0 ELSE 1)
         /\ kind = "minkan" => ~ IsClosed(after[p])
         /\ \A used : HandAfterMeld(p, used) = hand[p] - used
  <1> DEFINE m == melds[p]
             n == [m EXCEPT ![kind] = @ + 1]
  <1>1. melds \in [Player -> MeldRecords] /\ m \in MeldRecords
    BY DEF TypeOK, MeldRecords
  <1>2. after = [melds EXCEPT ![p] = n]
    BY DEF AddMeld
  <1>3. /\ n \in MeldRecords
        /\ MeldCount(n) = MeldCount(m) + 1
        /\ KanCount(n) = KanCount(m) + (IF kind \in KanKinds THEN 1 ELSE 0)
        /\ n.ankan = m.ankan + (IF kind = "ankan" THEN 1 ELSE 0)
        /\ kind = "minkan" => ~ IsClosed(n)
    BY <1>1, OneMoreMeld
  <1> HIDE DEF n
  <1>4. /\ after \in [Player -> MeldRecords]
        /\ CountTotalKans(after) = CountTotalKans(melds) - KanCount(m) + KanCount(n)
        /\ OpenMelds(after) = OpenMelds(melds) - (MeldCount(m) - m.ankan)
                                + (MeldCount(n) - n.ankan)
    <2>1. melds \in [Player -> MeldRecords] /\ p \in Player /\ n \in MeldRecords
      BY <1>1, <1>3
    <2> QED
      BY ONLY <1>2, <2>1, TotalsChange, ZenonT(60)
  <1>5. after[p] = n /\ \A q \in Player \ {p} : after[q] = melds[q]
    BY <1>1, <1>2
  <1>6. /\ MeldCount(m) \in Nat /\ KanCount(m) \in Nat /\ m.ankan \in Nat
        /\ CountTotalKans(melds) \in Nat /\ OpenMelds(melds) \in Nat
    BY <1>1, MeldCountType, TotalsType DEF MeldRecords, MeldKinds
  <1>7. CountTotalKans(after) =
          CountTotalKans(melds) + (IF kind \in KanKinds THEN 1 ELSE 0)
    BY <1>3, <1>4, <1>6
  <1>8. OpenMelds(after) = OpenMelds(melds) + (IF kind = "ankan" THEN 0 ELSE 1)
    BY <1>3, <1>4, <1>6
  <1>9. \A used : HandAfterMeld(p, used) = hand[p] - used
    BY DEF HandAfterMeld
  <1> QED
    BY <1>3, <1>4, <1>5, <1>7, <1>8, <1>9

\* A kakan turns a pon into a kan: one kan more, as many melds.
LEMMA PonUpgraded ==
  ASSUME TypeOK, Kakan
  PROVE  /\ \A q \in Player : MeldCount(melds'[q]) = MeldCount(melds[q])
         /\ CountTotalKans(melds') = CountTotalKans(melds) + 1
         /\ OpenMelds(melds') = OpenMelds(melds)
         /\ melds'[current_player].kakan > 0
  <1> DEFINE p == current_player
             m == melds[p]
             n == [m EXCEPT !["pon"] = @ - 1, !["kakan"] = @ + 1]
  <1>1. /\ p \in Player /\ melds \in [Player -> MeldRecords] /\ m \in MeldRecords
    BY DEF TypeOK, MeldRecords
  <1>2. melds' = [melds EXCEPT ![p] = n]
    BY <1>1 DEF Kakan
  <1>3. m.pon > 0
    BY DEF Kakan
  <1>4. /\ m.chi \in Nat /\ m.pon \in Nat /\ m.minkan \in Nat
        /\ m.ankan \in Nat /\ m.kakan \in Nat
    BY <1>1 DEF MeldRecords, MeldKinds
  <1>5. /\ n.chi = m.chi /\ n.pon = m.pon - 1 /\ n.minkan = m.minkan
        /\ n.ankan = m.ankan /\ n.kakan = m.kakan + 1
    BY <1>1 DEF MeldRecords, MeldKinds
  <1>6. n \in MeldRecords
    <2>1. m.pon - 1 \in Nat /\ m.kakan + 1 \in Nat
      BY <1>3, <1>4
    <2>2. n = [k \in MeldKinds |-> IF k = "kakan" THEN m.kakan + 1
                                  ELSE IF k = "pon" THEN m.pon - 1 ELSE m[k]]
      BY <1>1 DEF MeldRecords
    <2> QED
      BY <1>1, <2>1, <2>2 DEF MeldRecords
  <1> HIDE DEF n
  <1>7. MeldCount(n) = MeldCount(m) /\ KanCount(n) = KanCount(m) + 1
    BY <1>4, <1>5 DEF MeldCount, KanCount
  <1>8. /\ CountTotalKans(melds') = CountTotalKans(melds) - KanCount(m) + KanCount(n)
        /\ OpenMelds(melds') = OpenMelds(melds) - (MeldCount(m) - m.ankan)
                                 + (MeldCount(n) - n.ankan)
    <2>1. melds \in [Player -> MeldRecords] /\ p \in Player
      BY <1>1
    <2> HIDE DEF m
    <2>2. /\ CountTotalKans(melds')
               = CountTotalKans(melds) - KanCount(melds[p]) + KanCount(n)
          /\ OpenMelds(melds') = OpenMelds(melds) - (MeldCount(melds[p]) - melds[p].ankan)
                                   + (MeldCount(n) - n.ankan)
      BY ONLY <1>2, <1>6, <2>1, TotalsChange, ZenonT(60)
    <2> QED
      BY ONLY <2>2 DEF m
  <1>9. melds'[p] = n /\ \A q \in Player \ {p} : melds'[q] = melds[q]
    BY <1>1, <1>2
  <1>10. /\ MeldCount(m) \in Nat /\ KanCount(m) \in Nat
         /\ CountTotalKans(melds) \in Nat /\ OpenMelds(melds) \in Nat
    BY <1>1, MeldCountType, TotalsType
  <1> QED
    BY <1>4, <1>5, <1>7, <1>8, <1>9, <1>10

-----------------------------------------------------------------------------
(* What the accounts say of a state                                         *)

\* Only the last four tiles of the dead wall replace kan tiles.
LEMMA LiveWall ==
  ASSUME TypeOK, KanSupply
  PROVE  LiveWallRemaining = LiveTiles - wall_pos - dead_wall_draw_count
  BY LiveTilesAssumption
  DEF TypeOK, KanSupply, LiveWallRemaining, LiveWallEnd, RINSHAN_TILE_COUNT

\* A player with three tiles besides the one owed has a free meld group.
LEMMA RoomForAMeld ==
  ASSUME TypeOK, HandsBalanced, phase # "ROUND_END", NEW p \in Player,
         hand[p] >= (IF HoldsExtraTile(p) THEN 4 ELSE 3)
  PROVE  MeldCount(melds[p]) < MaxMelds
  <1>1. MeldCount(melds[p]) \in Nat /\ hand[p] \in Int
    BY MeldCountType DEF TypeOK, MeldRecords
  <1>2. hand[p] + 3 * MeldCount(melds[p]) =
          3 * MaxMelds + 1 + (IF HoldsExtraTile(p) THEN 1 ELSE 0)
    BY DEF HandsBalanced, HandTiles
  <1> QED
    BY <1>1, <1>2, MaxMeldsAssumption

\* The open melds of four players fit into their meld groups.
LEMMA OpenMeldsFit ==
  ASSUME TypeOK, MeldLimit
  PROVE  OpenMelds(melds) <= 4 * MaxMelds
  <1>1. melds \in [Player -> MeldRecords]
    BY DEF TypeOK, MeldRecords
  <1>2. \A p \in Player : /\ MeldCount(melds[p]) - melds[p].ankan \in Int
                          /\ MeldCount(melds[p]) - melds[p].ankan <= MaxMelds
    <2> TAKE p \in Player
    <2>1. MeldCount(melds[p]) \in Nat /\ melds[p].ankan \in Nat
      BY <1>1, MeldCountType DEF MeldRecords, MeldKinds
    <2> QED
      BY <2>1, MaxMeldsAssumption DEF MeldLimit
  <1>3. 0 \in Player /\ 1 \in Player /\ 2 \in Player /\ 3 \in Player
    BY DEF Player
  <1> QED
    BY <1>1, <1>2, <1>3, SumOfPlayers, MaxMeldsAssumption

\* The number of recorded discards is a natural number.
LEMMA DiscardSumType ==
  ASSUME TypeOK
  PROVE  Sum(discards) \in Nat
  <1>1. \A p \in {0, 1, 2, 3} : discards[p] \in Nat
    BY DEF TypeOK, Player
  <1> QED
    BY <1>1 DEF Sum

\* The history has room for the discard that is owed, which counts one more
\* and leaves the hand.
LEMMA DiscardRecorded ==
  ASSUME TypeOK, Accounts, phase \in {"DRAW", "AFTER_CALL"}, RecordDiscard
  PROVE  /\ Sum(discards') = Sum(discards) + 1
         /\ hand' = [hand EXCEPT ![current_player] = @ - 1]
  <1>1. /\ discards \in [Player -> Nat] /\ current_player \in Player
        /\ wall_pos \in Nat /\ dead_wall_draw_count \in Nat
    BY DEF TypeOK
  <1>2. \A p \in {0, 1, 2, 3} : discards[p] \in Nat
    BY <1>1 DEF Player
  <1>3. Sum(discards) \in Nat
    BY DiscardSumType
  <1>4. Sum(discards) + 1 = 1 + wall_pos + OpenMelds(melds)
    BY DEF Accounts, DiscardBudget, OpenMelds
  <1>5. OpenMelds(melds) \in Nat /\ OpenMelds(melds) <= 4 * MaxMelds
    BY TotalsType, OpenMeldsFit DEF TypeOK, MeldRecords, Accounts
  <1>6. wall_pos <= LiveTiles
    BY <1>1, LiveTilesAssumption DEF Accounts, KanSupply
  <1>7. Sum(discards) < MaxDiscards
    BY <1>1, <1>3, <1>4, <1>5, <1>6, MaxDiscardsAssumption, LiveTilesAssumption,
       MaxMeldsAssumption
  <1>8. /\ discards' = [discards EXCEPT ![current_player] = @ + 1]
        /\ hand' = [hand EXCEPT ![current_player] = @ - 1]
    BY <1>7 DEF RecordDiscard
  <1>9. \A p \in {0, 1, 2, 3} :
          discards'[p] = IF p = current_player THEN discards[p] + 1 ELSE discards[p]
    BY <1>1, <1>8 DEF Player
  <1>10. current_player \in {0, 1, 2, 3}
    BY <1>1 DEF Player
  <1>11. Sum(discards') = Sum(discards) + 1
    BY <1>2, <1>9, <1>10 DEF Sum
  <1> QED
    BY <1>8, <1>11

\* While the round goes on there are at most five indicators: revealing the
\* delayed ones loses none.
LEMMA AllRevealed ==
  ASSUME TypeOK, Accounts, phase # "ROUND_END"
  PROVE  RevealedDora = 1 + dead_wall_draw_count
  <1>1. /\ dora_count \in Nat /\ pending_kan_dora_count \in Nat
        /\ dead_wall_draw_count \in Nat
    BY DEF TypeOK, MAX_DORA
  <1>2. /\ dora_count + pending_kan_dora_count = 1 + dead_wall_draw_count
        /\ dead_wall_draw_count <= 4
    BY DEF Accounts, NoKanDoraLost, KanSupply, RINSHAN_TILE_COUNT
  <1> QED
    BY <1>1, <1>2 DEF RevealedDora, MAX_DORA

-----------------------------------------------------------------------------
(* Every transition keeps the accounts                                      *)

\* A round that ends need only respect the meld groups and the walls.
LEMMA AccountsAtEnd ==
  ASSUME Accounts, phase' = "ROUND_END", MeldLimit',
         UNCHANGED <<wall_pos, dead_wall_draw_count>>,
         pending_kan_dora_count' = 0
  PROVE  Accounts'
  BY DEF Accounts, HandsBalanced, DeclaredKan, DiscardBudget, KanSupply,
         NoKanDoraLost, DelayedDoraIsOpen, RINSHAN_TILE_COUNT

\* A round is dealt with balanced accounts.
LEMMA AccountsInit == Init => Accounts
  <1> SUFFICES ASSUME Init PROVE Accounts
    OBVIOUS
  <1>1. /\ phase = "DRAW" /\ current_player = Dealer /\ Dealer \in Player
        /\ hand = [p \in Player |-> IF p = Dealer THEN HandTiles + 1 ELSE HandTiles]
        /\ melds = [p \in Player |-> [k \in MeldKinds |-> 0]]
        /\ discards = [p \in Player |-> 0]
        /\ wall_pos = 0 /\ dead_wall_draw_count = 0
        /\ dora_count = 1 /\ pending_kan_dora_count = 0
    BY DealerAssumption DEF Init
  <1>2. melds \in [Player -> MeldRecords]
    BY <1>1 DEF MeldRecords
  <1>3. \A p \in Player : /\ MeldCount(melds[p]) = 0 /\ KanCount(melds[p]) = 0
                          /\ melds[p].ankan = 0
    BY <1>1 DEF MeldCount, KanCount, MeldKinds
  <1>4. 0 \in Player /\ 1 \in Player /\ 2 \in Player /\ 3 \in Player
    BY DEF Player
  <1>5. CountTotalKans(melds) = 0 /\ OpenMelds(melds) = 0
    BY <1>2, <1>3, <1>4, SumOfPlayers
  <1>6. Sum(discards) = 0
    BY <1>1, <1>4 DEF Sum
  <1>7. HandTiles \in Int
    BY MaxMeldsAssumption DEF HandTiles
  <1>8. HandsBalanced
    BY <1>1, <1>3, <1>7 DEF HandsBalanced, HoldsExtraTile
  <1>9. MeldLimit
    BY <1>3, MaxMeldsAssumption DEF MeldLimit
  <1>10. DiscardBudget
    BY <1>1, <1>5, <1>6 DEF DiscardBudget, OpenMelds
  <1>11. KanSupply
    BY <1>1, <1>5, LiveTilesAssumption DEF KanSupply, RINSHAN_TILE_COUNT
  <1>12. DeclaredKan /\ NoKanDoraLost /\ DelayedDoraIsOpen
    BY <1>1 DEF DeclaredKan, NoKanDoraLost, DelayedDoraIsOpen
  <1> QED
    BY <1>8, <1>9, <1>10, <1>11, <1>12 DEF Accounts

\* A discard, with or without a riichi, once the indicators are all shown.
LEMMA AccountsOfDiscard ==
  ASSUME TypeOK, Accounts, phase \in {"DRAW", "AFTER_CALL"}, RecordDiscard,
         phase' = "DISCARD",
         UNCHANGED <<current_player, melds, wall_pos, dead_wall_draw_count>>,
         dora_count' = 1 + dead_wall_draw_count, pending_kan_dora_count' = 0
  PROVE  Accounts'
  <1>1. /\ current_player \in Player /\ hand \in [Player -> Int]
        /\ wall_pos \in Nat /\ dead_wall_draw_count \in Nat
    BY DEF TypeOK
  <1>2. /\ Sum(discards') = Sum(discards) + 1
        /\ hand' = [hand EXCEPT ![current_player] = @ - 1]
    BY DiscardRecorded
  <1>3. HandsBalanced'
    <2> SUFFICES ASSUME NEW p \in Player
                 PROVE  hand'[p] + 3 * MeldCount(melds'[p]) = HandTiles + 0
      BY DEF HandsBalanced, HoldsExtraTile, HandTiles
    <2>1. hand[p] + 3 * MeldCount(melds[p]) =
            HandTiles + (IF p = current_player THEN 1 ELSE 0)
      BY DEF Accounts, HandsBalanced, HoldsExtraTile
    <2>2. hand'[p] = IF p = current_player THEN hand[p] - 1 ELSE hand[p]
      BY <1>1, <1>2
    <2>3. hand[p] \in Int /\ MeldCount(melds[p]) \in Nat /\ HandTiles \in Int
      BY <1>1, MeldCountType, MaxMeldsAssumption DEF TypeOK, MeldRecords, HandTiles
    <2> QED
      BY <2>1, <2>2, <2>3
  <1>4. DiscardBudget'
    <2>1. Sum(discards) + 1 = 1 + wall_pos + OpenMelds(melds)
      BY DEF Accounts, DiscardBudget, OpenMelds
    <2>2. Sum(discards') + 0 = 1 + wall_pos' + OpenMelds(melds')
      BY <1>2, <2>1, <1>1, TotalsType DEF TypeOK, MeldRecords
    <2> QED
      BY <2>2 DEF DiscardBudget, OpenMelds
  <1>5. KanSupply'
    BY DEF Accounts, KanSupply, RINSHAN_TILE_COUNT
  <1>6. MeldLimit' /\ DeclaredKan' /\ NoKanDoraLost' /\ DelayedDoraIsOpen'
    BY <1>1 DEF Accounts, MeldLimit, DeclaredKan, NoKanDoraLost, DelayedDoraIsOpen
  <1> QED
    BY <1>3, <1>4, <1>5, <1>6 DEF Accounts

\* A discard keeps the accounts: it reveals what was delayed.
LEMMA AccountsDiscard ==
  ASSUME TypeOK, Accounts, Discard
  PROVE  Accounts'
  <1>1. /\ phase \in {"DRAW", "AFTER_CALL"} /\ RecordDiscard /\ phase' = "DISCARD"
        /\ UNCHANGED <<current_player, melds, wall_pos, dead_wall_draw_count>>
        /\ dora_count' = RevealedDora /\ pending_kan_dora_count' = 0
    BY DEF Discard, CanDiscard, OfferDiscard, RevealPendingKanDora, wallVars
  <1>2. dora_count' = 1 + dead_wall_draw_count
    BY <1>1, AllRevealed
  <1> QED
    BY <1>1, <1>2, AccountsOfDiscard

\* A riichi keeps the accounts: with a closed hand nothing is delayed.
LEMMA AccountsRiichi ==
  ASSUME TypeOK, Accounts, Riichi
  PROVE  Accounts'
  <1>1. /\ phase = "DRAW" /\ RecordDiscard /\ phase' = "DISCARD"
        /\ IsClosed(melds[current_player])
        /\ UNCHANGED <<current_player, melds, wall_pos, dead_wall_draw_count>>
        /\ UNCHANGED <<dora_count, pending_kan_dora_count>>
    BY DEF Riichi, OfferDiscard, wallVars, doraVars
  <1>2. pending_kan_dora_count = 0
    BY <1>1 DEF Accounts, DelayedDoraIsOpen, TypeOK, MAX_DORA
  <1>3. dora_count = 1 + dead_wall_draw_count
    BY <1>1, <1>2 DEF Accounts, NoKanDoraLost, TypeOK, MAX_DORA
  <1> QED
    BY <1>1, <1>2, <1>3, AccountsOfDiscard

\* A tsumo keeps the accounts.
LEMMA AccountsTsumo ==
  ASSUME TypeOK, Accounts, Tsumo
  PROVE  Accounts'
  <1>1. /\ phase' = "ROUND_END" /\ pending_kan_dora_count' = 0
        /\ UNCHANGED <<melds, wall_pos, dead_wall_draw_count>>
    BY DEF Tsumo, wallVars, tileVars
  <1> QED
    BY <1>1, AccountsAtEnd DEF Accounts, MeldLimit

\* The abort on nine terminals keeps the accounts.
LEMMA AccountsKyuushu ==
  ASSUME TypeOK, Accounts, KyuushuKyuuhai
  PROVE  Accounts'
  <1>1. /\ phase' = "ROUND_END" /\ pending_kan_dora_count' = 0
        /\ UNCHANGED <<melds, wall_pos, dead_wall_draw_count>>
    BY DEF KyuushuKyuuhai, FinishAbortiveDraw, FinishDrawRound, wallVars, tileVars
  <1> QED
    BY <1>1, AccountsAtEnd DEF Accounts, MeldLimit

\* A ron keeps the accounts.
LEMMA AccountsRon ==
  ASSUME TypeOK, Accounts, NEW claimants, Ron(claimants)
  PROVE  Accounts'
  <1>1. /\ phase' = "ROUND_END" /\ pending_kan_dora_count' = 0
        /\ UNCHANGED <<melds, wall_pos, dead_wall_draw_count>>
    BY DEF Ron, FinishAbortiveDraw, FinishDrawRound, FinishMultiRon, wallVars,
           tileVars
  <1> QED
    BY <1>1, AccountsAtEnd DEF Accounts, MeldLimit

\* A pass that ends the round keeps the accounts.
LEMMA AccountsPassIntoEnd ==
  ASSUME TypeOK, Accounts, PassIntoAbort \/ PassIntoExhaustiveDraw
  PROVE  Accounts'
  <1>1. /\ phase' = "ROUND_END" /\ pending_kan_dora_count' = 0
        /\ UNCHANGED <<melds, wall_pos, dead_wall_draw_count>>
    BY DEF PassIntoAbort, PassIntoExhaustiveDraw, PassReactions,
           FinishAbortiveDraw, FinishDrawRound
  <1> QED
    BY <1>1, AccountsAtEnd DEF Accounts, MeldLimit

\* A pass into the next turn keeps the accounts: the next player draws one
\* of the live tiles that are left.
LEMMA AccountsPassIntoNextTurn ==
  ASSUME TypeOK, Accounts, PassIntoNextTurn
  PROVE  Accounts'
  <1> DEFINE next == NextPlayer(current_player)
  <1>1. /\ phase = "DISCARD" /\ phase' = "DRAW" /\ LiveWallRemaining > 0
        /\ current_player' = next /\ wall_pos' = wall_pos + 1
        /\ hand' = [hand EXCEPT ![next] = @ + 1]
        /\ UNCHANGED <<dead_wall_draw_count, dora_count, melds, discards,
                       pending_kan_dora_count, rules>>
    BY DEF PassIntoNextTurn, PassReactions
  <1>2. /\ next \in Player /\ hand \in [Player -> Int] /\ dora_count \in Nat
        /\ wall_pos \in Nat /\ dead_wall_draw_count \in Nat
        /\ pending_kan_dora_count \in Nat
    BY NextPlayerType DEF TypeOK, MAX_DORA
  <1>3. HandsBalanced'
    <2> SUFFICES ASSUME NEW p \in Player
                 PROVE  hand'[p] + 3 * MeldCount(melds'[p]) =
                          HandTiles + (IF p = next THEN 1 ELSE 0)
      BY <1>1 DEF HandsBalanced, HoldsExtraTile, HandTiles
    <2>1. hand[p] + 3 * MeldCount(melds[p]) = HandTiles + 0
      BY <1>1 DEF Accounts, HandsBalanced, HoldsExtraTile
    <2>2. hand'[p] = IF p = next THEN hand[p] + 1 ELSE hand[p]
      BY <1>1, <1>2
    <2>3. hand[p] \in Int /\ MeldCount(melds[p]) \in Nat /\ HandTiles \in Int
      BY <1>2, MeldCountType, MaxMeldsAssumption DEF TypeOK, MeldRecords, HandTiles
    <2> QED
      BY <1>1, <2>1, <2>2, <2>3
  <1>4. DiscardBudget'
    <2>1. Sum(discards) + 0 = 1 + wall_pos + OpenMelds(melds)
      BY <1>1 DEF Accounts, DiscardBudget, OpenMelds
    <2>2. OpenMelds(melds) \in Nat /\ Sum(discards) \in Nat
      BY TotalsType, DiscardSumType DEF TypeOK, MeldRecords
    <2>3. Sum(discards') + 1 = 1 + wall_pos' + OpenMelds(melds')
      BY <1>1, <1>2, <2>1, <2>2
    <2> QED
      BY <1>1, <2>3 DEF DiscardBudget, OpenMelds
  <1>5. KanSupply'
    <2>1. LiveWallRemaining = LiveTiles - wall_pos - dead_wall_draw_count
      BY LiveWall DEF Accounts
    <2>2. wall_pos' + dead_wall_draw_count' <= LiveTiles
      BY <1>1, <1>2, <2>1, LiveTilesAssumption
    <2>3. /\ dead_wall_draw_count <= RINSHAN_TILE_COUNT
          /\ CountTotalKans(melds) = dead_wall_draw_count + 0
      BY <1>1 DEF Accounts, KanSupply
    <2> QED
      BY <1>1, <2>2, <2>3 DEF KanSupply, RINSHAN_TILE_COUNT
  <1>6. pending_kan_dora_count = 0
    BY <1>1, <1>2 DEF Accounts, NoKanDoraLost
  <1>7. MeldLimit' /\ DeclaredKan' /\ NoKanDoraLost' /\ DelayedDoraIsOpen'
    BY <1>1, <1>2, <1>6
    DEF Accounts, MeldLimit, DeclaredKan, NoKanDoraLost, DelayedDoraIsOpen
  <1> QED
    BY <1>3, <1>4, <1>5, <1>7 DEF Accounts

\* Chi and pon keep the accounts: two tiles of the hand and the discard
\* become a meld, and the caller owes a discard.
LEMMA AccountsChiOrPon ==
  ASSUME TypeOK, Accounts, NEW p \in Player, NEW kind \in {"chi", "pon"},
         ChiOrPon(p, kind)
  PROVE  Accounts'
  <1>1. /\ phase = "DISCARD" /\ MeldCount(melds[p]) < MaxMelds
        /\ phase' = "AFTER_CALL" /\ current_player' = p
        /\ melds' = AddMeld(p, kind)
        /\ hand' = [hand EXCEPT ![p] = HandAfterMeld(p, 2)]
        /\ UNCHANGED <<wall_pos, dead_wall_draw_count, dora_count,
                       pending_kan_dora_count, discards, rules>>
    BY DEF ChiOrPon, CanChiOrPon, CanClaimDiscard, FinishOpenCall, wallVars, doraVars
  <1>2. /\ hand \in [Player -> Int] /\ dora_count \in Nat
        /\ wall_pos \in Nat /\ dead_wall_draw_count \in Nat
        /\ pending_kan_dora_count \in Nat
        /\ melds \in [Player -> MeldRecords]
    BY DEF TypeOK, MAX_DORA, MeldRecords
  <1>3. /\ MeldCount(melds'[p]) = MeldCount(melds[p]) + 1
        /\ \A q \in Player \ {p} : melds'[q] = melds[q]
        /\ CountTotalKans(melds') = CountTotalKans(melds) + 0
        /\ OpenMelds(melds') = OpenMelds(melds) + 1
        /\ HandAfterMeld(p, 2) = hand[p] - 2
    BY <1>1, MeldAdded DEF MeldKinds, KanKinds
  <1>4. HandsBalanced'
    <2> SUFFICES ASSUME NEW q \in Player
                 PROVE  hand'[q] + 3 * MeldCount(melds'[q]) =
                          HandTiles + (IF q = p THEN 1 ELSE 0)
      BY <1>1 DEF HandsBalanced, HoldsExtraTile, HandTiles
    <2>1. hand[q] + 3 * MeldCount(melds[q]) = HandTiles + 0
      BY <1>1 DEF Accounts, HandsBalanced, HoldsExtraTile
    <2>2. hand'[q] = IF q = p THEN hand[q] - 2 ELSE hand[q]
      BY <1>1, <1>2, <1>3
    <2>3. MeldCount(melds'[q]) = MeldCount(melds[q]) + (IF q = p THEN 1 ELSE 0)
      BY <1>2, <1>3, MeldCountType
    <2>4. hand[q] \in Int /\ MeldCount(melds[q]) \in Nat /\ HandTiles \in Int
      BY <1>2, MeldCountType, MaxMeldsAssumption DEF HandTiles
    <2> QED
      BY <2>1, <2>2, <2>3, <2>4
  <1>5. DiscardBudget'
    <2>1. Sum(discards) + 0 = 1 + wall_pos + OpenMelds(melds)
      BY <1>1 DEF Accounts, DiscardBudget, OpenMelds
    <2>2. OpenMelds(melds) \in Nat
      BY <1>2, TotalsType
    <2>3. Sum(discards') + 1 = 1 + wall_pos' + OpenMelds(melds')
      BY <1>1, <1>2, <1>3, <2>1, <2>2, DiscardSumType
    <2> QED
      BY <1>1, <2>3 DEF DiscardBudget, OpenMelds
  <1>6. KanSupply'
    <2>1. CountTotalKans(melds) \in Nat
      BY <1>2, TotalsType
    <2> QED
      BY <1>1, <1>2, <1>3, <2>1 DEF Accounts, KanSupply, RINSHAN_TILE_COUNT
  <1>7. MeldLimit'
    <2> SUFFICES ASSUME NEW q \in Player
                 PROVE  MeldCount(melds'[q]) <= MaxMelds
      BY DEF MeldLimit
    <2>1. MeldCount(melds[q]) \in Nat /\ MeldCount(melds[q]) <= MaxMelds
      BY <1>2, MeldCountType DEF Accounts, MeldLimit
    <2> QED
      BY <1>1, <1>3, <2>1, MaxMeldsAssumption
  <1>8. pending_kan_dora_count = 0
    BY <1>1, <1>2 DEF Accounts, NoKanDoraLost
  <1>9. DeclaredKan' /\ NoKanDoraLost' /\ DelayedDoraIsOpen'
    BY <1>1, <1>2, <1>8
    DEF Accounts, DeclaredKan, NoKanDoraLost, DelayedDoraIsOpen
  <1> QED
    BY <1>4, <1>5, <1>6, <1>7, <1>9 DEF Accounts

\* What admits one more kan while fewer than four are made: a rinshan tile
\* and a live tile to take its place.
LEMMA KanAdmitted ==
  ASSUME TypeOK, Accounts, phase \notin {"ROUND_END", "KAKAN_RESOLVE"},
         CanDeclareMoreKans, CountTotalKans(melds) # 4
  PROVE  /\ CountTotalKans(melds) = dead_wall_draw_count
         /\ dead_wall_draw_count \in 0 .. 3
         /\ LiveWallRemaining > 0
         /\ wall_pos + dead_wall_draw_count + 1 <= LiveTiles
  <1>1. /\ CountTotalKans(melds) = dead_wall_draw_count + 0
        /\ KanSupply
    BY DEF Accounts, KanSupply
  <1>2. /\ dead_wall_draw_count < RINSHAN_TILE_COUNT /\ LiveWallRemaining > 0
    BY DEF CanDeclareMoreKans
  <1>3. wall_pos \in Nat /\ dead_wall_draw_count \in Nat
    BY DEF TypeOK
  <1> QED
    BY <1>1, <1>2, <1>3, LiveWall, LiveTilesAssumption DEF RINSHAN_TILE_COUNT

\* The indicator of an open kan is shown or delayed, never lost.
LEMMA IndicatorOfOpenKan ==
  ASSUME TypeOK, Accounts, phase \in {"DISCARD", "KAKAN_RESOLVE"},
         dead_wall_draw_count \in 0 .. 3, KanDoraByTiming,
         dead_wall_draw_count' = dead_wall_draw_count + 1,
         phase' = "DRAW", UNCHANGED rules
  PROVE  NoKanDoraLost'
  <1>1. dora_count = 1 + dead_wall_draw_count /\ pending_kan_dora_count = 0
    BY DEF Accounts, NoKanDoraLost, TypeOK, MAX_DORA
  <1>2. CASE rules.kan_dora_timing = "EARLY"
    <2>1. dora_count' = dora_count + 1 /\ pending_kan_dora_count' = 0
      BY <1>1, <1>2 DEF KanDoraByTiming, AddDoraIndicator, MAX_DORA
    <2> QED
      BY <1>1, <2>1 DEF NoKanDoraLost
  <1>3. CASE rules.kan_dora_timing = "LATE"
    <2>1. dora_count' = dora_count /\ pending_kan_dora_count' = 1
      BY <1>1, <1>3 DEF KanDoraByTiming, AddPendingKanDora, MAX_DORA
    <2> QED
      BY <1>1, <1>3, <2>1 DEF NoKanDoraLost
  <1> QED
    BY <1>2, <1>3 DEF KanDoraByTiming

\* A minkan keeps the accounts: three tiles of the hand and the discard
\* become a meld and a rinshan tile is drawn, unless the round is aborted.
LEMMA AccountsMinkan ==
  ASSUME TypeOK, Accounts, NEW p \in Player, Minkan(p)
  PROVE  Accounts'
  <1>1. /\ phase = "DISCARD" /\ p # current_player /\ hand[p] > 2
        /\ CanDeclareMoreKans
        /\ melds' = AddMeld(p, "minkan") /\ current_player' = p
        /\ UNCHANGED <<rules, wall_pos, discards>>
    BY DEF Minkan, CanMinkan, CanClaimDiscard, FinishOpenCall
  <1>2. /\ hand \in [Player -> Int] /\ dora_count \in Nat
        /\ wall_pos \in Nat /\ dead_wall_draw_count \in Nat
        /\ melds \in [Player -> MeldRecords]
    BY DEF TypeOK, MAX_DORA, MeldRecords
  <1>3. MeldCount(melds[p]) < MaxMelds
    BY <1>1, <1>2, RoomForAMeld DEF Accounts, HoldsExtraTile
  <1>4. /\ MeldCount(melds'[p]) = MeldCount(melds[p]) + 1
        /\ \A q \in Player \ {p} : melds'[q] = melds[q]
        /\ CountTotalKans(melds') = CountTotalKans(melds) + 1
        /\ OpenMelds(melds') = OpenMelds(melds) + 1
        /\ ~ IsClosed(melds'[p])
        /\ HandAfterMeld(p, 3) = hand[p] - 3
    BY <1>1, <1>3, MeldAdded DEF MeldKinds, KanKinds
  <1>5. MeldLimit'
    <2> SUFFICES ASSUME NEW q \in Player
                 PROVE  MeldCount(melds'[q]) <= MaxMelds
      BY DEF MeldLimit
    <2>1. MeldCount(melds[q]) \in Nat /\ MeldCount(melds[q]) <= MaxMelds
      BY <1>2, MeldCountType DEF Accounts, MeldLimit
    <2> QED
      BY <1>3, <1>4, <2>1, MaxMeldsAssumption
  <1>6. CASE ShouldAbortOnFourKans(AddMeld(p, "minkan"))
    <2>1. /\ phase' = "ROUND_END" /\ pending_kan_dora_count' = 0
          /\ UNCHANGED dead_wall_draw_count
      BY <1>6 DEF Minkan, FinishAbortiveDraw, FinishDrawRound
    <2> QED
      BY <1>1, <1>5, <2>1, AccountsAtEnd
  <1>7. CASE ~ ShouldAbortOnFourKans(AddMeld(p, "minkan"))
    <2>1. /\ phase' = "DRAW" /\ hand' = [hand EXCEPT ![p] = HandAfterMeld(p, 3) + 1]
          /\ dead_wall_draw_count' = dead_wall_draw_count + 1
          /\ KanDoraByTiming
      BY <1>7 DEF Minkan
    <2>2. CountTotalKans(melds) \in Nat /\ OpenMelds(melds) \in Nat
      BY <1>2, TotalsType
    <2>3. CountTotalKans(melds) # 4
      BY <1>1, <1>4, <1>7, <2>2 DEF ShouldAbortOnFourKans
    <2>4. /\ CountTotalKans(melds) = dead_wall_draw_count
          /\ dead_wall_draw_count \in 0 .. 3
          /\ wall_pos + dead_wall_draw_count + 1 <= LiveTiles
      BY <1>1, <2>3, KanAdmitted
    <2>5. HandsBalanced'
      <3> SUFFICES ASSUME NEW q \in Player
                   PROVE  hand'[q] + 3 * MeldCount(melds'[q]) =
                            HandTiles + (IF q = p THEN 1 ELSE 0)
        BY <1>1, <2>1 DEF HandsBalanced, HoldsExtraTile, HandTiles
      <3>1. hand[q] + 3 * MeldCount(melds[q]) = HandTiles + 0
        BY <1>1 DEF Accounts, HandsBalanced, HoldsExtraTile
      <3>2. hand'[q] = IF q = p THEN hand[q] - 3 + 1 ELSE hand[q]
        BY <1>2, <1>4, <2>1
      <3>3. MeldCount(melds'[q]) = MeldCount(melds[q]) + (IF q = p THEN 1 ELSE 0)
        BY <1>2, <1>4, MeldCountType
      <3>4. hand[q] \in Int /\ MeldCount(melds[q]) \in Nat /\ HandTiles \in Int
        BY <1>2, MeldCountType, MaxMeldsAssumption DEF HandTiles
      <3> QED
        BY <3>1, <3>2, <3>3, <3>4
    <2>6. DiscardBudget'
      <3>1. Sum(discards) + 0 = 1 + wall_pos + OpenMelds(melds)
        BY <1>1 DEF Accounts, DiscardBudget, OpenMelds
      <3>2. Sum(discards') + 1 = 1 + wall_pos' + OpenMelds(melds')
        BY <1>1, <1>2, <1>4, <2>2, <3>1, DiscardSumType
      <3> QED
        BY <2>1, <3>2 DEF DiscardBudget, OpenMelds
    <2>7. KanSupply'
      BY <1>1, <1>2, <1>4, <2>1, <2>2, <2>4, LiveTilesAssumption
      DEF KanSupply, RINSHAN_TILE_COUNT
    <2>8. NoKanDoraLost'
      BY <1>1, <2>1, <2>4, IndicatorOfOpenKan
    <2>9. DeclaredKan' /\ DelayedDoraIsOpen'
      BY <1>1, <1>4, <2>1 DEF DeclaredKan, DelayedDoraIsOpen
    <2> QED
      BY <1>5, <2>5, <2>6, <2>7, <2>8, <2>9 DEF Accounts
  <1> QED
    BY <1>6, <1>7

\* An ankan keeps the accounts: it is declared, and takes nothing from the
\* hand before it is resolved, or it is the fifth kan and ends the round.
LEMMA AccountsAnkan ==
  ASSUME TypeOK, Accounts, Ankan
  PROVE  Accounts'
  <1>1. /\ phase = "DRAW" /\ hand[current_player] >= 4 /\ CanDeclareMoreKans
        /\ UNCHANGED <<rules, current_player, wall_pos, dead_wall_draw_count,
                       discards>>
    BY DEF Ankan, wallVars
  <1>2. /\ current_player \in Player /\ wall_pos \in Nat
        /\ dead_wall_draw_count \in Nat /\ melds \in [Player -> MeldRecords]
    BY DEF TypeOK, MeldRecords
  <1>3. CASE CountTotalKans(melds) # 4
    <2>1. /\ phase' = "ANKAN_RESOLVE" /\ pending_kan' = "ANKAN"
          /\ dora_count' = RevealedDora /\ pending_kan_dora_count' = 0
          /\ UNCHANGED <<hand, melds>>
      BY <1>3 DEF Ankan, RevealPendingKanDora
    <2>2. /\ CountTotalKans(melds) = dead_wall_draw_count
          /\ dead_wall_draw_count \in 0 .. 3
          /\ wall_pos + dead_wall_draw_count + 1 <= LiveTiles
          /\ LiveWallRemaining > 0
      BY <1>1, <1>3, KanAdmitted
    <2>3. LiveWallRemaining' = LiveWallRemaining
      BY <1>1 DEF LiveWallRemaining, LiveWallEnd
    <2>4. KanSupply'
      BY <1>1, <1>2, <2>1, <2>2, <2>3, LiveTilesAssumption
      DEF KanSupply, RINSHAN_TILE_COUNT
    <2>5. dora_count' = 1 + dead_wall_draw_count
      BY <1>1, <2>1, AllRevealed
    <2>6. NoKanDoraLost' /\ DelayedDoraIsOpen'
      BY <1>1, <1>2, <2>1, <2>5 DEF NoKanDoraLost, DelayedDoraIsOpen
    <2>7. HandsBalanced' /\ DiscardBudget'
      BY <1>1, <2>1 DEF Accounts, HandsBalanced, HoldsExtraTile, DiscardBudget
    <2>8. MeldLimit' /\ DeclaredKan'
      BY <1>1, <2>1 DEF Accounts, MeldLimit, DeclaredKan
    <2> QED
      BY <2>4, <2>6, <2>7, <2>8 DEF Accounts
  <1>4. CASE CountTotalKans(melds) = 4
    <2>1. /\ phase' = "ROUND_END" /\ pending_kan_dora_count' = 0
          /\ melds' = AddMeld(current_player, "ankan")
      BY <1>4 DEF Ankan, FinishAbortiveDraw, FinishDrawRound
    <2>2. MeldCount(melds[current_player]) < MaxMelds
      BY <1>1, <1>2, RoomForAMeld DEF Accounts, HoldsExtraTile
    <2>3. /\ MeldCount(melds'[current_player]) = MeldCount(melds[current_player]) + 1
          /\ \A q \in Player \ {current_player} : melds'[q] = melds[q]
      BY <1>2, <2>1, <2>2, MeldAdded DEF MeldKinds
    <2>4. MeldLimit'
      <3> SUFFICES ASSUME NEW q \in Player
                   PROVE  MeldCount(melds'[q]) <= MaxMelds
        BY DEF MeldLimit
      <3>1. MeldCount(melds[q]) \in Nat /\ MeldCount(melds[q]) <= MaxMelds
        BY <1>2, MeldCountType DEF Accounts, MeldLimit
      <3> QED
        BY <1>2, <2>2, <2>3, <3>1, MaxMeldsAssumption
    <2> QED
      BY <1>1, <2>1, <2>4, AccountsAtEnd
  <1> QED
    BY <1>3, <1>4

\* A kakan keeps the accounts: the tile leaves the hand for the meld at once.
LEMMA AccountsKakan ==
  ASSUME TypeOK, Accounts, Kakan
  PROVE  Accounts'
  <1>1. /\ phase = "DRAW" /\ CanDeclareMoreKans
        /\ hand' = [hand EXCEPT ![current_player] = @ - 1]
        /\ dora_count' = RevealedDora
        /\ UNCHANGED <<rules, current_player, wall_pos, dead_wall_draw_count,
                       discards>>
    BY DEF Kakan, wallVars
  <1>2. /\ current_player \in Player /\ hand \in [Player -> Int]
        /\ wall_pos \in Nat /\ dead_wall_draw_count \in Nat
        /\ melds \in [Player -> MeldRecords]
    BY DEF TypeOK, MeldRecords
  <1>3. /\ \A q \in Player : MeldCount(melds'[q]) = MeldCount(melds[q])
        /\ CountTotalKans(melds') = CountTotalKans(melds) + 1
        /\ OpenMelds(melds') = OpenMelds(melds)
        /\ melds'[current_player].kakan > 0
    BY PonUpgraded
  <1>4. MeldLimit'
    BY <1>3 DEF Accounts, MeldLimit
  <1>5. CASE CountTotalKans(melds) # 4
    <2>1. /\ phase' = "KAKAN_RESOLVE" /\ pending_kan' = "KAKAN"
          /\ pending_kan_dora_count' = 0
      BY <1>5 DEF Kakan
    <2>2. /\ CountTotalKans(melds) = dead_wall_draw_count
          /\ dead_wall_draw_count \in 0 .. 3
          /\ wall_pos + dead_wall_draw_count + 1 <= LiveTiles
          /\ LiveWallRemaining > 0
      BY <1>1, <1>5, KanAdmitted
    <2>3. LiveWallRemaining' = LiveWallRemaining
      BY <1>1 DEF LiveWallRemaining, LiveWallEnd
    <2>4. KanSupply'
      BY <1>1, <1>2, <1>3, <2>1, <2>2, <2>3, LiveTilesAssumption
      DEF KanSupply, RINSHAN_TILE_COUNT
    <2>5. dora_count' = 1 + dead_wall_draw_count
      BY <1>1, AllRevealed
    <2>6. NoKanDoraLost' /\ DelayedDoraIsOpen'
      BY <1>1, <1>2, <2>1, <2>5 DEF NoKanDoraLost, DelayedDoraIsOpen
    <2>7. HandsBalanced'
      <3> SUFFICES ASSUME NEW q \in Player
                   PROVE  hand'[q] + 3 * MeldCount(melds'[q]) = HandTiles + 0
        BY <2>1 DEF HandsBalanced, HoldsExtraTile, HandTiles
      <3>1. hand[q] + 3 * MeldCount(melds[q]) =
              HandTiles + (IF q = current_player THEN 1 ELSE 0)
        BY <1>1 DEF Accounts, HandsBalanced, HoldsExtraTile
      <3>2. hand'[q] = IF q = current_player THEN hand[q] - 1 ELSE hand[q]
        BY <1>1, <1>2
      <3>3. hand[q] \in Int /\ MeldCount(melds[q]) \in Nat /\ HandTiles \in Int
        BY <1>2, MeldCountType, MaxMeldsAssumption DEF HandTiles
      <3> QED
        BY <1>3, <3>1, <3>2, <3>3
    <2>8. DiscardBudget'
      BY <1>1, <1>3, <2>1 DEF Accounts, DiscardBudget, OpenMelds
    <2>9. DeclaredKan'
      BY <1>1, <1>3, <2>1 DEF DeclaredKan
    <2> QED
      BY <1>4, <2>4, <2>6, <2>7, <2>8, <2>9 DEF Accounts
  <1>6. CASE CountTotalKans(melds) = 4
    <2>1. phase' = "ROUND_END" /\ pending_kan_dora_count' = 0
      BY <1>6 DEF Kakan, FinishAbortiveDraw, FinishDrawRound
    <2> QED
      BY <1>1, <1>4, <2>1, AccountsAtEnd
  <1> QED
    BY <1>5, <1>6

\* What the resolution of an ankan melds: four tiles of the hand.
LEMMA AnkanMelded ==
  ASSUME TypeOK, Accounts, phase = "ANKAN_RESOLVE", NEW after,
         after = AddMeld(current_player, "ankan")
  PROVE  /\ MeldCount(after[current_player]) = MeldCount(melds[current_player]) + 1
         /\ \A q \in Player \ {current_player} : after[q] = melds[q]
         /\ CountTotalKans(after) = CountTotalKans(melds) + 1
         /\ OpenMelds(after) = OpenMelds(melds) + 0
         /\ hand[current_player] - HandAfterMeld(current_player, 4) = 4
         /\ \A q \in Player : MeldCount(after[q]) <= MaxMelds
  <1>1. /\ current_player \in Player /\ hand \in [Player -> Int]
        /\ melds \in [Player -> MeldRecords]
    BY DEF TypeOK, MeldRecords
  <1>2. MeldCount(melds[current_player]) < MaxMelds
    BY <1>1, RoomForAMeld DEF Accounts, DeclaredKan, HoldsExtraTile
  <1>3. /\ MeldCount(after[current_player]) = MeldCount(melds[current_player]) + 1
        /\ \A q \in Player \ {current_player} : after[q] = melds[q]
        /\ CountTotalKans(after) = CountTotalKans(melds) + 1
        /\ OpenMelds(after) = OpenMelds(melds) + 0
        /\ HandAfterMeld(current_player, 4) = hand[current_player] - 4
    BY <1>1, <1>2, MeldAdded DEF MeldKinds, KanKinds
  <1>4. hand[current_player] \in Int
    BY <1>1
  <1>5. ASSUME NEW q \in Player
        PROVE  MeldCount(after[q]) <= MaxMelds
    <2>1. MeldCount(melds[q]) \in Nat /\ MeldCount(melds[q]) <= MaxMelds
      BY <1>1, MeldCountType DEF Accounts, MeldLimit
    <2> QED
      BY <1>1, <1>2, <1>3, <2>1, MaxMeldsAssumption
  <1> QED
    BY <1>3, <1>4, <1>5

\* The resolution of a kan that nobody robs keeps the accounts.
LEMMA AccountsRinshanDraw ==
  ASSUME TypeOK, Accounts, RinshanDraw
  PROVE  Accounts'
  <1> DEFINE p == current_player
             committed == IF phase = "ANKAN_RESOLVE" THEN AddMeld(p, "ankan") ELSE melds
             used == IF phase = "ANKAN_RESOLVE" THEN hand[p] - HandAfterMeld(p, 4)
                                                ELSE 0
  <1>1. /\ phase \in {"ANKAN_RESOLVE", "KAKAN_RESOLVE"}
        /\ dead_wall_draw_count < RINSHAN_TILE_COUNT /\ LiveWallRemaining > 0
        /\ UNCHANGED <<rules, current_player, wall_pos, discards>>
    BY DEF RinshanDraw
  <1>2. /\ p \in Player /\ hand \in [Player -> Int] /\ wall_pos \in Nat
        /\ dead_wall_draw_count \in Nat /\ melds \in [Player -> MeldRecords]
        /\ dora_count \in Nat /\ pending_kan_dora_count \in Nat
    BY DEF TypeOK, MeldRecords, MAX_DORA
  <1>3. \A q \in Player : MeldCount(melds[q]) <= MaxMelds
    BY DEF Accounts, MeldLimit
  <1>4. /\ \A q \in Player : MeldCount(committed[q]) =
             MeldCount(melds[q])
               + (IF phase = "ANKAN_RESOLVE" /\ q = p THEN 1 ELSE 0)
        /\ CountTotalKans(committed) = CountTotalKans(melds)
             + (IF phase = "ANKAN_RESOLVE" THEN 1 ELSE 0)
        /\ OpenMelds(committed) = OpenMelds(melds) + 0
        /\ used = (IF phase = "ANKAN_RESOLVE" THEN 4 ELSE 0)
        /\ \A q \in Player : MeldCount(committed[q]) <= MaxMelds
    <2>1. /\ \A q \in Player : MeldCount(melds[q]) \in Nat
          /\ CountTotalKans(melds) \in Nat /\ OpenMelds(melds) \in Nat
      BY <1>2, MeldCountType, TotalsType
    <2>2. CASE phase = "ANKAN_RESOLVE"
      BY <1>2, <2>1, <2>2, AnkanMelded
    <2>3. CASE phase # "ANKAN_RESOLVE"
      BY <1>3, <2>1, <2>3
    <2> QED
      BY <2>2, <2>3
  <1>5. CASE ShouldAbortOnFourKans(melds)
    <2>1. /\ phase' = "ROUND_END" /\ pending_kan_dora_count' = 0
          /\ UNCHANGED <<melds, dead_wall_draw_count>>
      BY <1>5 DEF RinshanDraw, FinishAbortiveDraw, FinishDrawRound
    <2>2. MeldLimit'
      BY <1>3, <2>1 DEF MeldLimit
    <2> QED
      BY <1>1, <2>1, <2>2, AccountsAtEnd
  <1>6. CASE ~ ShouldAbortOnFourKans(melds) /\ ShouldAbortOnFourKans(committed)
    <2>1. /\ phase' = "ROUND_END" /\ pending_kan_dora_count' = 0
          /\ melds' = committed /\ UNCHANGED dead_wall_draw_count
      BY <1>6 DEF RinshanDraw, FinishAbortiveDraw, FinishDrawRound
    <2>2. MeldLimit'
      BY <1>4, <2>1 DEF MeldLimit
    <2> QED
      BY <1>1, <2>1, <2>2, AccountsAtEnd
  <1>7. CASE ~ ShouldAbortOnFourKans(melds) /\ ~ ShouldAbortOnFourKans(committed)
    <2>1. /\ phase' = "DRAW" /\ melds' = committed
          /\ hand' = [hand EXCEPT ![p] = @ - used + 1]
          /\ dead_wall_draw_count' = dead_wall_draw_count + 1
          /\ \/ /\ phase = "ANKAN_RESOLVE"
                /\ dora_count' = AddDoraIndicator(dora_count)
                /\ UNCHANGED pending_kan_dora_count
             \/ phase = "KAKAN_RESOLVE" /\ KanDoraByTiming
      BY <1>7 DEF RinshanDraw
    <2> HIDE DEF committed, used
    <2>2. CountTotalKans(melds) \in Nat /\ OpenMelds(melds) \in Nat
      BY <1>2, TotalsType
    <2>3. /\ CountTotalKans(melds) =
               dead_wall_draw_count + (IF phase = "KAKAN_RESOLVE" THEN 1 ELSE 0)
          /\ LiveWallRemaining = LiveTiles - wall_pos - dead_wall_draw_count
          /\ dead_wall_draw_count \in 0 .. 3
      BY <1>1, <1>2, LiveWall DEF Accounts, KanSupply, RINSHAN_TILE_COUNT
    <2>4. KanSupply'
      BY <1>1, <1>2, <1>4, <2>1, <2>2, <2>3, LiveTilesAssumption
      DEF KanSupply, RINSHAN_TILE_COUNT
    <2>5. HandsBalanced'
      <3> SUFFICES ASSUME NEW q \in Player
                   PROVE  hand'[q] + 3 * MeldCount(melds'[q]) =
                            HandTiles + (IF q = p THEN 1 ELSE 0)
        BY <1>1, <2>1 DEF HandsBalanced, HoldsExtraTile, HandTiles
      <3>1. hand[q] + 3 * MeldCount(melds[q]) =
              HandTiles + (IF q = p /\ phase = "ANKAN_RESOLVE" THEN 1 ELSE 0)
        BY <1>1 DEF Accounts, HandsBalanced, HoldsExtraTile
      <3>2. hand'[q] = IF q = p THEN hand[q] - used + 1 ELSE hand[q]
        BY <1>2, <2>1
      <3>3. hand[q] \in Int /\ MeldCount(melds[q]) \in Nat /\ HandTiles \in Int
        BY <1>2, MeldCountType, MaxMeldsAssumption DEF HandTiles
      <3>4. MeldCount(melds'[q]) = MeldCount(melds[q])
              + (IF phase = "ANKAN_RESOLVE" /\ q = p THEN 1 ELSE 0)
        BY <1>4, <2>1
      <3> QED
        BY <1>4, <3>1, <3>2, <3>3, <3>4
    <2>6. DiscardBudget'
      <3>1. Sum(discards) + 1 = 1 + wall_pos + OpenMelds(melds)
        BY <1>1 DEF Accounts, DiscardBudget, OpenMelds
      <3>2. Sum(discards') + 1 = 1 + wall_pos' + OpenMelds(melds')
        BY <1>1, <1>2, <1>4, <2>1, <2>2, <3>1, DiscardSumType
      <3> QED
        BY <2>1, <3>2 DEF DiscardBudget, OpenMelds
    <2>7. dora_count = 1 + dead_wall_draw_count /\ pending_kan_dora_count = 0
      BY <1>1, <1>2 DEF Accounts, NoKanDoraLost
    <2>8. NoKanDoraLost'
      <3>1. CASE phase = "ANKAN_RESOLVE"
        <4>1. dora_count' = dora_count + 1 /\ pending_kan_dora_count' = 0
          BY <2>1, <2>3, <2>7, <3>1 DEF AddDoraIndicator, MAX_DORA
        <4> QED
          BY <1>2, <2>1, <2>7, <4>1 DEF NoKanDoraLost
      <3>2. CASE phase = "KAKAN_RESOLVE"
        BY <1>1, <2>1, <2>3, <3>2, IndicatorOfOpenKan
      <3> QED
        BY <1>1, <3>1, <3>2
    <2>9. DelayedDoraIsOpen'
      <3>1. CASE phase = "ANKAN_RESOLVE"
        BY <2>1, <2>7, <3>1 DEF DelayedDoraIsOpen
      <3>2. CASE phase = "KAKAN_RESOLVE"
        <4>1. melds' = melds /\ melds[p].kakan > 0
          BY <2>1, <3>2 DEF committed, Accounts, DeclaredKan
        <4>2. /\ melds[p].chi \in Nat /\ melds[p].pon \in Nat
              /\ melds[p].minkan \in Nat /\ melds[p].kakan \in Nat
          BY <1>2 DEF MeldRecords, MeldKinds
        <4> QED
          BY <1>1, <4>1, <4>2 DEF DelayedDoraIsOpen, IsClosed
      <3> QED
        BY <1>1, <3>1, <3>2
    <2>10. MeldLimit' /\ DeclaredKan'
      BY <1>4, <2>1 DEF MeldLimit, DeclaredKan
    <2> QED
      BY <2>4, <2>5, <2>6, <2>8, <2>9, <2>10 DEF Accounts
  <1> QED
    BY <1>5, <1>6, <1>7

\* Every step of a round keeps the accounts.
LEMMA AccountsStep ==
  ASSUME TypeOK, Accounts, [Next]_vars
  PROVE  Accounts'
  <1>1. CASE UNCHANGED vars
    <2>1. UNCHANGED <<rules, phase, current_player, hand, melds, discards, wall_pos,
                      dead_wall_draw_count, dora_count, pending_kan_dora_count,
                      pending_kan>>
      BY <1>1 DEF vars, turnVars, wallVars, doraVars, tileVars
    <2> QED
      BY <2>1
      DEF Accounts, HandsBalanced, HoldsExtraTile, MeldLimit, DeclaredKan,
          DiscardBudget, KanSupply, LiveWallRemaining, LiveWallEnd, NoKanDoraLost,
          DelayedDoraIsOpen
  <1>2. ASSUME NEW p \in Player, Pon(p)
        PROVE  Accounts'
    BY <1>2, AccountsChiOrPon DEF Pon
  <1>3. ASSUME Chi
        PROVE  Accounts'
    <2>1. NextPlayer(current_player) \in Player
      BY NextPlayerType DEF TypeOK
    <2> QED
      BY <1>3, <2>1, AccountsChiOrPon DEF Chi
  <1> QED
    BY <1>1, <1>2, <1>3, AccountsDiscard, AccountsRiichi, AccountsTsumo,
       AccountsKyuushu, AccountsAnkan, AccountsKakan, AccountsMinkan, AccountsRon,
       AccountsPassIntoEnd, AccountsPassIntoNextTurn, AccountsRinshanDraw
    DEF Next

\* The accounts are balanced in every round.
THEOREM AccountsBalance == Spec => [](TypeOK /\ Accounts)
  <1>1. Init => TypeOK /\ Accounts
    BY TypeInit, AccountsInit
  <1>2. TypeOK /\ Accounts /\ [Next]_vars => (TypeOK /\ Accounts)'
    BY TypeStep, AccountsStep
  <1> QED
    BY <1>1, <1>2, PTL DEF Spec

\* Hands stay full: no meld is dropped for want of a meld group, and no draw
\* or call leaves a player a tile long or short.
THEOREM HandsAlwaysBalanced == Spec => []HandsBalanced
  BY AccountsBalance, PTL DEF Accounts

\* Every admitted kan finds its rinshan tile and its live tile.
THEOREM KansAlwaysSupplied == Spec => []KanSupply
  BY AccountsBalance, PTL DEF Accounts

\* Every completed kan keeps its indicator, shown or delayed.
THEOREM DoraAlwaysAccounted == Spec => []NoKanDoraLost
  BY AccountsBalance, PTL DEF Accounts

\* Every draw and every open meld is paid for by one recorded discard.
THEOREM DiscardsAlwaysAccounted == Spec => []DiscardBudget
  BY AccountsBalance, PTL DEF Accounts

\* The history has a free entry whenever a discard is owed: the silent
\* return of cj4_state_record_discard (state_ops.c:283) is never taken.
DiscardHistoryHasRoom ==
  phase \in {"DRAW", "AFTER_CALL"} => Sum(discards) < MaxDiscards

\* So it is for every wall and every number of melds, the library's 69 live
\* tiles and 86 entries among them.
THEOREM HistoryNeverFull == Spec => []DiscardHistoryHasRoom
  <1>1. TypeOK /\ Accounts => DiscardHistoryHasRoom
    <2> SUFFICES ASSUME TypeOK, Accounts, phase \in {"DRAW", "AFTER_CALL"}
                 PROVE  Sum(discards) < MaxDiscards
      BY DEF DiscardHistoryHasRoom
    <2>1. /\ Sum(discards) \in Nat /\ wall_pos \in Nat
          /\ dead_wall_draw_count \in Nat
      BY DiscardSumType DEF TypeOK
    <2>2. OpenMelds(melds) \in Nat /\ OpenMelds(melds) <= 4 * MaxMelds
      BY TotalsType, OpenMeldsFit DEF TypeOK, MeldRecords, Accounts
    <2>3. Sum(discards) + 1 = 1 + wall_pos + OpenMelds(melds)
      BY DEF Accounts, DiscardBudget, OpenMelds
    <2>4. wall_pos + dead_wall_draw_count <= LiveTiles
      BY DEF Accounts, KanSupply
    <2> QED
      BY <2>1, <2>2, <2>3, <2>4, MaxDiscardsAssumption, LiveTilesAssumption,
         MaxMeldsAssumption
  <1> QED
    BY <1>1, AccountsBalance, PTL

-----------------------------------------------------------------------------
(* The abort on four kans, and the last discard                             *)

\* A round that goes on has four kans at most.
LEMMA AtMostFourKans ==
  ASSUME TypeOK, Accounts, phase # "ROUND_END"
  PROVE  CountTotalKans(melds) \in 0 .. 4
  <1>1. dead_wall_draw_count \in Nat
    BY DEF TypeOK
  <1>2. /\ dead_wall_draw_count <= 4
        /\ CountTotalKans(melds) =
             dead_wall_draw_count + (IF phase = "KAKAN_RESOLVE" THEN 1 ELSE 0)
        /\ phase = "KAKAN_RESOLVE" => dead_wall_draw_count < 4
    BY DEF Accounts, KanSupply, RINSHAN_TILE_COUNT
  <1> QED
    BY <1>1, <1>2

\* A transition that leaves the melds alone and brings no phase in which
\* kans are completed keeps the abort rule.
LEMMA AbortRuleKept ==
  ASSUME TypeOK, Accounts, FourKansAbortAtOnce, phase # "ROUND_END",
         UNCHANGED <<rules, melds>>,
         phase # "KAKAN_RESOLVE" \/ phase' = "ROUND_END"
  PROVE  FourKansAbortAtOnce'
  <1>1. CountTotalKans(melds) \in 0 .. 4
    BY AtMostFourKans
  <1> QED
    BY <1>1 DEF FourKansAbortAtOnce, FourKansBySeveral

\* Nor does it matter how a round ended that ended for its kans.
LEMMA AbortRuleAtEnd ==
  ASSUME phase' = "ROUND_END", round_result'.reason = "FOUR_KANS"
  PROVE  FourKansAbortAtOnce'
  BY DEF FourKansAbortAtOnce

\* Melds that need no abort satisfy the abort rule.
LEMMA NoAbortNeeded ==
  ASSUME TypeOK', Accounts', phase' = "DRAW", UNCHANGED rules,
         ~ ShouldAbortOnFourKans(melds')
  PROVE  FourKansAbortAtOnce'
  BY DEF FourKansAbortAtOnce, FourKansBySeveral, ShouldAbortOnFourKans

\* Every step keeps the abort rule.
LEMMA AbortRuleStep ==
  ASSUME TypeOK, Accounts, FourKansAbortAtOnce, Next
  PROVE  FourKansAbortAtOnce'
  <1>0. TypeOK' /\ Accounts'
    BY TypeStep, AccountsStep
  <1>1. CASE Discard \/ Riichi \/ Tsumo \/ KyuushuKyuuhai
    <2>1. phase \in {"DRAW", "AFTER_CALL"} /\ UNCHANGED <<rules, melds>>
      BY <1>1 DEF Discard, CanDiscard, Riichi, Tsumo, KyuushuKyuuhai, tileVars
    <2> QED
      BY <2>1, AbortRuleKept
  <1>2. CASE Ankan
    <2>1. CASE CountTotalKans(melds) # 4
      <3>1. phase = "DRAW" /\ UNCHANGED <<rules, melds>>
        BY <1>2, <2>1 DEF Ankan
      <3> QED
        BY <3>1, AbortRuleKept
    <2>2. CASE CountTotalKans(melds) = 4
      BY <1>2, <2>2, AbortRuleAtEnd DEF Ankan, FinishAbortiveDraw, FinishDrawRound
    <2> QED
      BY <2>1, <2>2
  <1>3. CASE Kakan
    <2>1. CASE CountTotalKans(melds) # 4
      <3>1. phase' = "KAKAN_RESOLVE"
        BY <1>3, <2>1 DEF Kakan
      <3>2. CountTotalKans(melds') = CountTotalKans(melds) + 1
        BY <1>3, PonUpgraded
      <3>3. CountTotalKans(melds) \in 0 .. 3
        BY <1>3, <2>1, KanAdmitted DEF Kakan
      <3> QED
        BY <3>1, <3>2, <3>3 DEF FourKansAbortAtOnce
    <2>2. CASE CountTotalKans(melds) = 4
      BY <1>3, <2>2, AbortRuleAtEnd DEF Kakan, FinishAbortiveDraw, FinishDrawRound
    <2> QED
      BY <2>1, <2>2
  <1>4. ASSUME NEW p \in Player, NEW kind \in {"chi", "pon"}, ChiOrPon(p, kind)
        PROVE  FourKansAbortAtOnce'
    <2>1. /\ phase = "DISCARD" /\ phase' = "AFTER_CALL" /\ UNCHANGED rules
          /\ MeldCount(melds[p]) < MaxMelds /\ melds' = AddMeld(p, kind)
          /\ ~ FourKansAbortIsPending
      BY <1>4 DEF ChiOrPon, CanChiOrPon, CanClaimDiscard
    <2>2. CountTotalKans(melds') = CountTotalKans(melds) + 0
      BY <2>1, MeldAdded DEF MeldKinds, KanKinds
    <2>3. CountTotalKans(melds) \in 0 .. 4
      BY <2>1, AtMostFourKans
    <2>4. \A q \in Player : KanCount(melds'[q]) = KanCount(melds[q])
      <3> SUFFICES ASSUME NEW q \in Player
                   PROVE  KanCount(melds'[q]) = KanCount(melds[q])
        OBVIOUS
      <3>1. melds \in [Player -> MeldRecords] /\ kind \in MeldKinds
        BY DEF TypeOK, MeldRecords, MeldKinds
      <3>2. melds' = [melds EXCEPT ![p] = [melds[p] EXCEPT ![kind] = @ + 1]]
        BY <2>1 DEF AddMeld
      <3>3. KanCount([melds[p] EXCEPT ![kind] = @ + 1]) = KanCount(melds[p]) + 0
        <4>1. melds[p] \in MeldRecords
          BY <3>1
        <4> QED
          BY <3>1, <4>1, OneMoreMeld DEF KanKinds
      <3>4. KanCount(melds[p]) \in Nat
        BY <3>1, MeldCountType
      <3> QED
        BY <3>1, <3>2, <3>3, <3>4
    <2>5. ~ FourKansBySeveral
      BY <2>1 DEF FourKansAbortIsPending, FourKansBySeveral
    <2>6. ~ FourKansBySeveral'
      BY <2>2, <2>3, <2>4, <2>5 DEF FourKansBySeveral, AllKansByOnePlayer
    <2> QED
      BY <2>2, <2>3, <2>6 DEF FourKansAbortAtOnce
  <1>5. ASSUME NEW p \in Player, Minkan(p)
        PROVE  FourKansAbortAtOnce'
    <2>1. CASE ShouldAbortOnFourKans(AddMeld(p, "minkan"))
      BY <1>5, <2>1, AbortRuleAtEnd DEF Minkan, FinishAbortiveDraw, FinishDrawRound
    <2>2. CASE ~ ShouldAbortOnFourKans(AddMeld(p, "minkan"))
      BY <1>0, <1>5, <2>2, NoAbortNeeded DEF Minkan
    <2> QED
      BY <2>1, <2>2
  <1>6. ASSUME NEW claimants \in SUBSET Player, Ron(claimants)
        PROVE  FourKansAbortAtOnce'
    <2>1. /\ phase # "ROUND_END" /\ phase' = "ROUND_END" /\ UNCHANGED <<rules, melds>>
      BY <1>6 DEF Ron, CanRon, FinishAbortiveDraw, FinishDrawRound, FinishMultiRon,
                  tileVars
    <2> QED
      BY <2>1, AbortRuleKept
  <1>7. CASE PassIntoAbort \/ PassIntoExhaustiveDraw \/ PassIntoNextTurn
    <2>1. phase = "DISCARD" /\ UNCHANGED <<rules, melds>>
      BY <1>7 DEF PassIntoAbort, PassIntoExhaustiveDraw, PassIntoNextTurn,
                  PassReactions
    <2> QED
      BY <2>1, AbortRuleKept
  <1>8. CASE RinshanDraw
    <2> DEFINE committed == IF phase = "ANKAN_RESOLVE"
                              THEN AddMeld(current_player, "ankan") ELSE melds
    <2>1. CASE ShouldAbortOnFourKans(melds) \/ ShouldAbortOnFourKans(committed)
      <3>1. FinishAbortiveDraw("FOUR_KANS")
        BY <1>8, <2>1 DEF RinshanDraw
      <3> QED
        BY <3>1, AbortRuleAtEnd DEF FinishAbortiveDraw, FinishDrawRound
    <2>2. CASE ~ ShouldAbortOnFourKans(melds) /\ ~ ShouldAbortOnFourKans(committed)
      <3>1. melds' = committed /\ phase' = "DRAW" /\ UNCHANGED rules
        BY <1>8, <2>2 DEF RinshanDraw
      <3> QED
        BY <1>0, <2>2, <3>1, NoAbortNeeded
    <2> QED
      BY <2>1, <2>2
  <1>9. CASE Chi
    <2>1. NextPlayer(current_player) \in Player
      BY NextPlayerType DEF TypeOK
    <2> QED
      BY <1>4, <1>9, <2>1 DEF Chi
  <1>10. ASSUME NEW p \in Player, Pon(p)
         PROVE  FourKansAbortAtOnce'
    BY <1>4, <1>10 DEF Pon
  <1> QED
    BY <1>1, <1>2, <1>3, <1>5, <1>6, <1>7, <1>8, <1>9, <1>10 DEF Next

\* No round is dealt with kans.
LEMMA AbortRuleInit == Init => FourKansAbortAtOnce
  <1> SUFFICES ASSUME Init PROVE FourKansAbortAtOnce
    OBVIOUS
  <1>1. phase = "DRAW" /\ dead_wall_draw_count = 0
    BY DEF Init
  <1>2. CountTotalKans(melds) = 0
    BY <1>1, AccountsInit DEF Accounts, KanSupply
  <1> QED
    BY <1>2 DEF FourKansAbortAtOnce, FourKansBySeveral

\* What holds of every state of a round, as far as its kans go.
KanInv == TypeOK /\ Accounts /\ FourKansAbortAtOnce

\* Every step of a round keeps it.
LEMMA KanInvStep ==
  ASSUME KanInv, [Next]_vars
  PROVE  KanInv'
  <1>1. TypeOK' /\ Accounts'
    BY TypeStep, AccountsStep DEF KanInv
  <1>2. CASE Next
    BY <1>1, <1>2, AbortRuleStep DEF KanInv
  <1>3. CASE UNCHANGED vars
    <2>1. UNCHANGED <<rules, phase, melds, round_result>>
      BY <1>3 DEF vars, turnVars, tileVars, resultVars
    <2> QED
      BY <1>1, <2>1 DEF KanInv, FourKansAbortAtOnce, FourKansBySeveral
  <1> QED
    BY <1>2, <1>3

\* The invariant of the kans holds in every round.
THEOREM KansInvariant == Spec => []KanInv
  <1>1. Init => KanInv
    BY TypeInit, AccountsInit, AbortRuleInit DEF KanInv
  <1> QED
    BY <1>1, KanInvStep, PTL DEF Spec

\* With an immediate abort a fourth kan by several players ends the round
\* unless it is robbed, and a fifth kan always ends it.
THEOREM FourKansAlwaysAbort == Spec => []FourKansAbortAtOnce
  BY KansInvariant, PTL DEF KanInv

-----------------------------------------------------------------------------
(* The last discard                                                         *)

\* What the reactions to a discard may do when no live tile is left, or when
\* the abort waits for the discard: a ron, a pass, or the fifth kan.
LEMMA ReactionsOnly ==
  ASSUME TypeOK, phase = "DISCARD", Next
  PROVE  \/ \E claimants \in SUBSET Player : Ron(claimants)
         \/ \E p \in Player, kind \in {"chi", "pon"} : ChiOrPon(p, kind)
         \/ \E p \in Player : Minkan(p)
         \/ PassIntoAbort \/ PassIntoExhaustiveDraw \/ PassIntoNextTurn
  <1>1. ~ (Discard \/ Riichi \/ Tsumo \/ KyuushuKyuuhai \/ Ankan \/ Kakan)
    BY DEF Discard, CanDiscard, Riichi, Tsumo, KyuushuKyuuhai, Ankan, Kakan
  <1>2. ~ RinshanDraw
    BY DEF RinshanDraw
  <1>3. NextPlayer(current_player) \in Player
    BY NextPlayerType DEF TypeOK
  <1> QED
    BY <1>1, <1>2, <1>3 DEF Next, Chi, Pon

\* After the last live tile the round ends with the reactions to its discard.
THEOREM LastDiscardAlwaysEnds == Spec => LastDiscardEndsTheRound
  <1>1. ASSUME KanInv, Next, phase = "DISCARD", LiveWallRemaining = 0
        PROVE  phase' = "ROUND_END"
    <2>1. ASSUME NEW p \in Player, Minkan(p)
          PROVE  phase' = "ROUND_END"
      <3>1. /\ CountTotalKans(melds) = 4 /\ hand[p] > 2 /\ p # current_player
        BY <1>1, <2>1 DEF Minkan, CanMinkan, CanDeclareMoreKans, CanClaimDiscard
      <3>2. MeldCount(melds[p]) < MaxMelds
        BY <1>1, <3>1, RoomForAMeld DEF KanInv, Accounts, HoldsExtraTile, TypeOK
      <3>3. CountTotalKans(AddMeld(p, "minkan")) = 5
        BY <1>1, <3>1, <3>2, MeldAdded DEF KanInv, MeldKinds, KanKinds
      <3>4. ShouldAbortOnFourKans(AddMeld(p, "minkan"))
        BY <3>3 DEF ShouldAbortOnFourKans
      <3> QED
        BY <2>1, <3>4 DEF Minkan, FinishAbortiveDraw, FinishDrawRound
    <2>2. ASSUME NEW p, NEW kind
          PROVE  ~ ChiOrPon(p, kind)
      BY <1>1 DEF ChiOrPon, CanChiOrPon
    <2>3. ASSUME NEW claimants, Ron(claimants)
          PROVE  phase' = "ROUND_END"
      BY <2>3 DEF Ron, FinishAbortiveDraw, FinishDrawRound, FinishMultiRon
    <2>4. ASSUME PassIntoAbort \/ PassIntoExhaustiveDraw
          PROVE  phase' = "ROUND_END"
      BY <2>4 DEF PassIntoAbort, PassIntoExhaustiveDraw, FinishAbortiveDraw,
                  FinishDrawRound
    <2>5. ~ PassIntoNextTurn
      BY <1>1 DEF PassIntoNextTurn
    <2> QED
      BY <1>1, <2>1, <2>2, <2>3, <2>4, <2>5, ReactionsOnly DEF KanInv
  <1>2. KanInv /\ [Next]_vars =>
          [phase = "DISCARD" /\ LiveWallRemaining = 0 => phase' = "ROUND_END"]_vars
    BY <1>1
  <1> QED
    BY <1>2, KansInvariant, PTL DEF Spec, LastDiscardEndsTheRound

-----------------------------------------------------------------------------
(* The discard after the fourth kan                                         *)

\* Four kans by several players that outlive the fourth rinshan draw end the
\* round with the next discard, by ron or by abort.
THEOREM FourKansAlwaysEnd == Spec => FourKansEndTheRound
  <1>1. ASSUME KanInv, Next, phase = "DISCARD", FourKansBySeveral
        PROVE  /\ phase' = "ROUND_END"
               /\ \/ round_result'.type = "RON"
                  \/ round_result'.reason \in {"FOUR_KANS", "TRIPLE_RON"}
    <2>1. FourKansAbortIsPending
      BY <1>1 DEF FourKansAbortIsPending, FourKansBySeveral
    <2>2. rules.four_kans_abort_timing = "AFTER_DISCARD"
      <3>1. rules.four_kans_abort_timing \in {"IMMEDIATE", "AFTER_DISCARD"}
        BY <1>1, RulesAssumption DEF KanInv, TypeOK, RuleRecords
      <3> QED
        BY <1>1, <3>1 DEF KanInv, FourKansAbortAtOnce
    <2>3. \A same_wind : PassAbortReason(same_wind) = "FOUR_KANS"
      BY <2>1, <2>2 DEF PassAbortReason
    <2>4. ~ PassIntoExhaustiveDraw /\ ~ PassIntoNextTurn
      BY <2>3 DEF PassIntoExhaustiveDraw, PassIntoNextTurn
    <2>5. ASSUME PassIntoAbort
          PROVE  phase' = "ROUND_END" /\ round_result'.reason = "FOUR_KANS"
      <3>1. FinishAbortiveDraw("FOUR_KANS")
        BY <2>3, <2>5 DEF PassIntoAbort
      <3> QED
        BY <3>1 DEF FinishAbortiveDraw, FinishDrawRound
    <2>6. ASSUME NEW claimants, Ron(claimants)
          PROVE  /\ phase' = "ROUND_END"
                 /\ \/ round_result'.type = "RON"
                    \/ round_result'.reason = "TRIPLE_RON"
      BY <2>6 DEF Ron, FinishAbortiveDraw, FinishDrawRound, FinishMultiRon
    <2>7. ASSUME NEW p, NEW kind
          PROVE  ~ ChiOrPon(p, kind) /\ ~ Minkan(p)
      BY <2>1 DEF ChiOrPon, CanChiOrPon, Minkan, CanMinkan
    <2> QED
      BY <1>1, <2>4, <2>5, <2>6, <2>7, ReactionsOnly DEF KanInv
  <1>2. KanInv /\ [Next]_vars =>
          [phase = "DISCARD" /\ FourKansBySeveral =>
             /\ phase' = "ROUND_END"
             /\ \/ round_result'.type = "RON"
                \/ round_result'.reason \in {"FOUR_KANS", "TRIPLE_RON"}]_vars
    BY <1>1
  <1> QED
    BY <1>2, KansInvariant, PTL DEF Spec, FourKansEndTheRound
=============================================================================
