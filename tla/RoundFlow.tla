------------------------------ MODULE RoundFlow ------------------------------
(***************************************************************************)
(* One round of four-player riichi mahjong as the core library plays it:   *)
(* from cj4_state_create_round (phase DRAW, the dealer holding a drawn     *)
(* tile) to phase ROUND_END.  Every action is one cj4_do_* transition of   *)
(* src/src/core, guarded by the cj4_can_* predicate that admits it.        *)
(*                                                                         *)
(* Tiles have no identity here.  A hand is the number of concealed tiles,  *)
(* the melds of a player are counted by kind, and what depends on the      *)
(* faces of the tiles (does a tile fit a meld, does it complete a hand, is *)
(* a hand tenpai, did everybody discard the same wind) is a choice of the  *)
(* environment.  The chankan bit is absent: the transitions only clear it  *)
(* and cj4_can_ron sets it in a scratch copy.  The pao bytes, which only   *)
(* cj4_do_settle reads, are absent too.                                    *)
(*                                                                         *)
(* An operator Bug_... is a deliberately wrong variant of the definition   *)
(* that follows it.  No specification uses one: they show that a property  *)
(* fails when the code has that bug.                                       *)
(***************************************************************************)
EXTENDS Integers, FiniteSets

CONSTANTS
  LiveTiles,      \* live-wall tiles left after the deal (69 in the library)
  MaxMelds,       \* CJ4_MAX_MELDS (4 in the library)
  MaxDiscards,    \* CJ4_MAX_DISCARDS (86 in the library)
  Dealer,         \* the dealer of the round
  InitialScores,  \* scores handed to cj4_state_create_round
  InitialSticks,  \* riichi sticks carried over from earlier rounds
  RuleSets,       \* the rule sets the round may be played under
  Callers,        \* players whose hands may fit another player's discard
  Waiters         \* players whose hands may become tenpai

Player == 0 .. 3

Phases == {"DRAW", "KAKAN_RESOLVE", "ANKAN_RESOLVE", "AFTER_CALL",
           "DISCARD", "ROUND_END"}
MeldKinds == {"chi", "pon", "minkan", "ankan", "kakan"}
KanKinds  == {"minkan", "ankan", "kakan"}

RINSHAN_TILE_COUNT == 4
MAX_DORA == 5
RIICHI_STAKE == 1000
NO_PLAYER == 7      \* CJ4_STATE_PENDING_RIICHI_PLAYER_NONE

\* The flags of cj4_rules that the round reads.
RuleRecords ==
  [kan_dora_timing            : {"EARLY", "LATE"},
   four_kans_abort_timing     : {"IMMEDIATE", "AFTER_DISCARD"},
   max_ron_players            : 1 .. 3,
   kokushi_ron_on_ankan       : BOOLEAN,
   triple_ron_abortive_draw   : BOOLEAN,
   abortive_kyuushu_kyuuhai   : BOOLEAN,
   abortive_suufon_renda      : BOOLEAN,
   abortive_four_riichi       : BOOLEAN]

ASSUME LiveTilesAssumption   == LiveTiles \in Nat
ASSUME MaxMeldsAssumption    == MaxMelds \in Nat
\* 86 = 69 + 1 + 4 * 4: every draw and every chi or pon brings one discard.
ASSUME MaxDiscardsAssumption ==
  MaxDiscards \in Nat /\ MaxDiscards >= LiveTiles + 1 + 4 * MaxMelds
ASSUME DealerAssumption      == Dealer \in Player
ASSUME ScoresAssumption      == InitialScores \in [Player -> Int]
ASSUME SticksAssumption      == InitialSticks \in Nat
ASSUME RulesAssumption       == RuleSets \subseteq RuleRecords
ASSUME PeopleAssumption      == Callers \subseteq Player /\ Waiters \subseteq Player

VARIABLES
  rules,                  \* the rule set of the round, never changed
  phase, current_player,
  first_turn,             \* nobody has called and no second turn began
  draw_turn,              \* per player: 0, 1 or 2 (two or more) live draws
  riichi, ippatsu, double_riichi,
  pending_riichi,         \* the declaration that waits for the reactions
  temporary_furiten, riichi_furiten,
  scores, riichi_sticks,
  wall_pos,               \* live tiles drawn since the deal
  dead_wall_draw_count,
  dora_count, pending_kan_dora_count,
  draw_tile,              \* is draw_tile valid
  pending_kan,            \* the valid one of pending_kakan/ankan_tile
  hand, melds, discards,  \* concealed tiles, melds by kind, own discards
  ready,                  \* players whose hand wins on the offered tile
  round_result, winners

turnVars    == <<phase, current_player, first_turn, draw_turn, draw_tile>>
riichiVars  == <<riichi, double_riichi, pending_riichi, scores, riichi_sticks>>
furitenVars == <<temporary_furiten, riichi_furiten>>
wallVars    == <<wall_pos, dead_wall_draw_count>>
doraVars    == <<dora_count, pending_kan_dora_count>>
tileVars    == <<hand, melds, discards>>
resultVars  == <<round_result, winners>>

vars == <<rules, turnVars, riichiVars, ippatsu, furitenVars, wallVars,
          doraVars, pending_kan, tileVars, ready, resultVars>>

-----------------------------------------------------------------------------
(* Queries of the state                                                    *)

Sum(f) == f[0] + f[1] + f[2] + f[3]

HandTiles == 3 * MaxMelds + 1     \* 13 in the library

NoPendingRiichi == [player |-> NO_PLAYER, double |-> FALSE]
NoResult == [type |-> "NONE", reason |-> "NONE"]

Bug_TurnNeverMoves(p) == p

NextPlayer(p) == (p + 1) % 4
DistanceFromDiscarder(p) == (p + 4 - current_player) % 4

MeldCount(m) == m.chi + m.pon + m.minkan + m.ankan + m.kakan
KanCount(m)  == m.minkan + m.ankan + m.kakan

CountTotalKans(ms) == Sum([p \in Player |-> KanCount(ms[p])])

AllKansByOnePlayer(ms) ==
  \E owner \in Player : \A p \in Player \ {owner} : KanCount(ms[p]) = 0

LiveWallEnd ==
  LiveTiles - (IF dead_wall_draw_count > 4 THEN 4 ELSE dead_wall_draw_count)

LiveWallRemaining ==
  IF wall_pos >= LiveWallEnd THEN 0 ELSE LiveWallEnd - wall_pos

Bug_FourKansUnnoticed == phase = "DISCARD" /\ CountTotalKans(melds) > 4

FourKansAbortIsPending ==
  /\ phase = "DISCARD"
  /\ CountTotalKans(melds) >= 4
  /\ ~ AllKansByOnePlayer(melds)

Bug_KanWithoutLiveTile ==
  \/ CountTotalKans(melds) = 4
  \/ CountTotalKans(melds) < 4 /\ dead_wall_draw_count < RINSHAN_TILE_COUNT

\* The fifth declaration needs no rinshan tile.
CanDeclareMoreKans ==
  \/ CountTotalKans(melds) = 4
  \/ /\ CountTotalKans(melds) < 4
     /\ dead_wall_draw_count < RINSHAN_TILE_COUNT
     /\ LiveWallRemaining > 0

Bug_AbortOnFiveKansOnly(ms) == CountTotalKans(ms) > 4

ShouldAbortOnFourKans(ms) ==
  \/ CountTotalKans(ms) >= 5
  \/ /\ CountTotalKans(ms) >= 4
     /\ ~ AllKansByOnePlayer(ms)
     /\ rules.four_kans_abort_timing = "IMMEDIATE"

\* Players cj4_can_ron admits on the offered tile.
CanRon ==
  IF phase \in {"DISCARD", "KAKAN_RESOLVE", "ANKAN_RESOLVE"}
    THEN ready \ ({current_player} \cup temporary_furiten \cup riichi_furiten)
    ELSE {}

-----------------------------------------------------------------------------
(* Updates shared by the transitions                                       *)

IsClosed(m) == m.chi + m.pon + m.minkan + m.kakan = 0

Bug_MeldGroupOffByOne(p, kind) ==
  IF MeldCount(melds[p]) + 1 < MaxMelds
    THEN [melds EXCEPT ![p][kind] = @ + 1]
    ELSE melds

\* cj4_state_add_meld adds nothing when every meld group is taken.
AddMeld(p, kind) ==
  IF MeldCount(melds[p]) < MaxMelds
    THEN [melds EXCEPT ![p][kind] = @ + 1]
    ELSE melds

HandAfterMeld(p, used) ==
  IF MeldCount(melds[p]) < MaxMelds THEN hand[p] - used ELSE hand[p]

Bug_UncappedDora(n) == n + 1

AddDoraIndicator(n) == IF n < MAX_DORA THEN n + 1 ELSE n

AddPendingKanDora ==
  IF pending_kan_dora_count < MAX_DORA
    THEN pending_kan_dora_count + 1
    ELSE pending_kan_dora_count

RevealedDora ==
  IF dora_count + pending_kan_dora_count > MAX_DORA
    THEN MAX_DORA
    ELSE dora_count + pending_kan_dora_count

Bug_KanDoraForgotten ==
  pending_kan_dora_count' = 0 /\ UNCHANGED dora_count

RevealPendingKanDora ==
  /\ dora_count' = RevealedDora
  /\ pending_kan_dora_count' = 0

\* Open kans and kakans: the indicator now, or after the next discard.
KanDoraByTiming ==
  \/ /\ rules.kan_dora_timing = "EARLY"
     /\ dora_count' = AddDoraIndicator(dora_count)
     /\ UNCHANGED pending_kan_dora_count
  \/ /\ rules.kan_dora_timing = "LATE"
     /\ pending_kan_dora_count' = AddPendingKanDora
     /\ UNCHANGED dora_count

\* The declarer whose discard passed unharmed, if there is one.
EstablishingPlayers == {pending_riichi.player} \cap (Player \ riichi)

Bug_RiichiStaysPending ==
  /\ riichi' = riichi \cup EstablishingPlayers
  /\ UNCHANGED <<double_riichi, scores, riichi_sticks, pending_riichi>>

EstablishPendingRiichi ==
  LET p == pending_riichi.player
      establishes == p \in Player \ riichi
  IN /\ riichi' = riichi \cup EstablishingPlayers
     /\ double_riichi' = IF establishes /\ pending_riichi.double
                           THEN double_riichi \cup {p}
                           ELSE double_riichi
     /\ scores' = IF establishes
                    THEN [scores EXCEPT ![p] = @ - RIICHI_STAKE]
                    ELSE scores
     /\ riichi_sticks' = IF establishes THEN riichi_sticks + 1
                                        ELSE riichi_sticks
     /\ pending_riichi' = NoPendingRiichi

Bug_HistoryOffByOne ==
  IF Sum(discards) + 1 < MaxDiscards
    THEN /\ discards' = [discards EXCEPT ![current_player] = @ + 1]
         /\ hand' = [hand EXCEPT ![current_player] = @ - 1]
    ELSE UNCHANGED <<discards, hand>>

\* cj4_state_record_discard records nothing once the history is full.
RecordDiscard ==
  IF Sum(discards) < MaxDiscards
    THEN /\ discards' = [discards EXCEPT ![current_player] = @ + 1]
         /\ hand' = [hand EXCEPT ![current_player] = @ - 1]
    ELSE UNCHANGED <<discards, hand>>

Bug_FuritenInRiichiOnly(drawers) ==
  /\ riichi_furiten' = riichi_furiten \cup (CanRon \cap riichi)
  /\ temporary_furiten' = temporary_furiten \ drawers

Bug_FuritenOutlivesDraw(drawers) ==
  /\ riichi_furiten' = riichi_furiten \cup (CanRon \cap riichi)
  /\ temporary_furiten' = temporary_furiten \cup (CanRon \ riichi)

\* Everyone who could have won and let the tile go becomes furiten: for
\* good when in riichi, else until the next tile drawn (by the drawers now).
DeclineRon(drawers) ==
  /\ riichi_furiten' = riichi_furiten \cup (CanRon \cap riichi)
  /\ temporary_furiten' = (temporary_furiten \cup (CanRon \ riichi)) \ drawers

\* The round ends without a winner (cj4_state_finish_draw_round).
FinishDrawRound(type, reason) ==
  /\ phase' = "ROUND_END"
  /\ round_result' = [type |-> type, reason |-> reason]
  /\ winners' = {}
  /\ pending_riichi' = NoPendingRiichi
  /\ pending_kan' = "NONE"
  /\ pending_kan_dora_count' = 0
  /\ ready' = {}

FinishAbortiveDraw(reason) == FinishDrawRound("ABORTIVE_DRAW", reason)

-----------------------------------------------------------------------------
(* cj4_state_create_round on a valid wall *)
Init ==
  /\ rules \in RuleSets
  /\ phase = "DRAW" /\ current_player = Dealer /\ draw_tile = TRUE
  /\ first_turn = TRUE
  /\ draw_turn = [p \in Player |-> IF p = Dealer THEN 1 ELSE 0]
  /\ riichi = {} /\ ippatsu = {} /\ double_riichi = {}
  /\ pending_riichi = NoPendingRiichi
  /\ temporary_furiten = {} /\ riichi_furiten = {}
  /\ scores = InitialScores /\ riichi_sticks = InitialSticks
  /\ wall_pos = 0 /\ dead_wall_draw_count = 0
  /\ dora_count = 1 /\ pending_kan_dora_count = 0
  /\ pending_kan = "NONE"
  /\ hand = [p \in Player |-> IF p = Dealer THEN HandTiles + 1 ELSE HandTiles]
  /\ melds = [p \in Player |-> [k \in MeldKinds |-> 0]]
  /\ discards = [p \in Player |-> 0]
  /\ ready = {}
  /\ round_result = NoResult /\ winners = {}

-----------------------------------------------------------------------------
(* The turn of the current player                                          *)

Bug_NoDiscardAfterCall ==
  /\ phase = "DRAW"
  /\ hand[current_player] > 0
  /\ current_player \in riichi => draw_tile

\* A player in riichi may only discard the tile just drawn.
CanDiscard ==
  /\ phase \in {"DRAW", "AFTER_CALL"}
  /\ hand[current_player] > 0
  /\ current_player \in riichi => draw_tile

OfferDiscard ==
  /\ phase' = "DISCARD"
  /\ draw_tile' = FALSE
  /\ pending_kan' = "NONE"
  /\ ready' \in SUBSET (Waiters \ {current_player})

Discard ==
  /\ CanDiscard
  /\ RecordDiscard
  /\ RevealPendingKanDora
  /\ ippatsu' = ippatsu \ {current_player}
  /\ OfferDiscard
  /\ UNCHANGED <<rules, current_player, first_turn, draw_turn, riichiVars,
                 furitenVars, wallVars, melds, resultVars>>

Riichi ==
  /\ phase = "DRAW"
  /\ current_player \notin riichi
  /\ pending_riichi.player = NO_PLAYER
  /\ scores[current_player] >= RIICHI_STAKE
  /\ LiveWallRemaining >= 4
  /\ IsClosed(melds[current_player])
  /\ CanDiscard
  /\ current_player \in Waiters
  /\ RecordDiscard
  /\ pending_riichi' = [player |-> current_player,
                        double |-> first_turn /\ draw_turn[current_player] = 1]
  /\ OfferDiscard
  /\ UNCHANGED <<rules, current_player, first_turn, draw_turn, riichi, ippatsu,
                 double_riichi, scores, riichi_sticks, furitenVars, wallVars,
                 doraVars, melds, resultVars>>

Tsumo ==
  /\ phase = "DRAW" /\ draw_tile
  /\ current_player \in Waiters
  /\ winners' = {current_player}
  /\ round_result' = [type |-> "TSUMO", reason |-> "NONE"]
  /\ phase' = "ROUND_END"
  /\ pending_riichi' = NoPendingRiichi
  /\ pending_kan' = "NONE"
  /\ pending_kan_dora_count' = 0
  /\ UNCHANGED <<rules, current_player, first_turn, draw_turn, draw_tile,
                 riichi, double_riichi, scores, riichi_sticks, ippatsu,
                 furitenVars, wallVars, dora_count, tileVars, ready>>

KyuushuKyuuhai ==
  /\ rules.abortive_kyuushu_kyuuhai
  /\ phase = "DRAW" /\ first_turn /\ draw_tile
  /\ draw_turn[current_player] = 1
  /\ draw_tile' = FALSE
  /\ FinishAbortiveDraw("KYUUSHU_KYUUHAI")
  /\ UNCHANGED <<rules, current_player, first_turn, draw_turn, riichi,
                 double_riichi, scores, riichi_sticks, ippatsu, furitenVars,
                 wallVars, dora_count, tileVars>>

\* A closed kan stays out of the melds until nobody robs it.  A player in
\* riichi may only use the tile just drawn.
Ankan ==
  /\ phase = "DRAW"
  /\ CanDeclareMoreKans
  /\ hand[current_player] >= 4
  /\ current_player \in riichi => draw_tile
  /\ first_turn' = FALSE
  /\ \/ /\ CountTotalKans(melds) # 4
        /\ RevealPendingKanDora
        /\ phase' = "ANKAN_RESOLVE"
        /\ pending_kan' = "ANKAN"
        /\ ready' \in SUBSET (IF rules.kokushi_ron_on_ankan
                                THEN Waiters \ {current_player} ELSE {})
        /\ UNCHANGED <<draw_tile, ippatsu, hand, melds, pending_riichi,
                       resultVars>>
     \/ /\ CountTotalKans(melds) = 4
        /\ melds' = AddMeld(current_player, "ankan")
        /\ hand' = [hand EXCEPT ![current_player] =
                      HandAfterMeld(current_player, 4)]
        /\ dora_count' = AddDoraIndicator(RevealedDora)
        /\ draw_tile' = FALSE
        /\ ippatsu' = {}
        /\ FinishAbortiveDraw("FOUR_KANS")
  /\ UNCHANGED <<rules, current_player, draw_turn, riichi, double_riichi,
                 scores, riichi_sticks, furitenVars, wallVars, discards>>

\* An added kan turns a pon into a kakan at once.
Kakan ==
  /\ phase = "DRAW"
  /\ CanDeclareMoreKans
  /\ current_player \notin riichi
  /\ hand[current_player] > 0
  /\ melds[current_player].pon > 0
  /\ melds' = [melds EXCEPT ![current_player]["pon"] = @ - 1,
                           ![current_player]["kakan"] = @ + 1]
  /\ hand' = [hand EXCEPT ![current_player] = @ - 1]
  /\ draw_tile' = FALSE
  /\ ippatsu' = {}
  /\ first_turn' = FALSE
  /\ dora_count' = RevealedDora
  /\ \/ /\ CountTotalKans(melds) # 4
        /\ phase' = "KAKAN_RESOLVE"
        /\ pending_kan' = "KAKAN"
        /\ pending_kan_dora_count' = 0
        /\ ready' \in SUBSET (Waiters \ {current_player})
        /\ UNCHANGED <<pending_riichi, resultVars>>
     \/ /\ CountTotalKans(melds) = 4
        /\ FinishAbortiveDraw("FOUR_KANS")
  /\ UNCHANGED <<rules, current_player, draw_turn, riichi, double_riichi,
                 scores, riichi_sticks, furitenVars, wallVars, discards>>

-----------------------------------------------------------------------------
(* Reactions to a discard or to a declared kan                             *)

CanClaimDiscard(p) ==
  /\ phase = "DISCARD"
  /\ p # current_player
  /\ p \in Callers

Bug_CallKeepsFirstTurn(p) ==
  /\ current_player' = p
  /\ ippatsu' = {}
  /\ UNCHANGED first_turn
  /\ pending_kan' = "NONE"
  /\ ready' = {}

Bug_CallKeepsIppatsu(p) ==
  /\ current_player' = p
  /\ ippatsu' = ippatsu \ {current_player}
  /\ first_turn' = FALSE
  /\ pending_kan' = "NONE"
  /\ ready' = {}

\* Chi, pon and minkan take the turn, and break every ippatsu.
FinishOpenCall(p) ==
  /\ current_player' = p
  /\ ippatsu' = {}
  /\ first_turn' = FALSE
  /\ pending_kan' = "NONE"
  /\ ready' = {}

\* The caller keeps a tile to discard; with two tiles of the hand used,
\* only kuikae could forbid all that remain.
CanChiOrPon(p) ==
  /\ CanClaimDiscard(p)
  /\ ~ FourKansAbortIsPending
  /\ LiveWallRemaining > 0
  /\ p \notin riichi
  /\ MeldCount(melds[p]) < MaxMelds
  /\ hand[p] > 2

ChiOrPon(p, kind) ==
  /\ CanChiOrPon(p)
  /\ melds' = AddMeld(p, kind)
  /\ hand' = [hand EXCEPT ![p] = HandAfterMeld(p, 2)]
  /\ EstablishPendingRiichi
  /\ FinishOpenCall(p)
  /\ draw_tile' = FALSE
  /\ phase' = "AFTER_CALL"
  /\ UNCHANGED <<rules, draw_turn, furitenVars, wallVars, doraVars, discards,
                 resultVars>>

Chi == ChiOrPon(NextPlayer(current_player), "chi")

Pon(p) == ChiOrPon(p, "pon")

CanMinkan(p) ==
  /\ CanClaimDiscard(p)
  /\ ~ FourKansAbortIsPending
  /\ CanDeclareMoreKans
  /\ p \notin riichi
  /\ hand[p] > 2

\* The caller draws the rinshan tile unless this kan aborts the round.
Minkan(p) ==
  /\ CanMinkan(p)
  /\ melds' = AddMeld(p, "minkan")
  /\ EstablishPendingRiichi
  /\ FinishOpenCall(p)
  /\ \/ /\ ~ ShouldAbortOnFourKans(AddMeld(p, "minkan"))
        /\ phase' = "DRAW"
        /\ draw_tile' = TRUE
        /\ hand' = [hand EXCEPT ![p] = HandAfterMeld(p, 3) + 1]
        /\ dead_wall_draw_count' = dead_wall_draw_count + 1
        /\ temporary_furiten' = temporary_furiten \ {p}
        /\ KanDoraByTiming
        /\ UNCHANGED resultVars
     \/ /\ ShouldAbortOnFourKans(AddMeld(p, "minkan"))
        /\ hand' = [hand EXCEPT ![p] = HandAfterMeld(p, 3)]
        /\ draw_tile' = FALSE
        /\ dora_count' = IF rules.kan_dora_timing = "EARLY"
                           THEN AddDoraIndicator(dora_count) ELSE dora_count
        /\ FinishAbortiveDraw("FOUR_KANS")
        /\ UNCHANGED <<dead_wall_draw_count, temporary_furiten>>
  /\ UNCHANGED <<rules, draw_turn, riichi_furiten, wall_pos, discards>>

Bug_OneWinnerTooMany(claimants) ==
  {p \in claimants :
     Cardinality({q \in claimants :
       DistanceFromDiscarder(q) < DistanceFromDiscarder(p)})
       <= rules.max_ron_players}

Bug_ClosestNotCounted(claimants) ==
  {p \in claimants :
     Cardinality({q \in claimants :
       DistanceFromDiscarder(q) <= DistanceFromDiscarder(p)})
       < rules.max_ron_players}

\* The claimants closest to the discarder win, at most max_ron_players.
RonWinners(claimants) ==
  {p \in claimants :
     Cardinality({q \in claimants :
       DistanceFromDiscarder(q) < DistanceFromDiscarder(p)})
       < rules.max_ron_players}

TripleRonAborts(claimants) ==
  /\ rules.triple_ron_abortive_draw
  /\ rules.max_ron_players = 3
  /\ Cardinality(claimants) >= 3

Bug_RonForgetsRobbedKan(players) ==
  /\ winners' = players
  /\ round_result' = [type |-> "RON", reason |-> "NONE"]
  /\ phase' = "ROUND_END"
  /\ pending_riichi' = NoPendingRiichi
  /\ pending_kan_dora_count' = 0
  /\ ready' = {}
  /\ pending_kan' = "NONE"

\* A ron cancels the declaration it answers, unpaid, and keeps the pending
\* kan tile for the scoring of the win.
FinishMultiRon(players) ==
  /\ winners' = players
  /\ round_result' = [type |-> "RON", reason |-> "NONE"]
  /\ phase' = "ROUND_END"
  /\ pending_riichi' = NoPendingRiichi
  /\ pending_kan_dora_count' = 0
  /\ ready' = {}
  /\ UNCHANGED pending_kan

Ron(claimants) ==
  /\ claimants # {} /\ claimants \subseteq CanRon
  /\ \/ /\ TripleRonAborts(claimants)
        /\ FinishAbortiveDraw("TRIPLE_RON")
     \/ /\ ~ TripleRonAborts(claimants)
        /\ FinishMultiRon(RonWinners(claimants))
  /\ UNCHANGED <<rules, current_player, first_turn, draw_turn, draw_tile,
                 riichi, double_riichi, scores, riichi_sticks, ippatsu,
                 furitenVars, wallVars, dora_count, tileVars>>

\* What aborts the round once a discard passed; the first reason counts.
PassAbortReason(same_wind) ==
  IF /\ rules.four_kans_abort_timing = "AFTER_DISCARD"
     /\ FourKansAbortIsPending
    THEN "FOUR_KANS"
  ELSE IF /\ rules.abortive_suufon_renda
          /\ first_turn /\ same_wind
          /\ \A p \in Player : discards[p] = 1
    THEN "SUUFON_RENDA"
  ELSE IF /\ rules.abortive_four_riichi
          /\ riichi \cup EstablishingPlayers = Player
    THEN "FOUR_RIICHI"
  ELSE "NONE"

\* Nobody claims the discard: what cj4_do_pass does before it decides
\* between an abort, the exhaustive draw and the next turn.
PassReactions ==
  /\ phase = "DISCARD"
  /\ EstablishPendingRiichi
  /\ ippatsu' = ippatsu \cup EstablishingPlayers
  /\ UNCHANGED <<rules, dead_wall_draw_count, dora_count, melds, discards>>

PassIntoAbort ==
  /\ PassReactions
  /\ DeclineRon({})
  /\ \E same_wind \in BOOLEAN :
       /\ PassAbortReason(same_wind) # "NONE"
       /\ FinishAbortiveDraw(PassAbortReason(same_wind))
  /\ UNCHANGED <<current_player, first_turn, draw_turn, draw_tile, wall_pos,
                 hand>>

PassIntoExhaustiveDraw ==
  /\ PassReactions
  /\ DeclineRon({})
  /\ PassAbortReason(FALSE) = "NONE"
  /\ LiveWallRemaining = 0
  /\ FinishDrawRound("EXHAUSTIVE_DRAW", "NONE")
  /\ UNCHANGED <<current_player, first_turn, draw_turn, draw_tile, wall_pos,
                 hand>>

PassIntoNextTurn ==
  LET next == NextPlayer(current_player)
  IN /\ PassReactions
     /\ PassAbortReason(FALSE) = "NONE"
     /\ LiveWallRemaining > 0
     /\ current_player' = next
     /\ first_turn' = (first_turn /\ draw_turn[next] = 0)
     /\ draw_turn' = [draw_turn EXCEPT ![next] = IF @ = 0 THEN 1 ELSE 2]
     /\ wall_pos' = wall_pos + 1
     /\ hand' = [hand EXCEPT ![next] = @ + 1]
     /\ DeclineRon({next})
     /\ draw_tile' = TRUE
     /\ pending_kan' = IF pending_kan = "KAKAN" THEN "NONE" ELSE pending_kan
     /\ phase' = "DRAW"
     /\ ready' = {}
     /\ UNCHANGED <<pending_kan_dora_count, resultVars>>

\* Nobody robs the kan.  A kakan is already melded, so it may abort the
\* round before anything else happens; an ankan is melded here.
RinshanDraw ==
  LET p == current_player
      committed == IF phase = "ANKAN_RESOLVE" THEN AddMeld(p, "ankan") ELSE melds
      used == IF phase = "ANKAN_RESOLVE" THEN hand[p] - HandAfterMeld(p, 4) ELSE 0
  IN /\ phase \in {"ANKAN_RESOLVE", "KAKAN_RESOLVE"}
     /\ pending_kan # "NONE"
     /\ dead_wall_draw_count < RINSHAN_TILE_COUNT
     /\ LiveWallRemaining > 0
     /\ \/ /\ ShouldAbortOnFourKans(melds)
           /\ FinishAbortiveDraw("FOUR_KANS")
           /\ DeclineRon({})
           /\ UNCHANGED <<draw_tile, ippatsu, melds, hand, dora_count,
                          dead_wall_draw_count>>
        \/ /\ ~ ShouldAbortOnFourKans(melds)
           /\ ShouldAbortOnFourKans(committed)
           /\ FinishAbortiveDraw("FOUR_KANS")
           /\ DeclineRon({})
           /\ melds' = committed
           /\ hand' = [hand EXCEPT ![p] = @ - used]
           /\ dora_count' = AddDoraIndicator(dora_count)
           /\ draw_tile' = FALSE
           /\ ippatsu' = {}
           /\ UNCHANGED dead_wall_draw_count
        \/ /\ ~ ShouldAbortOnFourKans(melds)
           /\ ~ ShouldAbortOnFourKans(committed)
           /\ melds' = committed
           /\ hand' = [hand EXCEPT ![p] = @ - used + 1]
           /\ dead_wall_draw_count' = dead_wall_draw_count + 1
           /\ DeclineRon({p})
           /\ \/ /\ phase = "ANKAN_RESOLVE"
                 /\ dora_count' = AddDoraIndicator(dora_count)
                 /\ ippatsu' = {}
                 /\ UNCHANGED pending_kan_dora_count
              \/ /\ phase = "KAKAN_RESOLVE"
                 /\ KanDoraByTiming
                 /\ UNCHANGED ippatsu
           /\ draw_tile' = TRUE
           /\ pending_kan' = "NONE"
           /\ phase' = "DRAW"
           /\ ready' = {}
           /\ UNCHANGED <<pending_riichi, resultVars>>
     /\ UNCHANGED <<rules, current_player, first_turn, draw_turn, riichi,
                    double_riichi, scores, riichi_sticks, wall_pos, discards>>

-----------------------------------------------------------------------------
Next ==
  \/ Discard \/ Riichi \/ Tsumo \/ KyuushuKyuuhai \/ Ankan \/ Kakan
  \/ Chi
  \/ \E p \in Player : Pon(p) \/ Minkan(p)
  \/ \E claimants \in SUBSET Player : Ron(claimants)
  \/ PassIntoAbort \/ PassIntoExhaustiveDraw \/ PassIntoNextTurn
  \/ RinshanDraw

Spec == Init /\ [][Next]_vars

\* A caller that plays a round keeps stepping it until it is over.
FairSpec == Spec /\ WF_vars(Next)
-----------------------------------------------------------------------------
(* Invariants                                                              *)

\* Every field of the state keeps its range: in particular the counts of dora
\* indicators never exceed the five that state_ops.c:356 reserves.
TypeOK ==
  /\ rules \in RuleSets
  /\ phase \in Phases /\ current_player \in Player
  /\ first_turn \in BOOLEAN /\ draw_turn \in [Player -> 0 .. 2]
  /\ draw_tile \in BOOLEAN
  /\ riichi \subseteq Player /\ ippatsu \subseteq Player
  /\ double_riichi \subseteq Player
  /\ pending_riichi \in [player : Player \cup {NO_PLAYER}, double : BOOLEAN]
  /\ temporary_furiten \subseteq Player /\ riichi_furiten \subseteq Player
  /\ scores \in [Player -> Int] /\ riichi_sticks \in Nat
  /\ wall_pos \in Nat /\ dead_wall_draw_count \in Nat
  /\ dora_count \in 0 .. MAX_DORA /\ pending_kan_dora_count \in 0 .. MAX_DORA
  /\ pending_kan \in {"NONE", "ANKAN", "KAKAN"}
  /\ hand \in [Player -> Int] /\ melds \in [Player -> [MeldKinds -> Nat]]
  /\ discards \in [Player -> Nat]
  /\ ready \subseteq Player /\ winners \subseteq Player
  /\ round_result \in [type : {"NONE", "TSUMO", "RON", "EXHAUSTIVE_DRAW",
                               "ABORTIVE_DRAW"},
                       reason : {"NONE", "KYUUSHU_KYUUHAI", "FOUR_KANS",
                                 "SUUFON_RENDA", "FOUR_RIICHI", "TRIPLE_RON"}]

\* The current player owes a discard (or a kan, or a win).
HoldsExtraTile(p) ==
  p = current_player /\ phase \in {"DRAW", "AFTER_CALL", "ANKAN_RESOLVE"}

\* Every player holds a full hand, counting three tiles per meld, and the one
\* to act holds one tile more.  A meld silently dropped by cj4_state_add_meld
\* (state_ops.c:326), a call that uses too many tiles or a draw too many
\* would leave a hand that can never win.
HandsBalanced ==
  phase # "ROUND_END" =>
    \A p \in Player :
      hand[p] + 3 * MeldCount(melds[p]) =
        HandTiles + (IF HoldsExtraTile(p) THEN 1 ELSE 0)

\* Every kan takes one rinshan tile and shortens the live wall by one, and a
\* declared kan that still waits for chankan finds both: otherwise
\* cj4_can_rinshan_draw (state_kan.c:475) refuses and the round can neither
\* go on nor end, or the live wall runs into the replaced tiles.
KanSupply ==
  /\ dead_wall_draw_count <= RINSHAN_TILE_COUNT
  /\ wall_pos + dead_wall_draw_count <= LiveTiles
  /\ phase # "ROUND_END" =>
       CountTotalKans(melds) =
         dead_wall_draw_count + (IF phase = "KAKAN_RESOLVE" THEN 1 ELSE 0)
  /\ phase \in {"ANKAN_RESOLVE", "KAKAN_RESOLVE"} =>
       /\ pending_kan # "NONE"
       /\ dead_wall_draw_count < RINSHAN_TILE_COUNT
       /\ LiveWallRemaining > 0

\* While the round goes on, every completed kan has its dora indicator,
\* shown or still to be shown, and none is left to be shown once the player
\* who drew for it discards or declares the next kan (README.md:218-221).
NoKanDoraLost ==
  phase # "ROUND_END" =>
    /\ dora_count + pending_kan_dora_count = 1 + dead_wall_draw_count
    /\ pending_kan_dora_count > 0 =>
         phase = "DRAW" /\ rules.kan_dora_timing = "LATE"

FourKansBySeveral ==
  CountTotalKans(melds) >= 4 /\ ~ AllKansByOnePlayer(melds)

\* With an immediate abort nobody ever plays on after a fourth kan by
\* several players: only the chankan of that kan comes before the abort.
\* The same holds for a fifth kan under both timings (README.md:268).
FourKansAbortAtOnce ==
  /\ FourKansBySeveral /\ rules.four_kans_abort_timing = "IMMEDIATE" =>
       phase \in {"KAKAN_RESOLVE", "ROUND_END"}
  /\ CountTotalKans(melds) >= 5 =>
       /\ phase = "ROUND_END"
       /\ round_result.reason = "FOUR_KANS"

\* A declared riichi waits only for the reactions to its own discard; it is
\* paid once, when it is established, and never by a player who cannot
\* afford it.  A declaration answered by ron costs nothing.
RiichiPaidOnce ==
  /\ pending_riichi.player # NO_PLAYER =>
       /\ phase = "DISCARD"
       /\ pending_riichi.player = current_player
       /\ current_player \notin riichi
       /\ scores[current_player] >= RIICHI_STAKE
  /\ \A p \in Player :
       scores[p] = InitialScores[p] - (IF p \in riichi THEN RIICHI_STAKE ELSE 0)
  /\ riichi_sticks = InitialSticks + Cardinality(riichi)

\* Double riichi and the two aborts of the first go-around depend on
\* first_turn and draw_turn, which many transitions touch; what they must
\* mean is that nobody has called and the player has not discarded before.
FirstGoAround ==
  LET uncalled == \A p \in Player : MeldCount(melds[p]) = 0
  IN /\ pending_riichi.player # NO_PLAYER =>
          (pending_riichi.double
             <=> uncalled /\ discards[pending_riichi.player] = 1)
     /\ round_result.reason = "KYUUSHU_KYUUHAI" =>
          uncalled /\ discards[current_player] = 0
     /\ round_result.reason = "SUUFON_RENDA" =>
          uncalled /\ \A p \in Player : discards[p] = 1

\* Temporary furiten never outlives the draw before a riichi, permanent riichi
\* furiten marks players in riichi only, and ippatsu and double riichi are
\* kept for established riichi only.
RiichiFlagsAgree ==
  /\ riichi_furiten \subseteq riichi
  /\ riichi \cap temporary_furiten = {}
  /\ ippatsu \subseteq riichi
  /\ double_riichi \subseteq riichi

\* The pending kan tile tells the settlement that a ron robbed a kan: it is
\* kept exactly when the kan was declared and not completed.
RobbedKanKept ==
  /\ phase \notin {"ANKAN_RESOLVE", "KAKAN_RESOLVE", "ROUND_END"} =>
       pending_kan = "NONE"
  /\ phase = "ROUND_END" /\ round_result.type = "RON" =>
       /\ pending_kan = "KAKAN"
            <=> CountTotalKans(melds) = dead_wall_draw_count + 1
       /\ pending_kan = "ANKAN"
            <=> hand[current_player] + 3 * MeldCount(melds[current_player])
                  = HandTiles + 1
  /\ phase = "ROUND_END" /\ round_result.type # "RON" => pending_kan = "NONE"

\* Every draw, chi and pon brings exactly one recorded discard, so that the
\* history of CJ4_MAX_DISCARDS entries is never full when one more discard
\* comes (cj4_state_record_discard would drop it, state_ops.c:283).
DiscardBudget ==
  phase # "ROUND_END" =>
    Sum(discards)
      + (IF phase \in {"DRAW", "AFTER_CALL", "ANKAN_RESOLVE", "KAKAN_RESOLVE"}
           THEN 1 ELSE 0)
      = 1 + wall_pos
          + Sum([p \in Player |-> MeldCount(melds[p]) - melds[p].ankan])

OpenMelds(ms) == Sum([p \in Player |-> MeldCount(ms[p]) - ms[p].ankan])

OwesDiscard(p) ==
  /\ p = current_player
  /\ phase \in {"DRAW", "AFTER_CALL", "ANKAN_RESOLVE", "KAKAN_RESOLVE"}

\* Turns go round: a player has one per four live tiles drawn, and each call
\* brings anybody's next turn at most three places nearer.  This bounds the
\* own discards of one player, whose index cj4_state_record_discard writes
\* into five bits (state_ops.c:295).
TurnsGoRound ==
  \A p \in Player :
    4 * (discards[p] + (IF OwesDiscard(p) THEN 1 ELSE 0) - 1)
      + ((current_player - p) % 4)
      <= wall_pos + 3 * OpenMelds(melds)

\* Who wins, and how: a tsumo by the player to act, a ron by at most
\* max_ron_players others none of whom is furiten, and no winner otherwise.
ResultConsistent ==
  /\ phase = "ROUND_END" <=> round_result.type # "NONE"
  /\ winners # {} <=> round_result.type \in {"TSUMO", "RON"}
  /\ round_result.type = "TSUMO" => winners = {current_player}
  /\ round_result.type = "RON" =>
       /\ Cardinality(winners) <= rules.max_ron_players
       /\ winners \cap ({current_player} \cup temporary_furiten
                                         \cup riichi_furiten) = {}
  /\ round_result.type = "ABORTIVE_DRAW" <=> round_result.reason # "NONE"

-----------------------------------------------------------------------------
(* What a step may never do                                                *)

\* Four kans by several players that outlive the fourth rinshan draw end the
\* round with the very next discard, by ron or abort: no call, no draw.
FourKansEndTheRound ==
  [][ phase = "DISCARD" /\ FourKansBySeveral =>
        /\ phase' = "ROUND_END"
        /\ \/ round_result'.type = "RON"
           \/ round_result'.reason \in {"FOUR_KANS", "TRIPLE_RON"} ]_vars

\* After the last live tile the round ends with the reactions to its discard:
\* nobody calls it to go on, and nobody draws from an empty wall.
LastDiscardEndsTheRound ==
  [][ phase = "DISCARD" /\ LiveWallRemaining = 0 => phase' = "ROUND_END" ]_vars

\* The ippatsu of a player lasts until somebody melds, or the player discards
\* again; only the discard that establishes the riichi opens it.
IppatsuWindow ==
  [][ /\ melds' # melds => ippatsu' = {}
      /\ \A p \in Player :
           /\ p \in ippatsu /\ discards'[p] > discards[p] => p \notin ippatsu'
           /\ p \in ippatsu' \ ippatsu => p = pending_riichi.player ]_vars

\* A player who lets a winning tile pass while the turn moves on is furiten
\* until the next tile he draws, and for good in riichi.
DeclinedRonIsFuriten ==
  [][ /\ riichi_furiten \subseteq riichi_furiten'
      /\ \A p \in temporary_furiten \ temporary_furiten' :
           current_player' = p /\ phase' = "DRAW" /\ draw_tile'
      /\ phase' = "DRAW" /\ draw_tile' /\ ~ draw_tile /\ phase = "DISCARD"
           /\ melds' = melds =>
           CanRon \ {current_player'}
             \subseteq temporary_furiten' \cup riichi_furiten'
      /\ phase \in {"ANKAN_RESOLVE", "KAKAN_RESOLVE"} /\ phase' = "DRAW" =>
           CanRon \subseteq temporary_furiten' \cup riichi_furiten' ]_vars

\* The round seen from the game: its tiles, turns and furiten are hidden.
Contract == INSTANCE RoundContract WITH
  riichi <- riichi, scores <- scores, riichi_sticks <- riichi_sticks,
  current_player <- current_player, round_result <- round_result, winners <- winners

\* A round moves no points but riichi stakes, each paid once by a player who
\* has it, and ends once with a result the settlement knows: all that
\* cj4_do_settle relies on (state_settle.c:573).
KeepsContract == Contract!Spec

\* Every round that is stepped on comes to its end: no phase is left without
\* an admitted action, and every cycle of calls and draws uses the wall up.
RoundTerminates == <>(phase = "ROUND_END")
=============================================================================
