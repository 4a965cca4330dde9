------------------------------- MODULE TileTable -------------------------------
(***************************************************************************)
(* A round with its tiles.  The library keeps no hands, rivers or melds:   *)
(* every tile has four bytes (include/cjong4/core/location.h), its place   *)
(* in the wall, its discard, its placement and its entry in the history of *)
(* discards, and everything else is collected from these.                  *)
(*                                                                         *)
(* Every action is the action of RoundFlow with the tiles it moves: what   *)
(* RoundFlow counts or leaves to chance (does a tile fit a meld, does it   *)
(* complete a hand) is decided here by the tiles.  RoundFlow's hand, melds *)
(* and discards are what the bytes must add up to.                         *)
(***************************************************************************)
EXTENDS RoundFlow, Tiles

CONSTANTS
  Deals,            \* walls, each with the tiles that players part with
  KuikaeForbidden,  \* the rule kuikae_forbidden
  Complete(_, _),   \* is a hand, counted by type, complete beside m melds
  Kokushi(_)        \* is it thirteen orphans

LIVE_WALL_START == 53
RINSHAN_INDICES == <<134, 135, 132, 133>>
DORA_INDICES    == <<130, 128, 126, 124, 122>>

IsWall(w) ==
  /\ \A s, t \in DOMAIN w : w[s] = w[t] => s = t
  /\ {w[t] : t \in DOMAIN w} =
       0 .. (LIVE_WALL_START + LiveTiles - 1) \cup 122 .. 135

ASSUME FourMeldsAssumption == MaxMelds = 4
ASSUME KuikaeAssumption == KuikaeForbidden \in BOOLEAN
\* The live wall stops where the dead wall begins (CJ4_LIVE_WALL_END).
ASSUME LiveWallAssumption == LIVE_WALL_START + LiveTiles <= 122
ASSUME WallAssumption ==
  \A d \in Deals : /\ DOMAIN d.wall \subseteq 0 .. 135
                   /\ d.parts \subseteq DOMAIN d.wall
                   /\ IsWall(d.wall)

VARIABLES
  deal,             \* the wall byte of every tile, fixed
  discard, placement, discard_history,      \* the other bytes of every tile
  drawn, offered,   \* draw_tile, last_discard_tile
  kan_tile,         \* the valid one of pending_kakan_tile, pending_ankan_tile
  pao               \* per player the hand somebody is liable for, and who

byteVars == <<discard, placement, discard_history>>
tableVars == <<byteVars, drawn, offered, kan_tile, pao>>
allVars == <<vars, deal, tableVars>>

Table == DOMAIN deal.wall
TILE_INVALID == 255

-----------------------------------------------------------------------------
(* The bytes                                                               *)

LOCATION_NONE == 255
MeldType == [chi |-> 0, pon |-> 1, minkan |-> 2, ankan |-> 3, kakan |-> 4]

MakeHand(p) == 32 * p
MakeMeld(p, group, kind) == 128 + 32 * p + 8 * group + MeldType[kind]
MakeDiscard(p, index, tsumogiri) ==
  (IF tsumogiri THEN 128 ELSE 0) + 32 * p + index
MakeDiscardHistory(index, is_riichi) == (IF is_riichi THEN 128 ELSE 0) + index

BytePlayer(b) == (b \div 32) % 4
IsHand(b)     == b < 128 /\ b % 32 = 0
IsMeld(b)     == b >= 128 /\ b % 8 <= 4
MeldGroup(b)  == (b \div 8) % 4
MeldKind(b)   == CHOOSE k \in MeldKinds : MeldType[k] = b % 8

IsDiscard(b)     == b % 32 <= 30
DiscardIndex(b)  == b % 32
IsTsumogiri(b)   == IsDiscard(b) /\ b >= 128
IsDiscardHistory(b) == b % 128 <= 85
HistoryIndex(b)  == b % 128

-----------------------------------------------------------------------------
(* What is collected from them                                             *)

WallTile(position) == CHOOSE t \in Table : deal.wall[t] = position

HandOf(p) == {t \in Table : IsHand(placement[t]) /\ BytePlayer(placement[t]) = p}
RiverOf(p) == {t \in Table : IsDiscard(discard[t]) /\ BytePlayer(discard[t]) = p}
InHand(p, ts) ==
  \A t \in ts : t \in Table /\ IsHand(placement[t]) /\ BytePlayer(placement[t]) = p

\* The tiles of player p melded by the placements pl, and their groups.
MeldTiles(p, pl) == {t \in DOMAIN pl : IsMeld(pl[t]) /\ BytePlayer(pl[t]) = p}
Groups(p, pl) == {MeldGroup(pl[t]) : t \in MeldTiles(p, pl)}

\* The meld that cj4_location_collect_melds makes of a group, by placements and
\* discards; only the tile that was called has been a discard.
Meld(p, group, pl, d) ==
  LET tiles  == {t \in MeldTiles(p, pl) : MeldGroup(pl[t]) = group}
      called == {t \in tiles : IsDiscard(d[t])}
  IN [tiles  |-> tiles,
      kind   |-> MeldKind(pl[CHOOSE t \in tiles : TRUE]),
      called |-> called,
      from   |-> IF called = {} THEN p ELSE BytePlayer(d[CHOOSE t \in called : TRUE])]

MeldsOf(p, pl) == {Meld(p, group, pl, discard) : group \in Groups(p, pl)}

Types(ts) == {TypeOf(t) : t \in ts}

\* Concealed tiles by type, for the types that are held.
CountsOf(ts) == [type \in Types(ts) |-> Cardinality({t \in ts : TypeOf(t) = type})]

MeldCountOf(p) == Cardinality(Groups(p, placement))

IsCompleteWith(p, ts) == Complete(CountsOf(ts), MeldCountOf(p))

TilesOf(type) == {t \in 0 .. 135 : TypeOf(t) = type}
First(ts) == CHOOSE t \in ts : \A u \in ts : t <= u

\* Does a tile of this type complete the hand beside m melds; a fifth one does not.
IsWait(ts, m, type) ==
  LET others == TilesOf(type) \ ts
  IN others # {} /\ Complete(CountsOf(ts \cup {First(others)}), m)

Waits(ts, m) == {type \in TileType : IsWait(ts, m, type)}

IsFuriten(p) ==
  \E type \in Types(RiverOf(p)) : IsWait(HandOf(p), MeldCountOf(p), type)

\* Who may win with a tile that another player offers, if the hand has a yaku.
MayWinWith(tile) ==
  {p \in Waiters : IsCompleteWith(p, HandOf(p) \cup {tile}) /\ ~ IsFuriten(p)}

MayRobClosedKan(tile) ==
  {p \in Waiters : /\ Groups(p, placement) = {} /\ ~ IsFuriten(p)
                   /\ Kokushi(CountsOf(HandOf(p) \cup {tile}))}

\* Discards that kuikae forbids after this meld: the called type, and the other
\* end of a sequence with the same two tiles of the hand.
Kuikae(m) ==
  LET called == TypeOf(CHOOSE t \in m.called : TRUE)
      types  == Types(m.tiles)
  IN {called} \cup
       {outer \in {called - 3, called + 3} :
          /\ m.kind = "chi" /\ Suit(outer) = Suit(called)
          /\ types \subseteq outer .. called \/ types \subseteq called .. outer}

Bug_AnyDiscardAfterCall(p, pl) ==
  \E t \in Table : IsHand(pl[t]) /\ BytePlayer(pl[t]) = p

LastMeld(p, pl, d) == Meld(p, Cardinality(Groups(p, pl)) - 1, pl, d)

\* cj4_state_call_has_legal_discard, of the placements after a chi or pon
CallHasLegalDiscard(p, pl) ==
  \E t \in Table :
    /\ IsHand(pl[t]) /\ BytePlayer(pl[t]) = p
    /\ KuikaeForbidden => TypeOf(t) \notin Kuikae(LastMeld(p, pl, discard))

MayDiscard(tile) ==
  /\ InHand(current_player, {tile})
  /\ current_player \in riichi => tile = drawn
  /\ phase = "AFTER_CALL" /\ KuikaeForbidden =>
       TypeOf(tile) \notin Kuikae(LastMeld(current_player, placement, discard))

-----------------------------------------------------------------------------
(* Updates                                                                 *)

NoPao == [type |-> "NONE", player |-> 0]

TripletsIn(ms, types) ==
  Cardinality({m \in ms : m.kind # "chi" /\ Types(m.tiles) \subseteq types})

\* The hand for which somebody may be liable.
BigHand(ms) ==
  CASE TripletsIn(ms, Dragons) >= 3 -> "DAISANGEN"
    [] TripletsIn(ms, Dragons) < 3 /\ TripletsIn(ms, Winds) >= 4 -> "DAISUUSHII"
    [] /\ TripletsIn(ms, Dragons) < 3 /\ TripletsIn(ms, Winds) < 4
       /\ Cardinality({m \in ms : m.kind \in KanKinds}) >= 4 -> "SUUKANTSU"
    [] OTHER -> "NONE"

Bug_LiabilityMoves(p, from, pl) ==
  IF from = p
    THEN pao
    ELSE LET big == BigHand(MeldsOf(p, pl))
         IN IF big = "NONE" THEN pao
                            ELSE [pao EXCEPT ![p] = [type |-> big, player |-> from]]

\* cj4_state_update_pao, after a meld to which a tile came from a player
UpdatePao(p, from, pl) ==
  IF from = p \/ pao[p].type # "NONE"
    THEN pao
    ELSE LET big == BigHand(MeldsOf(p, pl))
         IN IF big = "NONE" THEN pao
                            ELSE [pao EXCEPT ![p] = [type |-> big, player |-> from]]

Place(ts, byte) == [t \in Table |-> IF t \in ts THEN byte ELSE placement[t]]

Bug_GroupByKind(p, kind) ==
  Cardinality({m \in MeldsOf(p, placement) : m.kind = kind})

NextGroup(p, kind) == MeldCountOf(p)

\* cj4_state_add_meld
AddMeldTiles(p, kind, ts, from) ==
  IF NextGroup(p, kind) < MaxMelds
    THEN /\ placement' = Place(ts, MakeMeld(p, NextGroup(p, kind), kind))
         /\ pao' = UpdatePao(p, from, placement')
    ELSE UNCHANGED <<placement, pao>>

\* cj4_state_draw_tile, cj4_state_draw_dead_wall_tile, after the placements pl
Draws(p, tile, pl) ==
  /\ placement' = [pl EXCEPT ![tile] = MakeHand(p)]
  /\ drawn' = tile

RinshanTile == WallTile(RINSHAN_INDICES[dead_wall_draw_count + 1])

\* cj4_state_record_discard; RoundFlow's DiscardBudget keeps the history from
\* being full.
RecordTile(tile, is_riichi) ==
  LET p == current_player
  IN /\ discard' = [discard EXCEPT ![tile] =
                      MakeDiscard(p, Cardinality(RiverOf(p)), tile = drawn)]
     /\ placement' = [placement EXCEPT ![tile] = LOCATION_NONE]
     /\ discard_history' = [discard_history EXCEPT ![tile] =
                              MakeDiscardHistory(Sum(discards), is_riichi)]
     /\ offered' = tile
     /\ drawn' = TILE_INVALID
     /\ kan_tile' = TILE_INVALID

-----------------------------------------------------------------------------
(* cj4_state_create_round on one of the walls *)

DealtTo(position) ==
  CASE position < 48 -> (position \div 4) % 4
    [] position \in 48 .. 51 -> position - 48
    [] position = 52 -> Dealer

TableInit ==
  /\ Init
  /\ deal \in Deals
  /\ discard = [t \in Table |-> LOCATION_NONE]
  /\ discard_history = [t \in Table |-> LOCATION_NONE]
  /\ placement = [t \in Table |-> IF deal.wall[t] < LIVE_WALL_START
                                     THEN MakeHand(DealtTo(deal.wall[t]))
                                     ELSE LOCATION_NONE]
  /\ drawn = WallTile(LIVE_WALL_START - 1)
  /\ offered = TILE_INVALID /\ kan_tile = TILE_INVALID
  /\ pao = [p \in Player |-> NoPao]

-----------------------------------------------------------------------------
(* The turn of the current player                                          *)

\* What players part with is bounded: by the tiles that the deal names while
\* they may, else by the tile just drawn, or some tile after a call.
PartsWith ==
  LET may   == {tile \in HandOf(current_player) : MayDiscard(tile)}
      named == may \cap deal.parts
  IN CASE named # {} -> named
       [] named = {} /\ drawn \in may -> {drawn}
       [] named = {} /\ drawn \notin may /\ may # {} -> {First(may)}
       [] OTHER -> {}

DiscardTile(tile) ==
  /\ CanDiscard
  /\ tile \in PartsWith
  /\ ready' \in SUBSET (MayWinWith(tile) \ {current_player})
  /\ Discard
  /\ RecordTile(tile, FALSE)
  /\ UNCHANGED <<deal, pao>>

RiichiWith(tile) ==
  /\ phase = "DRAW" /\ IsClosed(melds[current_player])
  /\ current_player \in Waiters \ riichi
  /\ tile \in PartsWith
  /\ Waits(HandOf(current_player) \ {tile}, MeldCountOf(current_player)) # {}
  /\ ready' \in SUBSET (MayWinWith(tile) \ {current_player})
  /\ Riichi
  /\ RecordTile(tile, TRUE)
  /\ UNCHANGED <<deal, pao>>

TsumoWithDrawn ==
  /\ Tsumo
  /\ IsCompleteWith(current_player, HandOf(current_player))
  /\ UNCHANGED <<deal, tableVars>>

KyuushuKyuuhaiOfTiles ==
  /\ KyuushuKyuuhai
  /\ Cardinality({type \in Types(HandOf(current_player)) : IsYaochu(type)}) >= 9
  /\ drawn' = TILE_INVALID
  /\ UNCHANGED <<deal, byteVars, offered, kan_tile, pao>>

\* In riichi a kan takes the tile just drawn and changes no wait.
KeepsWaits(p, ts) ==
  /\ drawn \in ts
  /\ LET before == Waits(HandOf(p) \ {drawn}, MeldCountOf(p))
     IN before # {} /\ before = Waits(HandOf(p) \ ts, MeldCountOf(p) + 1)

AnkanOf(type) ==
  LET p == current_player
      ts == TilesOf(type)
  IN /\ Cardinality(ts) = TILE_PER_TYPE /\ InHand(p, ts)
     /\ phase = "DRAW" /\ (p \in riichi => KeepsWaits(p, ts))
     /\ ready' \in SUBSET (MayRobClosedKan(First(ts)) \ {p})
     /\ Ankan
     /\ IF phase' = "ANKAN_RESOLVE"
          THEN kan_tile' = First(ts) /\ UNCHANGED <<placement, drawn, pao>>
          ELSE /\ AddMeldTiles(p, "ankan", ts, p)
               /\ drawn' = TILE_INVALID /\ kan_tile' = TILE_INVALID
     /\ UNCHANGED <<deal, discard, discard_history, offered>>

KakanWith(tile) ==
  LET p == current_player
  IN /\ InHand(p, {tile}) /\ phase = "DRAW" /\ melds[p].pon > 0
     /\ ready' \in SUBSET (MayWinWith(tile) \ {p})
     /\ Kakan
     /\ \E m \in MeldsOf(p, placement) :
          LET group == MeldGroup(placement[CHOOSE t \in m.tiles : TRUE])
          IN /\ m.kind = "pon" /\ Types(m.tiles) = {TypeOf(tile)}
             /\ placement' = Place(m.tiles \cup {tile}, MakeMeld(p, group, "kakan"))
             /\ pao' = UpdatePao(p, m.from, placement')
     /\ drawn' = TILE_INVALID
     /\ kan_tile' = IF phase' = "KAKAN_RESOLVE" THEN tile ELSE TILE_INVALID
     /\ UNCHANGED <<deal, discard, discard_history, offered>>

-----------------------------------------------------------------------------
(* Reactions                                                               *)

IsSequence(types) ==
  \E low \in types : StartsSequence(low) /\ types = SequenceFrom(low)

\* Equal tiles are interchangeable: this bounds the choice to the first of them.
FirstOfTheirType(p, ts) ==
  \A t \in ts, u \in HandOf(p) : TypeOf(t) = TypeOf(u) /\ u < t => u \in ts

ChiOrPonWith(p, kind, ts) ==
  /\ Cardinality(ts) = 2 /\ InHand(p, ts) /\ FirstOfTheirType(p, ts)
  /\ AddMeldTiles(p, kind, ts \cup {offered}, current_player)
  /\ CallHasLegalDiscard(p, placement')
  /\ drawn' = TILE_INVALID /\ kan_tile' = TILE_INVALID
  /\ UNCHANGED <<deal, discard, discard_history, offered>>

Pairs(ts) == {{t, u} : t, u \in ts}

ChiWith(ts) ==
  /\ IsSequence(Types(ts \cup {offered}))
  /\ Chi
  /\ ChiOrPonWith(NextPlayer(current_player), "chi", ts)

PonWith(p, ts) ==
  /\ InHand(p, ts) /\ Types(ts) = {TypeOf(offered)}
  /\ Pon(p)
  /\ ChiOrPonWith(p, "pon", ts)

MinkanOf(p) ==
  LET ts == TilesOf(TypeOf(offered)) \ {offered}
  IN /\ Cardinality(ts) = 3 /\ InHand(p, ts)
     /\ Minkan(p)
     /\ LET melded == Place(ts \cup {offered}, MakeMeld(p, NextGroup(p, "minkan"), "minkan"))
        IN /\ pao' = UpdatePao(p, current_player, melded)
           /\ IF draw_tile'
                THEN Draws(p, RinshanTile, melded)
                ELSE placement' = melded /\ drawn' = TILE_INVALID
     /\ kan_tile' = TILE_INVALID
     /\ UNCHANGED <<deal, discard, discard_history, offered>>

RonOn(claimants) ==
  /\ Ron(claimants)
  /\ kan_tile' = IF pending_kan' = "NONE" THEN TILE_INVALID ELSE kan_tile
  /\ UNCHANGED <<deal, byteVars, drawn, offered, pao>>

\* cj4_is_suufon_renda; that each has discarded once is in PassAbortReason.
SuufonRenda == \E wind \in Winds : Types(UNION {RiverOf(p) : p \in Player}) = {wind}

PassIntoAbortOfTiles ==
  /\ PassIntoAbort
  /\ round_result' = [type |-> "ABORTIVE_DRAW", reason |-> PassAbortReason(SuufonRenda)]
  /\ kan_tile' = TILE_INVALID
  /\ UNCHANGED <<deal, byteVars, drawn, offered, pao>>

PassIntoExhaustiveDrawOfTiles ==
  /\ PassAbortReason(SuufonRenda) = "NONE"
  /\ PassIntoExhaustiveDraw
  /\ kan_tile' = TILE_INVALID
  /\ UNCHANGED <<deal, byteVars, drawn, offered, pao>>

PassIntoNextDraw ==
  /\ PassAbortReason(SuufonRenda) = "NONE"
  /\ PassIntoNextTurn
  /\ Draws(NextPlayer(current_player), WallTile(LIVE_WALL_START + wall_pos), placement)
  /\ UNCHANGED <<deal, discard, discard_history, offered, kan_tile, pao>>

\* The four tiles of a closed kan are known by one of them.
RinshanDrawOfTile ==
  LET p == current_player
      ts == TilesOf(TypeOf(kan_tile))
      commits == phase = "ANKAN_RESOLVE" /\ melds' # melds
      melded == IF commits
                  THEN Place(ts, MakeMeld(p, NextGroup(p, "ankan"), "ankan"))
                  ELSE placement
  IN /\ RinshanDraw
     /\ IF phase' = "DRAW"
          THEN Draws(p, RinshanTile, melded)
          ELSE placement' = melded /\ drawn' = IF commits THEN TILE_INVALID ELSE drawn
     /\ kan_tile' = TILE_INVALID
     /\ UNCHANGED <<deal, discard, discard_history, offered, pao>>

-----------------------------------------------------------------------------
TableNext ==
  \/ \E tile \in HandOf(current_player) : DiscardTile(tile)
  \/ \E tile \in HandOf(current_player) : RiichiWith(tile)
  \/ \E tile \in HandOf(current_player) : KakanWith(tile)
  \/ TsumoWithDrawn \/ KyuushuKyuuhaiOfTiles
  \/ \E type \in TileType : AnkanOf(type)
  \/ \E ts \in Pairs(HandOf(NextPlayer(current_player))) : ChiWith(ts)
  \/ \E p \in Player : \E ts \in Pairs(TilesOf(TypeOf(offered))) : PonWith(p, ts)
  \/ \E p \in Player : MinkanOf(p)
  \/ \E claimants \in SUBSET Player : RonOn(claimants)
  \/ PassIntoAbortOfTiles \/ PassIntoExhaustiveDrawOfTiles \/ PassIntoNextDraw
  \/ RinshanDrawOfTile

TableSpec == TableInit /\ [][TableNext]_allVars

-----------------------------------------------------------------------------
(* Properties                                                              *)

\* What the bytes of the tiles say adds up to the hands, melds and discards
\* of the round: two melds that share a group, a tile left behind in a hand or
\* an index given twice would be collected as another position.
CollectsTheRound ==
  \A p \in Player :
    /\ Cardinality(HandOf(p)) = hand[p]
    /\ \A kind \in MeldKinds :
         Cardinality({m \in MeldsOf(p, placement) : m.kind = kind}) = melds[p][kind]
    /\ \A m \in MeldsOf(p, placement) :
         /\ Cardinality(m.tiles) = IF m.kind \in KanKinds THEN 4 ELSE 3
         /\ Cardinality(m.called) = IF m.kind = "ankan" THEN 0 ELSE 1
         /\ m.from = p <=> m.kind = "ankan"
    /\ {DiscardIndex(discard[t]) : t \in RiverOf(p)} = 0 .. (discards[p] - 1)
    /\ Cardinality(RiverOf(p)) = discards[p]

\* The five combinations of bytes that doc/architecture.md:172-180 admits.
EveryTileHasAPlace ==
  \A t \in Table :
    LET discarded == IsDiscard(discard[t])
        recorded  == IsDiscardHistory(discard_history[t])
    IN /\ discarded <=> recorded
       /\ ~ discarded => discard[t] = LOCATION_NONE /\ discard_history[t] = LOCATION_NONE
       /\ \/ placement[t] = LOCATION_NONE
          \/ IsHand(placement[t]) /\ ~ discarded
          \/ IsMeld(placement[t])

\* The round and its tiles agree: what is collected from the bytes, the places
\* of the tiles, the order of the discards, and the tiles held beside them.
TilesAgree ==
  /\ CollectsTheRound
  /\ EveryTileHasAPlace
  /\ {HistoryIndex(discard_history[t]) : t \in UNION {RiverOf(p) : p \in Player}}
       = 0 .. (Sum(discards) - 1)
  /\ draw_tile <=> drawn # TILE_INVALID
  /\ draw_tile => InHand(current_player, {drawn})
  /\ pending_kan = "NONE" <=> kan_tile = TILE_INVALID
  /\ phase = "DISCARD" => DiscardIndex(discard[offered]) = discards[current_player] - 1

\* Who called a tile can discard another: kuikae, which cj4_can_chi and
\* cj4_can_pon check before the call (state_call.c:38), never leaves a player
\* who has to discard and may not.
CallerCanDiscard ==
  phase = "AFTER_CALL" => \E tile \in Table : MayDiscard(tile)

\* Liability is fixed once.  It falls on the player who fed the meld of the
\* very step that sets it, and a fed meld by which three dragons, four winds or
\* four kans lie open sets it at once (state_ops.c:162).
LiabilityNamed ==
  [][ \A p \in Player :
        LET before == MeldsOf(p, placement)
            after  == MeldsOf(p, placement)'
        IN /\ pao[p] # NoPao => pao'[p] = pao[p]
           /\ pao'[p] # pao[p] =>
                \E m \in after \ before : m.from = pao'[p].player /\ m.from # p
           /\ BigHand(before) = "NONE" /\ BigHand(after) # "NONE" =>
                \A m \in after \ before :
                  m.from # p => pao'[p] = [type |-> BigHand(after), player |-> m.from]
    ]_allVars
=============================================================================
