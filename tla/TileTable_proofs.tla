-------------------------- MODULE TileTable_proofs --------------------------
(***************************************************************************)
(* A round played with tiles is a round of RoundFlow, on every wall and    *)
(* for every notion of a complete hand; kuikae never leaves a caller       *)
(* without a discard; the bytes of the tiles always agree with the round   *)
(* (TableInv, inductive).  Every step lemma also tells which tiles the     *)
(* step moves (TableMoves).  The last part rests on that: a view never     *)
(* takes back what it has shown, and who feeds a big hand is liable.       *)
(***************************************************************************)
EXTENDS PlayerView, RoundFlow_results

\* Every action moves the tiles of one action of the round.
LEMMA TableStep == [TableNext]_allVars => [Next]_vars
  <1> SUFFICES ASSUME TableNext \/ UNCHANGED allVars
               PROVE  Next \/ UNCHANGED vars
    OBVIOUS
  <1>1. CASE UNCHANGED allVars
    BY <1>1 DEF allVars
  <1>2. ASSUME NEW tile, DiscardTile(tile) \/ RiichiWith(tile) \/ KakanWith(tile)
        PROVE  Next
    BY <1>2 DEF DiscardTile, RiichiWith, KakanWith, Next
  <1>3. CASE TsumoWithDrawn \/ KyuushuKyuuhaiOfTiles \/ \E type \in TileType : AnkanOf(type)
    BY <1>3 DEF TsumoWithDrawn, KyuushuKyuuhaiOfTiles, AnkanOf, Next
  <1>4. ASSUME NEW ts, ChiWith(ts)
        PROVE  Next
    BY <1>4 DEF ChiWith, Next
  <1>5. ASSUME NEW p \in Player, NEW ts, PonWith(p, ts)
        PROVE  Next
    BY <1>5 DEF PonWith, Next
  <1>6. ASSUME NEW p \in Player, MinkanOf(p)
        PROVE  Next
    BY <1>6 DEF MinkanOf, Next
  <1>7. ASSUME NEW claimants \in SUBSET Player, RonOn(claimants)
        PROVE  Next
    BY <1>7 DEF RonOn, Next
  <1>8. CASE \/ PassIntoAbortOfTiles \/ PassIntoExhaustiveDrawOfTiles
             \/ PassIntoNextDraw \/ RinshanDrawOfTile
    BY <1>8 DEF PassIntoAbortOfTiles, PassIntoExhaustiveDrawOfTiles, PassIntoNextDraw,
                RinshanDrawOfTile, Next
  <1> QED
    BY <1>1, <1>2, <1>3, <1>4, <1>5, <1>6, <1>7, <1>8 DEF TableNext

\* A round played with tiles implements RoundFlow: what holds of its rounds
\* for any choice of hands holds whatever tiles are dealt.
THEOREM TableRefinesRound == TableSpec => Spec
  <1>1. TableInit => Init
    BY DEF TableInit
  <1>2. [TableNext]_allVars => [Next]_vars
    BY TableStep
  <1> QED
    BY <1>1, <1>2, PTL DEF TableSpec, Spec

-----------------------------------------------------------------------------
(* Kuikae                                                                   *)

\* The caller is not in riichi, not even by the riichi his call establishes.
LEMMA CallerNotInRiichi ==
  ASSUME Stakes, TypeOK, NEW p, NEW kind, ChiOrPon(p, kind)
  PROVE  p \notin riichi' /\ phase' = "AFTER_CALL" /\ current_player' = p
  <1>1. p \notin riichi /\ p # current_player
    BY DEF ChiOrPon, CanChiOrPon, CanClaimDiscard
  <1>2. riichi' = riichi \cup EstablishingPlayers
    BY DEF ChiOrPon, EstablishPendingRiichi
  <1>3. EstablishingPlayers \subseteq {current_player}
    BY OnlyTheDiscarderEstablishes
  <1>4. phase' = "AFTER_CALL" /\ current_player' = p
    BY DEF ChiOrPon, FinishOpenCall
  <1> QED
    BY <1>1, <1>2, <1>3, <1>4

\* What the call was checked for holds when it is made: the bytes are those
\* of the scratch copy that cj4_can_chi_with_tile or cj4_can_pon_with_tile made.
LEMMA CallLeavesDiscard ==
  ASSUME Stakes, TypeOK, NEW p, NEW kind, NEW ts,
         ChiOrPon(p, kind), ChiOrPonWith(p, kind, ts)
  PROVE  CallerCanDiscard'
  <1>1. p \notin riichi' /\ current_player' = p
    BY CallerNotInRiichi
  <1>2. discard' = discard /\ Table' = Table
    BY DEF ChiOrPonWith, Table
  <1>3. PICK t \in Table :
          /\ IsHand(placement'[t]) /\ BytePlayer(placement'[t]) = p
          /\ KuikaeForbidden => TypeOf(t) \notin Kuikae(LastMeld(p, placement', discard))
    BY DEF ChiOrPonWith, CallHasLegalDiscard
  <1>4. InHand(current_player, {t})'
    BY <1>1, <1>2, <1>3 DEF InHand
  <1>5. KuikaeForbidden =>
          TypeOf(t) \notin Kuikae(LastMeld(current_player, placement, discard))'
    BY <1>1, <1>2, <1>3
  <1>6. MayDiscard(t)'
    BY <1>1, <1>4, <1>5 DEF MayDiscard
  <1> QED
    BY <1>2, <1>6 DEF CallerCanDiscard

\* No other step leaves a player after a call.
LEMMA OthersLeaveNoCaller ==
  /\ Discard \/ Riichi \/ Tsumo \/ KyuushuKyuuhai => phase' # "AFTER_CALL"
  /\ Ankan \/ Kakan \/ RinshanDraw => phase' # "AFTER_CALL"
  /\ \A p : Minkan(p) => phase' # "AFTER_CALL"
  /\ \A claimants : Ron(claimants) => phase' # "AFTER_CALL"
  /\ PassIntoAbort \/ PassIntoExhaustiveDraw \/ PassIntoNextTurn => phase' # "AFTER_CALL"
  <1>1. Discard \/ Riichi \/ Tsumo \/ KyuushuKyuuhai => phase' # "AFTER_CALL"
    BY DEF Discard, Riichi, OfferDiscard, Tsumo, KyuushuKyuuhai, FinishAbortiveDraw,
           FinishDrawRound
  <1>2. Ankan \/ Kakan => phase' # "AFTER_CALL"
    BY DEF Ankan, Kakan, FinishAbortiveDraw, FinishDrawRound
  <1>3. RinshanDraw => phase' # "AFTER_CALL"
    BY DEF RinshanDraw, FinishAbortiveDraw, FinishDrawRound
  <1>4. \A p : Minkan(p) => phase' # "AFTER_CALL"
    BY DEF Minkan, FinishAbortiveDraw, FinishDrawRound
  <1>5. \A claimants : Ron(claimants) => phase' # "AFTER_CALL"
    BY DEF Ron, FinishMultiRon, FinishAbortiveDraw, FinishDrawRound
  <1>6. PassIntoAbort \/ PassIntoExhaustiveDraw \/ PassIntoNextTurn => phase' # "AFTER_CALL"
    BY DEF PassIntoAbort, PassIntoExhaustiveDraw, PassIntoNextTurn,
           FinishAbortiveDraw, FinishDrawRound
  <1> QED
    BY <1>1, <1>2, <1>3, <1>4, <1>5, <1>6

\* Every step keeps the discard of a caller: a call by its check, the others by
\* leaving no caller.
LEMMA CallerStep ==
  ASSUME Stakes, TypeOK, CallerCanDiscard, [TableNext]_allVars
  PROVE  CallerCanDiscard'
  <1>1. CASE UNCHANGED allVars
    <2>1. UNCHANGED <<deal, discard, placement, drawn, phase, current_player, riichi>>
      BY <1>1 DEF allVars, vars, turnVars, riichiVars, tableVars, byteVars
    <2>2. Table' = Table
      BY <2>1 DEF Table
    <2>3. ASSUME NEW t \in Table, MayDiscard(t)
          PROVE  MayDiscard(t)'
      BY <2>1, <2>2, <2>3 DEF MayDiscard, InHand
    <2> QED
      BY <2>1, <2>2, <2>3 DEF CallerCanDiscard
  <1>2. ASSUME NEW ts, ChiWith(ts)
        PROVE  CallerCanDiscard'
    BY <1>2, CallLeavesDiscard DEF ChiWith, Chi
  <1>3. ASSUME NEW p, NEW ts, PonWith(p, ts)
        PROVE  CallerCanDiscard'
    BY <1>3, CallLeavesDiscard DEF PonWith, Pon
  <1>4. ASSUME NEW t, DiscardTile(t) \/ RiichiWith(t) \/ KakanWith(t)
        PROVE  CallerCanDiscard'
    <2>1. Discard \/ Riichi \/ Kakan
      BY <1>4 DEF DiscardTile, RiichiWith, KakanWith
    <2> QED
      BY <2>1, OthersLeaveNoCaller DEF CallerCanDiscard
  <1>5. CASE TsumoWithDrawn \/ KyuushuKyuuhaiOfTiles \/ \E type \in TileType : AnkanOf(type)
    <2>1. Tsumo \/ KyuushuKyuuhai \/ Ankan
      BY <1>5 DEF TsumoWithDrawn, KyuushuKyuuhaiOfTiles, AnkanOf
    <2> QED
      BY <2>1, OthersLeaveNoCaller DEF CallerCanDiscard
  <1>6. ASSUME NEW p \in Player, MinkanOf(p)
        PROVE  CallerCanDiscard'
    <2>1. Minkan(p)
      BY <1>6 DEF MinkanOf
    <2> QED
      BY <2>1, OthersLeaveNoCaller DEF CallerCanDiscard
  <1>7. ASSUME NEW claimants, RonOn(claimants)
        PROVE  CallerCanDiscard'
    <2>1. Ron(claimants)
      BY <1>7 DEF RonOn
    <2> QED
      BY <2>1, OthersLeaveNoCaller DEF CallerCanDiscard
  <1>8. CASE \/ PassIntoAbortOfTiles \/ PassIntoExhaustiveDrawOfTiles
             \/ PassIntoNextDraw \/ RinshanDrawOfTile
    <2>1. PassIntoAbort \/ PassIntoExhaustiveDraw \/ PassIntoNextTurn \/ RinshanDraw
      BY <1>8 DEF PassIntoAbortOfTiles, PassIntoExhaustiveDrawOfTiles, PassIntoNextDraw,
                  RinshanDrawOfTile
    <2> QED
      BY <2>1, OthersLeaveNoCaller DEF CallerCanDiscard
  <1> QED
    BY <1>1, <1>2, <1>3, <1>4, <1>5, <1>6, <1>7, <1>8 DEF TableNext

\* Whatever wall is dealt, a player who has called chi or pon has a tile that he
\* may discard.
THEOREM CallerAlwaysCanDiscard == TableSpec => []CallerCanDiscard
  <1>1. TableInit => CallerCanDiscard
    BY DEF TableInit, Init, CallerCanDiscard
  <1>2. Stakes /\ TypeOK /\ CallerCanDiscard /\ [TableNext]_allVars => CallerCanDiscard'
    BY CallerStep
  <1>3. TableSpec => [](Stakes /\ TypeOK)
    BY TableRefinesRound, RiichiInvariant, PTL DEF RiichiInv
  <1> QED
    BY <1>1, <1>2, <1>3, PTL DEF TableSpec
-----------------------------------------------------------------------------
(* The bytes of a round                                                     *)

Bytes == 0 .. 255

\* The bytes that a tile may have.
IsPlacement(b) ==
  \/ b = LOCATION_NONE
  \/ \E p \in Player : b = MakeHand(p)
  \/ \E p \in Player, g \in 0 .. 3, kind \in MeldKinds : b = MakeMeld(p, g, kind)

IsDiscardOf(p, i, b) == b = MakeDiscard(p, i, TRUE) \/ b = MakeDiscard(p, i, FALSE)
IsEntry(i, b) == b = MakeDiscardHistory(i, TRUE) \/ b = MakeDiscardHistory(i, FALSE)

\* The tiles with a byte.
At(b, bytes) == {t \in DOMAIN bytes : bytes[t] = b}

GroupSize(kind) == IF kind \in KanKinds THEN 4 ELSE 3

\* The tile of a group that was called, if one was.
CalledIn(b, pl, d) == {t \in At(b, pl) : d[t] # LOCATION_NONE}

\* The groups of a kind.
OfKind(kind, k) == {g \in DOMAIN k : k[g] = kind}

\* The melds m of player p are groups in the bytes, numbered from zero, each
\* of the kind k says and of the size that its kind has.
Grouped(p, pl, d, m, k) ==
  /\ k \in [0 .. (MeldCount(m) - 1) -> MeldKinds]
  /\ \A kind \in MeldKinds : Cardinality(OfKind(kind, k)) = m[kind]
  /\ \A g \in 0 .. 3, kind \in MeldKinds :
       At(MakeMeld(p, g, kind), pl) # {} => g \in DOMAIN k /\ k[g] = kind
  /\ \A g \in DOMAIN k :
       LET b == MakeMeld(p, g, k[g])
       IN /\ Cardinality(At(b, pl)) = GroupSize(k[g])
          /\ Cardinality(CalledIn(b, pl, d)) = IF k[g] = "ankan" THEN 0 ELSE 1
          /\ \A t \in CalledIn(b, pl, d) : BytePlayer(d[t]) # p

\* The bytes hold the hands and the melds of all players.
Collected(pl, d, hands, ms) ==
  \A p \in Player :
    /\ Cardinality(At(MakeHand(p), pl)) = hands[p]
    /\ \E k : Grouped(p, pl, d, ms[p], k)

\* A tile has an index in a river, and an entry in the history, or neither.
DiscardsPaired(d, h) ==
  \A t \in DOMAIN d :
    \/ d[t] = LOCATION_NONE /\ h[t] = LOCATION_NONE
    \/ /\ \E p \in Player, i \in 0 .. 30 : IsDiscardOf(p, i, d[t])
       /\ \E i \in 0 .. 85 : IsEntry(i, h[t])

\* The river of player p in the bytes.
River(p, d) == {t \in DOMAIN d : IsDiscard(d[t]) /\ BytePlayer(d[t]) = p}
Discarded(d) == {t \in DOMAIN d : d[t] # LOCATION_NONE}

\* The rivers are numbered from zero, and so is the history.
Rivers(d, h, counts) ==
  /\ \A p \in Player :
       /\ {DiscardIndex(d[t]) : t \in River(p, d)} = 0 .. (counts[p] - 1)
       /\ Cardinality(River(p, d)) = counts[p]
  /\ {HistoryIndex(h[t]) : t \in Discarded(d)} = 0 .. (Sum(counts) - 1)

\* Positions of the wall from which nothing was drawn yet.
Undrawn(position, live, dead) ==
  \/ position \in (LIVE_WALL_START + live) .. 121
  \/ \E i \in (dead + 1) .. RINSHAN_TILE_COUNT : position = RINSHAN_INDICES[i]

\* The hands, melds and walls of a table T in the bytes.
Board(T, wall, pl, d, hands, ms, live, dead) ==
  /\ pl \in [T -> Bytes] /\ \A t \in T : IsPlacement(pl[t])
  /\ \A p \in Player : \A t \in At(MakeHand(p), pl) : d[t] = LOCATION_NONE
  /\ Collected(pl, d, hands, ms)
  /\ \A t \in T : Undrawn(wall[t], live, dead) =>
                    pl[t] = LOCATION_NONE /\ d[t] = LOCATION_NONE

\* The rivers and the history of a table T in the bytes.
Logged(T, d, h, counts) ==
  /\ d \in [T -> Bytes] /\ h \in [T -> Bytes]
  /\ DiscardsPaired(d, h) /\ Rivers(d, h, counts)

\* The tiles that the state names beside the bytes.
NamedTiles ==
  /\ draw_tile <=> drawn # TILE_INVALID
  /\ draw_tile => drawn \in At(MakeHand(current_player), placement)
  /\ pending_kan = "NONE" <=> kan_tile = TILE_INVALID
  /\ phase = "ANKAN_RESOLVE" =>
       /\ TilesOf(TypeOf(kan_tile)) \subseteq At(MakeHand(current_player), placement)
       /\ Cardinality(TilesOf(TypeOf(kan_tile))) = 4
  /\ phase = "DISCARD" =>
       /\ offered \in At(LOCATION_NONE, placement)
       /\ discards[current_player] > 0
       /\ IsDiscardOf(current_player, discards[current_player] - 1, discard[offered])

TableInv ==
  /\ deal \in Deals
  /\ Board(Table, deal.wall, placement, discard, hand, melds, wall_pos, dead_wall_draw_count)
  /\ Logged(Table, discard, discard_history, discards)
  /\ NamedTiles
-----------------------------------------------------------------------------
(* What the bytes say                                                       *)

\* A hand byte names its player, and nothing else.
LEMMA HandByte ==
  ASSUME NEW p \in Player
  PROVE  /\ MakeHand(p) \in 0 .. 127 /\ MakeHand(p) # LOCATION_NONE
         /\ IsHand(MakeHand(p)) /\ ~ IsMeld(MakeHand(p)) /\ BytePlayer(MakeHand(p)) = p
         /\ \A q \in Player : MakeHand(q) = MakeHand(p) => q = p
  BY DEF Player, MakeHand, LOCATION_NONE, IsHand, IsMeld, BytePlayer

\* The numbers of the kinds of melds differ.
LEMMA KindNumbers ==
  /\ \A kind \in MeldKinds : MeldType[kind] \in 0 .. 4
  /\ \A j, kind \in MeldKinds : MeldType[j] = MeldType[kind] => j = kind
  BY DEF MeldKinds, MeldType

\* A meld byte names its player, its group and its kind.
LEMMA MeldByte ==
  ASSUME NEW p \in Player, NEW g \in 0 .. 3, NEW kind \in MeldKinds
  PROVE  LET b == MakeMeld(p, g, kind)
         IN /\ b \in 128 .. 254
            /\ IsMeld(b) /\ ~ IsHand(b)
            /\ BytePlayer(b) = p /\ MeldGroup(b) = g /\ MeldKind(b) = kind
  <1> DEFINE n == MeldType[kind]
             b == 128 + 32 * p + 8 * g + n
  <1>1. n \in 0 .. 4
    BY KindNumbers
  <1>2. /\ p = 0 \/ p = 1 \/ p = 2 \/ p = 3
        /\ g = 0 \/ g = 1 \/ g = 2 \/ g = 3
    BY DEF Player
  <1> HIDE DEF n
  <1>0. b \in 128 .. 254
    BY <1>1, <1>2
  <1>3. b % 8 = n
    BY ONLY <1>1, <1>2
  <1>4. (b \div 8) % 4 = g
    BY <1>1, <1>2
  <1>5. (b \div 32) % 4 = p
    BY <1>1, <1>2
  <1>6. MakeMeld(p, g, kind) = b
    BY DEF MakeMeld, n
  <1>7. \A j \in MeldKinds : MeldType[j] = n <=> j = kind
    BY KindNumbers DEF n
  <1>8. MeldKind(b) = kind
    BY <1>3, <1>7 DEF MeldKind
  <1> HIDE DEF b
  <1>9. IsMeld(b) /\ ~ IsHand(b) /\ BytePlayer(b) = p /\ MeldGroup(b) = g
    BY <1>0, <1>1, <1>3, <1>4, <1>5 DEF IsMeld, IsHand, BytePlayer, MeldGroup
  <1> QED
    BY <1>0, <1>6, <1>8, <1>9

\* Melds of other players, groups or kinds have other bytes.
LEMMA MeldBytesDiffer ==
  ASSUME NEW p \in Player, NEW g \in 0 .. 3, NEW kind \in MeldKinds,
         NEW q \in Player, NEW h \in 0 .. 3, NEW j \in MeldKinds,
         MakeMeld(p, g, kind) = MakeMeld(q, h, j)
  PROVE  p = q /\ g = h /\ kind = j
  <1> DEFINE b == MakeMeld(p, g, kind)
             c == MakeMeld(q, h, j)
  <1>1. BytePlayer(b) = p /\ MeldGroup(b) = g /\ MeldKind(b) = kind
    BY MeldByte
  <1>2. BytePlayer(c) = q /\ MeldGroup(c) = h /\ MeldKind(c) = j
    BY MeldByte
  <1> QED
    BY <1>1, <1>2

\* A discard byte names its player and its index in the river.
LEMMA DiscardByte ==
  ASSUME NEW p \in Player, NEW i \in 0 .. 30, NEW b, IsDiscardOf(p, i, b)
  PROVE  /\ b \in 0 .. 255 /\ b # LOCATION_NONE
         /\ IsDiscard(b) /\ BytePlayer(b) = p /\ DiscardIndex(b) = i
  <1>1. p = 0 \/ p = 1 \/ p = 2 \/ p = 3
    BY DEF Player
  <1>2. b = 32 * p + i \/ b = 128 + 32 * p + i
    BY <1>1 DEF IsDiscardOf, MakeDiscard
  <1>3. b \in 0 .. 254 /\ b % 32 = i
    <2>1. b \in 0 .. 254
      BY <1>1, <1>2
    <2>2. b % 32 = i
      BY <1>1, <1>2
    <2> QED
      BY <2>1, <2>2
  <1>4. (b \div 32) % 4 = p
    BY <1>1, <1>2
  <1> QED
    BY <1>3, <1>4 DEF IsDiscard, BytePlayer, DiscardIndex, LOCATION_NONE

\* A history byte names its entry.
LEMMA HistoryByte ==
  ASSUME NEW i \in 0 .. 85, NEW b, IsEntry(i, b)
  PROVE  /\ b # LOCATION_NONE
         /\ IsDiscardHistory(b) /\ HistoryIndex(b) = i
  BY DEF IsEntry, MakeDiscardHistory, LOCATION_NONE, IsDiscardHistory, HistoryIndex

\* The byte of no location is no hand, meld, discard or entry.
LEMMA NoneByte ==
  /\ ~ IsHand(LOCATION_NONE) /\ ~ IsMeld(LOCATION_NONE)
  /\ ~ IsDiscard(LOCATION_NONE) /\ ~ IsDiscardHistory(LOCATION_NONE)
  BY DEF LOCATION_NONE, IsHand, IsMeld, IsDiscard, IsDiscardHistory

\* What a placement byte says.
LEMMA PlacementByte ==
  ASSUME NEW b, IsPlacement(b), NEW p \in Player
  PROVE  /\ IsHand(b) /\ BytePlayer(b) = p <=> b = MakeHand(p)
         /\ IsMeld(b) /\ BytePlayer(b) = p <=>
              \E g \in 0 .. 3, kind \in MeldKinds : b = MakeMeld(p, g, kind)
         /\ b = LOCATION_NONE \/ IsHand(b) \/ IsMeld(b)
  <1>1. CASE b = LOCATION_NONE
    BY <1>1, NoneByte, HandByte, MeldByte
  <1>2. CASE \E q \in Player : b = MakeHand(q)
    BY <1>2, HandByte, MeldByte
  <1>3. CASE \E q \in Player, g \in 0 .. 3, kind \in MeldKinds : b = MakeMeld(q, g, kind)
    BY <1>3, HandByte, MeldByte
  <1> QED
    BY <1>1, <1>2, <1>3 DEF IsPlacement
-----------------------------------------------------------------------------
(* Moving tiles                                                             *)

\* The hand bytes and meld bytes of the players, all different.
LEMMA BytesDiffer ==
  ASSUME NEW p \in Player, NEW q \in Player, NEW g \in 0 .. 3, NEW kind \in MeldKinds
  PROVE  /\ MakeHand(p) \in Bytes /\ MakeMeld(p, g, kind) \in Bytes
         /\ LOCATION_NONE \in Bytes
         /\ MakeHand(p) # MakeMeld(q, g, kind)
         /\ MakeHand(p) # LOCATION_NONE /\ MakeMeld(p, g, kind) # LOCATION_NONE
         /\ p # q => MakeHand(p) # MakeHand(q)
  BY HandByte, MeldByte DEF Bytes, LOCATION_NONE

\* The tiles ts of the table T get a byte.
Moves(T, ts, b, pl, after) ==
  /\ IsFiniteSet(T) /\ ts \subseteq T
  /\ pl \in [T -> Bytes] /\ after \in [T -> Bytes]
  /\ \A t \in T : after[t] = IF t \in ts THEN b ELSE pl[t]

\* Tiles with another byte leave theirs.
LEMMA Moved ==
  ASSUME NEW T, NEW ts, NEW b, NEW pl, NEW after, Moves(T, ts, b, pl, after)
  PROVE  \A c : /\ IsFiniteSet(At(c, pl)) /\ IsFiniteSet(At(c, after))
                /\ At(c, after) = IF c = b THEN At(c, pl) \cup ts ELSE At(c, pl) \ ts
  <1>1. \A c : At(c, pl) \subseteq T /\ At(c, after) \subseteq T
    BY DEF At, Moves
  <1>2. \A c : IsFiniteSet(At(c, pl)) /\ IsFiniteSet(At(c, after))
    BY <1>1, FS_Subset DEF Moves
  <1>3. \A c : At(c, after) = IF c = b THEN At(c, pl) \cup ts ELSE At(c, pl) \ ts
    BY DEF At, Moves
  <1> QED
    BY <1>2, <1>3

\* The meld bytes of player p, and the discards of his melded tiles, stay.
SameMelds(p, pl, d, after, e) ==
  \A g \in 0 .. 3, kind \in MeldKinds :
    /\ At(MakeMeld(p, g, kind), after) = At(MakeMeld(p, g, kind), pl)
    /\ \A t \in At(MakeMeld(p, g, kind), pl) : e[t] = d[t]

\* Then the player has the same melds.
LEMMA GroupsKept ==
  ASSUME NEW p \in Player, NEW pl, NEW d, NEW m \in MeldRecords, NEW k,
         Grouped(p, pl, d, m, k), MeldCount(m) <= 4,
         NEW after, NEW e, SameMelds(p, pl, d, after, e)
  PROVE  Grouped(p, after, e, m, k)
  <1>1. /\ MeldCount(m) \in Nat
        /\ k \in [0 .. (MeldCount(m) - 1) -> MeldKinds]
        /\ DOMAIN k = 0 .. (MeldCount(m) - 1)
    BY MeldCountType DEF Grouped
  <1>2. \A g \in DOMAIN k : g \in 0 .. 3 /\ k[g] \in MeldKinds
    BY <1>1
  <1>3. \A g \in DOMAIN k :
          LET b == MakeMeld(p, g, k[g])
          IN /\ At(b, after) = At(b, pl)
             /\ CalledIn(b, after, e) = CalledIn(b, pl, d)
             /\ \A t \in CalledIn(b, pl, d) : e[t] = d[t]
    <2> TAKE g \in DOMAIN k
    <2> DEFINE b == MakeMeld(p, g, k[g])
    <2>1. At(b, after) = At(b, pl) /\ \A t \in At(b, pl) : e[t] = d[t]
      BY <1>2 DEF SameMelds
    <2> QED
      BY <2>1 DEF CalledIn
  <1>4. \A g \in DOMAIN k :
          LET b == MakeMeld(p, g, k[g])
          IN /\ Cardinality(At(b, after)) = GroupSize(k[g])
             /\ Cardinality(CalledIn(b, after, e)) = IF k[g] = "ankan" THEN 0 ELSE 1
             /\ \A t \in CalledIn(b, after, e) : BytePlayer(e[t]) # p
    BY <1>3 DEF Grouped
  <1>5. \A g \in 0 .. 3, kind \in MeldKinds :
          At(MakeMeld(p, g, kind), after) # {} => g \in DOMAIN k /\ k[g] = kind
    BY DEF Grouped, SameMelds
  <1>6. \A kind \in MeldKinds : Cardinality(OfKind(kind, k)) = m[kind]
    BY DEF Grouped
  <1> QED
    BY <1>1, <1>4, <1>5, <1>6 DEF Grouped

\* The counts of tiles and melds of all players.
CountsOK(hands, ms) ==
  /\ hands \in [Player -> Int] /\ ms \in [Player -> MeldRecords]
  /\ \A p \in Player : MeldCount(ms[p]) <= 4

\* The hand of player p changes by n tiles.
HandChanges(p, n, hands, new) ==
  /\ new[p] = hands[p] + n
  /\ \A q \in Player \ {p} : new[q] = hands[q]

\* A tile from the wall is one more in the hand that draws it.
LEMMA DrawCollected ==
  ASSUME NEW T, NEW pl, NEW d, NEW hands, NEW ms, NEW p \in Player, NEW t,
         CountsOK(hands, ms), Collected(pl, d, hands, ms),
         t \in At(LOCATION_NONE, pl),
         NEW after, Moves(T, {t}, MakeHand(p), pl, after),
         NEW new, HandChanges(p, 1, hands, new)
  PROVE  Collected(after, d, new, ms)
  <1>1. \A c : /\ IsFiniteSet(At(c, pl))
               /\ At(c, after) = IF c = MakeHand(p) THEN At(c, pl) \cup {t} ELSE At(c, pl) \ {t}
    BY Moved
  <1>2. \A c : t \in At(c, pl) => c = LOCATION_NONE
    BY DEF At
  <1>3. ASSUME NEW q \in Player
        PROVE  Cardinality(At(MakeHand(q), after)) = new[q]
    <2>1. t \notin At(MakeHand(q), pl)
      BY <1>2, HandByte
    <2>2. Cardinality(At(MakeHand(q), pl)) = hands[q] /\ hands[q] \in Int
      BY DEF Collected, CountsOK
    <2>3. CASE q = p
      <3>1. At(MakeHand(q), after) = At(MakeHand(q), pl) \cup {t}
        BY <1>1, <2>3
      <3>2. Cardinality(At(MakeHand(q), pl) \cup {t}) = Cardinality(At(MakeHand(q), pl)) + 1
        BY <1>1, <2>1, FS_AddElement
      <3> QED
        BY <2>2, <2>3, <3>1, <3>2 DEF HandChanges
    <2>4. CASE q # p
      <3>1. MakeHand(q) # MakeHand(p)
        BY <2>4, HandByte
      <3>2. At(MakeHand(q), after) = At(MakeHand(q), pl)
        BY <1>1, <2>1, <3>1
      <3> QED
        BY <2>2, <2>4, <3>2 DEF HandChanges
    <2> QED
      BY <2>3, <2>4
  <1>4. ASSUME NEW q \in Player
        PROVE  \E k : Grouped(q, after, d, ms[q], k)
    <2>1. PICK k : Grouped(q, pl, d, ms[q], k)
      BY DEF Collected
    <2>2. ASSUME NEW g \in 0 .. 3, NEW kind \in MeldKinds
          PROVE  At(MakeMeld(q, g, kind), after) = At(MakeMeld(q, g, kind), pl)
      <3>1. t \notin At(MakeMeld(q, g, kind), pl)
        BY <1>2, BytesDiffer
      <3>2. MakeMeld(q, g, kind) # MakeHand(p)
        BY BytesDiffer
      <3> QED
        BY <1>1, <3>1, <3>2
    <2>3. SameMelds(q, pl, d, after, d)
      BY <2>2 DEF SameMelds
    <2>4. ms[q] \in MeldRecords /\ MeldCount(ms[q]) <= 4
      BY DEF CountsOK
    <2> QED
      BY <2>1, <2>3, <2>4, GroupsKept
  <1> QED
    BY <1>3, <1>4 DEF Collected

\* A discard is one less in the hand that parts with it.
LEMMA DiscardCollected ==
  ASSUME NEW T, NEW pl, NEW d, NEW hands, NEW ms, NEW p \in Player, NEW t,
         CountsOK(hands, ms), Collected(pl, d, hands, ms),
         t \in At(MakeHand(p), pl),
         NEW after, Moves(T, {t}, LOCATION_NONE, pl, after),
         NEW e, \A s \in T \ {t} : e[s] = d[s],
         NEW new, HandChanges(p, -1, hands, new)
  PROVE  Collected(after, e, new, ms)
  <1>1. \A c : /\ IsFiniteSet(At(c, pl)) /\ At(c, pl) \subseteq T
               /\ At(c, after) = IF c = LOCATION_NONE THEN At(c, pl) \cup {t} ELSE At(c, pl) \ {t}
    <2>1. \A c : At(c, pl) \subseteq T
      BY DEF At, Moves
    <2> QED
      BY <2>1, Moved
  <1>2. \A c : t \in At(c, pl) <=> c = MakeHand(p)
    BY DEF At
  <1>3. ASSUME NEW q \in Player
        PROVE  Cardinality(At(MakeHand(q), after)) = new[q]
    <2>1. At(MakeHand(q), after) = At(MakeHand(q), pl) \ {t}
      BY <1>1, HandByte
    <2>2. Cardinality(At(MakeHand(q), pl)) = hands[q] /\ hands[q] \in Int
      BY DEF Collected, CountsOK
    <2>3. new[q] = IF q = p THEN hands[q] - 1 ELSE hands[q]
      BY DEF HandChanges, CountsOK
    <2>4. t \in At(MakeHand(q), pl) <=> q = p
      BY <1>2, HandByte
    <2>5. Cardinality(At(MakeHand(q), pl) \ {t})
            = IF q = p THEN Cardinality(At(MakeHand(q), pl)) - 1
                       ELSE Cardinality(At(MakeHand(q), pl))
      BY <1>1, <2>4, FS_RemoveElement
    <2> QED
      BY <2>1, <2>2, <2>3, <2>5
  <1>4. ASSUME NEW q \in Player
        PROVE  \E k : Grouped(q, after, e, ms[q], k)
    <2>1. PICK k : Grouped(q, pl, d, ms[q], k)
      BY DEF Collected
    <2>2. ASSUME NEW g \in 0 .. 3, NEW kind \in MeldKinds
          PROVE  /\ At(MakeMeld(q, g, kind), after) = At(MakeMeld(q, g, kind), pl)
                 /\ \A s \in At(MakeMeld(q, g, kind), pl) : e[s] = d[s]
      <3>1. t \notin At(MakeMeld(q, g, kind), pl)
        BY <1>2, BytesDiffer
      <3>2. MakeMeld(q, g, kind) # LOCATION_NONE
        BY BytesDiffer
      <3>3. At(MakeMeld(q, g, kind), after) = At(MakeMeld(q, g, kind), pl)
        BY <1>1, <3>1, <3>2
      <3>4. \A s \in At(MakeMeld(q, g, kind), pl) : s \in T \ {t}
        BY <1>1, <3>1
      <3> QED
        BY <3>3, <3>4
    <2>3. SameMelds(q, pl, d, after, e)
      BY <2>2 DEF SameMelds
    <2>4. ms[q] \in MeldRecords /\ MeldCount(ms[q]) <= 4
      BY DEF CountsOK
    <2> QED
      BY <2>1, <2>3, <2>4, GroupsKept
  <1> QED
    BY <1>3, <1>4 DEF Collected

\* The melds of player p change from ms[p] to m.
MeldsChange(p, m, ms, after) ==
  /\ after[p] = m
  /\ \A q \in Player \ {p} : after[q] = ms[q]

\* The number of groups of a kind when one more group is added to k.
LEMMA GroupAdded ==
  ASSUME NEW n \in Nat, NEW k \in [0 .. (n - 1) -> MeldKinds], NEW kind \in MeldKinds,
         NEW j \in [0 .. n -> MeldKinds], j[n] = kind, \A g \in 0 .. (n - 1) : j[g] = k[g],
         NEW i \in MeldKinds
  PROVE  Cardinality(OfKind(i, j))
           = Cardinality(OfKind(i, k)) + (IF i = kind THEN 1 ELSE 0)
  <1> DEFINE before == OfKind(i, k)
             now    == OfKind(i, j)
  <1>1. IsFiniteSet(before)
    <2>1. IsFiniteSet(0 .. (n - 1))
      BY FS_Interval
    <2> QED
      BY <2>1, FS_Subset DEF OfKind
  <1>2. Cardinality(before) \in Nat
    BY <1>1, FS_CardinalityType
  <1>3. n \notin before
    BY DEF OfKind
  <1>4. \A g : g \in 0 .. n <=> g \in 0 .. (n - 1) \/ g = n
    OBVIOUS
  <1>5. now = IF i = kind THEN before \cup {n} ELSE before
    BY <1>4 DEF OfKind
  <1>6. Cardinality(before \cup {n}) = Cardinality(before) + 1
    BY <1>1, <1>3, FS_AddElement
  <1>7. Cardinality(now) = Cardinality(before) + (IF i = kind THEN 1 ELSE 0)
    <2> HIDE DEF now, before
    <2> QED
      BY <1>2, <1>5, <1>6
  <1> QED
    BY <1>7

\* The number of groups of a kind when the group h of k changes its kind.
LEMMA GroupChanged ==
  ASSUME NEW n \in Nat, NEW k \in [0 .. (n - 1) -> MeldKinds], NEW h \in 0 .. (n - 1),
         NEW j \in [0 .. (n - 1) -> MeldKinds], j[h] # k[h],
         \A g \in 0 .. (n - 1) \ {h} : j[g] = k[g],
         NEW i \in MeldKinds
  PROVE  Cardinality(OfKind(i, j))
           = Cardinality(OfKind(i, k))
               + (IF i = j[h] THEN 1 ELSE IF i = k[h] THEN -1 ELSE 0)
  <1> DEFINE before == OfKind(i, k)
             now    == OfKind(i, j)
  <1>1. IsFiniteSet(before)
    <2>1. IsFiniteSet(0 .. (n - 1))
      BY FS_Interval
    <2> QED
      BY <2>1, FS_Subset DEF OfKind
  <1>2. Cardinality(before) \in Nat
    BY <1>1, FS_CardinalityType
  <1>3. CASE i = j[h]
    <2>1. now = before \cup {h} /\ h \notin before
      BY <1>3 DEF OfKind
    <2> HIDE DEF now, before
    <2>2. Cardinality(now) = Cardinality(before) + 1
      BY <1>1, <2>1, FS_AddElement
    <2> QED
      BY <1>3, <2>2 DEF now, before
  <1>4. CASE i # j[h] /\ i = k[h]
    <2>1. now = before \ {h} /\ h \in before
      BY <1>4 DEF OfKind
    <2> HIDE DEF now, before
    <2>2. Cardinality(now) = Cardinality(before) - 1
      BY <1>1, <2>1, FS_RemoveElement
    <2>3. Cardinality(now) = Cardinality(before) + (-1)
      BY <1>2, <2>2
    <2> QED
      BY <1>4, <2>3 DEF now, before
  <1>5. CASE i # j[h] /\ i # k[h]
    <2>1. now = before
      BY <1>5 DEF OfKind
    <2> HIDE DEF now, before
    <2>2. Cardinality(now) = Cardinality(before) + 0
      BY <1>2, <2>1
    <2> QED
      BY <1>5, <2>2 DEF now, before
  <1> QED
    BY <1>3, <1>4, <1>5

\* Tiles from the hand of player p, with a tile another has discarded unless
\* the kind is a closed kan.
Meldable(p, kind, ts, pl, d) ==
  /\ Cardinality(ts) = GroupSize(kind)
  /\ \A t \in ts : pl[t] \in {MakeHand(p), LOCATION_NONE}
  /\ Cardinality({t \in ts : d[t] # LOCATION_NONE}) = IF kind = "ankan" THEN 0 ELSE 1
  /\ \A t \in ts : d[t] # LOCATION_NONE => BytePlayer(d[t]) # p

\* The player who melds has the groups k and the new one.
LEMMA GroupedWithNew ==
  ASSUME NEW T, NEW pl, NEW d, NEW p \in Player, NEW m \in MeldRecords, NEW k,
         Grouped(p, pl, d, m, k), MeldCount(m) < 4,
         NEW kind \in MeldKinds, NEW ts, Meldable(p, kind, ts, pl, d),
         NEW after, Moves(T, ts, MakeMeld(p, MeldCount(m), kind), pl, after)
  PROVE  Grouped(p, after, d, [m EXCEPT ![kind] = @ + 1],
                 [g \in 0 .. MeldCount(m) |-> IF g = MeldCount(m) THEN kind ELSE k[g]])
  <1> DEFINE n == MeldCount(m)
             b == MakeMeld(p, n, kind)
             r == [m EXCEPT ![kind] = @ + 1]
             j == [g \in 0 .. n |-> IF g = n THEN kind ELSE k[g]]
  <1>1. n \in 0 .. 3
    BY MeldCountType
  <1>2. /\ k \in [0 .. (n - 1) -> MeldKinds] /\ DOMAIN k = 0 .. (n - 1)
    BY DEF Grouped
  <1>3. j \in [0 .. n -> MeldKinds] /\ j[n] = kind /\ \A g \in 0 .. (n - 1) : j[g] = k[g]
    BY <1>1, <1>2
  <1>4. MeldCount(r) = n + 1 /\ r \in MeldRecords
    BY OneMoreMeld
  <1>5. \A i \in MeldKinds : r[i] = m[i] + (IF i = kind THEN 1 ELSE 0)
    BY DEF MeldRecords
  <1> HIDE DEF j, r
  <1>6. \A i \in MeldKinds : Cardinality(OfKind(i, j)) = r[i]
    <2> TAKE i \in MeldKinds
    <2>1. Cardinality(OfKind(i, j))
            = Cardinality(OfKind(i, k)) + (IF i = kind THEN 1 ELSE 0)
      BY <1>1, <1>2, <1>3, GroupAdded
    <2> QED
      BY <1>5, <2>1 DEF Grouped
  <1>7. \A c : At(c, after) = IF c = b THEN At(c, pl) \cup ts ELSE At(c, pl) \ ts
    BY Moved
  <1>8. ASSUME NEW g \in 0 .. 3, NEW i \in MeldKinds
        PROVE  /\ ts \cap At(MakeMeld(p, g, i), pl) = {}
               /\ MakeMeld(p, g, i) = b <=> g = n /\ i = kind
    <2>1. \A t \in ts : pl[t] # MakeMeld(p, g, i)
      BY BytesDiffer DEF Meldable
    <2>2. MakeMeld(p, g, i) = b => g = n /\ i = kind
      BY <1>1, MeldBytesDiffer
    <2> QED
      BY <2>1, <2>2 DEF At
  <1>9. At(b, pl) = {}
    BY <1>1, <1>2 DEF Grouped
  <1>10. At(b, after) = ts
    BY <1>7, <1>9
  <1>11. ASSUME NEW g \in 0 .. 3, NEW i \in MeldKinds, ~ (g = n /\ i = kind)
         PROVE  At(MakeMeld(p, g, i), after) = At(MakeMeld(p, g, i), pl)
    BY <1>7, <1>8, <1>11
  <1>12. ASSUME NEW g \in 0 .. 3, NEW i \in MeldKinds, At(MakeMeld(p, g, i), after) # {}
         PROVE  g \in DOMAIN j /\ j[g] = i
    <2>1. CASE g = n /\ i = kind
      BY <1>1, <1>3, <2>1
    <2>2. CASE ~ (g = n /\ i = kind)
      <3>1. g \in DOMAIN k /\ k[g] = i
        BY <1>11, <1>12, <2>2 DEF Grouped
      <3> QED
        BY <1>1, <1>2, <1>3, <3>1
    <2> QED
      BY <2>1, <2>2
  <1>13. ASSUME NEW g \in DOMAIN j
         PROVE  LET c == MakeMeld(p, g, j[g])
                IN /\ Cardinality(At(c, after)) = GroupSize(j[g])
                   /\ Cardinality(CalledIn(c, after, d)) = IF j[g] = "ankan" THEN 0 ELSE 1
                   /\ \A t \in CalledIn(c, after, d) : BytePlayer(d[t]) # p
    <2>1. CASE g = n
      <3>1. CalledIn(b, after, d) = {t \in ts : d[t] # LOCATION_NONE}
        BY <1>10 DEF CalledIn
      <3>2. MakeMeld(p, g, j[g]) = b /\ j[g] = kind
        BY <1>3, <2>1
      <3> QED
        BY <1>10, <3>1, <3>2 DEF Meldable
    <2>2. CASE g # n
      <3>1. g \in DOMAIN k /\ g \in 0 .. 3 /\ j[g] = k[g] /\ k[g] \in MeldKinds
        BY <1>1, <1>2, <1>3, <2>2
      <3> DEFINE c == MakeMeld(p, g, k[g])
      <3>2. At(c, after) = At(c, pl)
        BY <1>11, <2>2, <3>1
      <3>3. CalledIn(c, after, d) = CalledIn(c, pl, d)
        BY <3>2 DEF CalledIn
      <3> QED
        BY <3>1, <3>2, <3>3 DEF Grouped
    <2> QED
      BY <2>1, <2>2
  <1>14. 0 .. (MeldCount(r) - 1) = 0 .. n
    BY <1>1, <1>4
  <1>15. Grouped(p, after, d, r, j)
    BY <1>3, <1>6, <1>12, <1>13, <1>14 DEF Grouped
  <1> QED
    BY <1>15 DEF j, r

\* The byte is neither of the hand nor of a meld of player q.
NotOf(q, b) ==
  /\ b # MakeHand(q)
  /\ \A g \in 0 .. 3, kind \in MeldKinds : b # MakeMeld(q, g, kind)

\* The bytes of other players' hands and melds stay when tiles that are theirs
\* neither before nor after get a byte.
LEMMA OthersKept ==
  ASSUME NEW T, NEW ts, NEW b, NEW pl, NEW d, NEW after, Moves(T, ts, b, pl, after),
         NEW hands, NEW ms, CountsOK(hands, ms), Collected(pl, d, hands, ms),
         NEW q \in Player, NotOf(q, b), \A t \in ts : NotOf(q, pl[t])
  PROVE  /\ At(MakeHand(q), after) = At(MakeHand(q), pl)
         /\ \E k : Grouped(q, after, d, ms[q], k)
  <1>1. \A c : At(c, after) = IF c = b THEN At(c, pl) \cup ts ELSE At(c, pl) \ ts
    BY Moved
  <1>2. \A t \in ts : \A c : t \in At(c, pl) => c = pl[t]
    BY DEF At
  <1>3. At(MakeHand(q), after) = At(MakeHand(q), pl)
    BY <1>1, <1>2 DEF NotOf
  <1>4. \A g \in 0 .. 3, kind \in MeldKinds :
          At(MakeMeld(q, g, kind), after) = At(MakeMeld(q, g, kind), pl)
    BY <1>1, <1>2 DEF NotOf
  <1>5. SameMelds(q, pl, d, after, d)
    BY <1>4 DEF SameMelds
  <1>6. PICK k : Grouped(q, pl, d, ms[q], k)
    BY DEF Collected
  <1>7. ms[q] \in MeldRecords /\ MeldCount(ms[q]) <= 4
    BY DEF CountsOK
  <1> QED
    BY <1>3, <1>5, <1>6, <1>7, GroupsKept

\* A meld takes its tiles from the hand, but for the called one, and is the
\* next group.
LEMMA MeldCollected ==
  ASSUME NEW T, NEW pl, NEW d, NEW hands, NEW ms, NEW p \in Player, NEW kind \in MeldKinds,
         CountsOK(hands, ms), Collected(pl, d, hands, ms), MeldCount(ms[p]) < 4,
         NEW ts, Meldable(p, kind, ts, pl, d),
         NEW after, Moves(T, ts, MakeMeld(p, MeldCount(ms[p]), kind), pl, after),
         NEW new, HandChanges(p, -Cardinality(ts \cap At(MakeHand(p), pl)), hands, new),
         NEW melded, MeldsChange(p, [ms[p] EXCEPT ![kind] = @ + 1], ms, melded)
  PROVE  Collected(after, d, new, melded)
  <1> DEFINE b == MakeMeld(p, MeldCount(ms[p]), kind)
             h == At(MakeHand(p), pl)
  <1>1. ms[p] \in MeldRecords /\ MeldCount(ms[p]) \in 0 .. 3
    BY MeldCountType DEF CountsOK
  <1>2. PICK k : Grouped(p, pl, d, ms[p], k)
    BY DEF Collected
  <1>3. \E j : Grouped(p, after, d, melded[p], j)
    <2>1. Grouped(p, after, d, [ms[p] EXCEPT ![kind] = @ + 1],
                  [g \in 0 .. MeldCount(ms[p]) |-> IF g = MeldCount(ms[p]) THEN kind ELSE k[g]])
      BY <1>1, <1>2, GroupedWithNew
    <2> QED
      BY <2>1 DEF MeldsChange
  <1>4. \A c : /\ IsFiniteSet(At(c, pl))
               /\ At(c, after) = IF c = b THEN At(c, pl) \cup ts ELSE At(c, pl) \ ts
    BY Moved
  <1>5. Cardinality(At(MakeHand(p), after)) = new[p]
    <2>1. MakeHand(p) # b
      BY <1>1, BytesDiffer
    <2>2. At(MakeHand(p), after) = h \ ts
      BY <1>4, <2>1
    <2>3. /\ Cardinality(h \ ts) = Cardinality(h) - Cardinality(h \cap ts)
          /\ h \cap ts = ts \cap h
      BY <1>4, FS_Difference
    <2>4. Cardinality(h) = hands[p] /\ hands[p] \in Int
      BY DEF Collected, CountsOK
    <2>5. Cardinality(h \cap ts) \in Nat
      BY <1>4, FS_Intersection, FS_CardinalityType
    <2> QED
      BY <2>2, <2>3, <2>4, <2>5 DEF HandChanges
  <1>6. ASSUME NEW q \in Player \ {p}
        PROVE  /\ Cardinality(At(MakeHand(q), after)) = new[q]
               /\ \E j : Grouped(q, after, d, melded[q], j)
    <2>1. \A t \in ts : pl[t] = MakeHand(p) \/ pl[t] = LOCATION_NONE
      BY DEF Meldable
    <2>2. b # MakeHand(q) /\ MakeHand(p) # MakeHand(q) /\ LOCATION_NONE # MakeHand(q)
      BY <1>1, BytesDiffer
    <2>3. \A g \in 0 .. 3, j \in MeldKinds : b # MakeMeld(q, g, j)
      BY <1>1, MeldBytesDiffer
    <2>4. \A g \in 0 .. 3, j \in MeldKinds :
            MakeHand(p) # MakeMeld(q, g, j) /\ LOCATION_NONE # MakeMeld(q, g, j)
      BY BytesDiffer
    <2>6. NotOf(q, b) /\ \A t \in ts : NotOf(q, pl[t])
      BY <2>1, <2>2, <2>3, <2>4 DEF NotOf
    <2>5. /\ At(MakeHand(q), after) = At(MakeHand(q), pl)
          /\ \E j : Grouped(q, after, d, ms[q], j)
      BY <2>6, OthersKept
    <2> QED
      BY <2>5 DEF Collected, HandChanges, MeldsChange
  <1> QED
    BY <1>3, <1>5, <1>6 DEF Collected

\* The player who adds a kan has the same groups, one of them a kakan.
LEMMA GroupedWithKakan ==
  ASSUME NEW T, NEW pl, NEW d, NEW p \in Player, NEW m \in MeldRecords, NEW k,
         Grouped(p, pl, d, m, k), MeldCount(m) <= 4,
         NEW h \in DOMAIN k, k[h] = "pon",
         NEW t, t \in At(MakeHand(p), pl), d[t] = LOCATION_NONE,
         NEW after,
         Moves(T, At(MakeMeld(p, h, "pon"), pl) \cup {t}, MakeMeld(p, h, "kakan"), pl, after)
  PROVE  Grouped(p, after, d, [m EXCEPT !["pon"] = @ - 1, !["kakan"] = @ + 1],
                 [k EXCEPT ![h] = "kakan"])
  <1> DEFINE n  == MeldCount(m)
             b  == MakeMeld(p, h, "kakan")
             ts == At(MakeMeld(p, h, "pon"), pl)
             r  == [m EXCEPT !["pon"] = @ - 1, !["kakan"] = @ + 1]
             j  == [k EXCEPT ![h] = "kakan"]
  <1>1. /\ n \in Nat /\ n <= 4
        /\ k \in [0 .. (n - 1) -> MeldKinds] /\ DOMAIN k = 0 .. (n - 1)
        /\ h \in 0 .. (n - 1) /\ h \in 0 .. 3
    BY MeldCountType DEF Grouped
  <1>2. /\ j \in [0 .. (n - 1) -> MeldKinds] /\ j[h] = "kakan" /\ DOMAIN j = DOMAIN k
        /\ j[h] # k[h]
        /\ \A g \in 0 .. (n - 1) \ {h} : j[g] = k[g]
    BY <1>1 DEF MeldKinds
  <1>3. /\ r.chi = m.chi /\ r.minkan = m.minkan /\ r.ankan = m.ankan
        /\ r.pon = m.pon - 1 /\ r.kakan = m.kakan + 1
        /\ m.chi \in Nat /\ m.minkan \in Nat /\ m.ankan \in Nat
        /\ m.pon \in Nat /\ m.kakan \in Nat
    BY DEF MeldRecords, MeldKinds
  <1>4. MeldCount(r) = n
    BY <1>3 DEF MeldCount
  <1> HIDE DEF j, r
  <1>5. \A i \in MeldKinds : Cardinality(OfKind(i, j)) = r[i]
    <2> TAKE i \in MeldKinds
    <2>1. Cardinality(OfKind(i, j))
            = Cardinality(OfKind(i, k))
                + (IF i = j[h] THEN 1 ELSE IF i = k[h] THEN -1 ELSE 0)
      BY <1>1, <1>2, GroupChanged
    <2>2. Cardinality(OfKind(i, k)) = m[i]
      BY DEF Grouped
    <2> QED
      BY <1>2, <1>3, <2>1, <2>2 DEF MeldKinds
  <1>6. \A c : /\ IsFiniteSet(At(c, pl))
               /\ At(c, after) = IF c = b THEN At(c, pl) \cup (ts \cup {t})
                                          ELSE At(c, pl) \ (ts \cup {t})
    BY Moved
  <1>7. \A c, e : (At(c, pl) \cap At(e, pl) # {}) => c = e
    BY DEF At
  <1>8. "pon" \in MeldKinds /\ "kakan" \in MeldKinds
    BY DEF MeldKinds
  <1>9. \A g \in 0 .. 3, i \in MeldKinds : t \notin At(MakeMeld(p, g, i), pl)
    BY <1>7, BytesDiffer
  <1>10. At(b, pl) = {}
    BY <1>1, <1>8 DEF Grouped
  <1>11. At(b, after) = ts \cup {t}
    BY <1>6, <1>10
  <1>12. At(MakeMeld(p, h, "pon"), after) = {}
    <2>1. MakeMeld(p, h, "pon") # b
      BY <1>1, <1>8, MeldBytesDiffer
    <2> QED
      BY <1>6, <2>1
  <1>13. ASSUME NEW g \in 0 .. 3, NEW i \in MeldKinds, ~ (g = h /\ i \in {"pon", "kakan"})
         PROVE  At(MakeMeld(p, g, i), after) = At(MakeMeld(p, g, i), pl)
    <2>1. MakeMeld(p, g, i) # b /\ MakeMeld(p, g, i) # MakeMeld(p, h, "pon")
      BY <1>1, <1>8, <1>13, MeldBytesDiffer
    <2>2. At(MakeMeld(p, g, i), pl) \cap ts = {}
      BY <1>7, <2>1
    <2> QED
      BY <1>6, <1>9, <2>1, <2>2
  <1>14. ASSUME NEW g \in 0 .. 3, NEW i \in MeldKinds, At(MakeMeld(p, g, i), after) # {}
         PROVE  g \in DOMAIN j /\ j[g] = i
    <2>1. CASE g = h /\ i \in {"pon", "kakan"}
      BY <1>1, <1>2, <1>12, <1>14, <2>1
    <2>2. CASE ~ (g = h /\ i \in {"pon", "kakan"})
      <3>1. g \in DOMAIN k /\ k[g] = i
        BY <1>13, <1>14, <2>2 DEF Grouped
      <3> QED
        BY <1>1, <1>2, <2>2, <3>1
    <2> QED
      BY <2>1, <2>2
  <1>15. ASSUME NEW g \in DOMAIN j
         PROVE  LET c == MakeMeld(p, g, j[g])
                IN /\ Cardinality(At(c, after)) = GroupSize(j[g])
                   /\ Cardinality(CalledIn(c, after, d)) = IF j[g] = "ankan" THEN 0 ELSE 1
                   /\ \A s \in CalledIn(c, after, d) : BytePlayer(d[s]) # p
    <2>1. CASE g = h
      <3> DEFINE c == MakeMeld(p, h, "pon")
      <3>1. /\ Cardinality(ts) = 3 /\ Cardinality(CalledIn(c, pl, d)) = 1
            /\ \A s \in CalledIn(c, pl, d) : BytePlayer(d[s]) # p
        BY DEF Grouped, GroupSize, KanKinds
      <3>2. CalledIn(b, after, d) = CalledIn(c, pl, d)
        BY <1>11 DEF CalledIn
      <3>3. Cardinality(ts \cup {t}) = 3 + 1
        BY <1>1, <1>6, <1>8, <1>9, <3>1, FS_AddElement
      <3>4. j[g] = "kakan" /\ MakeMeld(p, g, j[g]) = b
        BY <1>2, <2>1
      <3> QED
        BY <1>11, <3>1, <3>2, <3>3, <3>4 DEF GroupSize, KanKinds
    <2>2. CASE g # h
      <3>1. g \in DOMAIN k /\ g \in 0 .. 3 /\ j[g] = k[g] /\ k[g] \in MeldKinds
        BY <1>1, <1>2, <2>2
      <3> DEFINE c == MakeMeld(p, g, k[g])
      <3>2. At(c, after) = At(c, pl)
        BY <1>13, <2>2, <3>1
      <3>3. CalledIn(c, after, d) = CalledIn(c, pl, d)
        BY <3>2 DEF CalledIn
      <3> QED
        BY <3>1, <3>2, <3>3 DEF Grouped
    <2> QED
      BY <2>1, <2>2
  <1>16. Grouped(p, after, d, r, j)
    BY <1>2, <1>4, <1>5, <1>14, <1>15 DEF Grouped
  <1> QED
    BY <1>16 DEF j, r

\* An added kan takes one tile from the hand.
LEMMA KakanCollected ==
  ASSUME NEW T, NEW pl, NEW d, NEW hands, NEW ms, NEW p \in Player,
         CountsOK(hands, ms), Collected(pl, d, hands, ms),
         NEW k, Grouped(p, pl, d, ms[p], k), NEW h \in DOMAIN k, k[h] = "pon",
         NEW t, t \in At(MakeHand(p), pl), d[t] = LOCATION_NONE,
         NEW after,
         Moves(T, At(MakeMeld(p, h, "pon"), pl) \cup {t}, MakeMeld(p, h, "kakan"), pl, after),
         NEW new, HandChanges(p, -1, hands, new),
         NEW melded,
         MeldsChange(p, [ms[p] EXCEPT !["pon"] = @ - 1, !["kakan"] = @ + 1], ms, melded)
  PROVE  Collected(after, d, new, melded)
  <1> DEFINE b == MakeMeld(p, h, "kakan")
             c == MakeMeld(p, h, "pon")
             ts == At(c, pl) \cup {t}
  <1>1. ms[p] \in MeldRecords /\ MeldCount(ms[p]) \in 0 .. 4
    BY MeldCountType DEF CountsOK
  <1>2. h \in 0 .. 3
    BY <1>1 DEF Grouped
  <1>3. \E j : Grouped(p, after, d, melded[p], j)
    <2>1. Grouped(p, after, d, [ms[p] EXCEPT !["pon"] = @ - 1, !["kakan"] = @ + 1],
                  [k EXCEPT ![h] = "kakan"])
      BY <1>1, GroupedWithKakan
    <2> QED
      BY <2>1 DEF MeldsChange
  <1>4. \A e : /\ IsFiniteSet(At(e, pl))
               /\ At(e, after) = IF e = b THEN At(e, pl) \cup ts ELSE At(e, pl) \ ts
    BY Moved
  <1>5. "pon" \in MeldKinds /\ "kakan" \in MeldKinds
    BY DEF MeldKinds
  <1>6. Cardinality(At(MakeHand(p), after)) = new[p]
    <2>1. MakeHand(p) # b /\ MakeHand(p) # c
      BY <1>2, <1>5, BytesDiffer
    <2>2. At(c, pl) \cap At(MakeHand(p), pl) = {}
      BY <2>1 DEF At
    <2>3. At(MakeHand(p), after) = At(MakeHand(p), pl) \ {t}
      BY <1>4, <2>1, <2>2
    <2>4. Cardinality(At(MakeHand(p), pl) \ {t}) = Cardinality(At(MakeHand(p), pl)) - 1
      BY <1>4, FS_RemoveElement
    <2>5. Cardinality(At(MakeHand(p), pl)) = hands[p] /\ hands[p] \in Int
      BY DEF Collected, CountsOK
    <2> QED
      BY <2>3, <2>4, <2>5 DEF HandChanges
  <1>7. ASSUME NEW q \in Player \ {p}
        PROVE  /\ Cardinality(At(MakeHand(q), after)) = new[q]
               /\ \E j : Grouped(q, after, d, melded[q], j)
    <2>1. \A s \in ts : pl[s] = c \/ pl[s] = MakeHand(p)
      BY DEF At
    <2>2. b # MakeHand(q) /\ c # MakeHand(q) /\ MakeHand(p) # MakeHand(q)
      BY <1>2, <1>5, BytesDiffer
    <2>3. \A g \in 0 .. 3, j \in MeldKinds : b # MakeMeld(q, g, j) /\ c # MakeMeld(q, g, j)
      BY <1>2, <1>5, MeldBytesDiffer
    <2>4. \A g \in 0 .. 3, j \in MeldKinds : MakeHand(p) # MakeMeld(q, g, j)
      BY BytesDiffer
    <2>6. NotOf(q, b) /\ \A s \in ts : NotOf(q, pl[s])
      BY <2>1, <2>2, <2>3, <2>4 DEF NotOf
    <2>5. /\ At(MakeHand(q), after) = At(MakeHand(q), pl)
          /\ \E j : Grouped(q, after, d, ms[q], j)
      BY <2>6, OthersKept
    <2> QED
      BY <2>5 DEF Collected, HandChanges, MeldsChange
  <1> QED
    BY <1>3, <1>6, <1>7 DEF Collected

-----------------------------------------------------------------------------
(* The board and the log                                                    *)

\* Positions are drawn for good.
LEMMA UndrawnShrinks ==
  ASSUME NEW live \in Nat, NEW dead \in Nat, NEW more \in Nat, NEW deader \in Nat,
         live <= more, dead <= deader, NEW position, Undrawn(position, more, deader)
  PROVE  Undrawn(position, live, dead)
  <1>1. CASE position \in (LIVE_WALL_START + more) .. 121
    BY <1>1 DEF Undrawn, LIVE_WALL_START
  <1>2. ASSUME NEW i \in (deader + 1) .. RINSHAN_TILE_COUNT, position = RINSHAN_INDICES[i]
        PROVE  Undrawn(position, live, dead)
    <2>1. i \in (dead + 1) .. RINSHAN_TILE_COUNT
      BY DEF RINSHAN_TILE_COUNT
    <2> QED
      BY <1>2, <2>1 DEF Undrawn
  <1> QED
    BY <1>1, <1>2 DEF Undrawn

\* Tile t goes to the hand of player p, from a position that nothing was drawn
\* from before and nothing is drawn from again.
WallGives(T, wall, live, dead, more, deader, p, t, pl, after) ==
  /\ t \in T /\ after = [pl EXCEPT ![t] = MakeHand(p)]
  /\ Undrawn(wall[t], live, dead)
  /\ \A s \in T : Undrawn(wall[s], more, deader) =>
                   Undrawn(wall[s], live, dead) /\ s # t

\* A tile drawn from the wall is in one hand, and nowhere else.
LEMMA BoardDraw ==
  ASSUME NEW T, NEW wall, NEW pl, NEW d, NEW hands, NEW ms, NEW live, NEW dead,
         Board(T, wall, pl, d, hands, ms, live, dead), CountsOK(hands, ms),
         IsFiniteSet(T), NEW p \in Player, NEW t, NEW more, NEW deader, NEW after,
         WallGives(T, wall, live, dead, more, deader, p, t, pl, after),
         NEW new, HandChanges(p, 1, hands, new)
  PROVE  Board(T, wall, after, d, new, ms, more, deader)
  <1> USE DEF WallGives
  <1>1. pl[t] = LOCATION_NONE /\ d[t] = LOCATION_NONE
    BY DEF Board
  <1>2. /\ pl \in [T -> Bytes] /\ \A s \in T : IsPlacement(pl[s])
        /\ MakeHand(p) \in Bytes /\ IsPlacement(MakeHand(p))
    BY HandByte DEF Board, Bytes, IsPlacement
  <1>3. after \in [T -> Bytes] /\ \A s \in T : after[s] = IF s = t THEN MakeHand(p) ELSE pl[s]
    BY <1>2
  <1>4. \A s \in T : IsPlacement(after[s])
    BY <1>2, <1>3
  <1>5. ASSUME NEW q \in Player, NEW s \in At(MakeHand(q), after)
        PROVE  d[s] = LOCATION_NONE
    <2>1. s \in T /\ (s # t => s \in At(MakeHand(q), pl))
      BY <1>2, <1>3 DEF At
    <2> QED
      BY <1>1, <2>1 DEF Board
  <1>6. Moves(T, {t}, MakeHand(p), pl, after)
    BY <1>2, <1>3 DEF Moves
  <1>7. t \in At(LOCATION_NONE, pl)
    BY <1>1, <1>2 DEF At
  <1>8. Collected(after, d, new, ms)
    BY <1>6, <1>7, DrawCollected DEF Board
  <1>9. ASSUME NEW s \in T, Undrawn(wall[s], more, deader)
        PROVE  after[s] = LOCATION_NONE /\ d[s] = LOCATION_NONE
    BY <1>3, <1>9 DEF Board
  <1> QED
    BY ONLY <1>3, <1>4, <1>5, <1>8, <1>9 DEF Board

\* A discard leaves the hand.
LEMMA BoardDiscard ==
  ASSUME NEW T, NEW wall, NEW pl, NEW d, NEW hands, NEW ms, NEW live, NEW dead,
         Board(T, wall, pl, d, hands, ms, live, dead), CountsOK(hands, ms),
         IsFiniteSet(T), d \in [T -> Bytes],
         NEW p \in Player, NEW t \in At(MakeHand(p), pl), NEW b,
         NEW after, after = [pl EXCEPT ![t] = LOCATION_NONE],
         NEW e, e = [d EXCEPT ![t] = b],
         NEW new, HandChanges(p, -1, hands, new)
  PROVE  Board(T, wall, after, e, new, ms, live, dead)
  <1>1. t \in T /\ pl[t] = MakeHand(p) /\ pl[t] # LOCATION_NONE
    BY HandByte DEF Board, At
  <1>2. /\ pl \in [T -> Bytes] /\ \A s \in T : IsPlacement(pl[s])
        /\ LOCATION_NONE \in Bytes /\ IsPlacement(LOCATION_NONE)
    BY DEF Board, Bytes, IsPlacement, LOCATION_NONE
  <1>3. /\ after \in [T -> Bytes]
        /\ \A s \in T : /\ after[s] = IF s = t THEN LOCATION_NONE ELSE pl[s]
                        /\ s # t => e[s] = d[s]
    BY <1>1, <1>2
  <1>4. \A s \in T : IsPlacement(after[s])
    BY <1>2, <1>3
  <1>5. ASSUME NEW q \in Player, NEW s \in At(MakeHand(q), after)
        PROVE  e[s] = LOCATION_NONE
    <2>1. s \in T /\ s # t /\ s \in At(MakeHand(q), pl)
      BY <1>2, <1>3, HandByte DEF At
    <2> QED
      BY <1>3, <2>1 DEF Board
  <1>6. Moves(T, {t}, LOCATION_NONE, pl, after)
    BY <1>1, <1>2, <1>3 DEF Moves
  <1>7. \A s \in T \ {t} : e[s] = d[s]
    BY <1>3
  <1>8. Collected(after, e, new, ms)
    BY <1>6, <1>7, DiscardCollected DEF Board
  <1>9. ASSUME NEW s \in T, Undrawn(wall[s], live, dead)
        PROVE  after[s] = LOCATION_NONE /\ e[s] = LOCATION_NONE
    BY <1>1, <1>3, <1>9 DEF Board
  <1> QED
    BY ONLY <1>3, <1>4, <1>5, <1>8, <1>9 DEF Board

\* Tiles get a meld byte: what the board demands beside the counts.
LEMMA BoardMoves ==
  ASSUME NEW T, NEW wall, NEW pl, NEW d, NEW hands, NEW ms, NEW live, NEW dead,
         Board(T, wall, pl, d, hands, ms, live, dead),
         NEW ts, NEW p \in Player, NEW g \in 0 .. 3, NEW kind \in MeldKinds,
         \A t \in ts : pl[t] # LOCATION_NONE \/ d[t] # LOCATION_NONE,
         NEW after, Moves(T, ts, MakeMeld(p, g, kind), pl, after),
         NEW new, NEW melded, Collected(after, d, new, melded)
  PROVE  Board(T, wall, after, d, new, melded, live, dead)
  <1> DEFINE b == MakeMeld(p, g, kind)
  <1>1. /\ pl \in [T -> Bytes] /\ after \in [T -> Bytes]
        /\ \A s \in T : after[s] = IF s \in ts THEN b ELSE pl[s]
    BY DEF Moves
  <1>2. \A s \in T : IsPlacement(after[s])
    BY <1>1 DEF Board, IsPlacement
  <1>3. ASSUME NEW q \in Player, NEW s \in At(MakeHand(q), after)
        PROVE  d[s] = LOCATION_NONE
    <2>1. MakeHand(q) # b
      BY BytesDiffer
    <2>2. s \in At(MakeHand(q), pl)
      BY <1>1, <2>1 DEF At
    <2> QED
      BY <2>2 DEF Board
  <1>4. ASSUME NEW s \in T, Undrawn(wall[s], live, dead)
        PROVE  after[s] = LOCATION_NONE /\ d[s] = LOCATION_NONE
    BY <1>1, <1>4 DEF Board
  <1> QED
    BY ONLY <1>1, <1>2, <1>3, <1>4, Collected(after, d, new, melded) DEF Board

\* A discard is the next of its river and the next of the history.
LEMMA DiscardLogged ==
  ASSUME NEW T, IsFiniteSet(T), NEW d, NEW h, NEW counts \in [Player -> Nat],
         Logged(T, d, h, counts),
         NEW p \in Player, counts[p] <= 30, Sum(counts) \in 0 .. 85,
         NEW t \in T, d[t] = LOCATION_NONE,
         NEW b, IsDiscardOf(p, counts[p], b), NEW c, IsEntry(Sum(counts), c),
         NEW e, e = [d EXCEPT ![t] = b], NEW i, i = [h EXCEPT ![t] = c],
         NEW new, new = [counts EXCEPT ![p] = @ + 1]
  PROVE  Logged(T, e, i, new)
  <1>1. /\ d \in [T -> Bytes] /\ h \in [T -> Bytes]
        /\ DiscardsPaired(d, h) /\ Rivers(d, h, counts)
    BY DEF Logged
  <1>2. /\ b \in Bytes /\ b # LOCATION_NONE
        /\ IsDiscard(b) /\ BytePlayer(b) = p /\ DiscardIndex(b) = counts[p]
    <2>1. counts[p] \in 0 .. 30
      OBVIOUS
    <2> QED
      BY <2>1, DiscardByte DEF Bytes
  <1>3. c \in Bytes /\ HistoryIndex(c) = Sum(counts)
    <2>1. c \in Bytes
      BY DEF IsEntry, MakeDiscardHistory, Bytes
    <2> QED
      BY <2>1, HistoryByte
  <1>4. /\ e \in [T -> Bytes] /\ i \in [T -> Bytes]
        /\ e[t] = b /\ i[t] = c
        /\ \A s \in T \ {t} : e[s] = d[s] /\ i[s] = h[s]
    BY <1>1, <1>2, <1>3
  <1>5. /\ new \in [Player -> Nat] /\ new[p] = counts[p] + 1
        /\ \A q \in Player \ {p} : new[q] = counts[q]
    OBVIOUS
  <1>6. Sum(new) = Sum(counts) + 1
    <2>1. p \in {0, 1, 2, 3} /\ Player = {0, 1, 2, 3}
      BY DEF Player
    <2> QED
      BY <1>5, <2>1 DEF Sum
  <1>7. DiscardsPaired(e, i)
    <2> SUFFICES ASSUME NEW s \in T
                 PROVE  \/ e[s] = LOCATION_NONE /\ i[s] = LOCATION_NONE
                        \/ /\ \E q \in Player, j \in 0 .. 30 : IsDiscardOf(q, j, e[s])
                           /\ \E j \in 0 .. 85 : IsEntry(j, i[s])
      BY <1>4 DEF DiscardsPaired
    <2>1. CASE s = t
      <3>1. counts[p] \in 0 .. 30
        OBVIOUS
      <3> QED
        BY <1>4, <2>1, <3>1
    <2>2. CASE s # t
      <3>1. e[s] = d[s] /\ i[s] = h[s] /\ s \in DOMAIN d
        BY <1>1, <1>4, <2>2
      <3> QED
        BY <1>1, <3>1 DEF DiscardsPaired
    <2> QED
      BY <2>1, <2>2
  <1> HIDE DEF Sum
  <1>8. ASSUME NEW q \in Player
        PROVE  /\ {DiscardIndex(e[s]) : s \in River(q, e)} = 0 .. (new[q] - 1)
               /\ Cardinality(River(q, e)) = new[q]
    <2>1. t \notin River(q, d)
      BY NoneByte DEF River
    <2>2. /\ {DiscardIndex(d[s]) : s \in River(q, d)} = 0 .. (counts[q] - 1)
          /\ Cardinality(River(q, d)) = counts[q]
      BY <1>1 DEF Rivers
    <2>3. CASE q = p
      <3>1. River(q, e) = River(q, d) \cup {t}
        BY <1>1, <1>2, <1>4, <2>3 DEF River
      <3>2. \A s \in River(q, d) : e[s] = d[s]
        BY <1>1, <1>4, <2>1 DEF River
      <3>3. {DiscardIndex(e[s]) : s \in River(q, e)}
              = {DiscardIndex(d[s]) : s \in River(q, d)} \cup {counts[q]}
        <4>1. DiscardIndex(e[t]) = counts[q]
          BY <1>2, <1>4, <2>3
        <4>2. \A s \in River(q, d) : DiscardIndex(e[s]) = DiscardIndex(d[s])
          BY <3>2
        <4> QED
          BY ONLY <3>1, <4>1, <4>2
      <3>4. (0 .. (counts[q] - 1)) \cup {counts[q]} = 0 .. counts[q]
        OBVIOUS
      <3>5. IsFiniteSet(River(q, d))
        BY <1>1, FS_Subset DEF River
      <3>6. Cardinality(River(q, d) \cup {t}) = counts[q] + 1
        BY <2>1, <2>2, <3>5, FS_AddElement
      <3>7. new[q] = counts[q] + 1 /\ counts[q] \in Nat /\ new[q] - 1 = counts[q]
        BY <1>5, <2>3
      <3> QED
        BY <2>2, <3>1, <3>3, <3>4, <3>6, <3>7
    <2>4. CASE q # p
      <3>1. River(q, e) = River(q, d)
        BY <1>1, <1>2, <1>4, <2>1, <2>4 DEF River
      <3>2. \A s \in River(q, d) : e[s] = d[s]
        BY <1>1, <1>4, <2>1 DEF River
      <3>3. {DiscardIndex(e[s]) : s \in River(q, e)} = {DiscardIndex(d[s]) : s \in River(q, d)}
        BY <3>1, <3>2
      <3> QED
        BY <1>5, <2>2, <2>4, <3>1, <3>3
    <2> QED
      BY <2>3, <2>4
  <1>9. {HistoryIndex(i[s]) : s \in Discarded(e)} = 0 .. (Sum(new) - 1)
    <2>1. t \notin Discarded(d)
      BY DEF Discarded
    <2>2. Discarded(e) = Discarded(d) \cup {t}
      BY <1>1, <1>2, <1>4 DEF Discarded
    <2>3. \A s \in Discarded(d) : i[s] = h[s]
      BY <1>1, <1>4, <2>1 DEF Discarded
    <2>4. {HistoryIndex(i[s]) : s \in Discarded(e)}
            = {HistoryIndex(h[s]) : s \in Discarded(d)} \cup {Sum(counts)}
      <3>1. HistoryIndex(i[t]) = Sum(counts)
        BY <1>3, <1>4
      <3>2. \A s \in Discarded(d) : HistoryIndex(i[s]) = HistoryIndex(h[s])
        BY <2>3
      <3> QED
        BY ONLY <2>2, <3>1, <3>2
    <2>5. {HistoryIndex(h[s]) : s \in Discarded(d)} = 0 .. (Sum(counts) - 1)
      BY <1>1 DEF Rivers
    <2>6. (0 .. (Sum(counts) - 1)) \cup {Sum(counts)} = 0 .. Sum(counts)
      OBVIOUS
    <2>7. Sum(new) - 1 = Sum(counts)
      BY <1>6
    <2> QED
      BY <2>4, <2>5, <2>6, <2>7
  <1> QED
    BY ONLY <1>4, <1>7, <1>8, <1>9 DEF Logged, Rivers

-----------------------------------------------------------------------------
(* What the tiles of a round say                                            *)

\* Every wall has tiles of the 136, each in a place of its own.
LEMMA DealFacts ==
  ASSUME deal \in Deals
  PROVE  /\ Table \subseteq 0 .. 135 /\ IsFiniteSet(Table)
         /\ TILE_INVALID \notin Table
         /\ IsWall(deal.wall)
  <1>1. Table \subseteq 0 .. 135 /\ IsWall(deal.wall)
    BY WallAssumption DEF Table
  <1>2. IsFiniteSet(Table)
    <2>1. \A n \in Int : IsFiniteSet(0 .. n)
      BY FS_Interval
    <2>2. PICK n \in Int : n = 135
      OBVIOUS
    <2>3. IsFiniteSet(0 .. n) /\ Table \in SUBSET (0 .. n)
      BY <1>1, <2>1, <2>2
    <2> QED
      BY ONLY <2>3, FS_Subset
  <1>3. TILE_INVALID \notin Table
    BY <1>1 DEF TILE_INVALID
  <1> QED
    BY <1>1, <1>2, <1>3

\* The tile in a place of the wall.
LEMMA TileInPlace ==
  ASSUME deal \in Deals,
         NEW position \in 0 .. (LIVE_WALL_START + LiveTiles - 1) \cup 122 .. 135
  PROVE  /\ WallTile(position) \in Table
         /\ deal.wall[WallTile(position)] = position
         /\ \A t \in Table : deal.wall[t] = position => t = WallTile(position)
  <1>1. IsWall(deal.wall)
    BY DealFacts
  <1>2. \E t \in Table : deal.wall[t] = position
    BY <1>1 DEF IsWall, Table
  <1>3. WallTile(position) \in Table /\ deal.wall[WallTile(position)] = position
    BY <1>2 DEF WallTile
  <1> QED
    BY <1>1, <1>3 DEF IsWall, Table

\* What the round's own invariants say of the counts.
LEMMA RoundFacts ==
  ASSUME RoundInv, OwnDiscardsFit
  PROVE  /\ TypeOK /\ Accounts /\ Results
         /\ CountsOK(hand, melds)
         /\ current_player \in Player
         /\ \A p \in Player : discards[p] \in 0 .. 30
         /\ wall_pos \in Nat /\ dead_wall_draw_count \in Nat
         /\ LiveTiles \in 0 .. 69
  <1>1. TypeOK /\ Accounts /\ Results
    BY DEF RoundInv, RiichiInv
  <1>2. LiveTiles \in 0 .. 69
    BY LiveTilesAssumption, LiveWallAssumption DEF LIVE_WALL_START
  <1>3. \A p \in Player : discards[p] \in 0 .. 30
    <2>1. \A p \in Player : discards[p] \in Nat
      BY <1>1 DEF TypeOK
    <2>2. \A p \in Player : discards[p] <= 30
      BY <1>2, FourMeldsAssumption DEF OwnDiscardsFit
    <2> QED
      BY <2>1, <2>2
  <1>4. \A p \in Player : MeldCount(melds[p]) <= 4
    BY <1>1, FourMeldsAssumption DEF Accounts, MeldLimit
  <1> QED
    BY <1>1, <1>2, <1>3, <1>4 DEF CountsOK, TypeOK, MeldRecords

\* A hand is made of the tiles with its byte.
LEMMA HandIsAt ==
  ASSUME TableInv, NEW p \in Player
  PROVE  /\ HandOf(p) = At(MakeHand(p), placement)
         /\ \A ts : InHand(p, ts) => ts \subseteq At(MakeHand(p), placement)
  <1>1. DOMAIN placement = Table /\ \A t \in Table : IsPlacement(placement[t])
    BY DEF TableInv, Board
  <1> QED
    BY <1>1, PlacementByte DEF HandOf, InHand, At

\* The groups of a player are numbered from zero.
LEMMA GroupsAreNumbered ==
  ASSUME NEW T, NEW pl, pl \in [T -> Bytes], \A t \in T : IsPlacement(pl[t]),
         NEW d, NEW p \in Player, NEW m \in MeldRecords, MeldCount(m) <= 4,
         NEW k, Grouped(p, pl, d, m, k)
  PROVE  /\ Groups(p, pl) = 0 .. (MeldCount(m) - 1)
         /\ Cardinality(Groups(p, pl)) = MeldCount(m)
  <1>1. /\ MeldCount(m) \in Nat
        /\ k \in [0 .. (MeldCount(m) - 1) -> MeldKinds]
        /\ DOMAIN k = 0 .. (MeldCount(m) - 1)
        /\ \A g \in DOMAIN k : g \in 0 .. 3 /\ k[g] \in MeldKinds
    BY MeldCountType DEF Grouped
  <1>2. ASSUME NEW g \in DOMAIN k
        PROVE  g \in Groups(p, pl)
    <2> DEFINE b == MakeMeld(p, g, k[g])
    <2>1. At(b, pl) # {}
      <3>1. Cardinality(At(b, pl)) = GroupSize(k[g])
        BY DEF Grouped
      <3>2. GroupSize(k[g]) # 0
        BY DEF GroupSize
      <3> QED
        BY <3>1, <3>2, FS_EmptySet
    <2>2. PICK t \in T : pl[t] = b
      BY <2>1 DEF At
    <2>3. t \in MeldTiles(p, pl) /\ MeldGroup(pl[t]) = g
      BY <1>1, <2>2, MeldByte DEF MeldTiles
    <2> QED
      BY <2>3 DEF Groups
  <1>3. ASSUME NEW t \in MeldTiles(p, pl)
        PROVE  MeldGroup(pl[t]) \in DOMAIN k
    <2>1. PICK g \in 0 .. 3, kind \in MeldKinds : pl[t] = MakeMeld(p, g, kind)
      BY PlacementByte DEF MeldTiles
    <2>2. t \in At(MakeMeld(p, g, kind), pl)
      BY <2>1 DEF At, MeldTiles
    <2>3. MeldGroup(pl[t]) = g
      BY <2>1, MeldByte
    <2> QED
      BY <2>2, <2>3 DEF Grouped
  <1>4. Groups(p, pl) = 0 .. (MeldCount(m) - 1)
    BY <1>1, <1>2, <1>3 DEF Groups
  <1>5. Cardinality(0 .. (MeldCount(m) - 1)) = MeldCount(m)
    BY <1>1, FS_Interval
  <1> QED
    BY <1>4, <1>5

\* The next meld of a player takes the group of the number of his melds.
LEMMA NextGroupIsFree ==
  ASSUME TableInv, CountsOK(hand, melds), NEW p \in Player, NEW kind
  PROVE  NextGroup(p, kind) = MeldCount(melds[p])
  <1>1. PICK k : Grouped(p, placement, discard, melds[p], k)
    BY DEF TableInv, Board, Collected
  <1>2. /\ placement \in [Table -> Bytes] /\ \A t \in Table : IsPlacement(placement[t])
        /\ melds[p] \in MeldRecords /\ MeldCount(melds[p]) <= 4
    BY DEF TableInv, Board, CountsOK
  <1> QED
    BY <1>1, <1>2, GroupsAreNumbered DEF NextGroup, MeldCountOf

\* The tiles of a type, and the first of them.
LEMMA TilesOfType ==
  ASSUME NEW type \in TileType
  PROVE  /\ First(TilesOf(type)) \in TilesOf(type)
         /\ First(TilesOf(type)) \in 0 .. 135
         /\ TypeOf(First(TilesOf(type))) = type
  <1>1. type \in 0 .. 33
    BY DEF TileType
  <1>2. /\ 4 * type \in TilesOf(type)
        /\ \A u \in TilesOf(type) : 4 * type <= u
    BY <1>1 DEF TilesOf, TypeOf, TILE_PER_TYPE
  <1>3. First(TilesOf(type)) \in TilesOf(type)
    BY <1>2 DEF First
  <1> QED
    BY <1>3 DEF TilesOf

-----------------------------------------------------------------------------
(* How a step moves tiles                                                   *)

\* Player p draws a tile, after the placements pl.
DrawnInto(p, pl) ==
  \E t \in At(LOCATION_NONE, placement) :
    /\ discard[t] = LOCATION_NONE
    /\ placement' = [pl EXCEPT ![t] = MakeHand(p)] /\ drawn' = t

\* The tiles ts become the next group of player p, which the player from has fed.
NewMeld(p, g, kind, ts, from) ==
  /\ g = MeldCount(melds[p])
  /\ Meldable(p, kind, ts, placement, discard)
  /\ \A t \in ts : placement[t] # LOCATION_NONE \/ discard[t] # LOCATION_NONE
  /\ \A t \in ts : discard[t] # LOCATION_NONE => BytePlayer(discard[t]) = current_player
  /\ from = IF kind = "ankan" THEN p ELSE current_player

\* The group g of player p, a pon, gets the fourth tile.
AddedKan(p, g, kind, ts, from) ==
  \E m \in MeldsOf(p, placement), tile \in At(MakeHand(p), placement) :
    /\ m = Meld(p, g, placement, discard)
    /\ m.kind = "pon" /\ kind = "kakan" /\ m.from = from
    /\ Types(m.tiles) = {TypeOf(tile)} /\ ts = m.tiles \cup {tile}

Melding(p, g, kind, ts, from, melded) ==
  /\ Moves(Table, ts, MakeMeld(p, g, kind), placement, melded)
  /\ NewMeld(p, g, kind, ts, from) \/ AddedKan(p, g, kind, ts, from)

Stays == UNCHANGED <<placement, discard, pao>>

Parts ==
  /\ pao' = pao
  /\ \E p \in Player : \E t \in At(MakeHand(p), placement), i \in 0 .. 30, b \in Bytes :
       /\ IsDiscardOf(p, i, b)
       /\ placement' = [placement EXCEPT ![t] = LOCATION_NONE]
       /\ discard' = [discard EXCEPT ![t] = b]

DrawsOne ==
  /\ UNCHANGED <<discard, pao>>
  /\ \E p \in Player : DrawnInto(p, placement)

Melds(p) ==
  /\ discard' = discard
  /\ \E g \in 0 .. 3, kind \in MeldKinds : \E ts, from, melded :
       /\ Melding(p, g, kind, ts, from, melded)
       /\ pao' = UpdatePao(p, from, melded)
       /\ placement' = melded \/ DrawnInto(p, melded)

\* What a step does to the tiles and to the liability for them.
TableMoves ==
  /\ deal' = deal
  /\ Stays \/ Parts \/ DrawsOne \/ \E p \in Player : Melds(p)

-----------------------------------------------------------------------------
(* Steps that leave the bytes                                               *)

\* The invariant depends on the bytes and the counts they add up to.
LEMMA SameBytes ==
  ASSUME TableInv, NamedTiles',
         UNCHANGED <<deal, byteVars, tileVars, wallVars>>
  PROVE  TableInv'
  <1>1. /\ Table' = Table /\ deal' = deal /\ placement' = placement
        /\ discard' = discard /\ discard_history' = discard_history
        /\ hand' = hand /\ melds' = melds /\ discards' = discards
        /\ wall_pos' = wall_pos /\ dead_wall_draw_count' = dead_wall_draw_count
    BY DEF byteVars, tileVars, wallVars, Table
  <1> QED
    BY <1>1 DEF TableInv

\* A round that ends leaves nothing to name but the tile drawn.
LEMMA NamesAtEnd ==
  ASSUME TableInv, phase' = "ROUND_END",
         UNCHANGED <<current_player, placement>>,
         \/ draw_tile' = draw_tile /\ drawn' = drawn
         \/ draw_tile' = FALSE /\ drawn' = TILE_INVALID,
         pending_kan' = "NONE" <=> kan_tile' = TILE_INVALID
  PROVE  NamedTiles'
  BY DEF TableInv, NamedTiles

\* Wins and draws leave the bytes alone.
LEMMA TableEnds ==
  ASSUME TableInv, RoundInv, OwnDiscardsFit,
         \/ TsumoWithDrawn \/ KyuushuKyuuhaiOfTiles \/ PassIntoAbortOfTiles
         \/ PassIntoExhaustiveDrawOfTiles \/ \E claimants : RonOn(claimants)
  PROVE  TableInv' /\ TableMoves
  <1>1. phase \notin {"ANKAN_RESOLVE", "KAKAN_RESOLVE", "ROUND_END"} =>
          pending_kan = "NONE" /\ kan_tile = TILE_INVALID
    BY RoundFacts DEF Results, RobbedKanKept, TableInv, NamedTiles
  <1>2. ASSUME TsumoWithDrawn
        PROVE  TableInv'
    <2>1. /\ phase = "DRAW" /\ phase' = "ROUND_END" /\ pending_kan' = "NONE"
          /\ UNCHANGED <<deal, byteVars, tileVars, wallVars>>
          /\ UNCHANGED <<current_player, placement, draw_tile, drawn, kan_tile>>
      BY <1>2 DEF TsumoWithDrawn, Tsumo, tableVars, byteVars
    <2>2. NamedTiles'
      BY <1>1, <2>1, NamesAtEnd
    <2> QED
      BY <2>1, <2>2, SameBytes
  <1>3. ASSUME KyuushuKyuuhaiOfTiles
        PROVE  TableInv'
    <2>1. /\ phase = "DRAW" /\ phase' = "ROUND_END" /\ pending_kan' = "NONE"
          /\ draw_tile' = FALSE /\ drawn' = TILE_INVALID
          /\ UNCHANGED <<deal, byteVars, tileVars, wallVars>>
          /\ UNCHANGED <<current_player, placement, kan_tile>>
      BY <1>3 DEF KyuushuKyuuhaiOfTiles, KyuushuKyuuhai, FinishAbortiveDraw,
                  FinishDrawRound, byteVars
    <2>2. NamedTiles'
      BY <1>1, <2>1, NamesAtEnd
    <2> QED
      BY <2>1, <2>2, SameBytes
  <1>4. ASSUME PassIntoAbortOfTiles \/ PassIntoExhaustiveDrawOfTiles
        PROVE  TableInv'
    <2>1. /\ phase' = "ROUND_END" /\ pending_kan' = "NONE" /\ kan_tile' = TILE_INVALID
          /\ UNCHANGED <<deal, byteVars, tileVars, wallVars>>
          /\ UNCHANGED <<current_player, placement, draw_tile, drawn>>
      BY <1>4 DEF PassIntoAbortOfTiles, PassIntoAbort, PassIntoExhaustiveDrawOfTiles,
                  PassIntoExhaustiveDraw, PassReactions, FinishAbortiveDraw,
                  FinishDrawRound, byteVars, tileVars, wallVars
    <2>2. NamedTiles'
      BY <2>1, NamesAtEnd
    <2> QED
      BY <2>1, <2>2, SameBytes
  <1>5. ASSUME NEW claimants, RonOn(claimants)
        PROVE  TableInv'
    <2>1. /\ phase' = "ROUND_END"
          /\ pending_kan' = "NONE" \/ pending_kan' = pending_kan
          /\ kan_tile' = IF pending_kan' = "NONE" THEN TILE_INVALID ELSE kan_tile
          /\ UNCHANGED <<deal, byteVars, tileVars, wallVars>>
          /\ UNCHANGED <<current_player, placement, draw_tile, drawn>>
      BY <1>5 DEF RonOn, Ron, FinishAbortiveDraw, FinishDrawRound, FinishMultiRon,
                  byteVars
    <2>2. pending_kan' = "NONE" <=> kan_tile' = TILE_INVALID
      BY <2>1 DEF TableInv, NamedTiles
    <2>3. NamedTiles'
      BY <2>1, <2>2, NamesAtEnd
    <2> QED
      BY <2>1, <2>3, SameBytes
  <1>6. deal' = deal /\ UNCHANGED <<placement, discard, pao>>
    BY DEF TsumoWithDrawn, KyuushuKyuuhaiOfTiles, PassIntoAbortOfTiles,
           PassIntoExhaustiveDrawOfTiles, RonOn, tableVars, byteVars
  <1> QED
    BY <1>2, <1>3, <1>4, <1>5, <1>6 DEF TableMoves, Stays

-----------------------------------------------------------------------------
(* Steps that move tiles                                                    *)

\* What a step of the round leaves to the tiles: the new board, the log and
\* the tiles it names.
LEMMA TableInvNext ==
  ASSUME TableInv, deal' = deal,
         Board(Table, deal.wall, placement', discard', hand', melds', wall_pos',
               dead_wall_draw_count'),
         Logged(Table, discard', discard_history', discards'),
         NamedTiles'
  PROVE  TableInv'
  <1>1. Table' = Table
    BY DEF Table
  <1> QED
    BY <1>1 DEF TableInv

\* A step that discards nothing keeps the log.
LEMMA SameLog ==
  ASSUME TableInv, UNCHANGED <<discard, discard_history, discards>>
  PROVE  Logged(Table, discard', discard_history', discards')
  BY DEF TableInv

\* A discard is recorded.
LEMMA TableRecords ==
  ASSUME TableInv, RoundInv, OwnDiscardsFit,
         NEW tile, NEW is_riichi \in BOOLEAN,
         \/ DiscardTile(tile) /\ is_riichi = FALSE
         \/ RiichiWith(tile) /\ is_riichi = TRUE,
         tile \in HandOf(current_player)
  PROVE  TableInv' /\ TableMoves
  <1> DEFINE p == current_player
             b == MakeDiscard(p, Cardinality(RiverOf(p)), tile = drawn)
             c == MakeDiscardHistory(Sum(discards), is_riichi)
  <1>1. /\ TypeOK /\ Accounts /\ CountsOK(hand, melds) /\ p \in Player
        /\ discards[p] \in 0 .. 30 /\ wall_pos \in Nat /\ dead_wall_draw_count \in Nat
        /\ LiveTiles \in 0 .. 69
    BY RoundFacts
  <1>2. /\ phase \in {"DRAW", "AFTER_CALL"} /\ phase' = "DISCARD"
        /\ RecordDiscard /\ RecordTile(tile, is_riichi)
        /\ draw_tile' = FALSE /\ pending_kan' = "NONE"
        /\ UNCHANGED <<deal, current_player, melds, wall_pos, dead_wall_draw_count>>
    BY DEF DiscardTile, RiichiWith, Discard, Riichi, CanDiscard, OfferDiscard, wallVars
  <1>3. /\ discards' = [discards EXCEPT ![p] = @ + 1]
        /\ hand' = [hand EXCEPT ![p] = @ - 1]
    <2>1. /\ Sum(discards') = Sum(discards) + 1
          /\ hand' = [hand EXCEPT ![p] = @ - 1]
      BY <1>1, <1>2, DiscardRecorded
    <2>2. Sum(discards) \in Nat
      BY <1>1, DiscardSumType
    <2>3. Sum(discards') # Sum(discards)
      BY <2>1, <2>2
    <2> QED
      BY <1>2, <2>1, <2>3 DEF RecordDiscard
  <1>4. Sum(discards) \in 0 .. 85
    <2>1. Sum(discards) \in Nat /\ OpenMelds(melds) \in Nat /\ OpenMelds(melds) <= 16
      BY <1>1, DiscardSumType, TotalsType, OpenMeldsFit, FourMeldsAssumption
      DEF Accounts, TypeOK, MeldRecords
    <2>2. Sum(discards) + 1 = 1 + wall_pos + OpenMelds(melds)
      BY <1>1, <1>2 DEF Accounts, DiscardBudget, OpenMelds
    <2>3. wall_pos <= 69
      BY <1>1 DEF Accounts, KanSupply
    <2> QED
      BY <1>1, <2>1, <2>2, <2>3
  <1>5. tile \in At(MakeHand(p), placement)
    BY <1>1, HandIsAt
  <1>6. /\ placement' = [placement EXCEPT ![tile] = LOCATION_NONE]
        /\ discard' = [discard EXCEPT ![tile] = b]
        /\ discard_history' = [discard_history EXCEPT ![tile] = c]
        /\ offered' = tile /\ drawn' = TILE_INVALID /\ kan_tile' = TILE_INVALID
    BY <1>2 DEF RecordTile
  <1>7. /\ Board(Table, deal.wall, placement, discard, hand, melds, wall_pos,
                 dead_wall_draw_count)
        /\ Logged(Table, discard, discard_history, discards)
        /\ deal \in Deals /\ IsFiniteSet(Table)
    BY DealFacts DEF TableInv
  <1>8. /\ placement \in [Table -> Bytes]
        /\ discard \in [Table -> Bytes] /\ discard_history \in [Table -> Bytes]
    BY <1>7 DEF Board, Logged
  <1>9. /\ tile \in Table /\ discard[tile] = LOCATION_NONE
    BY <1>1, <1>5, <1>7, <1>8 DEF Board, At
  <1>10. IsDiscardOf(p, discards[p], b)
    <2>1. RiverOf(p) = River(p, discard)
      BY <1>8 DEF RiverOf, River
    <2>2. Cardinality(RiverOf(p)) = discards[p]
      BY <1>1, <1>7, <2>1 DEF Logged, Rivers
    <2> QED
      BY <2>2 DEF IsDiscardOf, MakeDiscard
  <1>11. IsEntry(Sum(discards), c)
    BY DEF IsEntry
  <1>12. HandChanges(p, -1, hand, hand')
    BY <1>1, <1>3 DEF HandChanges, CountsOK
  <1> HIDE DEF b, c
  <1>13. Board(Table, deal.wall, placement', discard', hand', melds', wall_pos',
               dead_wall_draw_count')
    <2>1. Board(Table, deal.wall, placement', discard', hand', melds, wall_pos,
                dead_wall_draw_count)
      BY <1>1, <1>5, <1>6, <1>7, <1>8, <1>12, BoardDiscard
    <2> QED
      BY <1>2, <2>1
  <1>14. Logged(Table, discard', discard_history', discards')
    <2>1. discards \in [Player -> Nat] /\ discards[p] <= 30
      BY <1>1 DEF TypeOK
    <2> QED
      BY <1>1, <1>3, <1>4, <1>6, <1>7, <1>9, <1>10, <1>11, <2>1, DiscardLogged
  <1>15. NamedTiles'
    <2>1. tile \in At(LOCATION_NONE, placement')
      BY <1>6, <1>8, <1>9 DEF At
    <2>2. discard'[tile] = b
      BY <1>6, <1>8, <1>9
    <2>3. discards'[p] - 1 = discards[p] /\ discards'[p] > 0
      BY <1>1, <1>3 DEF TypeOK
    <2> QED
      BY <1>2, <1>6, <1>10, <2>1, <2>2, <2>3 DEF NamedTiles
  <1>16. TableMoves
    <2>1. b \in Bytes
      BY <1>1, <1>10, DiscardByte DEF Bytes
    <2>2. pao' = pao /\ deal' = deal
      BY DEF DiscardTile, RiichiWith
    <2>3. Parts
      BY <1>1, <1>5, <1>6, <1>10, <2>1, <2>2 DEF Parts
    <2> QED
      BY <2>2, <2>3 DEF TableMoves
  <1> QED
    BY <1>2, <1>13, <1>14, <1>15, <1>16, TableInvNext

\* The next player draws the next tile of the live wall.
LEMMA TableDraws ==
  ASSUME TableInv, RoundInv, OwnDiscardsFit, PassIntoNextDraw
  PROVE  TableInv' /\ TableMoves
  <1> DEFINE p == NextPlayer(current_player)
             t == WallTile(LIVE_WALL_START + wall_pos)
  <1>1. /\ TypeOK /\ Accounts /\ CountsOK(hand, melds) /\ current_player \in Player
        /\ wall_pos \in Nat /\ dead_wall_draw_count \in Nat /\ LiveTiles \in 0 .. 69
    BY RoundFacts
  <1>2. p \in Player
    BY <1>1, NextPlayerType
  <1>3. /\ phase = "DISCARD" /\ phase' = "DRAW" /\ current_player' = p
        /\ hand' = [hand EXCEPT ![p] = @ + 1] /\ wall_pos' = wall_pos + 1
        /\ LiveWallRemaining > 0 /\ draw_tile' = TRUE
        /\ pending_kan' = IF pending_kan = "KAKAN" THEN "NONE" ELSE pending_kan
        /\ UNCHANGED <<melds, discards, dead_wall_draw_count>>
    BY DEF PassIntoNextDraw, PassIntoNextTurn, PassReactions
  <1>4. /\ placement' = [placement EXCEPT ![t] = MakeHand(p)] /\ drawn' = t
        /\ UNCHANGED <<deal, discard, discard_history, kan_tile>>
    BY DEF PassIntoNextDraw, Draws
  <1>5. wall_pos < LiveTiles
    BY <1>1, <1>3, LiveWall DEF Accounts
  <1>6. /\ Board(Table, deal.wall, placement, discard, hand, melds, wall_pos,
                 dead_wall_draw_count)
        /\ deal \in Deals /\ IsFiniteSet(Table) /\ TILE_INVALID \notin Table
        /\ placement \in [Table -> Bytes]
    BY DealFacts DEF TableInv, Board
  <1>7. /\ t \in Table /\ deal.wall[t] = LIVE_WALL_START + wall_pos
        /\ LIVE_WALL_START + wall_pos \in LIVE_WALL_START .. 121
    <2>1. LIVE_WALL_START + wall_pos \in 0 .. (LIVE_WALL_START + LiveTiles - 1)
      BY <1>1, <1>5 DEF LIVE_WALL_START
    <2> QED
      BY <1>1, <1>5, <1>6, <2>1, TileInPlace DEF LIVE_WALL_START
  <1>8. Undrawn(deal.wall[t], wall_pos, dead_wall_draw_count)
    BY <1>1, <1>7 DEF Undrawn, LIVE_WALL_START
  <1>9. ASSUME NEW s \in Table, Undrawn(deal.wall[s], wall_pos + 1, dead_wall_draw_count)
        PROVE  Undrawn(deal.wall[s], wall_pos, dead_wall_draw_count) /\ s # t
    <2>1. wall_pos <= wall_pos + 1 /\ dead_wall_draw_count <= dead_wall_draw_count
          /\ wall_pos + 1 \in Nat
      BY <1>1
    <2>2. Undrawn(deal.wall[s], wall_pos, dead_wall_draw_count)
      BY <1>1, <1>9, <2>1, UndrawnShrinks
    <2>3. \A i \in 1 .. RINSHAN_TILE_COUNT : RINSHAN_INDICES[i] \in 132 .. 135
      BY DEF RINSHAN_TILE_COUNT, RINSHAN_INDICES
    <2>4. deal.wall[s] # LIVE_WALL_START + wall_pos
      BY <1>1, <1>7, <1>9, <2>3 DEF Undrawn, LIVE_WALL_START, RINSHAN_TILE_COUNT
    <2> QED
      BY <1>7, <2>2, <2>4
  <1>10. HandChanges(p, 1, hand, hand')
    BY <1>1, <1>2, <1>3 DEF HandChanges, CountsOK
  <1> HIDE DEF t, p
  <1>11. Board(Table, deal.wall, placement', discard', hand', melds', wall_pos',
               dead_wall_draw_count')
    <2>1. CountsOK(hand, melds) /\ IsFiniteSet(Table)
      BY <1>1, <1>6
    <2>2. WallGives(Table, deal.wall, wall_pos, dead_wall_draw_count, wall_pos + 1,
                    dead_wall_draw_count, p, t, placement, placement')
      BY <1>4, <1>7, <1>8, <1>9 DEF WallGives
    <2>3. Board(Table, deal.wall, placement', discard, hand', melds, wall_pos + 1,
                dead_wall_draw_count)
      BY ONLY <1>2, <1>6, <1>10, <2>1, <2>2, BoardDraw
    <2> QED
      BY <1>3, <1>4, <2>3
  <1>12. Logged(Table, discard', discard_history', discards')
    BY <1>3, <1>4, SameLog
  <1>13. NamedTiles'
    <2>1. t \in At(MakeHand(p), placement')
      BY <1>4, <1>6, <1>7 DEF At
    <2>2. pending_kan = "NONE" /\ kan_tile = TILE_INVALID
      BY <1>3, RoundFacts DEF Results, RobbedKanKept, TableInv, NamedTiles
    <2> QED
      BY <1>3, <1>4, <1>6, <1>7, <2>1, <2>2 DEF NamedTiles
  <1>14. TableMoves
    <2>1. t \in At(LOCATION_NONE, placement) /\ discard[t] = LOCATION_NONE
      BY <1>6, <1>7, <1>8 DEF Board, At
    <2>2. DrawsOne
      BY <1>2, <1>4, <2>1 DEF DrawsOne, DrawnInto, PassIntoNextDraw
    <2> QED
      BY <1>4, <2>2 DEF TableMoves
  <1> QED
    BY <1>4, <1>11, <1>12, <1>13, <1>14, TableInvNext

\* The tiles of a meld that is added move to the next group of the player.
LEMMA MeldMoves ==
  ASSUME TableInv, CountsOK(hand, melds), NEW p \in Player, NEW kind \in MeldKinds,
         MeldCount(melds[p]) < 4, NEW ts \in SUBSET Table
  PROVE  LET n == MeldCount(melds[p])
             b == MakeMeld(p, NextGroup(p, kind), kind)
         IN /\ n \in 0 .. 3 /\ NextGroup(p, kind) = n
            /\ Moves(Table, ts, b, placement, Place(ts, b))
  <1> DEFINE n == MeldCount(melds[p])
             b == MakeMeld(p, n, kind)
  <1>1. NextGroup(p, kind) = n
    BY NextGroupIsFree
  <1>2. n \in 0 .. 3
    BY MeldCountType DEF CountsOK
  <1>3. IsFiniteSet(Table) /\ placement \in [Table -> Bytes]
    BY DealFacts DEF TableInv, Board
  <1>4. b \in Bytes
    BY <1>2, BytesDiffer
  <1> HIDE DEF n, b
  <1>5. Place(ts, b) \in [Table -> Bytes]
    BY <1>3, <1>4 DEF Place
  <1>6. Moves(Table, ts, b, placement, Place(ts, b))
    BY <1>3, <1>5 DEF Moves, Place
  <1> QED
    BY <1>1, <1>2, <1>6 DEF n, b

\* A meld that is added is the next group of the board.
LEMMA BoardMelds ==
  ASSUME TableInv, CountsOK(hand, melds), NEW p \in Player, NEW kind \in MeldKinds,
         MeldCount(melds[p]) < 4,
         NEW ts \in SUBSET Table, Meldable(p, kind, ts, placement, discard),
         \A t \in ts : placement[t] # LOCATION_NONE \/ discard[t] # LOCATION_NONE,
         NEW new,
         HandChanges(p, -Cardinality(ts \cap At(MakeHand(p), placement)), hand, new)
  PROVE  Board(Table, deal.wall, Place(ts, MakeMeld(p, NextGroup(p, kind), kind)), discard,
               new, AddMeld(p, kind), wall_pos, dead_wall_draw_count)
  <1> DEFINE n == MeldCount(melds[p])
             b == MakeMeld(p, n, kind)
             after == Place(ts, b)
             melded == AddMeld(p, kind)
  <1>1. NextGroup(p, kind) = n /\ Moves(Table, ts, b, placement, after)
    BY MeldMoves
  <1>2. n \in 0 .. 3 /\ melds \in [Player -> MeldRecords]
    BY MeldCountType DEF CountsOK
  <1>3. /\ Board(Table, deal.wall, placement, discard, hand, melds, wall_pos,
                 dead_wall_draw_count)
        /\ IsFiniteSet(Table) /\ placement \in [Table -> Bytes]
    BY DealFacts DEF TableInv, Board
  <1>5. MeldsChange(p, [melds[p] EXCEPT ![kind] = @ + 1], melds, melded)
    BY <1>2, FourMeldsAssumption DEF AddMeld, MeldsChange
  <1> HIDE DEF after, melded, b, n
  <1>6. Collected(after, discard, new, melded)
    <2>1. Collected(placement, discard, hand, melds)
      BY <1>3 DEF Board
    <2> QED
      BY <1>1, <1>5, <2>1, MeldCollected DEF b, n
  <1>7. Board(Table, deal.wall, after, discard, new, melded, wall_pos, dead_wall_draw_count)
    BY <1>1, <1>2, <1>3, <1>6, BoardMoves DEF b
  <1> QED
    BY <1>1, <1>7 DEF after, melded, b

\* A step that adds a meld, and draws a tile for it or does not.
LEMMA MeldStep ==
  ASSUME TableInv, CountsOK(hand, melds), NEW p \in Player, NEW kind \in MeldKinds,
         MeldCount(melds[p]) < 4,
         NEW ts \in SUBSET Table, Meldable(p, kind, ts, placement, discard),
         \A t \in ts : placement[t] # LOCATION_NONE \/ discard[t] # LOCATION_NONE,
         \A t \in ts : discard[t] # LOCATION_NONE => BytePlayer(discard[t]) = current_player,
         NEW from, from = (IF kind = "ankan" THEN p ELSE current_player),
         NEW melded, melded = Place(ts, MakeMeld(p, NextGroup(p, kind), kind)),
         deal' = deal, discard' = discard, pao' = UpdatePao(p, from, melded),
         placement' = melded \/ DrawnInto(p, melded)
  PROVE  TableMoves
  <1>1. /\ MeldCount(melds[p]) \in 0 .. 3
        /\ Moves(Table, ts, MakeMeld(p, MeldCount(melds[p]), kind), placement, melded)
    BY MeldMoves
  <1>2. NewMeld(p, MeldCount(melds[p]), kind, ts, from)
    BY DEF NewMeld
  <1>3. Melds(p)
    BY <1>1, <1>2 DEF Melds, Melding
  <1> QED
    BY <1>3 DEF TableMoves

\* No tile of a hand has been discarded.
LEMMA HandUndiscarded ==
  ASSUME TableInv
  PROVE  \A p \in Player : \A t \in At(MakeHand(p), placement) : discard[t] = LOCATION_NONE
  BY DEF TableInv, Board

\* The tiles of an open call: n from the hand of player p and the one offered.
LEMMA OpenCallTiles ==
  ASSUME TableInv, RoundInv, OwnDiscardsFit, phase = "DISCARD",
         NEW p \in Player \ {current_player}, NEW kind \in MeldKinds \ {"ankan"},
         NEW us \in SUBSET At(MakeHand(p), placement),
         GroupSize(kind) = Cardinality(us) + 1
  PROVE  LET ts == us \cup {offered}
         IN /\ ts \in SUBSET Table
            /\ Meldable(p, kind, ts, placement, discard)
            /\ \A t \in ts : placement[t] # LOCATION_NONE \/ discard[t] # LOCATION_NONE
            /\ Cardinality(ts \cap At(MakeHand(p), placement)) = Cardinality(us)
            /\ offered \in Table /\ placement[offered] = LOCATION_NONE
            /\ discard[offered] # LOCATION_NONE
            /\ BytePlayer(discard[offered]) = current_player
  <1> DEFINE ts == us \cup {offered}
  <1>1. /\ current_player \in Player /\ discards[current_player] \in 0 .. 30
    BY RoundFacts
  <1>2. /\ offered \in At(LOCATION_NONE, placement)
        /\ discards[current_player] > 0
        /\ IsDiscardOf(current_player, discards[current_player] - 1, discard[offered])
    BY DEF TableInv, NamedTiles
  <1>3. /\ discard[offered] # LOCATION_NONE
        /\ BytePlayer(discard[offered]) = current_player
    BY <1>1, <1>2, DiscardByte
  <1>4. /\ placement \in [Table -> Bytes] /\ IsFiniteSet(Table)
        /\ \A t \in us : discard[t] = LOCATION_NONE
    BY DealFacts DEF TableInv, Board
  <1>5. /\ us \subseteq Table /\ offered \in Table
        /\ placement[offered] = LOCATION_NONE
        /\ \A t \in us : placement[t] = MakeHand(p)
    BY <1>2, <1>4 DEF At
  <1>6. MakeHand(p) # LOCATION_NONE
    BY HandByte
  <1>7. offered \notin us /\ offered \notin At(MakeHand(p), placement)
    BY <1>5, <1>6 DEF At
  <1>8. IsFiniteSet(us)
    BY <1>4, <1>5, FS_Subset
  <1>9. Cardinality(ts) = GroupSize(kind)
    BY <1>7, <1>8, FS_AddElement
  <1>10. {t \in ts : discard[t] # LOCATION_NONE} = {offered}
    BY <1>3, <1>4
  <1>11. Cardinality({offered}) = 1
    BY FS_Singleton
  <1>12. ts \cap At(MakeHand(p), placement) = us
    BY <1>7
  <1>13. Meldable(p, kind, ts, placement, discard)
    BY <1>3, <1>4, <1>5, <1>9, <1>10, <1>11 DEF Meldable
  <1> QED
    BY <1>3, <1>5, <1>6, <1>12, <1>13

\* A chi or a pon takes two tiles of the hand.
LEMMA TableCalls ==
  ASSUME TableInv, RoundInv, OwnDiscardsFit, NEW p, NEW kind \in {"chi", "pon"}, NEW ts,
         ChiOrPon(p, kind), ChiOrPonWith(p, kind, ts)
  PROVE  TableInv' /\ TableMoves
  <1> DEFINE us == ts \cup {offered}
  <1>1. CountsOK(hand, melds) /\ current_player \in Player /\ TypeOK
    BY RoundFacts
  <1>2. /\ phase = "DISCARD" /\ phase' = "AFTER_CALL" /\ current_player' = p
        /\ p # current_player /\ p \in Player
        /\ MeldCount(melds[p]) < MaxMelds
        /\ melds' = AddMeld(p, kind)
        /\ hand' = [hand EXCEPT ![p] = HandAfterMeld(p, 2)]
        /\ draw_tile' = FALSE /\ pending_kan' = "NONE"
        /\ UNCHANGED <<discards, wall_pos, dead_wall_draw_count>>
    BY PeopleAssumption
    DEF ChiOrPon, CanChiOrPon, CanClaimDiscard, FinishOpenCall, wallVars
  <1>3. /\ Cardinality(ts) = 2 /\ InHand(p, ts)
        /\ AddMeldTiles(p, kind, us, current_player)
        /\ drawn' = TILE_INVALID /\ kan_tile' = TILE_INVALID
        /\ UNCHANGED <<deal, discard, discard_history, offered>>
    BY DEF ChiOrPonWith
  <1>4. ts \in SUBSET At(MakeHand(p), placement)
    BY <1>2, <1>3, HandIsAt
  <1>5. kind \in MeldKinds \ {"ankan"} /\ GroupSize(kind) = Cardinality(ts) + 1
    BY <1>3 DEF MeldKinds, GroupSize, KanKinds
  <1>6. /\ us \in SUBSET Table
        /\ Meldable(p, kind, us, placement, discard)
        /\ \A t \in us : placement[t] # LOCATION_NONE \/ discard[t] # LOCATION_NONE
        /\ Cardinality(us \cap At(MakeHand(p), placement)) = 2
        /\ \A t \in us : discard[t] # LOCATION_NONE => BytePlayer(discard[t]) = current_player
    BY <1>1, <1>2, <1>3, <1>4, <1>5, OpenCallTiles, HandUndiscarded
  <1>7. HandChanges(p, -2, hand, hand')
    BY <1>1, <1>2 DEF HandChanges, HandAfterMeld, CountsOK
  <1>8. placement' = Place(us, MakeMeld(p, NextGroup(p, kind), kind))
    BY <1>1, <1>2, <1>3, NextGroupIsFree DEF AddMeldTiles
  <1> HIDE DEF us
  <1>9. Board(Table, deal.wall, placement', discard, hand', melds', wall_pos,
              dead_wall_draw_count)
    BY <1>1, <1>2, <1>5, <1>6, <1>7, <1>8, BoardMelds, FourMeldsAssumption
  <1>10. Board(Table, deal.wall, placement', discard', hand', melds', wall_pos',
               dead_wall_draw_count')
    BY <1>2, <1>3, <1>9
  <1>11. Logged(Table, discard', discard_history', discards')
    BY <1>2, <1>3, SameLog
  <1>12. NamedTiles'
    BY <1>2, <1>3 DEF NamedTiles
  <1>13. TableMoves
    <2>1. pao' = UpdatePao(p, current_player, placement')
      BY <1>1, <1>2, <1>3, NextGroupIsFree DEF AddMeldTiles
    <2> QED
      BY <1>1, <1>2, <1>3, <1>5, <1>6, <1>8, <2>1, MeldStep, FourMeldsAssumption
  <1> QED
    BY <1>3, <1>10, <1>11, <1>12, <1>13, TableInvNext

\* The tile of the dead wall that the next kan draws.
LEMMA RinshanTileUndrawn ==
  ASSUME TableInv, RoundInv, OwnDiscardsFit, dead_wall_draw_count < RINSHAN_TILE_COUNT
  PROVE  /\ RinshanTile \in Table
         /\ Undrawn(deal.wall[RinshanTile], wall_pos, dead_wall_draw_count)
         /\ \A s \in Table :
              Undrawn(deal.wall[s], wall_pos, dead_wall_draw_count + 1) =>
                Undrawn(deal.wall[s], wall_pos, dead_wall_draw_count) /\ s # RinshanTile
  <1> DEFINE n == dead_wall_draw_count + 1
             position == RINSHAN_INDICES[n]
  <1>1. /\ wall_pos \in Nat /\ dead_wall_draw_count \in Nat /\ n \in 1 .. 4
        /\ deal \in Deals
    BY RoundFacts DEF RINSHAN_TILE_COUNT, TableInv
  <1>2. /\ \A i \in 1 .. 4 : RINSHAN_INDICES[i] \in 132 .. 135
        /\ \A i, j \in 1 .. 4 : i # j => RINSHAN_INDICES[i] # RINSHAN_INDICES[j]
    BY DEF RINSHAN_INDICES
  <1>3. position \in 132 .. 135
    BY <1>1, <1>2
  <1>4. RinshanTile \in Table /\ deal.wall[RinshanTile] = position
    BY <1>1, <1>3, TileInPlace DEF RinshanTile
  <1>5. Undrawn(deal.wall[RinshanTile], wall_pos, dead_wall_draw_count)
    BY <1>1, <1>4 DEF Undrawn, RINSHAN_TILE_COUNT
  <1>6. ASSUME NEW s \in Table, Undrawn(deal.wall[s], wall_pos, n)
        PROVE  Undrawn(deal.wall[s], wall_pos, dead_wall_draw_count) /\ s # RinshanTile
    <2>1. Undrawn(deal.wall[s], wall_pos, dead_wall_draw_count)
      BY <1>1, <1>6, UndrawnShrinks
    <2>2. deal.wall[s] # position
      <3>1. CASE deal.wall[s] \in (LIVE_WALL_START + wall_pos) .. 121
        BY <1>1, <1>3, <3>1 DEF LIVE_WALL_START
      <3>2. ASSUME NEW i \in (n + 1) .. RINSHAN_TILE_COUNT,
                   deal.wall[s] = RINSHAN_INDICES[i]
            PROVE  deal.wall[s] # position
        BY <1>1, <1>2, <3>2 DEF RINSHAN_TILE_COUNT
      <3> QED
        BY <1>6, <3>1, <3>2 DEF Undrawn
    <2> QED
      BY <1>4, <2>1, <2>2
  <1> QED
    BY <1>4, <1>5, <1>6

\* A player draws the next tile of the dead wall.
LEMMA RinshanDrawn ==
  ASSUME TableInv, RoundInv, OwnDiscardsFit, dead_wall_draw_count < RINSHAN_TILE_COUNT,
         NEW p \in Player, NEW pl, NEW hands, NEW ms, CountsOK(hands, ms),
         Board(Table, deal.wall, pl, discard, hands, ms, wall_pos, dead_wall_draw_count),
         NEW new, HandChanges(p, 1, hands, new),
         NEW after, after = [pl EXCEPT ![RinshanTile] = MakeHand(p)]
  PROVE  /\ Board(Table, deal.wall, after, discard, new, ms, wall_pos,
                  dead_wall_draw_count + 1)
         /\ RinshanTile \in At(MakeHand(p), after) /\ RinshanTile # TILE_INVALID
  <1> DEFINE t == RinshanTile
             deader == dead_wall_draw_count + 1
  <1>1. /\ t \in Table
        /\ Undrawn(deal.wall[t], wall_pos, dead_wall_draw_count)
        /\ \A s \in Table :
             Undrawn(deal.wall[s], wall_pos, deader) =>
               Undrawn(deal.wall[s], wall_pos, dead_wall_draw_count) /\ s # t
    BY RinshanTileUndrawn
  <1>2. IsFiniteSet(Table) /\ TILE_INVALID \notin Table
    BY DealFacts DEF TableInv
  <1>3. pl \in [Table -> Bytes]
    BY DEF Board
  <1> HIDE DEF t, deader
  <1>4. after = [pl EXCEPT ![t] = MakeHand(p)]
    BY DEF t
  <1>5. Board(Table, deal.wall, after, discard, new, ms, wall_pos, deader)
    <2>1. /\ Board(Table, deal.wall, pl, discard, hands, ms, wall_pos, dead_wall_draw_count)
          /\ CountsOK(hands, ms) /\ HandChanges(p, 1, hands, new) /\ p \in Player
      OBVIOUS
    <2>2. WallGives(Table, deal.wall, wall_pos, dead_wall_draw_count, wall_pos, deader,
                    p, t, pl, after)
      BY <1>1, <1>4 DEF WallGives
    <2> QED
      BY ONLY <1>2, <2>1, <2>2, BoardDraw
  <1>6. t \in At(MakeHand(p), after)
    BY <1>1, <1>3, <1>4 DEF At
  <1> QED
    BY <1>1, <1>2, <1>5, <1>6 DEF t, deader

\* That tile is drawn after the placements of a meld.
LEMMA RinshanDrawnInto ==
  ASSUME TableInv, RoundInv, OwnDiscardsFit, dead_wall_draw_count < RINSHAN_TILE_COUNT,
         NEW p \in Player, NEW pl, placement' = [pl EXCEPT ![RinshanTile] = MakeHand(p)],
         drawn' = RinshanTile
  PROVE  DrawnInto(p, pl)
  <1>1. RinshanTile \in Table /\ Undrawn(deal.wall[RinshanTile], wall_pos, dead_wall_draw_count)
    BY RinshanTileUndrawn
  <1>2. /\ placement \in [Table -> Bytes] /\ placement[RinshanTile] = LOCATION_NONE
        /\ discard[RinshanTile] = LOCATION_NONE
    BY <1>1 DEF TableInv, Board
  <1>3. RinshanTile \in At(LOCATION_NONE, placement)
    BY <1>1, <1>2 DEF At
  <1> QED
    BY <1>2, <1>3 DEF DrawnInto

\* The counts when player p adds a meld with n tiles of his hand.
LEMMA CountsAfterMeld ==
  ASSUME TypeOK, CountsOK(hand, melds), NEW p \in Player, NEW kind \in MeldKinds,
         MeldCount(melds[p]) < MaxMelds, NEW n \in Nat
  PROVE  /\ CountsOK([hand EXCEPT ![p] = @ - n], AddMeld(p, kind))
         /\ HandChanges(p, -n, hand, [hand EXCEPT ![p] = @ - n])
         /\ HandAfterMeld(p, n) = hand[p] - n
  <1> DEFINE after == AddMeld(p, kind)
  <1>1. /\ hand \in [Player -> Int]
        /\ \A q \in Player : MeldCount(melds[q]) \in Nat /\ MeldCount(melds[q]) <= 4
    BY MeldCountType DEF CountsOK
  <1>2. /\ after \in [Player -> MeldRecords]
        /\ MeldCount(after[p]) = MeldCount(melds[p]) + 1
        /\ \A q \in Player \ {p} : after[q] = melds[q]
    BY MeldAdded
  <1> HIDE DEF after
  <1>3. \A q \in Player : MeldCount(after[q]) <= 4
    BY <1>1, <1>2, FourMeldsAssumption
  <1>4. [hand EXCEPT ![p] = @ - n] \in [Player -> Int]
    BY <1>1
  <1>5. CountsOK([hand EXCEPT ![p] = @ - n], after)
    BY <1>2, <1>3, <1>4 DEF CountsOK
  <1>6. HandChanges(p, -n, hand, [hand EXCEPT ![p] = @ - n])
    BY <1>1 DEF HandChanges
  <1> QED
    BY <1>5, <1>6 DEF after, HandAfterMeld

\* An open kan takes three tiles of the hand and draws one for them, unless it
\* aborts the round.
LEMMA TableMinkan ==
  ASSUME TableInv, RoundInv, OwnDiscardsFit, NEW p \in Player, MinkanOf(p)
  PROVE  TableInv' /\ TableMoves
  <1> DEFINE us == TilesOf(TypeOf(offered)) \ {offered}
             ts == us \cup {offered}
             melded == Place(ts, MakeMeld(p, NextGroup(p, "minkan"), "minkan"))
             left == [hand EXCEPT ![p] = @ - 3]
             ms == AddMeld(p, "minkan")
  <1>1. /\ TypeOK /\ Accounts /\ CountsOK(hand, melds) /\ current_player \in Player
        /\ hand \in [Player -> Int]
    BY RoundFacts DEF CountsOK
  <1>2. /\ phase = "DISCARD" /\ current_player' = p /\ p # current_player /\ hand[p] > 2
        /\ CanDeclareMoreKans /\ melds' = ms /\ pending_kan' = "NONE"
        /\ UNCHANGED <<discards, wall_pos>>
    BY DEF MinkanOf, Minkan, CanMinkan, CanClaimDiscard, FinishOpenCall, FinishAbortiveDraw,
           FinishDrawRound
  <1>3. /\ Cardinality(us) = 3 /\ InHand(p, us)
        /\ IF draw_tile'
             THEN placement' = [melded EXCEPT ![RinshanTile] = MakeHand(p)]
                  /\ drawn' = RinshanTile
             ELSE placement' = melded /\ drawn' = TILE_INVALID
        /\ kan_tile' = TILE_INVALID
        /\ UNCHANGED <<deal, discard, discard_history, offered>>
    BY DEF MinkanOf, Draws
  <1>4. MeldCount(melds[p]) < MaxMelds
    BY <1>1, <1>2, RoomForAMeld DEF Accounts, HoldsExtraTile
  <1>5. /\ CountsOK(left, ms) /\ HandChanges(p, -3, hand, left)
        /\ HandAfterMeld(p, 3) = hand[p] - 3
    BY <1>1, <1>4, CountsAfterMeld DEF MeldKinds
  <1>6. us \in SUBSET At(MakeHand(p), placement)
    BY <1>3, HandIsAt
  <1>7. /\ ts \in SUBSET Table
        /\ Meldable(p, "minkan", ts, placement, discard)
        /\ \A t \in ts : placement[t] # LOCATION_NONE \/ discard[t] # LOCATION_NONE
        /\ Cardinality(ts \cap At(MakeHand(p), placement)) = 3
        /\ \A t \in ts : discard[t] # LOCATION_NONE => BytePlayer(discard[t]) = current_player
    <2> HIDE DEF us
    <2>1. /\ "minkan" \in MeldKinds \ {"ankan"} /\ p \in Player \ {current_player}
          /\ GroupSize("minkan") = Cardinality(us) + 1
      BY <1>2, <1>3 DEF MeldKinds, GroupSize, KanKinds
    <2> QED
      BY <1>2, <1>3, <1>6, <2>1, OpenCallTiles, HandUndiscarded
  <1> HIDE DEF us, ts, left, ms, melded
  <1>8. Board(Table, deal.wall, melded, discard, left, ms, wall_pos, dead_wall_draw_count)
    <2>1. "minkan" \in MeldKinds
      BY DEF MeldKinds
    <2> QED
      BY <1>1, <1>4, <1>5, <1>7, <2>1, BoardMelds, FourMeldsAssumption DEF melded, ms
  <1>9. ASSUME placement' = melded \/ DrawnInto(p, melded)
        PROVE  TableMoves
    <2>1. pao' = UpdatePao(p, current_player, melded)
      BY DEF MinkanOf, melded, ts, us
    <2>2. "minkan" \in MeldKinds /\ "minkan" # "ankan"
      BY DEF MeldKinds
    <2> QED
      BY <1>1, <1>3, <1>4, <1>7, <1>9, <2>1, <2>2, MeldStep, FourMeldsAssumption DEF melded
  <1>10. CASE ~ draw_tile'
    <2>1. phase' = "ROUND_END" /\ hand' = left /\ dead_wall_draw_count' = dead_wall_draw_count
      BY <1>5, <1>10 DEF MinkanOf, Minkan, FinishAbortiveDraw, FinishDrawRound, left
    <2>2. placement' = melded /\ drawn' = TILE_INVALID
      BY <1>3, <1>10
    <2>3. Board(Table, deal.wall, placement', discard', hand', melds', wall_pos',
                dead_wall_draw_count')
      BY <1>2, <1>3, <1>8, <2>1, <2>2
    <2>4. NamedTiles'
      BY <1>2, <1>3, <1>10, <2>1, <2>2 DEF NamedTiles
    <2>5. Logged(Table, discard', discard_history', discards')
      BY <1>2, <1>3, SameLog
    <2> QED
      BY <1>3, <1>9, <2>2, <2>3, <2>4, <2>5, TableInvNext
  <1>11. CASE draw_tile'
    <2>1. /\ ~ ShouldAbortOnFourKans(ms) /\ phase' = "DRAW"
          /\ hand' = [hand EXCEPT ![p] = HandAfterMeld(p, 3) + 1]
          /\ dead_wall_draw_count' = dead_wall_draw_count + 1
      BY <1>11 DEF MinkanOf, Minkan, ms
    <2>2. dead_wall_draw_count < RINSHAN_TILE_COUNT
      <3>1. CountTotalKans(ms) = CountTotalKans(melds) + 1
        BY <1>1, <1>4, MeldAdded DEF MeldKinds, KanKinds, ms
      <3>2. CountTotalKans(melds) \in Nat
        BY <1>1, TotalsType DEF CountsOK
      <3>3. CountTotalKans(melds) # 4
        BY <2>1, <3>1, <3>2 DEF ShouldAbortOnFourKans
      <3>4. dead_wall_draw_count \in 0 .. 3
        BY <1>1, <1>2, <3>3, KanAdmitted
      <3> QED
        BY <3>4 DEF RINSHAN_TILE_COUNT
    <2>3. HandChanges(p, 1, left, hand')
      <3>1. /\ hand'[p] = hand[p] - 3 + 1 /\ left[p] = hand[p] - 3
            /\ \A q \in Player \ {p} : hand'[q] = left[q]
        BY <1>1, <1>5, <2>1 DEF left
      <3> QED
        BY <3>1 DEF HandChanges
    <2>4. placement' = [melded EXCEPT ![RinshanTile] = MakeHand(p)] /\ drawn' = RinshanTile
      BY <1>3, <1>11
    <2>5. /\ Board(Table, deal.wall, placement', discard, hand', ms, wall_pos,
                   dead_wall_draw_count + 1)
          /\ RinshanTile \in At(MakeHand(p), placement') /\ RinshanTile # TILE_INVALID
      BY <1>5, <1>8, <2>2, <2>3, <2>4, RinshanDrawn
    <2>6. Board(Table, deal.wall, placement', discard', hand', melds', wall_pos',
                dead_wall_draw_count')
      BY <1>2, <1>3, <2>1, <2>5
    <2>7. NamedTiles'
      BY <1>2, <1>3, <1>11, <2>1, <2>4, <2>5 DEF NamedTiles
    <2>8. Logged(Table, discard', discard_history', discards')
      BY <1>2, <1>3, SameLog
    <2>9. DrawnInto(p, melded)
      BY <2>2, <2>4, RinshanDrawnInto
    <2> QED
      BY <1>3, <1>9, <2>6, <2>7, <2>8, <2>9, TableInvNext
  <1> QED
    BY <1>10, <1>11

\* The tiles of a closed kan.
LEMMA ClosedKanTiles ==
  ASSUME TableInv, NEW p \in Player, NEW ts \in SUBSET At(MakeHand(p), placement),
         Cardinality(ts) = 4
  PROVE  /\ ts \in SUBSET Table
         /\ Meldable(p, "ankan", ts, placement, discard)
         /\ \A t \in ts : placement[t] # LOCATION_NONE \/ discard[t] # LOCATION_NONE
         /\ Cardinality(ts \cap At(MakeHand(p), placement)) = 4
  <1>1. placement \in [Table -> Bytes] /\ \A t \in ts : discard[t] = LOCATION_NONE
    BY DEF TableInv, Board
  <1>2. ts \in SUBSET Table /\ \A t \in ts : placement[t] = MakeHand(p)
    BY <1>1 DEF At
  <1>3. {t \in ts : discard[t] # LOCATION_NONE} = {}
    BY <1>1
  <1>4. Cardinality({}) = 0
    BY FS_EmptySet
  <1>5. Meldable(p, "ankan", ts, placement, discard)
    BY <1>1, <1>2, <1>3, <1>4 DEF Meldable, GroupSize, KanKinds
  <1>6. ts \cap At(MakeHand(p), placement) = ts
    OBVIOUS
  <1> QED
    BY <1>2, <1>5, <1>6, HandByte

\* A closed kan waits in the hand, or is melded if it aborts the round.
LEMMA TableAnkan ==
  ASSUME TableInv, RoundInv, OwnDiscardsFit, NEW type \in TileType, AnkanOf(type)
  PROVE  TableInv' /\ TableMoves
  <1> DEFINE p  == current_player
             ts == TilesOf(type)
  <1>1. /\ TypeOK /\ Accounts /\ CountsOK(hand, melds) /\ p \in Player
        /\ hand \in [Player -> Int]
    BY RoundFacts DEF CountsOK
  <1>2. /\ phase = "DRAW" /\ current_player' = p /\ hand[p] >= 4
        /\ UNCHANGED <<discards, wall_pos, dead_wall_draw_count>>
    BY DEF AnkanOf, Ankan, wallVars
  <1>3. /\ Cardinality(ts) = 4 /\ InHand(p, ts)
        /\ UNCHANGED <<deal, discard, discard_history, offered>>
    BY DEF AnkanOf, TILE_PER_TYPE
  <1>4. ts \in SUBSET At(MakeHand(p), placement)
    BY <1>1, <1>3, HandIsAt
  <1>5. Logged(Table, discard', discard_history', discards')
    BY <1>2, <1>3, SameLog
  <1>6. CASE phase' = "ANKAN_RESOLVE"
    <2>1. /\ kan_tile' = First(ts) /\ pending_kan' = "ANKAN"
          /\ UNCHANGED <<placement, drawn, draw_tile, hand, melds>>
      BY <1>6 DEF AnkanOf, Ankan, FinishAbortiveDraw, FinishDrawRound
    <2>2. TypeOf(kan_tile') = type /\ kan_tile' \in 0 .. 135
      BY <2>1, TilesOfType
    <2>3. kan_tile' # TILE_INVALID
      BY <2>2 DEF TILE_INVALID
    <2>4. NamedTiles'
      BY <1>2, <1>3, <1>4, <1>6, <2>1, <2>2, <2>3 DEF TableInv, NamedTiles
    <2>5. TableMoves
      BY <1>3, <1>6, <2>1 DEF AnkanOf, TableMoves, Stays
    <2> QED
      BY <1>2, <1>3, <2>1, <2>4, <2>5, SameBytes DEF byteVars, tileVars, wallVars
  <1>7. CASE phase' # "ANKAN_RESOLVE"
    <2>1. /\ phase' = "ROUND_END" /\ pending_kan' = "NONE" /\ draw_tile' = FALSE
          /\ melds' = AddMeld(p, "ankan")
          /\ hand' = [hand EXCEPT ![p] = HandAfterMeld(p, 4)]
          /\ AddMeldTiles(p, "ankan", ts, p)
          /\ drawn' = TILE_INVALID /\ kan_tile' = TILE_INVALID
      BY <1>7 DEF AnkanOf, Ankan, FinishAbortiveDraw, FinishDrawRound
    <2>2. MeldCount(melds[p]) < MaxMelds
      BY <1>1, <1>2, RoomForAMeld DEF Accounts, HoldsExtraTile
    <2>3. HandChanges(p, -4, hand, hand')
      BY <1>1, <2>1, <2>2 DEF HandChanges, HandAfterMeld
    <2>4. /\ ts \in SUBSET Table
          /\ Meldable(p, "ankan", ts, placement, discard)
          /\ \A t \in ts : placement[t] # LOCATION_NONE \/ discard[t] # LOCATION_NONE
          /\ Cardinality(ts \cap At(MakeHand(p), placement)) = 4
      BY <1>1, <1>3, <1>4, ClosedKanTiles
    <2>5. "ankan" \in MeldKinds
      BY DEF MeldKinds
    <2>6. placement' = Place(ts, MakeMeld(p, NextGroup(p, "ankan"), "ankan"))
      BY <1>1, <2>1, <2>2, <2>5, NextGroupIsFree DEF AddMeldTiles
    <2> HIDE DEF ts, p
    <2>7. Board(Table, deal.wall, placement', discard, hand', melds', wall_pos,
                dead_wall_draw_count)
      BY <1>1, <2>1, <2>2, <2>3, <2>4, <2>5, <2>6, BoardMelds, FourMeldsAssumption
    <2>8. Board(Table, deal.wall, placement', discard', hand', melds', wall_pos',
                dead_wall_draw_count')
      BY <1>2, <1>3, <2>7
    <2>9. NamedTiles'
      BY <2>1 DEF NamedTiles
    <2>10. TableMoves
      <3>1. pao' = UpdatePao(p, p, placement')
        BY <1>1, <2>1, <2>2, <2>5, NextGroupIsFree DEF AddMeldTiles
      <3>2. \A t \in ts : discard[t] = LOCATION_NONE
        BY <1>1, <1>4, HandUndiscarded
      <3> QED
        BY <1>1, <1>3, <2>2, <2>4, <2>5, <2>6, <3>1, <3>2, MeldStep, FourMeldsAssumption
    <2> QED
      BY <1>3, <1>5, <2>8, <2>9, <2>10, TableInvNext
  <1> QED
    BY <1>6, <1>7

\* The meld of a group is made of the tiles with its byte.
LEMMA MeldOfGroup ==
  ASSUME NEW T, NEW pl, pl \in [T -> Bytes], \A t \in T : IsPlacement(pl[t]),
         NEW d, NEW p \in Player, NEW m \in MeldRecords, MeldCount(m) <= 4,
         NEW k, Grouped(p, pl, d, m, k), NEW g \in DOMAIN k
  PROVE  LET b == MakeMeld(p, g, k[g])
         IN /\ g \in 0 .. 3 /\ k[g] \in MeldKinds
            /\ Meld(p, g, pl, d).tiles = At(b, pl)
            /\ Meld(p, g, pl, d).kind = k[g]
            /\ At(b, pl) # {}
            /\ \A t \in At(b, pl) : MeldGroup(pl[t]) = g
  <1> DEFINE b == MakeMeld(p, g, k[g])
             tiles == {t \in MeldTiles(p, pl) : MeldGroup(pl[t]) = g}
  <1>1. g \in 0 .. 3 /\ k[g] \in MeldKinds
    BY MeldCountType DEF Grouped
  <1>2. IsMeld(b) /\ BytePlayer(b) = p /\ MeldGroup(b) = g /\ MeldKind(b) = k[g]
    BY <1>1, MeldByte
  <1>3. ASSUME NEW t \in tiles
        PROVE  t \in At(b, pl)
    <2>1. /\ t \in DOMAIN pl /\ IsMeld(pl[t]) /\ BytePlayer(pl[t]) = p
          /\ MeldGroup(pl[t]) = g /\ IsPlacement(pl[t])
      BY DEF MeldTiles
    <2>2. PICK h \in 0 .. 3, kind \in MeldKinds : pl[t] = MakeMeld(p, h, kind)
      BY <2>1, PlacementByte
    <2>3. h = g
      BY <2>1, <2>2, MeldByte
    <2>4. At(MakeMeld(p, g, kind), pl) # {}
      BY <2>1, <2>2, <2>3 DEF At
    <2>5. k[g] = kind
      BY <1>1, <2>4 DEF Grouped
    <2> QED
      BY <2>1, <2>2, <2>3, <2>5 DEF At
  <1>4. ASSUME NEW t \in At(b, pl)
        PROVE  t \in tiles /\ MeldGroup(pl[t]) = g /\ pl[t] = b
    <2>1. t \in DOMAIN pl /\ pl[t] = b
      BY DEF At
    <2> QED
      BY <1>2, <2>1 DEF MeldTiles
  <1>5. tiles = At(b, pl)
    BY <1>3, <1>4
  <1>6. At(b, pl) # {}
    <2>1. Cardinality(At(b, pl)) = GroupSize(k[g])
      BY DEF Grouped
    <2>2. GroupSize(k[g]) # 0
      BY DEF GroupSize
    <2> QED
      BY <2>1, <2>2, FS_EmptySet
  <1>7. Meld(p, g, pl, d).tiles = tiles /\ Meld(p, g, pl, d).kind = MeldKind(pl[CHOOSE t \in tiles : TRUE])
    BY DEF Meld
  <1> HIDE DEF b, tiles
  <1>8. (CHOOSE t \in tiles : TRUE) \in tiles
    BY <1>5, <1>6
  <1>9. MeldKind(pl[CHOOSE t \in tiles : TRUE]) = k[g]
    BY <1>2, <1>4, <1>5, <1>8
  <1> QED
    BY <1>1, <1>4, <1>5, <1>6, <1>7, <1>9 DEF b

\* An added kan is melded at once.
LEMMA TableKakan ==
  ASSUME TableInv, RoundInv, OwnDiscardsFit, NEW tile, KakanWith(tile)
  PROVE  TableInv' /\ TableMoves
  <1> DEFINE p == current_player
             r == [melds[p] EXCEPT !["pon"] = @ - 1, !["kakan"] = @ + 1]
  <1>1. /\ TypeOK /\ CountsOK(hand, melds) /\ p \in Player
        /\ hand \in [Player -> Int] /\ melds \in [Player -> MeldRecords]
        /\ melds[p] \in MeldRecords /\ MeldCount(melds[p]) <= 4
    BY RoundFacts DEF CountsOK
  <1>2. /\ Kakan /\ InHand(p, {tile}) /\ drawn' = TILE_INVALID
        /\ kan_tile' = IF phase' = "KAKAN_RESOLVE" THEN tile ELSE TILE_INVALID
        /\ UNCHANGED <<deal, discard, discard_history, offered>>
    BY DEF KakanWith
  <1>3. /\ current_player' = p /\ draw_tile' = FALSE
        /\ melds' = [melds EXCEPT ![p] = r]
        /\ hand' = [hand EXCEPT ![p] = @ - 1]
        /\ \/ phase' = "KAKAN_RESOLVE" /\ pending_kan' = "KAKAN"
           \/ phase' = "ROUND_END" /\ pending_kan' = "NONE"
        /\ UNCHANGED <<discards, wall_pos, dead_wall_draw_count>>
    BY <1>1, <1>2 DEF Kakan, FinishAbortiveDraw, FinishDrawRound, wallVars
  <1>4. PICK m \in MeldsOf(p, placement) :
          LET group == MeldGroup(placement[CHOOSE t \in m.tiles : TRUE])
          IN /\ m.kind = "pon"
             /\ Types(m.tiles) = {TypeOf(tile)}
             /\ placement' = Place(m.tiles \cup {tile}, MakeMeld(p, group, "kakan"))
             /\ pao' = UpdatePao(p, m.from, placement')
    BY DEF KakanWith
  <1>5. /\ Board(Table, deal.wall, placement, discard, hand, melds, wall_pos,
                 dead_wall_draw_count)
        /\ IsFiniteSet(Table) /\ TILE_INVALID \notin Table
        /\ placement \in [Table -> Bytes] /\ \A t \in Table : IsPlacement(placement[t])
        /\ Collected(placement, discard, hand, melds)
    BY DealFacts DEF TableInv, Board
  <1>6. PICK k : Grouped(p, placement, discard, melds[p], k)
    BY <1>1, <1>5 DEF Collected
  <1>7. PICK h \in DOMAIN k : m = Meld(p, h, placement, discard)
    <2>1. Groups(p, placement) = 0 .. (MeldCount(melds[p]) - 1)
      BY <1>1, <1>5, <1>6, GroupsAreNumbered
    <2>2. DOMAIN k = 0 .. (MeldCount(melds[p]) - 1)
      BY <1>6 DEF Grouped
    <2> QED
      BY <1>4, <2>1, <2>2 DEF MeldsOf
  <1> DEFINE c == MakeMeld(p, h, "pon")
             ts == At(c, placement) \cup {tile}
  <1>8. /\ h \in 0 .. 3 /\ k[h] = "pon" /\ m.tiles = At(c, placement)
        /\ m.tiles # {} /\ \A t \in m.tiles : MeldGroup(placement[t]) = h
    <2> HIDE DEF p
    <2>1. /\ h \in 0 .. 3
          /\ Meld(p, h, placement, discard).tiles = At(MakeMeld(p, h, k[h]), placement)
          /\ Meld(p, h, placement, discard).kind = k[h]
          /\ At(MakeMeld(p, h, k[h]), placement) # {}
          /\ \A t \in At(MakeMeld(p, h, k[h]), placement) : MeldGroup(placement[t]) = h
      BY ONLY <1>1, <1>5, <1>6, h \in DOMAIN k, MeldOfGroup
    <2> QED
      BY <1>4, <1>7, <2>1
  <1>9. MeldGroup(placement[CHOOSE t \in m.tiles : TRUE]) = h
    BY <1>8
  <1>10. placement' = Place(ts, MakeMeld(p, h, "kakan"))
    BY <1>4, <1>8, <1>9
  <1>11. tile \in At(MakeHand(p), placement)
    BY <1>1, <1>2, HandIsAt
  <1>12. tile \in Table /\ placement[tile] = MakeHand(p) /\ discard[tile] = LOCATION_NONE
    BY <1>1, <1>5, <1>11 DEF Board, At
  <1>13. "pon" \in MeldKinds /\ "kakan" \in MeldKinds
    BY DEF MeldKinds
  <1>14. /\ ts \in SUBSET Table
         /\ \A t \in ts : placement[t] # LOCATION_NONE \/ discard[t] # LOCATION_NONE
    <2>1. \A t \in At(c, placement) : t \in Table /\ placement[t] = c
      BY <1>5 DEF At
    <2>2. c # LOCATION_NONE /\ MakeHand(p) # LOCATION_NONE
      BY <1>1, <1>8, <1>13, BytesDiffer
    <2> QED
      BY <1>12, <2>1, <2>2
  <1>15. Moves(Table, ts, MakeMeld(p, h, "kakan"), placement, placement')
    <2>1. MakeMeld(p, h, "kakan") \in Bytes
      BY <1>1, <1>8, <1>13, BytesDiffer
    <2> HIDE DEF ts
    <2>2. placement' \in [Table -> Bytes]
      BY <1>5, <1>10, <2>1 DEF Place
    <2> QED
      BY <1>5, <1>10, <1>14, <2>2 DEF Moves, Place
  <1>16. HandChanges(p, -1, hand, hand') /\ MeldsChange(p, r, melds, melds')
    BY <1>1, <1>3 DEF HandChanges, MeldsChange
  <1> HIDE DEF p
  <1>17. Collected(placement', discard, hand', melds')
    BY <1>1, <1>5, <1>6, <1>8, <1>11, <1>12, <1>15, <1>16, KakanCollected
  <1> HIDE DEF ts
  <1>18. Board(Table, deal.wall, placement', discard, hand', melds', wall_pos,
               dead_wall_draw_count)
    BY <1>1, <1>5, <1>8, <1>13, <1>14, <1>15, <1>17, BoardMoves
  <1>19. Board(Table, deal.wall, placement', discard', hand', melds', wall_pos',
               dead_wall_draw_count')
    BY <1>2, <1>3, <1>18
  <1>20. Logged(Table, discard', discard_history', discards')
    BY <1>2, <1>3, SameLog
  <1>21. NamedTiles'
    BY <1>2, <1>3, <1>5, <1>12 DEF NamedTiles
  <1>22. TableMoves
    <2>1. AddedKan(p, h, "kakan", ts, m.from)
      BY <1>4, <1>7, <1>8, <1>11 DEF AddedKan, ts
    <2>2. pao' = UpdatePao(p, m.from, placement')
      BY <1>4
    <2>3. Melds(p)
      BY <1>2, <1>8, <1>13, <1>15, <2>1, <2>2 DEF Melds, Melding
    <2> QED
      BY <1>1, <1>2, <2>3 DEF TableMoves
  <1> QED
    BY <1>2, <1>19, <1>20, <1>21, <1>22, TableInvNext

\* The four tiles of a closed kan that nobody robs become a meld of the board.
LEMMA AnkanOnBoard ==
  ASSUME TableInv, RoundInv, OwnDiscardsFit, phase = "ANKAN_RESOLVE"
  PROVE  LET p == current_player
         IN /\ Board(Table, deal.wall,
                     Place(TilesOf(TypeOf(kan_tile)),
                           MakeMeld(p, NextGroup(p, "ankan"), "ankan")),
                     discard, [hand EXCEPT ![p] = @ - 4], AddMeld(p, "ankan"), wall_pos,
                     dead_wall_draw_count)
            /\ CountsOK([hand EXCEPT ![p] = @ - 4], AddMeld(p, "ankan"))
            /\ HandAfterMeld(p, 4) = hand[p] - 4
            /\ hand[p] - HandAfterMeld(p, 4) = 4
            /\ AddMeld(p, "ankan") # melds
  <1> DEFINE p  == current_player
             ts == TilesOf(TypeOf(kan_tile))
             left == [hand EXCEPT ![p] = @ - 4]
  <1>1. TypeOK /\ Accounts /\ CountsOK(hand, melds) /\ p \in Player
    BY RoundFacts
  <1>2. /\ ts \in SUBSET At(MakeHand(p), placement) /\ Cardinality(ts) = 4
    BY DEF TableInv, NamedTiles
  <1>3. /\ ts \in SUBSET Table
        /\ Meldable(p, "ankan", ts, placement, discard)
        /\ \A t \in ts : placement[t] # LOCATION_NONE \/ discard[t] # LOCATION_NONE
        /\ Cardinality(ts \cap At(MakeHand(p), placement)) = 4
    BY <1>1, <1>2, ClosedKanTiles
  <1>4. MeldCount(melds[p]) < MaxMelds
    <2>1. hand[p] >= 4
      BY <1>1 DEF Accounts, DeclaredKan
    <2> QED
      BY <1>1, <2>1, RoomForAMeld DEF Accounts, HoldsExtraTile
  <1>5. "ankan" \in MeldKinds
    BY DEF MeldKinds
  <1>6. /\ CountsOK(left, AddMeld(p, "ankan")) /\ HandChanges(p, -4, hand, left)
        /\ HandAfterMeld(p, 4) = hand[p] - 4
    BY <1>1, <1>4, <1>5, CountsAfterMeld
  <1>7. hand[p] - HandAfterMeld(p, 4) = 4
    BY <1>1, AnkanMelded
  <1>8. AddMeld(p, "ankan") # melds
    <2>1. MeldCount(AddMeld(p, "ankan")[p]) = MeldCount(melds[p]) + 1
      BY <1>1, AnkanMelded
    <2>2. MeldCount(melds[p]) \in Nat
      BY <1>1, MeldCountType DEF CountsOK
    <2> QED
      BY <2>1, <2>2
  <1> HIDE DEF ts, left, p
  <1>9. Board(Table, deal.wall, Place(ts, MakeMeld(p, NextGroup(p, "ankan"), "ankan")),
              discard, left, AddMeld(p, "ankan"), wall_pos, dead_wall_draw_count)
    BY <1>1, <1>3, <1>4, <1>5, <1>6, BoardMelds, FourMeldsAssumption
  <1> QED
    BY <1>6, <1>7, <1>8, <1>9 DEF ts, left, p

\* The step that melds them, and draws a tile for them or does not.
LEMMA AnkanStep ==
  ASSUME TableInv, RoundInv, OwnDiscardsFit, phase = "ANKAN_RESOLVE",
         NEW melded,
         melded = Place(TilesOf(TypeOf(kan_tile)),
                        MakeMeld(current_player, NextGroup(current_player, "ankan"), "ankan")),
         deal' = deal, discard' = discard, pao' = pao,
         placement' = melded \/ DrawnInto(current_player, melded)
  PROVE  TableMoves
  <1> DEFINE p  == current_player
             ts == TilesOf(TypeOf(kan_tile))
  <1>1. TypeOK /\ Accounts /\ CountsOK(hand, melds) /\ p \in Player
    BY RoundFacts
  <1>2. /\ ts \in SUBSET At(MakeHand(p), placement) /\ Cardinality(ts) = 4
    BY DEF TableInv, NamedTiles
  <1>3. /\ ts \in SUBSET Table
        /\ Meldable(p, "ankan", ts, placement, discard)
        /\ \A t \in ts : placement[t] # LOCATION_NONE \/ discard[t] # LOCATION_NONE
        /\ \A t \in ts : discard[t] = LOCATION_NONE
    BY <1>1, <1>2, ClosedKanTiles, HandUndiscarded
  <1>4. MeldCount(melds[p]) < 4
    <2>1. hand[p] >= 4
      BY <1>1 DEF Accounts, DeclaredKan
    <2> QED
      BY <1>1, <2>1, RoomForAMeld, FourMeldsAssumption DEF Accounts, HoldsExtraTile
  <1>5. "ankan" \in MeldKinds
    BY DEF MeldKinds
  <1>6. pao' = UpdatePao(p, p, melded)
    BY DEF UpdatePao
  <1> HIDE DEF ts
  <1>7. melded = Place(ts, MakeMeld(p, NextGroup(p, "ankan"), "ankan"))
    BY DEF ts
  <1> QED
    BY <1>1, <1>3, <1>4, <1>5, <1>6, <1>7, MeldStep

\* A kan that nobody robs: what waited in the hand is melded, and a tile is
\* drawn for it unless the round is aborted.
LEMMA TableRinshan ==
  ASSUME TableInv, RoundInv, OwnDiscardsFit, RinshanDrawOfTile
  PROVE  TableInv' /\ TableMoves
  <1> DEFINE p  == current_player
             ts == TilesOf(TypeOf(kan_tile))
             after == Place(ts, MakeMeld(p, NextGroup(p, "ankan"), "ankan"))
             ms == AddMeld(p, "ankan")
             left == [hand EXCEPT ![p] = @ - 4]
             commits == phase = "ANKAN_RESOLVE" /\ melds' # melds
             melded == IF commits THEN after ELSE placement
  <1>1. /\ CountsOK(hand, melds) /\ p \in Player /\ hand \in [Player -> Int]
    BY RoundFacts DEF CountsOK
  <1>2. /\ RinshanDraw /\ kan_tile' = TILE_INVALID
        /\ IF phase' = "DRAW"
             THEN placement' = [melded EXCEPT ![RinshanTile] = MakeHand(p)]
                  /\ drawn' = RinshanTile
             ELSE placement' = melded /\ drawn' = IF commits THEN TILE_INVALID ELSE drawn
        /\ UNCHANGED <<deal, discard, discard_history, offered, pao>>
    BY DEF RinshanDrawOfTile, Draws
  <1>3. /\ phase \in {"ANKAN_RESOLVE", "KAKAN_RESOLVE"} /\ current_player' = p
        /\ dead_wall_draw_count < RINSHAN_TILE_COUNT
        /\ pending_kan' = "NONE"
        /\ UNCHANGED <<discards, wall_pos>>
    BY <1>2 DEF RinshanDraw, FinishAbortiveDraw, FinishDrawRound
  <1>4. phase = "ANKAN_RESOLVE" =>
          /\ Board(Table, deal.wall, after, discard, left, ms, wall_pos, dead_wall_draw_count)
          /\ CountsOK(left, ms)
          /\ HandAfterMeld(p, 4) = hand[p] - 4
          /\ hand[p] - HandAfterMeld(p, 4) = 4
          /\ ms # melds
    BY AnkanOnBoard
  <1>5. ASSUME phase = "ANKAN_RESOLVE", placement' = after \/ DrawnInto(p, after)
         PROVE  TableMoves
    BY <1>2, <1>5, AnkanStep
  <1>6. Board(Table, deal.wall, placement, discard, hand, melds, wall_pos,
              dead_wall_draw_count)
    BY DEF TableInv
  <1>7. Logged(Table, discard', discard_history', discards')
    BY <1>2, <1>3, SameLog
  <1> HIDE DEF after, ms, left, p
  <1>8. CASE /\ ShouldAbortOnFourKans(melds) /\ phase' = "ROUND_END"
             /\ UNCHANGED <<draw_tile, melds, hand, dead_wall_draw_count>>
    <2>1. placement' = placement /\ drawn' = drawn
      BY <1>2, <1>8
    <2>2. NamedTiles'
      BY <1>2, <1>3, <1>8, <2>1, NamesAtEnd DEF p
    <2>3. TableMoves
      BY <1>2, <2>1 DEF TableMoves, Stays
    <2> QED
      BY <1>2, <1>3, <1>8, <2>1, <2>2, <2>3, SameBytes DEF byteVars, tileVars, wallVars
  <1>9. CASE /\ phase = "ANKAN_RESOLVE" /\ phase' = "ROUND_END" /\ draw_tile' = FALSE
             /\ melds' = ms /\ hand' = [hand EXCEPT ![p] = @ - (hand[p] - HandAfterMeld(p, 4))]
             /\ UNCHANGED dead_wall_draw_count
    <2>1. placement' = after /\ drawn' = TILE_INVALID
      BY <1>2, <1>4, <1>9
    <2>2. hand' = left
      BY <1>4, <1>9 DEF left
    <2>3. Board(Table, deal.wall, placement', discard', hand', melds', wall_pos',
                dead_wall_draw_count')
      BY <1>2, <1>3, <1>4, <1>9, <2>1, <2>2
    <2>4. NamedTiles'
      BY <1>2, <1>3, <1>9, <2>1 DEF NamedTiles
    <2> QED
      BY <1>2, <1>7, <1>9, <1>5, <2>1, <2>3, <2>4, TableInvNext
  <1>10. ASSUME NEW pl, NEW hands, NEW counts,
               phase' = "DRAW", draw_tile' = TRUE,
               dead_wall_draw_count' = dead_wall_draw_count + 1,
               Board(Table, deal.wall, pl, discard, hands, counts, wall_pos,
                     dead_wall_draw_count),
               CountsOK(hands, counts), HandChanges(p, 1, hands, hand'),
               melds' = counts, placement' = [pl EXCEPT ![RinshanTile] = MakeHand(p)],
               drawn' = RinshanTile
        PROVE  TableInv'
    <2>1. /\ Board(Table, deal.wall, placement', discard, hand', counts, wall_pos,
                   dead_wall_draw_count + 1)
          /\ RinshanTile \in At(MakeHand(p), placement') /\ RinshanTile # TILE_INVALID
      BY <1>1, <1>3, <1>10, RinshanDrawn
    <2>2. Board(Table, deal.wall, placement', discard', hand', melds', wall_pos',
                dead_wall_draw_count')
      BY <1>2, <1>3, <1>10, <2>1
    <2>3. NamedTiles'
      BY <1>2, <1>3, <1>10, <2>1 DEF NamedTiles
    <2> QED
      BY <1>2, <1>7, <2>2, <2>3, TableInvNext
  <1>11. CASE /\ phase = "ANKAN_RESOLVE" /\ phase' = "DRAW" /\ draw_tile' = TRUE
              /\ melds' = ms
              /\ hand' = [hand EXCEPT ![p] = @ - (hand[p] - HandAfterMeld(p, 4)) + 1]
              /\ dead_wall_draw_count' = dead_wall_draw_count + 1
    <2>1. placement' = [after EXCEPT ![RinshanTile] = MakeHand(p)] /\ drawn' = RinshanTile
      BY <1>2, <1>4, <1>11
    <2>2. HandChanges(p, 1, left, hand')
      <3>1. /\ hand'[p] = hand[p] - 4 + 1 /\ left[p] = hand[p] - 4
            /\ \A q \in Player \ {p} : hand'[q] = left[q]
        BY <1>1, <1>4, <1>11 DEF left
      <3> QED
        BY <3>1 DEF HandChanges
    <2>3. DrawnInto(p, after)
      BY <1>1, <1>3, <2>1, RinshanDrawnInto
    <2> QED
      BY <1>4, <1>10, <1>11, <1>5, <2>1, <2>2, <2>3
  <1>12. CASE /\ phase = "KAKAN_RESOLVE" /\ phase' = "DRAW" /\ draw_tile' = TRUE
              /\ melds' = melds
              /\ hand' = [hand EXCEPT ![p] = @ - 0 + 1]
              /\ dead_wall_draw_count' = dead_wall_draw_count + 1
    <2>1. placement' = [placement EXCEPT ![RinshanTile] = MakeHand(p)] /\ drawn' = RinshanTile
      BY <1>2, <1>12
    <2>2. HandChanges(p, 1, hand, hand')
      BY <1>1, <1>12 DEF HandChanges
    <2>3. DrawsOne
      BY <1>1, <1>2, <1>3, <2>1, RinshanDrawnInto DEF DrawsOne
    <2>4. TableMoves
      BY <1>2, <2>3 DEF TableMoves
    <2> QED
      BY <1>1, <1>6, <1>10, <1>12, <2>1, <2>2, <2>4
  <1>13. CASE phase = "ANKAN_RESOLVE"
    BY <1>2, <1>8, <1>9, <1>11, <1>13
    DEF RinshanDraw, FinishAbortiveDraw, FinishDrawRound, ms, p
  <1>14. CASE phase = "KAKAN_RESOLVE"
    BY <1>2, <1>8, <1>12, <1>14 DEF RinshanDraw, FinishAbortiveDraw, FinishDrawRound, p
  <1> QED
    BY <1>3, <1>13, <1>14

-----------------------------------------------------------------------------
(* The deal                                                                 *)

\* Sets whose members correspond one to one have the same size.
LEMMA SameSize ==
  ASSUME NEW S, IsFiniteSet(S), NEW T, NEW f \in [S -> T],
         \A a, b \in S : f[a] = f[b] => a = b,
         \A t \in T : \E s \in S : f[s] = t
  PROVE  IsFiniteSet(T) /\ Cardinality(T) = Cardinality(S)
  <1>1. f \in Bijection(S, T)
    BY DEF Bijection, Injection, Surjection, IsInjective
  <1>2. ExistsBijection(S, T)
    BY <1>1 DEF ExistsBijection
  <1> QED
    BY <1>2, FS_Bijection

\* Two disjoint finite sets.
LEMMA DisjointSize ==
  ASSUME NEW S, IsFiniteSet(S), NEW T, IsFiniteSet(T), S \cap T = {}
  PROVE  /\ IsFiniteSet(S \cup T)
         /\ Cardinality(S \cup T) = Cardinality(S) + Cardinality(T)
  <1>1. Cardinality(S \cap T) = 0
    BY FS_EmptySet
  <1>2. Cardinality(S) \in Nat /\ Cardinality(T) \in Nat
    BY FS_CardinalityType
  <1>3. /\ IsFiniteSet(S \cup T)
        /\ Cardinality(S \cup T) = Cardinality(S) + Cardinality(T) - Cardinality(S \cap T)
    BY ONLY IsFiniteSet(S), IsFiniteSet(T), FS_Union
  <1> QED
    BY ONLY <1>1, <1>2, <1>3

\* The positions of the wall that are dealt to player p.
PlacesOf(p) == {position \in 0 .. 52 : DealtTo(position) = p}

\* Thirteen for everybody and one more for the dealer.
LEMMA PlacesCounted ==
  ASSUME NEW p \in Player
  PROVE  /\ IsFiniteSet(PlacesOf(p))
         /\ Cardinality(PlacesOf(p)) = IF p = Dealer THEN 14 ELSE 13
  <1> DEFINE A == (4 * p) .. (4 * p + 3)
             B == (4 * p + 16) .. (4 * p + 19)
             C == (4 * p + 32) .. (4 * p + 35)
             D == A \cup B
             E == D \cup C
             F == E \cup {48 + p}
  <1>1. p \in 0 .. 3 /\ Dealer \in 0 .. 3
    BY DealerAssumption DEF Player
  <1>2. /\ IsFiniteSet(A) /\ Cardinality(A) = 4
        /\ IsFiniteSet(B) /\ Cardinality(B) = 4
        /\ IsFiniteSet(C) /\ Cardinality(C) = 4
    <2>1. \A n \in 0 .. 64 : IsFiniteSet(n .. (n + 3)) /\ Cardinality(n .. (n + 3)) = 4
      <3> TAKE n \in 0 .. 64
      <3>1. n \in Int /\ n + 3 \in Int /\ ~ (n > n + 3) /\ (n + 3) - n + 1 = 4
        OBVIOUS
      <3> QED
        BY <3>1, FS_Interval
    <2>2. /\ 4 * p \in 0 .. 64 /\ 4 * p + 16 \in 0 .. 64 /\ 4 * p + 32 \in 0 .. 64
          /\ (4 * p + 16) + 3 = 4 * p + 19 /\ (4 * p + 32) + 3 = 4 * p + 35
      BY <1>1
    <2> QED
      BY <2>1, <2>2
  <1>3. /\ A \cap B = {} /\ D \cap C = {} /\ 48 + p \notin E
        /\ 52 \notin F
    BY <1>1
  <1>4. \A x : x \in PlacesOf(p) <=> x \in F \/ (p = Dealer /\ x = 52)
    <2>1. \A x \in 0 .. 47 : DealtTo(x) = (x \div 4) % 4
      BY DEF DealtTo
    <2>2. \A x \in 48 .. 51 : DealtTo(x) = x - 48
      BY DEF DealtTo
    <2>3. DealtTo(52) = Dealer
      BY DEF DealtTo
    <2>4. \A x \in 0 .. 47 : (x \div 4) % 4 = p <=> x \in E
      BY <1>1
    <2>5. \A x \in 0 .. 52 : x \in 0 .. 47 \/ x \in 48 .. 51 \/ x = 52
      OBVIOUS
    <2>6. /\ \A x \in F : x \in 0 .. 51
          /\ \A x \in E : x \in 0 .. 47
          /\ \A x \in 48 .. 51 : x - 48 = p <=> x = 48 + p
      BY <1>1
    <2> HIDE DEF E
    <2>7. \A x : x \in F <=> x \in E \/ x = 48 + p
      OBVIOUS
    <2>8. 48 + p \in 48 .. 51
      BY <1>1
    <2> HIDE DEF F
    <2> QED
      BY <2>1, <2>2, <2>3, <2>4, <2>5, <2>6, <2>7, <2>8 DEF PlacesOf
  <1> HIDE DEF A, B, C
  <1>5. IsFiniteSet(D) /\ Cardinality(D) = 8
    BY <1>2, <1>3, DisjointSize
  <1> HIDE DEF D
  <1>6. IsFiniteSet(E) /\ Cardinality(E) = 12
    BY <1>2, <1>3, <1>5, DisjointSize
  <1> HIDE DEF E
  <1>7. IsFiniteSet(F) /\ Cardinality(F) = 13
    BY <1>3, <1>6, FS_AddElement
  <1> HIDE DEF F
  <1>8. IsFiniteSet(F \cup {52}) /\ Cardinality(F \cup {52}) = 14
    BY <1>3, <1>7, FS_AddElement
  <1>9. PlacesOf(p) = IF p = Dealer THEN F \cup {52} ELSE F
    BY <1>4
  <1> QED
    BY <1>7, <1>8, <1>9

\* The wall bytes of the tiles are positions of the wall.
LEMMA WallPositions ==
  ASSUME deal \in Deals, NEW t \in Table
  PROVE  deal.wall[t] \in 0 .. (LIVE_WALL_START + LiveTiles - 1) \cup 122 .. 135
  <1>1. {deal.wall[s] : s \in DOMAIN deal.wall}
          = 0 .. (LIVE_WALL_START + LiveTiles - 1) \cup 122 .. 135
    BY DealFacts DEF IsWall
  <1> QED
    BY <1>1 DEF Table

\* Every player is dealt a full hand, and the dealer one tile more.
LEMMA HandsDealt ==
  ASSUME TableInit, NEW p \in Player
  PROVE  Cardinality(At(MakeHand(p), placement)) = hand[p]
  <1>1. deal \in Deals /\ IsFiniteSet(Table) /\ LiveTiles \in Nat
    BY DealFacts, LiveTilesAssumption DEF TableInit
  <1>2. placement = [t \in Table |-> IF deal.wall[t] < LIVE_WALL_START
                                        THEN MakeHand(DealtTo(deal.wall[t]))
                                        ELSE LOCATION_NONE]
    BY DEF TableInit
  <1>3. \A position \in 0 .. 52 :
          /\ DealtTo(position) \in Player
          /\ position \in 0 .. (LIVE_WALL_START + LiveTiles - 1)
    BY <1>1, DealerAssumption DEF DealtTo, Player, LIVE_WALL_START
  <1>4. \A t \in Table : deal.wall[t] < LIVE_WALL_START <=> deal.wall[t] \in 0 .. 52
    <2> TAKE t \in Table
    <2>1. deal.wall[t] \in 0 .. (LIVE_WALL_START + LiveTiles - 1) \cup 122 .. 135
      BY <1>1, WallPositions
    <2> QED
      BY <1>1, <2>1 DEF LIVE_WALL_START
  <1>5. \A t \in Table : t \in At(MakeHand(p), placement) <=> deal.wall[t] \in PlacesOf(p)
    <2> TAKE t \in Table
    <2>1. CASE deal.wall[t] \in 0 .. 52
      <3>1. placement[t] = MakeHand(DealtTo(deal.wall[t])) /\ DealtTo(deal.wall[t]) \in Player
        BY <1>2, <1>3, <1>4, <2>1
      <3>2. placement[t] = MakeHand(p) <=> DealtTo(deal.wall[t]) = p
        BY <3>1, HandByte
      <3> QED
        BY <1>2, <2>1, <3>2 DEF At, PlacesOf
    <2>2. CASE deal.wall[t] \notin 0 .. 52
      <3>1. placement[t] = LOCATION_NONE
        BY <1>2, <1>4, <2>2
      <3> QED
        BY <2>2, <3>1, HandByte DEF At, PlacesOf
    <2> QED
      BY <2>1, <2>2
  <1>6. At(MakeHand(p), placement) \subseteq Table
    BY <1>2 DEF At
  <1> DEFINE f == [position \in PlacesOf(p) |-> WallTile(position)]
  <1>7. \A position \in PlacesOf(p) :
          /\ WallTile(position) \in Table
          /\ deal.wall[WallTile(position)] = position
          /\ \A t \in Table : deal.wall[t] = position => t = WallTile(position)
    <2> TAKE position \in PlacesOf(p)
    <2>1. position \in 0 .. (LIVE_WALL_START + LiveTiles - 1) \cup 122 .. 135
      BY <1>3 DEF PlacesOf
    <2> QED
      BY <1>1, <2>1, TileInPlace
  <1> HIDE DEF PlacesOf
  <1>8. f \in [PlacesOf(p) -> At(MakeHand(p), placement)]
    BY <1>5, <1>7
  <1>9. \A a, b \in PlacesOf(p) : f[a] = f[b] => a = b
    BY <1>7
  <1>10. \A t \in At(MakeHand(p), placement) : \E a \in PlacesOf(p) : f[a] = t
    BY <1>5, <1>6, <1>7
  <1> HIDE DEF f
  <1>11. Cardinality(At(MakeHand(p), placement)) = Cardinality(PlacesOf(p))
    BY <1>8, <1>9, <1>10, PlacesCounted, SameSize
  <1>12. hand[p] = IF p = Dealer THEN 14 ELSE 13
    BY FourMeldsAssumption DEF TableInit, Init, HandTiles
  <1> QED
    BY <1>11, <1>12, PlacesCounted

\* The bytes of a deal.
LEMMA TableInvInit ==
  ASSUME TableInit
  PROVE  TableInv
  <1>1. /\ deal \in Deals /\ IsFiniteSet(Table) /\ LiveTiles \in Nat
        /\ TILE_INVALID \notin Table
    BY DealFacts, LiveTilesAssumption DEF TableInit
  <1>2. /\ discard = [t \in Table |-> LOCATION_NONE]
        /\ discard_history = [t \in Table |-> LOCATION_NONE]
        /\ placement = [t \in Table |-> IF deal.wall[t] < LIVE_WALL_START
                                           THEN MakeHand(DealtTo(deal.wall[t]))
                                           ELSE LOCATION_NONE]
        /\ drawn = WallTile(LIVE_WALL_START - 1) /\ kan_tile = TILE_INVALID
    BY DEF TableInit
  <1>3. /\ phase = "DRAW" /\ current_player = Dealer /\ draw_tile = TRUE
        /\ pending_kan = "NONE" /\ wall_pos = 0 /\ dead_wall_draw_count = 0
        /\ melds = [p \in Player |-> [k \in MeldKinds |-> 0]]
        /\ discards = [p \in Player |-> 0]
    BY DEF TableInit, Init
  <1>4. \A t \in Table :
          \/ placement[t] = LOCATION_NONE
          \/ /\ deal.wall[t] \in 0 .. 52
             /\ \E p \in Player : placement[t] = MakeHand(p)
    <2> TAKE t \in Table
    <2>1. deal.wall[t] \in 0 .. (LIVE_WALL_START + LiveTiles - 1) \cup 122 .. 135
      BY <1>1, WallPositions
    <2>2. CASE deal.wall[t] < LIVE_WALL_START
      <3>1. deal.wall[t] \in 0 .. 52
        BY <1>1, <2>1, <2>2 DEF LIVE_WALL_START
      <3>2. DealtTo(deal.wall[t]) \in Player
        BY <3>1, DealerAssumption DEF DealtTo, Player
      <3> QED
        BY <1>2, <2>2, <3>1, <3>2
    <2> QED
      BY <1>2, <2>2
  <1>5. LOCATION_NONE \in Bytes /\ \A p \in Player : MakeHand(p) \in Bytes
    BY HandByte DEF LOCATION_NONE, Bytes
  <1>6. placement \in [Table -> Bytes] /\ \A t \in Table : IsPlacement(placement[t])
    BY <1>2, <1>4, <1>5 DEF IsPlacement
  <1>7. \A p \in Player, g \in 0 .. 3, kind \in MeldKinds :
          At(MakeMeld(p, g, kind), placement) = {}
    <2> TAKE p \in Player, g \in 0 .. 3, kind \in MeldKinds
    <2>1. \A t \in Table : placement[t] # MakeMeld(p, g, kind)
      BY <1>4, BytesDiffer
    <2> QED
      BY <1>6, <2>1 DEF At
  <1>8. \A p \in Player : \E k : Grouped(p, placement, discard, melds[p], k)
    <2> TAKE p \in Player
    <2> DEFINE k == [g \in 0 .. -1 |-> "chi"]
    <2>1. MeldCount(melds[p]) = 0 /\ \A kind \in MeldKinds : melds[p][kind] = 0
      BY <1>3 DEF MeldCount, MeldKinds
    <2>2. 0 .. (0 - 1) = {} /\ 0 .. -1 = {}
      OBVIOUS
    <2>3. k \in [{} -> MeldKinds] /\ DOMAIN k = {}
      BY <2>2
    <2> HIDE DEF k
    <2>4. \A kind \in MeldKinds : Cardinality(OfKind(kind, k)) = 0
      <3>1. \A kind \in MeldKinds : OfKind(kind, k) = {}
        BY <2>3 DEF OfKind
      <3> QED
        BY <3>1, FS_EmptySet
    <2>5. Grouped(p, placement, discard, melds[p], k)
      BY <1>7, <2>1, <2>2, <2>3, <2>4 DEF Grouped
    <2> QED
      BY <2>5
  <1>9. Board(Table, deal.wall, placement, discard, hand, melds, wall_pos,
              dead_wall_draw_count)
    <2>1. \A p \in Player : Cardinality(At(MakeHand(p), placement)) = hand[p]
      BY HandsDealt
    <2>2. Collected(placement, discard, hand, melds)
      BY <1>8, <2>1 DEF Collected
    <2>3. \A p \in Player : \A t \in At(MakeHand(p), placement) : discard[t] = LOCATION_NONE
      BY <1>2, <1>6 DEF At
    <2>4. ASSUME NEW t \in Table, Undrawn(deal.wall[t], wall_pos, dead_wall_draw_count)
          PROVE  placement[t] = LOCATION_NONE /\ discard[t] = LOCATION_NONE
      <3>1. \A i \in 1 .. 4 : RINSHAN_INDICES[i] \in 132 .. 135
        BY DEF RINSHAN_INDICES
      <3>2. deal.wall[t] \notin 0 .. 52
        BY <1>3, <2>4, <3>1 DEF Undrawn, LIVE_WALL_START, RINSHAN_TILE_COUNT
      <3> QED
        BY <1>2, <1>4, <3>2
    <2> QED
      BY <1>6, <2>2, <2>3, <2>4 DEF Board
  <1>10. Logged(Table, discard, discard_history, discards)
    <2>1. discard \in [Table -> Bytes] /\ discard_history \in [Table -> Bytes]
      BY <1>2, <1>5
    <2>2. DiscardsPaired(discard, discard_history)
      BY <1>2 DEF DiscardsPaired
    <2>3. Discarded(discard) = {} /\ \A p \in Player : River(p, discard) = {}
      BY <1>2, NoneByte DEF Discarded, River
    <2>4. Sum(discards) = 0 /\ \A p \in Player : discards[p] = 0
      BY <1>3 DEF Sum, Player
    <2>5. 0 .. (0 - 1) = {} /\ Cardinality({}) = 0
      BY FS_EmptySet
    <2>6. Rivers(discard, discard_history, discards)
      BY <2>3, <2>4, <2>5 DEF Rivers
    <2> QED
      BY <2>1, <2>2, <2>6 DEF Logged
  <1>11. NamedTiles
    <2>1. LIVE_WALL_START - 1 \in 0 .. (LIVE_WALL_START + LiveTiles - 1)
      BY <1>1 DEF LIVE_WALL_START
    <2>2. drawn \in Table /\ deal.wall[drawn] = 52
      BY <1>1, <1>2, <2>1, TileInPlace DEF LIVE_WALL_START
    <2>3. DealtTo(52) = Dealer
      BY DEF DealtTo
    <2>4. placement[drawn] = MakeHand(Dealer)
      BY <1>2, <2>2, <2>3 DEF LIVE_WALL_START
    <2>5. drawn \in At(MakeHand(Dealer), placement)
      BY <1>6, <2>2, <2>4 DEF At
    <2> QED
      BY <1>1, <1>2, <1>3, <2>2, <2>5 DEF NamedTiles
  <1> QED
    BY <1>1, <1>9, <1>10, <1>11 DEF TableInv

-----------------------------------------------------------------------------
(* The tiles agree with the round                                           *)

\* Every step moves the bytes with the counts.
LEMMA TableInvStep ==
  ASSUME TableInv, RoundInv, OwnDiscardsFit, [TableNext]_allVars
  PROVE  TableInv' /\ TableMoves
  <1>1. CASE UNCHANGED allVars
    <2>1. /\ UNCHANGED <<deal, byteVars, tileVars, wallVars>>
          /\ UNCHANGED <<placement, discard, discards>>
          /\ UNCHANGED <<draw_tile, drawn, current_player, pending_kan, kan_tile, phase, offered>>
      BY <1>1 DEF allVars, vars, turnVars, wallVars, tileVars, tableVars, byteVars
    <2>2. NamedTiles'
      BY <2>1 DEF TableInv, NamedTiles
    <2>3. TableMoves
      BY <1>1 DEF allVars, tableVars, byteVars, TableMoves, Stays
    <2> QED
      BY <2>1, <2>2, <2>3, SameBytes
  <1>2. ASSUME NEW tile \in HandOf(current_player), DiscardTile(tile) \/ RiichiWith(tile)
        PROVE  TableInv' /\ TableMoves
    BY <1>2, TableRecords
  <1>3. ASSUME NEW tile, KakanWith(tile)
        PROVE  TableInv' /\ TableMoves
    BY <1>3, TableKakan
  <1>4. ASSUME NEW type \in TileType, AnkanOf(type)
        PROVE  TableInv' /\ TableMoves
    BY <1>4, TableAnkan
  <1>5. ASSUME NEW ts, ChiWith(ts)
        PROVE  TableInv' /\ TableMoves
    BY <1>5, TableCalls DEF ChiWith, Chi
  <1>6. ASSUME NEW p \in Player, NEW ts, PonWith(p, ts)
        PROVE  TableInv' /\ TableMoves
    BY <1>6, TableCalls DEF PonWith, Pon
  <1>7. ASSUME NEW p \in Player, MinkanOf(p)
        PROVE  TableInv' /\ TableMoves
    BY <1>7, TableMinkan
  <1>8. CASE \/ TsumoWithDrawn \/ KyuushuKyuuhaiOfTiles \/ PassIntoAbortOfTiles
             \/ PassIntoExhaustiveDrawOfTiles \/ \E claimants \in SUBSET Player : RonOn(claimants)
    BY <1>8, TableEnds
  <1>9. CASE PassIntoNextDraw
    BY <1>9, TableDraws
  <1>10. CASE RinshanDrawOfTile
    BY <1>10, TableRinshan
  <1> QED
    BY <1>1, <1>2, <1>3, <1>4, <1>5, <1>6, <1>7, <1>8, <1>9, <1>10 DEF TableNext

\* A tile is discarded, recorded, or has neither byte.
LEMMA DiscardedTiles ==
  ASSUME TableInv, NEW t \in Table
  PROVE  /\ IsDiscard(discard[t]) <=> discard[t] # LOCATION_NONE
         /\ IsDiscardHistory(discard_history[t]) <=> discard[t] # LOCATION_NONE
         /\ discard[t] = LOCATION_NONE => discard_history[t] = LOCATION_NONE
         /\ discard[t] # LOCATION_NONE => BytePlayer(discard[t]) \in Player
  <1>1. DOMAIN discard = Table /\ DiscardsPaired(discard, discard_history)
    BY DEF TableInv, Logged
  <1>2. CASE discard[t] = LOCATION_NONE /\ discard_history[t] = LOCATION_NONE
    BY <1>2, NoneByte
  <1>3. CASE /\ \E p \in Player, i \in 0 .. 30 : IsDiscardOf(p, i, discard[t])
             /\ \E i \in 0 .. 85 : IsEntry(i, discard_history[t])
    BY <1>3, DiscardByte, HistoryByte
  <1> QED
    BY <1>1, <1>2, <1>3 DEF DiscardsPaired

\* The melds collected from the bytes are those of the groups.
LEMMA MeldsAreGroups ==
  ASSUME TableInv, CountsOK(hand, melds), NEW p \in Player
  PROVE  \E k : /\ Grouped(p, placement, discard, melds[p], k)
                /\ MeldsOf(p, placement) = {Meld(p, g, placement, discard) : g \in DOMAIN k}
  <1>1. PICK k : Grouped(p, placement, discard, melds[p], k)
    BY DEF TableInv, Board, Collected
  <1>2. /\ placement \in [Table -> Bytes] /\ \A t \in Table : IsPlacement(placement[t])
        /\ melds[p] \in MeldRecords /\ MeldCount(melds[p]) <= 4
    BY DEF TableInv, Board, CountsOK
  <1>3. Groups(p, placement) = 0 .. (MeldCount(melds[p]) - 1)
    BY <1>1, <1>2, GroupsAreNumbered
  <1>4. DOMAIN k = 0 .. (MeldCount(melds[p]) - 1)
    BY <1>1 DEF Grouped
  <1> QED
    BY <1>1, <1>3, <1>4 DEF MeldsOf

\* What is collected for a group.
LEMMA MeldCollects ==
  ASSUME TableInv, CountsOK(hand, melds), NEW p \in Player,
         NEW k, Grouped(p, placement, discard, melds[p], k), NEW g \in DOMAIN k
  PROVE  LET m == Meld(p, g, placement, discard)
             b == MakeMeld(p, g, k[g])
         IN /\ g \in 0 .. 3 /\ k[g] \in MeldKinds
            /\ m.tiles = At(b, placement) /\ m.kind = k[g]
            /\ m.tiles # {} /\ \A t \in m.tiles : MeldGroup(placement[t]) = g
            /\ m.called = CalledIn(b, placement, discard)
            /\ Cardinality(m.tiles) = GroupSize(k[g])
            /\ Cardinality(m.called) = IF k[g] = "ankan" THEN 0 ELSE 1
            /\ m.from = p <=> k[g] = "ankan"
  <1> DEFINE m == Meld(p, g, placement, discard)
             b == MakeMeld(p, g, k[g])
  <1>1. /\ placement \in [Table -> Bytes] /\ \A t \in Table : IsPlacement(placement[t])
        /\ melds[p] \in MeldRecords /\ MeldCount(melds[p]) <= 4
    BY DEF TableInv, Board, CountsOK
  <1>2. /\ g \in 0 .. 3 /\ k[g] \in MeldKinds
        /\ m.tiles = At(b, placement) /\ m.kind = k[g]
        /\ At(b, placement) # {}
        /\ \A t \in At(b, placement) : MeldGroup(placement[t]) = g
    BY ONLY <1>1, Grouped(p, placement, discard, melds[p], k), p \in Player,
            g \in DOMAIN k, MeldOfGroup
  <1>3. /\ Cardinality(At(b, placement)) = GroupSize(k[g])
        /\ Cardinality(CalledIn(b, placement, discard)) = IF k[g] = "ankan" THEN 0 ELSE 1
        /\ \A t \in CalledIn(b, placement, discard) : BytePlayer(discard[t]) # p
    BY DEF Grouped
  <1>4. /\ m.called = {t \in m.tiles : IsDiscard(discard[t])}
        /\ m.from = IF m.called = {} THEN p
                                     ELSE BytePlayer(discard[CHOOSE t \in m.called : TRUE])
    BY DEF Meld
  <1> HIDE DEF m, b
  <1>5. m.called = CalledIn(b, placement, discard)
    <2>1. \A t \in At(b, placement) : IsDiscard(discard[t]) <=> discard[t] # LOCATION_NONE
      <3> TAKE t \in At(b, placement)
      <3>1. t \in Table
        BY <1>1 DEF At
      <3> QED
        BY <3>1, DiscardedTiles
    <2> QED
      BY <1>2, <1>4, <2>1 DEF CalledIn
  <1>6. m.from = p <=> k[g] = "ankan"
    <2>1. CASE k[g] = "ankan"
      <3>1. IsFiniteSet(At(b, placement))
        <4>1. At(b, placement) \in SUBSET Table /\ IsFiniteSet(Table)
          BY <1>1, DealFacts DEF At, TableInv
        <4> QED
          BY <4>1, FS_Subset
      <3>2. CalledIn(b, placement, discard) \in SUBSET At(b, placement)
        BY DEF CalledIn
      <3>3. IsFiniteSet(m.called)
        BY <1>5, <3>1, <3>2, FS_Subset
      <3>4. Cardinality(m.called) = 0
        BY <1>3, <1>5, <2>1
      <3>5. m.called = {}
        BY <3>3, <3>4, FS_EmptySet
      <3> QED
        BY <1>4, <2>1, <3>5
    <2>2. CASE k[g] # "ankan"
      <3>1. Cardinality(m.called) = 1
        BY <1>3, <1>5, <2>2
      <3>2. m.called # {}
        BY <3>1, FS_EmptySet
      <3>3. (CHOOSE t \in m.called : TRUE) \in m.called
        BY <3>2
      <3>4. BytePlayer(discard[CHOOSE t \in m.called : TRUE]) # p
        BY <1>3, <1>5, <3>3
      <3> QED
        BY <1>4, <2>2, <3>2, <3>4
    <2> QED
      BY <2>1, <2>2
  <1> QED
    BY <1>2, <1>3, <1>5, <1>6 DEF m, b

\* What is collected from the bytes is the round.
LEMMA TilesCollect ==
  ASSUME TableInv, CountsOK(hand, melds)
  PROVE  CollectsTheRound
  <1> SUFFICES ASSUME NEW p \in Player
               PROVE  /\ Cardinality(HandOf(p)) = hand[p]
                      /\ \A kind \in MeldKinds :
                           Cardinality({m \in MeldsOf(p, placement) : m.kind = kind})
                             = melds[p][kind]
                      /\ \A m \in MeldsOf(p, placement) :
                           /\ Cardinality(m.tiles) = IF m.kind \in KanKinds THEN 4 ELSE 3
                           /\ Cardinality(m.called) = IF m.kind = "ankan" THEN 0 ELSE 1
                           /\ m.from = p <=> m.kind = "ankan"
                      /\ {DiscardIndex(discard[t]) : t \in RiverOf(p)} = 0 .. (discards[p] - 1)
                      /\ Cardinality(RiverOf(p)) = discards[p]
    BY DEF CollectsTheRound
  <1>1. Cardinality(HandOf(p)) = hand[p]
    BY HandIsAt DEF TableInv, Board, Collected
  <1>2. PICK k : /\ Grouped(p, placement, discard, melds[p], k)
                 /\ MeldsOf(p, placement) = {Meld(p, g, placement, discard) : g \in DOMAIN k}
    BY MeldsAreGroups
  <1>3. \A g \in DOMAIN k :
          LET m == Meld(p, g, placement, discard)
          IN /\ g \in 0 .. 3
             /\ m.kind = k[g] /\ k[g] \in MeldKinds
             /\ m.tiles # {} /\ \A t \in m.tiles : MeldGroup(placement[t]) = g
             /\ Cardinality(m.tiles) = GroupSize(k[g])
             /\ Cardinality(m.called) = IF k[g] = "ankan" THEN 0 ELSE 1
             /\ m.from = p <=> k[g] = "ankan"
    BY <1>2, MeldCollects
  <1>4. \A m \in MeldsOf(p, placement) :
          /\ Cardinality(m.tiles) = IF m.kind \in KanKinds THEN 4 ELSE 3
          /\ Cardinality(m.called) = IF m.kind = "ankan" THEN 0 ELSE 1
          /\ m.from = p <=> m.kind = "ankan"
    BY <1>2, <1>3 DEF GroupSize
  <1>5. ASSUME NEW kind \in MeldKinds
        PROVE  Cardinality({m \in MeldsOf(p, placement) : m.kind = kind}) = melds[p][kind]
    <2> DEFINE S == OfKind(kind, k)
               U == {m \in MeldsOf(p, placement) : m.kind = kind}
               f == [g \in S |-> Meld(p, g, placement, discard)]
    <2>1. IsFiniteSet(S)
      <3>1. DOMAIN k = 0 .. (MeldCount(melds[p]) - 1) /\ MeldCount(melds[p]) \in Nat
        BY <1>2, MeldCountType DEF Grouped, CountsOK
      <3>2. IsFiniteSet(DOMAIN k)
        BY <3>1, FS_Interval
      <3>3. S \in SUBSET DOMAIN k
        BY DEF OfKind
      <3> QED
        BY <3>2, <3>3, FS_Subset
    <2>2. \A g \in S : g \in DOMAIN k /\ k[g] = kind
      BY DEF OfKind
    <2>3. f \in [S -> U]
      BY <1>2, <1>3, <2>2
    <2>4. \A a, b \in S : f[a] = f[b] => a = b
      <3> TAKE a, b \in S
      <3>1. HAVE f[a] = f[b]
      <3>2. Meld(p, a, placement, discard) = Meld(p, b, placement, discard)
        BY <3>1
      <3>3. PICK t \in Meld(p, a, placement, discard).tiles : TRUE
        BY <1>3, <2>2
      <3>4. MeldGroup(placement[t]) = a
        BY <1>3, <2>2
      <3>5. MeldGroup(placement[t]) = b
        BY <1>3, <2>2, <3>2
      <3> QED
        BY <3>4, <3>5
    <2>5. \A m \in U : \E g \in S : f[g] = m
      BY <1>2, <1>3 DEF OfKind
    <2> HIDE DEF f, S, U
    <2>6. Cardinality(U) = Cardinality(S)
      BY <2>1, <2>3, <2>4, <2>5, SameSize
    <2> QED
      BY <1>2, <2>6 DEF Grouped, S, U
  <1>6. RiverOf(p) = River(p, discard)
    BY DEF TableInv, Logged, RiverOf, River
  <1>7. /\ {DiscardIndex(discard[t]) : t \in RiverOf(p)} = 0 .. (discards[p] - 1)
        /\ Cardinality(RiverOf(p)) = discards[p]
    BY <1>6 DEF TableInv, Logged, Rivers
  <1> QED
    BY <1>1, <1>4, <1>5, <1>7

\* The invariant of the bytes says that round and tiles agree.
LEMMA TableInvAgrees ==
  ASSUME TableInv, RoundInv, OwnDiscardsFit
  PROVE  TilesAgree
  <1>1. CountsOK(hand, melds) /\ current_player \in Player /\ discards[current_player] \in 0 .. 30
    BY RoundFacts
  <1>2. CollectsTheRound
    BY <1>1, TilesCollect
  <1>3. /\ placement \in [Table -> Bytes] /\ \A t \in Table : IsPlacement(placement[t])
        /\ \A p \in Player : \A t \in At(MakeHand(p), placement) : discard[t] = LOCATION_NONE
        /\ discard \in [Table -> Bytes] /\ Rivers(discard, discard_history, discards)
    BY DEF TableInv, Board, Logged
  <1>4. EveryTileHasAPlace
    <2> SUFFICES ASSUME NEW t \in Table
                 PROVE  LET discarded == IsDiscard(discard[t])
                            recorded  == IsDiscardHistory(discard_history[t])
                        IN /\ discarded <=> recorded
                           /\ ~ discarded =>
                                discard[t] = LOCATION_NONE /\ discard_history[t] = LOCATION_NONE
                           /\ \/ placement[t] = LOCATION_NONE
                              \/ IsHand(placement[t]) /\ ~ discarded
                              \/ IsMeld(placement[t])
      BY DEF EveryTileHasAPlace
    <2>1. /\ IsDiscard(discard[t]) <=> discard[t] # LOCATION_NONE
          /\ IsDiscardHistory(discard_history[t]) <=> discard[t] # LOCATION_NONE
          /\ discard[t] = LOCATION_NONE => discard_history[t] = LOCATION_NONE
      BY DiscardedTiles
    <2>2. CASE \E p \in Player : placement[t] = MakeHand(p)
      <3>1. discard[t] = LOCATION_NONE
        BY <1>3, <2>2 DEF At
      <3> QED
        BY <2>1, <2>2, <3>1, HandByte
    <2>3. CASE \E p \in Player, g \in 0 .. 3, kind \in MeldKinds :
                 placement[t] = MakeMeld(p, g, kind)
      BY <2>1, <2>3, MeldByte
    <2> QED
      BY <1>3, <2>1, <2>2, <2>3 DEF IsPlacement
  <1>5. {HistoryIndex(discard_history[t]) : t \in UNION {RiverOf(p) : p \in Player}}
          = 0 .. (Sum(discards) - 1)
    <2>1. UNION {RiverOf(p) : p \in Player} = Discarded(discard)
      BY <1>3, DiscardedTiles DEF RiverOf, Discarded
    <2> QED
      BY <1>3, <2>1 DEF Rivers
  <1>6. draw_tile => InHand(current_player, {drawn})
    BY <1>1, <1>3, HandByte DEF TableInv, NamedTiles, InHand, At
  <1>7. phase = "DISCARD" => DiscardIndex(discard[offered]) = discards[current_player] - 1
    <2> SUFFICES ASSUME phase = "DISCARD"
                 PROVE  DiscardIndex(discard[offered]) = discards[current_player] - 1
      OBVIOUS
    <2>1. /\ IsDiscardOf(current_player, discards[current_player] - 1, discard[offered])
          /\ discards[current_player] > 0
      BY DEF TableInv, NamedTiles
    <2>2. discards[current_player] - 1 \in 0 .. 30
      BY <1>1, <2>1
    <2> QED
      BY <1>1, <2>1, <2>2, DiscardByte
  <1>8. /\ draw_tile <=> drawn # TILE_INVALID
        /\ pending_kan = "NONE" <=> kan_tile = TILE_INVALID
    BY DEF TableInv, NamedTiles
  <1> QED
    BY <1>2, <1>4, <1>5, <1>6, <1>7, <1>8 DEF TilesAgree

\* On every wall the bytes keep their invariant.
THEOREM TableInvariant == TableSpec => [](RoundInv /\ OwnDiscardsFit /\ TableInv)
  <1>1. TableInit => TableInv
    BY TableInvInit
  <1>2. RoundInv /\ OwnDiscardsFit /\ TableInv /\ [TableNext]_allVars => TableInv'
    BY TableInvStep
  <1>3. TableSpec => [](RoundInv /\ OwnDiscardsFit)
    BY TableRefinesRound, RoundInvariant, OwnDiscardsAlwaysFit, PTL
  <1> QED
    BY <1>1, <1>2, <1>3, PTL DEF TableSpec

\* Whatever wall is dealt and however it is played, what is collected from the
\* bytes of the tiles is the hands, melds and rivers of the round.
THEOREM TilesAlwaysAgree == TableSpec => []TilesAgree
  BY TableInvariant, TableInvAgrees, PTL


-----------------------------------------------------------------------------
(* How a step moves one tile                                                *)

Kept(t) == placement'[t] = placement[t] /\ discard'[t] = discard[t]

\* From the wall into a hand.
Drawn(t) ==
  /\ placement[t] = LOCATION_NONE /\ discard[t] = LOCATION_NONE
  /\ discard'[t] = LOCATION_NONE /\ drawn' = t
  /\ \E p \in Player : placement'[t] = MakeHand(p)

\* From a hand into the river of the same player.
Parted(t) ==
  \E p \in Player, i \in 0 .. 30 :
    /\ placement[t] = MakeHand(p) /\ placement'[t] = LOCATION_NONE
    /\ IsDiscardOf(p, i, discard'[t])

\* Into a meld of player p: from his hand, a river, or his pon.
Melded(t) ==
  \E p \in Player, g \in 0 .. 3, kind \in MeldKinds :
    /\ placement'[t] = MakeMeld(p, g, kind) /\ discard'[t] = discard[t]
    /\ \/ placement[t] = MakeHand(p)
       \/ placement[t] = LOCATION_NONE /\ discard[t] # LOCATION_NONE
       \/ IsMeld(placement[t]) /\ BytePlayer(placement[t]) = p

\* The tiles that become a meld of player p were his, or were discarded.
LEMMA MeldedFrom ==
  ASSUME NEW p \in Player, NEW g, NEW kind, NEW ts, NEW from, NEW t \in ts,
         NewMeld(p, g, kind, ts, from) \/ AddedKan(p, g, kind, ts, from)
  PROVE  \/ placement[t] = MakeHand(p)
         \/ placement[t] = LOCATION_NONE /\ discard[t] # LOCATION_NONE
         \/ IsMeld(placement[t]) /\ BytePlayer(placement[t]) = p
  <1>1. CASE NewMeld(p, g, kind, ts, from)
    BY <1>1 DEF NewMeld, Meldable
  <1>2. CASE AddedKan(p, g, kind, ts, from)
    <2>1. PICK m \in MeldsOf(p, placement), tile \in At(MakeHand(p), placement) :
            /\ m = Meld(p, g, placement, discard)
            /\ ts = m.tiles \cup {tile}
      BY <1>2 DEF AddedKan
    <2>2. CASE t = tile
      BY <2>2 DEF At
    <2>3. CASE t \in m.tiles
      BY <2>1, <2>3 DEF Meld, MeldTiles
    <2> QED
      BY <2>1, <2>2, <2>3
  <1> QED
    BY <1>1, <1>2

\* A step moves a tile one way or not at all.
LEMMA TileMoves ==
  ASSUME TableInv, TableMoves, NEW t \in Table
  PROVE  Kept(t) \/ Drawn(t) \/ Parted(t) \/ Melded(t)
  <1>1. placement \in [Table -> Bytes] /\ discard \in [Table -> Bytes]
    BY DEF TableInv, Board, Logged
  <1>2. CASE Stays
    BY <1>2 DEF Stays, Kept
  <1>3. CASE Parts
    <2>1. PICK p \in Player :
            \E u \in At(MakeHand(p), placement), i \in 0 .. 30, b \in Bytes :
              /\ IsDiscardOf(p, i, b)
              /\ placement' = [placement EXCEPT ![u] = LOCATION_NONE]
              /\ discard' = [discard EXCEPT ![u] = b]
      BY <1>3 DEF Parts
    <2>2. PICK u \in At(MakeHand(p), placement), i \in 0 .. 30, b \in Bytes :
            /\ IsDiscardOf(p, i, b)
            /\ placement' = [placement EXCEPT ![u] = LOCATION_NONE]
            /\ discard' = [discard EXCEPT ![u] = b]
      BY <2>1
    <2>3. CASE u = t
      <3>1. placement[t] = MakeHand(p)
        BY <2>3 DEF At
      <3> QED
        BY <1>1, <2>2, <2>3, <3>1 DEF Parted
    <2>4. CASE u # t
      BY <1>1, <2>2, <2>4 DEF Kept
    <2> QED
      BY <2>3, <2>4
  <1>4. ASSUME NEW p \in Player, NEW pl, pl \in [Table -> Bytes], DrawnInto(p, pl),
               discard' = discard
        PROVE  Drawn(t) \/ placement'[t] = pl[t]
    <2>1. PICK u \in At(LOCATION_NONE, placement) :
            /\ discard[u] = LOCATION_NONE
            /\ placement' = [pl EXCEPT ![u] = MakeHand(p)] /\ drawn' = u
      BY <1>4 DEF DrawnInto
    <2>2. CASE u = t
      <3>1. placement[t] = LOCATION_NONE
        BY <2>2 DEF At
      <3> QED
        BY <1>4, <2>1, <2>2, <3>1 DEF Drawn
    <2>3. CASE u # t
      BY <1>4, <2>1, <2>3
    <2> QED
      BY <2>2, <2>3
  <1>5. CASE DrawsOne
    BY <1>1, <1>4, <1>5 DEF DrawsOne, Kept
  <1>6. ASSUME NEW p \in Player, Melds(p)
        PROVE  Kept(t) \/ Drawn(t) \/ Melded(t)
    <2>0. PICK g \in 0 .. 3, kind \in MeldKinds : \E ts, from, melded :
            /\ Melding(p, g, kind, ts, from, melded)
            /\ placement' = melded \/ DrawnInto(p, melded)
      BY <1>6 DEF Melds
    <2>1. PICK ts, from, melded :
            /\ Melding(p, g, kind, ts, from, melded)
            /\ placement' = melded \/ DrawnInto(p, melded)
      BY <2>0
    <2>2. discard' = discard
      BY <1>6 DEF Melds
    <2>3. /\ melded \in [Table -> Bytes]
          /\ melded[t] = IF t \in ts THEN MakeMeld(p, g, kind) ELSE placement[t]
      BY <2>1 DEF Melding, Moves
    <2>4. Drawn(t) \/ placement'[t] = melded[t]
      BY <1>4, <2>1, <2>2, <2>3
    <2>5. CASE placement'[t] = melded[t] /\ t \notin ts
      BY <2>2, <2>3, <2>5 DEF Kept
    <2>6. CASE placement'[t] = melded[t] /\ t \in ts
      <3>1. \/ placement[t] = MakeHand(p)
            \/ placement[t] = LOCATION_NONE /\ discard[t] # LOCATION_NONE
            \/ IsMeld(placement[t]) /\ BytePlayer(placement[t]) = p
        BY <2>1, <2>6, MeldedFrom DEF Melding
      <3> QED
        BY <2>2, <2>3, <2>6, <3>1 DEF Melded
    <2> QED
      BY <2>4, <2>5, <2>6
  <1> QED
    BY <1>2, <1>3, <1>5, <1>6 DEF TableMoves

-----------------------------------------------------------------------------
(* A view only grows                                                        *)

\* No step takes back a dora indicator.
LEMMA DoraGrows ==
  ASSUME TypeOK, [Next]_vars
  PROVE  dora_count \in Nat /\ dora_count' \in Nat /\ dora_count <= dora_count'
  <1>1. dora_count \in Nat /\ pending_kan_dora_count \in Nat
    BY DEF TypeOK, MAX_DORA
  <1>2. /\ AddDoraIndicator(dora_count) \in Nat /\ dora_count <= AddDoraIndicator(dora_count)
        /\ RevealedDora \in Nat /\ dora_count <= RevealedDora
        /\ AddDoraIndicator(RevealedDora) \in Nat
        /\ RevealedDora <= AddDoraIndicator(RevealedDora)
    BY <1>1 DEF AddDoraIndicator, RevealedDora, TypeOK, MAX_DORA
  <1>3. dora_count' \in {dora_count, AddDoraIndicator(dora_count), RevealedDora,
                         AddDoraIndicator(RevealedDora)}
    <2>1. CASE UNCHANGED vars
      BY <2>1 DEF vars, doraVars
    <2>2. CASE Discard \/ Riichi
      BY <2>2 DEF Discard, Riichi, RecordDiscard, RevealPendingKanDora, doraVars
    <2>3. CASE Tsumo \/ KyuushuKyuuhai
      BY <2>3 DEF Tsumo, KyuushuKyuuhai
    <2>4. CASE Ankan \/ Kakan \/ RinshanDraw
      BY <2>4 DEF Ankan, Kakan, RinshanDraw, KanDoraByTiming, RevealPendingKanDora
    <2>5. ASSUME NEW p, NEW kind, ChiOrPon(p, kind)
          PROVE  dora_count' = dora_count
      BY <2>5 DEF ChiOrPon, doraVars
    <2>6. ASSUME NEW p, Minkan(p)
          PROVE  dora_count' \in {dora_count, AddDoraIndicator(dora_count)}
      BY <2>6 DEF Minkan, KanDoraByTiming
    <2>7. ASSUME NEW claimants, Ron(claimants)
          PROVE  dora_count' = dora_count
      BY <2>7 DEF Ron
    <2>8. CASE PassIntoAbort \/ PassIntoExhaustiveDraw \/ PassIntoNextTurn
      BY <2>8 DEF PassIntoAbort, PassIntoExhaustiveDraw, PassIntoNextTurn, PassReactions
    <2> QED
      BY <2>1, <2>2, <2>3, <2>4, <2>5, <2>6, <2>7, <2>8 DEF Next, Chi, Pon
  <1> QED
    BY <1>1, <1>2, <1>3

\* The tiles that a view shows, and those whose place in the wall it shows.
ViewShows ==
  \A p \in Player :
    /\ ShownTo(p) = {t \in Table : IsShown(p, t)}
    /\ TracedBy(p) = {t \in Table : WallVisible(p, t)}

LEMMA ViewsShow == TableInv => ViewShows
  <1> SUFFICES ASSUME TableInv, NEW p \in Player
               PROVE  /\ ShownTo(p) = {t \in Table : IsShown(p, t)}
                      /\ TracedBy(p) = {t \in Table : WallVisible(p, t)}
    BY DEF ViewShows
  <1>1. ASSUME NEW t \in Table
        PROVE  deal.wall[t] # LOCATION_NONE
    <2>1. deal.wall[t] \in 0 .. 135
      BY WallPositions, LiveTilesAssumption, LiveWallAssumption DEF TableInv, LIVE_WALL_START
    <2> QED
      BY <2>1 DEF LOCATION_NONE
  <1>2. ASSUME NEW t \in Table
        PROVE  /\ Visible(p, t) # UNKNOWN <=> IsShown(p, t)
               /\ Visible(p, t).wall # LOCATION_NONE <=> WallVisible(p, t)
    <2>1. IsShown(p, t) =>
            \/ Visible(p, t).wall # LOCATION_NONE
            \/ Visible(p, t).discard # LOCATION_NONE
            \/ Visible(p, t).placement # LOCATION_NONE
      BY <1>1, NoneByte DEF Visible, IsShown
    <2>2. WallVisible(p, t) => IsShown(p, t)
      BY DEF IsShown
    <2>3. IsShown(p, t) =>
            Visible(p, t).wall = IF WallVisible(p, t) THEN deal.wall[t] ELSE LOCATION_NONE
      BY DEF Visible
    <2>4. ~ IsShown(p, t) => Visible(p, t) = UNKNOWN
      BY DEF Visible
    <2>5. /\ UNKNOWN.wall = LOCATION_NONE /\ UNKNOWN.discard = LOCATION_NONE
          /\ UNKNOWN.placement = LOCATION_NONE
      BY DEF UNKNOWN
    <2> QED
      BY <1>1, <2>1, <2>2, <2>3, <2>4, <2>5
  <1>3. View(p).locations = [t \in Table |-> Visible(p, t)]
    BY DEF View
  <1> QED
    BY <1>2, <1>3 DEF ShownTo, TracedBy

\* An indicator stays one.
LEMMA IndicatorStays ==
  ASSUME TypeOK, [Next]_vars, deal' = deal, NEW t
  PROVE  /\ IsIndicator(t) => IsIndicator(t)'
         /\ IsIndicator(t)' =>
              \/ IsIndicator(t)
              \/ \E i \in (dora_count + 1) .. dora_count' : deal.wall[t] = DORA_INDICES[i]
  <1>1. dora_count \in Nat /\ dora_count' \in Nat /\ dora_count <= dora_count'
    BY DoraGrows
  <1> QED
    BY <1>1 DEF IsIndicator

\* What a tile shows after a step it showed before, or the step made it known.
LEMMA TileShown ==
  ASSUME TableInv, NEW p \in Player, NEW t \in Table,
         IsIndicator(t) => IsIndicator(t)',
         Kept(t) \/ Drawn(t) \/ Parted(t) \/ Melded(t)
  PROVE  /\ IsShown(p, t) => IsShown(p, t)'
         /\ WallVisible(p, t) => WallVisible(p, t)'
         /\ IsShown(p, t)' /\ ~ IsShown(p, t) =>
              \/ drawn' = t /\ BytePlayer(placement'[t]) = p
              \/ discard'[t] # discard[t]
              \/ IsMeld(placement'[t]) /\ placement'[t] # placement[t]
              \/ IsIndicator(t)' /\ ~ IsIndicator(t)
  <1>1. CASE Kept(t)
    BY <1>1 DEF Kept, IsShown, WallVisible
  <1>2. CASE Drawn(t)
    <2>1. PICK q \in Player : placement'[t] = MakeHand(q)
      BY <1>2 DEF Drawn
    <2>2. /\ placement[t] = LOCATION_NONE /\ discard[t] = LOCATION_NONE
          /\ discard'[t] = LOCATION_NONE /\ drawn' = t
      BY <1>2 DEF Drawn
    <2>3. /\ IsHand(MakeHand(q)) /\ ~ IsMeld(MakeHand(q)) /\ BytePlayer(MakeHand(q)) = q
      BY HandByte
    <2> QED
      BY <2>1, <2>2, <2>3, NoneByte DEF IsShown, WallVisible, IsOwn
  <1>3. CASE Parted(t)
    <2>1. PICK q \in Player, i \in 0 .. 30 :
            /\ placement[t] = MakeHand(q) /\ placement'[t] = LOCATION_NONE
            /\ IsDiscardOf(q, i, discard'[t])
      BY <1>3 DEF Parted
    <2>2. /\ IsHand(MakeHand(q)) /\ ~ IsMeld(MakeHand(q)) /\ BytePlayer(MakeHand(q)) = q
      BY HandByte
    <2>3. IsDiscard(discard'[t]) /\ BytePlayer(discard'[t]) = q /\ discard'[t] # LOCATION_NONE
      BY <2>1, DiscardByte
    <2>4. discard[t] = LOCATION_NONE
      BY <2>1, HandUndiscarded DEF At, TableInv, Board
    <2> QED
      BY <2>1, <2>2, <2>3, <2>4, NoneByte DEF IsShown, WallVisible, IsOwn
  <1>4. CASE Melded(t)
    <2>1. PICK q \in Player, g \in 0 .. 3, kind \in MeldKinds :
            /\ placement'[t] = MakeMeld(q, g, kind) /\ discard'[t] = discard[t]
            /\ \/ placement[t] = MakeHand(q)
               \/ placement[t] = LOCATION_NONE /\ discard[t] # LOCATION_NONE
               \/ IsMeld(placement[t]) /\ BytePlayer(placement[t]) = q
      BY <1>4 DEF Melded
    <2>2. IsMeld(placement'[t]) /\ BytePlayer(placement'[t]) = q
      BY <2>1, MeldByte
    <2>3. /\ IsHand(MakeHand(q)) /\ ~ IsMeld(MakeHand(q)) /\ BytePlayer(MakeHand(q)) = q
          /\ ~ IsHand(LOCATION_NONE) /\ ~ IsMeld(LOCATION_NONE)
      BY HandByte, NoneByte
    <2>4. IsShown(p, t)'
      BY <2>2 DEF IsShown
    <2>5. IsMeld(placement[t]) => IsShown(p, t)
      BY DEF IsShown
    <2>6. ~ IsMeld(placement[t]) => placement'[t] # placement[t]
      BY <2>2
    <2>7. IsHand(placement[t]) => placement[t] = MakeHand(q) \/ IsMeld(placement[t])
      BY <2>1, <2>3
    <2>8. WallVisible(p, t) => WallVisible(p, t)'
      BY <2>1, <2>2, <2>3 DEF WallVisible, IsOwn
    <2> QED
      BY <2>2, <2>4, <2>5, <2>6, <2>8
  <1> QED
    BY <1>1, <1>2, <1>3, <1>4

\* A step keeps what the views show and adds what it makes known.
LEMMA ViewsGrow ==
  ASSUME TypeOK, TableInv, TableMoves, [Next]_vars, ViewShows, ViewShows', NEW p \in Player
  PROVE  /\ ShownTo(p) \subseteq ShownTo(p)'
         /\ TracedBy(p) \subseteq TracedBy(p)'
         /\ ShownTo(p)' \ ShownTo(p) \subseteq MadeKnown(p)
  <1>1. deal' = deal /\ Table' = Table
    BY DEF TableMoves, Table
  <1>2. /\ ShownTo(p) = {t \in Table : IsShown(p, t)}
        /\ TracedBy(p) = {t \in Table : WallVisible(p, t)}
    BY DEF ViewShows
  <1>3. /\ ShownTo(p)' = {t \in Table : IsShown(p, t)'}
        /\ TracedBy(p)' = {t \in Table : WallVisible(p, t)'}
    BY <1>1 DEF ViewShows
  <1>4. ASSUME NEW t \in Table
        PROVE  /\ IsShown(p, t) => IsShown(p, t)'
               /\ WallVisible(p, t) => WallVisible(p, t)'
               /\ IsShown(p, t)' /\ ~ IsShown(p, t) => t \in MadeKnown(p)
    <2>1. /\ IsIndicator(t) => IsIndicator(t)'
          /\ IsIndicator(t)' =>
               \/ IsIndicator(t)
               \/ \E i \in (dora_count + 1) .. dora_count' : deal.wall[t] = DORA_INDICES[i]
      BY <1>1, IndicatorStays
    <2>2. Kept(t) \/ Drawn(t) \/ Parted(t) \/ Melded(t)
      BY TileMoves
    <2> QED
      BY <2>1, <2>2, TileShown DEF MadeKnown
  <1> QED
    BY <1>2, <1>3, <1>4

\* ViewOnlyGrows: whatever happens in the round, no view takes back a tile or
\* the place in the wall it came from, and no view shows a tile before a step
\* makes it known (cj4m_make_player_view).
THEOREM ViewsOnlyGrow == TableSpec => ViewOnlyGrows
  <1>1. TypeOK /\ TableInv /\ ViewShows /\ ViewShows' /\ TableMoves /\ [TableNext]_allVars
          => [\A p \in Player :
                /\ ShownTo(p) \subseteq ShownTo(p)'
                /\ TracedBy(p) \subseteq TracedBy(p)'
                /\ ShownTo(p)' \ ShownTo(p) \subseteq MadeKnown(p)]_allVars
    BY TableStep, ViewsGrow
  <1>2. RoundInv /\ OwnDiscardsFit /\ TableInv /\ [TableNext]_allVars => TableMoves
    BY TableInvStep
  <1>3. RoundInv => TypeOK
    BY DEF RoundInv, RiichiInv
  <1>4. TableInv => ViewShows
    BY ViewsShow
  <1>5. TableSpec => [](RoundInv /\ OwnDiscardsFit /\ TableInv)
    BY TableInvariant
  <1> QED
    BY <1>1, <1>2, <1>3, <1>4, <1>5, PTL DEF TableSpec, ViewOnlyGrows

-----------------------------------------------------------------------------
(* How a step changes the melds of a player                                 *)

\* The tiles of a group of player p.
TilesIn(p, g, pl) == {t \in MeldTiles(p, pl) : MeldGroup(pl[t]) = g}

\* The melds of player p by the placements pl and the discards d.
MeldsIn(p, pl, d) == {Meld(p, g, pl, d) : g \in Groups(p, pl)}

\* The same tiles with the same bytes make the same meld.
LEMMA SameMeld ==
  ASSUME NEW p, NEW g, NEW pl, NEW d, NEW after, NEW e,
         TilesIn(p, g, after) = TilesIn(p, g, pl), TilesIn(p, g, pl) # {},
         \A t \in TilesIn(p, g, pl) : after[t] = pl[t] /\ e[t] = d[t]
  PROVE  Meld(p, g, after, e) = Meld(p, g, pl, d)
  <1> DEFINE ts == TilesIn(p, g, pl)
             called == {t \in ts : IsDiscard(d[t])}
  <1>1. {t \in ts : IsDiscard(e[t])} = called
    OBVIOUS
  <1>2. after[CHOOSE t \in ts : TRUE] = pl[CHOOSE t \in ts : TRUE]
    OBVIOUS
  <1>3. called # {} => e[CHOOSE t \in called : TRUE] = d[CHOOSE t \in called : TRUE]
    OBVIOUS
  <1>4. Meld(p, g, pl, d) =
          [tiles |-> ts, kind |-> MeldKind(pl[CHOOSE t \in ts : TRUE]), called |-> called,
           from |-> IF called = {} THEN p ELSE BytePlayer(d[CHOOSE t \in called : TRUE])]
    BY DEF Meld, TilesIn
  <1>5. Meld(p, g, after, e) =
          [tiles |-> ts, kind |-> MeldKind(after[CHOOSE t \in ts : TRUE]), called |-> called,
           from |-> IF called = {} THEN p ELSE BytePlayer(e[CHOOSE t \in called : TRUE])]
    <2> DEFINE us == {t \in MeldTiles(p, after) : MeldGroup(after[t]) = g}
               claimed == {t \in us : IsDiscard(e[t])}
    <2>1. us = ts
      BY DEF TilesIn
    <2>2. claimed = called
      BY <1>1, <2>1
    <2>3. Meld(p, g, after, e) =
            [tiles |-> us, kind |-> MeldKind(after[CHOOSE t \in us : TRUE]),
             called |-> claimed,
             from |-> IF claimed = {} THEN p ELSE BytePlayer(e[CHOOSE t \in claimed : TRUE])]
      BY DEF Meld
    <2> HIDE DEF ts, called, us, claimed
    <2> QED
      BY <2>1, <2>2, <2>3
  <1> HIDE DEF ts, called
  <1> QED
    BY <1>2, <1>3, <1>4, <1>5

\* A group is numbered because it has tiles.
LEMMA GroupHasTiles ==
  ASSUME NEW p, NEW pl, NEW g
  PROVE  g \in Groups(p, pl) <=> TilesIn(p, g, pl) # {}
  BY DEF Groups, TilesIn

\* The melded tiles of player p, and their bytes, stay.
MeldTilesStay(p, pl, d, after, e) ==
  /\ MeldTiles(p, after) = MeldTiles(p, pl)
  /\ \A t \in MeldTiles(p, pl) : after[t] = pl[t] /\ e[t] = d[t]

\* Who gets no tiles and loses none keeps the melds.
LEMMA SameMeldsIn ==
  ASSUME NEW p, NEW pl, NEW d, NEW after, NEW e, MeldTilesStay(p, pl, d, after, e)
  PROVE  MeldsIn(p, after, e) = MeldsIn(p, pl, d)
  <1>1. \A g : /\ TilesIn(p, g, after) = TilesIn(p, g, pl)
               /\ \A t \in TilesIn(p, g, pl) : after[t] = pl[t] /\ e[t] = d[t]
    BY DEF TilesIn, MeldTilesStay
  <1>2. Groups(p, after) = Groups(p, pl)
    BY DEF Groups, MeldTilesStay
  <1>3. \A g \in Groups(p, pl) : Meld(p, g, after, e) = Meld(p, g, pl, d)
    BY <1>1, GroupHasTiles, SameMeld
  <1> QED
    BY <1>2, <1>3 DEF MeldsIn

\* A meld is new, or takes the place of a pon of the same type.
Replaced(before, after, old, new) ==
  /\ new \notin before /\ after = (before \ {old}) \cup {new}
  /\ old # new => old.kind = "pon" /\ new.kind = "kakan" /\ Types(new.tiles) = Types(old.tiles)

\* The other groups of player p keep their tiles.
OtherGroupsStay(p, g, pl, after) ==
  \A h : h # g => /\ TilesIn(p, h, after) = TilesIn(p, h, pl)
                  /\ \A t \in TilesIn(p, h, pl) : after[t] = pl[t]

\* A group of melds whose tiles move as one changes the melds by one.
LEMMA GroupReplaced ==
  ASSUME NEW p, NEW g, NEW pl, NEW after, NEW d,
         OtherGroupsStay(p, g, pl, after),
         NEW u, u \in TilesIn(p, g, after), u \notin MeldTiles(p, pl)
  PROVE  /\ Meld(p, g, after, d) \notin MeldsIn(p, pl, d)
         /\ g \in Groups(p, pl) =>
              MeldsIn(p, after, d) =
                (MeldsIn(p, pl, d) \ {Meld(p, g, pl, d)}) \cup {Meld(p, g, after, d)}
         /\ g \notin Groups(p, pl) =>
              MeldsIn(p, after, d) = MeldsIn(p, pl, d) \cup {Meld(p, g, after, d)}
  <1> DEFINE new == Meld(p, g, after, d)
             before == MeldsIn(p, pl, d)
             others == {Meld(p, h, pl, d) : h \in Groups(p, pl) \ {g}}
  <1>1. \A h, bytes : Meld(p, h, bytes, d).tiles = TilesIn(p, h, bytes)
    BY DEF Meld, TilesIn
  <1>2. new \notin before
    <2>1. \A h : u \notin Meld(p, h, pl, d).tiles
      BY <1>1 DEF TilesIn
    <2>2. u \in new.tiles
      BY <1>1
    <2> HIDE DEF new
    <2> QED
      BY <2>1, <2>2 DEF MeldsIn
  <1>3. Groups(p, after) = Groups(p, pl) \cup {g}
    <2>1. ASSUME NEW h
          PROVE  h \in Groups(p, after) <=> h \in Groups(p, pl) \cup {g}
      BY GroupHasTiles DEF OtherGroupsStay
    <2> QED
      BY <2>1
  <1>4. \A h \in Groups(p, pl) \ {g} : Meld(p, h, after, d) = Meld(p, h, pl, d)
    BY GroupHasTiles, SameMeld DEF OtherGroupsStay
  <1>5. MeldsIn(p, after, d) = others \cup {new}
    BY <1>3, <1>4 DEF MeldsIn
  <1>6. CASE g \in Groups(p, pl)
    <2>1. PICK v : v \in TilesIn(p, g, pl)
      BY <1>6, GroupHasTiles
    <2>2. ASSUME NEW h \in Groups(p, pl) \ {g}
          PROVE  Meld(p, h, pl, d) # Meld(p, g, pl, d)
      <3>1. v \notin TilesIn(p, h, pl)
        BY <2>1 DEF TilesIn
      <3> QED
        BY <1>1, <2>1, <3>1
    <2>3. before \ {Meld(p, g, pl, d)} = others
      BY <2>2 DEF MeldsIn
    <2> QED
      BY <1>2, <1>5, <1>6, <2>3
  <1>7. CASE g \notin Groups(p, pl)
    <2>1. others = before
      BY <1>7 DEF MeldsIn
    <2> HIDE DEF new, others, before
    <2> QED
      BY <1>2, <1>5, <1>7, <2>1 DEF new, before
  <1> QED
    BY <1>6, <1>7

\* The tiles of the groups after a meld.
LEMMA TilesMelded ==
  ASSUME TableInv, NEW p \in Player, NEW g \in 0 .. 3, NEW kind \in MeldKinds,
         NEW ts, NEW melded, Moves(Table, ts, MakeMeld(p, g, kind), placement, melded),
         \A t \in ts : \/ ~ IsMeld(placement[t])
                       \/ t \in TilesIn(p, g, placement),
         TilesIn(p, g, placement) \subseteq ts
  PROVE  /\ TilesIn(p, g, melded) = ts
         /\ OtherGroupsStay(p, g, placement, melded)
         /\ \A q \in Player \ {p} : MeldTilesStay(q, placement, discard, melded, discard)
         /\ \A t \in ts : melded[t] = MakeMeld(p, g, kind)
  <1> DEFINE b == MakeMeld(p, g, kind)
  <1>1. IsMeld(b) /\ BytePlayer(b) = p /\ MeldGroup(b) = g
    BY MeldByte
  <1>2. /\ DOMAIN placement = Table /\ DOMAIN melded = Table /\ ts \subseteq Table
        /\ \A t \in Table : melded[t] = IF t \in ts THEN b ELSE placement[t]
    BY DEF Moves
  <1> HIDE DEF b
  <1>3. \A t \in ts : ~ IsMeld(placement[t]) \/ (BytePlayer(placement[t]) = p /\ MeldGroup(placement[t]) = g)
    BY DEF TilesIn, MeldTiles
  <1>4. \A q, t : t \in MeldTiles(q, placement) <=>
                    t \in Table /\ IsMeld(placement[t]) /\ BytePlayer(placement[t]) = q
    BY <1>2 DEF MeldTiles
  <1>5. \A q, t : t \in MeldTiles(q, melded) <=>
                    t \in Table /\ IsMeld(melded[t]) /\ BytePlayer(melded[t]) = q
    BY <1>2 DEF MeldTiles
  <1>6. TilesIn(p, g, melded) = ts
    <2>1. \A t \in ts : t \in TilesIn(p, g, melded)
      BY <1>1, <1>2, <1>5 DEF TilesIn
    <2>2. \A t \in TilesIn(p, g, melded) : t \in ts
      <3> SUFFICES ASSUME NEW t \in TilesIn(p, g, melded), t \notin ts
                   PROVE  FALSE
        OBVIOUS
      <3>1. t \in Table /\ melded[t] = placement[t]
        BY <1>2, <1>5 DEF TilesIn
      <3>2. t \in TilesIn(p, g, placement)
        BY <1>4, <1>5, <3>1 DEF TilesIn
      <3> QED
        BY <3>2
    <2> QED
      BY <2>1, <2>2
  <1>7. ASSUME NEW h, h # g
        PROVE  /\ TilesIn(p, h, melded) = TilesIn(p, h, placement)
               /\ \A t \in TilesIn(p, h, placement) : melded[t] = placement[t]
    <2>1. \A t \in TilesIn(p, h, placement) : t \notin ts /\ t \in Table
      BY <1>3, <1>4, <1>7 DEF TilesIn
    <2>2. \A t \in TilesIn(p, h, melded) : t \notin ts /\ t \in Table
      BY <1>1, <1>2, <1>5, <1>7 DEF TilesIn
    <2>3. \A t \in Table \ ts : t \in TilesIn(p, h, melded) <=> t \in TilesIn(p, h, placement)
      BY <1>2, <1>4, <1>5 DEF TilesIn
    <2> QED
      BY <1>2, <2>1, <2>2, <2>3
  <1>8. ASSUME NEW q \in Player \ {p}
        PROVE  /\ MeldTiles(q, melded) = MeldTiles(q, placement)
               /\ \A t \in MeldTiles(q, placement) : melded[t] = placement[t]
    <2>1. \A t \in MeldTiles(q, placement) : t \notin ts /\ t \in Table
      BY <1>3, <1>4
    <2>2. \A t \in MeldTiles(q, melded) : t \notin ts /\ t \in Table
      BY <1>1, <1>2, <1>5
    <2>3. \A t \in Table \ ts : t \in MeldTiles(q, melded) <=> t \in MeldTiles(q, placement)
      BY <1>2, <1>4, <1>5
    <2> QED
      BY <1>2, <2>1, <2>2, <2>3
  <1> QED
    BY <1>2, <1>6, <1>7, <1>8 DEF b, OtherGroupsStay, MeldTilesStay

\* Whom the tiles ts of a meld of player p are called from.
CalledOf(ts, d) == {t \in ts : IsDiscard(d[t])}
FromOf(p, ts, d) ==
  IF CalledOf(ts, d) = {} THEN p ELSE BytePlayer(d[CHOOSE t \in CalledOf(ts, d) : TRUE])

\* What a meld is collected from.
LEMMA MeldOfTiles ==
  ASSUME NEW p, NEW g, NEW pl, NEW d
  PROVE  LET m  == Meld(p, g, pl, d)
             ts == TilesIn(p, g, pl)
         IN /\ m.tiles = ts /\ m.called = CalledOf(ts, d) /\ m.from = FromOf(p, ts, d)
            /\ m.kind = MeldKind(pl[CHOOSE t \in ts : TRUE])
  BY DEF Meld, TilesIn, CalledOf, FromOf

\* The kind of a meld whose tiles have the byte for it.
LEMMA KindOfByte ==
  ASSUME NEW p \in Player, NEW g \in 0 .. 3, NEW kind \in MeldKinds, NEW pl, NEW d,
         TilesIn(p, g, pl) # {},
         \A t \in TilesIn(p, g, pl) : pl[t] = MakeMeld(p, g, kind)
  PROVE  Meld(p, g, pl, d).kind = kind
  <1>1. pl[CHOOSE t \in TilesIn(p, g, pl) : TRUE] = MakeMeld(p, g, kind)
    OBVIOUS
  <1> QED
    BY <1>1, MeldByte, MeldOfTiles

\* One meld is new, fed by a player.
GainsMeld(before, after, from) ==
  \E old, new : Replaced(before, after, old, new) /\ new.from = from

\* Player p adds a meld, the others keep theirs.
LEMMA NewMeldAdded ==
  ASSUME TableInv, CountsOK(hand, melds), NEW p \in Player, NEW g \in 0 .. 3,
         NEW kind \in MeldKinds, NEW ts, NEW from, NEW melded,
         Moves(Table, ts, MakeMeld(p, g, kind), placement, melded),
         NewMeld(p, g, kind, ts, from)
  PROVE  /\ GainsMeld(MeldsIn(p, placement, discard), MeldsIn(p, melded, discard), from)
         /\ \A q \in Player \ {p} : MeldsIn(q, melded, discard) = MeldsIn(q, placement, discard)
         /\ from = p \/ from = current_player
  <1> DEFINE called == CalledOf(ts, discard)
             new == Meld(p, g, melded, discard)
  <1>1. /\ g = MeldCount(melds[p]) /\ Meldable(p, kind, ts, placement, discard)
        /\ \A t \in ts : discard[t] # LOCATION_NONE => BytePlayer(discard[t]) = current_player
        /\ from = IF kind = "ankan" THEN p ELSE current_player
    BY DEF NewMeld
  <1>2. \A t \in ts : ~ IsMeld(placement[t])
    BY <1>1, HandByte, NoneByte DEF Meldable
  <1>3. g \notin Groups(p, placement)
    <2>1. PICK k : Grouped(p, placement, discard, melds[p], k)
      BY DEF TableInv, Board, Collected
    <2>2. /\ placement \in [Table -> Bytes] /\ \A t \in Table : IsPlacement(placement[t])
          /\ melds[p] \in MeldRecords /\ MeldCount(melds[p]) <= 4
      BY DEF TableInv, Board, CountsOK
    <2>3. Groups(p, placement) = 0 .. (MeldCount(melds[p]) - 1)
      BY <2>1, <2>2, GroupsAreNumbered
    <2> QED
      BY <1>1, <2>3
  <1>4. TilesIn(p, g, placement) = {}
    BY <1>3, GroupHasTiles
  <1>5. /\ TilesIn(p, g, melded) = ts
        /\ OtherGroupsStay(p, g, placement, melded)
        /\ \A q \in Player \ {p} : MeldTilesStay(q, placement, discard, melded, discard)
        /\ \A t \in ts : melded[t] = MakeMeld(p, g, kind)
    BY <1>2, <1>4, TilesMelded
  <1>6. ts # {} /\ IsFiniteSet(ts) /\ ts \subseteq Table
    <2>1. IsFiniteSet(Table) /\ ts \subseteq Table
      BY DEF Moves
    <2>2. Cardinality(ts) # 0
      BY <1>1 DEF Meldable, GroupSize
    <2> QED
      BY <2>1, <2>2, FS_Subset, FS_EmptySet
  <1>7. PICK u \in ts : u \notin MeldTiles(p, placement)
    BY <1>2, <1>6 DEF MeldTiles
  <1>8. /\ new \notin MeldsIn(p, placement, discard)
        /\ MeldsIn(p, melded, discard) = MeldsIn(p, placement, discard) \cup {new}
    <2>1. u \in TilesIn(p, g, melded) /\ OtherGroupsStay(p, g, placement, melded)
      BY <1>5
    <2> QED
      BY <1>3, <1>7, <2>1, GroupReplaced
  <1>9. new.from = IF called = {} THEN p ELSE BytePlayer(discard[CHOOSE t \in called : TRUE])
    BY <1>5, MeldOfTiles DEF FromOf
  <1>10. called = {t \in ts : discard[t] # LOCATION_NONE}
    BY <1>6, DiscardedTiles DEF CalledOf
  <1>11. Cardinality(called) = (IF kind = "ankan" THEN 0 ELSE 1) /\ IsFiniteSet(called)
    <2>1. called \in SUBSET ts
      BY DEF CalledOf
    <2> HIDE DEF called
    <2> QED
      BY <1>1, <1>6, <1>10, <2>1, FS_Subset DEF Meldable
  <1>12. called = {} <=> kind = "ankan"
    BY <1>11, FS_EmptySet
  <1>13. \A t \in called : BytePlayer(discard[t]) = current_player
    BY <1>1, <1>10
  <1> HIDE DEF called, new
  <1>14. new.from = from
    BY <1>1, <1>9, <1>12, <1>13
  <1>15. GainsMeld(MeldsIn(p, placement, discard), MeldsIn(p, melded, discard), from)
    <2>1. MeldsIn(p, melded, discard) = (MeldsIn(p, placement, discard) \ {new}) \cup {new}
      BY <1>8
    <2> QED
      BY <1>8, <1>14, <2>1 DEF GainsMeld, Replaced
  <1>16. \A q \in Player \ {p} : MeldsIn(q, melded, discard) = MeldsIn(q, placement, discard)
    BY <1>5, SameMeldsIn
  <1> QED
    BY <1>1, <1>15, <1>16

\* Player p adds a tile to his pon, the others keep their melds.
LEMMA KanAddedTo ==
  ASSUME TableInv, CountsOK(hand, melds), NEW p \in Player, NEW g \in 0 .. 3,
         NEW kind \in MeldKinds, NEW ts, NEW from, NEW melded,
         Moves(Table, ts, MakeMeld(p, g, kind), placement, melded),
         AddedKan(p, g, kind, ts, from)
  PROVE  /\ GainsMeld(MeldsIn(p, placement, discard), MeldsIn(p, melded, discard), from)
         /\ \A q \in Player \ {p} : MeldsIn(q, melded, discard) = MeldsIn(q, placement, discard)
         /\ from \in Player
  <1>1. PICK m \in MeldsOf(p, placement), tile \in At(MakeHand(p), placement) :
          /\ m = Meld(p, g, placement, discard)
          /\ m.kind = "pon" /\ kind = "kakan" /\ m.from = from
          /\ Types(m.tiles) = {TypeOf(tile)} /\ ts = m.tiles \cup {tile}
    BY DEF AddedKan
  <1> DEFINE us == TilesIn(p, g, placement)
             new == Meld(p, g, melded, discard)
  <1>2. m.tiles = us /\ m.from = FromOf(p, us, discard)
    BY <1>1, MeldOfTiles
  <1>3. g \in Groups(p, placement)
    <2>1. PICK h \in Groups(p, placement) : m = Meld(p, h, placement, discard)
      BY <1>1 DEF MeldsOf
    <2>2. m.tiles = TilesIn(p, h, placement)
      BY <2>1, MeldOfTiles
    <2>3. TilesIn(p, h, placement) # {}
      BY <2>1, GroupHasTiles
    <2> QED
      BY <1>2, <2>2, <2>3, GroupHasTiles
  <1>4. us # {}
    BY <1>3, GroupHasTiles
  <1>5. /\ ~ IsMeld(placement[tile]) /\ discard[tile] = LOCATION_NONE
        /\ tile \notin MeldTiles(p, placement)
    BY HandByte, HandUndiscarded DEF At, MeldTiles
  <1>6. /\ TilesIn(p, g, melded) = ts
        /\ OtherGroupsStay(p, g, placement, melded)
        /\ \A q \in Player \ {p} : MeldTilesStay(q, placement, discard, melded, discard)
        /\ \A t \in ts : melded[t] = MakeMeld(p, g, kind)
    BY <1>1, <1>2, <1>5, TilesMelded
  <1>7. tile \in ts /\ ts = us \cup {tile}
    BY <1>1, <1>2
  <1>8. CalledOf(ts, discard) = CalledOf(us, discard)
    BY <1>5, <1>7, NoneByte DEF CalledOf
  <1>9. from \in Player
    <2>1. \A t \in CalledOf(us, discard) : t \in Table /\ IsDiscard(discard[t])
      BY DEF CalledOf, TilesIn, MeldTiles, TableInv, Board
    <2>2. \A t \in CalledOf(us, discard) : BytePlayer(discard[t]) \in Player
      BY <2>1, DiscardedTiles
    <2> QED
      BY <1>1, <1>2, <2>2 DEF FromOf
  <1> HIDE DEF us
  <1>10. new.tiles = ts /\ new.kind = "kakan" /\ new.from = m.from
    <2>1. new.tiles = ts /\ new.from = FromOf(p, ts, discard)
      BY <1>6, MeldOfTiles
    <2>2. new.kind = kind
      BY <1>6, <1>7, KindOfByte
    <2> QED
      BY <1>1, <1>2, <1>8, <2>1, <2>2 DEF FromOf
  <1>11. /\ new \notin MeldsIn(p, placement, discard)
         /\ MeldsIn(p, melded, discard) = (MeldsIn(p, placement, discard) \ {m}) \cup {new}
    <2>1. tile \in TilesIn(p, g, melded) /\ OtherGroupsStay(p, g, placement, melded)
      BY <1>6, <1>7
    <2>2. /\ new \notin MeldsIn(p, placement, discard)
          /\ MeldsIn(p, melded, discard) =
               (MeldsIn(p, placement, discard) \ {Meld(p, g, placement, discard)}) \cup {new}
      BY ONLY <1>3, <1>5, <2>1, GroupReplaced
    <2> QED
      BY <1>1, <2>2
  <1>12. Types(new.tiles) = Types(m.tiles)
    <2>1. Types(ts) = Types(m.tiles) \cup {TypeOf(tile)}
      BY <1>1 DEF Types
    <2> QED
      BY <1>1, <1>10, <2>1
  <1> HIDE DEF new
  <1>13. GainsMeld(MeldsIn(p, placement, discard), MeldsIn(p, melded, discard), from)
    BY <1>1, <1>10, <1>11, <1>12 DEF GainsMeld, Replaced
  <1>14. \A q \in Player \ {p} : MeldsIn(q, melded, discard) = MeldsIn(q, placement, discard)
    BY <1>6, SameMeldsIn
  <1> QED
    BY <1>13, <1>14, <1>9

\* A tile that is drawn changes no meld.
LEMMA DrawKeepsMelds ==
  ASSUME NEW pl, pl \in [Table -> Bytes], NEW u \in Table, pl[u] = LOCATION_NONE,
         NEW p \in Player, NEW q
  PROVE  MeldsIn(q, [pl EXCEPT ![u] = MakeHand(p)], discard) = MeldsIn(q, pl, discard)
  <1> DEFINE after == [pl EXCEPT ![u] = MakeHand(p)]
  <1>1. ~ IsMeld(MakeHand(p)) /\ ~ IsMeld(LOCATION_NONE)
    BY HandByte, NoneByte
  <1>2. DOMAIN after = Table /\ DOMAIN pl = Table
    OBVIOUS
  <1>3. \A t \in Table : IF t = u THEN ~ IsMeld(after[t]) /\ ~ IsMeld(pl[t])
                                  ELSE after[t] = pl[t]
    BY <1>1
  <1>4. MeldTilesStay(q, pl, discard, after, discard)
    BY <1>2, <1>3 DEF MeldTiles, MeldTilesStay
  <1> QED
    BY <1>4, SameMeldsIn

\* The liability for the hand of a player after a meld that another has fed.
PaoAfter(q, from, after) ==
  IF from = q \/ pao[q].type # "NONE"
    THEN pao
    ELSE IF BigHand(after) = "NONE"
           THEN pao
           ELSE [pao EXCEPT ![q] = [type |-> BigHand(after), player |-> from]]

\* A step leaves the melds of a player and the liability for them, or adds one
\* meld and what liability it brings.
LEMMA MeldsMove ==
  ASSUME TableInv, CountsOK(hand, melds), current_player \in Player, TableMoves,
         NEW q \in Player
  PROVE  LET before == MeldsIn(q, placement, discard)
             after  == MeldsIn(q, placement', discard')
         IN \/ after = before /\ pao'[q] = pao[q]
            \/ \E from \in Player :
                 GainsMeld(before, after, from) /\ pao' = PaoAfter(q, from, after)
  <1> DEFINE before == MeldsIn(q, placement, discard)
             after  == MeldsIn(q, placement', discard')
  <1>1. placement \in [Table -> Bytes] /\ discard \in [Table -> Bytes]
    BY DEF TableInv, Board, Logged
  <1>2. CASE Stays
    BY <1>2 DEF Stays
  <1>3. CASE Parts
    <2>1. PICK p \in Player :
            \E u \in At(MakeHand(p), placement), i \in 0 .. 30, b \in Bytes :
              /\ IsDiscardOf(p, i, b)
              /\ placement' = [placement EXCEPT ![u] = LOCATION_NONE]
              /\ discard' = [discard EXCEPT ![u] = b]
      BY <1>3 DEF Parts
    <2>2. PICK u \in At(MakeHand(p), placement), b \in Bytes :
            /\ placement' = [placement EXCEPT ![u] = LOCATION_NONE]
            /\ discard' = [discard EXCEPT ![u] = b]
      BY <2>1
    <2>3. ~ IsMeld(placement[u]) /\ ~ IsMeld(LOCATION_NONE)
      BY HandByte, NoneByte DEF At
    <2>4. \A t \in Table : IF t = u THEN ~ IsMeld(placement'[t]) /\ ~ IsMeld(placement[t])
                                    ELSE placement'[t] = placement[t] /\ discard'[t] = discard[t]
      BY <1>1, <2>2, <2>3
    <2>5. DOMAIN placement' = Table /\ DOMAIN placement = Table
      BY <1>1, <2>2
    <2>6. MeldTilesStay(q, placement, discard, placement', discard')
      BY <2>4, <2>5 DEF MeldTiles, MeldTilesStay
    <2>7. after = before
      BY <2>6, SameMeldsIn
    <2> QED
      BY <1>3, <2>7 DEF Parts
  <1>4. ASSUME NEW p \in Player, NEW pl, pl \in [Table -> Bytes], DrawnInto(p, pl),
               \A u \in Table : placement[u] = LOCATION_NONE /\ discard[u] = LOCATION_NONE
                                  => pl[u] = LOCATION_NONE,
               discard' = discard
        PROVE  after = MeldsIn(q, pl, discard)
    <2>1. PICK u \in At(LOCATION_NONE, placement) :
            discard[u] = LOCATION_NONE /\ placement' = [pl EXCEPT ![u] = MakeHand(p)]
      BY <1>4 DEF DrawnInto
    <2>2. u \in Table /\ pl[u] = LOCATION_NONE
      BY <1>1, <1>4, <2>1 DEF At
    <2>3. MeldsIn(q, [pl EXCEPT ![u] = MakeHand(p)], discard) = MeldsIn(q, pl, discard)
      BY <1>4, <2>2, DrawKeepsMelds
    <2> QED
      BY <1>4, <2>1, <2>3
  <1>5. CASE DrawsOne
    <2>1. PICK p \in Player : DrawnInto(p, placement)
      BY <1>5 DEF DrawsOne
    <2>2. discard' = discard /\ pao' = pao
      BY <1>5 DEF DrawsOne
    <2>3. after = MeldsIn(q, placement, discard)
      BY <1>1, <1>4, <2>1, <2>2
    <2> QED
      BY <2>2, <2>3
  <1>6. ASSUME NEW p \in Player, Melds(p)
        PROVE  \/ after = before /\ pao'[q] = pao[q]
               \/ \E from \in Player :
                    GainsMeld(before, after, from) /\ pao' = PaoAfter(q, from, after)
    <2>1. discard' = discard
      BY <1>6 DEF Melds
    <2>0. PICK g \in 0 .. 3, kind \in MeldKinds : \E ts, from, melded :
            /\ Melding(p, g, kind, ts, from, melded)
            /\ pao' = UpdatePao(p, from, melded)
            /\ placement' = melded \/ DrawnInto(p, melded)
      BY <1>6 DEF Melds
    <2>2. PICK ts, from, melded :
            /\ Melding(p, g, kind, ts, from, melded)
            /\ pao' = UpdatePao(p, from, melded)
            /\ placement' = melded \/ DrawnInto(p, melded)
      BY <2>0
    <2>3. /\ Moves(Table, ts, MakeMeld(p, g, kind), placement, melded)
          /\ NewMeld(p, g, kind, ts, from) \/ AddedKan(p, g, kind, ts, from)
      BY <2>2 DEF Melding
    <2>4. /\ GainsMeld(MeldsIn(p, placement, discard), MeldsIn(p, melded, discard), from)
          /\ \A r \in Player \ {p} : MeldsIn(r, melded, discard) = MeldsIn(r, placement, discard)
          /\ from \in Player
      BY <2>3, NewMeldAdded, KanAddedTo
    <2>5. /\ melded \in [Table -> Bytes]
          /\ \A u \in Table : placement[u] = LOCATION_NONE /\ discard[u] = LOCATION_NONE
                                => melded[u] = LOCATION_NONE
      <3>1. \A u \in ts : ~ (placement[u] = LOCATION_NONE /\ discard[u] = LOCATION_NONE)
        BY <2>3, MeldedFrom, HandByte, NoneByte
      <3> QED
        BY <2>3, <3>1 DEF Moves
    <2>6. after = MeldsIn(q, melded, discard)
      BY <1>4, <2>1, <2>2, <2>5
    <2>7. CASE q = p
      <3>1. pao' = PaoAfter(q, from, MeldsIn(q, melded, discard))
        BY <2>2, <2>7 DEF UpdatePao, PaoAfter, MeldsOf, MeldsIn
      <3> QED
        BY <2>4, <2>6, <2>7, <3>1
    <2>8. CASE q # p
      <3>1. pao'[q] = pao[q]
        BY <2>2, <2>8 DEF UpdatePao
      <3> QED
        BY <2>4, <2>6, <2>8, <3>1
    <2> QED
      BY <2>7, <2>8
  <1> QED
    BY <1>2, <1>3, <1>5, <1>6 DEF TableMoves

-----------------------------------------------------------------------------
(* Liability                                                                *)

\* A set that trades one element for a new one does not shrink.
LEMMA TradeKeepsSize ==
  ASSUME NEW S, IsFiniteSet(S), NEW R, IsFiniteSet(R), NEW old, NEW new,
         new \notin S, S \ {old} \subseteq R, old \in S => new \in R
  PROVE  Cardinality(S) \in Nat /\ Cardinality(R) \in Nat /\ Cardinality(S) <= Cardinality(R)
  <1>1. Cardinality(S) \in Nat /\ Cardinality(R) \in Nat
    BY FS_CardinalityType
  <1>2. CASE old \notin S
    <2>1. S \in SUBSET R
      BY <1>2
    <2> QED
      BY <1>1, <2>1, FS_Subset
  <1>3. CASE old \in S
    <2> DEFINE U == S \ {old}
    <2>1. IsFiniteSet(U) /\ Cardinality(U) = Cardinality(S) - 1
      BY <1>3, FS_RemoveElement
    <2>2. new \notin U /\ U \cup {new} \in SUBSET R
      BY <1>3
    <2> HIDE DEF U
    <2>3. IsFiniteSet(U \cup {new}) /\ Cardinality(U \cup {new}) = Cardinality(U) + 1
      BY <2>1, <2>2, FS_AddElement
    <2>4. Cardinality(U \cup {new}) <= Cardinality(R)
      BY <2>2, FS_Subset
    <2> QED
      BY <1>1, <2>1, <2>3, <2>4
  <1> QED
    BY <1>2, <1>3

Triplets(ms, types) == {m \in ms : m.kind # "chi" /\ Types(m.tiles) \subseteq types}
Kans(ms) == {m \in ms : m.kind \in KanKinds}

\* Three dragons, four winds or four kans are a big hand.
LEMMA BigHandMeans ==
  ASSUME NEW ms, IsFiniteSet(ms)
  PROVE  /\ BigHand(ms) \in {"NONE", "DAISANGEN", "DAISUUSHII", "SUUKANTSU"}
         /\ BigHand(ms) # "NONE" <=>
              \/ Cardinality(Triplets(ms, Dragons)) >= 3
              \/ Cardinality(Triplets(ms, Winds)) >= 4
              \/ Cardinality(Kans(ms)) >= 4
  <1> DEFINE d == Cardinality(Triplets(ms, Dragons))
             w == Cardinality(Triplets(ms, Winds))
             k == Cardinality(Kans(ms))
  <1>1. d \in Nat /\ w \in Nat /\ k \in Nat
    <2>1. /\ Triplets(ms, Dragons) \in SUBSET ms /\ Triplets(ms, Winds) \in SUBSET ms
          /\ Kans(ms) \in SUBSET ms
      BY DEF Triplets, Kans
    <2> QED
      BY <2>1, FS_Subset, FS_CardinalityType
  <1>2. BigHand(ms) =
          CASE d >= 3 -> "DAISANGEN"
            [] d < 3 /\ w >= 4 -> "DAISUUSHII"
            [] d < 3 /\ w < 4 /\ k >= 4 -> "SUUKANTSU"
            [] OTHER -> "NONE"
    BY DEF BigHand, TripletsIn, Triplets, Kans
  <1> HIDE DEF d, w, k
  <1>3. \/ d >= 3 /\ BigHand(ms) = "DAISANGEN"
        \/ d < 3 /\ w >= 4 /\ BigHand(ms) = "DAISUUSHII"
        \/ d < 3 /\ w < 4 /\ k >= 4 /\ BigHand(ms) = "SUUKANTSU"
        \/ d < 3 /\ w < 4 /\ k < 4 /\ BigHand(ms) = "NONE"
    BY <1>1, <1>2
  <1> QED
    BY <1>1, <1>3 DEF d, w, k

\* A meld that is new or better never breaks a big hand.
LEMMA BigHandStays ==
  ASSUME NEW before, IsFiniteSet(before), NEW after, NEW old, NEW new,
         Replaced(before, after, old, new), BigHand(before) # "NONE"
  PROVE  BigHand(after) # "NONE"
  <1>1. /\ new \notin before /\ after = (before \ {old}) \cup {new}
        /\ old \in before => /\ old.kind = "pon" /\ new.kind = "kakan"
                             /\ Types(new.tiles) = Types(old.tiles)
    BY DEF Replaced
  <1>2. IsFiniteSet(after)
    <2>1. before \ {old} \in SUBSET before
      OBVIOUS
    <2> QED
      BY <1>1, <2>1, FS_Subset, FS_AddElement
  <1>3. ASSUME NEW types
        PROVE  /\ Cardinality(Triplets(before, types)) \in Nat
               /\ Cardinality(Triplets(after, types)) \in Nat
               /\ Cardinality(Triplets(before, types)) <= Cardinality(Triplets(after, types))
    <2> DEFINE S == Triplets(before, types)
               R == Triplets(after, types)
    <2>1. S \in SUBSET before /\ R \in SUBSET after
      BY DEF Triplets
    <2>2. new \notin S /\ S \ {old} \subseteq R /\ (old \in S => new \in R)
      BY <1>1 DEF Triplets
    <2> HIDE DEF S, R
    <2>3. IsFiniteSet(S) /\ IsFiniteSet(R)
      BY <1>2, <2>1, FS_Subset
    <2> QED
      BY <2>2, <2>3, TradeKeepsSize DEF S, R
  <1>4. /\ Cardinality(Kans(before)) \in Nat /\ Cardinality(Kans(after)) \in Nat
        /\ Cardinality(Kans(before)) <= Cardinality(Kans(after))
    <2> DEFINE S == Kans(before)
               R == Kans(after)
    <2>1. S \in SUBSET before /\ R \in SUBSET after
      BY DEF Kans
    <2>2. new \notin S /\ S \ {old} \subseteq R /\ (old \in S => new \in R)
      BY <1>1 DEF Kans, KanKinds
    <2> HIDE DEF S, R
    <2>3. IsFiniteSet(S) /\ IsFiniteSet(R)
      BY <1>2, <2>1, FS_Subset
    <2> QED
      BY <2>2, <2>3, TradeKeepsSize DEF S, R
  <1>5. \/ Cardinality(Triplets(after, Dragons)) >= 3
        \/ Cardinality(Triplets(after, Winds)) >= 4
        \/ Cardinality(Kans(after)) >= 4
    <2>1. \/ Cardinality(Triplets(before, Dragons)) >= 3
          \/ Cardinality(Triplets(before, Winds)) >= 4
          \/ Cardinality(Kans(before)) >= 4
      BY BigHandMeans
    <2>2. CASE Cardinality(Triplets(before, Dragons)) >= 3
      BY <1>3, <2>2
    <2>3. CASE Cardinality(Triplets(before, Winds)) >= 4
      BY <1>3, <2>3
    <2>4. CASE Cardinality(Kans(before)) >= 4
      BY <1>4, <2>4
    <2> QED
      BY <2>1, <2>2, <2>3, <2>4
  <1> QED
    BY <1>2, <1>5, BigHandMeans

\* Liability is either none or for a big hand that lies open.
PaoOf == [type : {"NONE", "DAISANGEN", "DAISUUSHII", "SUUKANTSU"}, player : Player]

LiabilityInv ==
  /\ pao \in [Player -> PaoOf]
  /\ \A p \in Player :
       IF pao[p].type = "NONE"
         THEN pao[p] = NoPao
         ELSE BigHand(MeldsIn(p, placement, discard)) # "NONE"

\* The melds of a player are finitely many.
LEMMA MeldsFinite ==
  ASSUME TableInv, CountsOK(hand, melds), NEW p \in Player
  PROVE  IsFiniteSet(MeldsIn(p, placement, discard))
  <1>1. PICK k : Grouped(p, placement, discard, melds[p], k)
    BY DEF TableInv, Board, Collected
  <1>2. /\ placement \in [Table -> Bytes] /\ \A t \in Table : IsPlacement(placement[t])
        /\ melds[p] \in MeldRecords /\ MeldCount(melds[p]) <= 4
    BY DEF TableInv, Board, CountsOK
  <1>3. Groups(p, placement) = 0 .. (MeldCount(melds[p]) - 1)
    BY <1>1, <1>2, GroupsAreNumbered
  <1>4. IsFiniteSet(Groups(p, placement))
    <2>1. MeldCount(melds[p]) - 1 \in Int
      BY <1>2, MeldCountType
    <2>2. IsFiniteSet(0 .. (MeldCount(melds[p]) - 1))
      BY <2>1, FS_Interval
    <2> QED
      BY <1>3, <2>2
  <1> DEFINE f == [g \in Groups(p, placement) |-> Meld(p, g, placement, discard)]
  <1>5. f \in Surjection(Groups(p, placement), MeldsIn(p, placement, discard))
    <2>1. /\ DOMAIN f = Groups(p, placement)
          /\ \A g \in Groups(p, placement) : f[g] \in MeldsIn(p, placement, discard)
          /\ \A m \in MeldsIn(p, placement, discard) :
               \E g \in Groups(p, placement) : f[g] = m
      BY DEF MeldsIn
    <2>2. f \in [Groups(p, placement) -> MeldsIn(p, placement, discard)]
      BY DEF MeldsIn
    <2> HIDE DEF f
    <2> QED
      BY <2>1, <2>2 DEF Surjection
  <1> QED
    BY <1>4, <1>5, FS_Surjection

\* What a step may do to the liability for the hand of a player.
PaoNamed(p, before, after) ==
  /\ pao[p] # NoPao => pao'[p] = pao[p]
  /\ pao'[p] # pao[p] =>
       \E m \in after \ before : m.from = pao'[p].player /\ m.from # p
  /\ BigHand(before) = "NONE" /\ BigHand(after) # "NONE" =>
       \A m \in after \ before :
         m.from # p => pao'[p] = [type |-> BigHand(after), player |-> m.from]

LEMMA LiabilityStep ==
  ASSUME TableInv, CountsOK(hand, melds), current_player \in Player, TableMoves,
         LiabilityInv, NEW p \in Player
  PROVE  /\ PaoNamed(p, MeldsIn(p, placement, discard), MeldsIn(p, placement', discard'))
         /\ pao'[p] \in PaoOf
         /\ IF pao'[p].type = "NONE"
              THEN pao'[p] = NoPao
              ELSE BigHand(MeldsIn(p, placement', discard')) # "NONE"
  <1> DEFINE before == MeldsIn(p, placement, discard)
             after  == MeldsIn(p, placement', discard')
  <1>1. /\ pao \in [Player -> PaoOf] /\ pao[p] \in PaoOf
        /\ IF pao[p].type = "NONE" THEN pao[p] = NoPao ELSE BigHand(before) # "NONE"
    BY DEF LiabilityInv
  <1>2. NoPao.type = "NONE"
    BY DEF NoPao
  <1>3. \/ after = before /\ pao'[p] = pao[p]
        \/ \E from \in Player :
             GainsMeld(before, after, from) /\ pao' = PaoAfter(p, from, after)
    BY MeldsMove
  <1>4. IsFiniteSet(before)
    BY MeldsFinite
  <1> HIDE DEF before, after
  <1>5. CASE after = before /\ pao'[p] = pao[p]
    <2>1. PaoNamed(p, before, after)
      BY <1>5 DEF PaoNamed
    <2> QED
      BY <1>1, <1>5, <2>1 DEF before, after
  <1>6. ASSUME NEW from \in Player, GainsMeld(before, after, from),
               pao' = PaoAfter(p, from, after)
        PROVE  /\ PaoNamed(p, before, after) /\ pao'[p] \in PaoOf
               /\ IF pao'[p].type = "NONE" THEN pao'[p] = NoPao ELSE BigHand(after) # "NONE"
    <2>1. PICK old, new : Replaced(before, after, old, new) /\ new.from = from
      BY <1>6 DEF GainsMeld
    <2>2. new \notin before /\ new \in after /\ \A m \in after \ before : m = new
      BY <2>1 DEF Replaced
    <2>3. IsFiniteSet(after)
      <3>1. before \ {old} \in SUBSET before
        OBVIOUS
      <3> QED
        BY <1>4, <2>1, <3>1, FS_Subset, FS_AddElement DEF Replaced
    <2>4. BigHand(before) # "NONE" => BigHand(after) # "NONE"
      BY <1>4, <2>1, BigHandStays
    <2>5. CASE from = p
      <3>1. pao' = pao
        BY <1>6, <2>5 DEF PaoAfter
      <3>2. \A m \in after \ before : m.from = p
        BY <2>1, <2>2, <2>5
      <3>3. PaoNamed(p, before, after)
        BY <3>1, <3>2 DEF PaoNamed
      <3> QED
        BY <1>1, <2>4, <3>1, <3>3
    <2>6. CASE from # p /\ pao[p].type # "NONE"
      <3>1. pao' = pao /\ BigHand(before) # "NONE"
        BY <1>1, <1>6, <2>6 DEF PaoAfter
      <3>2. PaoNamed(p, before, after)
        BY <3>1 DEF PaoNamed
      <3> QED
        BY <1>1, <2>4, <3>1, <3>2
    <2>7. CASE from # p /\ pao[p].type = "NONE" /\ BigHand(after) = "NONE"
      <3>1. pao' = pao
        BY <1>6, <2>7 DEF PaoAfter
      <3>2. PaoNamed(p, before, after)
        BY <2>7, <3>1 DEF PaoNamed
      <3> QED
        BY <1>1, <2>7, <3>1, <3>2
    <2>8. CASE from # p /\ pao[p].type = "NONE" /\ BigHand(after) # "NONE"
      <3>1. pao'[p] = [type |-> BigHand(after), player |-> from]
        BY <1>1, <1>6, <2>8 DEF PaoAfter
      <3>2. pao'[p] \in PaoOf
        BY <2>3, <3>1, BigHandMeans DEF PaoOf
      <3>3. pao'[p].type = BigHand(after) /\ pao'[p].player = from
        BY <3>1
      <3>4. PaoNamed(p, before, after)
        BY <1>1, <2>1, <2>2, <2>8, <3>1, <3>3 DEF PaoNamed
      <3> QED
        BY <2>8, <3>2, <3>3, <3>4
    <2> QED
      BY <2>5, <2>6, <2>7, <2>8
  <1> QED
    BY <1>3, <1>5, <1>6 DEF before, after

\* The records of liability stay a function of the players.
LEMMA PaoFunction ==
  ASSUME TableInv, CountsOK(hand, melds), current_player \in Player, TableMoves, LiabilityInv
  PROVE  pao' \in [Player -> PaoOf]
  <1>1. \A p \in Player : pao'[p] \in PaoOf
    BY LiabilityStep
  <1>2. pao \in [Player -> PaoOf]
    BY DEF LiabilityInv
  <1>3. \/ pao' = pao
        \/ \E p \in Player : \E x : pao' = [pao EXCEPT ![p] = x]
    BY DEF TableMoves, Stays, Parts, DrawsOne, Melds, UpdatePao
  <1> QED
    BY <1>1, <1>2, <1>3

\* LiabilityNamed: who feeds the meld by which three dragons, four winds or four
\* kans lie open is liable for the hand, and for good (cj4_state_update_pao).
THEOREM LiabilityAlwaysNamed == TableSpec => LiabilityNamed
  <1>1. TableInit => LiabilityInv
    BY DEF TableInit, LiabilityInv, NoPao, PaoOf, Player
  <1>2. RoundInv /\ OwnDiscardsFit /\ TableInv /\ LiabilityInv /\ [TableNext]_allVars
          => /\ LiabilityInv'
             /\ \A p \in Player :
                  PaoNamed(p, MeldsOf(p, placement), MeldsOf(p, placement)')
    <2> SUFFICES ASSUME RoundInv, OwnDiscardsFit, TableInv, LiabilityInv,
                        [TableNext]_allVars
                 PROVE  /\ LiabilityInv'
                        /\ \A p \in Player :
                             PaoNamed(p, MeldsOf(p, placement), MeldsOf(p, placement)')
      OBVIOUS
    <2>1. TableMoves
      BY TableInvStep
    <2>2. CountsOK(hand, melds) /\ current_player \in Player
      BY RoundFacts
    <2>3. LiabilityInv'
      BY <2>1, <2>2, LiabilityStep, PaoFunction DEF LiabilityInv
    <2>4. \A p \in Player : /\ MeldsOf(p, placement) = MeldsIn(p, placement, discard)
                            /\ MeldsOf(p, placement)' = MeldsIn(p, placement', discard')
      BY DEF MeldsOf, MeldsIn
    <2> QED
      BY <2>1, <2>2, <2>3, <2>4, LiabilityStep
  <1>3. (\A p \in Player : PaoNamed(p, MeldsOf(p, placement), MeldsOf(p, placement)'))
          => [\A p \in Player :
                LET before == MeldsOf(p, placement)
                    after  == MeldsOf(p, placement)'
                IN /\ pao[p] # NoPao => pao'[p] = pao[p]
                   /\ pao'[p] # pao[p] =>
                        \E m \in after \ before : m.from = pao'[p].player /\ m.from # p
                   /\ BigHand(before) = "NONE" /\ BigHand(after) # "NONE" =>
                        \A m \in after \ before :
                          m.from # p => pao'[p] = [type |-> BigHand(after), player |-> m.from]
             ]_allVars
    BY DEF PaoNamed
  <1>4. TableSpec => [](RoundInv /\ OwnDiscardsFit /\ TableInv)
    BY TableInvariant
  <1> QED
    BY <1>1, <1>2, <1>3, <1>4, PTL DEF TableSpec, LiabilityNamed
=============================================================================
