------------------------------- MODULE PlayerView -------------------------------
(***************************************************************************)
(* What a player is shown of a round: cj4m_make_player_view                *)
(* (src/manager/player_view.c) copies the four bytes of every tile and     *)
(* masks what the player does not know.                                    *)
(***************************************************************************)
EXTENDS TileTable

UNKNOWN == [wall |-> LOCATION_NONE, discard |-> LOCATION_NONE,
            placement |-> LOCATION_NONE, discard_history |-> LOCATION_NONE]

IsIndicator(t) == \E i \in 1 .. dora_count : deal.wall[t] = DORA_INDICES[i]

IsOwn(p, b) == BytePlayer(b) = p

Bug_OwnDiscardUntraced(p, t) ==
  \/ IsHand(placement[t]) /\ IsOwn(p, placement[t])
  \/ IsDiscard(discard[t]) /\ IsTsumogiri(discard[t])
  \/ IsMeld(placement[t]) /\ IsOwn(p, placement[t])
  \/ IsIndicator(t)

\* Does the player know where in the wall the tile lay.
WallVisible(p, t) ==
  \/ IsHand(placement[t]) /\ IsOwn(p, placement[t])
  \/ IsDiscard(discard[t]) /\ (IsTsumogiri(discard[t]) \/ IsOwn(p, discard[t]))
  \/ IsMeld(placement[t]) /\ IsOwn(p, placement[t])
  \/ IsIndicator(t)

IsShown(p, t) == IsDiscard(discard[t]) \/ IsMeld(placement[t]) \/ WallVisible(p, t)

Visible(p, t) ==
  IF IsShown(p, t)
    THEN [wall            |-> IF WallVisible(p, t) THEN deal.wall[t] ELSE LOCATION_NONE,
          discard         |-> discard[t],
          placement       |-> placement[t],
          discard_history |-> discard_history[t]]
    ELSE UNKNOWN

\* cj4m_make_player_view
View(p) ==
  [locations    |-> [t \in Table |-> Visible(p, t)],
   last_discard |-> offered,
   draw_tile    |-> IF drawn # TILE_INVALID /\ InHand(p, {drawn}) THEN drawn ELSE TILE_INVALID,
   kan_tile     |-> IF phase \in {"KAKAN_RESOLVE", "ANKAN_RESOLVE"}
                      THEN kan_tile ELSE TILE_INVALID]

ShownTo(p) ==
  LET locations == View(p).locations IN {t \in Table : locations[t] # UNKNOWN}

TracedBy(p) ==
  LET locations == View(p).locations
  IN {t \in Table : locations[t].wall # LOCATION_NONE}

\* What a step makes known to a player: the tile he draws, discards, melds and
\* indicators.
MadeKnown(p) ==
  {t \in Table : \/ drawn' = t /\ BytePlayer(placement'[t]) = p
                 \/ discard'[t] # discard[t]
                 \/ IsMeld(placement'[t]) /\ placement'[t] # placement[t]
                 \/ \E i \in (dora_count + 1) .. dora_count' :
                      deal.wall[t] = DORA_INDICES[i]}

\* A view never takes back what it has shown, neither a tile nor the place in
\* the wall it came from, though the tile moves from the hand to the river and
\* on into a meld; and it shows nothing before the step that makes it known.
ViewOnlyGrows ==
  [][ \A p \in Player :
        /\ ShownTo(p) \subseteq ShownTo(p)'
        /\ TracedBy(p) \subseteq TracedBy(p)'
        /\ ShownTo(p)' \ ShownTo(p) \subseteq MadeKnown(p) ]_allVars
=============================================================================
