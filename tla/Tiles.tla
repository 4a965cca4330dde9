-------------------------------- MODULE Tiles --------------------------------
(***************************************************************************)
(* The 136 tiles and their 34 types (include/cjong4/core/tile.h).  Numbered *)
(* types come in three suits of nine, 0 .. 26, the honors are 27 .. 33:     *)
(* four winds, then three dragons.  Four tiles share a type.                *)
(***************************************************************************)
EXTENDS Integers

TileType == 0 .. 33
TILE_PER_TYPE == 4

MANZU == 0
HONOR == 3

EAST  == 27
NORTH == 30
HAKU  == 31
CHUN  == 33
Winds   == EAST .. NORTH
Dragons == HAKU .. CHUN

TypeOf(tile) == tile \div TILE_PER_TYPE

Suit(type) == type \div 9

\* 1 .. 9 for a numbered type, 0 for an honor.
Number(type) == IF Suit(type) = HONOR THEN 0 ELSE (type % 9) + 1

IsYaochu(type) == Number(type) \in {0, 1, 9}

\* The types of the sequence that starts with this one, if one does.
SequenceFrom(type) == type .. (type + 2)
StartsSequence(type) == Suit(type) # HONOR /\ Number(type) <= 7

\* The type an indicator makes dora: the next of its suit, of the winds or of
\* the dragons, the last being followed by the first.
NextDoraType(indicator) ==
  CASE Suit(indicator) # HONOR -> 9 * Suit(indicator) + ((indicator + 1) % 9)
    [] indicator \in Winds     -> EAST + ((indicator - EAST + 1) % 4)
    [] indicator \in Dragons   -> HAKU + ((indicator - HAKU + 1) % 3)
=============================================================================
