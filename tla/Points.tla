------------------------------- MODULE Points -------------------------------
(***************************************************************************)
(* From the value of a winning hand (han, fu, yakuman) to the payments it  *)
(* earns: cj4_yaku_fill_basic_points and cj4_yaku_finalize_points of       *)
(* src/src/core/state_yaku.c, which every settlement of a win goes through.*)
(***************************************************************************)
EXTENDS Integers

RoundUp100(value) == ((value + 99) \div 100) * 100

\* The yakuman a hand counts for: thirteen han make one, where the rules
\* say so.
YakumanCount(hand, rules) ==
  IF hand.yakuman = 0 /\ hand.han >= 13 /\ rules.kazoe_yakuman
    THEN 1 ELSE hand.yakuman

RoundsUpToMangan(hand, rules) ==
  \/ hand.han >= 5
  \/ hand.han = 4 /\ hand.fu >= 40
  \/ hand.han = 3 /\ hand.fu >= 70
  \/ rules.kiriage_mangan /\ (\/ hand.han = 4 /\ hand.fu = 30
                              \/ hand.han = 3 /\ hand.fu = 60)

BasicPoints(hand, rules) ==
  CASE YakumanCount(hand, rules) > 0 -> 8000 * YakumanCount(hand, rules)
    [] hand.yakuman = 0 /\ hand.han >= 13 /\ ~ rules.kazoe_yakuman -> 6000
    [] hand.yakuman = 0 /\ hand.han \in 11 .. 12 -> 6000
    [] hand.yakuman = 0 /\ hand.han \in 8 .. 10  -> 4000
    [] hand.yakuman = 0 /\ hand.han \in 6 .. 7   -> 3000
    [] hand.yakuman = 0 /\ hand.han <= 5 ->
         IF RoundsUpToMangan(hand, rules) THEN 2000
                                          ELSE hand.fu * 2 ^ (hand.han + 2)

RonPoints(base, is_dealer) == RoundUp100(base * (IF is_dealer THEN 6 ELSE 4))

\* What the dealer and each other player pay for a tsumo.
TsumoDealerPayment(base, is_dealer) ==
  IF is_dealer THEN 0 ELSE RoundUp100(base * 2)
TsumoNonDealerPayment(base, is_dealer) ==
  RoundUp100(IF is_dealer THEN base * 2 ELSE base)
=============================================================================
