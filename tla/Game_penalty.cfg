SPECIFICATION Spec
CONSTANTS
  InitialScore = 25000
  RuleSets <- OddPenalty
  Hands = {}
  PaoTypes = {}
  Waiters = {0, 1, 2, 3}
  Declarers = {}
  MaxHonba = 0
  LastSeat = 0
PROPERTIES
  PenaltyIsTheTotal
CHECK_DEADLOCK FALSE
