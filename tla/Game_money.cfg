SPECIFICATION Spec
CONSTANTS
  InitialScore = 25000
  RuleSets <- MoneyRules
  Hands <- MoneyHands
  PaoTypes = {"DAISUUSHII"}
  Waiters = {0, 1, 2, 3}
  Declarers = {2}
  MaxHonba = 1
  LastSeat = 0
INVARIANTS
  PointsConserved
PROPERTIES
  LosersNeverGain
CHECK_DEADLOCK FALSE
