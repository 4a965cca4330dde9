SPECIFICATION FairSpec
CONSTANTS
  InitialScore = 3000
  RuleSets <- ProgressRules
  Hands <- ProgressHands
  PaoTypes = {}
  Waiters = {0, 1, 2, 3}
  Declarers = {3}
  MaxHonba = 2
  LastSeat = 15
PROPERTIES
  GameEnds
CHECK_DEADLOCK FALSE
