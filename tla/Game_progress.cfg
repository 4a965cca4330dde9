SPECIFICATION Spec
CONSTANTS
  InitialScore = 4000
  RuleSets <- ProgressRules
  Hands <- ProgressHands
  PaoTypes = {}
  Waiters = {1, 3}
  Declarers = {3}
  MaxHonba = 1
  LastSeat = 15
INVARIANTS
  NobodyPlaysInDebt
  OvertimeMeansNobodyWon
  RoundWithinExtension
PROPERTIES
  SeatsRotate
CHECK_DEADLOCK FALSE
