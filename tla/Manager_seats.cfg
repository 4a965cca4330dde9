SPECIFICATION MFairSpec
CONSTANTS
  LiveTiles = 5
  MaxMelds = 1
  MaxDiscards = 10
  Dealer = 0
  InitialScores <- Broke
  InitialSticks = 0
  RuleSets <- SeatRules
  Callers = {0, 1, 2, 3}
  Waiters = {1}
  Seated = {0, 1, 2}
PROPERTIES
  EndsOrWaitsForEmptySeat
CHECK_DEADLOCK FALSE
