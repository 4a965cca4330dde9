SPECIFICATION MSpec
CONSTANTS
  LiveTiles = 2
  MaxMelds = 1
  MaxDiscards = 7
  Dealer = 0
  InitialScores <- Broke
  InitialSticks = 0
  RuleSets <- ClaimRules
  Callers = {0, 1, 2, 3}
  Waiters = {1, 2, 3}
  Seated = {0, 1, 2, 3}
PROPERTIES
  StrongestClaimWins
  OnlyDecliningIsPunished
CHECK_DEADLOCK FALSE
