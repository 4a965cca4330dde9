SPECIFICATION FairSpec
CONSTANTS
  LiveTiles = 4
  MaxMelds = 1
  MaxDiscards = 9
  Dealer = 0
  InitialScores <- Broke
  InitialSticks = 0
  RuleSets <- KanRules
  Callers = {0, 1, 2, 3}
  Waiters = {0}
INVARIANTS
  DiscardBudget
  TurnsGoRound
PROPERTIES
  LastDiscardEndsTheRound
  RoundTerminates
CHECK_DEADLOCK FALSE
