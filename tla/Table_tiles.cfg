SPECIFICATION TableSpec
CONSTANTS
  LiveTiles = 8
  MaxMelds = 4
  MaxDiscards = 86
  Dealer = 0
  InitialScores <- MCScores
  InitialSticks = 0
  RuleSets <- MCRules
  Callers = {1}
  Waiters = {1}
  Deals <- MCDeals
  KuikaeForbidden = TRUE
  Complete <- IsComplete
  Kokushi <- IsKokushi
INVARIANTS
  TilesAgree
  CallerCanDiscard
PROPERTIES
  LiabilityNamed
  ViewOnlyGrows
CHECK_DEADLOCK FALSE
