SPECIFICATION Spec
CONSTANTS
  LiveTiles = 5
  MaxMelds = 4
  MaxDiscards = 22
  Dealer = 0
  InitialScores <- Broke
  InitialSticks = 0
  RuleSets <- KanRules
  Callers = {0, 1}
  Waiters = {2}
INVARIANTS
  TypeOK
  HandsBalanced
  KanSupply
  NoKanDoraLost
  FourKansAbortAtOnce
PROPERTIES
  FourKansEndTheRound
CHECK_DEADLOCK FALSE
