SPECIFICATION Spec
CONSTANTS
  LiveTiles = 7
  MaxMelds = 1
  MaxDiscards = 12
  Dealer = 3
  InitialScores <- Rich
  InitialSticks = 1
  RuleSets <- WinRules
  Callers = {1}
  Waiters = {0, 1, 2, 3}
INVARIANTS
  RiichiPaidOnce
  FirstGoAround
  RiichiFlagsAgree
  RobbedKanKept
  ResultConsistent
PROPERTIES
  IppatsuWindow
  DeclinedRonIsFuriten
  KeepsContract
CHECK_DEADLOCK FALSE
