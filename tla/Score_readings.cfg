SPECIFICATION Spec
CONSTANTS
  Wins <- MCWins
  RuleSets <- MCRules
  MaxWinners = 2
INVARIANTS
  ScoredAsDeclared
  NoBetterReading
  SuitsAlike
  MostFuIsWithinMangan
CHECK_DEADLOCK FALSE
