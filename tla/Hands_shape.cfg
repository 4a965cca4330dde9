SPECIFICATION Spec
CONSTANTS
  Types <- ManyTypes
  Deals <- MCDeals
  Draws = {0, 27}
  MaxSteps = 1
INVARIANTS
  CompletionAgrees
  TenpaiWaitsForSomething
  SomeTileHelps
PROPERTIES
  OneTileIsOneStep
CHECK_DEADLOCK FALSE
