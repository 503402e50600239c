SPECIFICATION FairSpec
CONSTANTS
  WindowSize = 2
  TotalBudget = 5
  RecentBudget = 3
  MaxIterations = 2
  RecursionLimit = 5
  Layers = {1}
  Sizes = {1, 2}
  MaxHistory = 3
  MaxCalls = 2
  MaxPieces = 1
  None = None
CHECK_DEADLOCK FALSE
INVARIANTS PromptIsValid StreamIsWellFormed NeverOutOfSteps
PROPERTIES PromptIsLongestFit EveryRequestEnds
