\* Costs below one micro-USD are dropped by the accumulator.
SPECIFICATION Spec
CONSTANTS
  NumCases = 3
  Concurrency = 1
  Grain = 2
  Budget = 2
  NoBudget = NoBudget
  MaxCost = 1
PROPERTIES
  StopsAtBudget
