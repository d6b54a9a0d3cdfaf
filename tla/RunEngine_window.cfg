\* Five cases through a window of three; the budget trips in the middle.
SPECIFICATION Spec
CONSTANTS
  NumCases = 5
  Concurrency = 3
  Grain = 2
  Budget = 4
  NoBudget = NoBudget
  MaxCost = 4
INVARIANTS
  InFlightBound
  SkippedSuffix
  SpendBound
  TickPerCase
PROPERTIES
  ImplementsSequentialRun
  EventuallyReturns
