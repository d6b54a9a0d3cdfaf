\* Two cases with the same input, in flight together.
SPECIFICATION RSpec
CONSTANTS
  NumCases = 2
  Concurrency = 2
  Grain = 1
  Budget = NoBudget
  NoBudget = NoBudget
  MaxCost = 4
  InputOf <- SameInput
  Absent = Absent
  Missed = Missed
  Failed = Failed
  MaxTrials = 1
  Answers <- TwoAnswers
  Modes <- AutoReplay
  MaxRuns = 2
  MaxCrashes = 0
INVARIANTS
  ReplayReproduces
