\* Two processes that may differ in mode and number of trials.
SPECIFICATION RSpec
CONSTANTS
  NumCases = 2
  Concurrency = 2
  Grain = 1
  Budget = 2
  NoBudget = NoBudget
  MaxCost = 4
  InputOf <- TwoInputs
  Absent = Absent
  Missed = Missed
  Failed = Failed
  MaxTrials = 2
  Answers <- TwoAnswers
  Modes <- AllModes
  MaxRuns = 2
  MaxCrashes = 1
INVARIANTS
  AnsweredIsRecorded
  ReplayReproduces
PROPERTIES
  RecordedOnce
