\* Up to three trials, four cases, three spans, five tool calls and three arms.
SPECIFICATION Spec
CONSTANTS
  NumScorers = 2
  MaxTrials = 3
  Scores <- MCScores
  TargetCosts <- MCTargetCosts
  Labels = {"x", "y", "other"}
  CaseKinds <- MCCaseKinds
  MaxCases = 4
  Floors <- MCFloors
  Tools = {"search", "verify", "refund"}
  Limits = {0, 2, 4}
  MaxCalls = 5
  NoCost = NoCost
  Absent = Absent
  NoTool = NoTool
  Spans <- MCSpans
  Missing = Missing
  MaxSpans = 3
  MatrixCases = {"c1", "c2"}
  MeanScores = {0, 1, 2, 3}
  NoMean = NoMean
  Tolerance = 1
  MaxArms = 3
  None = None
  Failed = Failed
  GradedCases <- MCGradedCases
  Outputs <- MCOutputs
  Wanted <- MCParis
  Rubrics = {"r1"}
  JudgeReplies <- MCJudgeReplies
  Embeddings <- MCEmbeddings
  JudgeThreshold = 5
  SimThreshold = 10
  Full = 10
  Rounding = 2
  TrialsGraded = {0, 1}
  CacheModes = {"auto", "replay", "live", "off"}
  MaxGrades = 2
  Unset = Unset
  Nan = Nan
  One = 2
  Inputs = {"i1","i2"}
  TargetTexts <- MCTargetTexts
  ScorerTexts <- MCScorerTexts
  RunTexts <- MCRunTexts
  Drafts <- MCDrafts
  MaxEdits = 1
  NoTrials = NoTrials
  NumIds = 3
  ResultKinds <- MCResultKinds
  OtherKinds <- MCOtherKinds
  GateLists <- MCGateLists
  Reporters = {"terminal","json"}
  Environments = {{},{"NO_COLOR"},{"dumb"},{"CLICOLOR_FORCE"},{"NO_COLOR","CLICOLOR_FORCE"}}
  NumTicks = 2
  RowTargets = {"t1","t2"}
  Summaries <- MCSummaries
  Corrupt = Corrupt
  MaxRows = 3
  SparklineRuns = 2
  Nothing = Nothing
INVARIANTS
  VerdictFollowsPolicy
  FailureIsTraceable
  CostIsBilled
  FixingHelps
  WriteOrderIrrelevant
  LastWordIsGraded
  GradesStand
  ExactIsStrictest
  RecordingFits
  RequestsAreMeant
  FullMarksAreAccepted
  ReportersAgree
  RefusalIsShown
  StreamsKeepApart
  ListingIsHistory
  LinksKeepTheirWord
PROPERTIES
  CasesCountOnce
  RulesSettle
  NewArmGivesNoWins
