\* The largest payload two pipes and the command in between can hold.
SPECIFICATION Spec
CONSTANTS
  PipeSize = 2
  PayloadSize = 5
  AnswerSize = 2
  Programs <- AllPrograms
INVARIANTS
  VerdictIsStatus
  OutputWhole
PROPERTIES
  CommandReturns
