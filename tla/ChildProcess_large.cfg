\* One unit more than two pipes and the command in between can hold: the
\* system stops, so deadlock is left to the property.
SPECIFICATION Spec
CONSTANTS
  PipeSize = 2
  PayloadSize = 6
  AnswerSize = 2
  Programs <- Filter
CHECK_DEADLOCK FALSE
PROPERTIES
  CommandReturns
