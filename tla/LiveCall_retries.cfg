\* Seven attempts, enough to reach the cap of the backoff schedule.
SPECIFICATION Spec
CONSTANTS
  MaxRetries = 6
  Timeout = 2
  MaxRetryAfter = 2
  NoHeader = NoHeader
INVARIANTS
  AttemptsExact
  ElapsedBound
  VerdictIsDue
PROPERTIES
  CallReturns
