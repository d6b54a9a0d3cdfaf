\* An http target without response_path takes the body as it is.
SPECIFICATION Spec
CONSTANTS
  MaxRetries = 1
  Timeout = 2
  MaxRetryAfter = 2
  NoHeader = NoHeader
INVARIANTS
  OkIsWhole
