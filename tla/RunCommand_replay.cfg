\* One replay run of every kind of suite.
SPECIFICATION Spec
CONSTANTS
  Script <- ReplaySuites
  MaxOverlap = 1
  Floor = 0
INVARIANTS
  ReplayOffline
