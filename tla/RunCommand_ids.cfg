\* Two files whose cases share an automatic id.
SPECIFICATION Spec
CONSTANTS
  Script <- TwoFiles
  MaxOverlap = 1
  Floor = 0
INVARIANTS
  ExitZeroMeansAccepted
