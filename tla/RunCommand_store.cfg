\* Three commands on one store, two of them at a time.
SPECIFICATION Spec
CONSTANTS
  Script <- History
  MaxOverlap = 2
  Floor = 1
INVARIANTS
  ExitZeroMeansAccepted
  ComparesWithNewest
  SavedIffFinished
  HistoryComplete
  ReplayOffline
