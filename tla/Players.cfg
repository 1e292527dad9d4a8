SPECIFICATION Spec
CONSTANTS
  Tracks = {t1, t2}
  NoTrack = none
  Duration = 4
  Drift = 1
  EndBuffer = 2
  Snap = 1
  StartZone = 1
  EndZone = 2
  LongListen = 3
  StaleAfter = 1
  OrphanAfter = 2
  Platforms = {k1, k2}
  Sources <- AllSources
  Threshold = 3
  CloseDates = 1
  MaxTime = 6
  MaxSeeks = 1
  MaxActs = 3
CHECK_DEADLOCK FALSE
INVARIANTS
  CountsWhatWasHeard
  StaleIsDiscovered
PROPERTIES
  NothingIsLost
SYMMETRY Symmetric
