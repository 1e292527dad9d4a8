SPECIFICATION Spec
CONSTANTS
  Devices = {d1}
  Sessions <- Launches
  AppOf <- AppNames
  MediaOf <- Media
  AllowUnknown = TRUE
  GiveUp = 2
  AppGone = 2
  StaleAfter = 3
  DeadAfter = 6
  Enough = 1
  MaxChanges = 4
CHECK_DEADLOCK FALSE
INVARIANTS
  GivenUpIsRemoved
PROPERTIES
  ReportedStays
  ListenIsKept
  PlayingIsTracked
