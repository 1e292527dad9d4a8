SPECIFICATION Spec
CONSTANTS
  p1 = p1
  p2 = p2
  p3 = p3
  p4 = p4
  Plays <- Four
  Date <- FourDates
  Listen <- FourListens
  NewFromSource = {p1, p2, p3, p4}
  History = {}
  Runners = {r1}
  NoPlay = NoPlay
  MaxStored = 1
  InitialFetch = 1
  MaxRetries = 1
  RefreshEnabled = TRUE
  PromptRefresh = TRUE
  LostReplies = TRUE
  MaxFaults = 2
  MaxRequests = 0
  MaxCrashes = 1
INVARIANTS
  DroppedOnlyIfCovered
  
