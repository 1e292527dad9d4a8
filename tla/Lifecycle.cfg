SPECIFICATION Spec
CONSTANTS
  p1 = p1
  p2 = p2
  p3 = p3
  p4 = p4
  Plays <- Trio
  Date <- TrioDates
  Listen <- TrioListens
  NewFromSource = {p1}
  History = {p2}
  Runners = {r1, r2}
  NoPlay = NoPlay
  MaxStored = 2
  InitialFetch = 2
  MaxRetries = 1
  RefreshEnabled = TRUE
  PromptRefresh = TRUE
  LostReplies = FALSE
  MaxFaults = 2
  MaxRequests = 1
  MaxCrashes = 1
INVARIANTS
  TypeOK
  OneProcessor
  Conservation
  
  SortedBehindHead
PROPERTIES
  ImplementsDelivery
