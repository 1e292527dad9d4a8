SPECIFICATION DeadSpec
CONSTANTS
  p1 = p1
  p2 = p2
  Plays <- Pair
  Date <- PairDates
  Listen <- PairListens
  NewFromSource = {p1}
  History = {}
  Runners = {r1}
  NoPlay = NoPlay
  MaxStored = 2
  InitialFetch = 2
  MaxRetries = 0
  RefreshEnabled = TRUE
  PromptRefresh = TRUE
  LostReplies = TRUE
  MaxFaults = 2
  MaxRequests = 0
  MaxCrashes = 1
  Workers = {heart, api}
  Heart = heart
  DeadRetries = 1
  MaxRetryFaults = 1
  MaxApiCalls = 2
INVARIANTS
  DeadLettersSettled
PROPERTIES
  RemovalsTakeTheirOwn
