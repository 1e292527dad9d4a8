SPECIFICATION FairDeadSpec
CONSTANTS
  p1 = p1
  p2 = p2
  Plays <- Pair
  Date <- PairDates
  Listen <- PairListens
  NewFromSource = {}
  History = {}
  Runners = {r1, r2}
  NoPlay = NoPlay
  MaxStored = 2
  InitialFetch = 2
  MaxRetries = 0
  RefreshEnabled = TRUE
  PromptRefresh = TRUE
  LostReplies = FALSE
  MaxFaults = 2
  MaxRequests = 1
  MaxCrashes = 0
  Workers = {heart}
  Heart = heart
  DeadRetries = 1
  MaxRetryFaults = 2
  MaxApiCalls = 0
INVARIANTS
  TriesBounded
PROPERTIES
  DeadLettersRetried
  ClientRecovers
  AnnouncedIsDequeued
