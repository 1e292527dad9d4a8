SPECIFICATION FairSpec
CONSTANTS
  Clients = {maloja, lastfm}
  Configured = {maloja}
  Polls = {c1, c2}
  MaxStored = 4
  PollLimit = 2
  BacklogLimit = 2
  ScrobbleBacklog = TRUE
  OldestFirst = TRUE
  MaxListens = 5
  MaxFaults = 1
  MaxStarts = 2
  MaxLag = 1
PROPERTIES
  
  ListensReachClients
