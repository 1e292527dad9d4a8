SPECIFICATION MCSpec
CONSTANTS
  Polls = {c1, c2}
  Heart = heart
  Handlers = {h1}
  BuildsData = TRUE
  ChecksConnection = TRUE
  RequiresAuth = TRUE
  RequiresAuthInteraction = TRUE
  MaxRetries = 1
  MaxFaults = 2
  MaxRequests = 2
INVARIANT
  BlacklistIsKept
CHECK_DEADLOCK FALSE
