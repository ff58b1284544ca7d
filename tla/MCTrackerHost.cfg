SPECIFICATION FairSpec
CONSTANTS
  EDGE = 1
  THRESHOLD = 2
  THROW = 2
  Viewports = {6}
  RESERVATION = 1
  COOLDOWN = 2
  MaxTime = 4
  MaxPosts = 0
  MaxTickets = 0
  Providers = {1, 2}
  Pages <- HostPages
INVARIANTS ExclusiveOwner NoRepeat AnswerCounts
PROPERTIES ClaimsSettle
CHECK_DEADLOCK FALSE
