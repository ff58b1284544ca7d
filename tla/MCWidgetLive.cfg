SPECIFICATION FairSpec
CONSTANTS
  MaxPosts = 1
  MaxTickets = 1
  ATTEMPTS = 2
  Scenarios <- LivePages
  MaxLoads = 2
  EDGE = 1
  THRESHOLD = 2
  THROW = 2
  Viewports = {6}
PROPERTIES
  LoaderEnds
  FeedFresh
CHECK_DEADLOCK FALSE
