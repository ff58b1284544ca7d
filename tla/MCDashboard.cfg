\* Logs of either kind; a result of one row, and pages of logs of two.
SPECIFICATION FairSpec
CONSTANTS
  None = None
  TicketIds = {t1, t2}
  MaxMessages = 2
  MaxMoves = 2
  MaxEvents = 1
  MaxCalls = 1
  Recordings = {1, 2, 3}
  Queries = {{1, 2, 3}, {1, 3}}
  SESSION_PAGE_SIZE = 1
  MAX_CACHED_QUERIES = 1
  MaxVisits = 1
  MaxLogs = 3
  Kinds = {"error", "info"}
  Filters = {{"error"}, {"info"}}
  LOG_PAGE_SIZE = 2
  MaxPurged = 1
  MaxRestarts = 1
  MaxExports = 2
  MaxActs = 4
  WINDOW = 1
  GIVE_UP = 2
INVARIANTS
  ListIsWhole
  OneStream
  NothingLeftRunning
PROPERTY
  InboxCatchesUp
CHECK_DEADLOCK FALSE
