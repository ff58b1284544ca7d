\* Ages are small and in the order of the program's: a visit ends after 1 idle or
\* hidden unit, mutations are discarded from the first on, the 2h cap is CAP units.
SPECIFICATION FairSpec
CONSTANTS
  TTL = 1
  IDLE = 1
  GRACE = 0
  CAP = 2
  MaxBuffer = 2
  MaxLogBuffer = 2
  RecordingEnabled = TRUE
  LogsEnabled = FALSE
  BackForwardCache = FALSE
  MaxSessions = 2
  MaxSeq = 2
  MaxLogs = 0
  MaxPages = 1
INVARIANTS
  TypeOK
  NoClash
  ResyncAfterSkip
PROPERTIES
  HiddenVisitEnds
  IdleVisitEnds
