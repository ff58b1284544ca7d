\* Ages are small: a visit ends after 2 idle or hidden units, mutations are
\* discarded after 1, the 2h cap is CAP units.
SPECIFICATION Spec
CONSTANTS
  TTL = 0
  IDLE = 1
  GRACE = 0
  CAP = 1
  MaxBuffer = 2
  MaxLogBuffer = 1
  RecordingEnabled = TRUE
  LogsEnabled = TRUE
  BackForwardCache = TRUE
  MaxSessions = 2
  MaxSeq = 1
  MaxLogs = 1
  MaxPages = 1
INVARIANTS
  FiledRight
  OneRecorderUntilSplit
