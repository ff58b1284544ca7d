\* Ages are small: a visit ends after 2 idle or hidden units, mutations are
\* discarded after 1, the 2h cap is CAP units.
SPECIFICATION Spec
CONSTANTS
  TTL = 2
  IDLE = 2
  GRACE = 1
  CAP = 2
  MaxBuffer = 2
  MaxLogBuffer = 2
  RecordingEnabled = TRUE
  LogsEnabled = FALSE
  BackForwardCache = FALSE
  MaxSessions = 2
  MaxSeq = 2
  MaxLogs = 0
  MaxPages = 1
INVARIANT
  OneRecorder
