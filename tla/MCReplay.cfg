SPECIFICATION FairSpec
CONSTANTS
  AHEAD = 2
  PREFETCH = 1
  MAX_SPAN = 4
  TAIL = 1
  MaxSeeks = 2
  MaxResizes = 1
  Recordings <- Recorded
INVARIANTS PlayerWhole
PROPERTIES SeekLands PlaybackContinues
CHECK_DEADLOCK FALSE
