\* One job slot and three tasks, so that the slot is full while a direct
\* download or a canceled worker runs; a worker may be late by a whole TTL, so
\* that a timer expires while the worker finishes.
SPECIFICATION FairSpec
CONSTANTS
  MaxJobs = 1
  TIMEOUT = 1
  TTL = 1
  OVERRUN = 1
  CHUNKS = 1
  MaxTasks = 3
INVARIANTS
  OnePreparation
  NoOrphanFile
  ReadyIsComplete
  NothingAfterClose
PROPERTIES
  JobsExpire
