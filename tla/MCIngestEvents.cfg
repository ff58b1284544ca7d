SPECIFICATION Spec
CONSTANTS
  Sessions = {"s1"}
  SentKinds = {"events"}
  MaxRetries = 1
  MaxInFlight = 1
  MaxConcurrent = 0
  WINDOW = 1
  RETENTION = 1
  StorageFails = TRUE
  MaxBatches = 2
  MaxNow = 0
INVARIANTS
  AckedIsStored
  CountExact
PROPERTY
  UploadSpec
