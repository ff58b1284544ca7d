SPECIFICATION Spec
CONSTANTS
  Sessions = {"s1", "s2"}
  SentKinds = {"page", "custom", "logs", "events", "hello", "feedback"}
  MaxRetries = 1
  MaxInFlight = 1
  MaxConcurrent = 1
  WINDOW = 1
  RETENTION = 0
  StorageFails = FALSE
  MaxBatches = 2
  MaxNow = 1
INVARIANT
  NotifiedOnce
PROPERTY
  ClosedStaysClosed
CONSTRAINT Scenario
