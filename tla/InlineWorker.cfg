SPECIFICATION InlineSpec
CONSTANTS
  None = None
  BatchSize = 3
  MaxRetries = 2
  Concurrency = 2
  PoolSize = 1
  RustAvailable = TRUE
INVARIANTS
  RunsPerAttempt
  BatchIsPrefix
PROPERTIES
  AnsweredIsSettled
CHECK_DEADLOCK FALSE
