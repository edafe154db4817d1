SPECIFICATION FairSpec
CONSTANTS
  NULL = NULL
  RetryBackoffSeconds <- MCBackoff
  DefaultRetryDelay = 1
  Workers = {w1, w2}
  MaxTasks = 1
  MaxAttempts = 3
  Options <- MCPlain
  StaleAfter = 1
  Concurrency = 1
  TaskTimeout = 1
  Prompt = FALSE
  Outcomes = {"ok", "error"}
  Countdown = 0
  AdminOps = {"requeue"}
  FaultKinds = {"claim", "write"}
  MaxFaults = 1
  MaxSpawned = 1
  MaxOrphans = 0
PROPERTIES
  EventuallySettled
