SPECIFICATION Spec
CONSTANTS
  NULL = NULL
  RetryBackoffSeconds <- MCBackoff
  DefaultRetryDelay = 1
  Workers = {w1}
  MaxTasks = 1
  MaxAttempts = 2
  Options <- MCWithTtl
  StaleAfter = 1
  Concurrency = 1
  TaskTimeout = 1
  Prompt = FALSE
  Outcomes = {"ok", "error", "retry"}
  Countdown = 0
  AdminOps = {"cancel", "requeue", "delete", "cleanup"}
  FaultKinds = {"claim", "write", "spawn"}
  MaxFaults = 1
  MaxSpawned = 3
  MaxOrphans = 1
INVARIANTS
  PermitsConserved
  RowsAreSound
