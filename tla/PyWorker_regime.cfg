SPECIFICATION Spec
CONSTANTS
  NULL = NULL
  Workers = {w1, w2}
  MaxTasks = 1
  MaxAttempts = 2
  Options <- MCWithTtl
  StaleAfter = 1
  RetryBackoffSeconds <- MCBackoff
  DefaultRetryDelay = 1
  Concurrency = 1
  TaskTimeout = 1
  Slack = 0
  Prompt = TRUE
  Outcomes = {"ok", "error"}
  Countdown = 0
  Delays = {0}
  AdminOps = {"cancel", "requeue", "delete", "cleanup"}
  MaxFaults = 1
  MaxOrphans = 1
SYMMETRY MCSymmetry
INVARIANTS
  TypeOK
  SoleExecution
  ExecOwnsRow
  CompletedHookIsTrue
PROPERTIES
  ReturnCostsOneAttempt
  OnlyLateWritesStray
