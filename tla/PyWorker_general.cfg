SPECIFICATION FairSpec
CONSTANTS
  NULL = NULL
  Workers = {w1, w2}
  MaxTasks = 1
  MaxAttempts = 2
  Options <- MCPlain
  StaleAfter = 1
  RetryBackoffSeconds <- MCBackoff
  DefaultRetryDelay = 1
  Concurrency = 1
  TaskTimeout = 1
  Slack = 0
  Prompt = FALSE
  Outcomes = {"ok", "retry"}
  Countdown = 0
  Delays = {0}
  AdminOps = {"cancel"}
  MaxFaults = 1
  MaxOrphans = 1
INVARIANTS
  PermitsConserved
PROPERTIES
  StorageSpec
  EventuallySettled
