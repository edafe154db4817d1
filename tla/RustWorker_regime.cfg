SPECIFICATION Spec
CONSTANTS
  NULL = NULL
  RetryBackoffSeconds <- MCBackoff
  DefaultRetryDelay = 1
  Workers = {w1, w2}
  MaxTasks = 2
  MaxAttempts = 2
  Options <- MCPlain
  StaleAfter = 2
  Concurrency = 1
  TaskTimeout = 1
  Prompt = TRUE
  Outcomes = {"ok", "error"}
  Countdown = 0
  AdminOps = {"requeue"}
  FaultKinds = {"claim", "write"}
  MaxFaults = 1
  MaxSpawned = 2
  MaxOrphans = 0
SYMMETRY MCSymmetry
INVARIANTS
  TypeOK
  SoleExecution
  SnapshotIsCurrent
PROPERTIES
  LifecycleSpec
