SPECIFICATION Spec
CONSTANTS
  NULL = NULL
  Workers = {w1, w2}
  Callers = {c1, c2}
  MaxTasks = 2
  MaxAttempts = 2
  Options <- MCOptions
  Delays = {0, 1}
  StaleAfter = 1
  RetryBackoffSeconds <- MCBackoff
  DefaultRetryDelay = 1
SYMMETRY MCSymmetry
INVARIANTS
  TypeOK
  RowShape
  FailedIsExhausted
