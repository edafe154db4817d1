SPECIFICATION Spec
CONSTANTS
  NULL = NULL
  Ips = {"app", "other"}
  App = "app"
  MaxRequests = 1
  WindowSeconds = 2
  MaxClients = 1
  MaxAdmitted = 3
  MaxTasks = 1
  MaxAttempts = 1
  Timeout = 5
  PollInterval = 1
  Lateness = 1
  HttpTimeout = 1
INVARIANTS
  RateHeld
  TimeoutIsTimely
PROPERTIES
  WaitEnds
