SPECIFICATION Spec
CONSTANTS
  NULL = NULL
  MaxUsers = 3
  Names = {"lapinq", "ana"}
  DefaultName = "lapinq"
  DefaultPassword = "p1"
  Passwords = {"p1", "p2"}
  Permissions = {"empty", "emails"}
  Servers = {s1}
  Requests = {r1}
  SessionMaxAge = 1
  MaxSessions = 2
INVARIANTS
  TypeOK
  AuthorityIsRecent
  SetsCheckedPassword
