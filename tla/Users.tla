-------------------------------- MODULE Users --------------------------------
(***************************************************************************)
(* The accounts of the dashboard: the table lapinq_users, the session      *)
(* cookies and the handlers that use both (python/lapinq/server.py and     *)
(* storage.py).  A cookie is a signed copy of id, name and role made at    *)
(* login; no request looks the role up again, so the table may have        *)
(* changed, or the account be gone, while the cookie is still good.        *)
(*                                                                         *)
(* Signatures and password hashes are taken to be sound: only login makes  *)
(* cookies, and verifying a password compares it with the stored one.      *)
(***************************************************************************)
EXTENDS Integers, FiniteSetsExt

CONSTANTS
  NULL,
  MaxUsers,       \* bound: accounts ever created
  Names,
  DefaultName,    \* the account ensure_default_admin creates, and its password
  DefaultPassword,
  Passwords,
  Permissions,    \* values of the column permissions; "empty" is {}
  Servers,        \* servers that start beside the one that serves
  Requests,       \* concurrent calls of change_password
  SessionMaxAge,  \* SESSION_MAX_AGE
  MaxSessions     \* bound: cookies in existence

VARIABLES
  users,          \* the table lapinq_users
  nextId,         \* ids are never used again
  cookies,        \* the session cookies, expired ones too
  changing,       \* change_password calls between their two statements
  starting,       \* servers between the two statements of ensure_default_admin
  sinceAdmin      \* history: how long ago each account last had the role admin

vars == <<users, nextId, cookies, changing, starting, sinceAdmin>>

Ids == 1 .. MaxUsers
Roles == {"admin", "user"}

User == [username : Names, password : Passwords, role : Roles, permissions : Permissions]

\* exp is kept as the time left; -1 is past.
Cookie == [uid : Ids, un : Names, role : Roles, left : -1 .. SessionMaxAge]

\* checked is a history: the account whose password the call has verified.
Change == [uid : Ids, un : Names, new : Passwords, checked : Ids]

ASSUME UsersAssumption ==
  /\ MaxUsers \in Nat \ {0}
  /\ SessionMaxAge \in Nat
  /\ MaxSessions \in Nat
  /\ DefaultName \in Names
  /\ DefaultPassword \in Passwords
  /\ "empty" \in Permissions

ASSUME UsersNullAssumption == NULL \notin User \cup Change

Accounts == {u \in Ids : users[u] # NULL}

Named(n) == {u \in Accounts : users[u].username = n}

\* The history after a statement that leaves the table T, t units of time later.
Since(T, t) ==
  [u \in Ids |-> IF T[u] # NULL /\ T[u].role = "admin" THEN 0
                 ELSE Min({sinceAdmin[u] + t, SessionMaxAge + 1})]

Init ==
  /\ users = [u \in Ids |-> NULL]
  /\ nextId = 1
  /\ cookies = {}
  /\ changing = [r \in Requests |-> NULL]
  /\ starting = {}
  /\ sinceAdmin = [u \in Ids |-> SessionMaxAge + 1]

\* A statement that leaves the table T.
Write(T) ==
  /\ users' = T
  /\ sinceAdmin' = Since(T, 0)

\* INSERT INTO lapinq_users; the name is UNIQUE.
Insert(n, p, r) ==
  /\ nextId <= MaxUsers
  /\ Named(n) = {}
  /\ Write([users EXCEPT ![nextId] =
              [username |-> n, password |-> p, role |-> r, permissions |-> "empty"]])
  /\ nextId' = nextId + 1

-----------------------------------------------------------------------------
(* Startup                                                                 *)

\* ensure_default_admin: SELECT 1 FROM lapinq_users LIMIT 1.
FindNoUser(s) ==
  /\ s \notin starting
  /\ Accounts = {}
  /\ starting' = starting \cup {s}
  /\ UNCHANGED <<users, nextId, cookies, changing, sinceAdmin>>

\* Its INSERT; a duplicate name raises, and Storage.create begins again.
InsertDefault(s) ==
  /\ s \in starting
  /\ \/ Insert(DefaultName, DefaultPassword, "admin")
     \/ Named(DefaultName) # {} /\ UNCHANGED <<users, nextId, sinceAdmin>>
  /\ starting' = starting \ {s}
  /\ UNCHANGED <<cookies, changing>>

-----------------------------------------------------------------------------
(* Sessions                                                                *)

\* authenticate: the row with this name, if the password is its own.
Authenticated(n, p) == {u \in Named(n) : users[u].password = p}

SessionTooLong(u) ==
  [uid |-> u, un |-> users[u].username, role |-> users[u].role, left |-> SessionMaxAge + 1]

\* _make_session_token
Session(u) ==
  [uid |-> u, un |-> users[u].username, role |-> users[u].role, left |-> SessionMaxAge]

Login(n, p) ==
  /\ Cardinality(cookies) < MaxSessions
  /\ \E u \in Authenticated(n, p) : cookies' = cookies \cup {Session(u)}
  /\ UNCHANGED <<users, nextId, changing, starting, sinceAdmin>>

\* The browser drops its cookie; the server forgets nothing.
Logout(c) ==
  /\ cookies' = cookies \ {c}
  /\ UNCHANGED <<users, nextId, changing, starting, sinceAdmin>>

ValidForever(c) == c.left >= -1

\* _verify_session_token: payload["exp"] < time.time() is refused.
Valid(c) == c.left >= 0

-----------------------------------------------------------------------------
(* Handlers                                                                *)

\* What the handlers under /admin ask of a request.
IsAdmin(c) == Valid(c) /\ c.role = "admin"

CreateUser(c, n, p, r) ==
  /\ IsAdmin(c)
  /\ Insert(n, p, r)
  /\ UNCHANGED <<cookies, changing, starting>>

UpdateRole(c, u, r) ==
  /\ IsAdmin(c)
  /\ u \in Accounts
  /\ Write([users EXCEPT ![u].role = r])
  /\ UNCHANGED <<nextId, cookies, changing, starting>>

UpdatePermissions(c, u, p) ==
  /\ IsAdmin(c)
  /\ u \in Accounts
  /\ Write([users EXCEPT ![u].permissions = p])
  /\ UNCHANGED <<nextId, cookies, changing, starting>>

DeleteUser(c, u) ==
  /\ IsAdmin(c)
  /\ u \in Accounts
  /\ Write([users EXCEPT ![u] = NULL])
  /\ UNCHANGED <<nextId, cookies, changing, starting>>

\* change_password: the current password is checked by name.
CheckPassword(r, c, old, new) ==
  /\ changing[r] = NULL
  /\ Valid(c)
  /\ \E u \in Authenticated(c.un, old) :
       changing' = [changing EXCEPT ![r] =
                      [uid |-> c.uid, un |-> c.un, new |-> new, checked |-> u]]
  /\ UNCHANGED <<users, nextId, cookies, starting, sinceAdmin>>

TargetByName(x) == Named(x.un)

\* The rows its update_password finds: by id.
Target(x) == Accounts \cap {x.uid}

SetPassword(r) ==
  /\ changing[r] # NULL
  /\ Write([u \in Ids |-> IF u \in Target(changing[r])
                          THEN [users[u] EXCEPT !.password = changing[r].new] ELSE users[u]])
  /\ changing' = [changing EXCEPT ![r] = NULL]
  /\ UNCHANGED <<nextId, cookies, starting>>

Tick ==
  /\ cookies' = {[c EXCEPT !.left = Max({@ - 1, -1})] : c \in cookies}
  /\ sinceAdmin' = Since(users, 1)
  /\ UNCHANGED <<users, nextId, changing, starting>>

-----------------------------------------------------------------------------
AdminStep(c) ==
  \/ \E n \in Names, p \in Passwords, r \in Roles : CreateUser(c, n, p, r)
  \/ \E u \in Ids :
       \/ \E r \in Roles : UpdateRole(c, u, r)
       \/ \E p \in Permissions : UpdatePermissions(c, u, p)
       \/ DeleteUser(c, u)

Next ==
  \/ \E s \in Servers : FindNoUser(s) \/ InsertDefault(s)
  \/ \E n \in Names, p \in Passwords : Login(n, p)
  \/ \E c \in cookies : Logout(c) \/ AdminStep(c)
  \/ \E r \in Requests :
       \/ \E c \in cookies, old, new \in Passwords : CheckPassword(r, c, old, new)
       \/ SetPassword(r)
  \/ Tick

Spec == Init /\ [][Next]_vars

-----------------------------------------------------------------------------
(* Properties                                                              *)

\* The table, the cookies and the calls in flight have their types.
TypeOK ==
  /\ users \in [Ids -> User \cup {NULL}]
  /\ nextId \in 1 .. MaxUsers + 1
  /\ cookies \subseteq Cookie
  /\ changing \in [Requests -> Change \cup {NULL}]
  /\ starting \subseteq Servers
  /\ sinceAdmin \in [Ids -> 0 .. SessionMaxAge + 1]

\* An account that has lost its role, or is deleted, keeps the authority of its
\* cookies, but for no longer than a session: whoever passes the check of the
\* admin handlers was an admin of the table within the last SESSION_MAX_AGE.
AuthorityIsRecent ==
  \A c \in cookies : IsAdmin(c) => sinceAdmin[c.uid] <= SessionMaxAge

\* change_password checks a name and updates an id, with other requests in
\* between: accounts may be deleted and their names given to new ones.  It
\* never sets the password of an account whose password it has not verified.
SetsCheckedPassword ==
  \A r \in Requests : changing[r] # NULL => Target(changing[r]) \subseteq {changing[r].checked}
=============================================================================
