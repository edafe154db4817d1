---------------------------- MODULE Server_proofs ----------------------------
(***************************************************************************)
(* What the server keeps beside the queue, for any number of accounts,     *)
(* sessions, servers, requests, browsers, filters, changes, items, retries *)
(* and threads.                                                            *)
(*                                                                         *)
(* Accounts (Users): the table and the cookies are well typed, a cookie    *)
(* gives no authority that the table did not give within a session, and    *)
(* change_password sets no password it has not verified.                   *)
(*                                                                         *)
(* The live feed (DashboardFeed): a round of _send shows the table at      *)
(* least as it was when the round began.  What a statement has read since  *)
(* then is at least as new, whatever changed between the two statements;   *)
(* and what is equal to what was sent last may be held back, unless the    *)
(* filter was set since, when last is for another filter.                  *)
(*                                                                         *)
(* Batches (InlineWorker): what a batch inserts is a prefix of it, and the *)
(* fallback from the Rust to the Python executor calls a function at most  *)
(* twice in an attempt.                                                    *)
(***************************************************************************)
EXTENDS Users, DashboardFeed, InlineWorker, TLAPS

-----------------------------------------------------------------------------
(* Accounts                                                                *)


\* The minimum and the maximum of two numbers.
LEMMA TwoNumbers ==
  ASSUME NEW a \in Int, NEW b \in Int
  PROVE  /\ Min({a, b}) = IF a <= b THEN a ELSE b
         /\ Max({a, b}) = IF a >= b THEN a ELSE b
<1>1. ASSUME NEW m \in {a, b}, \A y \in {a, b} : m <= y PROVE m = IF a <= b THEN a ELSE b
  BY <1>1
<1>2. ASSUME NEW m \in {a, b}, \A y \in {a, b} : m >= y PROVE m = IF a >= b THEN a ELSE b
  BY <1>2
<1>3. \E m \in {a, b} : \A y \in {a, b} : m <= y
  BY a <= b \/ b <= a
<1>4. \E m \in {a, b} : \A y \in {a, b} : m >= y
  BY a <= b \/ b <= a
<1> QED  BY <1>1, <1>2, <1>3, <1>4 DEF Min, Max


\* The history is exact for admins of the table, ids are not used again, names
\* are unique and never change: a cookie's name is still the name of its
\* account, if that is there, and a change of password is for the account that
\* was checked, or for one that is gone for good.
UInv ==
  /\ TypeOK
  /\ \A u \in Ids : u >= nextId => users[u] = NULL
  /\ \A u, v \in Accounts : users[u].username = users[v].username => u = v
  /\ \A u \in Ids : users[u] # NULL /\ users[u].role = "admin" => sinceAdmin[u] = 0
  /\ \A c \in cookies :
       /\ c.uid < nextId
       /\ users[c.uid] # NULL => users[c.uid].username = c.un
       /\ c.role = "admin" /\ c.left >= 0 => sinceAdmin[c.uid] + c.left <= SessionMaxAge
  /\ \A r \in Requests : changing[r] # NULL =>
       /\ changing[r].uid < nextId
       /\ users[changing[r].uid] = NULL \/ changing[r].uid = changing[r].checked

\* The history after a statement, or a unit of time later.
LEMMA SinceType ==
  ASSUME TypeOK, NEW T, NEW t \in {0, 1}
  PROVE  /\ Since(T, t) \in [Ids -> 0 .. SessionMaxAge + 1]
         /\ \A u \in Ids : /\ Since(T, t)[u] <= sinceAdmin[u] + t
                           /\ T[u] # NULL /\ T[u].role = "admin" => Since(T, t)[u] = 0
<1>1. ASSUME NEW u \in Ids
      PROVE  /\ Min({sinceAdmin[u] + t, SessionMaxAge + 1}) \in 0 .. SessionMaxAge + 1
             /\ Min({sinceAdmin[u] + t, SessionMaxAge + 1}) <= sinceAdmin[u] + t
             /\ sinceAdmin[u] \in Nat
  <2>1. sinceAdmin[u] \in 0 .. SessionMaxAge + 1 /\ SessionMaxAge \in Nat
    BY UsersAssumption DEF TypeOK
  <2>2. sinceAdmin[u] + t \in Int /\ SessionMaxAge + 1 \in Int
    BY <2>1
  <2>3. Min({sinceAdmin[u] + t, SessionMaxAge + 1}) =
          IF sinceAdmin[u] + t <= SessionMaxAge + 1 THEN sinceAdmin[u] + t ELSE SessionMaxAge + 1
    BY <2>2, TwoNumbers
  <2> QED  BY <2>1, <2>3
<1>2. \A u \in Ids : Since(T, t)[u] = IF T[u] # NULL /\ T[u].role = "admin" THEN 0
                                      ELSE Min({sinceAdmin[u] + t, SessionMaxAge + 1})
  BY DEF Since
<1>3. 0 \in 0 .. SessionMaxAge + 1
  BY UsersAssumption
<1> QED  BY <1>1, <1>2, <1>3 DEF Since

\* A statement on the table that keeps the names of the accounts it leaves, and
\* inserts at most an account with a new id and a new name.
LEMMA WriteStep ==
  ASSUME UInv, NEW T \in [Ids -> User \cup {NULL}], Write(T),
         UNCHANGED cookies, starting' \subseteq Servers,
         changing' \in [Requests -> Change \cup {NULL}],
         \A r \in Requests : changing'[r] = NULL \/ changing'[r] = changing[r],
         nextId' \in {nextId, nextId + 1}, nextId' \in 1 .. MaxUsers + 1,
         \A u \in Ids : \/ T[u] = NULL
                        \/ users[u] # NULL /\ T[u] # NULL /\ T[u].username = users[u].username
                        \/ /\ u = nextId /\ nextId' = nextId + 1 /\ T[u] # NULL
                           /\ Named(T[u].username) = {}
  PROVE  UInv'
<1>0. TypeOK /\ nextId \in Nat /\ nextId <= nextId' /\ nextId' \in Nat
  BY DEF UInv, TypeOK
<1>1. users' = T /\ sinceAdmin' = Since(T, 0)
  BY DEF Write
<1>2. TypeOK'
  <2>1. sinceAdmin' \in [Ids -> 0 .. SessionMaxAge + 1]
    BY <1>0, <1>1, SinceType
  <2> QED  BY <1>0, <1>1, <2>1 DEF TypeOK
<1>3. \A u \in Ids : u \in Nat
  BY UsersAssumption DEF Ids
<1>4. \A u \in Ids : u >= nextId' => T[u] = NULL
  BY <1>0, <1>3 DEF UInv
<1>5. ASSUME NEW u \in Ids, NEW v \in Ids, T[u] # NULL, T[v] # NULL,
             T[u].username = T[v].username
      PROVE  u = v
  BY <1>5 DEF UInv, Named, Accounts
<1>6. \A u \in Ids : T[u] # NULL /\ T[u].role = "admin" => sinceAdmin'[u] = 0
  BY <1>0, <1>1, SinceType
<1>7. ASSUME NEW c \in cookies
      PROVE  /\ c.uid < nextId'
             /\ T[c.uid] # NULL => T[c.uid].username = c.un
             /\ c.role = "admin" /\ c.left >= 0 => sinceAdmin'[c.uid] + c.left <= SessionMaxAge
  <2>1. c \in Cookie /\ c.uid \in Ids /\ c.left \in Int /\ c.uid \in Nat
    BY <1>0, <1>3 DEF TypeOK, Cookie
  <2>2. c.uid < nextId
    BY DEF UInv
  <2>3. c.uid < nextId' /\ (T[c.uid] # NULL => T[c.uid].username = c.un)
    BY <1>0, <2>1, <2>2 DEF UInv
  <2>4. /\ sinceAdmin'[c.uid] <= sinceAdmin[c.uid] + 0
        /\ sinceAdmin'[c.uid] \in Int /\ sinceAdmin[c.uid] \in Int /\ SessionMaxAge \in Int
    BY <1>0, <1>1, <1>2, <2>1, SinceType, UsersAssumption DEF TypeOK
  <2>5. c.role = "admin" /\ c.left >= 0 => sinceAdmin[c.uid] + c.left <= SessionMaxAge
    BY DEF UInv
  <2> QED  BY <2>1, <2>3, <2>4, <2>5
<1>8. ASSUME NEW r \in Requests, changing'[r] # NULL
      PROVE  /\ changing'[r].uid < nextId'
             /\ T[changing'[r].uid] = NULL \/ changing'[r].uid = changing'[r].checked
  <2>1. changing'[r] = changing[r] /\ changing[r] \in Change /\ changing[r] # NULL
    BY <1>0, <1>8 DEF TypeOK
  <2>2. changing[r].uid \in Ids /\ changing[r].uid < nextId /\ changing[r].uid \in Nat
    BY <1>3, <2>1 DEF UInv, Change
  <2>3. users[changing[r].uid] = NULL \/ changing[r].uid = changing[r].checked
    BY <2>1 DEF UInv
  <2> QED  BY <1>0, <2>1, <2>2, <2>3
<1> QED  BY <1>1, <1>2, <1>4, <1>5, <1>6, <1>7, <1>8 DEF UInv, Accounts


\* An INSERT of an account with a name that is free.
LEMMA InsertStep ==
  ASSUME UInv, NEW n \in Names, NEW p \in Passwords, NEW role \in Roles,
         Insert(n, p, role), UNCHANGED <<cookies, changing>>, starting' \subseteq Servers
  PROVE  UInv'
<1> DEFINE new == [username |-> n, password |-> p, role |-> role, permissions |-> "empty"]
           T == [users EXCEPT ![nextId] = new]
<1>0. TypeOK
  BY DEF UInv
<1>1. nextId \in Ids /\ nextId' = nextId + 1 /\ nextId' \in 1 .. MaxUsers + 1
  BY <1>0, UsersAssumption DEF Insert, TypeOK, Ids
<1>2. new \in User /\ new # NULL
  BY UsersAssumption, UsersNullAssumption DEF User
<1>3. T \in [Ids -> User \cup {NULL}] /\ \A u \in Ids : T[u] = IF u = nextId THEN new ELSE users[u]
  BY <1>0, <1>2 DEF TypeOK
<1>4. Write(T) /\ Named(n) = {}
  BY DEF Insert
<1>5. ASSUME NEW u \in Ids
      PROVE  \/ T[u] = NULL
             \/ users[u] # NULL /\ T[u] # NULL /\ T[u].username = users[u].username
             \/ /\ u = nextId /\ nextId' = nextId + 1 /\ T[u] # NULL
                /\ Named(T[u].username) = {}
  BY <1>1, <1>2, <1>3, <1>4
<1>6. changing' \in [Requests -> Change \cup {NULL}]
  BY <1>0 DEF TypeOK
<1> HIDE DEF T
<1> QED  BY <1>1, <1>3, <1>4, <1>5, <1>6, WriteStep

\* The handlers of an admin that update or delete an account.
LEMMA AccountStep ==
  ASSUME UInv, NEW T \in [Ids -> User \cup {NULL}], Write(T),
         UNCHANGED <<nextId, cookies, changing, starting>>,
         \A u \in Ids : \/ T[u] = NULL \/ T[u] = users[u]
                        \/ users[u] # NULL /\ T[u].username = users[u].username
  PROVE  UInv'
<1>0. TypeOK
  BY DEF UInv
<1>1. /\ starting' \subseteq Servers /\ changing' \in [Requests -> Change \cup {NULL}]
      /\ nextId' \in 1 .. MaxUsers + 1
  BY <1>0 DEF TypeOK
<1> QED  BY <1>1, WriteStep

\* The handlers under /admin.
LEMMA AdminUInv ==
  ASSUME UInv, NEW c \in cookies, AdminStep(c)
  PROVE  UInv'
<1>0. TypeOK
  BY DEF UInv
<1>1. ASSUME NEW n \in Names, NEW p \in Passwords, NEW r \in Roles, CreateUser(c, n, p, r)
      PROVE  UInv'
  BY <1>0, <1>1, InsertStep DEF CreateUser, TypeOK
<1>2. ASSUME NEW u \in Ids, NEW r \in Roles, UpdateRole(c, u, r) PROVE UInv'
  <2> DEFINE T == [users EXCEPT ![u].role = r]
  <2>1. users[u] # NULL /\ users[u] \in User /\ Write(T)
    BY <1>0, <1>2 DEF UpdateRole, Accounts, TypeOK
  <2>2. [users[u] EXCEPT !.role = r] \in User
    BY <2>1 DEF User
  <2>3. [users[u] EXCEPT !.role = r].username = users[u].username
    BY <2>1 DEF User
  <2>4. /\ T \in [Ids -> User \cup {NULL}]
        /\ \A v \in Ids : T[v] = IF v = u THEN [users[u] EXCEPT !.role = r] ELSE users[v]
    BY <1>0, <2>2 DEF TypeOK
  <2> HIDE DEF T
  <2> QED  BY <1>2, <2>1, <2>3, <2>4, AccountStep DEF UpdateRole
<1>3. ASSUME NEW u \in Ids, NEW p \in Permissions, UpdatePermissions(c, u, p) PROVE UInv'
  <2> DEFINE T == [users EXCEPT ![u].permissions = p]
  <2>1. users[u] # NULL /\ users[u] \in User /\ Write(T)
    BY <1>0, <1>3 DEF UpdatePermissions, Accounts, TypeOK
  <2>2. [users[u] EXCEPT !.permissions = p] \in User
    BY <2>1 DEF User
  <2>3. [users[u] EXCEPT !.permissions = p].username = users[u].username
    BY <2>1 DEF User
  <2>4. /\ T \in [Ids -> User \cup {NULL}]
        /\ \A v \in Ids : T[v] = IF v = u THEN [users[u] EXCEPT !.permissions = p] ELSE users[v]
    BY <1>0, <2>2 DEF TypeOK
  <2> HIDE DEF T
  <2> QED  BY <1>3, <2>1, <2>3, <2>4, AccountStep DEF UpdatePermissions
<1>4. ASSUME NEW u \in Ids, DeleteUser(c, u) PROVE UInv'
  <2> DEFINE T == [users EXCEPT ![u] = NULL]
  <2>1. /\ T \in [Ids -> User \cup {NULL}]
        /\ \A v \in Ids : T[v] = IF v = u THEN NULL ELSE users[v]
    BY <1>0 DEF TypeOK
  <2>2. Write(T)
    BY <1>4 DEF DeleteUser
  <2> HIDE DEF T
  <2> QED  BY <1>4, <2>1, <2>2, AccountStep DEF DeleteUser
<1> QED  BY <1>1, <1>2, <1>3, <1>4 DEF AdminStep

\* ensure_default_admin of a server that starts.
LEMMA StartUInv ==
  ASSUME UInv, NEW s \in Servers, FindNoUser(s) \/ InsertDefault(s)
  PROVE  UInv'
<1>0. TypeOK
  BY DEF UInv
<1>1. CASE FindNoUser(s)
  BY <1>0, <1>1 DEF FindNoUser, UInv, TypeOK, Accounts
<1>2. CASE InsertDefault(s) /\ UNCHANGED <<users, nextId, sinceAdmin>>
  BY <1>0, <1>2 DEF InsertDefault, UInv, TypeOK, Accounts
<1>3. CASE InsertDefault(s) /\ Insert(DefaultName, DefaultPassword, "admin")
  <2>1. UNCHANGED <<cookies, changing>> /\ starting' \subseteq Servers
    BY <1>0, <1>3 DEF InsertDefault, TypeOK
  <2>2. "admin" \in Roles /\ DefaultName \in Names /\ DefaultPassword \in Passwords
    BY UsersAssumption DEF Roles
  <2> QED  BY <1>3, <2>1, <2>2, InsertStep
<1> QED  BY <1>1, <1>2, <1>3 DEF InsertDefault

\* Login makes a cookie for an account of the table; logout forgets one.
LEMMA SessionUInv ==
  ASSUME UInv, \/ \E n \in Names, p \in Passwords : Login(n, p)
               \/ \E c \in cookies : Logout(c)
  PROVE  UInv'
<1>0. TypeOK /\ UNCHANGED <<users, nextId, changing, starting, sinceAdmin>>
  BY DEF UInv, Login, Logout
<1>1. ASSUME NEW c \in cookies'
      PROVE  /\ c \in Cookie
             /\ c.uid < nextId
             /\ users[c.uid] # NULL => users[c.uid].username = c.un
             /\ c.role = "admin" /\ c.left >= 0 => sinceAdmin[c.uid] + c.left <= SessionMaxAge
  <2>1. CASE c \in cookies
    BY <1>0, <2>1 DEF UInv, TypeOK
  <2>2. CASE c \notin cookies
    <3>1. PICK u \in Ids : users[u] # NULL /\ c = Session(u)
      BY <2>2 DEF Login, Logout, Authenticated, Named, Accounts
    <3>2. users[u] \in User /\ SessionMaxAge \in Nat
      BY <1>0, <3>1, UsersAssumption DEF TypeOK
    <3>3. /\ c.uid = u /\ c.un = users[u].username /\ c.role = users[u].role
          /\ c.left = SessionMaxAge
      BY <3>1 DEF Session
    <3>4. c \in Cookie
      BY <3>1, <3>2 DEF Session, Cookie, User
    <3>5. u \in Nat /\ nextId \in Nat
      BY <1>0, UsersAssumption DEF Ids, TypeOK
    <3>6. u < nextId
      BY <3>1, <3>5 DEF UInv
    <3>7. c.role = "admin" => sinceAdmin[c.uid] = 0
      BY <3>1, <3>3 DEF UInv
    <3> QED  BY <3>2, <3>3, <3>4, <3>6, <3>7
  <2> QED  BY <2>1, <2>2
<1>2. TypeOK'
  BY <1>0, <1>1 DEF TypeOK
<1> QED  BY <1>0, <1>1, <1>2 DEF UInv, Accounts

\* change_password: a name is checked, an id is kept.
LEMMA CheckUInv ==
  ASSUME UInv, NEW q \in Requests, NEW c \in cookies, NEW old \in Passwords,
         NEW new \in Passwords, CheckPassword(q, c, old, new)
  PROVE  UInv'
<1>0. TypeOK /\ UNCHANGED <<users, nextId, cookies, starting, sinceAdmin>>
  BY DEF UInv, CheckPassword
<1>1. PICK u \in Authenticated(c.un, old) :
        changing' = [changing EXCEPT ![q] = [uid |-> c.uid, un |-> c.un, new |-> new, checked |-> u]]
  BY DEF CheckPassword
<1> DEFINE x == [uid |-> c.uid, un |-> c.un, new |-> new, checked |-> u]
<1>2. u \in Ids /\ users[u] # NULL /\ users[u].username = c.un
  BY DEF Authenticated, Named, Accounts
<1>3. c \in Cookie /\ c.uid \in Ids /\ c.un \in Names
  BY <1>0 DEF TypeOK, Cookie
<1>4. x \in Change
  BY <1>2, <1>3 DEF Change
<1>5. x.uid < nextId
  BY DEF UInv
<1>6. users[x.uid] = NULL \/ x.uid = x.checked
  BY <1>2, <1>3 DEF UInv, Accounts
<1>7. \A r \in Requests : changing'[r] = IF r = q THEN x ELSE changing[r]
  BY <1>0, <1>1 DEF TypeOK
<1>8. TypeOK'
  BY <1>0, <1>1, <1>4 DEF TypeOK
<1> HIDE DEF x
<1> QED  BY <1>0, <1>5, <1>6, <1>7, <1>8 DEF UInv, Accounts

\* update_password, by the id.
LEMMA SetUInv ==
  ASSUME UInv, NEW q \in Requests, SetPassword(q)
  PROVE  UInv'
<1>0. TypeOK
  BY DEF UInv
<1> DEFINE T == [u \in Ids |-> IF u \in Target(changing[q])
                               THEN [users[u] EXCEPT !.password = changing[q].new] ELSE users[u]]
<1>1. Write(T) /\ UNCHANGED <<nextId, cookies, starting>>
  BY DEF SetPassword
<1>2. changing[q] \in Change /\ changing[q].new \in Passwords
  BY <1>0 DEF SetPassword, TypeOK, Change
<1>3. ASSUME NEW u \in Ids, users[u] # NULL
      PROVE  /\ [users[u] EXCEPT !.password = changing[q].new] \in User
             /\ [users[u] EXCEPT !.password = changing[q].new].username = users[u].username
  <2>1. users[u] \in User
    BY <1>0, <1>3 DEF TypeOK
  <2> QED  BY <1>2, <2>1 DEF User
<1>4. \A u \in Ids : u \in Target(changing[q]) => users[u] # NULL
  BY DEF Target, Accounts
<1>5. T \in [Ids -> User \cup {NULL}]
  BY <1>0, <1>3, <1>4 DEF TypeOK
<1>6. \A u \in Ids : \/ T[u] = NULL
                     \/ users[u] # NULL /\ T[u] # NULL /\ T[u].username = users[u].username
  BY <1>0, <1>3, <1>4, UsersNullAssumption DEF TypeOK
<1>7. /\ changing' \in [Requests -> Change \cup {NULL}]
      /\ \A r \in Requests : changing'[r] = NULL \/ changing'[r] = changing[r]
  BY <1>0 DEF SetPassword, TypeOK
<1>8. starting' \subseteq Servers /\ nextId' \in 1 .. MaxUsers + 1
  BY <1>0, <1>1 DEF TypeOK
<1> HIDE DEF T
<1> QED  BY <1>1, <1>5, <1>6, <1>7, <1>8, WriteStep

\* Time passes: a cookie has one unit less, an account that is no admin of the
\* table has been none for one unit more.
LEMMA TickUInv ==
  ASSUME UInv, Tick
  PROVE  UInv'
<1>0. TypeOK /\ UNCHANGED <<users, nextId, changing, starting>> /\ SessionMaxAge \in Nat
  BY UsersAssumption DEF UInv, Tick
<1>1. /\ sinceAdmin' \in [Ids -> 0 .. SessionMaxAge + 1]
      /\ \A u \in Ids : /\ sinceAdmin'[u] <= sinceAdmin[u] + 1
                        /\ users[u] # NULL /\ users[u].role = "admin" => sinceAdmin'[u] = 0
  BY <1>0, SinceType DEF Tick
<1>2. ASSUME NEW d \in cookies'
      PROVE  /\ d \in Cookie
             /\ d.uid < nextId
             /\ users[d.uid] # NULL => users[d.uid].username = d.un
             /\ d.role = "admin" /\ d.left >= 0 => sinceAdmin'[d.uid] + d.left <= SessionMaxAge
  <2>1. PICK c \in cookies : d = [c EXCEPT !.left = Max({@ - 1, -1})]
    BY DEF Tick
  <2>2. c \in Cookie /\ c.left \in -1 .. SessionMaxAge /\ c.left \in Int /\ c.uid \in Ids
    BY <1>0, <2>1 DEF TypeOK, Cookie
  <2>3. Max({c.left - 1, -1}) = IF c.left - 1 >= -1 THEN c.left - 1 ELSE -1
    <3>1. c.left - 1 \in Int /\ -1 \in Int
      BY <2>2
    <3> QED  BY <3>1, TwoNumbers
  <2>4. Max({c.left - 1, -1}) \in -1 .. SessionMaxAge
    BY <1>0, <2>2, <2>3
  <2>5. /\ d \in Cookie /\ d.uid = c.uid /\ d.un = c.un /\ d.role = c.role
        /\ d.left = Max({c.left - 1, -1})
    BY <2>1, <2>2, <2>4 DEF Cookie
  <2>6. c.role = "admin" /\ c.left >= 0 => sinceAdmin[c.uid] + c.left <= SessionMaxAge
    BY DEF UInv
  <2>7. sinceAdmin[c.uid] \in Int /\ sinceAdmin'[c.uid] \in Int
        /\ sinceAdmin'[c.uid] <= sinceAdmin[c.uid] + 1
    BY <1>0, <1>1, <2>2 DEF TypeOK
  <2>8. c.role = "admin" /\ d.left >= 0 => sinceAdmin'[c.uid] + d.left <= SessionMaxAge
    BY <1>0, <2>2, <2>3, <2>5, <2>6, <2>7
  <2>9. c.uid < nextId /\ (users[c.uid] # NULL => users[c.uid].username = c.un)
    BY DEF UInv
  <2> QED  BY <2>5, <2>8, <2>9
<1>3. TypeOK'
  BY <1>0, <1>1, <1>2 DEF TypeOK
<1> QED  BY <1>0, <1>1, <1>2, <1>3 DEF UInv, Accounts


\* No account, no cookie and no call: the invariant holds at the beginning.
LEMMA InitUInv == Init => UInv
<1> SUFFICES ASSUME Init PROVE UInv
  OBVIOUS
<1>1. 1 \in 1 .. MaxUsers + 1 /\ SessionMaxAge + 1 \in 0 .. SessionMaxAge + 1
  BY UsersAssumption
<1>2. TypeOK
  BY <1>1 DEF Init, TypeOK
<1> QED  BY <1>2 DEF Init, UInv, Accounts

\* Every request, every step of a server that starts and every unit of time
\* keeps the invariant.
LEMMA NextUInv == UInv /\ [Next]_vars => UInv'
<1> SUFFICES ASSUME UInv, [Next]_vars PROVE UInv'
  OBVIOUS
<1>1. CASE UNCHANGED vars
  BY <1>1 DEF UInv, TypeOK, Accounts, vars
<1>2. CASE Next
  BY <1>2, StartUInv, SessionUInv, AdminUInv, CheckUInv, SetUInv, TickUInv DEF Next
<1> QED  BY <1>1, <1>2

\* The accounts, the cookies and the calls in flight keep their types.
THEOREM UsersTypeOK == Spec => []TypeOK
<1>1. UInv => TypeOK
  BY DEF UInv
<1> QED  BY <1>1, InitUInv, NextUInv, PTL DEF Spec

\* Whoever passes the check of the admin handlers was an admin of the table
\* within the last SESSION_MAX_AGE, however long ago the cookie was made and
\* whatever happened to the account: a cookie's age and the time since the
\* account lost its role never add up to more than a session.
THEOREM AuthorityExpires == Spec => []AuthorityIsRecent
<1>1. UInv => AuthorityIsRecent
  <2> SUFFICES ASSUME UInv, NEW c \in cookies, IsAdmin(c)
               PROVE  sinceAdmin[c.uid] <= SessionMaxAge
    BY DEF AuthorityIsRecent
  <2>1. c \in Cookie /\ c.left \in Int /\ c.uid \in Ids
    BY DEF UInv, TypeOK, Cookie
  <2>2. sinceAdmin[c.uid] \in Int /\ SessionMaxAge \in Int
    BY <2>1, UsersAssumption DEF UInv, TypeOK
  <2>3. sinceAdmin[c.uid] + c.left <= SessionMaxAge /\ c.left >= 0
    BY DEF UInv, IsAdmin, Valid
  <2> QED  BY <2>1, <2>2, <2>3
<1> QED  BY <1>1, InitUInv, NextUInv, PTL DEF Spec

\* change_password sets no password it has not verified, although it checks a
\* name and updates an id, and accounts are deleted and names reused between.
THEOREM PasswordsAreVerified == Spec => []SetsCheckedPassword
<1>1. UInv => SetsCheckedPassword
  BY DEF UInv, SetsCheckedPassword, Target, Accounts
<1> QED  BY <1>1, InitUInv, NextUInv, PTL DEF Spec

-----------------------------------------------------------------------------
(* The live feed of the dashboard                                          *)

Shown == [filter : Filters, cards : Nat, rows : Nat]

Coroutine ==
  [pc : {"closed", "auth", "send", "stats", "tasks", "loop", "armed", "waiting"},
   filter : Filters, inbox : Filters \cup {"none"}, cards : Nat, rows : Nat,
   changed : BOOLEAN, last : Shown, woken : BOOLEAN, found : BOOLEAN, base : Nat]

\* A coroutine over a table of t changes.
GoodSocket(x, t) ==
  /\ x \in Coroutine
  /\ x.base <= t
  /\ x.changed \/ x.last.filter = x.filter
  /\ x.pc = "stats" /\ x.filter \in IdFilters => x.rows >= x.base
  /\ x.pc = "tasks" /\ x.filter \notin IdFilters => x.cards >= x.base
  /\ x.pc = "loop" => x.last.filter = x.filter /\ x.last.cards >= x.base /\ x.last.rows >= x.base

FInv ==
  /\ table \in Nat /\ event \in BOOLEAN
  /\ sock \in [Sockets -> Coroutine]
  /\ \A s \in Sockets : GoodSocket(sock[s], table)

\* A coroutine that is closed, waits to be authenticated or may send.
LEMMA FreshIsGood ==
  ASSUME NEW pc \in {"closed", "auth", "send"}, NEW t \in Nat
  PROVE  GoodSocket([Fresh EXCEPT !.pc = pc], t) /\ GoodSocket(Fresh, t)
<1>1. NoFilter \in Filters
  BY FeedAssumption
<1>2. [filter |-> NoFilter, cards |-> 0, rows |-> 0] \in Shown
  BY <1>1 DEF Shown
<1>3. Fresh \in Coroutine /\ [Fresh EXCEPT !.pc = pc] \in Coroutine
  BY <1>1, <1>2 DEF Fresh, Coroutine
<1> QED  BY <1>3 DEF GoodSocket, Fresh

\* A later table leaves a coroutine good.
LEMMA GoodLater ==
  ASSUME NEW x, NEW t \in Nat, GoodSocket(x, t)
  PROVE  GoodSocket(x, t + 1)
<1>1. x.base \in Nat
  BY DEF GoodSocket, Coroutine
<1> QED  BY <1>1 DEF GoodSocket

\* Comparing with what was sent last never holds back news: when both fragments
\* are as new as the round, so is what the browser shows after it.
LEMMA SentIsGood ==
  ASSUME NEW x \in Coroutine, NEW t \in Nat, x.base <= t,
         x.changed \/ x.last.filter = x.filter,
         x.cards >= x.base, x.rows >= x.base
  PROVE  GoodSocket(Sent(x), t)
<1>0. /\ x.last \in Shown /\ x.filter \in Filters /\ x.cards \in Nat /\ x.rows \in Nat
      /\ x.base \in Nat /\ x.changed \in BOOLEAN
  BY DEF Coroutine
<1> DEFINE new == [filter |-> x.filter, cards |-> x.cards, rows |-> x.rows]
           last == IF Different(x) THEN new ELSE x.last
<1>1. new \in Shown /\ new.filter = x.filter /\ new.cards = x.cards /\ new.rows = x.rows
  BY <1>0 DEF Shown
<1>2. /\ last \in Shown
      /\ last.filter = x.filter /\ last.cards = x.cards /\ last.rows = x.rows
  <2>1. CASE Different(x)
    BY <1>1, <2>1
  <2>2. CASE ~Different(x)
    <3>1. x.last.cards = x.cards /\ x.last.rows = x.rows /\ ~x.changed
      BY <2>2 DEF Different
    <3> QED  BY <1>0, <2>2, <3>1
  <2> QED  BY <2>1, <2>2
<1> HIDE DEF last, new
<1> DEFINE y == [x EXCEPT !.pc = "loop", !.changed = FALSE, !.cards = 0, !.rows = 0, !.last = last]
<1>3. Sent(x) = y
  BY DEF Sent, last, new
<1>4. /\ y \in Coroutine /\ y.pc = "loop" /\ y.last = last /\ y.base = x.base
      /\ y.filter = x.filter
  BY <1>2 DEF Coroutine
<1> HIDE DEF y
<1>5. GoodSocket(y, t)
  BY <1>0, <1>2, <1>4 DEF GoodSocket
<1> QED  BY <1>3, <1>5

\* A step of one coroutine that leaves it good keeps the invariant.
LEMMA BecomeKeeps ==
  ASSUME FInv, NEW s \in Sockets, NEW x, Become(s, x), GoodSocket(x, table), UNCHANGED table,
         event' \in BOOLEAN
  PROVE  FInv'
<1>1. x \in Coroutine
  BY DEF GoodSocket
<1>2. sock' = [sock EXCEPT ![s] = x] /\ sock' \in [Sockets -> Coroutine]
  BY <1>1 DEF Become, FInv
<1>3. ASSUME NEW q \in Sockets PROVE GoodSocket(sock'[q], table)
  BY <1>2 DEF FInv
<1> QED  BY <1>2, <1>3 DEF FInv

\* The steps that do not read the table: the loop and the messages.
LEMMA LoopKeeps ==
  ASSUME FInv, NEW s \in Sockets,
         \/ Arm(s) \/ BeginWait(s) \/ Wake(s) \/ Receive(s) \/ Timeout(s)
         \/ \E f \in Filters : SendFilter(s, f)
  PROVE  FInv'
<1>0. /\ table \in Nat /\ event \in BOOLEAN /\ sock[s] \in Coroutine
      /\ GoodSocket(sock[s], table)
  BY DEF FInv
<1>1. UNCHANGED table
  BY DEF Arm, BeginWait, Wake, Receive, Timeout, SendFilter,
         dbVars
<1>2. event' \in BOOLEAN
  BY <1>0 DEF Arm, BeginWait, Wake, Receive, Timeout, SendFilter
<1>3. CASE Arm(s)
  <2> DEFINE x == [sock[s] EXCEPT !.pc = "armed", !.base = 0]
  <2>1. Become(s, x)
    BY <1>3 DEF Arm
  <2>2. /\ x \in Coroutine /\ x.pc = "armed" /\ x.base = 0
        /\ x.filter = sock[s].filter /\ x.changed = sock[s].changed /\ x.last = sock[s].last
    BY <1>0 DEF Coroutine
  <2> HIDE DEF x
  <2>3. GoodSocket(x, table)
    BY <1>0, <2>2 DEF GoodSocket
  <2> QED  BY <1>1, <1>2, <2>1, <2>3, BecomeKeeps
<1>4. CASE BeginWait(s)
  <2> DEFINE x == [sock[s] EXCEPT !.pc = "waiting", !.woken = event]
  <2>1. Become(s, x)
    BY <1>4 DEF BeginWait
  <2>2. /\ x \in Coroutine /\ x.pc = "waiting" /\ x.base = sock[s].base
        /\ x.filter = sock[s].filter /\ x.changed = sock[s].changed /\ x.last = sock[s].last
    BY <1>0 DEF Coroutine
  <2> HIDE DEF x
  <2>3. GoodSocket(x, table)
    BY <1>0, <2>2 DEF GoodSocket
  <2> QED  BY <1>1, <1>2, <2>1, <2>3, BecomeKeeps
<1>5. CASE Wake(s) \/ Timeout(s)
  <2> DEFINE x == [sock[s] EXCEPT !.pc = "send", !.woken = FALSE]
  <2>1. Become(s, x)
    BY <1>5 DEF Wake, Timeout
  <2>2. /\ x \in Coroutine /\ x.pc = "send" /\ x.base = sock[s].base
        /\ x.filter = sock[s].filter /\ x.changed = sock[s].changed /\ x.last = sock[s].last
    BY <1>0 DEF Coroutine
  <2> HIDE DEF x
  <2>3. GoodSocket(x, table)
    BY <1>0, <2>2 DEF GoodSocket
  <2> QED  BY <1>1, <1>2, <2>1, <2>3, BecomeKeeps
<1>6. CASE Receive(s)
  <2> DEFINE x == [sock[s] EXCEPT !.pc = "send", !.changed = TRUE, !.woken = FALSE,
                                  !.filter = sock[s].inbox, !.inbox = "none"]
  <2>1. Become(s, x) /\ sock[s].inbox \in Filters
    BY <1>0, <1>6 DEF Receive, Coroutine
  <2>2. x \in Coroutine /\ x.pc = "send" /\ x.base = sock[s].base /\ x.changed = TRUE
    BY <1>0, <2>1 DEF Coroutine
  <2> HIDE DEF x
  <2>3. GoodSocket(x, table)
    BY <1>0, <2>2 DEF GoodSocket
  <2> QED  BY <1>1, <1>2, <2>1, <2>3, BecomeKeeps
<1>7. ASSUME NEW f \in Filters, SendFilter(s, f) PROVE FInv'
  <2> DEFINE x == [sock[s] EXCEPT !.inbox = f]
  <2>1. Become(s, x)
    BY <1>7 DEF SendFilter
  <2>2. /\ x \in Coroutine /\ x.pc = sock[s].pc /\ x.base = sock[s].base
        /\ x.filter = sock[s].filter /\ x.changed = sock[s].changed /\ x.last = sock[s].last
        /\ x.cards = sock[s].cards /\ x.rows = sock[s].rows
    BY <1>0 DEF Coroutine
  <2> HIDE DEF x
  <2>3. GoodSocket(x, table)
    BY <1>0, <2>2 DEF GoodSocket
  <2> QED  BY <1>1, <1>2, <2>1, <2>3, BecomeKeeps
<1> QED  BY <1>3, <1>4, <1>5, <1>6, <1>7

\* The steps of a socket that is opened, authenticated or closed.
LEMMA ConnectionKeeps ==
  ASSUME FInv, NEW s \in Sockets,
         Connect(s) \/ Authenticate(s) \/ Close(s)
  PROVE  FInv'
<1>0. table \in Nat /\ event \in BOOLEAN
  BY DEF FInv
<1>1. UNCHANGED table /\ UNCHANGED event
  BY DEF Connect, Authenticate, Close, dbVars
<1>2. \E pc \in {"closed", "auth", "send"} :
        Become(s, [Fresh EXCEPT !.pc = pc]) \/ Become(s, Fresh)
  BY DEF Connect, Authenticate, Close
<1> QED  BY <1>0, <1>1, <1>2, FreshIsGood, BecomeKeeps

\* A round begins with the table as it is.
LEMMA BeginKeeps ==
  ASSUME FInv, NEW s \in Sockets, BeginSend(s)
  PROVE  FInv'
<1>0. /\ table \in Nat /\ event \in BOOLEAN /\ sock[s] \in Coroutine
      /\ GoodSocket(sock[s], table)
  BY DEF FInv
<1>1. UNCHANGED table /\ UNCHANGED event
  BY DEF BeginSend, dbVars
<1>2. CASE Become(s, Fresh)
  BY <1>0, <1>1, <1>2, FreshIsGood, BecomeKeeps
<1> DEFINE pc == IF sock[s].filter \in IdFilters THEN "tasks" ELSE "stats"
           x == [sock[s] EXCEPT !.pc = pc, !.base = table]
<1>3. CASE Become(s, x)
  <2>1. /\ x \in Coroutine /\ x.pc = pc /\ x.base = table
        /\ x.filter = sock[s].filter /\ x.changed = sock[s].changed /\ x.last = sock[s].last
    BY <1>0 DEF Coroutine
  <2> HIDE DEF x
  <2>2. GoodSocket(x, table)
    BY <1>0, <2>1 DEF GoodSocket
  <2> QED  BY <1>0, <1>1, <1>3, <2>2, BecomeKeeps
<1> QED  BY <1>2, <1>3 DEF BeginSend

\* The statements of a round, in either order, and what it sends.
LEMMA StatementsKeep ==
  ASSUME FInv, NEW s \in Sockets, ReadStats(s) \/ ReadTasks(s)
  PROVE  FInv'
<1>0. /\ table \in Nat /\ event \in BOOLEAN /\ sock[s] \in Coroutine
      /\ GoodSocket(sock[s], table)
  BY DEF FInv
<1>1. UNCHANGED table /\ UNCHANGED event
  BY DEF ReadStats, ReadTasks, dbVars
<1>2. CASE ReadStats(s)
  <2> DEFINE x == [sock[s] EXCEPT !.cards = table]
             y == [x EXCEPT !.pc = "tasks"]
  <2>1. /\ At(s, "stats")
        /\ Become(s, IF x.found THEN Fresh ELSE IF x.filter \in IdFilters THEN Sent(x) ELSE y)
    BY <1>2 DEF ReadStats
  <2>2. /\ x \in Coroutine /\ x.cards = table /\ x.rows = sock[s].rows
        /\ x.base = sock[s].base /\ x.filter = sock[s].filter
        /\ x.changed = sock[s].changed /\ x.last = sock[s].last
    BY <1>0 DEF Coroutine
  <2>3. /\ y \in Coroutine /\ y.pc = "tasks" /\ y.cards = table
        /\ y.base = sock[s].base /\ y.filter = sock[s].filter
        /\ y.changed = sock[s].changed /\ y.last = sock[s].last
    BY <1>0 DEF Coroutine
  <2> HIDE DEF x, y
  <2>4. x.base <= table /\ x.cards >= x.base /\ (x.changed \/ x.last.filter = x.filter)
    BY <1>0, <2>2 DEF GoodSocket, Coroutine
  <2>5. CASE x.found
    BY <1>0, <1>1, <2>1, <2>5, FreshIsGood, BecomeKeeps
  <2>6. CASE ~x.found /\ x.filter \in IdFilters
    <3>1. x.rows >= x.base
      BY <1>0, <2>1, <2>2, <2>6 DEF GoodSocket, At
    <3>2. GoodSocket(Sent(x), table)
      BY <1>0, <2>2, <2>4, <3>1, SentIsGood
    <3> QED  BY <1>0, <1>1, <2>1, <2>6, <3>2, BecomeKeeps
  <2>7. CASE ~x.found /\ x.filter \notin IdFilters
    <3>1. GoodSocket(y, table)
      BY <1>0, <2>2, <2>3, <2>4 DEF GoodSocket
    <3> QED  BY <1>0, <1>1, <2>1, <2>7, <3>1, BecomeKeeps
  <2> QED  BY <2>5, <2>6, <2>7
<1>3. CASE ReadTasks(s)
  <2> DEFINE x == [sock[s] EXCEPT !.rows = table]
             y(found) == [x EXCEPT !.pc = "stats", !.found = found]
  <2>1. /\ At(s, "tasks")
        /\ \/ x.filter \notin IdFilters /\ Become(s, Sent(x))
           \/ x.filter \in IdFilters /\ \E found \in BOOLEAN : Become(s, y(found))
    BY <1>3 DEF ReadTasks
  <2>2. /\ x \in Coroutine /\ x.rows = table /\ x.cards = sock[s].cards
        /\ x.base = sock[s].base /\ x.filter = sock[s].filter
        /\ x.changed = sock[s].changed /\ x.last = sock[s].last
    BY <1>0 DEF Coroutine
  <2>3. ASSUME NEW found \in BOOLEAN
        PROVE  /\ y(found) \in Coroutine /\ y(found).pc = "stats" /\ y(found).rows = table
               /\ y(found).base = sock[s].base /\ y(found).filter = sock[s].filter
               /\ y(found).changed = sock[s].changed /\ y(found).last = sock[s].last
    BY <1>0 DEF Coroutine
  <2> HIDE DEF x, y
  <2>4. x.base <= table /\ x.rows >= x.base /\ (x.changed \/ x.last.filter = x.filter)
    BY <1>0, <2>2 DEF GoodSocket, Coroutine
  <2>5. CASE x.filter \notin IdFilters
    <3>1. x.cards >= x.base
      BY <1>0, <2>1, <2>2, <2>5 DEF GoodSocket, At
    <3>2. GoodSocket(Sent(x), table)
      BY <1>0, <2>2, <2>4, <3>1, SentIsGood
    <3> QED  BY <1>0, <1>1, <2>1, <2>5, <3>2, BecomeKeeps
  <2>6. CASE x.filter \in IdFilters
    <3>1. PICK found \in BOOLEAN : Become(s, y(found))
      BY <2>1, <2>6
    <3>2. GoodSocket(y(found), table)
      BY <1>0, <2>2, <2>3, <2>4 DEF GoodSocket
    <3> QED  BY <1>0, <1>1, <3>1, <3>2, BecomeKeeps
  <2> QED  BY <2>5, <2>6
<1> QED  BY <1>2, <1>3

\* A change of the table, and the notification of it.
LEMMA DatabaseKeeps ==
  ASSUME FInv,
         \/ \E notify \in BOOLEAN : ChangeTable(notify)
         \/ Deliver \/ LoseListener \/ ShutDown
  PROVE  FInv'
<1>0. table \in Nat /\ event \in BOOLEAN /\ sock \in [Sockets -> Coroutine]
  BY DEF FInv
<1>1. CASE \E notify \in BOOLEAN : ChangeTable(notify)
  <2>1. table' = table + 1 /\ sock' = sock /\ event' = event
    BY <1>1 DEF ChangeTable
  <2>2. \A s \in Sockets : GoodSocket(sock[s], table + 1)
    BY <1>0, GoodLater DEF FInv
  <2> QED  BY <1>0, <2>1, <2>2 DEF FInv
<1>2. CASE Deliver
  <2> DEFINE y(s) == [sock[s] EXCEPT !.woken = @ \/ sock[s].pc = "waiting"]
  <2>1. sock' = [s \in Sockets |-> y(s)] /\ table' = table /\ event' = TRUE
    BY <1>2 DEF Deliver
  <2>2. ASSUME NEW s \in Sockets PROVE y(s) \in Coroutine /\ GoodSocket(y(s), table)
    <3>1. sock[s] \in Coroutine /\ GoodSocket(sock[s], table)
      BY DEF FInv
    <3>2. (sock[s].woken \/ sock[s].pc = "waiting") \in BOOLEAN
      OBVIOUS
    <3>3. /\ y(s) \in Coroutine /\ y(s).pc = sock[s].pc /\ y(s).base = sock[s].base
          /\ y(s).filter = sock[s].filter /\ y(s).changed = sock[s].changed
          /\ y(s).last = sock[s].last /\ y(s).cards = sock[s].cards /\ y(s).rows = sock[s].rows
      BY <3>1, <3>2 DEF Coroutine
    <3> HIDE DEF y
    <3>4. GoodSocket(y(s), table)
      BY <3>1, <3>3 DEF GoodSocket
    <3> QED  BY <3>3, <3>4
  <2> HIDE DEF y
  <2>3. sock' \in [Sockets -> Coroutine] /\ \A s \in Sockets : GoodSocket(sock'[s], table)
    BY <2>1, <2>2
  <2> QED  BY <1>0, <2>1, <2>3 DEF FInv
<1>3. CASE LoseListener \/ ShutDown
  <2>1. UNCHANGED <<table, event, sock>>
    BY <1>3 DEF LoseListener, ShutDown, dbVars
  <2> QED  BY <2>1 DEF FInv
<1> QED  BY <1>1, <1>2, <1>3

\* FInv is inductive.
LEMMA FeedInductive ==
  /\ FeedInit => FInv
  /\ FInv /\ [FeedNext]_feedVars => FInv'
<1>1. FeedInit => FInv
  <2> SUFFICES ASSUME FeedInit PROVE FInv
    OBVIOUS
  <2>1. GoodSocket(Fresh, 0) /\ Fresh \in Coroutine
    BY FreshIsGood DEF GoodSocket
  <2>2. sock = [s \in Sockets |-> Fresh] /\ table = 0 /\ event = FALSE
    BY DEF FeedInit
  <2> QED  BY <2>1, <2>2 DEF FInv
<1>2. ASSUME FInv, [FeedNext]_feedVars PROVE FInv'
  <2>1. ASSUME NEW s \in Sockets, Run(s) \/ Connect(s) \/ Close(s) PROVE FInv'
    BY <1>2, <2>1, LoopKeeps, ConnectionKeeps, BeginKeeps, StatementsKeep DEF Run
  <2>2. ASSUME NEW s \in Sockets, NEW f \in Filters, SendFilter(s, f) PROVE FInv'
    BY <1>2, <2>2, LoopKeeps
  <2>3. CASE \/ \E notify \in BOOLEAN : ChangeTable(notify)
             \/ Deliver \/ LoseListener \/ ShutDown
    BY <1>2, <2>3, DatabaseKeeps
  <2>4. CASE UNCHANGED feedVars
    BY <1>2, <2>4 DEF feedVars, FInv
  <2> QED  BY <1>2, <2>1, <2>2, <2>3, <2>4 DEF FeedNext
<1> QED  BY <1>1, <1>2

\* Every round shows each browser the table at least as it was when the round
\* began, for the filter in force: a missed or lost notification costs one round.
THEOREM RoundsAreFresh == FeedSpec => []RoundIsFresh
<1>1. FeedInit => FInv
  BY FeedInductive
<1>2. FInv /\ [FeedNext]_feedVars => FInv'
  BY FeedInductive
<1>3. FInv => RoundIsFresh
  BY DEF FInv, GoodSocket, RoundIsFresh, At
<1> QED  BY <1>1, <1>2, <1>3, PTL DEF FeedSpec

-----------------------------------------------------------------------------
(* Batches and their executions                                            *)

\* How often the function of a row may have been entered in the attempt under way.
Entered(r) ==
  IF r.status = "completed" THEN 2
  ELSE (IF r.phase = "python" THEN 1 ELSE 0) + (IF r.entered THEN 1 ELSE 0)

\* A row of an item of this kind, entered n times, with z threads left behind.
GoodRow(r, kind, z, n) ==
  /\ r \in Row
  /\ kind \in {"plain", "coroutine", "missing"}
  /\ r.status = "running" <=> r.phase # None
  /\ r.entered => r.phase \in {"rust", "python", "coroutine"}
  /\ r.status \in {"pending", "running"} => r.attempts < MaxRetries
  /\ z <= r.attempts
  /\ n <= 2 * r.attempts + Entered(r)

GoodItem(r, kind, z, n) ==
  /\ z \in Nat /\ n \in Nat
  /\ \/ r = None /\ z = 0 /\ n = 0
     \/ GoodRow(r, kind, z, n)

RunsInv ==
  /\ items \in [Items -> Kinds]
  /\ rows \in [Items -> Row \cup {None}]
  /\ zombies \in [Items -> Nat]
  /\ runs \in [Items -> Nat]
  /\ \A i \in Items : GoodItem(rows[i], items[i], zombies[i], runs[i])

\* The loop of enqueue_batch has inserted what it has passed, unless it failed.
BatchInv ==
  /\ call \in [at : 1 .. BatchSize + 1, answer : {None, "201", "500"}]
  /\ call.answer = "201" => call.at = BatchSize + 1
  /\ call.answer # "500" =>
       \A i \in Items : items[i] # "volatile" => (rows[i] # None <=> i < call.at)
  /\ \A i, j \in Items :
       rows[i] # None /\ j < i /\ items[j] # "volatile" => rows[j] # None

\* What is known of any row.
LEMMA RowFacts ==
  ASSUME NEW r \in Row
  PROVE  /\ r # None /\ r.attempts \in Nat /\ MaxRetries \in Nat
         /\ r.phase \in {None, "import", "rust", "python", "coroutine"}
         /\ Entered(r) \in {0, 1, 2}
<1>1. r # None /\ MaxRetries \in Nat
  BY InlineAssumption
<1>2. /\ r.attempts \in 0 .. MaxRetries
      /\ r.phase \in {None, "import", "rust", "python", "coroutine"}
  BY DEF Row
<1>3. Entered(r) \in {0, 1, 2}
  BY DEF Entered
<1> QED  BY <1>1, <1>2, <1>3

\* enqueue_batch inserts a row.
LEMMA InsertedIsGood ==
  ASSUME NEW kind \in {"plain", "coroutine", "missing"}
  PROVE  GoodRow([status |-> "pending", attempts |-> 0, phase |-> None, entered |-> FALSE],
                 kind, 0, 0)
<1> DEFINE r == [status |-> "pending", attempts |-> 0, phase |-> None, entered |-> FALSE]
<1>1. MaxRetries \in Nat \ {0}
  BY InlineAssumption
<1>2. r \in Row /\ r.status = "pending" /\ r.attempts = 0 /\ r.phase = None /\ ~r.entered
  BY <1>1 DEF Row
<1> HIDE DEF r
<1>3. Entered(r) = 0
  BY <1>2, InlineAssumption DEF Entered
<1>4. GoodRow(r, kind, 0, 0)
  BY <1>1, <1>2, <1>3 DEF GoodRow
<1> QED  BY <1>4 DEF r

\* An attempt is over, with at most one more thread left behind: fail_task has
\* counted the attempt.
LEMMA FailedIsGood ==
  ASSUME NEW r, NEW kind, NEW z \in Nat, NEW n \in Nat, GoodRow(r, kind, z, n),
         r.status = "running", NEW y \in {z, z + 1}
  PROVE  GoodRow(FailedRow(r), kind, y, n)
<1>1. /\ r \in Row /\ r.attempts \in Nat /\ MaxRetries \in Nat /\ r.attempts < MaxRetries
      /\ Entered(r) \in {0, 1, 2}
  BY RowFacts DEF GoodRow
<1> DEFINE q == FailedRow(r)
<1>2. q \in Row /\ q.attempts = r.attempts + 1 /\ q.phase = None /\ ~q.entered
      /\ q.status = (IF r.attempts + 1 < MaxRetries THEN "pending" ELSE "failed")
  BY <1>1 DEF FailedRow, Row
<1> HIDE DEF q
<1>3. Entered(q) = 0
  BY <1>2, InlineAssumption DEF Entered
<1>4. y <= q.attempts /\ n <= 2 * q.attempts + Entered(q)
  BY <1>1, <1>2, <1>3 DEF GoodRow
<1>5. GoodRow(q, kind, y, n)
  BY <1>2, <1>4 DEF GoodRow
<1> QED  BY <1>5 DEF q

\* The function returned what json.dumps takes.
LEMMA CompletedIsGood ==
  ASSUME NEW r, NEW kind, NEW z \in Nat, NEW n \in Nat, GoodRow(r, kind, z, n)
  PROVE  GoodRow(CompletedRow(r), kind, z, n)
<1>1. r \in Row /\ r.attempts \in Nat /\ Entered(r) \in {0, 1, 2}
  BY RowFacts DEF GoodRow
<1> DEFINE q == CompletedRow(r)
<1>2. /\ q \in Row /\ q.attempts = r.attempts /\ q.phase = None /\ ~q.entered
      /\ q.status = "completed"
  BY <1>1 DEF CompletedRow, Row
<1> HIDE DEF q
<1>3. Entered(q) = 2
  BY <1>2 DEF Entered
<1>4. z <= q.attempts /\ n <= 2 * q.attempts + Entered(q)
  BY <1>1, <1>2, <1>3 DEF GoodRow
<1>5. GoodRow(q, kind, z, n)
  BY <1>2, <1>4 DEF GoodRow
<1> QED  BY <1>5 DEF q

\* A running row changes its phase.
LEMMA PhaseIsGood ==
  ASSUME NEW r, NEW kind, NEW z \in Nat, NEW n \in Nat, GoodRow(r, kind, z, n),
         NEW q \in Row, q.status = "running", q.attempts = r.attempts,
         r.status \in {"pending", "running"}, q.phase # None,
         q.entered => q.phase \in {"rust", "python", "coroutine"},
         NEW m \in Nat, m <= n + Entered(q) - Entered(r)
  PROVE  GoodRow(q, kind, z, m)
<1>1. /\ r \in Row /\ r.attempts \in Nat /\ Entered(r) \in {0, 1, 2} /\ r.attempts < MaxRetries
      /\ Entered(q) \in {0, 1, 2}
  BY RowFacts DEF GoodRow
<1>2. m <= 2 * q.attempts + Entered(q)
  BY <1>1 DEF GoodRow
<1> QED  BY <1>1, <1>2 DEF GoodRow

\* The worker is at item i.
WorkerStep(i) ==
  \/ Claim(i) \/ Import(i) \/ Enter(i) \/ GiveUp(i) \/ ZombieEnds(i)
  \/ \E outcome \in Outcomes : Return(i, outcome)

\* What a step does to the row of an item, its threads and its executions.
Update(i, q, z, n) ==
  /\ rows' = [rows EXCEPT ![i] = q] /\ zombies' = [zombies EXCEPT ![i] = z]
  /\ runs' = [runs EXCEPT ![i] = n] /\ UNCHANGED items

\* A step of one item that leaves it good keeps the invariant.
LEMMA UpdateKeeps ==
  ASSUME RunsInv, NEW i \in Items, NEW q, NEW z \in Nat, NEW n \in Nat, Update(i, q, z, n),
         GoodRow(q, items[i], z, n)
  PROVE  RunsInv' /\ rows'[i] # None /\ \A j \in Items : j # i => rows'[j] = rows[j]
<1>1. /\ items \in [Items -> Kinds] /\ rows \in [Items -> Row \cup {None}]
      /\ zombies \in [Items -> Nat] /\ runs \in [Items -> Nat]
  BY DEF RunsInv
<1>2. q \in Row /\ q # None
  BY RowFacts DEF GoodRow
<1>3. /\ items' \in [Items -> Kinds] /\ rows' \in [Items -> Row \cup {None}]
      /\ zombies' \in [Items -> Nat] /\ runs' \in [Items -> Nat] /\ rows'[i] = q
  BY <1>1, <1>2 DEF Update
<1>4. ASSUME NEW j \in Items PROVE GoodItem(rows'[j], items'[j], zombies'[j], runs'[j])
  <2>1. CASE j = i
    <3>1. rows'[j] = q /\ items'[j] = items[i] /\ zombies'[j] = z /\ runs'[j] = n
      BY <1>1, <2>1 DEF Update
    <3> QED  BY <3>1 DEF GoodItem
  <2>2. CASE j # i
    <3>1. /\ rows'[j] = rows[j] /\ items'[j] = items[j] /\ zombies'[j] = zombies[j]
          /\ runs'[j] = runs[j]
      BY <1>1, <2>2 DEF Update
    <3> QED  BY <3>1 DEF RunsInv
  <2> QED  BY <2>1, <2>2
<1>5. \A j \in Items : j # i => rows'[j] = rows[j]
  BY <1>1 DEF Update
<1> QED  BY <1>2, <1>3, <1>4, <1>5 DEF RunsInv

\* What is known of an item with a row.
LEMMA ItemFacts ==
  ASSUME RunsInv, NEW i \in Items
  PROVE  /\ zombies[i] \in Nat /\ runs[i] \in Nat
         /\ zombies = [zombies EXCEPT ![i] = zombies[i]] /\ runs = [runs EXCEPT ![i] = runs[i]]
         /\ rows[i] = None => zombies[i] = 0 /\ runs[i] = 0
         /\ rows[i] # None =>
              GoodRow(rows[i], items[i], zombies[i], runs[i]) /\ rows[i] \in Row
<1>1. GoodItem(rows[i], items[i], zombies[i], runs[i])
  BY DEF RunsInv
<1>2. rows[i] = None => ~GoodRow(rows[i], items[i], zombies[i], runs[i])
  BY InlineAssumption DEF GoodRow
<1>3. zombies = [zombies EXCEPT ![i] = zombies[i]] /\ runs = [runs EXCEPT ![i] = runs[i]]
  BY DEF RunsInv
<1> QED  BY <1>1, <1>2, <1>3 DEF GoodItem, GoodRow

\* claim_task
LEMMA ClaimRuns ==
  ASSUME RunsInv, NEW i \in Items, Claim(i)
  PROVE  RunsInv' /\ rows'[i] # None /\ \A j \in Items : j # i => rows'[j] = rows[j]
<1> DEFINE r == rows[i]
           q == [r EXCEPT !.status = "running", !.phase = "import"]
<1>1. r # None /\ r.status = "pending" /\ Update(i, q, zombies[i], runs[i])
  BY ItemFacts DEF Claim, Update
<1>2. GoodRow(r, items[i], zombies[i], runs[i]) /\ zombies[i] \in Nat /\ runs[i] \in Nat
  BY <1>1, ItemFacts
<1>3. r \in Row /\ r.phase = None /\ ~r.entered
  <2>1. r.phase = None /\ r \in Row
    BY <1>1, <1>2 DEF GoodRow
  <2> QED  BY <1>2, <2>1, InlineAssumption DEF GoodRow
<1>4. /\ q \in Row /\ q.status = "running" /\ q.attempts = r.attempts /\ q.phase = "import"
      /\ q.entered = r.entered
  BY <1>3 DEF Row
<1> HIDE DEF r, q
<1>5. Entered(r) = 0 /\ Entered(q) = 0 /\ q.phase # None
  BY <1>1, <1>3, <1>4, InlineAssumption DEF Entered
<1>6. GoodRow(q, items[i], zombies[i], runs[i])
  BY <1>1, <1>2, <1>3, <1>4, <1>5, PhaseIsGood
<1> QED  BY <1>1, <1>2, <1>6, UpdateKeeps

\* What is known of a running item.
LEMMA RunningFacts ==
  ASSUME RunsInv, NEW i \in Running
  PROVE  /\ i \in Items /\ rows[i] # None /\ rows[i].status = "running" /\ rows[i] \in Row
         /\ zombies[i] \in Nat /\ runs[i] \in Nat
         /\ GoodRow(rows[i], items[i], zombies[i], runs[i])
BY ItemFacts DEF Running

\* execute_task_inline up to the call of the function.
LEMMA ImportRuns ==
  ASSUME RunsInv, NEW i \in Items, Import(i)
  PROVE  RunsInv' /\ rows'[i] # None /\ \A j \in Items : j # i => rows'[j] = rows[j]
<1>0. i \in Running /\ rows[i].phase = "import"
  BY DEF Import
<1> DEFINE r == rows[i]
<1>1. /\ r # None /\ r.status = "running" /\ r \in Row /\ zombies[i] \in Nat /\ runs[i] \in Nat
      /\ GoodRow(r, items[i], zombies[i], runs[i])
  BY <1>0, RunningFacts
<1>2. ~r.entered /\ Entered(r) = 0
  <2>1. ~r.entered
    BY <1>0, <1>1 DEF GoodRow
  <2> QED  BY <1>0, <1>1, <2>1 DEF Entered
<1>3. PICK phase \in {"rust", "python"} :
        rows' = [rows EXCEPT ![i] =
          CASE items[i] = "missing"   -> FailedRow(r)
            [] items[i] = "coroutine" -> [r EXCEPT !.phase = "coroutine", !.entered = TRUE]
            [] items[i] = "plain"     -> Submitted(r, phase)]
  BY DEF Import, FirstExecutor
<1>4. /\ runs' = [runs EXCEPT ![i] = IF items[i] = "coroutine" THEN runs[i] + 1 ELSE runs[i]]
      /\ UNCHANGED items /\ zombies' = [zombies EXCEPT ![i] = zombies[i]]
  BY ItemFacts DEF Import
<1>5. items[i] \in {"plain", "coroutine", "missing"}
  BY <1>1 DEF GoodRow
<1>6. CASE items[i] = "missing"
  <2>1. Update(i, FailedRow(r), zombies[i], runs[i])
    BY <1>3, <1>4, <1>6 DEF Update
  <2>2. GoodRow(FailedRow(r), items[i], zombies[i], runs[i])
    BY <1>1, FailedIsGood
  <2> QED  BY <1>1, <2>1, <2>2, UpdateKeeps
<1>7. CASE items[i] = "coroutine"
  <2> DEFINE q == [r EXCEPT !.phase = "coroutine", !.entered = TRUE]
  <2>1. Update(i, q, zombies[i], runs[i] + 1)
    BY <1>3, <1>4, <1>7 DEF Update
  <2>2. /\ q \in Row /\ q.status = "running" /\ q.attempts = r.attempts /\ q.phase = "coroutine"
        /\ q.entered = TRUE
    BY <1>1 DEF Row
  <2> HIDE DEF r, q
  <2>3. Entered(q) = 1 /\ q.phase # None
    BY <2>2, InlineAssumption DEF Entered
  <2>4. GoodRow(q, items[i], zombies[i], runs[i] + 1)
    BY <1>1, <1>2, <2>2, <2>3, PhaseIsGood
  <2> QED  BY <1>1, <2>1, <2>4, UpdateKeeps
<1>8. CASE items[i] = "plain"
  <2> DEFINE q == Submitted(r, phase)
  <2>1. Update(i, q, zombies[i], runs[i])
    BY <1>3, <1>4, <1>8 DEF Update
  <2>2. /\ q \in Row /\ q.status = "running" /\ q.attempts = r.attempts /\ q.phase = phase
        /\ q.entered = FALSE
    BY <1>1 DEF Row, Submitted
  <2> HIDE DEF r, q
  <2>3. Entered(q) \in {0, 1} /\ q.phase # None
    BY <2>2, InlineAssumption DEF Entered
  <2>4. GoodRow(q, items[i], zombies[i], runs[i])
    BY <1>1, <1>2, <2>2, <2>3, PhaseIsGood
  <2> QED  BY <1>1, <2>1, <2>4, UpdateKeeps
<1> QED  BY <1>5, <1>6, <1>7, <1>8

\* A thread takes the call.
LEMMA EnterRuns ==
  ASSUME RunsInv, NEW i \in Items, Enter(i)
  PROVE  RunsInv' /\ rows'[i] # None /\ \A j \in Items : j # i => rows'[j] = rows[j]
<1> DEFINE r == rows[i]
           q == [r EXCEPT !.entered = TRUE]
<1>1. r # None /\ r.phase \in {"rust", "python"} /\ ~r.entered
      /\ Update(i, q, zombies[i], runs[i] + 1)
  BY ItemFacts DEF Enter, InPool, Update
<1>2. /\ GoodRow(r, items[i], zombies[i], runs[i]) /\ zombies[i] \in Nat /\ runs[i] \in Nat
      /\ r \in Row
  BY <1>1, ItemFacts
<1>3. r.status = "running"
  BY <1>1, <1>2, InlineAssumption DEF GoodRow
<1>4. /\ q \in Row /\ q.status = "running" /\ q.attempts = r.attempts /\ q.phase = r.phase
      /\ q.entered = TRUE
  BY <1>2, <1>3 DEF Row
<1> HIDE DEF r, q
<1>5. Entered(q) = Entered(r) + 1 /\ q.phase # None /\ Entered(r) \in {0, 1, 2}
  BY <1>1, <1>2, <1>3, <1>4, InlineAssumption, RowFacts DEF Entered
<1>6. GoodRow(q, items[i], zombies[i], runs[i] + 1)
  BY <1>1, <1>2, <1>3, <1>4, <1>5, PhaseIsGood
<1>7. runs[i] + 1 \in Nat
  BY <1>2
<1> QED  BY <1>1, <1>2, <1>6, <1>7, UpdateKeeps

\* The function ends: it may be called once more, by the Python executor.
LEMMA ReturnRuns ==
  ASSUME RunsInv, NEW i \in Items, NEW outcome \in Outcomes, Return(i, outcome)
  PROVE  RunsInv' /\ rows'[i] # None /\ \A j \in Items : j # i => rows'[j] = rows[j]
<1> DEFINE r == rows[i]
           q == After(r, outcome)
<1>0. i \in Running /\ r.entered /\ Update(i, q, zombies[i], runs[i])
  BY ItemFacts DEF Return, Update
<1>1. /\ r # None /\ r.status = "running" /\ r \in Row /\ zombies[i] \in Nat /\ runs[i] \in Nat
      /\ GoodRow(r, items[i], zombies[i], runs[i])
  BY <1>0, RunningFacts
<1> HIDE DEF r
<1>2. GoodRow(q, items[i], zombies[i], runs[i])
  <2>1. CASE outcome = "json"
    BY <1>1, <2>1, CompletedIsGood DEF After
  <2>2. CASE outcome # "json" /\ ~(r.phase = "rust" /\ outcome # "RetryError")
    BY <1>1, <2>2, FailedIsGood DEF After
  <2>3. CASE outcome # "json" /\ r.phase = "rust" /\ outcome # "RetryError"
    <3> DEFINE p == Submitted(r, "python")
    <3>1. q = p
      BY <2>3 DEF After
    <3>2. /\ p \in Row /\ p.status = "running" /\ p.attempts = r.attempts /\ p.phase = "python"
          /\ p.entered = FALSE
      BY <1>1 DEF Row, Submitted
    <3> HIDE DEF p, q
    <3>3. Entered(p) = 1 /\ Entered(r) = 1 /\ p.phase # None
      BY <1>0, <1>1, <2>3, <3>2, InlineAssumption DEF Entered
    <3>4. GoodRow(p, items[i], zombies[i], runs[i])
      BY <1>1, <3>2, <3>3, PhaseIsGood
    <3> QED  BY <3>1, <3>4
  <2> QED  BY <2>1, <2>2, <2>3
<1> HIDE DEF q
<1> QED  BY <1>0, <1>1, <1>2, UpdateKeeps

\* wait_for gives up: the thread it leaves behind is the only one of the attempt.
LEMMA GiveUpRuns ==
  ASSUME RunsInv, NEW i \in Items, GiveUp(i)
  PROVE  RunsInv' /\ rows'[i] # None /\ \A j \in Items : j # i => rows'[j] = rows[j]
<1> DEFINE z == IF InPool(i) /\ rows[i].entered THEN zombies[i] + 1 ELSE zombies[i]
<1>1. i \in Running /\ Update(i, FailedRow(rows[i]), z, runs[i])
  BY ItemFacts DEF GiveUp, Update
<1>2. /\ rows[i].status = "running" /\ zombies[i] \in Nat /\ runs[i] \in Nat
      /\ GoodRow(rows[i], items[i], zombies[i], runs[i])
  BY <1>1, RunningFacts
<1>3. z \in {zombies[i], zombies[i] + 1} /\ z \in Nat
  BY <1>2
<1> HIDE DEF z
<1>4. GoodRow(FailedRow(rows[i]), items[i], z, runs[i])
  BY <1>2, <1>3, FailedIsGood
<1> QED  BY <1>1, <1>2, <1>3, <1>4, UpdateKeeps

\* A thread that was left behind ends.
LEMMA ZombieRuns ==
  ASSUME RunsInv, NEW i \in Items, ZombieEnds(i)
  PROVE  RunsInv' /\ UNCHANGED rows
<1>1. /\ zombies[i] > 0 /\ zombies' = [zombies EXCEPT ![i] = zombies[i] - 1]
      /\ UNCHANGED <<items, rows, runs>>
  BY DEF ZombieEnds
<1>2. zombies[i] \in Nat /\ rows[i] # None
  BY <1>1, ItemFacts
<1>3. zombies[i] - 1 \in Nat /\ zombies \in [Items -> Nat]
  BY <1>1, <1>2 DEF RunsInv
<1>4. zombies' \in [Items -> Nat]
  BY <1>1, <1>3
<1>5. ASSUME NEW j \in Items PROVE GoodItem(rows[j], items[j], zombies'[j], runs[j])
  <2>1. GoodItem(rows[j], items[j], zombies[j], runs[j])
    BY DEF RunsInv
  <2>2. CASE j # i
    BY <1>1, <1>3, <2>1, <2>2
  <2>3. CASE j = i
    <3>1. zombies'[j] = zombies[i] - 1
      BY <1>1, <1>3, <2>3
    <3>2. GoodRow(rows[i], items[i], zombies[i], runs[i]) /\ runs[i] \in Nat
      BY <1>2, ItemFacts
    <3>3. rows[i].attempts \in Nat
      BY <3>2, RowFacts DEF GoodRow
    <3>4. GoodRow(rows[i], items[i], zombies[i] - 1, runs[i])
      BY <1>2, <3>2, <3>3 DEF GoodRow
    <3> QED  BY <1>3, <2>3, <3>1, <3>2, <3>4 DEF GoodItem
  <2> QED  BY <2>2, <2>3
<1> QED  BY <1>1, <1>4, <1>5 DEF RunsInv

\* The steps of the worker.
LEMMA WorkerKeeps ==
  ASSUME RunsInv, NEW i \in Items, WorkerStep(i)
  PROVE  /\ RunsInv' /\ UNCHANGED <<items, call>>
         /\ \A j \in Items : rows'[j] = None <=> rows[j] = None
<1>1. UNCHANGED <<items, call>>
  BY DEF WorkerStep, Claim, Import, Enter, GiveUp, ZombieEnds, Return
<1>2. CASE ZombieEnds(i)
  BY <1>1, <1>2, ZombieRuns
<1>3. CASE \/ Claim(i) \/ Import(i) \/ Enter(i) \/ GiveUp(i)
           \/ \E outcome \in Outcomes : Return(i, outcome)
  <2>1. RunsInv' /\ rows'[i] # None /\ \A j \in Items : j # i => rows'[j] = rows[j]
    BY <1>3, ClaimRuns, ImportRuns, EnterRuns, GiveUpRuns, ReturnRuns
  <2>2. rows[i] # None
    BY <1>3 DEF Claim, Import, Enter, GiveUp, Return, Running, InPool
  <2> QED  BY <1>1, <2>1, <2>2
<1> QED  BY <1>2, <1>3 DEF WorkerStep

\* What is known of the call of enqueue_batch while it is not answered.
LEMMA CallFacts ==
  ASSUME BatchInv, call.answer = None
  PROVE  /\ call.answer # "500" /\ call.at \in 1 .. BatchSize + 1 /\ BatchSize \in Nat
         /\ call = [at |-> call.at, answer |-> None]
         /\ \A i \in Items : items[i] # "volatile" => (rows[i] # None <=> i < call.at)
<1>1. None # "500" /\ BatchSize \in Nat
  BY InlineAssumption
<1> QED  BY <1>1 DEF BatchInv

\* enqueue_batch inserts the row of an item it has come to.
LEMMA InsertedKeepsRuns ==
  ASSUME RunsInv, BatchInv, call.answer = None, NEW i \in Items, call.at = i,
         items[i] \notin {"volatile", "broken"}, rows' = Inserted(i),
         UNCHANGED <<items, zombies, runs>>
  PROVE  RunsInv' /\ rows'[i] # None /\ \A j \in Items : j # i => rows'[j] = rows[j]
<1>1. rows[i] = None
  BY CallFacts DEF Items
<1>2. zombies[i] = 0 /\ runs[i] = 0
  BY <1>1, ItemFacts
<1>3. items[i] \in {"plain", "coroutine", "missing"}
  BY DEF RunsInv, Kinds
<1> DEFINE q == [status |-> "pending", attempts |-> 0, phase |-> None, entered |-> FALSE]
<1>4. Update(i, q, 0, 0)
  BY <1>2, ItemFacts DEF Update, Inserted
<1>5. GoodRow(q, items[i], 0, 0)
  BY <1>3, InsertedIsGood
<1> HIDE DEF q
<1> QED  BY <1>4, <1>5, UpdateKeeps

\* One iteration of the loop of enqueue_batch.
LEMMA InsertKeeps ==
  ASSUME RunsInv, BatchInv, NEW i \in Items, InsertItem(i)
  PROVE  RunsInv' /\ BatchInv'
<1>1. /\ call = [at |-> i, answer |-> None] /\ call.at = i /\ call.answer = None
      /\ items[i] # "broken" /\ UNCHANGED <<items, zombies, runs>>
      /\ call' = [call EXCEPT !.at = i + 1]
  BY DEF InsertItem
<1>2. /\ i \in 1 .. BatchSize /\ BatchSize \in Nat /\ i \in Int /\ Items \subseteq Int
      /\ None # "500" /\ None # "201"
  BY InlineAssumption DEF Items
<1>3. \A j \in Items : items[j] # "volatile" => (rows[j] # None <=> j < i)
  BY <1>1, CallFacts
<1>4. /\ call'.at = i + 1 /\ call'.answer = None
      /\ call' \in [at : 1 .. BatchSize + 1, answer : {None, "201", "500"}]
  BY <1>1, <1>2
<1>5. /\ RunsInv'
      /\ \A j \in Items : j # i => rows'[j] = rows[j]
      /\ items[i] # "volatile" => rows'[i] # None
      /\ items[i] = "volatile" => rows' = rows
  <2>1. CASE items[i] = "volatile"
    <3>1. rows' = rows
      BY <2>1 DEF InsertItem
    <3> QED  BY <1>1, <2>1, <3>1 DEF RunsInv
  <2>2. CASE items[i] # "volatile"
    <3>1. rows' = Inserted(i)
      BY <2>2 DEF InsertItem
    <3> QED  BY <1>1, <2>2, <3>1, InsertedKeepsRuns
  <2> QED  BY <2>1, <2>2
<1>6. \A j \in Items : items[j] # "volatile" => (rows'[j] # None <=> j < i + 1)
  BY <1>2, <1>3, <1>5
<1>7. ASSUME NEW j \in Items, NEW k \in Items, rows'[j] # None, k < j, items[k] # "volatile"
      PROVE  rows'[k] # None
  <2>1. CASE items[j] # "volatile"
    BY <1>2, <1>6, <1>7, <2>1
  <2>2. CASE items[j] = "volatile"
    <3>1. rows[j] # None
      BY <1>5, <1>7, <2>2
    <3>2. rows[k] # None
      BY <1>7, <3>1 DEF BatchInv
    <3> QED  BY <1>3, <1>5, <1>7, <3>2
  <2> QED  BY <2>1, <2>2
<1>8. BatchInv'
  BY <1>1, <1>2, <1>4, <1>6, <1>7 DEF BatchInv
<1> QED  BY <1>5, <1>8

\* The loop ends with an exception; the INSERT may be committed.
LEMMA FailsKeeps ==
  ASSUME RunsInv, BatchInv, Fails
  PROVE  RunsInv' /\ BatchInv'
<1>1. PICK i \in Items : call.at = i /\ call.answer = None /\ items[i] # "volatile"
  BY DEF Fails
<1>2. call' = [at |-> BatchSize + 1, answer |-> "500"] /\ UNCHANGED <<items, zombies, runs>>
  BY DEF Fails
<1>3. BatchSize \in Nat /\ Items \subseteq Int
  BY InlineAssumption DEF Items
<1>4. /\ call' \in [at : 1 .. BatchSize + 1, answer : {None, "201", "500"}]
      /\ call'.answer = "500" /\ "500" # "201"
  BY <1>2, <1>3
<1>5. \A j \in Items : items[j] # "volatile" => (rows[j] # None <=> j < i)
  BY <1>1, CallFacts
<1>6. CASE rows' = rows
  <2>1. RunsInv'
    BY <1>2, <1>6 DEF RunsInv
  <2>2. BatchInv'
    BY <1>2, <1>4, <1>6 DEF BatchInv
  <2> QED  BY <2>1, <2>2
<1>7. CASE items[i] # "broken" /\ rows' = Inserted(i)
  <2>1. RunsInv' /\ rows'[i] # None /\ \A j \in Items : j # i => rows'[j] = rows[j]
    BY <1>1, <1>2, <1>7, InsertedKeepsRuns
  <2>2. ASSUME NEW j \in Items, NEW k \in Items, rows'[j] # None, k < j, items[k] # "volatile"
        PROVE  rows'[k] # None
    <3>1. CASE j = i
      BY <1>3, <1>5, <2>1, <2>2, <3>1
    <3>2. CASE j # i
      <4>1. rows[j] # None
        BY <2>1, <2>2, <3>2
      <4>2. rows[k] # None
        BY <2>2, <4>1 DEF BatchInv
      <4> QED  BY <2>1, <4>2
    <3> QED  BY <3>1, <3>2
  <2>3. BatchInv'
    BY <1>2, <1>4, <2>2 DEF BatchInv
  <2> QED  BY <2>1, <2>3
<1> QED  BY <1>1, <1>6, <1>7 DEF Fails

\* The steps of the worker add and remove no row.
LEMMA WorkerKeepsBatch ==
  ASSUME BatchInv, UNCHANGED <<items, call>>,
         \A j \in Items : rows'[j] = None <=> rows[j] = None
  PROVE  BatchInv'
BY DEF BatchInv

\* RunsInv and BatchInv are inductive.
LEMMA InlineInductive ==
  /\ InlineInit => RunsInv /\ BatchInv
  /\ RunsInv /\ BatchInv /\ [InlineNext]_inlineVars => RunsInv' /\ BatchInv'
<1>1. ASSUME InlineInit PROVE RunsInv /\ BatchInv
  <2>1. /\ items \in [Items -> Kinds] /\ call = [at |-> 1, answer |-> None]
        /\ rows = [i \in Items |-> None] /\ zombies = [i \in Items |-> 0]
        /\ runs = [i \in Items |-> 0]
    BY <1>1 DEF InlineInit
  <2>2. RunsInv
    BY <2>1 DEF RunsInv, GoodItem
  <2>3. /\ BatchSize \in Nat /\ None # "201" /\ \A i \in Items : ~(i < 1)
    BY InlineAssumption DEF Items
  <2>4. call \in [at : 1 .. BatchSize + 1, answer : {None, "201", "500"}] /\ call.at = 1 /\ call.answer = None
    BY <2>1, <2>3
  <2>5. BatchInv
    BY <2>1, <2>3, <2>4 DEF BatchInv
  <2> QED  BY <2>2, <2>5
<1>2. ASSUME RunsInv, BatchInv, [InlineNext]_inlineVars PROVE RunsInv' /\ BatchInv'
  <2>1. CASE Fails
    BY <1>2, <2>1, FailsKeeps
  <2>2. CASE Answer
    <3>1. /\ call.at > BatchSize /\ call.answer = None /\ call' = [call EXCEPT !.answer = "201"]
          /\ UNCHANGED <<items, rows, zombies, runs>>
      BY <2>2 DEF Answer
    <3>2. /\ call.at \in 1 .. BatchSize + 1 /\ BatchSize \in Nat
          /\ \A i \in Items : items[i] # "volatile" => (rows[i] # None <=> i < call.at)
      BY <1>2, <3>1, CallFacts
    <3>3. /\ call' \in [at : 1 .. BatchSize + 1, answer : {None, "201", "500"}]
          /\ call'.at = call.at /\ call.at = BatchSize + 1
      BY <1>2, <3>1, <3>2 DEF BatchInv
    <3>4. BatchInv'
      BY <1>2, <3>1, <3>2, <3>3 DEF BatchInv
    <3> QED  BY <1>2, <3>1, <3>4 DEF RunsInv
  <2>3. ASSUME NEW i \in Items, InsertItem(i) PROVE RunsInv' /\ BatchInv'
    BY <1>2, <2>3, InsertKeeps
  <2>4. ASSUME NEW i \in Items, WorkerStep(i) PROVE RunsInv' /\ BatchInv'
    BY <1>2, <2>4, WorkerKeeps, WorkerKeepsBatch
  <2>5. CASE UNCHANGED inlineVars
    BY <1>2, <2>5 DEF inlineVars, RunsInv, BatchInv
  <2> QED  BY <1>2, <2>1, <2>2, <2>3, <2>4, <2>5 DEF InlineNext, WorkerStep
<1> QED  BY <1>1, <1>2

\* However the Rust executor fails and whenever wait_for gives up, a function is
\* entered at most twice in an attempt, and an attempt leaves at most one thread
\* behind.
THEOREM RunsAreBounded == InlineSpec => []RunsPerAttempt
<1>1. ASSUME RunsInv PROVE RunsPerAttempt
  <2> SUFFICES ASSUME NEW i \in Items, rows[i] # None
               PROVE  LET attempts == rows[i].attempts
                            + (IF i \in Running \/ rows[i].status = "completed" THEN 1 ELSE 0)
                      IN runs[i] <= 2 * attempts /\ zombies[i] <= rows[i].attempts
    BY DEF RunsPerAttempt
  <2>1. GoodRow(rows[i], items[i], zombies[i], runs[i]) /\ runs[i] \in Nat /\ zombies[i] \in Nat
    BY <1>1, ItemFacts
  <2>2. rows[i].attempts \in Nat /\ Entered(rows[i]) \in {0, 1, 2}
    BY <2>1, RowFacts DEF GoodRow
  <2>3. CASE i \in Running \/ rows[i].status = "completed"
    BY <2>1, <2>2, <2>3 DEF GoodRow
  <2>4. CASE ~(i \in Running \/ rows[i].status = "completed")
    <3>1. rows[i].phase = None
      BY <2>1, <2>4 DEF GoodRow, Running
    <3>2. ~rows[i].entered /\ None # "python"
      BY <2>1, <3>1, InlineAssumption DEF GoodRow
    <3>3. Entered(rows[i]) = 0
      BY <2>4, <3>1, <3>2 DEF Entered
    <3> QED  BY <2>1, <2>2, <2>4, <3>3 DEF GoodRow
  <2> QED  BY <2>3, <2>4
<1>2. InlineInit => RunsInv /\ BatchInv
  BY InlineInductive
<1>3. RunsInv /\ BatchInv /\ [InlineNext]_inlineVars => RunsInv' /\ BatchInv'
  BY InlineInductive
<1>4. RunsInv => RunsPerAttempt
  BY <1>1
<1> QED  BY <1>2, <1>3, <1>4, PTL DEF InlineSpec

\* A batch is inserted up to some item, whichever INSERT raises or times out, and
\* one that was answered with 201 is inserted completely.
THEOREM BatchesArePrefixes == InlineSpec => []BatchIsPrefix
<1>1. ASSUME BatchInv PROVE BatchIsPrefix
  <2>1. BatchSize \in Nat /\ "201" # "500"
    BY InlineAssumption
  <2>2. ASSUME NEW i \in Items, items[i] # "volatile", call.answer = "201" PROVE rows[i] # None
    <3>1. call.at = BatchSize + 1 /\ (rows[i] # None <=> i < call.at)
      BY <1>1, <2>1, <2>2 DEF BatchInv
    <3>2. i < BatchSize + 1
      BY <2>1 DEF Items
    <3> QED  BY <3>1, <3>2
  <2>3. \A i, j \in Items : rows[i] # None /\ j < i /\ items[j] # "volatile" => rows[j] # None
    BY <1>1 DEF BatchInv
  <2> QED  BY <2>2, <2>3 DEF BatchIsPrefix
<1>2. InlineInit => RunsInv /\ BatchInv
  BY InlineInductive
<1>3. RunsInv /\ BatchInv /\ [InlineNext]_inlineVars => RunsInv' /\ BatchInv'
  BY InlineInductive
<1>4. BatchInv => BatchIsPrefix
  BY <1>1
<1> QED  BY <1>2, <1>3, <1>4, PTL DEF InlineSpec
=============================================================================
