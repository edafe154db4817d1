----------------------------- MODULE Migrations ------------------------------
(***************************************************************************)
(* What every process does to the schema before it works: Storage.create   *)
(* of the servers and Python workers (python/lapinq/storage.py) and        *)
(* ensure_schema of the Rust workers (src/lib.rs).  They may start         *)
(* together, on an empty database or on one an older release has left, and *)
(* share no lock.  Python has five migrations and keeps one row per        *)
(* version; Rust has the first only and updates the row in place.          *)
(*                                                                         *)
(* One step is one call of execute.  Its text may hold several statements, *)
(* which PostgreSQL runs as one transaction: all of it happens or none.    *)
(***************************************************************************)
EXTENDS Naturals, FiniteSets, FiniteSetsExt

CONSTANTS
  Pythons,    \* processes that call Storage.create
  Rusts,      \* processes that call ensure_schema
  MaxTries,   \* max_retries of Storage.create, 5
  MaxFaults   \* bound: how many calls fail, or processes die

VARIABLES
  schema,     \* what the database has, a subset of Features
  versions,   \* the rows of lapinq_schema_version
  admin,      \* lapinq_users has a row, the default admin
  expired,    \* lapinq_tasks has a row with status 'expired'
  proc,       \* the starting processes
  torn,       \* history: a process was lost between its versions 2 and 3
  faults      \* failures still to come

vars == <<schema, versions, admin, expired, proc, torn, faults>>
dbVars == <<schema, versions, admin, expired>>

Processes == Pythons \cup Rusts

\* The columns of version 1 come in two: SQL_SCHEMA itself has priority, and
\* an index on it.  "expiry" is a CHECK that allows the status 'expired'.
Features == {"tasks", "priority", "ttl", "expiry", "retry", "users", "trigger"}

Working == {"schema", "notify", "select", "zero", "migrate", "record",
            "exists", "insert"}

\* version is the loop variable of the migrations: the next one to apply or,
\* at "record", the one just applied.
Process == [pc      : Working \cup {"down", "failed", "up"},
            version : 0 .. 6,
            tries   : 0 .. MaxTries - 1]

ASSUME MigrationsAssumption ==
  /\ IsFiniteSet(Processes)
  /\ Pythons \cap Rusts = {}
  /\ MaxTries \in Nat \ {0}
  /\ MaxFaults \in Nat

Down == [pc |-> "down", version |-> 0, tries |-> 0]

LastVersionShort(p) == IF p \in Pythons THEN 4 ELSE 1

LastVersion(p) == IF p \in Pythons THEN 5 ELSE 1

MigratedOnce(v, S) ==
  CASE v = 1 -> S \cup {"priority", "ttl"}
    [] v = 2 -> S \ {"expiry"}
    [] v = 3 -> S
    [] v = 4 -> S \cup {"retry"}
    [] v = 5 -> S \cup {"users"}

\* The effect of migration v.
Migrated(v, S) ==
  CASE v = 1 -> S \cup {"priority", "ttl"}
    [] v = 2 -> S \ {"expiry"}
    [] v = 3 -> S \cup {"expiry"}
    [] v = 4 -> S \cup {"retry"}
    [] v = 5 -> S \cup {"users"}

\* The version that brought each feature.
Since == [tasks |-> 0, priority |-> 1, ttl |-> 1, expiry |-> 3, retry |-> 4, users |-> 5]

\* What the release that had v migrations has left.
OldSchema(v) == {f \in DOMAIN Since : Since[f] <= v}

Init ==
  /\ \/ schema = {} /\ versions = {}
     \/ schema = OldSchema(0) /\ versions = {}
     \/ \E v \in 1 .. 4 : schema = OldSchema(v) /\ versions = 0 .. v
  /\ admin = FALSE
  /\ expired = FALSE
  /\ proc = [p \in Processes |-> Down]
  /\ torn = FALSE
  /\ faults = MaxFaults

-----------------------------------------------------------------------------
(* The calls of execute, by what they do to the database                   *)

\* SQL_SCHEMA, SCHEMA_SQL: the table of this release if there is none.
Created(S) == IF "tasks" \in S THEN S ELSE S \cup {"tasks", "priority", "expiry"}

MaxVersion == Max(versions \cup {0})

\* UPDATE lapinq_schema_version SET version = 1: every row.
RowsSetTo(v) == IF versions = {} THEN {} ELSE {v}

\* PostgreSQL rejects the call: the index of SQL_SCHEMA on a column that is
\* not there, a CHECK that existing rows violate, a duplicate key.  That it
\* refuses one of two statements that change the schema at once is a Fault.
RejectedButForKeys(p) ==
  CASE proc[p].pc = "schema"  -> "priority" \notin Created(schema)
    [] proc[p].pc = "migrate" -> proc[p].version = 2 /\ expired
    [] proc[p].pc = "insert"  -> admin
    [] OTHER                  -> FALSE

Rejected(p) ==
  CASE proc[p].pc = "schema"  -> "priority" \notin Created(schema)
    [] proc[p].pc = "migrate" -> proc[p].version = 2 /\ expired
    [] proc[p].pc = "record"  -> p \in Rusts /\ Cardinality(versions) > 1
    [] proc[p].pc = "insert"  -> admin
    [] OTHER                  -> FALSE

RecordVersionLate(p) ==
  versions' = IF p \in Pythons THEN versions \cup {proc[p].version + 1}
              ELSE RowsSetTo(proc[p].version)

\* INSERT ... ON CONFLICT DO NOTHING of Python, the UPDATE of Rust.
RecordVersion(p) ==
  versions' = IF p \in Pythons THEN versions \cup {proc[p].version}
              ELSE RowsSetTo(proc[p].version)

Effect(p) ==
  /\ ~Rejected(p)
  /\ schema' = CASE proc[p].pc = "schema"  -> Created(schema)
                 [] proc[p].pc = "notify"  -> schema \cup {"trigger"}
                 [] proc[p].pc = "migrate" -> Migrated(proc[p].version, schema)
                 [] OTHER                  -> schema
  /\ CASE proc[p].pc = "zero"   -> versions' = versions \cup {0}
       [] proc[p].pc = "record" -> RecordVersion(p)
       [] OTHER                 -> UNCHANGED versions
  /\ admin' = (admin \/ proc[p].pc = "insert")
  /\ UNCHANGED expired

-----------------------------------------------------------------------------
(* The processes                                                           *)

At(p, pc) == proc[p].pc = pc

Goto(p, pc) == proc' = [proc EXCEPT ![p].pc = pc]

\* The first migration above v, or what follows the last.
GotoVersionAfter(p, v) ==
  proc' = [proc EXCEPT ![p].version = v + 1,
                       ![p].pc = IF v < LastVersion(p) THEN "migrate"
                                 ELSE IF p \in Pythons THEN "exists" ELSE "up"]

\* A container is started or restarted.
Start(p) ==
  /\ proc[p].pc \in {"down", "failed"}
  /\ proc' = [proc EXCEPT ![p] = [Down EXCEPT !.pc = "schema"]]
  /\ UNCHANGED <<dbVars, torn, faults>>

CreateSchema(p) ==
  /\ At(p, "schema")
  /\ Effect(p)
  /\ Goto(p, IF p \in Pythons THEN "notify" ELSE "select")

CreateTrigger(p) ==
  /\ At(p, "notify")
  /\ Effect(p)
  /\ Goto(p, "select")

\* SELECT COALESCE(MAX(version), 0), which is not repeated later.
ReadVersion(p) ==
  /\ At(p, "select")
  /\ \/ MaxVersion = 0 /\ Goto(p, "zero")
     \/ MaxVersion > 0 /\ GotoVersionAfter(p, MaxVersion)
  /\ UNCHANGED dbVars

InsertZero(p) ==
  /\ At(p, "zero")
  /\ Effect(p)
  /\ GotoVersionAfter(p, 0)

Migrate(p) ==
  /\ At(p, "migrate")
  /\ Effect(p)
  /\ Goto(p, "record")

Record(p) ==
  /\ At(p, "record")
  /\ Effect(p)
  /\ GotoVersionAfter(p, proc[p].version)

\* ensure_default_admin looks for any user, and inserts one if there is none.
FindUser(p) ==
  /\ At(p, "exists")
  /\ Goto(p, IF admin THEN "up" ELSE "insert")
  /\ UNCHANGED dbVars

InsertAdmin(p) ==
  /\ At(p, "insert")
  /\ Effect(p)
  /\ Goto(p, "up")

RaisedForGood(x, p) == [x EXCEPT !.pc = "failed"]

\* An exception: Storage.create closes its pool and begins again, up to
\* MaxTries times; ensure_schema panics.
Raised(x, p) ==
  IF p \in Pythons /\ x.tries + 1 < MaxTries
    THEN [Down EXCEPT !.pc = "schema", !.tries = x.tries + 1]
    ELSE [x EXCEPT !.pc = "failed"]

Reject(p) ==
  /\ proc[p].pc \in Working
  /\ Rejected(p)
  /\ proc' = [proc EXCEPT ![p] = Raised(@, p)]
  /\ UNCHANGED dbVars

\* p has dropped the constraint of version 3 and not yet put it back.
BetweenConstraints(p) ==
  \/ At(p, "record") /\ proc[p].version = 2
  \/ At(p, "migrate") /\ proc[p].version = 3

\* The loss of p now leaves the constraint of version 2 for good: another
\* process has recorded version 3, or is about to.
LeavesConstraint(p) ==
  /\ "expiry" \notin schema'
  /\ BetweenConstraints(p) \/ (At(p, "migrate") /\ proc[p].version = 2)
  /\ 3 \in versions \/ \E q \in Processes : At(q, "record") /\ proc[q].version = 3

\* The call fails, or is committed and its answer is lost; the process goes on
\* with the exception or is gone.
Fault(p) ==
  /\ faults > 0
  /\ proc[p].pc \in Working
  /\ Effect(p) \/ UNCHANGED dbVars
  /\ \E x \in {Down, Raised(proc[p], p)} : proc' = [proc EXCEPT ![p] = x]
  /\ torn' = (torn \/ LeavesConstraint(p))
  /\ faults' = faults - 1

Stop(p) ==
  /\ At(p, "up")
  /\ proc' = [proc EXCEPT ![p] = Down]
  /\ UNCHANGED <<dbVars, torn, faults>>

\* cleanup_expired_tasks of a server that is up.
Cleanup ==
  /\ \E p \in Pythons : At(p, "up")
  /\ "expiry" \in schema
  /\ expired' = TRUE
  /\ UNCHANGED <<schema, versions, admin, proc, torn, faults>>

Step(p) ==
  /\ \/ CreateSchema(p) \/ CreateTrigger(p) \/ ReadVersion(p) \/ InsertZero(p)
     \/ Migrate(p) \/ Record(p) \/ FindUser(p) \/ InsertAdmin(p) \/ Reject(p)
  /\ UNCHANGED <<torn, faults>>

Next ==
  \/ \E p \in Processes : Start(p) \/ Step(p) \/ Fault(p) \/ Stop(p)
  \/ Cleanup

\* A process that is starting goes on; nothing is said of starts and stops.
Spec == Init /\ [][Next]_vars /\ \A p \in Processes : WF_vars(Step(p))

-----------------------------------------------------------------------------
(* Properties                                                              *)

\* The schema, the version rows and the starting processes have their types.
TypeOK ==
  /\ schema \subseteq Features
  /\ versions \subseteq 0 .. 5
  /\ {admin, expired, torn} \subseteq BOOLEAN
  /\ proc \in [Processes -> Process]
  /\ faults \in 0 .. MaxFaults

\* The version never goes back, although the UPDATE of the Rust workers writes
\* 1 to every row whatever a server has recorded meanwhile: on more than one
\* row the primary key rejects it.
VersionNeverLowered == [][MaxVersion' >= MaxVersion]_vars

\* A recorded version has been applied.  Version 2 takes back what version 3
\* gives, so a process that read the version early and is late undoes version 3
\* under the eyes of the others; the status 'expired' is allowed again as soon
\* as no process is between the two, unless one was lost there.
RecordedIsApplied ==
  /\ \A v \in versions \ {0, 2, 3} : Migrated(v, schema) = schema
  /\ 3 \in versions /\ ~torn => \/ "expiry" \in schema
                                \/ \E p \in Processes : BetweenConstraints(p)

\* A process that is up finds every column, table and trigger its statements
\* use, and a server a user that can log in, whoever else was starting.
UpIsComplete ==
  /\ \A p \in Pythons : At(p, "up") => admin /\ Features \ {"expiry"} \subseteq schema
  /\ \A p \in Rusts : At(p, "up") => {"tasks", "priority", "ttl"} \subseteq schema

\* A table from before version 1.
IsOld(S) == "tasks" \in S /\ "priority" \notin S

\* The tries of Storage.create are enough: a server that starts comes up,
\* although it may lose the race for the default admin, or find rows that an
\* early migration rejects, or lose its connection.  Not so on a table from
\* before version 1: SQL_SCHEMA indexes the column that version 1 would add.
\* A Rust worker has one try and may lose its race with a server, but once
\* there is a version its next start succeeds.
StarterComesUp ==
  /\ \A p \in Pythons : At(p, "schema") ~>
       At(p, "up") \/ At(p, "down") \/ IsOld(schema)
  /\ \A p \in Rusts : At(p, "schema") /\ MaxVersion > 0 ~>
       At(p, "up") \/ At(p, "down") \/ faults < MaxFaults
=============================================================================
