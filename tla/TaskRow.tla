------------------------------- MODULE TaskRow -------------------------------
(***************************************************************************)
(* One row of the table lapinq_tasks, and every SQL statement of the       *)
(* program that writes such a row, as an operator from the row before to   *)
(* the row after.  The statements live in python/lapinq/storage.py, in     *)
(* python/lapinq/execute.py (manual retry) and, with the same text, in     *)
(* src/lib.rs (the Rust worker).  PostgreSQL runs each of them atomically. *)
(*                                                                         *)
(* Time.  Every comparison the statements make is between a stored         *)
(* timestamp and now(), so a timestamp is kept as its distance to now():   *)
(* scheduled_at as the DELAY still to wait, started_at as an AGE that      *)
(* stops growing once the row is stale, the TTL deadline as the time LEFT. *)
(* A tick of the clock moves all of them (AgeRow).                         *)
(*                                                                         *)
(* Task ids are numbered in the order of created_at.                       *)
(***************************************************************************)
EXTENDS Integers, Sequences

CONSTANTS
  NULL,                 \* SQL NULL; as a table entry: no such row
  Workers,              \* worker ids (a uuid4 per worker process)
  MaxTasks,             \* bound: how many tasks are ever enqueued
  MaxAttempts,          \* bound: statements that add 1 to attempts stop here
  Options,              \* the option records tasks are enqueued with
  StaleAfter,           \* max_running_seconds of the stale-task reaper
  RetryBackoffSeconds,  \* RETRY_BACKOFF_SECONDS, (10, 30, 60, 300, 600)
  DefaultRetryDelay     \* the 10 s used when backoff is off and no delay set

TaskIds == 1..MaxTasks

OptionType == [max_retries   : Nat,
               priority      : Int,
               ttl           : Nat \cup {NULL},
               retry_backoff : BOOLEAN,
               retry_delay   : Nat \cup {NULL},
               webhook       : BOOLEAN]

Statuses == {"pending", "running", "completed", "failed", "cancelled", "expired"}

\* The statuses the cleanup, the archive and TaskRef.wait treat as finished.
Terminal == {"completed", "failed", "cancelled", "expired"}

Row == [opts         : Options,
        status       : Statuses,
        attempts     : Nat,
        delay        : Nat,
        age          : (0 .. StaleAfter + 1) \cup {NULL},
        worker_id    : Workers \cup {NULL},
        completed_at : {NULL, "set"},
        hb           : {NULL, "fresh", "old"},
        ttl          : Int \cup {NULL}]

Table == [TaskIds -> Row \cup {NULL}]

ASSUME ConstantAssumption ==
  /\ MaxTasks \in Nat
  /\ MaxAttempts \in Nat
  /\ StaleAfter \in Nat
  /\ DefaultRetryDelay \in Nat
  /\ Options \subseteq OptionType
  /\ RetryBackoffSeconds \in Seq(Nat)
  /\ Len(RetryBackoffSeconds) > 0

ASSUME NullAssumption ==
  /\ NULL \notin Int
  /\ NULL \notin Workers
  /\ NULL \notin {"set", "fresh", "old"}
  /\ NULL \notin Row

-----------------------------------------------------------------------------
(* Retry policy                                                            *)

\* _retry_backoff_seconds: the table entry of this attempt, its last entry
\* once the table is exhausted.
RetryBackoff(attempt) ==
  IF attempt <= 0 THEN 0
  ELSE IF attempt > Len(RetryBackoffSeconds)
       THEN RetryBackoffSeconds[Len(RetryBackoffSeconds)]
       ELSE RetryBackoffSeconds[attempt]

RetryDelayUnset(o, attempt) ==
  IF o.retry_backoff THEN RetryBackoff(attempt) ELSE o.retry_delay

\* The delay fail_task gives the next attempt.
RetryDelay(o, attempt) ==
  IF o.retry_backoff THEN RetryBackoff(attempt)
  ELSE IF o.retry_delay # NULL THEN o.retry_delay
  ELSE DefaultRetryDelay

-----------------------------------------------------------------------------
(* The statements                                                          *)

\* INSERT of enqueue and enqueue_batch; d is the distance of scheduled_at.
NewRow(o, d) ==
  [opts |-> o, status |-> "pending", attempts |-> 0, delay |-> d, age |-> NULL,
   worker_id |-> NULL, completed_at |-> NULL, hb |-> NULL, ttl |-> o.ttl]

\* The row claim_task may take: pending and scheduled_at <= now().
Claimable(r) == r # NULL /\ r.status = "pending" /\ r.delay = 0

\* ORDER BY priority DESC, created_at LIMIT 1.
IsNextClaim(T, t) ==
  /\ Claimable(T[t])
  /\ \A u \in TaskIds :
        Claimable(T[u]) => \/ T[u].opts.priority < T[t].opts.priority
                           \/ T[u].opts.priority = T[t].opts.priority /\ t <= u

ClaimRowWithoutStart(r, w) ==
  [r EXCEPT !.status = "running", !.worker_id = w, !.hb = "fresh"]

ClaimRow(r, w) ==
  [r EXCEPT !.status = "running", !.age = 0, !.worker_id = w, !.hb = "fresh"]

CompleteRow(r) ==
  [r EXCEPT !.status = "completed", !.completed_at = "set"]

FailRowOneMore(r, a) ==
  IF a < r.opts.max_retries
    THEN [r EXCEPT !.status = "pending", !.attempts = a + 1,
                   !.delay = RetryDelay(r.opts, a + 1), !.age = NULL, !.worker_id = NULL]
    ELSE [r EXCEPT !.status = "failed", !.attempts = a, !.completed_at = "set"]

\* The UPDATE that ends fail_task; a is the value of attempts it read before.
FailRow(r, a) ==
  IF a + 1 < r.opts.max_retries
    THEN [r EXCEPT !.status = "pending", !.attempts = a + 1,
                   !.delay = RetryDelay(r.opts, a + 1), !.age = NULL, !.worker_id = NULL]
    ELSE [r EXCEPT !.status = "failed", !.attempts = a + 1, !.completed_at = "set"]

\* The UPDATE of execute_task when the task function raises RetryError.
RetryRow(r, d) ==
  [r EXCEPT !.status = "pending", !.attempts = @ + 1, !.delay = d,
            !.age = NULL, !.worker_id = NULL]

StaleNow(r) == r # NULL /\ r.status = "running" /\ r.age # NULL

\* started_at < now() - max_running_seconds.
Stale(r) == r # NULL /\ r.status = "running" /\ r.age # NULL /\ r.age > StaleAfter

RecoverRowKeepingOwner(r) ==
  [r EXCEPT !.status = "pending", !.attempts = @ + 1]

RecoverRowUncounted(r) ==
  [r EXCEPT !.status = "pending", !.age = NULL, !.worker_id = NULL]

RecoverRow(r) ==
  [r EXCEPT !.status = "pending", !.age = NULL, !.worker_id = NULL, !.attempts = @ + 1]

RequeueRow(r) ==
  [r EXCEPT !.status = "pending", !.attempts = 0, !.delay = 0, !.age = NULL,
            !.completed_at = NULL, !.worker_id = NULL]

CancelRow(r) ==
  [r EXCEPT !.status = "cancelled", !.completed_at = "set"]

TtlExpiredAnyStatus(r) == r # NULL /\ r.ttl # NULL /\ r.ttl < 0

\* ttl_seconds > 0, not finished, created_at + ttl_seconds < now().
TtlExpired(r) ==
  r # NULL /\ r.ttl # NULL /\ r.status \notin Terminal /\ r.ttl < 0

ExpireRow(r) ==
  [r EXCEPT !.status = "expired", !.completed_at = "set"]

HeartbeatRow(r) == [r EXCEPT !.hb = "fresh"]

\* One unit of time passes for this row.
AgeRow(r) ==
  [r EXCEPT !.delay = IF @ > 0 THEN @ - 1 ELSE 0,
            !.age   = IF @ # NULL /\ @ <= StaleAfter THEN @ + 1 ELSE @,
            !.hb    = IF @ = NULL THEN NULL ELSE "old",
            !.ttl   = IF @ # NULL /\ @ >= 0 THEN @ - 1 ELSE @]

\* The tables after the statements that touch more than one row.
RecoverTable(T)      == [t \in TaskIds |-> IF Stale(T[t]) THEN RecoverRow(T[t]) ELSE T[t]]
ExpireTable(T)       == [t \in TaskIds |-> IF TtlExpired(T[t]) THEN ExpireRow(T[t]) ELSE T[t]]
DeleteFrom(T, S)     == [t \in TaskIds |-> IF t \in S THEN NULL ELSE T[t]]
AgeTable(T)          == [t \in TaskIds |-> IF T[t] = NULL THEN NULL ELSE AgeRow(T[t])]
HeartbeatTable(T, w) ==
  [t \in TaskIds |-> IF T[t] # NULL /\ T[t].worker_id = w /\ T[t].status = "running"
                     THEN HeartbeatRow(T[t]) ELSE T[t]]

-----------------------------------------------------------------------------
(* What a row can be asked for, whoever wrote it                           *)

\* The columns agree with the status: a running row has started_at, which the
\* reaper compares, and worker_id; a pending row has neither; a finished row
\* has completed_at, which the archive compares.
Shaped(r) ==
  /\ r.status = "running" => r.age # NULL /\ r.worker_id # NULL
  /\ r.status = "pending" => r.age = NULL /\ r.worker_id = NULL
  /\ r.status \in Terminal => r.completed_at = "set"

\* The retries of the task are used up, and it has been tried.
Exhausted(r) == r.attempts >= 1 /\ r.attempts >= r.opts.max_retries
=============================================================================
