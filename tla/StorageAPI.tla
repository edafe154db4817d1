----------------------------- MODULE StorageAPI -----------------------------
(***************************************************************************)
(* The task queue as its storage layer promises it: the methods of class   *)
(* Storage (python/lapinq/storage.py) that write lapinq_tasks, called by   *)
(* anyone, in any order, on any task.  Workers, the HTTP server and the    *)
(* child processes are clients of this interface; a module that models one *)
(* of them implements this specification.                                  *)
(*                                                                         *)
(* Each method is one SQL statement and one action, except fail_task: it   *)
(* reads attempts in one statement and writes attempts + 1 in another, and *)
(* other calls may run in between.                                         *)
(***************************************************************************)
EXTENDS TaskRow

CONSTANTS
  Callers,  \* the concurrent calls of fail_task
  Delays    \* the delays callers ask for: scheduled_at of enqueue, countdown
            \* of RetryError

VARIABLES
  tasks,    \* the table lapinq_tasks
  nextId,   \* the id of the next task to be inserted
  failing   \* what each running fail_task has read, NULL if it has not

vars == <<tasks, nextId, failing>>

\* What fail_task holds between its SELECT and its UPDATE.
FailRecord == [task : TaskIds, attempts : Nat]

ASSUME CallerAssumption ==
  /\ NULL \notin FailRecord
  /\ Delays \subseteq Nat

Init ==
  /\ tasks = [t \in TaskIds |-> NULL]
  /\ nextId = 1
  /\ failing = [c \in Callers |-> NULL]

-----------------------------------------------------------------------------
(* Operations                                                              *)

\* enqueue, and each INSERT of enqueue_batch, which is not a transaction.
\* A ttl_seconds of 0 returns before the INSERT.
Enqueue(o, d) ==
  /\ nextId <= MaxTasks
  /\ o.ttl # 0
  /\ tasks' = [tasks EXCEPT ![nextId] = NewRow(o, d)]
  /\ nextId' = nextId + 1
  /\ UNCHANGED failing

\* claim_task.
Claim(w) ==
  /\ \E t \in TaskIds :
        /\ IsNextClaim(tasks, t)
        /\ tasks' = [tasks EXCEPT ![t] = ClaimRow(@, w)]
  /\ UNCHANGED <<nextId, failing>>

\* complete_task: WHERE id = $1, whatever the status of the row.
Complete(t) ==
  /\ tasks[t] # NULL
  /\ tasks' = [tasks EXCEPT ![t] = CompleteRow(@)]
  /\ UNCHANGED <<nextId, failing>>

\* fail_task, its SELECT.  No row: it returns.
FailRead(c, t) ==
  /\ failing[c] = NULL
  /\ tasks[t] # NULL
  /\ tasks[t].attempts < MaxAttempts
  /\ failing' = [failing EXCEPT ![c] = [task |-> t, attempts |-> tasks[t].attempts]]
  /\ UNCHANGED <<tasks, nextId>>

\* fail_task, its UPDATE, which finds no row if the task was deleted.
FailWrite(c) ==
  /\ failing[c] # NULL
  /\ LET t == failing[c].task
     IN tasks' = IF tasks[t] = NULL THEN tasks
                 ELSE [tasks EXCEPT ![t] = FailRow(@, failing[c].attempts)]
  /\ failing' = [failing EXCEPT ![c] = NULL]
  /\ UNCHANGED nextId

\* Calls of fail_task that end without their UPDATE: an exception, or the
\* process that made them is gone.
FailAbort(C) ==
  /\ failing' = [c \in Callers |-> IF c \in C THEN NULL ELSE failing[c]]
  /\ UNCHANGED <<tasks, nextId>>

\* execute_task on RetryError, in the child process.
ManualRetry(t, d) ==
  /\ tasks[t] # NULL
  /\ tasks[t].attempts < MaxAttempts
  /\ tasks' = [tasks EXCEPT ![t] = RetryRow(@, d)]
  /\ UNCHANGED <<nextId, failing>>

Heartbeat(w) ==
  /\ tasks' = HeartbeatTable(tasks, w)
  /\ UNCHANGED <<nextId, failing>>

\* recover_stale_tasks.
Recover ==
  /\ \A t \in TaskIds : Stale(tasks[t]) => tasks[t].attempts < MaxAttempts
  /\ tasks' = RecoverTable(tasks)
  /\ UNCHANGED <<nextId, failing>>

\* requeue_task: WHERE id = $1 AND status = 'failed'.
Requeue(t) ==
  /\ tasks[t] # NULL
  /\ tasks[t].status = "failed"
  /\ tasks' = [tasks EXCEPT ![t] = RequeueRow(@)]
  /\ UNCHANGED <<nextId, failing>>

\* cancel_task: WHERE id = $1 AND status = 'pending'.
Cancel(t) ==
  /\ tasks[t] # NULL
  /\ tasks[t].status = "pending"
  /\ tasks' = [tasks EXCEPT ![t] = CancelRow(@)]
  /\ UNCHANGED <<nextId, failing>>

\* cleanup_expired_tasks.
Cleanup ==
  /\ tasks' = ExpireTable(tasks)
  /\ UNCHANGED <<nextId, failing>>

\* delete_tasks: the rows its filter selects, in any status.
Delete(S) ==
  /\ tasks' = DeleteFrom(tasks, S)
  /\ UNCHANGED <<nextId, failing>>

Tick ==
  /\ tasks' = AgeTable(tasks)
  /\ UNCHANGED <<nextId, failing>>

-----------------------------------------------------------------------------
(* The next-state relation                                                 *)

TaskStep(t) ==
  \/ Complete(t)
  \/ Requeue(t)
  \/ Cancel(t)
  \/ \E d \in Delays : ManualRetry(t, d)
  \/ \E c \in Callers : FailRead(c, t)

Next ==
  \/ \E o \in Options, d \in Delays : Enqueue(o, d)
  \/ \E w \in Workers : Claim(w) \/ Heartbeat(w)
  \/ \E t \in TaskIds : TaskStep(t)
  \/ \E c \in Callers : FailWrite(c)
  \/ \E C \in SUBSET Callers : FailAbort(C)
  \/ \E S \in SUBSET TaskIds : Delete(S)
  \/ Recover
  \/ Cleanup
  \/ Tick

Spec == Init /\ [][Next]_vars

-----------------------------------------------------------------------------
(* Properties                                                              *)

\* The columns keep their types, whatever calls of Storage overlap.
TypeOK ==
  /\ tasks \in Table
  /\ nextId \in 1 .. MaxTasks + 1
  /\ failing \in [Callers -> FailRecord \cup {NULL}]

\* Whatever the order of the calls, the columns of a row agree with its
\* status.  A running row has started_at, so the reaper's comparison can see
\* it, and worker_id; a pending row has neither, so no worker's heartbeat
\* touches it; a finished row has completed_at, the column the archive reads.
RowShape == \A t \in TaskIds : tasks[t] # NULL => Shaped(tasks[t])

\* A row is failed only once its attempts are used up, although fail_task
\* computes attempts from a value that requeue, the reaper, a manual retry or
\* a second fail_task may have replaced before its UPDATE.
FailedIsExhausted ==
  \A t \in TaskIds :
    tasks[t] # NULL /\ tasks[t].status = "failed" => Exhausted(tasks[t])
=============================================================================
