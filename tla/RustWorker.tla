----------------------------- MODULE RustWorker -----------------------------
(***************************************************************************)
(* The Rust worker (src/main.rs, src/lib.rs) over the table lapinq_tasks.  *)
(* It differs from the Python worker where it matters: it claims without   *)
(* limit and lets the spawned tasks wait for a permit, it fails a task     *)
(* with the attempts it saw when it claimed it, it survives database       *)
(* errors, it never retries a failed write, it calls no webhook, and it    *)
(* stops without waiting for its tasks.                                    *)
(*                                                                         *)
(* A slot is one spawned task.  Children are python -m lapinq execute.     *)
(***************************************************************************)
EXTENDS TaskRow, FiniteSets

CONSTANTS
  Concurrency,  \* --concurrency
  TaskTimeout,  \* --task-timeout-secs
  Prompt,       \* TRUE: a claimed task is finished before its row is stale
  Outcomes,     \* what task functions do: "ok", "error", "retry" (RetryError)
  Countdown,    \* the countdown of RetryError
  AdminOps,     \* the requests made: "cancel", "requeue", "delete", "cleanup"
  FaultKinds,   \* what fails: "claim", "write" (of the database), "spawn"
  MaxFaults,    \* bound: how many calls fail
  MaxSpawned,   \* bound: how many spawned tasks a worker has at a time
  MaxOrphans    \* bound: how many abandoned children of one task are tracked

VARIABLES
  tasks,    \* the table lapinq_tasks
  nextId,   \* the id of the next task to be inserted
  loop,     \* where main() of each worker is
  sem,      \* the permits left in each worker's semaphore
  execs,    \* the spawned tasks of each worker
  orphans,  \* per task, child processes nobody waits for any more
  faults    \* failures still to come

vars == <<tasks, nextId, loop, sem, execs, orphans, faults>>

Slots == Workers \X (1..MaxSpawned)

\* "waiting" awaits the permit, "run" the child, "completing" and "failing"
\* the UPDATE.  att and max_retries are the arguments of fail_task_in_db.
Exec == [task        : TaskIds,
         pc          : {"waiting", "run", "completing", "failing"},
         age         : 0 .. StaleAfter + 1,   \* time since the claim
         ran         : 0..TaskTimeout,        \* time since the permit
         att         : Nat,
         max_retries : Nat]

ASSUME RustAssumption ==
  /\ IsFiniteSet(Workers)
  /\ {Concurrency, MaxSpawned} \subseteq Nat \ {0}
  /\ {TaskTimeout, Countdown, MaxFaults, MaxOrphans} \subseteq Nat
  /\ Prompt \in BOOLEAN
  /\ Outcomes \subseteq {"ok", "error", "retry"}
  /\ FaultKinds \subseteq {"claim", "write", "spawn"}
  /\ NULL \notin Exec

Init ==
  /\ tasks = [t \in TaskIds |-> NULL]
  /\ nextId = 1
  /\ loop = [w \in Workers |-> "claim"]
  /\ sem = [w \in Workers |-> Concurrency]
  /\ execs = [e \in Slots |-> NULL]
  /\ orphans = [t \in TaskIds |-> 0]
  /\ faults = MaxFaults

Fault(kind) ==
  /\ kind \in FaultKinds
  /\ faults > 0
  /\ faults' = faults - 1

-----------------------------------------------------------------------------
(* main                                                                    *)

Alive(w) == loop[w] \in {"claim", "closing"}

NewExec(t) ==
  [task |-> t, pc |-> "waiting", age |-> 0, ran |-> 0,
   att |-> tasks[t].attempts, max_retries |-> tasks[t].opts.max_retries]

\* claim_task returns a task: it is spawned, whether or not a permit is free.
\* Without a task the worker sleeps, which changes nothing here.
ClaimFound(w) ==
  /\ loop[w] = "claim"
  /\ \E t \in TaskIds, i \in 1..MaxSpawned :
        /\ IsNextClaim(tasks, t)
        /\ execs[<<w, i>>] = NULL
        /\ tasks' = [tasks EXCEPT ![t] = ClaimRow(@, w)]
        /\ execs' = [execs EXCEPT ![<<w, i>>] = NewExec(t)]
  /\ UNCHANGED <<nextId, loop, sem, orphans, faults>>

\* The UPDATE of claim_task was committed or not, and its answer is lost.
LoseClaim(w) ==
  \/ UNCHANGED tasks
  \/ \E t \in TaskIds : /\ IsNextClaim(tasks, t)
                        /\ tasks' = [tasks EXCEPT ![t] = ClaimRow(@, w)]

\* claim_task returns an error: the worker logs it and goes on.
ClaimFault(w) ==
  /\ loop[w] = "claim"
  /\ Fault("claim")
  /\ LoseClaim(w)
  /\ UNCHANGED <<nextId, loop, sem, execs, orphans>>

\* select! takes the signal and drops the claim_task future.
Shutdown(w) ==
  /\ loop[w] = "claim"
  /\ LoseClaim(w)
  /\ loop' = [loop EXCEPT ![w] = "closing"]
  /\ UNCHANGED <<nextId, sem, execs, orphans, faults>>

\* The spawned tasks of w are dropped; children that run survive them.
Abandon(w) ==
  /\ execs' = [e \in Slots |-> IF e[1] = w THEN NULL ELSE execs[e]]
  /\ orphans' = [t \in TaskIds |->
       LET n == orphans[t] + Cardinality({e \in Slots : /\ e[1] = w /\ execs[e] # NULL
                                                       /\ execs[e].task = t
                                                       /\ execs[e].pc = "run"})
       IN IF n > MaxOrphans THEN MaxOrphans ELSE n]

\* main has awaited the heartbeat and the stale task, and nothing else: the
\* runtime ends and drops the spawned tasks.
Stop(w) ==
  /\ loop[w] = "closing"
  /\ Abandon(w)
  /\ loop' = [loop EXCEPT ![w] = "stopped"]
  /\ UNCHANGED <<tasks, nextId, sem, faults>>

\* The worker process dies.
Crash(w) ==
  /\ Alive(w)
  /\ Abandon(w)
  /\ loop' = [loop EXCEPT ![w] = "crashed"]
  /\ UNCHANGED <<tasks, nextId, sem, faults>>

\* The heartbeat and stale tasks run until they see the shutdown signal, at the
\* latest until main returns; an error is logged and they go on.
InBackground(w) == Alive(w)

Heartbeat(w) ==
  /\ InBackground(w)
  /\ tasks' = HeartbeatTable(tasks, w)
  /\ UNCHANGED <<nextId, loop, sem, execs, orphans, faults>>

Recover(w) ==
  /\ InBackground(w)
  /\ \A t \in TaskIds : Stale(tasks[t]) => tasks[t].attempts < MaxAttempts
  /\ tasks' = RecoverTable(tasks)
  /\ UNCHANGED <<nextId, loop, sem, execs, orphans, faults>>

-----------------------------------------------------------------------------
(* A spawned task: acquire, execute_task, run_python_subprocess            *)

At(e, pc) == execs[e] # NULL /\ execs[e].pc = pc

StartWithoutPermit(e) ==
  /\ At(e, "waiting")
  /\ sem' = [sem EXCEPT ![e[1]] = @ - 1]
  /\ execs' = [execs EXCEPT ![e].pc = "run"]
  /\ UNCHANGED <<tasks, nextId, loop, orphans, faults>>

\* The permit is taken and the child spawned.
Start(e) ==
  /\ At(e, "waiting")
  /\ sem[e[1]] > 0
  /\ sem' = [sem EXCEPT ![e[1]] = @ - 1]
  /\ execs' = [execs EXCEPT ![e].pc = "run"]
  /\ UNCHANGED <<tasks, nextId, loop, orphans, faults>>

Leave(e, pc) == execs' = [execs EXCEPT ![e].pc = pc]

ChildOk(e) ==
  /\ At(e, "run")
  /\ "ok" \in Outcomes
  /\ Leave(e, "completing")
  /\ UNCHANGED <<tasks, nextId, loop, sem, orphans, faults>>

\* Exit code 1: the task function raised, or its row is gone.
ChildError(e) ==
  /\ At(e, "run")
  /\ "error" \in Outcomes \/ tasks[execs[e].task] = NULL
  /\ Leave(e, "failing")
  /\ UNCHANGED <<tasks, nextId, loop, sem, orphans, faults>>

ManualRetry(t) ==
  IF tasks[t] = NULL THEN UNCHANGED tasks
  ELSE /\ tasks[t].attempts < MaxAttempts
       /\ tasks' = [tasks EXCEPT ![t] = RetryRow(@, Countdown)]

\* RetryError: the child puts the row back and exits with code 0.
ChildRetry(e) ==
  /\ At(e, "run")
  /\ "retry" \in Outcomes
  /\ ManualRetry(execs[e].task)
  /\ Leave(e, "completing")
  /\ UNCHANGED <<nextId, loop, sem, orphans, faults>>

Orphaned(t) ==
  orphans' = [orphans EXCEPT ![t] = IF @ < MaxOrphans THEN @ + 1 ELSE @]

\* The child cannot be spawned, or waiting for it fails: fail_task_in_db gets
\* 0 attempts and 3 retries, not those of the task.
SpawnFault(e) ==
  /\ At(e, "run")
  /\ Fault("spawn")
  /\ execs' = [execs EXCEPT ![e].pc = "failing", ![e].att = 0, ![e].max_retries = 3]
  /\ UNCHANGED orphans \/ Orphaned(execs[e].task)
  /\ UNCHANGED <<tasks, nextId, loop, sem>>

\* tokio::time::timeout drops the child handle, which does not kill the child.
Timeout(e) ==
  /\ At(e, "run")
  /\ execs[e].ran >= TaskTimeout
  /\ Leave(e, "failing")
  /\ Orphaned(execs[e].task)
  /\ UNCHANGED <<tasks, nextId, loop, sem, faults>>

EndExecWithoutRelease(e) ==
  /\ execs' = [execs EXCEPT ![e] = NULL]
  /\ UNCHANGED sem

\* The spawned task ends and drops its permit.
EndExec(e) ==
  /\ execs' = [execs EXCEPT ![e] = NULL]
  /\ sem' = [sem EXCEPT ![e[1]] = @ + 1]

FailTaskInDbUncounted(r, a, m) ==
  IF a + 1 < m
    THEN [r EXCEPT !.status = "pending", !.attempts = a + 1,
                   !.delay = RetryBackoff(a + 1), !.age = NULL, !.worker_id = NULL]
    ELSE [r EXCEPT !.status = "failed", !.attempts = a, !.completed_at = "set"]

\* fail_task_in_db: always the backoff table, whatever the options of the task.
FailTaskInDb(r, a, m) ==
  IF a + 1 < m
    THEN [r EXCEPT !.status = "pending", !.attempts = a + 1,
                   !.delay = RetryBackoff(a + 1), !.age = NULL, !.worker_id = NULL]
    ELSE [r EXCEPT !.status = "failed", !.attempts = a + 1, !.completed_at = "set"]

\* The UPDATE that ends execute_task.
Written(e) ==
  LET x == execs[e]
      r == tasks[x.task]
  IN IF r = NULL THEN tasks
     ELSE [tasks EXCEPT ![x.task] = IF x.pc = "completing" THEN CompleteRow(@)
                                    ELSE FailTaskInDb(@, x.att, x.max_retries)]

Write(e) ==
  /\ At(e, "completing") \/ At(e, "failing")
  /\ tasks' = Written(e)
  /\ EndExec(e)
  /\ UNCHANGED <<nextId, loop, orphans, faults>>

\* The UPDATE returns an error, committed or not: it is only logged.
WriteFault(e) ==
  /\ At(e, "completing") \/ At(e, "failing")
  /\ Fault("write")
  /\ UNCHANGED tasks \/ tasks' = Written(e)
  /\ EndExec(e)
  /\ UNCHANGED <<nextId, loop, orphans>>

OrphanExit(t) ==
  /\ orphans[t] > 0
  /\ orphans' = [orphans EXCEPT ![t] = @ - 1]
  /\ \/ UNCHANGED tasks
     \/ "retry" \in Outcomes /\ ManualRetry(t)
  /\ UNCHANGED <<nextId, loop, sem, execs, faults>>

-----------------------------------------------------------------------------
(* Clients, the administrator, time                                        *)

Enqueue(o) ==
  /\ nextId <= MaxTasks
  /\ o.ttl # 0
  /\ tasks' = [tasks EXCEPT ![nextId] = NewRow(o, 0)]
  /\ nextId' = nextId + 1
  /\ UNCHANGED <<loop, sem, execs, orphans, faults>>

Requeue(t) ==
  /\ "requeue" \in AdminOps
  /\ tasks[t] # NULL /\ tasks[t].status = "failed"
  /\ tasks' = [tasks EXCEPT ![t] = RequeueRow(@)]
  /\ UNCHANGED <<nextId, loop, sem, execs, orphans, faults>>

Cancel(t) ==
  /\ "cancel" \in AdminOps
  /\ tasks[t] # NULL /\ tasks[t].status = "pending"
  /\ tasks' = [tasks EXCEPT ![t] = CancelRow(@)]
  /\ UNCHANGED <<nextId, loop, sem, execs, orphans, faults>>

Delete(S) ==
  /\ "delete" \in AdminOps
  /\ tasks' = DeleteFrom(tasks, S)
  /\ UNCHANGED <<nextId, loop, sem, execs, orphans, faults>>

Cleanup ==
  /\ "cleanup" \in AdminOps
  /\ tasks' = ExpireTable(tasks)
  /\ UNCHANGED <<nextId, loop, sem, execs, orphans, faults>>

AgeExec(x) ==
  IF x = NULL THEN NULL
  ELSE [x EXCEPT !.age = IF @ <= StaleAfter THEN @ + 1 ELSE @,
                 !.ran = IF x.pc = "run" /\ @ < TaskTimeout THEN @ + 1 ELSE @]

\* How old a claimed task gets if it is to be finished before it is stale: it
\* must have its permit early enough to run until its timeout.
Deadline(x) == IF x.pc = "waiting" THEN StaleAfter - TaskTimeout ELSE StaleAfter

Tick ==
  /\ Prompt => \A e \in Slots : execs[e] # NULL => execs[e].age < Deadline(execs[e])
  /\ tasks' = AgeTable(tasks)
  /\ execs' = [e \in Slots |-> AgeExec(execs[e])]
  /\ UNCHANGED <<nextId, loop, sem, orphans, faults>>

-----------------------------------------------------------------------------
WorkerStep(w) ==
  \/ ClaimFound(w) \/ ClaimFault(w) \/ Shutdown(w) \/ Stop(w) \/ Crash(w)
  \/ Heartbeat(w) \/ Recover(w)

ExecStep(e) ==
  \/ Start(e) \/ ChildOk(e) \/ ChildError(e) \/ ChildRetry(e) \/ SpawnFault(e)
  \/ Timeout(e) \/ Write(e) \/ WriteFault(e)

AdminStep ==
  \/ \E t \in TaskIds : Requeue(t) \/ Cancel(t)
  \/ \E S \in SUBSET TaskIds : Delete(S)
  \/ Cleanup

Next ==
  \/ \E w \in Workers : WorkerStep(w)
  \/ \E e \in Slots : ExecStep(e)
  \/ \E t \in TaskIds : OrphanExit(t)
  \/ \E o \in Options : Enqueue(o)
  \/ AdminStep
  \/ Tick

Spec == Init /\ [][Next]_vars

\* The runtime polls what can run, the semaphore is first come first served,
\* timers fire and time passes.  A task function may never return.
FairSpec ==
  /\ Spec
  /\ \A w \in Workers : WF_vars(ClaimFound(w)) /\ WF_vars(Recover(w))
  /\ \A e \in Slots : SF_vars(Start(e)) /\ WF_vars(Timeout(e)) /\ WF_vars(Write(e))
  /\ WF_vars(Tick)

-----------------------------------------------------------------------------
(* Properties in every regime                                              *)

\* The table, the spawned tasks and the semaphores keep their types.
TypeOK ==
  /\ tasks \in Table
  /\ nextId \in 1 .. MaxTasks + 1
  /\ loop \in [Workers -> {"claim", "closing", "stopped", "crashed"}]
  /\ sem \in [Workers -> Nat]
  /\ execs \in [Slots -> Exec \cup {NULL}]
  /\ orphans \in [TaskIds -> 0..MaxOrphans]
  /\ faults \in 0..MaxFaults

\* No path through a spawned task loses or invents a permit: a live worker
\* waits for at most Concurrency children, however many tasks it has claimed.
PermitsConserved ==
  \A w \in Workers : Alive(w) =>
    sem[w] + Cardinality({e \in Slots : /\ e[1] = w /\ execs[e] # NULL
                                        /\ execs[e].pc # "waiting"}) = Concurrency

\* Whatever snapshots the spawned tasks write and whatever fails, the columns
\* of a row agree with its status and a failed row has used up its retries.
RowsAreSound ==
  \A t \in TaskIds : tasks[t] # NULL =>
    /\ Shaped(tasks[t])
    /\ tasks[t].status = "failed" => Exhausted(tasks[t])

AtBound == \E t \in TaskIds : tasks[t] # NULL /\ tasks[t].attempts >= MaxAttempts

\* Every task is eventually finished, cancelled or deleted while one worker
\* stays up, although workers crash or stop, the database fails and a task
\* function may never return: what a failed UPDATE left running is reaped.
EventuallySettled ==
  \A t \in TaskIds :
    (t < nextId) ~> \/ tasks[t] = NULL \/ tasks[t].status \in Terminal
                   \/ AtBound
                   \/ \A w \in Workers : loop[w] # "claim"

-----------------------------------------------------------------------------
(* Properties if claimed tasks are finished before their rows are stale    *)

\* Workers can be Prompt only if TaskTimeout <= StaleAfter.
Regime == Prompt /\ "retry" \notin Outcomes

\* No task is executed, or waits to be executed, twice.
SoleExecution ==
  \A e, f \in Slots :
    e # f /\ execs[e] # NULL /\ execs[f] # NULL => execs[e].task # execs[f].task

\* The attempts a spawned task carries since its claim are those of its row
\* when it writes them back: no other worker, reaper or requeue came between.
SnapshotIsCurrent ==
  \A e \in Slots : execs[e] # NULL =>
    LET r == tasks[execs[e].task]
    IN r # NULL =>
         /\ r.attempts = execs[e].att
         /\ r.status = "expired" \/ (r.status = "running" /\ r.worker_id = e[1])

Stage(t) ==
  CASE t >= nextId -> "new" [] t < nextId /\ tasks[t] = NULL -> "deleted"
    [] OTHER -> tasks[t].status

Lifecycle ==
  INSTANCE TaskLifecycle
    WITH Tasks <- TaskIds,
         status <- [t \in TaskIds |-> Stage(t)],
         attempts <- [t \in TaskIds |-> IF tasks[t] = NULL THEN 0 ELSE tasks[t].attempts]

\* Tasks without a TTL live the documented life under Rust workers too.
LifecycleSpec == Lifecycle!Spec
=============================================================================
