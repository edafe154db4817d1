------------------------------ MODULE PyWorker ------------------------------
(***************************************************************************)
(* The Python workers (python/lapinq/worker.py), the child processes they  *)
(* start (python/lapinq/execute.py) and the administrator's requests that  *)
(* the server passes to the storage, over the shared table lapinq_tasks.   *)
(*                                                                         *)
(* A worker is one asyncio loop.  Its control is the main coroutine of     *)
(* _worker_loop (main), one process_task coroutine per claimed task        *)
(* (execs), and the heartbeat and stale-recovery coroutines, which have no *)
(* state of their own.  Steps are the stretches between two awaits that    *)
(* another actor can tell apart.                                           *)
(*                                                                         *)
(* The same loop runs execute_task_inline in the server process; there a   *)
(* RetryError is an ordinary error, so it is the case "retry" \notin       *)
(* Outcomes.                                                               *)
(***************************************************************************)
EXTENDS TaskRow, FiniteSets

CONSTANTS
  Concurrency,  \* --concurrency
  TaskTimeout,  \* --task-timeout
  Slack,        \* how long after its timeout an execution may still be writing
  Prompt,       \* TRUE: no execution outlives TaskTimeout + Slack
  Outcomes,     \* what task functions do: "ok", "error", "retry" (RetryError)
  Countdown,    \* the countdown of RetryError
  Delays,       \* the distances of scheduled_at that tasks are enqueued with
  AdminOps,     \* the requests made: "cancel", "requeue", "delete", "cleanup"
  MaxFaults,    \* bound: how many database calls fail
  MaxOrphans    \* bound: how many abandoned children of one task are tracked

VARIABLES
  tasks,     \* the table lapinq_tasks
  nextId,    \* the id of the next task to be inserted
  main,      \* where the main coroutine of each worker is
  shutdown,  \* shutdown_event of each worker
  sem,       \* the permits left in each worker's semaphore
  execs,     \* the process_task coroutine in each slot of each worker
  orphans,   \* per task, child processes no process_task waits for any more
  fired,     \* the webhook calls made for the task since it was (re)queued
  faults     \* database failures still to come

vars == <<tasks, nextId, main, shutdown, sem, execs, orphans, fired, faults>>
dbVars == <<tasks, nextId>>
loopVars == <<main, shutdown, sem>>

Slots == Workers \X (1..Concurrency)

MaxElapsed == TaskTimeout + Slack

\* process_task: "run" awaits the child, "completing" awaits complete_task,
\* "failing" and "failwrite" await the two statements of fail_task.
Exec == [task    : TaskIds,
         pc      : {"run", "completing", "failing", "failwrite"},
         elapsed : 0..MaxElapsed,              \* time since the claim
         cause   : {NULL, "timeout", "error"}, \* the except branch taken
         att     : Nat,                        \* attempts, once fail_task has read it
         webhook : BOOLEAN]                    \* task_data["webhook_url"] is set

ASSUME WorkerAssumption ==
  /\ IsFiniteSet(Workers)
  /\ Concurrency \in Nat \ {0}
  /\ TaskTimeout \in Nat
  /\ Slack \in Nat
  /\ Prompt \in BOOLEAN
  /\ Outcomes \subseteq {"ok", "error", "retry"}
  /\ Countdown \in Nat
  /\ Delays \subseteq Nat
  /\ MaxFaults \in Nat
  /\ MaxOrphans \in Nat
  /\ NULL \notin Exec \cup [task : TaskIds, attempts : Nat]

Init ==
  /\ tasks = [t \in TaskIds |-> NULL]
  /\ nextId = 1
  /\ main = [w \in Workers |-> "top"]
  /\ shutdown = [w \in Workers |-> FALSE]
  /\ sem = [w \in Workers |-> Concurrency]
  /\ execs = [e \in Slots |-> NULL]
  /\ orphans = [t \in TaskIds |-> 0]
  /\ fired = {}
  /\ faults = MaxFaults

-----------------------------------------------------------------------------
(* The main coroutine                                                      *)

InLoop(w) == main[w] \in {"top", "acquire", "claim"}

\* while not shutdown_event.is_set()
LoopTop(w) ==
  /\ main[w] = "top"
  /\ main' = [main EXCEPT ![w] = IF shutdown[w] THEN "drain" ELSE "acquire"]
  /\ UNCHANGED <<dbVars, shutdown, sem, execs, orphans, fired, faults>>

AcquireWithoutWaiting(w) ==
  /\ main[w] = "acquire"
  /\ sem' = [sem EXCEPT ![w] = @ - 1]
  /\ main' = [main EXCEPT ![w] = "claim"]
  /\ UNCHANGED <<dbVars, shutdown, execs, orphans, fired, faults>>

\* await semaphore.acquire().  The event is not looked at again: a worker
\* that waits here when the signal arrives still claims one more task.
Acquire(w) ==
  /\ main[w] = "acquire"
  /\ sem[w] > 0
  /\ sem' = [sem EXCEPT ![w] = @ - 1]
  /\ main' = [main EXCEPT ![w] = "claim"]
  /\ UNCHANGED <<dbVars, shutdown, execs, orphans, fired, faults>>

NewExec(t) ==
  [task |-> t, pc |-> "run", elapsed |-> 0, cause |-> NULL, att |-> 0,
   webhook |-> tasks[t].opts.webhook]

\* claim_task returns a row: a process_task coroutine is created for it.
ClaimFound(w) ==
  /\ main[w] = "claim"
  /\ \E t \in TaskIds, i \in 1..Concurrency :
        /\ IsNextClaim(tasks, t)
        /\ execs[<<w, i>>] = NULL
        /\ tasks' = [tasks EXCEPT ![t] = ClaimRow(@, w)]
        /\ execs' = [execs EXCEPT ![<<w, i>>] = NewExec(t)]
  /\ main' = [main EXCEPT ![w] = "top"]
  /\ UNCHANGED <<nextId, shutdown, sem, orphans, fired, faults>>

ClaimNoneLeaking(w) ==
  /\ main[w] = "claim"
  /\ \A t \in TaskIds : ~Claimable(tasks[t])
  /\ main' = [main EXCEPT ![w] = "top"]
  /\ UNCHANGED <<dbVars, shutdown, sem, execs, orphans, fired, faults>>

\* claim_task returns None: the permit is released and the worker sleeps.
ClaimNone(w) ==
  /\ main[w] = "claim"
  /\ \A t \in TaskIds : ~Claimable(tasks[t])
  /\ sem' = [sem EXCEPT ![w] = @ + 1]
  /\ main' = [main EXCEPT ![w] = "top"]
  /\ UNCHANGED <<dbVars, shutdown, execs, orphans, fired, faults>>

\* claim_task ends without an answer: its UPDATE was committed or not.
LoseClaim(w) ==
  \/ UNCHANGED tasks
  \/ /\ main[w] = "claim"
     /\ \E t \in TaskIds : /\ IsNextClaim(tasks, t)
                           /\ tasks' = [tasks EXCEPT ![t] = ClaimRow(@, w)]

\* claim_task raises: nothing catches the exception, the finally block drains
\* the worker and the process ends.
ClaimFault(w) ==
  /\ main[w] = "claim"
  /\ faults > 0
  /\ faults' = faults - 1
  /\ LoseClaim(w)
  /\ main' = [main EXCEPT ![w] = "drain"]
  /\ UNCHANGED <<nextId, shutdown, sem, execs, orphans, fired>>

\* The server's lifespan ends and cancels its inline worker: CancelledError
\* at the await the main coroutine is at.
CancelLoop(w) ==
  /\ InLoop(w)
  /\ LoseClaim(w)
  /\ main' = [main EXCEPT ![w] = "drain"]
  /\ UNCHANGED <<nextId, shutdown, sem, execs, orphans, fired, faults>>

SlotsOf(w) == {e \in Slots : e[1] = w}

\* The processes of S go away while the children they wait for survive.
ChildrenOf(S, t) == Cardinality({e \in S : execs[e] # NULL /\ execs[e].task = t
                                                          /\ execs[e].pc = "run"})
\* The children beyond MaxOrphans are not followed.
Tracked(n) == IF n > MaxOrphans THEN MaxOrphans ELSE n

Abandon(S) ==
  /\ execs' = [e \in Slots |-> IF e \in S THEN NULL ELSE execs[e]]
  /\ orphans' = [t \in TaskIds |-> Tracked(orphans[t] + ChildrenOf(S, t))]

\* finally: await asyncio.wait(active_tasks, timeout=30); storage.close().
\* After 30 seconds the coroutines still running are dropped.
Drain(w) ==
  /\ main[w] = "drain"
  /\ Abandon(SlotsOf(w))
  /\ main' = [main EXCEPT ![w] = "stopped"]
  /\ UNCHANGED <<dbVars, shutdown, sem, fired, faults>>

\* _handle_signal.
Signal(w) ==
  /\ InLoop(w) \/ main[w] = "drain"
  /\ shutdown' = [shutdown EXCEPT ![w] = TRUE]
  /\ UNCHANGED <<dbVars, main, sem, execs, orphans, fired, faults>>

\* The worker process dies.
Crash(w) ==
  /\ InLoop(w) \/ main[w] = "drain"
  /\ Abandon(SlotsOf(w))
  /\ main' = [main EXCEPT ![w] = "crashed"]
  /\ UNCHANGED <<dbVars, shutdown, sem, fired, faults>>

-----------------------------------------------------------------------------
(* The heartbeat and stale-recovery coroutines: they run until the event   *)
(* is set or the main coroutine leaves its loop and cancels them.          *)

Heartbeat(w) ==
  /\ InLoop(w) /\ ~shutdown[w]
  /\ tasks' = HeartbeatTable(tasks, w)
  /\ UNCHANGED <<nextId, loopVars, execs, orphans, fired, faults>>

Recover(w) ==
  /\ InLoop(w) /\ ~shutdown[w]
  /\ \A t \in TaskIds : Stale(tasks[t]) => tasks[t].attempts < MaxAttempts
  /\ tasks' = RecoverTable(tasks)
  /\ UNCHANGED <<nextId, loopVars, execs, orphans, fired, faults>>

-----------------------------------------------------------------------------
(* process_task                                                            *)

At(e, pc) == execs[e] # NULL /\ execs[e].pc = pc

\* The coroutine goes on to complete_task, into an except branch, or to the
\* second statement of fail_task.
ToComplete(x)     == [x EXCEPT !.pc = "completing"]
ToFail(x, cause)  == [x EXCEPT !.pc = "failing", !.cause = cause]
ToFailWrite(x, a) == [x EXCEPT !.pc = "failwrite", !.att = a]

\* The child exits with code 0.
ChildOk(e) ==
  /\ At(e, "run")
  /\ "ok" \in Outcomes
  /\ execs' = [execs EXCEPT ![e] = ToComplete(@)]
  /\ UNCHANGED <<dbVars, loopVars, orphans, fired, faults>>

\* The child exits with code 1: the task function raised, or its row is gone.
\* Run inline, a function that raises TimeoutError itself takes the branch of
\* a timeout.
ChildError(e) ==
  /\ At(e, "run")
  /\ "error" \in Outcomes \/ tasks[execs[e].task] = NULL
  /\ \E cause \in {"timeout", "error"} :
        execs' = [execs EXCEPT ![e] = ToFail(@, cause)]
  /\ UNCHANGED <<dbVars, loopVars, orphans, fired, faults>>

\* The task function raises RetryError: the child puts the row back and exits
\* with code 0, which process_task takes for success.
ManualRetry(t) ==
  IF tasks[t] = NULL THEN UNCHANGED tasks
  ELSE /\ tasks[t].attempts < MaxAttempts
       /\ tasks' = [tasks EXCEPT ![t] = RetryRow(@, Countdown)]

ChildRetry(e) ==
  /\ At(e, "run")
  /\ "retry" \in Outcomes
  /\ ManualRetry(execs[e].task)
  /\ execs' = [execs EXCEPT ![e] = ToComplete(@)]
  /\ UNCHANGED <<nextId, loopVars, orphans, fired, faults>>

\* asyncio.wait_for cancels the execution.  The cancellation is not the
\* TimeoutError that kills the child, so the child lives on.
Timeout(e) ==
  /\ At(e, "run")
  /\ execs[e].elapsed >= TaskTimeout
  /\ execs' = [execs EXCEPT ![e] = ToFail(@, "timeout")]
  /\ orphans' = [orphans EXCEPT ![execs[e].task] = Tracked(@ + 1)]
  /\ UNCHANGED <<dbVars, loopVars, fired, faults>>

EndExecWithoutRelease(e) ==
  /\ execs' = [execs EXCEPT ![e] = NULL]
  /\ UNCHANGED sem

\* The coroutine ends: the finally clause releases the permit.
EndExec(e) ==
  /\ execs' = [execs EXCEPT ![e] = NULL]
  /\ sem' = [sem EXCEPT ![e[1]] = @ + 1]

FireWebhook(e, status) ==
  fired' = IF execs[e].webhook THEN fired \cup {<<execs[e].task, status>>} ELSE fired

\* await storage.complete_task(...), then the webhook.
CompleteWrite(e) ==
  /\ At(e, "completing")
  /\ LET t == execs[e].task
     IN tasks' = IF tasks[t] = NULL THEN tasks
                 ELSE [tasks EXCEPT ![t] = CompleteRow(@)]
  /\ FireWebhook(e, "completed")
  /\ EndExec(e)
  /\ UNCHANGED <<nextId, main, shutdown, orphans, faults>>

\* complete_task raises, its UPDATE committed or not; a call that takes longer
\* than DB_TIMEOUT raises TimeoutError.  Either way process_task goes on to
\* fail the task.
CompleteFault(e) ==
  /\ At(e, "completing")
  /\ faults > 0
  /\ faults' = faults - 1
  /\ LET t == execs[e].task
     IN \/ UNCHANGED tasks
        \/ tasks[t] # NULL /\ tasks' = [tasks EXCEPT ![t] = CompleteRow(@)]
  /\ \E cause \in {"timeout", "error"} :
        execs' = [execs EXCEPT ![e] = ToFail(@, cause)]
  /\ UNCHANGED <<nextId, loopVars, orphans, fired>>

\* fail_task, its SELECT.  No row: it returns, and the webhook is called.
FailRead(e) ==
  /\ At(e, "failing")
  /\ LET r == tasks[execs[e].task]
     IN IF r = NULL
          THEN FireWebhook(e, "failed") /\ EndExec(e)
          ELSE /\ r.attempts < MaxAttempts
               /\ execs' = [execs EXCEPT ![e] = ToFailWrite(@, r.attempts)]
               /\ UNCHANGED <<fired, sem>>
  /\ UNCHANGED <<dbVars, main, shutdown, orphans, faults>>

\* fail_task, its UPDATE, and the webhook.
FailWrite(e) ==
  /\ At(e, "failwrite")
  /\ LET t == execs[e].task
     IN tasks' = IF tasks[t] = NULL THEN tasks
                 ELSE [tasks EXCEPT ![t] = FailRow(@, execs[e].att)]
  /\ FireWebhook(e, "failed")
  /\ EndExec(e)
  /\ UNCHANGED <<nextId, main, shutdown, orphans, faults>>

\* fail_task raises.  After an error the exception is suppressed and the
\* webhook is called; after a timeout it leaves process_task.
FailFault(e) ==
  /\ At(e, "failing") \/ At(e, "failwrite")
  /\ faults > 0
  /\ faults' = faults - 1
  /\ LET t == execs[e].task
     IN \/ UNCHANGED tasks
        \/ /\ At(e, "failwrite") /\ tasks[t] # NULL
           /\ tasks' = [tasks EXCEPT ![t] = FailRow(@, execs[e].att)]
  /\ IF execs[e].cause = "error" THEN FireWebhook(e, "failed") ELSE UNCHANGED fired
  /\ EndExec(e)
  /\ UNCHANGED <<nextId, main, shutdown, orphans>>

-----------------------------------------------------------------------------
(* A child process that nobody waits for ends, or raises RetryError first. *)

OrphanExit(t) ==
  /\ orphans[t] > 0
  /\ orphans' = [orphans EXCEPT ![t] = @ - 1]
  /\ UNCHANGED <<dbVars, loopVars, execs, fired, faults>>

OrphanRetry(t) ==
  /\ orphans[t] > 0
  /\ "retry" \in Outcomes
  /\ ManualRetry(t)
  /\ orphans' = [orphans EXCEPT ![t] = @ - 1]
  /\ UNCHANGED <<nextId, loopVars, execs, fired, faults>>

-----------------------------------------------------------------------------
(* Clients, the administrator, time                                        *)

Enqueue(o, d) ==
  /\ nextId <= MaxTasks
  /\ o.ttl # 0
  /\ tasks' = [tasks EXCEPT ![nextId] = NewRow(o, d)]
  /\ nextId' = nextId + 1
  /\ UNCHANGED <<loopVars, execs, orphans, fired, faults>>

RequeueAnyStatus(t) ==
  /\ "requeue" \in AdminOps
  /\ tasks[t] # NULL
  /\ tasks' = [tasks EXCEPT ![t] = RequeueRow(@)]
  /\ fired' = fired \ {<<t, "completed">>, <<t, "failed">>}
  /\ UNCHANGED <<nextId, loopVars, execs, orphans, faults>>

Requeue(t) ==
  /\ "requeue" \in AdminOps
  /\ tasks[t] # NULL /\ tasks[t].status = "failed"
  /\ tasks' = [tasks EXCEPT ![t] = RequeueRow(@)]
  /\ fired' = fired \ {<<t, "completed">>, <<t, "failed">>}
  /\ UNCHANGED <<nextId, loopVars, execs, orphans, faults>>

CancelAnyStatus(t) ==
  /\ "cancel" \in AdminOps
  /\ tasks[t] # NULL
  /\ tasks' = [tasks EXCEPT ![t] = CancelRow(@)]
  /\ UNCHANGED <<nextId, loopVars, execs, orphans, fired, faults>>

Cancel(t) ==
  /\ "cancel" \in AdminOps
  /\ tasks[t] # NULL /\ tasks[t].status = "pending"
  /\ tasks' = [tasks EXCEPT ![t] = CancelRow(@)]
  /\ UNCHANGED <<nextId, loopVars, execs, orphans, fired, faults>>

Cleanup ==
  /\ "cleanup" \in AdminOps
  /\ tasks' = ExpireTable(tasks)
  /\ UNCHANGED <<nextId, loopVars, execs, orphans, fired, faults>>

Delete(S) ==
  /\ "delete" \in AdminOps
  /\ tasks' = DeleteFrom(tasks, S)
  /\ UNCHANGED <<nextId, loopVars, execs, orphans, fired, faults>>

AgeExec(x) ==
  IF x = NULL THEN NULL
  ELSE [x EXCEPT !.elapsed = IF @ < MaxElapsed THEN @ + 1 ELSE @]

Tick ==
  /\ Prompt => \A e \in Slots : execs[e] # NULL => execs[e].elapsed < MaxElapsed
  /\ tasks' = AgeTable(tasks)
  /\ execs' = [e \in Slots |-> AgeExec(execs[e])]
  /\ UNCHANGED <<nextId, loopVars, orphans, fired, faults>>

-----------------------------------------------------------------------------
LoopStep(w) ==
  LoopTop(w) \/ Acquire(w) \/ ClaimFound(w) \/ ClaimNone(w) \/ Drain(w)

ExecStep(e) ==
  \/ ChildOk(e) \/ ChildError(e) \/ ChildRetry(e) \/ Timeout(e)
  \/ CompleteWrite(e) \/ FailRead(e) \/ FailWrite(e)

FaultStep ==
  \/ \E w \in Workers : ClaimFault(w) \/ CancelLoop(w)
  \/ \E e \in Slots : CompleteFault(e) \/ FailFault(e)

AdminStep ==
  \/ \E t \in TaskIds : Requeue(t) \/ Cancel(t)
  \/ \E S \in SUBSET TaskIds : Delete(S)
  \/ Cleanup

Next ==
  \/ \E w \in Workers : LoopStep(w) \/ Heartbeat(w) \/ Recover(w) \/ Signal(w) \/ Crash(w)
  \/ \E e \in Slots : ExecStep(e)
  \/ \E t \in TaskIds : OrphanExit(t) \/ OrphanRetry(t)
  \/ \E o \in Options, d \in Delays : Enqueue(o, d)
  \/ FaultStep
  \/ AdminStep
  \/ Tick

Spec == Init /\ [][Next]_vars

\* Every coroutine the event loop can run is run, wait_for's timer fires, the
\* reaper runs periodically and time passes.  A task function may never
\* return.
FairSpec ==
  /\ Spec
  /\ \A w \in Workers : WF_vars(LoopStep(w)) /\ WF_vars(Recover(w))
  /\ \A e \in Slots : /\ WF_vars(Timeout(e)) /\ WF_vars(CompleteWrite(e))
                      /\ WF_vars(FailRead(e)) /\ WF_vars(FailWrite(e))
  /\ WF_vars(Tick)
-----------------------------------------------------------------------------
(* Implemented interface                                                   *)

\* What the fail_task calls in flight have read.
Failing ==
  [e \in Slots |-> IF At(e, "failwrite")
                     THEN [task |-> execs[e].task, attempts |-> execs[e].att]
                     ELSE NULL]

Storage == INSTANCE StorageAPI
             WITH Callers <- Slots, Delays <- Delays \cup {Countdown}, failing <- Failing

\* The workers, their children and the administrator, in any order and with
\* any failure, use the storage interface as StorageAPI specifies it, so what
\* is proved there of every client holds of the whole system.
StorageSpec == Storage!Spec

-----------------------------------------------------------------------------
(* Properties of one worker                                                *)

\* The table, the workers' loops, semaphores and coroutines, the orphans, the
\* webhook calls and the failure budget have their types.
TypeOK ==
  /\ tasks \in Table
  /\ nextId \in 1 .. MaxTasks + 1
  /\ main \in [Workers -> {"top", "acquire", "claim", "drain", "stopped", "crashed"}]
  /\ shutdown \in [Workers -> BOOLEAN]
  /\ sem \in [Workers -> Nat]
  /\ execs \in [Slots -> Exec \cup {NULL}]
  /\ orphans \in [TaskIds -> 0..MaxOrphans]
  /\ fired \subseteq TaskIds \X {"completed", "failed"}
  /\ faults \in 0..MaxFaults

Active(w) == {e \in SlotsOf(w) : execs[e] # NULL}

\* No path through process_task or the main loop loses or invents a permit:
\* the permits left, the executions and the claim in flight add up to the
\* concurrency while the worker is in its loop.  With it the worker never
\* needs more than the concurrency + 2 connections run_worker gives its pool.
PermitsConserved ==
  \A w \in Workers : InLoop(w) =>
    sem[w] + Cardinality(Active(w)) + (IF main[w] = "claim" THEN 1 ELSE 0) = Concurrency

-----------------------------------------------------------------------------
(* Properties of the queue.  They need the reaper to leave running tasks   *)
(* alone: an execution ends, its writes included, before its row is stale. *)

Regime ==
  /\ Prompt
  /\ TaskTimeout + Slack <= StaleAfter
  /\ "retry" \notin Outcomes

\* Two workers, or two slots of one, never execute the same task at the same
\* time, whatever crashes, deletions, cancellations, requeues and lost answers
\* of the database happen.
SoleExecution ==
  \A e, f \in Slots :
    e # f /\ execs[e] # NULL /\ execs[f] # NULL => execs[e].task # execs[f].task

\* An execution of worker w and the row it executes agree.  The row may have
\* been deleted or have expired meanwhile, and if the answer to complete_task
\* was lost it may already be completed; nobody else has touched it.
Owns(w, x, r) ==
  r # NULL =>
    /\ \/ r.status = "running" /\ r.worker_id = w /\ r.age = x.elapsed
       \/ r.status = "expired"
       \/ r.status = "completed" /\ x.pc \in {"failing", "failwrite"}
    /\ x.pc = "failwrite" => r.attempts = x.att

\* The worker that executes a task owns its row until its last write: the
\* value of attempts that fail_task has read is still the one it replaces.
ExecOwnsRow ==
  \A e \in Slots : execs[e] # NULL => Owns(e[1], execs[e], tasks[execs[e].task])

IsPending(r) == r # NULL /\ r.status = "pending"

\* A task returns to pending only by a requeue, which resets its counter, or
\* at the price of exactly one attempt: fail_task's unlocked read-then-write
\* loses no attempt and the reaper does not count one twice.
ReturnCostsOneAttempt ==
  [][\A t \in TaskIds :
       tasks[t] # NULL /\ ~IsPending(tasks[t]) /\ IsPending(tasks'[t]) =>
         \/ tasks'[t].attempts = tasks[t].attempts + 1
         \/ tasks[t].status = "failed" /\ tasks'[t].attempts = 0]_vars

\* Once a webhook has reported a task completed, the task stays completed
\* until it is deleted: it is not executed again.
CompletedHookIsTrue ==
  \A t \in TaskIds : <<t, "completed">> \in fired =>
    tasks[t] = NULL \/ tasks[t].status = "completed"

\* Where a task is in its life: its row's own status, which the API shows.
Stage(t) ==
  IF t >= nextId THEN "new"
  ELSE IF tasks[t] = NULL THEN "deleted"
  ELSE tasks[t].status

Attempts(t) == IF tasks[t] = NULL THEN 0 ELSE tasks[t].attempts

Lifecycle ==
  INSTANCE TaskLifecycle
    WITH Tasks <- TaskIds,
         status <- [t \in TaskIds |-> Stage(t)],
         attempts <- [t \in TaskIds |-> Attempts(t)]

\* A coroutine that still has task t in hand writes over a final status: the
\* UPDATEs of complete_task and fail_task name the row by its id alone.  The
\* row has expired under the coroutine, or its complete_task was committed and
\* the answer lost, after which process_task fails the task.
LateWrite(t) ==
  \E e \in Slots :
    /\ execs[e] # NULL /\ execs[e].task = t /\ execs'[e] # execs[e]
    /\ \/ /\ execs[e].pc = "completing" /\ Stage(t) = "expired"
          /\ <<Stage(t)', Attempts(t)'>> = <<"completed", Attempts(t)>>
       \/ /\ execs[e].pc = "failwrite" /\ Stage(t) \in {"expired", "completed"}
          /\ <<Stage(t)', Attempts(t)'>> \in {"pending", "failed"} \X {Attempts(t) + 1}

\* What the API shows of a task follows the documented life, whichever worker
\* crashes or loses an answer of the database; the late writes of the one
\* coroutine that has the task in hand are the only way out of it.
OnlyLateWritesStray ==
  [][\A t \in TaskIds : Lifecycle!Move(t) \/ Lifecycle!Stay(t) \/ LateWrite(t)]_vars

Up(w) == InLoop(w) /\ ~shutdown[w]

AtBound == \E t \in TaskIds : tasks[t] # NULL /\ tasks[t].attempts >= MaxAttempts

\* Every task is eventually finished, cancelled or deleted while one worker
\* stays up, although workers crash or are stopped at any point and a task
\* function may never return.
EventuallySettled ==
  \A t \in TaskIds :
    (t < nextId) ~> \/ tasks[t] = NULL \/ tasks[t].status \in Terminal
                   \/ AtBound
                   \/ \A w \in Workers : ~Up(w)
=============================================================================
