---------------------------- MODULE InlineWorker ----------------------------
(***************************************************************************)
(* From a batch to its executions, in one process: enqueue_batch           *)
(* (server.py, storage.py) inserts the rows and run_worker_inline          *)
(* (worker.py) executes them with execute_task_inline (execute.py).        *)
(*                                                                         *)
(* A plain function runs in a thread of the event loop's default executor. *)
(* The Rust executor (src/lib.rs) is tried first; whatever it raises but   *)
(* RetryError sends the task to the Python executor, although the function *)
(* may have run already.  A timeout cancels the wait and not the thread.   *)
(***************************************************************************)
EXTENDS Integers, FiniteSetsExt

CONSTANTS
  None,
  BatchSize,      \* items of the batch
  MaxRetries,     \* max_retries of its tasks
  Concurrency,    \* concurrency of the worker
  PoolSize,       \* threads of the executor
  RustAvailable   \* the import of lapinq._worker succeeded

VARIABLES
  items,          \* what the batch holds
  call,           \* the call of enqueue_batch
  rows,           \* the row of each item
  zombies,        \* threads that still run the item after a timeout
  runs            \* history: how often its function was entered

inlineVars == <<items, call, rows, zombies, runs>>

Items == 1 .. BatchSize

\* Items that are no row: ttl_seconds 0 is skipped, the INSERT of a broken one
\* raises.  Tasks: a plain function, a coroutine function, and one that the
\* worker cannot import.
Kinds == {"volatile", "broken", "plain", "coroutine", "missing"}

\* phase: where the execution of a running row is; entered: the function runs.
Row == [status : {"pending", "running", "completed", "failed"}, attempts : 0 .. MaxRetries,
        phase : {None, "import", "rust", "python", "coroutine"}, entered : BOOLEAN]

ASSUME InlineAssumption ==
  /\ {BatchSize, MaxRetries, Concurrency, PoolSize} \subseteq Nat \ {0}
  /\ RustAvailable \in BOOLEAN
  /\ None \notin Row \cup {"import", "rust", "python", "coroutine", "201", "500"}

InlineInit ==
  /\ items \in [Items -> Kinds]
  /\ call = [at |-> 1, answer |-> None]
  /\ rows = [i \in Items |-> None]
  /\ zombies = [i \in Items |-> 0]
  /\ runs = [i \in Items |-> 0]

-----------------------------------------------------------------------------
(* enqueue_batch                                                           *)

\* Its INSERT of an item.
Inserted(i) ==
  [rows EXCEPT ![i] = [status |-> "pending", attempts |-> 0, phase |-> None, entered |-> FALSE]]

InsertOrSkip(i) ==
  /\ call = [at |-> i, answer |-> None]
  /\ rows' = IF items[i] \in {"volatile", "broken"} THEN rows ELSE Inserted(i)
  /\ call' = [call EXCEPT !.at = i + 1]
  /\ UNCHANGED <<items, zombies, runs>>

\* One iteration of its loop; each INSERT is a transaction of its own.
InsertItem(i) ==
  /\ call = [at |-> i, answer |-> None]
  /\ items[i] # "broken"
  /\ rows' = IF items[i] = "volatile" THEN rows ELSE Inserted(i)
  /\ call' = [call EXCEPT !.at = i + 1]
  /\ UNCHANGED <<items, zombies, runs>>

\* The INSERT raises, or times out when it may be committed, and the loop and
\* the handler end with it.
Fails ==
  /\ call.at \in Items /\ call.answer = None
  /\ items[call.at] # "volatile"
  /\ rows' = rows \/ (items[call.at] # "broken" /\ rows' = Inserted(call.at))
  /\ call' = [at |-> BatchSize + 1, answer |-> "500"]
  /\ UNCHANGED <<items, zombies, runs>>

Answer ==
  /\ call.at > BatchSize /\ call.answer = None
  /\ call' = [call EXCEPT !.answer = "201"]
  /\ UNCHANGED <<items, rows, zombies, runs>>

-----------------------------------------------------------------------------
(* The worker                                                              *)

Running == {i \in Items : rows[i] # None /\ rows[i].status = "running"}

InPool(i) == rows[i] # None /\ rows[i].phase \in {"rust", "python"}

\* Threads of the executor that are busy.
Busy == Cardinality({i \in Items : InPool(i) /\ rows[i].entered})
          + SumFunction(zombies)

\* claim_task, with a permit of the semaphore.
Claim(i) ==
  /\ rows[i] # None /\ rows[i].status = "pending"
  /\ Cardinality(Running) < Concurrency
  /\ rows' = [rows EXCEPT ![i].status = "running", ![i].phase = "import"]
  /\ UNCHANGED <<items, call, zombies, runs>>

\* fail_task at the end of process_task.
FailedRow(r) ==
  [status |-> IF r.attempts + 1 < MaxRetries THEN "pending" ELSE "failed",
   attempts |-> r.attempts + 1, phase |-> None, entered |-> FALSE]

CompletedRow(r) == [r EXCEPT !.status = "completed", !.phase = None, !.entered = FALSE]

\* The execution goes to a thread of the executor, or waits for one.
Submitted(r, phase) == [r EXCEPT !.phase = phase, !.entered = FALSE]

\* Without the Rust executor, or if it does not take the arguments of the
\* task, the Python executor is the first to call the function.
FirstExecutor == IF RustAvailable THEN {"rust", "python"} ELSE {"python"}

\* execute_task_inline up to the call of the function.
Import(i) ==
  /\ i \in Running /\ rows[i].phase = "import"
  /\ \E phase \in FirstExecutor :
       rows' = [rows EXCEPT ![i] =
         CASE items[i] = "missing"   -> FailedRow(@)
           [] items[i] = "coroutine" -> [@ EXCEPT !.phase = "coroutine", !.entered = TRUE]
           [] items[i] = "plain"     -> Submitted(@, phase)]
  /\ runs' = [runs EXCEPT ![i] = IF items[i] = "coroutine" THEN @ + 1 ELSE @]
  /\ UNCHANGED <<items, call, zombies>>

\* A free thread takes the call.
Enter(i) ==
  /\ InPool(i) /\ ~rows[i].entered
  /\ Busy < PoolSize
  /\ rows' = [rows EXCEPT ![i].entered = TRUE]
  /\ runs' = [runs EXCEPT ![i] = @ + 1]
  /\ UNCHANGED <<items, call, zombies>>

\* What becomes of a row whose function ended with this outcome.  A result
\* that is not JSON fails in the Rust executor, is tried again in Python and
\* fails there in json.dumps of process_task.
After(r, outcome) ==
  IF outcome = "json" THEN CompletedRow(r)
  ELSE IF r.phase = "rust" /\ outcome # "RetryError" THEN Submitted(r, "python")
  ELSE FailedRow(r)

Return(i, outcome) ==
  /\ i \in Running /\ rows[i].entered
  /\ rows' = [rows EXCEPT ![i] = After(@, outcome)]
  /\ UNCHANGED <<items, call, zombies, runs>>

GiveUpAndFallBack(i) ==
  /\ i \in Running /\ rows[i].phase \notin {None, "import"}
  /\ rows' = [rows EXCEPT ![i] = IF @.phase = "rust" THEN Submitted(@, "python") ELSE FailedRow(@)]
  /\ zombies' = [zombies EXCEPT ![i] = IF InPool(i) /\ rows[i].entered THEN @ + 1 ELSE @]
  /\ UNCHANGED <<items, call, runs>>

GiveUpOnlyInPool(i) ==
  /\ i \in Running /\ InPool(i) /\ rows[i].entered
  /\ rows' = [rows EXCEPT ![i] = FailedRow(@)]
  /\ zombies' = [zombies EXCEPT ![i] = @ + 1]
  /\ UNCHANGED <<items, call, runs>>

\* wait_for gives up.  A call that waits for a thread is cancelled, and so is
\* a coroutine; a function that runs in a thread goes on.
GiveUp(i) ==
  /\ i \in Running /\ rows[i].phase \notin {None, "import"}
  /\ rows' = [rows EXCEPT ![i] = FailedRow(@)]
  /\ zombies' = [zombies EXCEPT ![i] = IF InPool(i) /\ rows[i].entered THEN @ + 1 ELSE @]
  /\ UNCHANGED <<items, call, runs>>

\* Such a thread ends; nobody awaits its result.
ZombieEnds(i) ==
  /\ zombies[i] > 0
  /\ zombies' = [zombies EXCEPT ![i] = @ - 1]
  /\ UNCHANGED <<items, call, rows, runs>>

-----------------------------------------------------------------------------
Outcomes == {"json", "other", "exception", "RetryError"}

InlineNext ==
  \/ Fails \/ Answer
  \/ \E i \in Items :
       \/ InsertItem(i) \/ Claim(i) \/ Import(i) \/ Enter(i) \/ GiveUp(i) \/ ZombieEnds(i)
       \/ \E outcome \in Outcomes : Return(i, outcome)

\* The handler ends; the worker claims, imports and times out.  A function may
\* never return, and a thread that is busy with it never be free.
Fairness ==
  /\ WF_inlineVars(Fails \/ Answer)
  /\ \A i \in Items : /\ WF_inlineVars(InsertItem(i)) /\ WF_inlineVars(Claim(i))
                      /\ WF_inlineVars(Import(i)) /\ WF_inlineVars(GiveUp(i))

InlineSpec == InlineInit /\ [][InlineNext]_inlineVars /\ Fairness

-----------------------------------------------------------------------------
(* Properties                                                              *)

\* The fallback executes a function again, within one attempt: twice and not
\* more often, however the first execution ended, and never after a timeout,
\* so that the thread that is left behind is the only one of its attempt.
RunsPerAttempt ==
  \A i \in Items : rows[i] # None =>
    LET attempts == rows[i].attempts + (IF i \in Running \/ rows[i].status = "completed" THEN 1 ELSE 0)
    IN /\ runs[i] <= 2 * attempts
       /\ zombies[i] <= rows[i].attempts

\* Each row of a batch is its own transaction: what a batch that was not
\* answered has inserted is all that came before some item, and an answered
\* one has inserted everything.
BatchIsPrefix ==
  LET tasks == {i \in Items : items[i] # "volatile"}
  IN \A i \in tasks :
       /\ rows[i] # None => \A j \in tasks : j < i => rows[j] # None
       /\ call.answer = "201" => rows[i] # None

\* A batch that was answered is executed: each of its tasks is completed or
\* failed in the end, also when functions never return and have taken all
\* threads of the executor.
AnsweredIsSettled ==
  \A i \in Items :
    (call.answer = "201" /\ items[i] # "volatile")
      ~> (rows[i] # None /\ rows[i].status \in {"completed", "failed"})
=============================================================================
