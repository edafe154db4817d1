------------------------------- MODULE Client -------------------------------
(***************************************************************************)
(* An application that calls queue() and TaskRef.wait() (client.py), each  *)
(* request through the rate limiter to its handler in server.py, while the *)
(* limiter also serves another address.  What happens to a task once it is *)
(* enqueued is the abstract TaskLifecycle, and the late writes by which    *)
(* the workers stray from it.                                              *)
(*                                                                         *)
(* The application runs promptly: time passes while it sleeps or awaits an *)
(* answer, not between its own statements.                                 *)
(***************************************************************************)
EXTENDS RateLimit

CONSTANTS
  NULL,
  App,            \* the address of the application, which it has to itself
  MaxTasks,       \* bound: tasks ever enqueued by queue()
  MaxAttempts,    \* bound: attempts of a task
  Timeout,        \* timeout of wait()
  PollInterval,   \* poll_interval of wait()
  Lateness,       \* how late time.sleep may return
  HttpTimeout,    \* how long a request may be under way
  MaxAdmitted     \* bound: no new call while so many requests of the address
                  \* passed in the window

VARIABLES
  status, attempts,  \* the tasks of queue(), as in TaskLifecycle
  settled,           \* history: for how long each of them has been finished, and
                     \* no poll of it has been answered with 500
  app,               \* the thread that calls queue() and wait()
  outcome            \* how its last wait() ended

tables == <<status, attempts, settled>>
vars == <<limiter, tables, app, outcome>>

TaskIds == 1 .. MaxTasks
Life == INSTANCE TaskLifecycle WITH Tasks <- TaskIds

Finished == {"completed", "failed", "cancelled", "expired"}

\* How long wait() may fail to see that the task is finished.
Notice == WindowSeconds + PollInterval + Lateness + HttpTimeout

ASSUME ClientAssumption ==
  /\ App \in Ips
  /\ {Timeout, PollInterval, HttpTimeout} \subseteq Nat \ {0}
  /\ Lateness \in Nat
  /\ NULL \notin TaskIds \cup STRING

\* pc: what the thread is doing.  id: the _task_id of its TaskRef.  timer: the
\* time left to sleep, or until the request under way times out.  left: the
\* time left to the deadline.  answer: the status in the answer under way.
\* crowded is a history: the limiter had no request left for the address when
\* this wait() began.
Idle ==
  [pc |-> "idle", id |-> NULL, timer |-> 0, left |-> 0, answer |-> NULL, crowded |-> FALSE]

Init ==
  /\ RateLimitInit
  /\ Life!Init
  /\ settled = [t \in TaskIds |-> 0]
  /\ app = Idle
  /\ outcome = NULL

MayCall(ip) == Cardinality(admitted[ip]) < MaxAdmitted

-----------------------------------------------------------------------------
(* queue()                                                                 *)

Ref(t) == [Idle EXCEPT !.pc = "ready", !.id = t]

\* The POST is refused (429), answered without an id (ttl_seconds 0), or with 500:
\* the TaskRef it makes has no task_id.
QueueNothing ==
  /\ app.pc = "idle" /\ MayCall(App)
  /\ \E passes \in BOOLEAN : Dispatch(App, passes)
  /\ app' = Ref(NULL)
  /\ UNCHANGED <<tables, outcome>>

\* The handler inserts the row; the answer is under way.
Queue(t) ==
  /\ app.pc = "idle" /\ MayCall(App)
  /\ status[t] = "new" /\ \A u \in TaskIds : u < t => status[u] # "new"
  /\ Dispatch(App, TRUE)
  /\ status' = [status EXCEPT ![t] = "pending"]
  /\ app' = [Idle EXCEPT !.pc = "posting", !.id = t, !.timer = HttpTimeout]
  /\ UNCHANGED <<attempts, settled, outcome>>

\* The answer arrives, which may be a 500 after the insert; or httpx raises and
\* the application has no TaskRef.
PostReturns ==
  /\ app.pc = "posting"
  /\ app' \in {Ref(app.id), Ref(NULL), Idle}
  /\ UNCHANGED <<limiter, tables, outcome>>

Forget ==
  /\ app.pc = "ready"
  /\ app' = Idle
  /\ outcome' = NULL
  /\ UNCHANGED <<limiter, tables>>

-----------------------------------------------------------------------------
(* TaskRef.wait()                                                          *)

Wait ==
  /\ app.pc = "ready" /\ MayCall(App)
  /\ app' = [app EXCEPT !.pc = "loop", !.left = Timeout,
                        !.crowded = Cardinality(InWindow(requests[App])) >= MaxRequests]
  /\ outcome' = NULL
  /\ UNCHANGED <<limiter, tables>>

Sleep(a) == [a EXCEPT !.pc = "sleeping", !.timer = PollInterval + Lateness, !.answer = NULL]

\* _fetch_result without a task_id asks nobody.
FetchNothing ==
  /\ app.pc = "loop" /\ app.left > 0
  /\ app.id = NULL
  /\ app' = Sleep(app)
  /\ UNCHANGED <<limiter, tables, outcome>>

\* get_task_result answers with the status, or with 404; the limiter, with 429.
Result(t, passes) == IF passes /\ status[t] # "deleted" THEN status[t] ELSE NULL

\* _fetch_result.  The statement of get_task_result may fail: every answer but
\* 200 is None to wait().
Fetch ==
  /\ app.pc = "loop" /\ app.left > 0
  /\ app.id # NULL
  /\ \E passes, fails \in BOOLEAN :
       /\ fails => passes
       /\ Dispatch(App, passes)
       /\ app' = [app EXCEPT !.pc = "fetching", !.timer = HttpTimeout,
                             !.answer = IF fails THEN NULL ELSE Result(app.id, passes)]
       /\ settled' = IF fails THEN [settled EXCEPT ![app.id] = 0] ELSE settled
  /\ UNCHANGED <<status, attempts, outcome>>

Ended(kind, late) == [kind |-> kind, late |-> late, crowded |-> app.crowded]

\* The answer arrives.  Only 200 with a final status ends wait().
FetchReturns ==
  /\ app.pc = "fetching"
  /\ \/ /\ app.answer \in Finished
        /\ app' = Ref(app.id)
        /\ outcome' = Ended("result", 0)
     \/ /\ app.answer \notin Finished
        /\ app' = Sleep(app)
        /\ UNCHANGED outcome
  /\ UNCHANGED <<limiter, tables>>

\* httpx raises, and so does wait().
FetchRaises ==
  /\ app.pc = "fetching"
  /\ app' = Ref(app.id)
  /\ outcome' = Ended("error", 0)
  /\ UNCHANGED <<limiter, tables>>

AwakeToNewDeadline ==
  /\ app.pc = "sleeping" /\ app.timer <= Lateness
  /\ app' = [app EXCEPT !.pc = "loop", !.left = Timeout]
  /\ UNCHANGED <<limiter, tables, outcome>>

Awake ==
  /\ app.pc = "sleeping" /\ app.timer <= Lateness
  /\ app' = [app EXCEPT !.pc = "loop"]
  /\ UNCHANGED <<limiter, tables, outcome>>

\* TimeoutError; late is how long the task has been finished by then.
GiveUp ==
  /\ app.pc = "loop" /\ app.left = 0
  /\ app' = Ref(app.id)
  /\ outcome' = Ended("timeout", IF app.id = NULL THEN 0 ELSE settled[app.id])
  /\ UNCHANGED <<limiter, tables>>

-----------------------------------------------------------------------------
(* Workers, other clients and the clock                                    *)

OtherRequest(ip) ==
  /\ ip # App /\ MayCall(ip)
  /\ \E passes \in BOOLEAN : Dispatch(ip, passes)
  /\ UNCHANGED <<tables, app, outcome>>

\* complete_task and fail_task write a row that is not running any more.
LateWays(t) ==
  IF status[t] \in {"completed", "expired"}
    THEN {<<"completed", attempts[t]>>, <<"failed", attempts[t] + 1>>,
          <<"pending", attempts[t] + 1>>}
    ELSE {}

\* A task goes one step further in its life, or is written late; enqueueing is
\* Queue.
Proceed(t) ==
  /\ status[t] # "new"
  /\ \E way \in Life!Ways(t) \cup LateWays(t) :
       /\ way[2] <= MaxAttempts
       /\ status' = [status EXCEPT ![t] = way[1]]
       /\ attempts' = [attempts EXCEPT ![t] = way[2]]
       /\ settled' = IF way[1] \in Finished THEN settled ELSE [settled EXCEPT ![t] = 0]
  /\ UNCHANGED <<limiter, app, outcome>>

\* Not while the application has a statement to execute.
Tick ==
  /\ app.pc # "loop"
  /\ app.pc \in {"sleeping", "posting", "fetching"} => app.timer > 0
  /\ RateLimitTick
  /\ app' = [app EXCEPT !.timer = Max({@ - 1, 0}), !.left = Max({@ - 1, 0})]
  /\ settled' = [t \in TaskIds |-> IF status[t] \in Finished THEN Min({settled[t] + 1, Notice + 1}) ELSE 0]
  /\ UNCHANGED <<status, attempts, outcome>>

-----------------------------------------------------------------------------
AppStep ==
  \/ FetchNothing \/ Fetch \/ FetchReturns \/ FetchRaises \/ Awake \/ GiveUp

Next ==
  \/ QueueNothing \/ PostReturns \/ Forget \/ Wait \/ AppStep
  \/ \E t \in TaskIds : Queue(t) \/ Proceed(t)
  \/ \E ip \in Ips : OtherRequest(ip)
  \/ Tick

\* wait() is executed and time does not stop.
Spec == Init /\ [][Next]_vars /\ WF_vars(AppStep) /\ WF_vars(Tick)

-----------------------------------------------------------------------------
(* Properties                                                              *)

\* wait() takes a 429 of the limiter or a 500 of the server for a task that is not
\* finished, and may poll faster than the limiter allows.  Still it notices: when
\* it raises TimeoutError, the task has not been finished, since its end or the
\* last 500, for longer than a window of the limiter, a sleep and a request.  Only
\* if Timeout is shorter than these three, as it is by default, and the address
\* was at the limit when wait() began, may every poll of a task that was finished
\* long ago be refused.
TimeoutIsTimely ==
  outcome # NULL /\ outcome.kind = "timeout" =>
    outcome.late <= Notice \/ (outcome.crowded /\ Timeout < Notice)

\* Every wait() ends, with an answer, an exception or TimeoutError.
WaitEnds == (app.pc \in {"loop", "sleeping", "fetching"}) ~> (app.pc = "ready")
=============================================================================
