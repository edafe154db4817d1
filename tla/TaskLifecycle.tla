---------------------------- MODULE TaskLifecycle ----------------------------
(***************************************************************************)
(* The life of a task as the users of the queue are promised it (README,   *)
(* "Task Lifecycle", with cancellation, expiry and deletion): only these   *)
(* edges exist, and attempts counts the executions that did not succeed    *)
(* since the task was enqueued or requeued.  No worker, no clock and no    *)
(* ownership: a module with workers is correct if it implements this       *)
(* specification.                                                          *)
(***************************************************************************)
EXTENDS Naturals

CONSTANT Tasks

VARIABLES
  status,    \* where each task is in its life
  attempts   \* its counter

Init ==
  /\ status = [t \in Tasks |-> "new"]
  /\ attempts = [t \in Tasks |-> 0]

\* Where task t may go, with the value its counter gets.
Ways(t) ==
  LET a == attempts[t]
  IN CASE status[t] = "new"     -> {<<"pending", 0>>}               \* enqueue
       [] status[t] = "pending" -> {<<"running", a>>,               \* claimed
                                    <<"cancelled", a>>, <<"expired", a>>, <<"deleted", 0>>}
       [] status[t] = "running" -> {<<"completed", a>>, <<"failed", a + 1>>,
                                    <<"pending", a + 1>>,           \* failed or recovered
                                    <<"expired", a>>, <<"deleted", 0>>}
       [] status[t] = "failed"  -> {<<"pending", 0>>, <<"deleted", 0>>}  \* requeue
       [] OTHER                 -> {<<"deleted", 0>>}

Move(t) == <<status'[t], attempts'[t]>> \in Ways(t)

Stay(t) == status'[t] = status[t] /\ attempts'[t] = attempts[t]

\* One statement may move several tasks (the reaper, a deletion by filter).
Next ==
  /\ DOMAIN status' = Tasks /\ DOMAIN attempts' = Tasks
  /\ \A t \in Tasks : Move(t) \/ Stay(t)

Spec == Init /\ [][Next]_<<status, attempts>>
=============================================================================
