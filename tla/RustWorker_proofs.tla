-------------------------- MODULE RustWorker_proofs --------------------------
(***************************************************************************)
(* Theorems about the Rust workers, for any number of workers, spawned     *)
(* tasks and rows and any bounds.  In every regime: types, permits and     *)
(* sound rows, whatever snapshots are written back.  If claimed tasks are  *)
(* finished before their rows are stale: exclusive execution, snapshots    *)
(* that are current, and the documented life of a task.                    *)
(***************************************************************************)
EXTENDS RustWorker, TaskRow_proofs, FiniteSetTheorems

Pcs == {"waiting", "run", "completing", "failing"}

-----------------------------------------------------------------------------
(* Types                                                                   *)

\* A slot belongs to a worker.
LEMMA SlotFacts ==
  /\ \A e \in Slots : e[1] \in Workers
  /\ \A w \in Workers, i \in 1..MaxSpawned : <<w, i>> \in Slots /\ <<w, i>>[1] = w
BY DEF Slots

\* The slots are finitely many.
LEMMA SlotsFinite == IsFiniteSet(Slots)
<1>1. IsFiniteSet(Workers) /\ IsFiniteSet(1..MaxSpawned)
  BY RustAssumption, FS_Interval
<1> QED  BY <1>1, FS_Product DEF Slots

\* A claimed row gives a new spawned task that carries a copy of two columns.
LEMMA NewExecType ==
  ASSUME NEW t \in TaskIds, tasks[t] \in Row
  PROVE  /\ NewExec(t) \in Exec
         /\ NewExec(t).task = t /\ NewExec(t).pc = "waiting" /\ NewExec(t).age = 0
         /\ NewExec(t).att = tasks[t].attempts
         /\ NewExec(t).max_retries = tasks[t].opts.max_retries
<1>1. tasks[t].opts.max_retries \in Nat /\ tasks[t].attempts \in Nat
  BY ConstantAssumption DEF Row, OptionType
<1>2. 0 \in 0 .. StaleAfter + 1 /\ 0 \in 0..TaskTimeout
  BY RustAssumption, ConstantAssumption
<1> QED  BY <1>1, <1>2 DEF NewExec, Exec

\* Time moves only the two clocks of a spawned task.
LEMMA AgeExecType ==
  ASSUME NEW x \in Exec
  PROVE  /\ AgeExec(x) \in Exec
         /\ AgeExec(x).task = x.task /\ AgeExec(x).pc = x.pc /\ AgeExec(x).att = x.att
         /\ AgeExec(x).max_retries = x.max_retries
         /\ x.age <= StaleAfter => AgeExec(x).age = x.age + 1
<1>1. x # NULL
  BY RustAssumption
<1>2. (IF x.age <= StaleAfter THEN x.age + 1 ELSE x.age) \in 0 .. StaleAfter + 1
  BY ConstantAssumption DEF Exec
<1>3. x.ran \in 0..TaskTimeout /\ TaskTimeout \in Nat
  BY RustAssumption DEF Exec
<1>4. (IF x.pc = "run" /\ x.ran < TaskTimeout THEN x.ran + 1 ELSE x.ran) \in 0..TaskTimeout
  BY <1>3
<1> QED  BY <1>1, <1>2, <1>4 DEF AgeExec, Exec

\* A spawned task at its next await: nothing else of it changes.
LEMMA Moved ==
  ASSUME TypeOK, NEW e \in Slots, execs[e] # NULL, NEW p \in Pcs,
         execs' = [execs EXCEPT ![e].pc = p]
  PROVE  /\ execs' \in [Slots -> Exec \cup {NULL}]
         /\ execs'[e] \in Exec /\ execs'[e] # NULL
         /\ execs'[e].pc = p /\ execs'[e].task = execs[e].task
         /\ execs'[e].age = execs[e].age /\ execs'[e].att = execs[e].att
         /\ execs'[e].max_retries = execs[e].max_retries
         /\ \A f \in Slots : f # e => execs'[f] = execs[f]
<1> DEFINE x == [execs[e] EXCEPT !.pc = p]
<1>1. execs[e] \in Exec
  BY DEF TypeOK
<1>2. /\ x \in Exec /\ x.pc = p /\ x.task = execs[e].task /\ x.age = execs[e].age
      /\ x.att = execs[e].att /\ x.max_retries = execs[e].max_retries
  BY <1>1 DEF Exec, Pcs
<1>3. x # NULL
  BY <1>2, RustAssumption
<1>4. execs' = [execs EXCEPT ![e] = x]
  OBVIOUS
<1> HIDE DEF x
<1> QED  BY <1>2, <1>3, <1>4 DEF TypeOK

\* A child that cannot be spawned replaces the copies of the two columns.
LEMMA Spoilt ==
  ASSUME TypeOK, NEW e \in Slots, SpawnFault(e)
  PROVE  /\ execs' \in [Slots -> Exec \cup {NULL}]
         /\ execs'[e] \in Exec /\ execs'[e] # NULL
         /\ execs'[e].pc = "failing" /\ execs'[e].task = execs[e].task
         /\ execs'[e].age = execs[e].age
         /\ execs'[e].att = 0 /\ execs'[e].max_retries = 3
         /\ \A f \in Slots : f # e => execs'[f] = execs[f]
<1> DEFINE x == [execs[e] EXCEPT !.pc = "failing", !.att = 0, !.max_retries = 3]
<1>1. execs[e] \in Exec
  BY DEF TypeOK, SpawnFault, At
<1>2. /\ x \in Exec /\ x.pc = "failing" /\ x.task = execs[e].task /\ x.age = execs[e].age
      /\ x.att = 0 /\ x.max_retries = 3
  BY <1>1 DEF Exec
<1>3. x # NULL
  BY <1>2, RustAssumption
<1>4. execs' = [execs EXCEPT ![e] = x]
  BY <1>1 DEF SpawnFault, TypeOK, Exec
<1> HIDE DEF x
<1> QED  BY <1>2, <1>3, <1>4 DEF TypeOK

\* fail_task_in_db, whatever attempts and limit its caller holds.
LEMMA FailTaskInDbType ==
  ASSUME NEW r \in Row, NEW a \in Nat, NEW m \in Nat
  PROVE  LET s == FailTaskInDb(r, a, m) IN
         /\ s \in Row /\ s.attempts = a + 1 /\ s.opts = r.opts /\ s.ttl = r.ttl
         /\ \/ s.status = "pending" /\ s.age = NULL /\ s.worker_id = NULL /\ a + 1 < m
            \/ s.status = "failed" /\ s.completed_at = "set" /\ a + 1 >= m
<1>1. RetryBackoff(a + 1) \in Nat /\ a + 1 \in Nat
  BY RetryBackoffType
<1>2. CASE a + 1 < m
  BY <1>1, <1>2 DEF FailTaskInDb, Row, Statuses
<1>3. CASE ~(a + 1 < m)
  <2> DEFINE s == FailTaskInDb(r, a, m)
  <2>1. s = [r EXCEPT !.status = "failed", !.attempts = a + 1, !.completed_at = "set"]
    BY <1>3 DEF FailTaskInDb
  <2>2. s \in Row
    BY <1>1, <2>1 DEF Row, Statuses
  <2>3. /\ s.status = "failed" /\ s.completed_at = "set" /\ s.attempts = a + 1
        /\ s.opts = r.opts /\ s.ttl = r.ttl
    BY <2>1 DEF Row
  <2>4. a + 1 >= m
    BY <1>3
  <2> QED  BY <2>2, <2>3, <2>4
<1> QED  BY <1>2, <1>3

\* The UPDATE that ends execute_task writes a row over a row.
LEMMA WrittenType ==
  ASSUME TypeOK, NEW e \in Slots, execs[e] # NULL
  PROVE  LET t == execs[e].task IN
         /\ t \in TaskIds /\ Written(e) \in Table
         /\ \A u \in TaskIds : u # t => Written(e)[u] = tasks[u]
         /\ tasks[t] = NULL => Written(e) = tasks
         /\ tasks[t] # NULL =>
              /\ tasks[t] \in Row
              /\ Written(e)[t] = IF execs[e].pc = "completing" THEN CompleteRow(tasks[t])
                                 ELSE FailTaskInDb(tasks[t], execs[e].att, execs[e].max_retries)
<1> DEFINE t == execs[e].task
           s == IF execs[e].pc = "completing" THEN CompleteRow(tasks[t])
                ELSE FailTaskInDb(tasks[t], execs[e].att, execs[e].max_retries)
<1>1. t \in TaskIds /\ execs[e].att \in Nat /\ execs[e].max_retries \in Nat
  BY DEF TypeOK, Exec
<1>2. Written(e) = IF tasks[t] = NULL THEN tasks ELSE [tasks EXCEPT ![t] = s]
  BY DEF Written
<1>3. tasks[t] # NULL => tasks[t] \in Row
  BY <1>1 DEF TypeOK, Table
<1>4. tasks[t] # NULL => s \in Row
  BY <1>1, <1>3, CompleteRowType, FailTaskInDbType
<1> HIDE DEF s
<1>5. /\ Written(e) \in Table /\ (tasks[t] # NULL => Written(e)[t] = s)
      /\ \A u \in TaskIds : u # t => Written(e)[u] = tasks[u]
  BY <1>1, <1>2, <1>4 DEF TypeOK, Table
<1> QED  BY <1>1, <1>2, <1>3, <1>5 DEF s

\* Abandoned children are counted up to the bound.
LEMMA AbandonType ==
  ASSUME TypeOK, NEW w \in Workers, Abandon(w)
  PROVE  /\ execs' \in [Slots -> Exec \cup {NULL}]
         /\ orphans' \in [TaskIds -> 0..MaxOrphans]
         /\ \A e \in Slots : execs'[e] = IF e[1] = w THEN NULL ELSE execs[e]
<1> DEFINE C(t) == {e \in Slots : /\ e[1] = w /\ execs[e] # NULL
                                  /\ execs[e].task = t /\ execs[e].pc = "run"}
           n(t) == orphans[t] + Cardinality(C(t))
<1>1. ASSUME NEW t \in TaskIds PROVE n(t) \in Nat
  <2>1. C(t) \in SUBSET Slots
    OBVIOUS
  <2>2. IsFiniteSet(C(t))
    BY <2>1, SlotsFinite, FS_Subset
  <2>3. Cardinality(C(t)) \in Nat
    BY <2>2, FS_CardinalityType
  <2> HIDE DEF C
  <2> QED  BY <2>3, RustAssumption DEF TypeOK
<1>2. orphans' = [t \in TaskIds |-> IF n(t) > MaxOrphans THEN MaxOrphans ELSE n(t)]
  BY DEF Abandon
<1> HIDE DEF n, C
<1>3. orphans' \in [TaskIds -> 0..MaxOrphans]
  BY <1>1, <1>2, RustAssumption
<1> QED  BY <1>3 DEF Abandon, TypeOK

\* A claim whose answer is lost has taken a row or not.
LEMMA LoseClaimType ==
  ASSUME TypeOK, NEW w \in Workers, LoseClaim(w)
  PROVE  tasks' \in Table
<1>1. CASE UNCHANGED tasks
  BY <1>1 DEF TypeOK
<1>2. CASE \E t \in TaskIds : /\ IsNextClaim(tasks, t)
                              /\ tasks' = [tasks EXCEPT ![t] = ClaimRow(@, w)]
  BY <1>2, ClaimRowType DEF TypeOK, IsNextClaim, Claimable, Table
<1> QED  BY <1>1, <1>2 DEF LoseClaim

\* A manual retry writes a row over a row.
LEMMA ManualRetryType ==
  ASSUME TypeOK, NEW t \in TaskIds, ManualRetry(t)
  PROVE  tasks' \in Table
BY BackToPendingType, RustAssumption DEF ManualRetry, TypeOK, Table

\* main, the heartbeat and the stale task keep the types.
LEMMA WorkerTypeOK ==
  ASSUME TypeOK, NEW w \in Workers, WorkerStep(w)
  PROVE  TypeOK'
<1>1. CASE ClaimFound(w)
  <2>1. PICK t \in TaskIds, i \in 1..MaxSpawned :
          /\ IsNextClaim(tasks, t)
          /\ tasks' = [tasks EXCEPT ![t] = ClaimRow(@, w)]
          /\ execs' = [execs EXCEPT ![<<w, i>>] = NewExec(t)]
    BY <1>1 DEF ClaimFound
  <2>2. tasks[t] \in Row
    BY <2>1 DEF IsNextClaim, Claimable, TypeOK, Table
  <2>3. ClaimRow(tasks[t], w) \in Row /\ NewExec(t) \in Exec
    BY <2>2, ClaimRowType, NewExecType
  <2>4. tasks' \in Table /\ execs' \in [Slots -> Exec \cup {NULL}]
    BY <2>1, <2>3 DEF Table, TypeOK
  <2> QED  BY <1>1, <2>4 DEF ClaimFound, TypeOK
<1>2. CASE ClaimFault(w)
  BY <1>2, LoseClaimType, RustAssumption DEF ClaimFault, Fault, TypeOK
<1>3. CASE Shutdown(w)
  BY <1>3, LoseClaimType DEF Shutdown, TypeOK
<1>4. CASE Stop(w)
  BY <1>4, AbandonType DEF Stop, TypeOK
<1>5. CASE Crash(w)
  BY <1>5, AbandonType DEF Crash, TypeOK
<1>6. CASE Heartbeat(w)
  <2>1. tasks' \in Table
    BY <1>6, HeartbeatRowType DEF Heartbeat, HeartbeatTable, Table, TypeOK
  <2> QED  BY <1>6, <2>1 DEF Heartbeat, TypeOK
<1>7. CASE Recover(w)
  <2>1. \A t \in TaskIds : Stale(tasks[t]) => RecoverRow(tasks[t]) \in Row
    BY BackToPendingType DEF Stale, TypeOK, Table
  <2>2. tasks' \in Table
    BY <1>7, <2>1 DEF Recover, RecoverTable, TypeOK, Table
  <2> QED  BY <1>7, <2>2 DEF Recover, TypeOK
<1> QED  BY <1>1, <1>2, <1>3, <1>4, <1>5, <1>6, <1>7 DEF WorkerStep

\* One more abandoned child.
LEMMA OrphanedType ==
  ASSUME TypeOK, NEW t \in TaskIds, Orphaned(t)
  PROVE  orphans' \in [TaskIds -> 0..MaxOrphans]
<1>1. (IF orphans[t] < MaxOrphans THEN orphans[t] + 1 ELSE orphans[t]) \in 0..MaxOrphans
  BY RustAssumption DEF TypeOK
<1> QED  BY <1>1 DEF Orphaned, TypeOK

\* The steps of a spawned task keep the types.
LEMMA ExecTypeOK ==
  ASSUME TypeOK, NEW e \in Slots, ExecStep(e)
  PROVE  TypeOK'
<1>0. execs[e] # NULL /\ execs[e].task \in TaskIds /\ e[1] \in Workers
  BY SlotFacts DEF TypeOK, Exec, ExecStep, At, Start, ChildOk, ChildError, ChildRetry,
                   SpawnFault, Timeout, Write, WriteFault
<1>1. CASE Start(e)
  <2>1. execs' \in [Slots -> Exec \cup {NULL}]
    BY <1>0, <1>1, Moved DEF Start, Pcs
  <2>2. sem' \in [Workers -> Nat]
    BY <1>0, <1>1 DEF Start, TypeOK
  <2> QED  BY <1>1, <2>1, <2>2 DEF Start, TypeOK
<1>2. CASE ChildOk(e)
  <2>1. execs' \in [Slots -> Exec \cup {NULL}]
    BY <1>0, <1>2, Moved DEF ChildOk, Leave, Pcs
  <2> QED  BY <1>2, <2>1 DEF ChildOk, TypeOK
<1>3. CASE ChildError(e)
  <2>1. execs' \in [Slots -> Exec \cup {NULL}]
    BY <1>0, <1>3, Moved DEF ChildError, Leave, Pcs
  <2> QED  BY <1>3, <2>1 DEF ChildError, TypeOK
<1>4. CASE ChildRetry(e)
  <2>1. execs' \in [Slots -> Exec \cup {NULL}]
    BY <1>0, <1>4, Moved DEF ChildRetry, Leave, Pcs
  <2>2. tasks' \in Table
    BY <1>0, <1>4, ManualRetryType DEF ChildRetry
  <2> QED  BY <1>4, <2>1, <2>2 DEF ChildRetry, TypeOK
<1>5. CASE SpawnFault(e)
  <2>1. execs' \in [Slots -> Exec \cup {NULL}]
    BY <1>5, Spoilt
  <2>2. orphans' \in [TaskIds -> 0..MaxOrphans]
    BY <1>0, <1>5, OrphanedType DEF SpawnFault, TypeOK
  <2> QED  BY <1>5, <2>1, <2>2, RustAssumption DEF SpawnFault, Fault, TypeOK
<1>6. CASE Timeout(e)
  <2>1. execs' \in [Slots -> Exec \cup {NULL}]
    BY <1>0, <1>6, Moved DEF Timeout, Leave, Pcs
  <2>2. orphans' \in [TaskIds -> 0..MaxOrphans]
    BY <1>0, <1>6, OrphanedType DEF Timeout
  <2> QED  BY <1>6, <2>1, <2>2 DEF Timeout, TypeOK
<1>7. CASE Write(e) \/ WriteFault(e)
  <2>1. execs' \in [Slots -> Exec \cup {NULL}] /\ sem' \in [Workers -> Nat]
    BY <1>0, <1>7 DEF Write, WriteFault, EndExec, TypeOK
  <2>2. tasks' \in Table
    BY <1>0, <1>7, WrittenType DEF Write, WriteFault, TypeOK
  <2>3. UNCHANGED <<nextId, loop, orphans>> /\ faults' \in 0..MaxFaults
    BY <1>7, RustAssumption DEF Write, WriteFault, Fault, TypeOK
  <2> QED  BY <2>1, <2>2, <2>3 DEF TypeOK
<1> QED  BY <1>1, <1>2, <1>3, <1>4, <1>5, <1>6, <1>7 DEF ExecStep

\* Orphans, clients, administrators and time keep the types.
LEMMA OtherTypeOK ==
  ASSUME TypeOK,
         \/ \E t \in TaskIds : OrphanExit(t)
         \/ \E o \in Options : Enqueue(o)
         \/ AdminStep
         \/ Tick
  PROVE  TypeOK'
<1>a. \A t \in TaskIds : /\ tasks[t] # NULL => tasks[t] \in Row
                         /\ \A s \in Row : [tasks EXCEPT ![t] = s] \in Table
  BY DEF TypeOK, Table
<1>1. ASSUME NEW t \in TaskIds, OrphanExit(t) PROVE TypeOK'
  <2>1. orphans' \in [TaskIds -> 0..MaxOrphans]
    BY <1>1, RustAssumption DEF OrphanExit, TypeOK
  <2>2. tasks' \in Table
    BY <1>1, ManualRetryType DEF OrphanExit, TypeOK
  <2> QED  BY <1>1, <2>1, <2>2 DEF OrphanExit, TypeOK
<1>2. ASSUME NEW o \in Options, Enqueue(o) PROVE TypeOK'
  <2>1. nextId \in TaskIds /\ nextId + 1 \in 1 .. MaxTasks + 1
    BY <1>2, ConstantAssumption DEF Enqueue, TaskIds, TypeOK
  <2>2. tasks' \in Table
    BY <1>a, <1>2, <2>1, NewRowType, 0 \in Nat DEF Enqueue
  <2> QED  BY <1>2, <2>1, <2>2 DEF Enqueue, TypeOK
<1>3. ASSUME NEW t \in TaskIds, Requeue(t) PROVE TypeOK'
  <2>1. tasks' \in Table
    BY <1>a, <1>3, BackToPendingType, 0 \in Nat DEF Requeue
  <2> QED  BY <1>3, <2>1 DEF Requeue, TypeOK
<1>4. ASSUME NEW t \in TaskIds, Cancel(t) PROVE TypeOK'
  <2>1. tasks' \in Table
    BY <1>a, <1>4, FinishRowType DEF Cancel
  <2> QED  BY <1>4, <2>1 DEF Cancel, TypeOK
<1>5. ASSUME NEW S \in SUBSET TaskIds, Delete(S) PROVE TypeOK'
  <2>1. tasks' \in Table
    BY <1>5 DEF Delete, DeleteFrom, TypeOK, Table
  <2> QED  BY <1>5, <2>1 DEF Delete, TypeOK
<1>6. CASE Cleanup
  <2>1. tasks' \in Table
    BY <1>a, <1>6, FinishRowType DEF Cleanup, ExpireTable, TtlExpired, TypeOK, Table
  <2> QED  BY <1>6, <2>1 DEF Cleanup, TypeOK
<1>7. CASE Tick
  <2>1. tasks' \in Table
    BY <1>a, <1>7, AgeRowType DEF Tick, AgeTable, TypeOK, Table
  <2>2. \A e \in Slots : AgeExec(execs[e]) \in Exec \cup {NULL}
    BY AgeExecType DEF TypeOK, AgeExec
  <2>3. execs' \in [Slots -> Exec \cup {NULL}]
    BY <1>7, <2>2 DEF Tick
  <2> QED  BY <1>7, <2>1, <2>3 DEF Tick, TypeOK
<1> QED  BY <1>1, <1>2, <1>3, <1>4, <1>5, <1>6, <1>7 DEF AdminStep

\* Every step keeps the types.
LEMMA NextTypeOK == TypeOK /\ [Next]_vars => TypeOK'
<1> SUFFICES ASSUME TypeOK, [Next]_vars PROVE TypeOK'
  OBVIOUS
<1>1. CASE UNCHANGED vars
  BY <1>1 DEF vars, TypeOK
<1>2. CASE Next
  BY <1>2, WorkerTypeOK, ExecTypeOK, OtherTypeOK DEF Next
<1> QED  BY <1>1, <1>2

\* The initial state is well typed.
LEMMA InitTypeOK == Init => TypeOK
BY ConstantAssumption, RustAssumption DEF Init, TypeOK, Table

\* Rust workers keep the types of the table, of their loops, semaphores and
\* spawned tasks, whatever fails.
THEOREM RustWorkerTypeOK == Spec => []TypeOK
BY InitTypeOK, NextTypeOK, PTL DEF Spec

-----------------------------------------------------------------------------
(* The permits of a worker                                                 *)

\* The spawned tasks of a worker that hold a permit.
Busy(w) == {e \in Slots : e[1] = w /\ execs[e] # NULL /\ execs[e].pc # "waiting"}

\* What PermitsConserved says of one worker.
PermitsAdd(w) == Alive(w) => sem[w] + Cardinality(Busy(w)) = Concurrency

\* They are finitely many.
LEMMA BusyFinite ==
  ASSUME NEW w \in Workers
  PROVE  IsFiniteSet(Busy(w)) /\ Cardinality(Busy(w)) \in Nat
<1>1. Busy(w) \in SUBSET Slots
  BY DEF Busy
<1>2. IsFiniteSet(Busy(w))
  BY <1>1, SlotsFinite, FS_Subset
<1> QED  BY <1>2, FS_CardinalityType

\* A spawned task got or gave back its permit.
LEMMA BusyChanges ==
  ASSUME TypeOK, NEW e \in Slots, execs[e] # NULL,
         \A f \in Slots : f # e => execs'[f] = execs[f]
  PROVE  /\ execs[e].pc = "waiting" /\ execs'[e] # NULL /\ execs'[e].pc # "waiting" =>
              Cardinality(Busy(e[1])') = Cardinality(Busy(e[1])) + 1
         /\ execs[e].pc # "waiting" /\ execs'[e] = NULL =>
              Cardinality(Busy(e[1])') = Cardinality(Busy(e[1])) - 1
<1> DEFINE w == e[1]
<1>1. w \in Workers
  BY SlotFacts
<1>2. ASSUME execs[e].pc = "waiting", execs'[e] # NULL, execs'[e].pc # "waiting"
      PROVE  Cardinality(Busy(w)') = Cardinality(Busy(w)) + 1
  <2>1. e \notin Busy(w) /\ Busy(w)' = Busy(w) \cup {e}
    BY <1>2 DEF Busy
  <2> QED  BY <1>1, <2>1, BusyFinite, FS_AddElement
<1>3. ASSUME execs[e].pc # "waiting", execs'[e] = NULL
      PROVE  Cardinality(Busy(w)') = Cardinality(Busy(w)) - 1
  <2>1. e \in Busy(w) /\ Busy(w)' = Busy(w) \ {e}
    BY <1>3 DEF Busy
  <2> QED  BY <1>1, <2>1, BusyFinite, FS_RemoveElement
<1> QED  BY <1>2, <1>3

\* A step that moves no permit of v, or ends it.
LEMMA PermitsKept ==
  ASSUME NEW v \in Workers, PermitsAdd(v), sem'[v] = sem[v],
         \/ loop'[v] \notin {"claim", "closing"}
         \/ /\ loop[v] \in {"claim", "closing"} \/ loop'[v] = loop[v]
            /\ \A e \in Slots : e[1] = v =>
                 \/ execs'[e] = execs[e]
                 \/ /\ execs[e] = NULL \/ execs[e].pc = "waiting"
                    /\ execs'[e] = NULL \/ execs'[e].pc = "waiting"
                 \/ /\ execs[e] # NULL /\ execs[e].pc # "waiting"
                    /\ execs'[e] # NULL /\ execs'[e].pc # "waiting"
  PROVE  PermitsAdd(v)'
<1>1. CASE loop'[v] \notin {"claim", "closing"}
  BY <1>1 DEF PermitsAdd, Alive
<1>2. CASE loop'[v] \in {"claim", "closing"}
  <2>1. Busy(v)' = Busy(v)
    BY <1>2 DEF Busy
  <2>2. Alive(v)
    BY <1>2 DEF Alive
  <2> QED  BY <2>1, <2>2 DEF PermitsAdd
<1> QED  BY <1>1, <1>2

\* main, the heartbeat and the stale task move no permit.
LEMMA WorkerPermits ==
  ASSUME TypeOK, NEW w \in Workers, WorkerStep(w), NEW v \in Workers, PermitsAdd(v)
  PROVE  PermitsAdd(v)'
<1>1. CASE ClaimFound(w)
  <2>1. PICK t \in TaskIds, i \in 1..MaxSpawned :
          /\ IsNextClaim(tasks, t) /\ execs[<<w, i>>] = NULL
          /\ execs' = [execs EXCEPT ![<<w, i>>] = NewExec(t)]
    BY <1>1 DEF ClaimFound
  <2>2. NewExec(t).pc = "waiting"
    BY <2>1, NewExecType DEF IsNextClaim, Claimable, TypeOK, Table
  <2>3. UNCHANGED <<loop, sem>>
    BY <1>1 DEF ClaimFound
  <2>4. ASSUME NEW e \in Slots
        PROVE  \/ execs'[e] = execs[e]
               \/ execs[e] = NULL /\ execs'[e].pc = "waiting"
    BY <2>1, <2>2, SlotFacts DEF TypeOK
  <2> QED  BY <2>3, <2>4, PermitsKept
<1>2. CASE ClaimFault(w) \/ Heartbeat(w) \/ Recover(w)
  <2>1. UNCHANGED <<loop, sem, execs>>
    BY <1>2 DEF ClaimFault, Heartbeat, Recover
  <2> QED  BY <2>1, PermitsKept
<1>3. CASE Shutdown(w)
  <2>1. UNCHANGED <<sem, execs>> /\ (loop'[v] = loop[v] \/ loop[v] = "claim")
    BY <1>3 DEF Shutdown, TypeOK
  <2> QED  BY <2>1, PermitsKept
<1>4. CASE Stop(w) \/ Crash(w)
  <2>1. Abandon(w) /\ UNCHANGED sem
    BY <1>4 DEF Stop, Crash
  <2>2. /\ loop'[w] \in {"stopped", "crashed"}
        /\ \A u \in Workers : u # w => loop'[u] = loop[u]
    BY <1>4 DEF Stop, Crash, TypeOK
  <2>3. \A e \in Slots : e[1] # w => execs'[e] = execs[e]
    BY <2>1, AbandonType
  <2> QED  BY <2>1, <2>2, <2>3, PermitsKept
<1> QED  BY <1>1, <1>2, <1>3, <1>4 DEF WorkerStep

\* A spawned task takes a permit once and gives it back once.
LEMMA ExecPermits ==
  ASSUME TypeOK, NEW e \in Slots, ExecStep(e), NEW v \in Workers, PermitsAdd(v)
  PROVE  PermitsAdd(v)'
<1>0. /\ execs[e] # NULL /\ e[1] \in Workers /\ UNCHANGED loop
      /\ sem[v] \in Nat /\ Cardinality(Busy(v)) \in Nat /\ Concurrency \in Nat
  BY SlotFacts, BusyFinite, RustAssumption
  DEF TypeOK, ExecStep, At, Start, ChildOk, ChildError, ChildRetry, SpawnFault, Timeout,
      Write, WriteFault
<1>1. CASE Start(e)
  <2>1. /\ execs[e].pc = "waiting" /\ execs'[e] # NULL /\ execs'[e].pc # "waiting"
        /\ \A f \in Slots : f # e => execs'[f] = execs[f]
    BY <1>0, <1>1, Moved DEF Start, At, Pcs
  <2>2. /\ v = e[1] => sem'[v] = sem[v] - 1
        /\ v # e[1] => sem'[v] = sem[v]
    BY <1>0, <1>1 DEF Start, TypeOK
  <2>3. CASE v = e[1]
    <3>1. Cardinality(Busy(v)') = Cardinality(Busy(v)) + 1
      BY <1>0, <2>1, <2>3, BusyChanges
    <3> QED  BY <1>0, <2>2, <2>3, <3>1 DEF PermitsAdd, Alive
  <2>4. CASE v # e[1]
    BY <1>0, <2>1, <2>2, <2>4, PermitsKept
  <2> QED  BY <2>3, <2>4
<1>2. CASE ChildOk(e) \/ ChildError(e) \/ ChildRetry(e) \/ Timeout(e)
  <2>1. PICK p \in {"completing", "failing"} : execs' = [execs EXCEPT ![e].pc = p]
    BY <1>2 DEF ChildOk, ChildError, ChildRetry, Timeout, Leave
  <2>2. /\ execs'[e] # NULL /\ execs'[e].pc # "waiting"
        /\ \A f \in Slots : f # e => execs'[f] = execs[f]
    BY <1>0, <2>1, Moved DEF Pcs
  <2>3. execs[e].pc # "waiting" /\ UNCHANGED sem
    BY <1>2 DEF ChildOk, ChildError, ChildRetry, Timeout, At
  <2> QED  BY <1>0, <2>2, <2>3, PermitsKept
<1>3. CASE SpawnFault(e)
  <2>1. /\ execs'[e] # NULL /\ execs'[e].pc # "waiting"
        /\ \A f \in Slots : f # e => execs'[f] = execs[f]
    BY <1>3, Spoilt
  <2>2. execs[e].pc # "waiting" /\ UNCHANGED sem
    BY <1>3 DEF SpawnFault, At
  <2> QED  BY <1>0, <2>1, <2>2, PermitsKept
<1>4. CASE Write(e) \/ WriteFault(e)
  <2>1. execs[e].pc # "waiting" /\ EndExec(e)
    BY <1>4 DEF Write, WriteFault, At
  <2>2. /\ execs'[e] = NULL /\ \A f \in Slots : f # e => execs'[f] = execs[f]
        /\ v = e[1] => sem'[v] = sem[v] + 1
        /\ v # e[1] => sem'[v] = sem[v]
    BY <1>0, <2>1 DEF EndExec, TypeOK
  <2>3. CASE v = e[1]
    <3>1. Cardinality(Busy(v)') = Cardinality(Busy(v)) - 1
      BY <1>0, <2>1, <2>2, <2>3, BusyChanges
    <3> QED  BY <1>0, <2>2, <2>3, <3>1 DEF PermitsAdd, Alive
  <2>4. CASE v # e[1]
    BY <1>0, <2>2, <2>4, PermitsKept
  <2> QED  BY <2>3, <2>4
<1> QED  BY <1>1, <1>2, <1>3, <1>4 DEF ExecStep

\* Orphans, clients, administrators and time move no permit.
LEMMA OtherPermits ==
  ASSUME TypeOK, NEW v \in Workers, PermitsAdd(v),
         \/ \E t \in TaskIds : OrphanExit(t)
         \/ \E o \in Options : Enqueue(o)
         \/ AdminStep
         \/ Tick
  PROVE  PermitsAdd(v)'
<1>1. ASSUME UNCHANGED <<loop, sem, execs>> PROVE PermitsAdd(v)'
  BY <1>1, PermitsKept
<1>2. CASE Tick
  <2>1. ASSUME NEW e \in Slots
        PROVE  \/ execs[e] = NULL /\ execs'[e] = NULL
               \/ execs[e] # NULL /\ execs'[e] # NULL /\ execs'[e].pc = execs[e].pc
    <3>1. execs'[e] = AgeExec(execs[e])
      BY <1>2 DEF Tick
    <3>2. CASE execs[e] = NULL
      BY <3>1, <3>2 DEF AgeExec
    <3>3. CASE execs[e] # NULL
      <4>1. execs[e] \in Exec
        BY <3>3 DEF TypeOK
      <4>2. AgeExec(execs[e]) \in Exec /\ AgeExec(execs[e]).pc = execs[e].pc
        BY <4>1, AgeExecType
      <4> QED  BY <3>1, <3>3, <4>2, RustAssumption
    <3> QED  BY <3>2, <3>3
  <2>2. UNCHANGED <<loop, sem>>
    BY <1>2 DEF Tick
  <2> QED  BY <2>1, <2>2, PermitsKept
<1> QED  BY <1>1, <1>2 DEF AdminStep, OrphanExit, Enqueue, Requeue, Cancel, Delete, Cleanup

\* However many tasks a worker has claimed and whatever fails, it holds no
\* more and no fewer permits than its concurrency.
THEOREM RustPermitsAreConserved == Spec => []PermitsConserved
<1>0. PermitsConserved <=> \A v \in Workers : PermitsAdd(v)
  BY DEF PermitsConserved, PermitsAdd, Busy
<1>1. Init => PermitsConserved
  <2> SUFFICES ASSUME Init, NEW v \in Workers PROVE PermitsAdd(v)
    BY <1>0
  <2>1. Busy(v) = {} /\ sem[v] = Concurrency
    BY DEF Init, Busy
  <2> QED  BY <2>1, FS_EmptySet, RustAssumption DEF PermitsAdd
<1>2. TypeOK /\ PermitsConserved /\ [Next]_vars => PermitsConserved'
  <2> SUFFICES ASSUME TypeOK, \A u \in Workers : PermitsAdd(u), [Next]_vars,
                      NEW v \in Workers
               PROVE  PermitsAdd(v)'
    BY <1>0 DEF PermitsConserved, PermitsAdd, Busy
  <2>0. PermitsAdd(v)
    OBVIOUS
  <2>1. CASE UNCHANGED vars
    BY <2>0, <2>1, PermitsKept DEF vars
  <2>2. CASE Next
    BY <2>0, <2>2, WorkerPermits, ExecPermits, OtherPermits DEF Next
  <2> QED  BY <2>1, <2>2
<1> QED  BY <1>1, <1>2, RustWorkerTypeOK, PTL DEF Spec

-----------------------------------------------------------------------------
(* Sound rows                                                              *)

\* The limit a spawned task holds is the one of its row, or it is the pair
\* 0, 3 of a child that was not spawned, which never fails a task for good.
CopyIsHonest(x) ==
  \/ x.att = 0 /\ x.max_retries = 3
  \/ tasks[x.task] # NULL => tasks[x.task].opts.max_retries = x.max_retries

\* The inductive invariant.  RowsAreSound alone is not inductive: the limit
\* that fail_task_in_db compares with comes from the claim, not from the row.
\* Ids are not used twice, so the row cannot have become another task's.
SInv ==
  /\ TypeOK
  /\ RowsAreSound
  /\ \A t \in TaskIds : t >= nextId => tasks[t] = NULL
  /\ \A e \in Slots : execs[e] # NULL =>
       execs[e].task < nextId /\ CopyIsHonest(execs[e])

\* What a statement may do to a row that exists.
RowStep(t) ==
  \/ tasks'[t] = tasks[t]
  \/ tasks'[t] = NULL
  \/ tasks[t] # NULL /\ tasks'[t] \in GoodRow /\ tasks'[t].opts = tasks[t].opts

\* What a step may do to a spawned task.
CopyStep(e) ==
  \/ execs'[e] = NULL
  \/ /\ execs[e] # NULL /\ execs'[e].task = execs[e].task
     /\ \/ execs'[e].att = execs[e].att /\ execs'[e].max_retries = execs[e].max_retries
        \/ execs'[e].att = 0 /\ execs'[e].max_retries = 3

\* A sound table is a table of good rows.
LEMMA SoundTable ==
  ASSUME SInv, NEW t \in TaskIds
  PROVE  tasks[t] = NULL \/ (tasks[t] \in GoodRow /\ tasks[t] \in Row)
BY DEF SInv, TypeOK, Table, RowsAreSound, GoodRow

\* Steps made of such effects keep the rows sound.
LEMMA SoundStep ==
  ASSUME SInv, TypeOK', UNCHANGED nextId,
         \A t \in TaskIds : RowStep(t),
         \A e \in Slots : CopyStep(e)
  PROVE  SInv'
<1>1. RowsAreSound'
  <2> SUFFICES ASSUME NEW t \in TaskIds, tasks'[t] # NULL
               PROVE  /\ Shaped(tasks'[t])
                      /\ tasks'[t].status = "failed" => Exhausted(tasks'[t])
    BY DEF RowsAreSound
  <2>1. CASE tasks'[t] = tasks[t]
    BY <2>1 DEF SInv, RowsAreSound
  <2>2. CASE tasks'[t] \in GoodRow
    BY <2>2 DEF GoodRow
  <2> QED  BY <2>1, <2>2 DEF RowStep
<1>2. ASSUME NEW e \in Slots, execs'[e] # NULL
      PROVE  execs'[e].task < nextId' /\ CopyIsHonest(execs[e])'
  <2> DEFINE t == execs[e].task
  <2>1. execs[e] # NULL /\ execs'[e].task = t
    BY <1>2 DEF CopyStep
  <2>2. t \in TaskIds /\ t < nextId /\ CopyIsHonest(execs[e])
    BY <2>1 DEF SInv, TypeOK, Exec
  <2>3. tasks'[t] = NULL \/ tasks'[t] = tasks[t]
        \/ (tasks[t] # NULL /\ tasks'[t].opts = tasks[t].opts)
    BY <2>2 DEF RowStep
  <2> HIDE DEF t
  <2>4. \/ execs'[e].att = execs[e].att /\ execs'[e].max_retries = execs[e].max_retries
        \/ execs'[e].att = 0 /\ execs'[e].max_retries = 3
    BY <1>2 DEF CopyStep
  <2>5. \/ execs'[e].att = 0 /\ execs'[e].max_retries = 3
        \/ tasks'[t] # NULL => tasks'[t].opts.max_retries = execs'[e].max_retries
    BY <2>2, <2>3, <2>4 DEF CopyIsHonest, t
  <2> QED  BY <2>1, <2>2, <2>5 DEF CopyIsHonest
<1>3. \A t \in TaskIds : t >= nextId' => tasks'[t] = NULL
  BY DEF SInv, RowStep
<1> QED  BY <1>1, <1>2, <1>3 DEF SInv

\* claim_task, its answer lost or not.
LEMMA ClaimRowStep ==
  ASSUME SInv, NEW w \in Workers, NEW u \in TaskIds, IsNextClaim(tasks, u),
         tasks' = [tasks EXCEPT ![u] = ClaimRow(@, w)], NEW t \in TaskIds
  PROVE  RowStep(t)
<1>1. tasks'[t] = IF t = u THEN ClaimRow(tasks[t], w) ELSE tasks[t]
  BY DEF SInv, TypeOK, Table
<1>2. CASE t = u
  <2>1. tasks[t] # NULL
    BY <1>2 DEF IsNextClaim, Claimable
  <2>2. tasks[t] \in GoodRow /\ tasks[t] \in Row
    BY <2>1, SoundTable
  <2>3. ClaimRow(tasks[t], w) \in GoodRow /\ ClaimRow(tasks[t], w).opts = tasks[t].opts
    BY <2>2, ClaimRowGood, StatementsKeepOpts, 0 \in Nat
  <2> QED  BY <1>1, <1>2, <2>1, <2>3 DEF RowStep
<1> QED  BY <1>1, <1>2 DEF RowStep

\* main, the heartbeat and the stale task.
LEMMA WorkerRowStep ==
  ASSUME SInv, NEW w \in Workers, WorkerStep(w), NEW t \in TaskIds
  PROVE  RowStep(t)
<1>0. tasks[t] = NULL \/ (tasks[t] \in GoodRow /\ tasks[t] \in Row)
  BY SoundTable
<1>1. CASE UNCHANGED tasks
  BY <1>1 DEF RowStep
<1>2. CASE \E u \in TaskIds : /\ IsNextClaim(tasks, u)
                              /\ tasks' = [tasks EXCEPT ![u] = ClaimRow(@, w)]
  BY <1>2, ClaimRowStep
<1>3. CASE Heartbeat(w)
  <2>1. tasks'[t] = tasks[t] \/ (tasks[t] # NULL /\ tasks'[t] = HeartbeatRow(tasks[t]))
    BY <1>3 DEF Heartbeat, HeartbeatTable
  <2> QED  BY <1>0, <2>1, OtherRowsGood, HeartbeatRowType DEF RowStep
<1>4. CASE Recover(w)
  <2>1. tasks'[t] = tasks[t] \/ (tasks[t] # NULL /\ tasks'[t] = RecoverRow(tasks[t]))
    BY <1>4 DEF Recover, RecoverTable, Stale
  <2> QED  BY <1>0, <2>1, BackToPendingGood, StatementsKeepOpts, 0 \in Nat DEF RowStep
<1> QED  BY <1>1, <1>2, <1>3, <1>4
         DEF WorkerStep, ClaimFound, ClaimFault, LoseClaim, Shutdown, Stop, Crash

\* A manual retry.
LEMMA RetryRowStep ==
  ASSUME SInv, NEW u \in TaskIds, ManualRetry(u), NEW t \in TaskIds
  PROVE  RowStep(t)
<1>0. tasks[t] = NULL \/ (tasks[t] \in GoodRow /\ tasks[t] \in Row)
  BY SoundTable
<1>1. tasks'[t] = tasks[t] \/ (tasks[t] # NULL /\ tasks'[t] = RetryRow(tasks[t], Countdown))
  BY DEF ManualRetry, SInv, TypeOK, Table
<1>2. Countdown \in Nat
  BY RustAssumption
<1>3. tasks[t] # NULL => RetryRow(tasks[t], Countdown).opts = tasks[t].opts
  BY <1>0 DEF RetryRow, Row
<1> QED  BY <1>0, <1>1, <1>2, <1>3, BackToPendingGood DEF RowStep

\* The last UPDATE of a spawned task: an honest copy of the limit fails a task
\* only when its attempts are used up.
LEMMA WrittenRowStep ==
  ASSUME SInv, NEW e \in Slots, execs[e] # NULL, tasks' = Written(e), NEW t \in TaskIds
  PROVE  RowStep(t)
<1> DEFINE x == execs[e]
<1>0. TypeOK /\ x.att \in Nat /\ x.max_retries \in Nat
  BY DEF SInv, TypeOK, Exec
<1>1. CASE t # x.task \/ tasks[t] = NULL
  BY <1>0, <1>1, WrittenType DEF RowStep
<1>2. CASE t = x.task /\ tasks[t] # NULL
  <2>1. tasks[t] \in GoodRow /\ tasks[t] \in Row
    BY <1>2, SoundTable
  <2>2. tasks'[t] = IF x.pc = "completing" THEN CompleteRow(tasks[t])
                    ELSE FailTaskInDb(tasks[t], x.att, x.max_retries)
    BY <1>0, <1>2, WrittenType
  <2>3. CASE x.pc = "completing"
    <3>1. CompleteRow(tasks[t]) \in GoodRow /\ CompleteRow(tasks[t]).opts = tasks[t].opts
      BY <2>1, OtherRowsGood DEF CompleteRow, Row
    <3> QED  BY <1>2, <2>2, <2>3, <3>1 DEF RowStep
  <2>4. CASE x.pc # "completing"
    <3> DEFINE s == FailTaskInDb(tasks[t], x.att, x.max_retries)
    <3>1. /\ s \in Row /\ s.attempts = x.att + 1 /\ s.opts = tasks[t].opts
          /\ \/ s.status = "pending" /\ s.age = NULL /\ s.worker_id = NULL
                /\ x.att + 1 < x.max_retries
             \/ /\ s.status = "failed" /\ s.completed_at = "set"
                /\ x.att + 1 >= x.max_retries
      BY <1>0, <2>1, FailTaskInDbType
    <3>2. \/ x.att = 0 /\ x.max_retries = 3
          \/ tasks[t].opts.max_retries = x.max_retries
      BY <1>2 DEF SInv, CopyIsHonest
    <3> HIDE DEF s
    <3>3. s.status = "failed" => s.attempts >= 1 /\ s.attempts >= s.opts.max_retries
      BY <1>0, <3>1, <3>2
    <3>4. s \in GoodRow
      BY <3>1, <3>3 DEF GoodRow, Shaped, Exhausted, Terminal
    <3>5. tasks'[t] = s
      BY <2>2, <2>4 DEF s
    <3> QED  BY <1>2, <3>1, <3>4, <3>5 DEF RowStep
  <2> QED  BY <2>3, <2>4
<1> QED  BY <1>1, <1>2

\* Orphans and administrators; time.
LEMMA OtherRowStep ==
  ASSUME SInv, NEW t \in TaskIds,
         \/ \E u \in TaskIds : OrphanExit(u)
         \/ AdminStep
         \/ Tick
  PROVE  RowStep(t)
<1>0. tasks[t] = NULL \/ (tasks[t] \in GoodRow /\ tasks[t] \in Row)
  BY SoundTable
<1>1. ASSUME NEW u \in TaskIds, OrphanExit(u) PROVE RowStep(t)
  <2>1. UNCHANGED tasks \/ ManualRetry(u)
    BY <1>1 DEF OrphanExit
  <2> QED  BY <2>1, RetryRowStep DEF RowStep
<1>2. ASSUME NEW u \in TaskIds, Requeue(u) \/ Cancel(u) PROVE RowStep(t)
  <2>1. \/ tasks'[t] = tasks[t]
        \/ tasks[t] # NULL /\ tasks'[t] \in {RequeueRow(tasks[t]), CancelRow(tasks[t])}
    BY <1>2 DEF Requeue, Cancel, SInv, TypeOK, Table
  <2>2. tasks[t] # NULL => /\ RequeueRow(tasks[t]) \in GoodRow
                           /\ CancelRow(tasks[t]) \in GoodRow
                           /\ RequeueRow(tasks[t]).opts = tasks[t].opts
                           /\ CancelRow(tasks[t]).opts = tasks[t].opts
    BY <1>0, BackToPendingGood, OtherRowsGood, 0 \in Nat DEF RequeueRow, CancelRow, Row
  <2> QED  BY <2>1, <2>2 DEF RowStep
<1>3. ASSUME NEW S \in SUBSET TaskIds, Delete(S) PROVE RowStep(t)
  BY <1>3 DEF Delete, DeleteFrom, RowStep
<1>4. CASE Cleanup
  <2>1. tasks'[t] = tasks[t] \/ (tasks[t] # NULL /\ tasks'[t] = ExpireRow(tasks[t]))
    BY <1>4 DEF Cleanup, ExpireTable, TtlExpired
  <2>2. tasks[t] # NULL => ExpireRow(tasks[t]).opts = tasks[t].opts
    BY <1>0 DEF ExpireRow, Row
  <2> QED  BY <1>0, <2>1, <2>2, OtherRowsGood DEF RowStep
<1>5. CASE Tick
  <2>1. tasks'[t] = NULL \/ (tasks[t] # NULL /\ tasks'[t] = AgeRow(tasks[t]))
    BY <1>5 DEF Tick, AgeTable
  <2> QED  BY <1>0, <2>1, OtherRowsGood, AgeRowType DEF RowStep
<1> QED  BY <1>1, <1>2, <1>3, <1>4, <1>5 DEF AdminStep

\* A spawned task keeps its copies, or gets the pair 0, 3.
LEMMA ExecCopyStep ==
  ASSUME SInv, NEW e \in Slots, ExecStep(e) \/ Tick, NEW f \in Slots
  PROVE  CopyStep(f)
<1>0. TypeOK
  BY DEF SInv
<1>1. CASE Start(e) \/ ChildOk(e) \/ ChildError(e) \/ ChildRetry(e) \/ Timeout(e)
  <2>1. PICK p \in Pcs : execs' = [execs EXCEPT ![e].pc = p]
    BY <1>1 DEF Start, ChildOk, ChildError, ChildRetry, Timeout, Leave, Pcs
  <2>2. execs[e] # NULL
    BY <1>1 DEF Start, ChildOk, ChildError, ChildRetry, Timeout, At
  <2> QED  BY <1>0, <2>1, <2>2, Moved DEF CopyStep
<1>2. CASE SpawnFault(e)
  <2>1. execs[e] # NULL
    BY <1>2 DEF SpawnFault, At
  <2> QED  BY <1>0, <1>2, <2>1, Spoilt DEF CopyStep
<1>3. CASE Write(e) \/ WriteFault(e)
  <2>1. execs' = [execs EXCEPT ![e] = NULL]
    BY <1>3 DEF Write, WriteFault, EndExec
  <2> QED  BY <1>0, <2>1 DEF CopyStep, TypeOK
<1>4. CASE Tick
  <2>1. execs'[f] = AgeExec(execs[f])
    BY <1>4 DEF Tick
  <2>2. CASE execs[f] = NULL
    BY <2>1, <2>2 DEF AgeExec, CopyStep
  <2>3. CASE execs[f] # NULL
    BY <1>0, <2>1, <2>3, AgeExecType DEF CopyStep, TypeOK
  <2> QED  BY <2>2, <2>3
<1> QED  BY <1>1, <1>2, <1>3, <1>4 DEF ExecStep

\* A spawned task starts with honest copies.
LEMMA ClaimFoundSound ==
  ASSUME SInv, TypeOK', NEW w \in Workers, ClaimFound(w)
  PROVE  SInv'
<1>1. PICK t \in TaskIds, i \in 1..MaxSpawned :
        /\ IsNextClaim(tasks, t)
        /\ execs[<<w, i>>] = NULL
        /\ tasks' = [tasks EXCEPT ![t] = ClaimRow(@, w)]
        /\ execs' = [execs EXCEPT ![<<w, i>>] = NewExec(t)]
  BY DEF ClaimFound
<1> DEFINE e == <<w, i>>
<1>2. e \in Slots
  BY SlotFacts
<1>3. /\ execs'[e] = NewExec(t)
      /\ \A f \in Slots : f # e => execs'[f] = execs[f]
  BY <1>1, <1>2 DEF SInv, TypeOK
<1> HIDE DEF e
<1>4. UNCHANGED nextId /\ \A u \in TaskIds : RowStep(u)
  BY <1>1, ClaimRowStep DEF ClaimFound
<1>5. tasks[t] # NULL /\ tasks[t] \in Row
  BY <1>1, SoundTable DEF IsNextClaim, Claimable
<1>6. t < nextId
  BY <1>5 DEF SInv, TypeOK, TaskIds
<1>7. /\ tasks'[t] = ClaimRow(tasks[t], w)
      /\ ClaimRow(tasks[t], w).opts = tasks[t].opts
  BY <1>1, <1>5 DEF SInv, TypeOK, Table, ClaimRow, Row
<1>8. /\ NewExec(t).task = t
      /\ NewExec(t).max_retries = tasks[t].opts.max_retries
  BY <1>5, NewExecType
<1>9. execs'[e].task < nextId' /\ CopyIsHonest(execs[e])'
  BY <1>3, <1>4, <1>6, <1>7, <1>8 DEF CopyIsHonest
<1>10. ASSUME NEW f \in Slots, f # e, execs'[f] # NULL
       PROVE  execs'[f].task < nextId' /\ CopyIsHonest(execs[f])'
  <2>1. /\ execs'[f] = execs[f] /\ execs[f].task \in TaskIds
        /\ execs[f].task < nextId /\ CopyIsHonest(execs[f])
    BY <1>3, <1>10 DEF SInv, TypeOK, Exec
  <2>2. RowStep(execs[f].task)
    BY <1>4, <2>1
  <2> QED  BY <1>4, <2>1, <2>2 DEF CopyIsHonest, RowStep
<1>11. RowsAreSound'
  <2> SUFFICES ASSUME NEW u \in TaskIds, tasks'[u] # NULL
               PROVE  /\ Shaped(tasks'[u])
                      /\ tasks'[u].status = "failed" => Exhausted(tasks'[u])
    BY DEF RowsAreSound
  <2>1. RowStep(u) /\ (tasks[u] = NULL \/ tasks[u] \in GoodRow)
    BY <1>4, SoundTable
  <2> QED  BY <2>1 DEF RowStep, GoodRow
<1>12. \A u \in TaskIds : u >= nextId' => tasks'[u] = NULL
  BY <1>4 DEF SInv, RowStep
<1> QED  BY <1>9, <1>10, <1>11, <1>12 DEF SInv

\* A new id belongs to no spawned task.
LEMMA EnqueueSound ==
  ASSUME SInv, TypeOK', NEW o \in Options, Enqueue(o)
  PROVE  SInv'
<1>1. /\ nextId \in TaskIds /\ nextId' = nextId + 1 /\ UNCHANGED execs
      /\ tasks'[nextId] = NewRow(o, 0)
      /\ \A t \in TaskIds : t # nextId => tasks'[t] = tasks[t]
  BY DEF Enqueue, SInv, TypeOK, Table, TaskIds
<1>2. NewRow(o, 0) \in GoodRow
  BY NewRowGood, 0 \in Nat
<1>3. RowsAreSound'
  BY <1>1, <1>2 DEF SInv, RowsAreSound, GoodRow
<1>4. ASSUME NEW e \in Slots, execs'[e] # NULL
      PROVE  execs'[e].task < nextId' /\ CopyIsHonest(execs[e])'
  <2>1. /\ execs[e].task \in TaskIds /\ execs[e].task < nextId
        /\ CopyIsHonest(execs[e]) /\ execs'[e] = execs[e]
    BY <1>1, <1>4 DEF SInv, TypeOK, Exec
  <2>2. execs[e].task # nextId /\ execs[e].task < nextId + 1
    BY <1>1, <2>1 DEF TaskIds
  <2>3. tasks'[execs[e].task] = tasks[execs[e].task]
    BY <1>1, <2>1, <2>2
  <2> QED  BY <1>1, <2>1, <2>2, <2>3 DEF CopyIsHonest
<1>5. \A t \in TaskIds : t >= nextId' => tasks'[t] = NULL
  <2>1. \A t \in TaskIds : t >= nextId + 1 => t >= nextId /\ t # nextId
    BY <1>1 DEF TaskIds
  <2> QED  BY <1>1, <2>1 DEF SInv
<1> QED  BY <1>3, <1>4, <1>5 DEF SInv

\* Every step keeps the rows sound.
LEMMA NextSInv == SInv /\ [Next]_vars => SInv'
<1> SUFFICES ASSUME SInv, [Next]_vars PROVE SInv'
  OBVIOUS
<1>0. TypeOK /\ TypeOK'
  BY NextTypeOK DEF SInv
<1>a. ASSUME UNCHANGED <<execs, nextId>>, \A t \in TaskIds : RowStep(t) PROVE SInv'
  <2>1. \A e \in Slots : CopyStep(e)
    BY <1>a DEF CopyStep
  <2> QED  BY <1>0, <1>a, <2>1, SoundStep
<1>1. CASE UNCHANGED vars
  BY <1>1, <1>a DEF vars, RowStep
<1>2. ASSUME NEW w \in Workers, WorkerStep(w) PROVE SInv'
  <2>1. CASE ClaimFound(w)
    BY <1>0, <2>1, ClaimFoundSound
  <2>2. CASE ClaimFault(w) \/ Shutdown(w) \/ Heartbeat(w) \/ Recover(w)
    <3>1. UNCHANGED <<execs, nextId>>
      BY <2>2 DEF ClaimFault, Shutdown, Heartbeat, Recover
    <3> QED  BY <1>2, <1>a, <3>1, WorkerRowStep
  <2>3. CASE Stop(w) \/ Crash(w)
    <3>1. Abandon(w) /\ UNCHANGED nextId
      BY <2>3 DEF Stop, Crash
    <3>2. \A e \in Slots : CopyStep(e)
      BY <1>0, <3>1, AbandonType DEF CopyStep
    <3> QED  BY <1>0, <1>2, <3>1, <3>2, WorkerRowStep, SoundStep
  <2> QED  BY <1>2, <2>1, <2>2, <2>3 DEF WorkerStep
<1>3. ASSUME NEW e \in Slots, ExecStep(e) PROVE SInv'
  <2>1. \A f \in Slots : CopyStep(f)
    BY <1>3, ExecCopyStep
  <2>2. execs[e] # NULL /\ UNCHANGED nextId
    BY <1>3 DEF ExecStep, At, Start, ChildOk, ChildError, ChildRetry, SpawnFault, Timeout,
                Write, WriteFault
  <2>3. execs[e].task \in TaskIds
    BY <1>0, <2>2 DEF TypeOK, Exec
  <2>4. UNCHANGED tasks \/ ManualRetry(execs[e].task) \/ tasks' = Written(e)
    BY <1>3 DEF ExecStep, Start, ChildOk, ChildError, ChildRetry, SpawnFault, Timeout,
                Write, WriteFault
  <2>5. \A t \in TaskIds : RowStep(t)
    BY <2>2, <2>3, <2>4, RetryRowStep, WrittenRowStep DEF RowStep
  <2> QED  BY <1>0, <2>1, <2>2, <2>5, SoundStep
<1>4. ASSUME NEW t \in TaskIds, OrphanExit(t) PROVE SInv'
  BY <1>4, <1>a, OtherRowStep DEF OrphanExit
<1>5. ASSUME NEW o \in Options, Enqueue(o) PROVE SInv'
  BY <1>0, <1>5, EnqueueSound
<1>6. CASE AdminStep
  <2>1. UNCHANGED <<execs, nextId>>
    BY <1>6 DEF AdminStep, Requeue, Cancel, Delete, Cleanup
  <2> QED  BY <1>6, <1>a, <2>1, OtherRowStep
<1>7. CASE Tick
  <2>1. UNCHANGED nextId /\ \A t \in TaskIds : RowStep(t)
    BY <1>7, OtherRowStep DEF Tick
  <2>2. \A f \in Slots : CopyStep(f)
    BY <1>7, ExecCopyStep
  <2> QED  BY <1>0, <2>1, <2>2, SoundStep
<1> QED  BY <1>1, <1>2, <1>3, <1>4, <1>5, <1>6, <1>7 DEF Next

\* Initially there is no row and no spawned task.
LEMMA InitSInv == Init => SInv
<1> SUFFICES ASSUME Init PROVE SInv
  OBVIOUS
<1>1. (\A t \in TaskIds : tasks[t] = NULL) /\ \A e \in Slots : execs[e] = NULL
  BY DEF Init
<1> QED  BY <1>1, InitTypeOK DEF SInv, RowsAreSound

\* Whatever snapshots of attempts and limits the Rust workers write back, in
\* whatever order and with whatever failures, the columns of a row agree with
\* its status and a failed row has used up its retries.
THEOREM RustRowsAreSound == Spec => []RowsAreSound
<1>1. SInv => RowsAreSound
  BY DEF SInv
<1> QED  BY <1>1, InitSInv, NextSInv, PTL DEF Spec

-----------------------------------------------------------------------------
(* The regime in which the reaper leaves claimed tasks alone               *)

\* Whether the row of a spawned task of worker w is as the claim left it: it
\* is the worker's and as old as the spawned task, or it has expired, and its
\* attempts are those of the claim if no child fails to be spawned.
Owns(w, x, r) ==
  r # NULL =>
    /\ \/ r.status = "expired"
       \/ r.status = "running" /\ r.worker_id = w /\ r.age = x.age
    /\ "spawn" \notin FaultKinds => r.attempts = x.att

\* The inductive invariant: SoleExecution is not inductive without the rows,
\* which a claim could take, nor SnapshotIsCurrent without the ages, which
\* keep the reaper away.
RInv ==
  /\ SInv
  /\ SoleExecution
  /\ \A e \in Slots : execs[e] # NULL =>
       execs[e].age <= StaleAfter /\ Owns(e[1], execs[e], tasks[execs[e].task])

\* No spawned task has task t.
Free(t) == \A e \in Slots : execs[e] # NULL => execs[e].task # t

\* Rows that no spawned task can have: pending, failed and cancelled ones, the
\* ones the reaper sees, and those not yet enqueued.
LEMMA FreeRow ==
  ASSUME RInv, NEW t \in TaskIds,
         \/ t >= nextId
         \/ tasks[t] # NULL /\ tasks[t].status \in {"pending", "failed", "cancelled"}
         \/ Stale(tasks[t])
  PROVE  Free(t)
<1> SUFFICES ASSUME NEW e \in Slots, execs[e] # NULL, execs[e].task = t
             PROVE  FALSE
  BY DEF Free
<1>0. SInv /\ TypeOK
  BY DEF RInv, SInv
<1>1. t < nextId /\ Owns(e[1], execs[e], tasks[t]) /\ execs[e].age <= StaleAfter
  BY DEF RInv, SInv
<1>2. CASE t >= nextId
  BY <1>0, <1>1, <1>2 DEF TypeOK, TaskIds
<1>3. CASE tasks[t] # NULL /\ tasks[t].status \in {"pending", "failed", "cancelled"}
  BY <1>1, <1>3 DEF Owns
<1>4. CASE Stale(tasks[t])
  <2>1. tasks[t].age = execs[e].age /\ tasks[t].age > StaleAfter
    BY <1>1, <1>4 DEF Owns, Stale
  <2>2. execs[e].age \in Nat
    BY <1>0 DEF TypeOK, Exec
  <2> QED  BY <1>1, <2>1, <2>2, ConstantAssumption
<1> QED  BY <1>2, <1>3, <1>4

\* A row that a spawned task may have keeps the columns its owner relies on,
\* expires or is deleted.
RowKept(t) ==
  \/ tasks'[t] = tasks[t]
  \/ tasks'[t] = NULL
  \/ /\ tasks[t] # NULL /\ tasks'[t].attempts = tasks[t].attempts
     /\ \/ tasks'[t].status = "expired"
        \/ /\ tasks'[t].status = tasks[t].status /\ tasks'[t].age = tasks[t].age
           /\ tasks'[t].worker_id = tasks[t].worker_id

\* A spawned task ends or goes on with the same task.
ExecKept(e) ==
  \/ execs'[e] = NULL
  \/ /\ execs[e] # NULL /\ execs'[e].task = execs[e].task /\ execs'[e].age = execs[e].age
     /\ "spawn" \notin FaultKinds => execs'[e].att = execs[e].att

\* Steps made of such effects, and of any on rows nobody has afterwards.
LEMMA KeptStep ==
  ASSUME RInv, SInv', \A e \in Slots : ExecKept(e),
         \A t \in TaskIds : RowKept(t) \/ Free(t)'
  PROVE  RInv'
<1>1. SoleExecution'
  BY DEF RInv, SoleExecution, ExecKept
<1>2. ASSUME NEW e \in Slots, execs'[e] # NULL
      PROVE  execs'[e].age <= StaleAfter /\ Owns(e[1], execs'[e], tasks'[execs'[e].task])
  <2>1. /\ execs[e] # NULL /\ execs'[e].age = execs[e].age
        /\ execs'[e].task = execs[e].task
        /\ "spawn" \notin FaultKinds => execs'[e].att = execs[e].att
    BY <1>2 DEF ExecKept
  <2>2. PICK t \in TaskIds : t = execs[e].task
    BY <2>1 DEF RInv, SInv, TypeOK, Exec
  <2>3. execs[e].age <= StaleAfter /\ Owns(e[1], execs[e], tasks[t])
    BY <2>1, <2>2 DEF RInv
  <2>4. ~Free(t)'
    BY <1>2, <2>1, <2>2 DEF Free
  <2>5. RowKept(t)
    BY <2>4
  <2>6. Owns(e[1], execs'[e], tasks'[t])
    BY <2>1, <2>3, <2>5 DEF RowKept, Owns
  <2> QED  BY <2>1, <2>2, <2>3, <2>6
<1> QED  BY <1>1, <1>2 DEF RInv

\* A statement no spawned task issues: each row is kept, or nobody has it.
LEMMA TableStep ==
  ASSUME RInv, SInv', UNCHANGED execs, \A t \in TaskIds : RowKept(t) \/ Free(t)
  PROVE  RInv'
<1>1. \A e \in Slots : ExecKept(e)
  BY DEF ExecKept
<1>2. \A t \in TaskIds : Free(t) => Free(t)'
  BY DEF Free
<1> QED  BY <1>1, <1>2, KeptStep

\* claim_task returns a task nobody has.
LEMMA ClaimFoundRInv ==
  ASSUME RInv, SInv', NEW w \in Workers, ClaimFound(w)
  PROVE  RInv'
<1>0. TypeOK
  BY DEF RInv, SInv
<1>1. PICK t \in TaskIds, i \in 1..MaxSpawned :
        /\ IsNextClaim(tasks, t)
        /\ execs[<<w, i>>] = NULL
        /\ tasks' = [tasks EXCEPT ![t] = ClaimRow(@, w)]
        /\ execs' = [execs EXCEPT ![<<w, i>>] = NewExec(t)]
  BY DEF ClaimFound
<1> DEFINE e == <<w, i>>
<1>2. e \in Slots /\ e[1] = w
  BY SlotFacts
<1>3. execs'[e] = NewExec(t) /\ \A f \in Slots : f # e => execs'[f] = execs[f]
  BY <1>0, <1>1, <1>2 DEF TypeOK
<1> HIDE DEF e
<1>4. tasks[t] # NULL /\ tasks[t] \in Row /\ tasks[t].status = "pending"
  BY <1>0, <1>1 DEF IsNextClaim, Claimable, TypeOK, Table
<1>5. \A f \in Slots : execs[f] # NULL => execs[f].task # t
  BY <1>4, FreeRow DEF Free
<1>6. /\ tasks'[t] = ClaimRow(tasks[t], w)
      /\ \A u \in TaskIds : u # t => tasks'[u] = tasks[u]
  BY <1>0, <1>1 DEF TypeOK, Table
<1>7. /\ NewExec(t).task = t /\ NewExec(t).age = 0 /\ NewExec(t).att = tasks[t].attempts
  BY <1>4, NewExecType
<1>8. /\ ClaimRow(tasks[t], w).status = "running" /\ ClaimRow(tasks[t], w).age = 0
      /\ ClaimRow(tasks[t], w).worker_id = w
      /\ ClaimRow(tasks[t], w).attempts = tasks[t].attempts
  BY <1>4 DEF ClaimRow, Row
<1>9. SoleExecution'
  BY <1>2, <1>3, <1>5, <1>7 DEF RInv, SoleExecution
<1>10. execs'[e].age <= StaleAfter /\ Owns(w, execs'[e], tasks'[execs'[e].task])
  BY <1>3, <1>6, <1>7, <1>8, ConstantAssumption DEF Owns
<1>11. ASSUME NEW f \in Slots, f # e, execs'[f] # NULL
       PROVE  execs'[f].age <= StaleAfter /\ Owns(f[1], execs'[f], tasks'[execs'[f].task])
  <2>1. /\ execs'[f] = execs[f] /\ execs[f].task \in TaskIds /\ execs[f].task # t
        /\ execs[f].age <= StaleAfter /\ Owns(f[1], execs[f], tasks[execs[f].task])
    BY <1>0, <1>3, <1>5, <1>11 DEF RInv, TypeOK, Exec
  <2> QED  BY <1>6, <2>1
<1> QED  BY <1>2, <1>9, <1>10, <1>11 DEF RInv

\* main, the heartbeat and the stale task.
LEMMA WorkerRInv ==
  ASSUME RInv, SInv', NEW w \in Workers, WorkerStep(w)
  PROVE  RInv'
<1>0. TypeOK
  BY DEF RInv, SInv
<1>1. CASE ClaimFound(w)
  BY <1>1, ClaimFoundRInv
<1>2. CASE ClaimFault(w) \/ Shutdown(w)
  <2>1. LoseClaim(w) /\ UNCHANGED execs
    BY <1>2 DEF ClaimFault, Shutdown
  <2>2. ASSUME NEW t \in TaskIds, tasks'[t] # tasks[t] PROVE Free(t)
    <3>1. IsNextClaim(tasks, t)
      BY <1>0, <2>1, <2>2 DEF LoseClaim, TypeOK, Table
    <3> QED  BY <3>1, FreeRow DEF IsNextClaim, Claimable
  <2> QED  BY <2>1, <2>2, TableStep DEF RowKept
<1>3. CASE Stop(w) \/ Crash(w)
  <2>1. Abandon(w) /\ UNCHANGED tasks
    BY <1>3 DEF Stop, Crash
  <2>2. \A e \in Slots : ExecKept(e)
    BY <1>0, <2>1, AbandonType DEF ExecKept
  <2> QED  BY <2>1, <2>2, KeptStep DEF RowKept
<1>4. CASE Heartbeat(w)
  <2>1. ASSUME NEW t \in TaskIds PROVE RowKept(t)
    <3>1. tasks'[t] = tasks[t] \/ (tasks[t] # NULL /\ tasks'[t] = HeartbeatRow(tasks[t]))
      BY <1>4 DEF Heartbeat, HeartbeatTable
    <3> QED  BY <1>0, <3>1, HeartbeatRowType DEF RowKept, TypeOK, Table
  <2> QED  BY <1>4, <2>1, TableStep DEF Heartbeat
<1>5. CASE Recover(w)
  <2>1. ASSUME NEW t \in TaskIds PROVE RowKept(t) \/ Free(t)
    <3>1. tasks'[t] = tasks[t] \/ Stale(tasks[t])
      BY <1>5 DEF Recover, RecoverTable
    <3> QED  BY <3>1, FreeRow DEF RowKept
  <2> QED  BY <1>5, <2>1, TableStep DEF Recover
<1> QED  BY <1>1, <1>2, <1>3, <1>4, <1>5 DEF WorkerStep

\* The steps of a spawned task.
LEMMA ExecRInv ==
  ASSUME Regime, RInv, SInv', NEW e \in Slots, ExecStep(e)
  PROVE  RInv'
<1>0. TypeOK
  BY DEF RInv, SInv
<1>1. CASE Start(e) \/ ChildOk(e) \/ ChildError(e) \/ Timeout(e)
  <2>1. PICK p \in Pcs : execs' = [execs EXCEPT ![e].pc = p]
    BY <1>1 DEF Start, ChildOk, ChildError, Timeout, Leave, Pcs
  <2>2. execs[e] # NULL /\ UNCHANGED tasks
    BY <1>1 DEF Start, ChildOk, ChildError, Timeout, At
  <2>3. \A f \in Slots : ExecKept(f)
    BY <1>0, <2>1, <2>2, Moved DEF ExecKept
  <2> QED  BY <2>2, <2>3, KeptStep DEF RowKept
<1>2. CASE ChildRetry(e)
  BY <1>2 DEF ChildRetry, Regime
<1>3. CASE SpawnFault(e)
  <2>1. execs[e] # NULL /\ UNCHANGED tasks /\ "spawn" \in FaultKinds
    BY <1>3 DEF SpawnFault, At, Fault
  <2>2. \A f \in Slots : ExecKept(f)
    BY <1>0, <1>3, <2>1, Spoilt DEF ExecKept
  <2> QED  BY <2>1, <2>2, KeptStep DEF RowKept
<1>4. CASE Write(e) \/ WriteFault(e)
  <2>1. /\ execs[e] # NULL /\ execs' = [execs EXCEPT ![e] = NULL]
        /\ UNCHANGED tasks \/ tasks' = Written(e)
    BY <1>4 DEF Write, WriteFault, At, EndExec
  <2>2. execs'[e] = NULL /\ \A f \in Slots : f # e => execs'[f] = execs[f]
    BY <1>0, <2>1 DEF TypeOK
  <2>3. \A f \in Slots : ExecKept(f)
    BY <2>2 DEF ExecKept
  <2>4. PICK t \in TaskIds : t = execs[e].task
    BY <1>0, <2>1 DEF TypeOK, Exec
  <2>5. Free(t)'
    BY <2>1, <2>2, <2>4 DEF Free, RInv, SoleExecution
  <2>6. \A u \in TaskIds : u # t => tasks'[u] = tasks[u]
    BY <1>0, <2>1, <2>4, WrittenType
  <2>7. \A u \in TaskIds : RowKept(u) \/ Free(u)'
    BY <2>5, <2>6 DEF RowKept
  <2> QED  BY <2>3, <2>7, KeptStep
<1> QED  BY <1>1, <1>2, <1>3, <1>4 DEF ExecStep

\* Time: a running row and its spawned task grow older together, and a prompt
\* worker ends the task before it is older than the reaper allows.
LEMMA TickRInv ==
  ASSUME Regime, RInv, SInv', Tick
  PROVE  RInv'
<1>0. TypeOK
  BY DEF RInv, SInv
<1>1. ASSUME NEW e \in Slots, execs[e] # NULL
      PROVE  /\ execs'[e].task = execs[e].task /\ execs'[e].att = execs[e].att
             /\ execs[e].age \in Nat /\ execs[e].age < StaleAfter
             /\ execs'[e].age = execs[e].age + 1
  <2>1. execs[e] \in Exec /\ execs'[e] = AgeExec(execs[e])
    BY <1>0, <1>1 DEF TypeOK, Tick
  <2>2. execs[e].age < Deadline(execs[e])
    BY <1>1 DEF Tick, Regime
  <2>3. execs[e].age \in Nat /\ TaskTimeout \in Nat /\ StaleAfter \in Nat
    BY <2>1, RustAssumption, ConstantAssumption DEF Exec
  <2>4. execs[e].age < StaleAfter
    BY <2>2, <2>3 DEF Deadline
  <2> QED  BY <2>1, <2>3, <2>4, AgeExecType
<1>2. ASSUME NEW e \in Slots PROVE execs'[e] # NULL => execs[e] # NULL
  BY DEF Tick, AgeExec
<1>3. SoleExecution'
  BY <1>1, <1>2 DEF RInv, SoleExecution
<1>4. ASSUME NEW e \in Slots, execs'[e] # NULL
      PROVE  execs'[e].age <= StaleAfter /\ Owns(e[1], execs'[e], tasks'[execs'[e].task])
  <2> DEFINE t == execs[e].task
             r == tasks[t]
  <2>1. execs[e] # NULL
    BY <1>2, <1>4
  <2>2. t \in TaskIds /\ Owns(e[1], execs[e], r) /\ execs'[e].task = t
    BY <1>0, <1>1, <2>1 DEF RInv, TypeOK, Exec
  <2>3. execs'[e].age <= StaleAfter
    BY <1>1, <2>1, ConstantAssumption
  <2>4. tasks'[t] = IF r = NULL THEN NULL ELSE AgeRow(r)
    BY <2>2 DEF Tick, AgeTable
  <2>5. CASE r = NULL
    BY <2>2, <2>3, <2>4, <2>5 DEF Owns
  <2>6. CASE r # NULL
    <3>1. r \in Row
      BY <1>0, <2>2, <2>6 DEF TypeOK, Table
    <3>2. /\ AgeRow(r).status = r.status /\ AgeRow(r).worker_id = r.worker_id
          /\ AgeRow(r).attempts = r.attempts
          /\ r.age # NULL /\ r.age <= StaleAfter => AgeRow(r).age = r.age + 1
      BY <3>1, AgeRowType
    <3>3. r.age = execs[e].age => AgeRow(r).age = execs'[e].age
      <4>1. execs[e].age \in Nat /\ execs[e].age <= StaleAfter /\ execs[e].age # NULL
        BY <1>1, <2>1, ConstantAssumption, NullAssumption
      <4> QED  BY <1>1, <2>1, <3>2, <4>1
    <3> HIDE DEF r, t
    <3>4. Owns(e[1], execs'[e], AgeRow(r))
      BY <1>1, <2>1, <2>2, <2>6, <3>2, <3>3 DEF Owns
    <3> QED  BY <2>2, <2>3, <2>4, <2>6, <3>4
  <2> QED  BY <2>5, <2>6
<1> QED  BY <1>3, <1>4 DEF RInv

\* Orphans, clients and administrators.
LEMMA OtherRInv ==
  ASSUME Regime, RInv, SInv',
         \/ \E t \in TaskIds : OrphanExit(t)
         \/ \E o \in Options : Enqueue(o)
         \/ AdminStep
  PROVE  RInv'
<1>0. TypeOK
  BY DEF RInv, SInv
<1>1. ASSUME NEW t \in TaskIds, OrphanExit(t) PROVE RInv'
  <2>1. UNCHANGED <<tasks, execs>>
    BY <1>1 DEF OrphanExit, Regime
  <2> QED  BY <2>1, TableStep DEF RowKept
<1>2. ASSUME NEW o \in Options, Enqueue(o) PROVE RInv'
  <2>1. /\ nextId \in TaskIds /\ UNCHANGED execs
        /\ \A t \in TaskIds : t # nextId => tasks'[t] = tasks[t]
    BY <1>0, <1>2 DEF Enqueue, TypeOK, Table, TaskIds
  <2>2. nextId >= nextId
    BY <2>1 DEF TaskIds
  <2>3. Free(nextId)
    BY <2>1, <2>2, FreeRow
  <2> QED  BY <2>1, <2>3, TableStep DEF RowKept
<1>3. ASSUME NEW t \in TaskIds, Requeue(t) \/ Cancel(t) PROVE RInv'
  <2>1. Free(t) /\ UNCHANGED execs
    BY <1>3, FreeRow DEF Requeue, Cancel
  <2>2. \A u \in TaskIds : u # t => tasks'[u] = tasks[u]
    BY <1>0, <1>3 DEF Requeue, Cancel, TypeOK, Table
  <2> QED  BY <2>1, <2>2, TableStep DEF RowKept
<1>4. ASSUME NEW S \in SUBSET TaskIds, Delete(S) PROVE RInv'
  BY <1>4, TableStep DEF Delete, DeleteFrom, RowKept
<1>5. CASE Cleanup
  <2>1. ASSUME NEW t \in TaskIds PROVE RowKept(t)
    <3>1. tasks'[t] = tasks[t] \/ (tasks[t] # NULL /\ tasks'[t] = ExpireRow(tasks[t]))
      BY <1>5 DEF Cleanup, ExpireTable, TtlExpired
    <3> QED  BY <1>0, <3>1, FinishRowType DEF RowKept, TypeOK, Table
  <2> QED  BY <1>5, <2>1, TableStep DEF Cleanup
<1> QED  BY <1>1, <1>2, <1>3, <1>4, <1>5 DEF AdminStep

\* In the regime every reachable state satisfies the inductive invariant.
LEMMA SpecRInv == Regime => (Spec => []RInv)
<1> SUFFICES ASSUME Regime PROVE Spec => []RInv
  OBVIOUS
<1>1. Init => RInv
  <2>1. Init => \A e \in Slots : execs[e] = NULL
    BY DEF Init
  <2> QED  BY <2>1, InitSInv DEF RInv, SoleExecution
<1>2. RInv /\ [Next]_vars => RInv'
  <2> SUFFICES ASSUME RInv, [Next]_vars PROVE RInv'
    OBVIOUS
  <2>0. SInv'
    BY NextSInv DEF RInv
  <2>1. CASE UNCHANGED vars
    BY <2>0, <2>1, TableStep DEF vars, RowKept
  <2>2. CASE Next
    BY <2>0, <2>2, WorkerRInv, ExecRInv, TickRInv, OtherRInv DEF Next
  <2> QED  BY <2>1, <2>2
<1> QED  BY <1>1, <1>2, PTL DEF Spec

\* A task is executed, or waits for a permit, in at most one spawned task of
\* one Rust worker, whatever crashes, fails or is not spawned.
THEOREM RustExecutionIsExclusive == Regime => (Spec => []SoleExecution)
<1> SUFFICES ASSUME Regime PROVE Spec => []SoleExecution
  OBVIOUS
<1>1. RInv => SoleExecution
  BY DEF RInv
<1> QED  BY <1>1, SpecRInv, PTL

\* The attempts a spawned task writes back are those its row still has, if no
\* child fails to be spawned.
THEOREM RustSnapshotsAreCurrent ==
  Regime /\ "spawn" \notin FaultKinds => (Spec => []SnapshotIsCurrent)
<1> SUFFICES ASSUME Regime, "spawn" \notin FaultKinds PROVE Spec => []SnapshotIsCurrent
  OBVIOUS
<1>1. RInv => SnapshotIsCurrent
  BY DEF RInv, SnapshotIsCurrent, Owns
<1> QED  BY <1>1, SpecRInv, PTL

-----------------------------------------------------------------------------
(* The documented life of a task                                           *)

\* The edges of the life of a task that a step takes in the table.
Edge(r, s) ==
  \/ s.status = r.status /\ s.attempts = r.attempts
  \/ /\ r.status = "pending" /\ s.status \in {"running", "cancelled"}
     /\ s.attempts = r.attempts
  \/ /\ r.status = "running" /\ s.status = "completed" /\ s.attempts = r.attempts
  \/ /\ r.status = "running" /\ s.status \in {"pending", "failed"}
     /\ s.attempts = r.attempts + 1
  \/ r.status = "failed" /\ s.status = "pending" /\ s.attempts = 0

Lives(t) ==
  \/ tasks'[t] = tasks[t] /\ (t < nextId' <=> t < nextId)
  \/ t < nextId /\ t < nextId' /\ tasks'[t] = NULL
  \/ /\ t >= nextId /\ t < nextId'
     /\ tasks[t] = NULL /\ tasks'[t] # NULL
     /\ tasks'[t].status = "pending" /\ tasks'[t].attempts = 0
  \/ /\ t < nextId /\ t < nextId'
     /\ tasks[t] # NULL /\ tasks'[t] # NULL /\ Edge(tasks[t], tasks'[t])

\* Those edges are the documented ones.
LEMMA EdgeIsDocumented ==
  ASSUME TypeOK, TypeOK', NEW t \in TaskIds, Lives(t)
  PROVE  Lifecycle!Move(t) \/ Lifecycle!Stay(t)
<1>1. t \in Nat /\ nextId \in Nat /\ nextId' \in Nat
  BY ConstantAssumption DEF TypeOK, TaskIds
<1>2. /\ t >= nextId => Stage(t) = "new"
      /\ t < nextId /\ tasks[t] = NULL => Stage(t) = "deleted"
      /\ t < nextId /\ tasks[t] # NULL => Stage(t) = tasks[t].status
  BY <1>1 DEF Stage
<1>3. /\ t >= nextId' => Stage(t)' = "new"
      /\ t < nextId' /\ tasks'[t] = NULL => Stage(t)' = "deleted"
      /\ t < nextId' /\ tasks'[t] # NULL => Stage(t)' = tasks'[t].status
  BY <1>1 DEF Stage
<1>4. /\ tasks[t] # NULL => tasks[t].status \in Statuses /\ tasks[t].attempts \in Nat
      /\ tasks'[t] # NULL => tasks'[t].status \in Statuses /\ tasks'[t].attempts \in Nat
  BY DEF TypeOK, Table, Row
<1>5. CASE tasks'[t] = tasks[t] /\ (t < nextId' <=> t < nextId)
  <2>1. Stage(t)' = Stage(t)
    BY <1>1, <1>2, <1>3, <1>5
  <2> QED  BY <1>5, <2>1 DEF Lifecycle!Stay
<1>6. CASE t < nextId /\ t < nextId' /\ tasks'[t] = NULL
  <2>1. Stage(t)' = "deleted"
    BY <1>3, <1>6
  <2>2. CASE tasks[t] = NULL
    BY <1>2, <1>6, <2>1, <2>2 DEF Lifecycle!Stay
  <2>3. CASE tasks[t] # NULL
    <3>1. Stage(t) \in Statuses
      BY <1>2, <1>4, <1>6, <2>3
    <3> QED  BY <1>6, <2>1, <3>1 DEF Lifecycle!Move, Lifecycle!Ways, Statuses
  <2> QED  BY <2>2, <2>3
<1>7. CASE /\ t >= nextId /\ t < nextId'
           /\ tasks[t] = NULL /\ tasks'[t] # NULL
           /\ tasks'[t].status = "pending" /\ tasks'[t].attempts = 0
  <2>1. Stage(t) = "new" /\ Stage(t)' = "pending"
    BY <1>2, <1>3, <1>7
  <2> QED  BY <1>7, <2>1 DEF Lifecycle!Move, Lifecycle!Ways
<1>8. CASE /\ t < nextId /\ t < nextId'
           /\ tasks[t] # NULL /\ tasks'[t] # NULL /\ Edge(tasks[t], tasks'[t])
  <2>1. Stage(t) = tasks[t].status /\ Stage(t)' = tasks'[t].status
    BY <1>2, <1>3, <1>8
  <2>2. CASE tasks'[t].status = tasks[t].status /\ tasks'[t].attempts = tasks[t].attempts
    BY <1>8, <2>1, <2>2 DEF Lifecycle!Stay
  <2>3. CASE tasks[t].status = "pending"
    BY <1>8, <2>1, <2>2, <2>3 DEF Edge, Lifecycle!Move, Lifecycle!Ways
  <2>4. CASE tasks[t].status = "running"
    BY <1>8, <2>1, <2>2, <2>4 DEF Edge, Lifecycle!Move, Lifecycle!Ways
  <2>5. CASE tasks[t].status = "failed"
    BY <1>8, <2>1, <2>2, <2>5 DEF Edge, Lifecycle!Move, Lifecycle!Ways
  <2> QED  BY <1>8, <2>2, <2>3, <2>4, <2>5 DEF Edge
<1> QED  BY <1>5, <1>6, <1>7, <1>8 DEF Lives

\* A row without a TTL never expires.
Quiet(r) == r.ttl = NULL /\ r.status # "expired"

\* The statements take documented edges and leave a row without a TTL quiet.
LEMMA StatementEdges ==
  ASSUME NEW r \in Row, Quiet(r), NEW w \in Workers, NEW m \in Nat
  PROVE  /\ r.status = "pending" =>
              /\ Edge(r, ClaimRow(r, w)) /\ Quiet(ClaimRow(r, w))
              /\ Edge(r, CancelRow(r)) /\ Quiet(CancelRow(r))
         /\ r.status = "running" =>
              /\ Edge(r, RecoverRow(r)) /\ Quiet(RecoverRow(r))
              /\ Edge(r, CompleteRow(r)) /\ Quiet(CompleteRow(r))
              /\ Edge(r, FailTaskInDb(r, r.attempts, m)) /\ Quiet(FailTaskInDb(r, r.attempts, m))
         /\ r.status = "failed" => Edge(r, RequeueRow(r)) /\ Quiet(RequeueRow(r))
         /\ Edge(r, HeartbeatRow(r)) /\ Quiet(HeartbeatRow(r))
         /\ Edge(r, AgeRow(r)) /\ Quiet(AgeRow(r))
<1>0. r.attempts \in Nat
  BY DEF Row
<1>1. ASSUME r.status = "pending"
      PROVE  /\ Edge(r, ClaimRow(r, w)) /\ Quiet(ClaimRow(r, w))
             /\ Edge(r, CancelRow(r)) /\ Quiet(CancelRow(r))
  BY <1>1 DEF Row, ClaimRow, CancelRow, Edge, Quiet
<1>2. ASSUME r.status = "running"
      PROVE  /\ Edge(r, RecoverRow(r)) /\ Quiet(RecoverRow(r))
             /\ Edge(r, CompleteRow(r)) /\ Quiet(CompleteRow(r))
  BY <1>2 DEF Row, RecoverRow, CompleteRow, Edge, Quiet
<1>3. ASSUME r.status = "running"
      PROVE  Edge(r, FailTaskInDb(r, r.attempts, m)) /\ Quiet(FailTaskInDb(r, r.attempts, m))
  <2>1. \A a \in Nat :
          LET s == FailTaskInDb(r, a, m)
          IN s.attempts = a + 1 /\ s.ttl = r.ttl /\ s.status \in {"pending", "failed"}
    BY FailTaskInDbType
  <2> QED  BY <1>0, <1>3, <2>1 DEF Edge, Quiet
<1>4. ASSUME r.status = "failed" PROVE Edge(r, RequeueRow(r)) /\ Quiet(RequeueRow(r))
  BY <1>4 DEF Row, RequeueRow, Edge, Quiet
<1>5. Edge(r, HeartbeatRow(r)) /\ Quiet(HeartbeatRow(r))
  BY DEF Row, HeartbeatRow, Edge, Quiet
<1>6. Edge(r, AgeRow(r)) /\ Quiet(AgeRow(r))
  BY AgeRowType, StatementsKeepOpts, 0 \in Nat DEF Edge, Quiet
<1> QED  BY <1>1, <1>2, <1>3, <1>4, <1>5, <1>6

\* The conditions under which tasks live as documented: the regime, and no TTL,
\* because a spawned task writes over a row that expired in its hands, and no
\* child that is not spawned, because it resets the counter of its task.
Documented == Regime /\ "spawn" \notin FaultKinds /\ \A o \in Options : o.ttl = NULL

LInv == RInv /\ \A t \in TaskIds : tasks[t] # NULL => Quiet(tasks[t])

\* What is to be shown of every task and every step.
LStep(t) == Lives(t) /\ (tasks'[t] # NULL => Quiet(tasks'[t]))

\* A row that one statement takes along an edge.
LEMMA EdgeStep ==
  ASSUME LInv, TypeOK', UNCHANGED nextId, NEW t \in TaskIds,
         \/ tasks'[t] = tasks[t]
         \/ tasks'[t] = NULL
         \/ tasks[t] # NULL /\ tasks'[t] # NULL /\ Edge(tasks[t], tasks'[t]) /\ Quiet(tasks'[t])
  PROVE  LStep(t)
<1>1. t \in Nat /\ nextId \in Nat
  BY ConstantAssumption DEF LInv, RInv, SInv, TypeOK, TaskIds
<1>2. t >= nextId => tasks[t] = NULL
  BY DEF LInv, RInv, SInv
<1> QED  BY <1>1, <1>2 DEF LInv, LStep, Lives

\* claim_task, its answer lost or not.
LEMMA ClaimLives ==
  ASSUME LInv, TypeOK', UNCHANGED nextId, NEW w \in Workers, NEW u \in TaskIds,
         IsNextClaim(tasks, u), tasks' = [tasks EXCEPT ![u] = ClaimRow(@, w)],
         NEW t \in TaskIds
  PROVE  LStep(t)
<1>1. tasks'[t] = IF t = u THEN ClaimRow(tasks[t], w) ELSE tasks[t]
  BY DEF LInv, RInv, SInv, TypeOK, Table
<1>2. CASE t = u
  <2>1. tasks[t] # NULL /\ tasks[t].status = "pending"
    BY <1>2 DEF IsNextClaim, Claimable
  <2>2. tasks[t] \in Row /\ Quiet(tasks[t])
    BY <2>1 DEF LInv, RInv, SInv, TypeOK, Table
  <2>3. Edge(tasks[t], ClaimRow(tasks[t], w)) /\ Quiet(ClaimRow(tasks[t], w))
    BY <2>1, <2>2, StatementEdges, 0 \in Nat
  <2>4. ClaimRow(tasks[t], w) # NULL
    BY <2>2, ClaimRowType, NullAssumption
  <2> QED  BY <1>1, <1>2, <2>1, <2>3, <2>4, EdgeStep
<1>3. CASE t # u
  BY <1>1, <1>3, EdgeStep
<1> QED  BY <1>2, <1>3

\* The rows of a well-typed table are not NULL.
LEMMA RowNotNull == \A r \in Row : r # NULL
BY NullAssumption

\* main, the heartbeat and the stale task.
LEMMA WorkerLives ==
  ASSUME LInv, TypeOK', NEW w \in Workers, WorkerStep(w), NEW t \in TaskIds
  PROVE  LStep(t)
<1>0. UNCHANGED nextId
  BY DEF WorkerStep, ClaimFound, ClaimFault, Shutdown, Stop, Crash, Heartbeat, Recover
<1>a. tasks[t] = NULL \/ (tasks[t] \in Row /\ Quiet(tasks[t]))
  BY DEF LInv, RInv, SInv, TypeOK, Table
<1>1. CASE UNCHANGED tasks
  BY <1>0, <1>1, EdgeStep
<1>2. CASE \E u \in TaskIds : /\ IsNextClaim(tasks, u)
                              /\ tasks' = [tasks EXCEPT ![u] = ClaimRow(@, w)]
  BY <1>0, <1>2, ClaimLives
<1>3. CASE Heartbeat(w)
  <2>1. tasks'[t] = tasks[t] \/ (tasks[t] # NULL /\ tasks'[t] = HeartbeatRow(tasks[t]))
    BY <1>3 DEF Heartbeat, HeartbeatTable
  <2>2. tasks[t] # NULL => /\ HeartbeatRow(tasks[t]) # NULL
                           /\ Edge(tasks[t], HeartbeatRow(tasks[t]))
                           /\ Quiet(HeartbeatRow(tasks[t]))
    BY <1>a, StatementEdges, HeartbeatRowType, RowNotNull, 0 \in Nat
  <2> QED  BY <1>0, <2>1, <2>2, EdgeStep
<1>4. CASE Recover(w)
  <2>1. \/ tasks'[t] = tasks[t]
        \/ /\ tasks[t] # NULL /\ tasks[t].status = "running"
           /\ tasks'[t] = RecoverRow(tasks[t])
    BY <1>4 DEF Recover, RecoverTable, Stale
  <2>2. tasks[t] # NULL /\ tasks[t].status = "running" =>
          /\ RecoverRow(tasks[t]) # NULL
          /\ Edge(tasks[t], RecoverRow(tasks[t])) /\ Quiet(RecoverRow(tasks[t]))
    BY <1>a, StatementEdges, BackToPendingType, RowNotNull, 0 \in Nat
  <2> QED  BY <1>0, <2>1, <2>2, EdgeStep
<1> QED  BY <1>1, <1>2, <1>3, <1>4
         DEF WorkerStep, ClaimFound, ClaimFault, LoseClaim, Shutdown, Stop, Crash

\* A spawned task: its last UPDATE completes the task or charges one attempt,
\* because the row is still running with the attempts of the claim.
LEMMA ExecLives ==
  ASSUME Documented, LInv, TypeOK', NEW e \in Slots, ExecStep(e), NEW t \in TaskIds
  PROVE  LStep(t)
<1>0. TypeOK /\ UNCHANGED nextId /\ execs[e] # NULL
  BY DEF LInv, RInv, SInv, ExecStep, At, Start, ChildOk, ChildError, ChildRetry, SpawnFault,
         Timeout, Write, WriteFault
<1>1. UNCHANGED tasks \/ tasks' = Written(e)
  BY DEF Documented, Regime, ExecStep, Start, ChildOk, ChildError, ChildRetry, SpawnFault,
         Timeout, Write, WriteFault
<1>2. CASE tasks'[t] = tasks[t]
  BY <1>0, <1>2, EdgeStep
<1>3. CASE tasks' = Written(e) /\ t = execs[e].task /\ tasks[t] # NULL
  <2> DEFINE x == execs[e]
  <2>1. tasks[t] \in Row /\ Quiet(tasks[t]) /\ x.max_retries \in Nat
    BY <1>0, <1>3 DEF LInv, TypeOK, Table, Exec
  <2>2. Owns(e[1], x, tasks[t])
    BY <1>0, <1>3 DEF LInv, RInv
  <2>3. tasks[t].status = "running" /\ tasks[t].attempts = x.att
    BY <1>3, <2>1, <2>2 DEF Owns, Quiet, Documented
  <2>4. tasks'[t] = IF x.pc = "completing" THEN CompleteRow(tasks[t])
                    ELSE FailTaskInDb(tasks[t], tasks[t].attempts, x.max_retries)
    BY <1>0, <1>3, <2>3, WrittenType
  <2>5. tasks'[t] # NULL
    <3>1. tasks[t].attempts \in Nat
      BY <2>1 DEF Row
    <3>2. tasks'[t] \in Row
      BY <2>1, <2>4, <3>1, CompleteRowType, FailTaskInDbType
    <3> QED  BY <3>2, RowNotNull
  <2>6. PICK v \in Workers : v = e[1]
    BY SlotFacts
  <2>7. Edge(tasks[t], tasks'[t]) /\ Quiet(tasks'[t])
    BY <2>1, <2>3, <2>4, <2>6, StatementEdges
  <2> QED  BY <1>0, <1>3, <2>5, <2>7, EdgeStep
<1>4. CASE tasks' = Written(e) /\ ~(t = execs[e].task /\ tasks[t] # NULL)
  <2>1. tasks'[t] = tasks[t]
    BY <1>0, <1>4, WrittenType
  <2> QED  BY <1>2, <2>1
<1> QED  BY <1>1, <1>2, <1>3, <1>4

\* Orphans, clients, administrators and time.
LEMMA OtherLives ==
  ASSUME Documented, LInv, TypeOK', NEW t \in TaskIds,
         \/ \E u \in TaskIds : OrphanExit(u)
         \/ \E o \in Options : Enqueue(o)
         \/ AdminStep
         \/ Tick
  PROVE  LStep(t)
<1>0. TypeOK /\ (tasks[t] = NULL \/ (tasks[t] \in Row /\ Quiet(tasks[t])))
  BY DEF LInv, RInv, SInv, TypeOK, Table
<1>1. ASSUME NEW u \in TaskIds, OrphanExit(u) PROVE LStep(t)
  <2>1. UNCHANGED <<tasks, nextId>>
    BY <1>1 DEF OrphanExit, Documented, Regime
  <2> QED  BY <2>1, EdgeStep
<1>2. ASSUME NEW o \in Options, Enqueue(o) PROVE LStep(t)
  <2>1. /\ nextId \in TaskIds /\ nextId' = nextId + 1
        /\ tasks'[t] = IF t = nextId THEN NewRow(o, 0) ELSE tasks[t]
    BY <1>0, <1>2 DEF Enqueue, TypeOK, Table, TaskIds
  <2>2. t \in Nat /\ nextId \in Nat
    BY <1>0, <2>1, ConstantAssumption DEF TaskIds
  <2>3. CASE t = nextId
    <3>1. tasks[t] = NULL
      BY <2>2, <2>3 DEF LInv, RInv, SInv
    <3>2. NewRow(o, 0) # NULL
      BY NewRowType, RowNotNull, 0 \in Nat
    <3>3. /\ NewRow(o, 0).status = "pending" /\ NewRow(o, 0).attempts = 0
          /\ Quiet(NewRow(o, 0))
      BY DEF NewRow, Quiet, Documented
    <3>4. t >= nextId /\ t < nextId'
      BY <2>1, <2>2, <2>3
    <3> QED  BY <2>1, <2>3, <3>1, <3>2, <3>3, <3>4 DEF LStep, Lives
  <2>4. CASE t # nextId
    <3>1. tasks'[t] = tasks[t] /\ (t < nextId' <=> t < nextId)
      BY <2>1, <2>2, <2>4
    <3> QED  BY <1>0, <3>1 DEF LStep, Lives
  <2> QED  BY <2>3, <2>4
<1>3. ASSUME NEW u \in TaskIds, Requeue(u) \/ Cancel(u) PROVE LStep(t)
  <2>1. \/ tasks'[t] = tasks[t]
        \/ /\ tasks[t] # NULL /\ tasks[t].status = "failed"
           /\ tasks'[t] = RequeueRow(tasks[t])
        \/ /\ tasks[t] # NULL /\ tasks[t].status = "pending"
           /\ tasks'[t] = CancelRow(tasks[t])
    BY <1>0, <1>3 DEF Requeue, Cancel, TypeOK, Table
  <2>2. tasks[t] # NULL /\ tasks[t].status = "failed" =>
          /\ RequeueRow(tasks[t]) # NULL
          /\ Edge(tasks[t], RequeueRow(tasks[t])) /\ Quiet(RequeueRow(tasks[t]))
    <3>1. ASSUME NEW r \in Row, Quiet(r), r.status = "failed"
          PROVE  RequeueRow(r) # NULL /\ Edge(r, RequeueRow(r)) /\ Quiet(RequeueRow(r))
      <4>1. RequeueRow(r) \in Row
        BY BackToPendingType, 0 \in Nat
      <4>2. Edge(r, RequeueRow(r)) /\ Quiet(RequeueRow(r))
        BY <3>1 DEF RequeueRow, Row, Edge, Quiet
      <4> QED  BY <4>1, <4>2, RowNotNull
    <3> QED  BY <1>0, <3>1
  <2>3. tasks[t] # NULL /\ tasks[t].status = "pending" =>
          /\ CancelRow(tasks[t]) # NULL
          /\ Edge(tasks[t], CancelRow(tasks[t])) /\ Quiet(CancelRow(tasks[t]))
    BY <1>0, FinishRowType, RowNotNull DEF CancelRow, Row, Edge, Quiet
  <2>4. UNCHANGED nextId
    BY <1>3 DEF Requeue, Cancel
  <2> QED  BY <2>1, <2>2, <2>3, <2>4, EdgeStep
<1>4. ASSUME NEW S \in SUBSET TaskIds, Delete(S) PROVE LStep(t)
  <2>1. UNCHANGED nextId /\ (tasks'[t] = tasks[t] \/ tasks'[t] = NULL)
    BY <1>4 DEF Delete, DeleteFrom
  <2> QED  BY <2>1, EdgeStep
<1>5. CASE Cleanup
  <2>1. UNCHANGED nextId /\ tasks'[t] = tasks[t]
    BY <1>0, <1>5 DEF Cleanup, ExpireTable, TtlExpired, Quiet
  <2> QED  BY <2>1, EdgeStep
<1>6. CASE Tick
  <2>1. tasks'[t] = NULL \/ (tasks[t] # NULL /\ tasks'[t] = AgeRow(tasks[t]))
    BY <1>6 DEF Tick, AgeTable
  <2>2. tasks[t] # NULL => /\ AgeRow(tasks[t]) # NULL
                           /\ Edge(tasks[t], AgeRow(tasks[t])) /\ Quiet(AgeRow(tasks[t]))
    <3>1. ASSUME NEW r \in Row, r.ttl = NULL PROVE AgeRow(r).ttl = NULL
      BY <3>1 DEF AgeRow, Row
    <3> QED  BY <1>0, <3>1, AgeRowType, RowNotNull DEF Edge, Quiet
  <2>3. UNCHANGED nextId
    BY <1>6 DEF Tick
  <2> QED  BY <2>1, <2>2, <2>3, EdgeStep
<1> QED  BY <1>1, <1>2, <1>3, <1>4, <1>5, <1>6 DEF AdminStep

\* Tasks without a TTL, under prompt Rust workers whose children are always
\* spawned, live the documented life: the workers, the reaper and the requests
\* implement TaskLifecycle.
THEOREM RustTasksLiveAsDocumented == Documented => (Spec => LifecycleSpec)
<1> SUFFICES ASSUME Documented PROVE Spec => LifecycleSpec
  OBVIOUS
<1>0. Regime
  BY DEF Documented
<1> DEFINE life == <<[t \in TaskIds |-> Stage(t)],
                     [t \in TaskIds |-> IF tasks[t] = NULL THEN 0 ELSE tasks[t].attempts]>>
<1>1. Init => Lifecycle!Init
  BY ConstantAssumption DEF Init, Lifecycle!Init, Stage, TaskIds
<1>2. ASSUME LInv, RInv', [Next]_vars
      PROVE  LInv' /\ [Lifecycle!Next]_life
  <2>0. TypeOK /\ TypeOK'
    BY <1>2 DEF LInv, RInv, SInv
  <2>1. ASSUME NEW t \in TaskIds PROVE LStep(t)
    <3>1. CASE UNCHANGED vars
      BY <1>2, <2>0, <3>1, EdgeStep DEF vars
    <3>2. CASE Next
      BY <1>2, <2>0, <3>2, WorkerLives, ExecLives, OtherLives DEF Next
    <3> QED  BY <1>2, <3>1, <3>2
  <2>2. LInv'
    BY <1>2, <2>1 DEF LInv, LStep
  <2>3. \A t \in TaskIds : Lifecycle!Move(t) \/ Lifecycle!Stay(t)
    BY <2>0, <2>1, EdgeIsDocumented DEF LStep
  <2>4. Lifecycle!Next
    BY <2>3 DEF Lifecycle!Next
  <2> QED  BY <2>2, <2>4
<1>3. Init => \A t \in TaskIds : tasks[t] # NULL => Quiet(tasks[t])
  BY DEF Init
<1>4. RInv /\ (\A t \in TaskIds : tasks[t] # NULL => Quiet(tasks[t])) => LInv
  BY DEF LInv
<1>5. Spec => []LInv
  BY <1>0, <1>2, <1>3, <1>4, SpecRInv, PTL DEF Spec
<1> QED  BY <1>0, <1>1, <1>2, <1>5, SpecRInv, PTL DEF Spec, LifecycleSpec, Lifecycle!Spec, life
=============================================================================
