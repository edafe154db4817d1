--------------------------- MODULE PyWorker_proofs ---------------------------
(***************************************************************************)
(* Theorems about the Python workers, for any number of workers, slots and *)
(* tasks and any bounds: type correctness, and, when executions end before *)
(* their rows are stale, exclusive execution, exact accounting of attempts *)
(* and truthful completion webhooks.                                       *)
(***************************************************************************)
EXTENDS PyWorker, TaskRow_proofs, FiniteSetTheorems

-----------------------------------------------------------------------------
(* Types                                                                   *)

\* A slot belongs to a worker.
LEMMA SlotFacts ==
  /\ \A e \in Slots : e[1] \in Workers
  /\ \A w \in Workers, i \in 1..Concurrency : <<w, i>> \in Slots /\ <<w, i>>[1] = w
BY DEF Slots

\* The steps of process_task keep its record an execution of the same task.
LEMMA ExecTypes ==
  ASSUME NEW x \in Exec
  PROVE  /\ ToComplete(x) \in Exec /\ ToComplete(x).pc = "completing"
         /\ ToComplete(x).task = x.task /\ ToComplete(x).elapsed = x.elapsed
         /\ \A c \in {"timeout", "error"} :
              /\ ToFail(x, c) \in Exec /\ ToFail(x, c).pc = "failing"
              /\ ToFail(x, c).task = x.task /\ ToFail(x, c).elapsed = x.elapsed
         /\ \A a \in Nat :
              /\ ToFailWrite(x, a) \in Exec /\ ToFailWrite(x, a).pc = "failwrite"
              /\ ToFailWrite(x, a).att = a
              /\ ToFailWrite(x, a).task = x.task /\ ToFailWrite(x, a).elapsed = x.elapsed
<1>1. /\ ToComplete(x) \in Exec /\ ToComplete(x).pc = "completing"
      /\ ToComplete(x).task = x.task /\ ToComplete(x).elapsed = x.elapsed
  BY DEF Exec, ToComplete
<1>2. ASSUME NEW c \in {"timeout", "error"}
      PROVE  /\ ToFail(x, c) \in Exec /\ ToFail(x, c).pc = "failing"
             /\ ToFail(x, c).task = x.task /\ ToFail(x, c).elapsed = x.elapsed
  BY DEF Exec, ToFail
<1>3. ASSUME NEW a \in Nat
      PROVE  /\ ToFailWrite(x, a) \in Exec /\ ToFailWrite(x, a).pc = "failwrite"
             /\ ToFailWrite(x, a).att = a
             /\ ToFailWrite(x, a).task = x.task /\ ToFailWrite(x, a).elapsed = x.elapsed
  BY DEF Exec, ToFailWrite
<1> QED  BY <1>1, <1>2, <1>3

\* A claimed row gives a new execution.
LEMMA NewExecType ==
  ASSUME NEW t \in TaskIds, tasks[t] \in Row
  PROVE  /\ NewExec(t) \in Exec
         /\ NewExec(t).task = t /\ NewExec(t).pc = "run" /\ NewExec(t).elapsed = 0
<1>1. tasks[t].opts.webhook \in BOOLEAN
  BY ConstantAssumption DEF Row, OptionType
<1>2. 0 \in 0..MaxElapsed
  BY WorkerAssumption DEF MaxElapsed
<1> QED  BY <1>1, <1>2 DEF NewExec, Exec

\* Time moves only the elapsed time of an execution.
LEMMA AgeExecType ==
  ASSUME NEW x \in Exec
  PROVE  /\ AgeExec(x) \in Exec
         /\ AgeExec(x).task = x.task /\ AgeExec(x).pc = x.pc /\ AgeExec(x).att = x.att
         /\ x.elapsed < MaxElapsed => AgeExec(x).elapsed = x.elapsed + 1
<1>1. x # NULL /\ MaxElapsed \in Nat
  BY WorkerAssumption DEF MaxElapsed
<1>2. (IF x.elapsed < MaxElapsed THEN x.elapsed + 1 ELSE x.elapsed) \in 0..MaxElapsed
  BY <1>1 DEF Exec
<1> QED  BY <1>1, <1>2 DEF AgeExec, Exec

\* The number of children a worker leaves behind is a number.
LEMMA ChildrenType ==
  ASSUME NEW S \in SUBSET Slots, NEW t \in TaskIds
  PROVE  ChildrenOf(S, t) \in Nat
<1>1. IsFiniteSet(Workers) /\ IsFiniteSet(1..Concurrency)
  BY WorkerAssumption, FS_Interval
<1>2. IsFiniteSet(Slots)
  BY <1>1, FS_Product DEF Slots
<1> DEFINE C == {e \in S : execs[e] # NULL /\ execs[e].task = t /\ execs[e].pc = "run"}
<1>3. C \in SUBSET Slots
  OBVIOUS
<1>4. IsFiniteSet(C)
  BY <1>2, <1>3, FS_Subset
<1>5. Cardinality(C) \in Nat
  BY <1>4, FS_CardinalityType
<1> QED  BY <1>5 DEF ChildrenOf

\* Children are tracked up to the bound.
LEMMA TrackedType ==
  ASSUME NEW n \in Nat
  PROVE  Tracked(n) \in 0..MaxOrphans
BY WorkerAssumption DEF Tracked

\* When a worker goes away its slots are empty and its children are orphans.
LEMMA AbandonType ==
  ASSUME TypeOK, NEW S \in SUBSET Slots, Abandon(S)
  PROVE  /\ execs' \in [Slots -> Exec \cup {NULL}]
         /\ orphans' \in [TaskIds -> 0..MaxOrphans]
<1>1. execs' \in [Slots -> Exec \cup {NULL}]
  BY DEF TypeOK, Abandon
<1>2. ASSUME NEW t \in TaskIds
      PROVE  Tracked(orphans[t] + ChildrenOf(S, t)) \in 0..MaxOrphans
  BY ChildrenType, TrackedType, WorkerAssumption DEF TypeOK
<1> QED  BY <1>1, <1>2 DEF Abandon

\* The main coroutine, the signal, the crash and the two periodic coroutines
\* keep the types.
LEMMA LoopTypeOK ==
  ASSUME TypeOK, NEW w \in Workers,
         LoopStep(w) \/ Heartbeat(w) \/ Recover(w) \/ Signal(w) \/ Crash(w)
  PROVE  TypeOK'
<1> USE DEF TypeOK, dbVars, loopVars
<1>1. CASE LoopTop(w)  BY <1>1 DEF LoopTop
<1>2. CASE Acquire(w)  BY <1>2 DEF Acquire
<1>3. CASE ClaimFound(w)
  <2>1. PICK t \in TaskIds, i \in 1..Concurrency :
          /\ IsNextClaim(tasks, t)
          /\ tasks' = [tasks EXCEPT ![t] = ClaimRow(@, w)]
          /\ execs' = [execs EXCEPT ![<<w, i>>] = NewExec(t)]
    BY <1>3 DEF ClaimFound
  <2>2. tasks[t] \in Row
    BY <2>1 DEF IsNextClaim, Claimable, Table
  <2>3. ClaimRow(tasks[t], w) \in Row /\ NewExec(t) \in Exec
    BY <2>2, ClaimRowType, NewExecType
  <2>4. tasks' \in Table
    BY <2>1, <2>3 DEF Table
  <2>5. execs' \in [Slots -> Exec \cup {NULL}]
    BY <2>1, <2>3
  <2> QED  BY <1>3, <2>4, <2>5 DEF ClaimFound
<1>4. CASE ClaimNone(w)  BY <1>4 DEF ClaimNone
<1>5. CASE Drain(w)
  <2>1. SlotsOf(w) \in SUBSET Slots  BY DEF SlotsOf
  <2> QED  BY <1>5, <2>1, AbandonType DEF Drain
<1>6. CASE Heartbeat(w)
  <2>1. tasks' \in Table
    BY <1>6, HeartbeatRowType DEF Heartbeat, HeartbeatTable, Table
  <2> QED  BY <1>6, <2>1 DEF Heartbeat
<1>7. CASE Recover(w)
  <2>1. \A t \in TaskIds : Stale(tasks[t]) => RecoverRow(tasks[t]) \in Row
    BY BackToPendingType DEF Stale, Table
  <2>2. tasks' \in Table
    BY <1>7, <2>1 DEF Recover, RecoverTable, Table
  <2> QED  BY <1>7, <2>2 DEF Recover
<1>8. CASE Signal(w)  BY <1>8 DEF Signal
<1>9. CASE Crash(w)
  <2>1. SlotsOf(w) \in SUBSET Slots  BY DEF SlotsOf
  <2> QED  BY <1>9, <2>1, AbandonType DEF Crash
<1> QED  BY <1>1, <1>2, <1>3, <1>4, <1>5, <1>6, <1>7, <1>8, <1>9 DEF LoopStep

\* The end of a coroutine and its webhook keep the types.
LEMMA EndType ==
  ASSUME TypeOK, NEW e \in Slots, execs[e] # NULL
  PROVE  /\ EndExec(e) => /\ execs' \in [Slots -> Exec \cup {NULL}]
                          /\ sem' \in [Workers -> Nat]
         /\ \A s \in {"completed", "failed"} :
              FireWebhook(e, s) => fired' \subseteq TaskIds \X {"completed", "failed"}
<1>1. execs[e].task \in TaskIds
  BY DEF TypeOK, Exec
<1> QED  BY <1>1, SlotFacts DEF TypeOK, EndExec, FireWebhook

\* What an UPDATE of one row does to the table.
LEMMA UpdateType ==
  ASSUME TypeOK, NEW e \in Slots, execs[e] # NULL
  PROVE  LET t == execs[e].task IN
         /\ t \in TaskIds
         /\ tasks[t] # NULL => tasks[t] \in Row
         /\ \A s \in Row : [tasks EXCEPT ![t] = s] \in Table
BY DEF TypeOK, Table, Exec

\* The steps of process_task keep the types.
LEMMA ExecTypeOK ==
  ASSUME TypeOK, NEW e \in Slots, ExecStep(e)
  PROVE  TypeOK'
<1> DEFINE t == execs[e].task
<1>0. execs[e] \in Exec
  BY DEF TypeOK, ExecStep, At, ChildOk, ChildError, ChildRetry, Timeout,
         CompleteWrite, FailRead, FailWrite
<1>a. execs[e] # NULL
  BY <1>0, WorkerAssumption
<1>b. /\ t \in TaskIds /\ (tasks[t] # NULL => tasks[t] \in Row)
      /\ \A s \in Row : [tasks EXCEPT ![t] = s] \in Table
  BY <1>a, UpdateType
<1> HIDE DEF t
<1>c. ASSUME NEW x \in Exec, execs' = [execs EXCEPT ![e] = x]
      PROVE  execs' \in [Slots -> Exec \cup {NULL}]
  BY <1>c DEF TypeOK
<1>1. CASE ChildOk(e)
  <2>1. execs' \in [Slots -> Exec \cup {NULL}]
    BY <1>0, <1>1, <1>c, ExecTypes DEF ChildOk
  <2> QED  BY <1>1, <2>1 DEF ChildOk, TypeOK, dbVars, loopVars
<1>2. CASE ChildError(e)
  <2>1. execs' \in [Slots -> Exec \cup {NULL}]
    BY <1>0, <1>2, <1>c, ExecTypes DEF ChildError
  <2> QED  BY <1>2, <2>1 DEF ChildError, TypeOK, dbVars, loopVars
<1>3. CASE ChildRetry(e)
  <2>1. execs' \in [Slots -> Exec \cup {NULL}]
    BY <1>0, <1>3, <1>c, ExecTypes DEF ChildRetry
  <2>2. ManualRetry(t)
    BY <1>3 DEF ChildRetry, t
  <2>3. tasks' \in Table
    BY <2>2, <1>b, BackToPendingType, WorkerAssumption DEF ManualRetry, TypeOK
  <2> QED  BY <1>3, <2>1, <2>3 DEF ChildRetry, TypeOK, loopVars
<1>4. CASE Timeout(e)
  <2>1. execs' \in [Slots -> Exec \cup {NULL}]
    BY <1>0, <1>4, <1>c, ExecTypes DEF Timeout
  <2>2. orphans' = [orphans EXCEPT ![t] = Tracked(orphans[t] + 1)]
    BY <1>4 DEF Timeout, t
  <2>3. Tracked(orphans[t] + 1) \in 0..MaxOrphans
    BY <1>b, TrackedType, WorkerAssumption DEF TypeOK
  <2>4. orphans' \in [TaskIds -> 0..MaxOrphans]
    BY <2>2, <2>3 DEF TypeOK
  <2> QED  BY <1>4, <2>1, <2>4 DEF Timeout, TypeOK, dbVars, loopVars
<1>5. CASE CompleteWrite(e)
  <2>1. /\ execs' \in [Slots -> Exec \cup {NULL}] /\ sem' \in [Workers -> Nat]
        /\ fired' \subseteq TaskIds \X {"completed", "failed"}
    BY <1>a, <1>5, EndType DEF CompleteWrite
  <2>2. tasks' = IF tasks[t] = NULL THEN tasks ELSE [tasks EXCEPT ![t] = CompleteRow(tasks[t])]
    BY <1>5 DEF CompleteWrite, t
  <2>3. tasks' \in Table
    BY <2>2, <1>b, CompleteRowType DEF TypeOK
  <2> QED  BY <1>5, <2>1, <2>3 DEF CompleteWrite, TypeOK
<1>6. CASE FailRead(e)
  <2>1. CASE tasks[t] = NULL
    <3>1. /\ execs' \in [Slots -> Exec \cup {NULL}] /\ sem' \in [Workers -> Nat]
          /\ fired' \subseteq TaskIds \X {"completed", "failed"}
      BY <1>a, <1>6, <2>1, EndType DEF FailRead, t
    <3> QED  BY <1>6, <3>1 DEF FailRead, TypeOK, dbVars
  <2>2. CASE tasks[t] # NULL
    <3>1. /\ execs' = [execs EXCEPT ![e] = ToFailWrite(execs[e], tasks[t].attempts)]
          /\ UNCHANGED <<fired, sem>>
      BY <1>6, <2>2 DEF FailRead, t
    <3>2. tasks[t].attempts \in Nat
      BY <1>b, <2>2 DEF Row
    <3>3. execs' \in [Slots -> Exec \cup {NULL}]
      BY <1>0, <3>1, <3>2, <1>c, ExecTypes
    <3> QED  BY <1>6, <3>1, <3>3 DEF FailRead, TypeOK, dbVars
  <2> QED  BY <2>1, <2>2
<1>7. CASE FailWrite(e)
  <2>1. /\ execs' \in [Slots -> Exec \cup {NULL}] /\ sem' \in [Workers -> Nat]
        /\ fired' \subseteq TaskIds \X {"completed", "failed"}
    BY <1>a, <1>7, EndType DEF FailWrite
  <2>2. tasks' = IF tasks[t] = NULL THEN tasks
                 ELSE [tasks EXCEPT ![t] = FailRow(tasks[t], execs[e].att)]
    BY <1>7 DEF FailWrite, t
  <2>3. execs[e].att \in Nat
    BY <1>0 DEF Exec
  <2>4. tasks' \in Table
    BY <2>2, <2>3, <1>b, FailRowType DEF TypeOK
  <2> QED  BY <1>7, <2>1, <2>4 DEF FailWrite, TypeOK
<1> QED  BY <1>1, <1>2, <1>3, <1>4, <1>5, <1>6, <1>7 DEF ExecStep

\* Failing database calls keep the types.
LEMMA FaultTypeOK ==
  ASSUME TypeOK, FaultStep
  PROVE  TypeOK'
<1>1. ASSUME NEW w \in Workers, ClaimFault(w) \/ CancelLoop(w) PROVE TypeOK'
  <2>1. tasks' \in Table
    <3>1. CASE UNCHANGED tasks
      BY <3>1 DEF TypeOK
    <3>2. CASE \E t \in TaskIds : /\ IsNextClaim(tasks, t)
                                  /\ tasks' = [tasks EXCEPT ![t] = ClaimRow(@, w)]
      BY <3>2, ClaimRowType DEF TypeOK, IsNextClaim, Claimable, Table
    <3> QED  BY <1>1, <3>1, <3>2 DEF ClaimFault, CancelLoop, LoseClaim
  <2> QED  BY <1>1, <2>1, WorkerAssumption DEF ClaimFault, CancelLoop, TypeOK
<1>2. ASSUME NEW e \in Slots, CompleteFault(e) PROVE TypeOK'
  <2> DEFINE t == execs[e].task
  <2>0. execs[e] \in Exec /\ execs[e] # NULL
    BY <1>2, WorkerAssumption DEF CompleteFault, At, TypeOK
  <2>1. /\ tasks[t] # NULL => tasks[t] \in Row
        /\ \A s \in Row : [tasks EXCEPT ![t] = s] \in Table
    BY <2>0, UpdateType
  <2>2. \/ UNCHANGED tasks
        \/ tasks[t] # NULL /\ tasks' = [tasks EXCEPT ![t] = CompleteRow(tasks[t])]
    BY <1>2 DEF CompleteFault
  <2>3. tasks' \in Table
    BY <2>1, <2>2, CompleteRowType DEF TypeOK
  <2>4. PICK cause \in {"timeout", "error"} : execs' = [execs EXCEPT ![e] = ToFail(@, cause)]
    BY <1>2 DEF CompleteFault
  <2>5. execs' \in [Slots -> Exec \cup {NULL}]
    BY <2>0, <2>4, ExecTypes DEF TypeOK
  <2> QED  BY <1>2, <2>3, <2>5, WorkerAssumption DEF CompleteFault, TypeOK, loopVars
<1>3. ASSUME NEW e \in Slots, FailFault(e) PROVE TypeOK'
  <2> DEFINE t == execs[e].task
  <2>0. execs[e] \in Exec /\ execs[e] # NULL
    BY <1>3, WorkerAssumption DEF FailFault, At, TypeOK
  <2>1. /\ tasks[t] # NULL => tasks[t] \in Row
        /\ \A s \in Row : [tasks EXCEPT ![t] = s] \in Table
    BY <2>0, UpdateType
  <2>2. \/ UNCHANGED tasks
        \/ tasks[t] # NULL /\ tasks' = [tasks EXCEPT ![t] = FailRow(tasks[t], execs[e].att)]
    BY <1>3 DEF FailFault
  <2>3. execs[e].att \in Nat
    BY <2>0 DEF Exec
  <2>4. tasks' \in Table
    <3>1. tasks[t] # NULL => FailRow(tasks[t], execs[e].att) \in Row
      BY <2>1, <2>3, FailRowType
    <3>2. CASE UNCHANGED tasks
      BY <3>2 DEF TypeOK
    <3>3. CASE tasks[t] # NULL /\ tasks' = [tasks EXCEPT ![t] = FailRow(tasks[t], execs[e].att)]
      BY <2>1, <3>1, <3>3
    <3> QED  BY <2>2, <3>2, <3>3
  <2>5. /\ execs' \in [Slots -> Exec \cup {NULL}] /\ sem' \in [Workers -> Nat]
        /\ fired' \subseteq TaskIds \X {"completed", "failed"}
    BY <1>3, <2>0, EndType DEF FailFault, TypeOK
  <2> QED  BY <1>3, <2>4, <2>5, WorkerAssumption DEF FailFault, TypeOK
<1> QED  BY <1>1, <1>2, <1>3 DEF FaultStep

\* Orphans, clients, administrators and time keep the types.
LEMMA OtherTypeOK ==
  ASSUME TypeOK,
         \/ \E t \in TaskIds : OrphanExit(t) \/ OrphanRetry(t)
         \/ \E o \in Options, d \in Delays : Enqueue(o, d)
         \/ AdminStep
         \/ Tick
  PROVE  TypeOK'
<1>a. \A t \in TaskIds : /\ tasks[t] # NULL => tasks[t] \in Row
                         /\ \A s \in Row : [tasks EXCEPT ![t] = s] \in Table
  BY DEF TypeOK, Table
<1>1. ASSUME NEW t \in TaskIds, OrphanExit(t) PROVE TypeOK'
  <2>1. orphans' \in [TaskIds -> 0..MaxOrphans]
    BY <1>1, WorkerAssumption DEF OrphanExit, TypeOK
  <2> QED  BY <1>1, <2>1 DEF OrphanExit, TypeOK, dbVars, loopVars
<1>2. ASSUME NEW t \in TaskIds, OrphanRetry(t) PROVE TypeOK'
  <2>1. orphans' \in [TaskIds -> 0..MaxOrphans]
    BY <1>2, WorkerAssumption DEF OrphanRetry, TypeOK
  <2>2. tasks' \in Table
    BY <1>a, <1>2, BackToPendingType, WorkerAssumption DEF OrphanRetry, ManualRetry, TypeOK
  <2> QED  BY <1>2, <2>1, <2>2 DEF OrphanRetry, TypeOK, loopVars
<1>3. ASSUME NEW o \in Options, NEW d \in Delays, Enqueue(o, d) PROVE TypeOK'
  <2>1. d \in Nat /\ nextId \in TaskIds /\ nextId + 1 \in 1 .. MaxTasks + 1
    BY <1>3, ConstantAssumption, WorkerAssumption DEF Enqueue, TaskIds, TypeOK
  <2>2. tasks' \in Table
    BY <1>a, <1>3, <2>1, NewRowType DEF Enqueue
  <2> QED  BY <1>3, <2>1, <2>2 DEF Enqueue, TypeOK, loopVars
<1>4. ASSUME NEW t \in TaskIds, Requeue(t) PROVE TypeOK'
  <2>1. tasks' \in Table
    BY <1>a, <1>4, BackToPendingType, 0 \in Nat DEF Requeue
  <2> QED  BY <1>4, <2>1 DEF Requeue, TypeOK, loopVars
<1>5. ASSUME NEW t \in TaskIds, Cancel(t) PROVE TypeOK'
  <2>1. tasks' \in Table
    BY <1>a, <1>5, FinishRowType DEF Cancel
  <2> QED  BY <1>5, <2>1 DEF Cancel, TypeOK, loopVars
<1>6. ASSUME NEW S \in SUBSET TaskIds, Delete(S) PROVE TypeOK'
  <2>1. tasks' \in Table
    BY <1>6 DEF Delete, DeleteFrom, TypeOK, Table
  <2> QED  BY <1>6, <2>1 DEF Delete, TypeOK, loopVars
<1>7. CASE Cleanup
  <2>1. tasks' \in Table
    BY <1>a, <1>7, FinishRowType DEF Cleanup, ExpireTable, TtlExpired, TypeOK, Table
  <2> QED  BY <1>7, <2>1 DEF Cleanup, TypeOK, loopVars
<1>8. CASE Tick
  <2>1. tasks' \in Table
    BY <1>a, <1>8, AgeRowType DEF Tick, AgeTable, TypeOK, Table
  <2>2. \A e \in Slots : AgeExec(execs[e]) \in Exec \cup {NULL}
    BY AgeExecType DEF TypeOK, AgeExec
  <2>3. execs' \in [Slots -> Exec \cup {NULL}]
    BY <1>8, <2>2 DEF Tick
  <2> QED  BY <1>8, <2>1, <2>3 DEF Tick, TypeOK, loopVars
<1> QED  BY <1>1, <1>2, <1>3, <1>4, <1>5, <1>6, <1>7, <1>8 DEF AdminStep

\* Every step keeps the types.
LEMMA NextTypeOK == TypeOK /\ [Next]_vars => TypeOK'
<1> SUFFICES ASSUME TypeOK, [Next]_vars PROVE TypeOK'
  OBVIOUS
<1>1. CASE UNCHANGED vars
  BY <1>1 DEF vars, TypeOK
<1>2. CASE Next
  BY <1>2, LoopTypeOK, ExecTypeOK, FaultTypeOK, OtherTypeOK DEF Next
<1> QED  BY <1>1, <1>2

\* The initial state is well typed.
LEMMA InitTypeOK == Init => TypeOK
BY ConstantAssumption, WorkerAssumption DEF Init, TypeOK, Table

\* Python workers keep the types of the table, of their loops, semaphores and
\* coroutines, whatever fails.
THEOREM PyWorkerTypeOK == Spec => []TypeOK
BY InitTypeOK, NextTypeOK, PTL DEF Spec

-----------------------------------------------------------------------------
(* The permits of a worker                                                 *)

\* 1 while the main coroutine holds the permit of a claim in flight.
Held(w) == IF main[w] = "claim" THEN 1 ELSE 0

\* What PermitsConserved says of one worker.
PermitsAdd(w) == InLoop(w) => sem[w] + Cardinality(Active(w)) + Held(w) = Concurrency

\* The coroutines of a worker are finitely many.
LEMMA ActiveFinite ==
  ASSUME NEW w \in Workers
  PROVE  IsFiniteSet(Active(w)) /\ Cardinality(Active(w)) \in Nat
<1>1. IsFiniteSet(Workers) /\ IsFiniteSet(1..Concurrency)
  BY WorkerAssumption, FS_Interval
<1>2. IsFiniteSet(Slots)
  BY <1>1, FS_Product DEF Slots
<1>3. Active(w) \in SUBSET Slots
  BY DEF Active, SlotsOf
<1>4. IsFiniteSet(Active(w))
  BY <1>2, <1>3, FS_Subset
<1> QED  BY <1>4, FS_CardinalityType

\* Steps that occupy and free no slot of w.
LEMMA ActiveSame ==
  ASSUME NEW w \in Workers,
         \A e \in Slots : e[1] = w => (execs'[e] = NULL <=> execs[e] = NULL)
  PROVE  Active(w)' = Active(w)
BY DEF Active, SlotsOf

\* A claim occupies one free slot.
LEMMA ActiveGrows ==
  ASSUME TypeOK, NEW e \in Slots, execs[e] = NULL, NEW x \in Exec,
         execs' = [execs EXCEPT ![e] = x]
  PROVE  Cardinality(Active(e[1])') = Cardinality(Active(e[1])) + 1
<1> DEFINE w == e[1]
<1>1. w \in Workers
  BY SlotFacts
<1>2. x # NULL
  BY WorkerAssumption
<1>3. e \notin Active(w)
  BY DEF Active
<1>4. Active(w)' = Active(w) \cup {e}
  BY <1>2 DEF Active, SlotsOf, TypeOK
<1> QED  BY <1>1, <1>3, <1>4, ActiveFinite, FS_AddElement

\* The end of a coroutine frees its slot.
LEMMA ActiveShrinks ==
  ASSUME TypeOK, NEW e \in Slots, execs[e] # NULL, execs' = [execs EXCEPT ![e] = NULL]
  PROVE  Cardinality(Active(e[1])') = Cardinality(Active(e[1])) - 1
<1> DEFINE w == e[1]
<1>1. w \in Workers
  BY SlotFacts
<1>2. e \in Active(w)
  BY DEF Active, SlotsOf
<1>3. Active(w)' = Active(w) \ {e}
  BY DEF Active, SlotsOf, TypeOK
<1> QED  BY <1>1, <1>2, <1>3, ActiveFinite, FS_RemoveElement

\* A step that moves no permit of v: v is where it was, or has left its loop.
LEMMA PermitsKept ==
  ASSUME NEW v \in Workers, PermitsAdd(v), sem'[v] = sem[v],
         \/ main'[v] = main[v]
         \/ main[v] = "top" /\ main'[v] = "acquire"
         \/ main'[v] \notin {"top", "acquire", "claim"},
         main'[v] \in {"top", "acquire", "claim"} =>
           \A e \in Slots : e[1] = v => (execs'[e] = NULL <=> execs[e] = NULL)
  PROVE  PermitsAdd(v)'
<1>1. CASE main'[v] \notin {"top", "acquire", "claim"}
  BY <1>1 DEF PermitsAdd, InLoop
<1>2. CASE main'[v] \in {"top", "acquire", "claim"}
  <2>1. Active(v)' = Active(v)
    BY <1>2, ActiveSame
  <2>2. InLoop(v) /\ Held(v)' = Held(v)
    BY <1>2 DEF InLoop, Held
  <2> QED  BY <2>1, <2>2 DEF PermitsAdd
<1> QED  BY <1>1, <1>2

\* The end of a coroutine returns the permit it held.
LEMMA PermitReturned ==
  ASSUME TypeOK, NEW e \in Slots, execs[e] # NULL, EndExec(e), UNCHANGED main,
         NEW v \in Workers, PermitsAdd(v)
  PROVE  PermitsAdd(v)'
<1>1. CASE v = e[1]
  <2>1. /\ sem'[v] = sem[v] + 1 /\ sem[v] \in Nat
        /\ Cardinality(Active(v)') = Cardinality(Active(v)) - 1
    BY <1>1, ActiveShrinks DEF EndExec, TypeOK
  <2>2. Cardinality(Active(v)) \in Nat /\ Held(v) \in Nat /\ Held(v)' = Held(v)
    BY ActiveFinite DEF Held
  <2> QED  BY <2>1, <2>2 DEF PermitsAdd, InLoop
<1>2. CASE v # e[1]
  <2>1. sem'[v] = sem[v] /\ \A f \in Slots : f[1] = v => execs'[f] = execs[f]
    BY <1>2 DEF EndExec, TypeOK
  <2> QED  BY <2>1, PermitsKept
<1> QED  BY <1>1, <1>2

\* The main coroutine, its signal, its crash and its periodic coroutines.
LEMMA LoopPermits ==
  ASSUME TypeOK, NEW w \in Workers, NEW v \in Workers, PermitsAdd(v),
         LoopStep(w) \/ Heartbeat(w) \/ Recover(w) \/ Signal(w) \/ Crash(w)
  PROVE  PermitsAdd(v)'
<1>0. /\ sem[w] \in Nat /\ Cardinality(Active(v)) \in Nat /\ Concurrency \in Nat
      /\ main \in [Workers -> {"top", "acquire", "claim", "drain", "stopped", "crashed"}]
  BY ActiveFinite, WorkerAssumption DEF TypeOK
<1>1. CASE Heartbeat(w) \/ Recover(w) \/ Signal(w)
  <2>1. UNCHANGED <<main, sem, execs>>
    BY <1>1 DEF Heartbeat, Recover, Signal, loopVars
  <2> QED  BY <2>1, PermitsKept
<1>2. CASE LoopTop(w)
  <2>1. UNCHANGED <<sem, execs>> /\ main[w] = "top"
        /\ main' = [main EXCEPT ![w] = IF shutdown[w] THEN "drain" ELSE "acquire"]
    BY <1>2 DEF LoopTop
  <2>2. \/ main'[v] = main[v]
        \/ main[v] = "top" /\ main'[v] = "acquire"
        \/ main'[v] \notin {"top", "acquire", "claim"}
    BY <1>0, <2>1
  <2> QED  BY <2>1, <2>2, PermitsKept
<1>3. CASE Drain(w) \/ Crash(w)
  <2>1. /\ UNCHANGED sem
        /\ \A e \in Slots : e[1] # w => execs'[e] = execs[e]
        /\ main'[w] \in {"stopped", "crashed"} /\ \A u \in Workers : u # w => main'[u] = main[u]
    BY <1>0, <1>3 DEF Drain, Crash, Abandon, SlotsOf
  <2> QED  BY <2>1, PermitsKept
<1>4. CASE v # w /\ (Acquire(w) \/ ClaimNone(w) \/ ClaimFound(w))
  <2>1. \A i \in 1..Concurrency : \A x : \A e \in Slots :
          e[1] = v => [execs EXCEPT ![<<w, i>>] = x][e] = execs[e]
    BY <1>4, SlotFacts DEF TypeOK
  <2>2. /\ sem'[v] = sem[v] /\ main'[v] = main[v]
        /\ \A e \in Slots : e[1] = v => execs'[e] = execs[e]
    BY <1>0, <1>4, <2>1 DEF Acquire, ClaimNone, ClaimFound, TypeOK
  <2> QED  BY <2>2, PermitsKept
<1>5. CASE v = w /\ Acquire(w)
  <2>1. sem'[w] = sem[w] - 1 /\ main[w] = "acquire" /\ main'[w] = "claim" /\ UNCHANGED execs
    BY <1>5 DEF Acquire, TypeOK
  <2>2. Active(v)' = Active(v)
    BY <2>1, ActiveSame
  <2> QED  BY <1>0, <1>5, <2>1, <2>2 DEF PermitsAdd, InLoop, Held
<1>6. CASE v = w /\ ClaimNone(w)
  <2>1. sem'[w] = sem[w] + 1 /\ main[w] = "claim" /\ main'[w] = "top" /\ UNCHANGED execs
    BY <1>6 DEF ClaimNone, TypeOK
  <2>2. Active(v)' = Active(v)
    BY <2>1, ActiveSame
  <2> QED  BY <1>0, <1>6, <2>1, <2>2 DEF PermitsAdd, InLoop, Held
<1>7. CASE v = w /\ ClaimFound(w)
  <2>1. sem'[w] = sem[w] /\ main[w] = "claim" /\ main'[w] = "top"
    BY <1>7 DEF ClaimFound, TypeOK
  <2>2. PICK t \in TaskIds, i \in 1..Concurrency :
          /\ IsNextClaim(tasks, t) /\ execs[<<w, i>>] = NULL
          /\ execs' = [execs EXCEPT ![<<w, i>>] = NewExec(t)]
    BY <1>7 DEF ClaimFound
  <2>3. NewExec(t) \in Exec
    BY <2>2, NewExecType DEF IsNextClaim, Claimable, TypeOK, Table
  <2>4. <<w, i>> \in Slots /\ <<w, i>>[1] = w
    BY SlotFacts
  <2>5. Cardinality(Active(w)') = Cardinality(Active(w)) + 1
    BY <2>2, <2>3, <2>4, ActiveGrows
  <2> QED  BY <1>0, <1>7, <2>1, <2>5 DEF PermitsAdd, InLoop, Held
<1> QED  BY <1>1, <1>2, <1>3, <1>4, <1>5, <1>6, <1>7 DEF LoopStep

\* process_task, with and without failing database calls.
LEMMA ExecPermits ==
  ASSUME TypeOK, NEW e \in Slots, NEW v \in Workers, PermitsAdd(v),
         ExecStep(e) \/ CompleteFault(e) \/ FailFault(e)
  PROVE  PermitsAdd(v)'
<1>1. execs[e] # NULL /\ execs[e] \in Exec /\ UNCHANGED main
  BY DEF ExecStep, At, ChildOk, ChildError, ChildRetry, Timeout, CompleteWrite, FailRead,
         FailWrite, CompleteFault, FailFault, TypeOK, loopVars
<1>2. ASSUME NEW x \in Exec, execs' = [execs EXCEPT ![e] = x], UNCHANGED sem
      PROVE  PermitsAdd(v)'
  <2>1. \A f \in Slots : execs'[f] = NULL <=> execs[f] = NULL
    BY <1>1, <1>2, WorkerAssumption DEF TypeOK
  <2> QED  BY <1>1, <1>2, <2>1, PermitsKept
<1>3. CASE EndExec(e)
  BY <1>1, <1>3, PermitReturned
<1>4. CASE ChildOk(e) \/ ChildRetry(e)
  <2>1. ToComplete(execs[e]) \in Exec
    BY <1>1, ExecTypes
  <2> QED  BY <1>2, <1>4, <2>1 DEF ChildOk, ChildRetry, loopVars
<1>5. CASE ChildError(e) \/ Timeout(e) \/ CompleteFault(e)
  <2>1. \A c \in {"timeout", "error"} : ToFail(execs[e], c) \in Exec
    BY <1>1, ExecTypes
  <2> QED  BY <1>2, <1>5, <2>1 DEF ChildError, Timeout, CompleteFault, loopVars
<1>6. CASE FailRead(e)
  <2>1. CASE tasks[execs[e].task] = NULL
    BY <1>3, <1>6, <2>1 DEF FailRead
  <2>2. CASE tasks[execs[e].task] # NULL
    <3>1. tasks[execs[e].task].attempts \in Nat
      BY <1>1, <2>2 DEF TypeOK, Table, Exec, Row
    <3>2. ToFailWrite(execs[e], tasks[execs[e].task].attempts) \in Exec
      BY <1>1, <3>1, ExecTypes
    <3> QED  BY <1>2, <1>6, <2>2, <3>2 DEF FailRead
  <2> QED  BY <2>1, <2>2
<1>7. CASE CompleteWrite(e) \/ FailWrite(e) \/ FailFault(e)
  BY <1>3, <1>7 DEF CompleteWrite, FailWrite, FailFault
<1> QED  BY <1>4, <1>5, <1>6, <1>7 DEF ExecStep

\* A claim that fails, a cancelled loop, orphans, clients, administrators, time.
LEMMA OtherPermits ==
  ASSUME TypeOK, NEW v \in Workers, PermitsAdd(v),
         \/ \E w \in Workers : ClaimFault(w) \/ CancelLoop(w)
         \/ \E t \in TaskIds : OrphanExit(t) \/ OrphanRetry(t)
         \/ \E o \in Options, d \in Delays : Enqueue(o, d)
         \/ AdminStep
         \/ Tick
  PROVE  PermitsAdd(v)'
<1>1. ASSUME NEW w \in Workers, ClaimFault(w) \/ CancelLoop(w) PROVE PermitsAdd(v)'
  <2>1. UNCHANGED <<sem, execs>> /\ (main'[v] = main[v] \/ main'[v] = "drain")
    BY <1>1 DEF ClaimFault, CancelLoop, TypeOK
  <2> QED  BY <2>1, PermitsKept
<1>2. CASE Tick
  <2>1. ASSUME NEW e \in Slots PROVE execs'[e] = NULL <=> execs[e] = NULL
    <3>1. execs'[e] = AgeExec(execs[e])
      BY <1>2 DEF Tick
    <3>2. execs[e] # NULL => AgeExec(execs[e]) \in Exec
      BY AgeExecType DEF TypeOK
    <3> QED  BY <3>1, <3>2, WorkerAssumption DEF AgeExec
  <2>2. UNCHANGED <<main, sem>>
    BY <1>2 DEF Tick, loopVars
  <2> QED  BY <2>1, <2>2, PermitsKept
<1>3. ASSUME UNCHANGED <<main, sem, execs>> PROVE PermitsAdd(v)'
  BY <1>3, PermitsKept
<1> QED  BY <1>1, <1>2, <1>3 DEF AdminStep, OrphanExit, OrphanRetry, Enqueue, Requeue, Cancel,
                                 Delete, Cleanup, loopVars

\* Whatever path a coroutine or the main loop takes, failures included, no
\* permit is lost or invented while the worker is in its loop.
THEOREM PermitsAreConserved == Spec => []PermitsConserved
<1>0. PermitsConserved <=> \A v \in Workers : PermitsAdd(v)
  BY DEF PermitsConserved, PermitsAdd, Held
<1>1. Init => PermitsConserved
  <2> SUFFICES ASSUME Init, NEW v \in Workers PROVE PermitsAdd(v)
    BY <1>0
  <2>1. Active(v) = {} /\ sem[v] = Concurrency /\ Held(v) = 0
    BY DEF Init, Active, SlotsOf, Held
  <2> QED  BY <2>1, FS_EmptySet, WorkerAssumption DEF PermitsAdd
<1>2. TypeOK /\ PermitsConserved /\ [Next]_vars => PermitsConserved'
  <2> SUFFICES ASSUME TypeOK, \A u \in Workers : PermitsAdd(u), [Next]_vars,
                      NEW v \in Workers
               PROVE  PermitsAdd(v)'
    BY <1>0 DEF PermitsConserved, PermitsAdd, Held
  <2>0. PermitsAdd(v)
    OBVIOUS
  <2>1. CASE UNCHANGED vars
    BY <2>0, <2>1, PermitsKept DEF vars
  <2>2. CASE Next
    BY <2>0, <2>2, LoopPermits, ExecPermits, OtherPermits DEF Next, FaultStep
  <2> QED  BY <2>1, <2>2
<1> QED  BY <1>1, <1>2, PyWorkerTypeOK, PTL DEF Spec

-----------------------------------------------------------------------------
(* The regime in which the reaper leaves live executions alone             *)

\* No execution has task t, and no webhook has reported it completed.
Free(t) ==
  /\ \A e \in Slots : execs[e] # NULL => execs[e].task # t
  /\ <<t, "completed">> \notin fired

\* The inductive invariant.  SoleExecution alone is not inductive: a claim
\* could take a row that is being executed.  ExecOwnsRow says that it is not
\* pending, and that it is too young for the reaper to make it so; the rest
\* keeps deleted and reported tasks from coming back.
RInv ==
  /\ TypeOK
  /\ \A t \in TaskIds : t >= nextId => tasks[t] = NULL
  /\ \A e \in Slots : execs[e] # NULL => execs[e].task < nextId
  /\ ExecOwnsRow
  /\ SoleExecution
  /\ \A t \in TaskIds : <<t, "completed">> \in fired =>
       /\ t < nextId
       /\ tasks[t] = NULL \/ tasks[t].status = "completed"
       /\ \A e \in Slots : execs[e] # NULL => execs[e].task # t

\* Rows that are pending, failed or cancelled, and rows the reaper sees, are
\* not being executed and were not reported completed.
LEMMA FreeRow ==
  ASSUME RInv, NEW t \in TaskIds, tasks[t] # NULL,
         \/ tasks[t].status \in {"pending", "failed", "cancelled"}
         \/ Regime /\ Stale(tasks[t])
  PROVE  Free(t)
<1>1. tasks[t].status # "completed"
  BY DEF Stale
<1>2. <<t, "completed">> \notin fired
  BY <1>1 DEF RInv
<1>3. ASSUME NEW e \in Slots, execs[e] # NULL, execs[e].task = t
      PROVE  FALSE
  <2>1. Owns(e[1], execs[e], tasks[t])
    BY <1>3 DEF RInv, ExecOwnsRow
  <2>2. CASE tasks[t].status \in {"pending", "failed", "cancelled"}
    BY <2>1, <2>2 DEF Owns
  <2>3. CASE Regime /\ Stale(tasks[t])
    <3>1. tasks[t].age = execs[e].elapsed
      BY <2>1, <2>3 DEF Owns, Stale
    <3>2. execs[e].elapsed \in 0..MaxElapsed
      BY <1>3 DEF RInv, TypeOK, Exec
    <3>3. execs[e].elapsed <= StaleAfter
      BY <2>3, <3>2, WorkerAssumption, ConstantAssumption DEF Regime, MaxElapsed
    <3>4. tasks[t].age > StaleAfter
      BY <2>3 DEF Stale
    <3> QED  BY <3>1, <3>2, <3>3, <3>4, ConstantAssumption, WorkerAssumption DEF MaxElapsed
  <2> QED  BY <2>2, <2>3
<1> QED  BY <1>2, <1>3 DEF Free

\* A statement on the table that no coroutine issued: each row stays, is
\* deleted, is rewritten although nobody executes it, keeps the columns that
\* matter to its execution, or expires.
LEMMA TableStep ==
  ASSUME RInv, TypeOK', UNCHANGED <<execs, nextId>>, fired' \subseteq fired,
         \A t \in TaskIds :
           \/ tasks'[t] = tasks[t]
           \/ tasks'[t] = NULL
           \/ tasks[t] # NULL /\ Free(t)
           \/ /\ tasks[t] # NULL
              /\ tasks'[t].status = tasks[t].status
              /\ tasks'[t].worker_id = tasks[t].worker_id
              /\ tasks'[t].age = tasks[t].age
              /\ tasks'[t].attempts = tasks[t].attempts
           \/ /\ tasks[t] # NULL /\ tasks[t].status \notin Terminal
              /\ tasks'[t].status = "expired"
              /\ tasks'[t].attempts = tasks[t].attempts
  PROVE  RInv'
<1>1. \A t \in TaskIds : (t >= nextId => tasks[t] = NULL)'
  BY DEF RInv
<1>2. (\A e \in Slots : execs[e] # NULL => execs[e].task < nextId)' /\ SoleExecution'
  BY DEF RInv, SoleExecution
<1>3. ExecOwnsRow'
  <2> SUFFICES ASSUME NEW e \in Slots, execs[e] # NULL
               PROVE  Owns(e[1], execs[e], tasks'[execs[e].task])
    BY DEF ExecOwnsRow
  <2> DEFINE t == execs[e].task
  <2>1. t \in TaskIds /\ Owns(e[1], execs[e], tasks[t])
    BY DEF RInv, ExecOwnsRow, TypeOK, Exec
  <2>2. ~Free(t)
    BY DEF Free
  <2>3. CASE tasks'[t] = tasks[t]
    BY <2>1, <2>3
  <2>4. CASE tasks'[t] = NULL
    BY <2>4 DEF Owns
  <2>5. CASE /\ tasks[t] # NULL
             /\ tasks'[t].status = tasks[t].status
             /\ tasks'[t].worker_id = tasks[t].worker_id
             /\ tasks'[t].age = tasks[t].age
             /\ tasks'[t].attempts = tasks[t].attempts
    BY <2>1, <2>5 DEF Owns
  <2>6. CASE /\ tasks[t] # NULL /\ tasks[t].status \notin Terminal
             /\ tasks'[t].status = "expired"
             /\ tasks'[t].attempts = tasks[t].attempts
    BY <2>1, <2>6 DEF Owns
  <2> QED  BY <2>1, <2>2, <2>3, <2>4, <2>5, <2>6
<1>4. ASSUME NEW t \in TaskIds, <<t, "completed">> \in fired'
      PROVE  /\ t < nextId'
             /\ tasks'[t] = NULL \/ tasks'[t].status = "completed"
             /\ \A e \in Slots : execs'[e] # NULL => execs'[e].task # t
  <2>1. /\ t < nextId
        /\ tasks[t] = NULL \/ tasks[t].status = "completed"
        /\ \A e \in Slots : execs[e] # NULL => execs[e].task # t
        /\ ~Free(t)
    BY <1>4 DEF RInv, Free
  <2> QED  BY <2>1 DEF Terminal
<1> QED  BY <1>1, <1>2, <1>3, <1>4 DEF RInv

\* Executions disappear and the table stays as it is.
LEMMA DropStep ==
  ASSUME RInv, TypeOK', UNCHANGED <<tasks, nextId, fired>>,
         \A e \in Slots : execs'[e] = execs[e] \/ execs'[e] = NULL
  PROVE  RInv'
<1>1. ExecOwnsRow' /\ SoleExecution'
  BY DEF RInv, ExecOwnsRow, SoleExecution
<1> QED  BY <1>1 DEF RInv

\* A coroutine ends with or without a write to its row; a webhook it fires may
\* report completion only of a row that is completed, or gone.
LEMMA EndStep ==
  ASSUME RInv, TypeOK', UNCHANGED nextId,
         NEW e \in Slots, execs[e] # NULL, execs' = [execs EXCEPT ![e] = NULL],
         NEW t \in TaskIds, t = execs[e].task,
         \A u \in TaskIds \ {t} : tasks'[u] = tasks[u],
         \/ fired' \subseteq fired \cup {<<t, "failed">>}
         \/ /\ fired' \subseteq fired \cup {<<t, "completed">>}
            /\ tasks'[t] = NULL \/ tasks'[t].status = "completed"
  PROVE  RInv'
<1>1. \A f \in Slots : execs'[f] # NULL => /\ execs'[f] = execs[f] /\ f # e
                                          /\ execs[f].task # t
  BY DEF RInv, SoleExecution, TypeOK
<1>2. t < nextId
  BY DEF RInv
<1>3. SoleExecution'
  BY <1>1 DEF RInv, SoleExecution
<1>4. ExecOwnsRow'
  <2>1. ASSUME NEW f \in Slots, execs'[f] # NULL
        PROVE  Owns(f[1], execs'[f], tasks'[execs'[f].task])
    <3>1. execs'[f] = execs[f] /\ execs[f].task \in TaskIds \ {t}
      BY <1>1, <2>1 DEF RInv, TypeOK, Exec
    <3> QED  BY <2>1, <3>1 DEF RInv, ExecOwnsRow
  <2> QED  BY <2>1 DEF ExecOwnsRow
<1>5. ASSUME NEW u \in TaskIds, <<u, "completed">> \in fired'
      PROVE  /\ u < nextId'
             /\ tasks'[u] = NULL \/ tasks'[u].status = "completed"
             /\ \A f \in Slots : execs'[f] # NULL => execs'[f].task # u
  <2>1. CASE u = t
    <3>1. <<t, "completed">> \notin fired
      BY DEF RInv
    <3> QED  BY <1>1, <1>2, <1>5, <2>1, <3>1
  <2>2. CASE u # t
    <3>1. <<u, "completed">> \in fired
      BY <1>5, <2>2
    <3> QED  BY <1>1, <2>2, <3>1 DEF RInv
  <2> QED  BY <2>1, <2>2
<1>6. /\ \A u \in TaskIds : u >= nextId' => tasks'[u] = NULL
      /\ \A f \in Slots : execs'[f] # NULL => execs'[f].task < nextId'
  <2>1. \A u \in TaskIds : u >= nextId => u # t
    BY <1>2 DEF RInv, TypeOK, TaskIds
  <2> QED  BY <1>1, <2>1 DEF RInv
<1> QED  BY <1>3, <1>4, <1>5, <1>6 DEF RInv

\* A coroutine takes its next step and still owns its row.
LEMMA MoveStep ==
  ASSUME RInv, TypeOK', UNCHANGED <<nextId, fired>>,
         NEW e \in Slots, execs[e] # NULL,
         NEW x \in Exec, x.task = execs[e].task, execs' = [execs EXCEPT ![e] = x],
         NEW t \in TaskIds, t = execs[e].task,
         \A u \in TaskIds \ {t} : tasks'[u] = tasks[u],
         Owns(e[1], x, tasks'[t])
  PROVE  RInv'
<1>1. execs'[e] = x /\ \A f \in Slots : f # e => execs'[f] = execs[f]
  BY DEF RInv, TypeOK
<1>2. SoleExecution'
  BY <1>1 DEF RInv, SoleExecution
<1>3. ExecOwnsRow'
  <2>1. ASSUME NEW f \in Slots, execs'[f] # NULL
        PROVE  Owns(f[1], execs'[f], tasks'[execs'[f].task])
    <3>1. CASE f = e
      BY <1>1, <3>1
    <3>2. CASE f # e
      <4>1. execs'[f] = execs[f] /\ execs[f].task \in TaskIds \ {t}
        BY <1>1, <2>1, <3>2 DEF RInv, TypeOK, Exec, SoleExecution
      <4> QED  BY <2>1, <4>1 DEF RInv, ExecOwnsRow
    <3> QED  BY <3>1, <3>2
  <2> QED  BY <2>1 DEF ExecOwnsRow
<1>4. t < nextId /\ <<t, "completed">> \notin fired
  BY DEF RInv
<1>5. /\ \A u \in TaskIds : u >= nextId' => tasks'[u] = NULL
      /\ \A f \in Slots : execs'[f] # NULL => execs'[f].task < nextId'
  <2>1. \A u \in TaskIds : u >= nextId => u # t
    BY <1>4 DEF RInv, TypeOK, TaskIds
  <2> QED  BY <1>1, <1>4, <2>1 DEF RInv
<1>6. ASSUME NEW u \in TaskIds, <<u, "completed">> \in fired'
      PROVE  /\ u < nextId'
             /\ tasks'[u] = NULL \/ tasks'[u].status = "completed"
             /\ \A f \in Slots : execs'[f] # NULL => execs'[f].task # u
  <2>1. u # t /\ <<u, "completed">> \in fired
    BY <1>4, <1>6
  <2> QED  BY <1>1, <2>1 DEF RInv
<1> QED  BY <1>2, <1>3, <1>5, <1>6 DEF RInv

\* Initially there is nothing to own.
LEMMA InitRInv == Init => RInv
<1> SUFFICES ASSUME Init PROVE RInv
  OBVIOUS
<1>1. /\ \A t \in TaskIds : tasks[t] = NULL
      /\ \A e \in Slots : execs[e] = NULL
      /\ fired = {}
  BY DEF Init
<1> QED  BY <1>1, InitTypeOK DEF RInv, ExecOwnsRow, SoleExecution

\* The steps of the worker's loop and of its periodic coroutines.
LEMMA LoopRInv ==
  ASSUME Regime, RInv, TypeOK', NEW w \in Workers,
         LoopStep(w) \/ Heartbeat(w) \/ Recover(w) \/ Signal(w) \/ Crash(w)
  PROVE  RInv'
<1>0. TypeOK
  BY DEF RInv
<1>1. CASE LoopTop(w) \/ Acquire(w) \/ ClaimNone(w) \/ Signal(w)
  <2>1. UNCHANGED <<tasks, execs, nextId, fired>>
    BY <1>1 DEF LoopTop, Acquire, ClaimNone, Signal, dbVars
  <2> QED  BY <2>1, TableStep
<1>2. CASE ClaimFound(w)
  <2>1. PICK t \in TaskIds, i \in 1..Concurrency :
          /\ IsNextClaim(tasks, t)
          /\ execs[<<w, i>>] = NULL
          /\ tasks' = [tasks EXCEPT ![t] = ClaimRow(@, w)]
          /\ execs' = [execs EXCEPT ![<<w, i>>] = NewExec(t)]
    BY <1>2 DEF ClaimFound
  <2> DEFINE e == <<w, i>>
  <2>2. e \in Slots /\ e[1] = w
    BY SlotFacts
  <2>3. tasks[t] # NULL /\ tasks[t] \in Row /\ tasks[t].status = "pending"
    BY <1>0, <2>1 DEF IsNextClaim, Claimable, TypeOK, Table
  <2>4. Free(t)
    BY <2>3, FreeRow
  <2>5. t < nextId
    BY <1>0, <2>3 DEF RInv, TypeOK, TaskIds
  <2>6. /\ tasks'[t] = ClaimRow(tasks[t], w)
        /\ \A u \in TaskIds : u # t => tasks'[u] = tasks[u]
    BY <1>0, <2>1 DEF TypeOK, Table
  <2>7. /\ execs'[e] = NewExec(t)
        /\ \A f \in Slots : f # e => execs'[f] = execs[f]
    BY <1>0, <2>1, <2>2 DEF TypeOK
  <2>8. NewExec(t).task = t /\ NewExec(t).pc = "run" /\ NewExec(t).elapsed = 0
    BY <2>3, NewExecType
  <2> HIDE DEF e
  <2>9. Owns(w, NewExec(t), ClaimRow(tasks[t], w))
    BY <2>3, <2>8, ClaimRowType DEF Owns
  <2>10. UNCHANGED <<nextId, fired>>
    BY <1>2 DEF ClaimFound
  <2>11. \A f \in Slots : execs[f] # NULL => execs[f].task # t
    BY <2>4 DEF Free
  <2>12. ExecOwnsRow'
    <3>1. ASSUME NEW f \in Slots, execs'[f] # NULL
          PROVE  Owns(f[1], execs'[f], tasks'[execs'[f].task])
      <4>1. CASE f = e
        BY <2>2, <2>6, <2>7, <2>8, <2>9, <4>1
      <4>2. CASE f # e
        <5>1. execs'[f] = execs[f] /\ execs[f].task \in TaskIds /\ execs[f].task # t
          BY <1>0, <2>7, <2>11, <3>1, <4>2 DEF TypeOK, Exec
        <5> QED  BY <2>6, <3>1, <5>1 DEF RInv, ExecOwnsRow
      <4> QED  BY <4>1, <4>2
    <3> QED  BY <3>1 DEF ExecOwnsRow
  <2>13. SoleExecution'
    BY <2>2, <2>7, <2>8, <2>11 DEF RInv, SoleExecution
  <2>14. \A f \in Slots : execs'[f] # NULL => execs'[f].task < nextId'
    BY <2>5, <2>7, <2>8, <2>10 DEF RInv
  <2>15. \A u \in TaskIds : u >= nextId' => tasks'[u] = NULL
    <3>1. \A u \in TaskIds : u >= nextId => u # t
      BY <1>0, <2>5 DEF TypeOK, TaskIds
    <3> QED  BY <2>6, <2>10, <3>1 DEF RInv
  <2>16. ASSUME NEW u \in TaskIds, <<u, "completed">> \in fired'
         PROVE  /\ u < nextId'
                /\ tasks'[u] = NULL \/ tasks'[u].status = "completed"
                /\ \A f \in Slots : execs'[f] # NULL => execs'[f].task # u
    <3>1. u # t /\ <<u, "completed">> \in fired
      BY <2>4, <2>10, <2>16 DEF Free
    <3> QED  BY <2>6, <2>7, <2>8, <2>10, <3>1 DEF RInv
  <2> QED  BY <2>12, <2>13, <2>14, <2>15, <2>16 DEF RInv
<1>3. CASE Drain(w) \/ Crash(w)
  <2>1. \A e \in Slots : execs'[e] = execs[e] \/ execs'[e] = NULL
    BY <1>3 DEF Drain, Crash, Abandon
  <2>2. UNCHANGED <<tasks, nextId, fired>>
    BY <1>3 DEF Drain, Crash, dbVars
  <2> QED  BY <2>1, <2>2, DropStep
<1>4. CASE Heartbeat(w)
  <2>1. ASSUME NEW t \in TaskIds
        PROVE  \/ tasks'[t] = tasks[t]
               \/ /\ tasks[t] # NULL
                  /\ tasks'[t].status = tasks[t].status
                  /\ tasks'[t].worker_id = tasks[t].worker_id
                  /\ tasks'[t].age = tasks[t].age
                  /\ tasks'[t].attempts = tasks[t].attempts
    <3>1. tasks'[t] = IF /\ tasks[t] # NULL /\ tasks[t].worker_id = w
                        /\ tasks[t].status = "running"
                      THEN HeartbeatRow(tasks[t]) ELSE tasks[t]
      BY <1>4 DEF Heartbeat, HeartbeatTable
    <3>2. \/ tasks'[t] = tasks[t]
          \/ tasks[t] # NULL /\ tasks'[t] = HeartbeatRow(tasks[t])
      BY <3>1
    <3> QED  BY <1>0, <3>2, HeartbeatRowType DEF TypeOK, Table
  <2>2. UNCHANGED <<execs, nextId, fired>>
    BY <1>4 DEF Heartbeat
  <2> QED  BY <2>1, <2>2, TableStep
<1>5. CASE Recover(w)
  <2>1. ASSUME NEW t \in TaskIds
        PROVE  tasks'[t] = tasks[t] \/ (tasks[t] # NULL /\ Free(t))
    <3>1. tasks'[t] = tasks[t] \/ Stale(tasks[t])
      BY <1>5 DEF Recover, RecoverTable
    <3>2. Stale(tasks[t]) => tasks[t] # NULL
      BY DEF Stale
    <3> QED  BY <3>1, <3>2, FreeRow
  <2>2. UNCHANGED <<execs, nextId, fired>>
    BY <1>5 DEF Recover
  <2> QED  BY <2>1, <2>2, TableStep
<1> QED  BY <1>1, <1>2, <1>3, <1>4, <1>5 DEF LoopStep

\* What an UPDATE of the row of an execution leaves alone.
LEMMA OthersSame ==
  ASSUME TypeOK, NEW t \in TaskIds, NEW r,
         tasks' = tasks \/ tasks' = [tasks EXCEPT ![t] = r]
  PROVE  /\ \A u \in TaskIds \ {t} : tasks'[u] = tasks[u]
         /\ tasks' = [tasks EXCEPT ![t] = r] => tasks'[t] = r
BY DEF TypeOK, Table

\* The steps of process_task.
LEMMA ExecRInv ==
  ASSUME Regime, RInv, TypeOK', NEW e \in Slots, ExecStep(e)
  PROVE  RInv'
<1> DEFINE t == execs[e].task
           x == execs[e]
<1>0. TypeOK
  BY DEF RInv
<1>1. x \in Exec /\ x # NULL
  BY <1>0, WorkerAssumption
  DEF TypeOK, ExecStep, At, ChildOk, ChildError, ChildRetry, Timeout,
      CompleteWrite, FailRead, FailWrite
<1>2. t \in TaskIds /\ Owns(e[1], x, tasks[t]) /\ (tasks[t] # NULL => tasks[t] \in Row)
  BY <1>0, <1>1 DEF RInv, ExecOwnsRow, TypeOK, Exec, Table
<1>3. CASE ChildOk(e)
  <2>1. /\ UNCHANGED <<nextId, fired, tasks>> /\ x.pc = "run"
        /\ execs' = [execs EXCEPT ![e] = ToComplete(x)]
    BY <1>3 DEF ChildOk, At, dbVars
  <2>2. Owns(e[1], ToComplete(x), tasks'[t])
    BY <1>1, <1>2, <2>1, ExecTypes DEF Owns
  <2> QED  BY <1>1, <1>2, <2>1, <2>2, ExecTypes, MoveStep
<1>4. CASE ChildError(e) \/ Timeout(e)
  <2>1. PICK c \in {"error", "timeout"} : execs' = [execs EXCEPT ![e] = ToFail(x, c)]
    BY <1>4 DEF ChildError, Timeout
  <2>2. UNCHANGED <<nextId, fired, tasks>> /\ x.pc = "run"
    BY <1>4 DEF ChildError, Timeout, At, dbVars
  <2>3. Owns(e[1], ToFail(x, c), tasks'[t])
    BY <1>1, <1>2, <2>2, ExecTypes DEF Owns
  <2> QED  BY <1>1, <1>2, <2>1, <2>2, <2>3, ExecTypes, MoveStep
<1>5. CASE ChildRetry(e)
  BY <1>5 DEF ChildRetry, Regime
<1>6. CASE CompleteWrite(e)
  <2>1. /\ tasks' = tasks \/ tasks' = [tasks EXCEPT ![t] = CompleteRow(tasks[t])]
        /\ tasks[t] # NULL => tasks' = [tasks EXCEPT ![t] = CompleteRow(tasks[t])]
        /\ tasks[t] = NULL => tasks' = tasks
        /\ UNCHANGED nextId /\ execs' = [execs EXCEPT ![e] = NULL]
        /\ fired' \subseteq fired \cup {<<t, "completed">>}
    BY <1>6 DEF CompleteWrite, EndExec, FireWebhook
  <2>2. tasks'[t] = NULL \/ tasks'[t].status = "completed"
    BY <1>0, <1>2, <2>1, OthersSame, CompleteRowType
  <2>3. \A u \in TaskIds \ {t} : tasks'[u] = tasks[u]
    BY <1>0, <1>2, <2>1, OthersSame
  <2> QED  BY <1>1, <1>2, <2>1, <2>2, <2>3, EndStep
<1>7. CASE FailRead(e)
  <2>0. UNCHANGED <<tasks, nextId>>
    BY <1>7 DEF FailRead, dbVars
  <2>1. CASE tasks[t] = NULL
    <3>1. /\ execs' = [execs EXCEPT ![e] = NULL]
          /\ fired' \subseteq fired \cup {<<t, "failed">>}
      BY <1>7, <2>1 DEF FailRead, EndExec, FireWebhook
    <3> QED  BY <1>1, <1>2, <2>0, <3>1, EndStep
  <2>2. CASE tasks[t] # NULL
    <3>1. /\ execs' = [execs EXCEPT ![e] = ToFailWrite(x, tasks[t].attempts)]
          /\ UNCHANGED fired /\ x.pc = "failing"
      BY <1>7, <2>2 DEF FailRead, At
    <3>2. tasks[t].attempts \in Nat
      BY <1>2, <2>2 DEF Row
    <3>3. Owns(e[1], ToFailWrite(x, tasks[t].attempts), tasks'[t])
      BY <1>1, <1>2, <2>0, <3>1, <3>2, ExecTypes DEF Owns
    <3> QED  BY <1>1, <1>2, <2>0, <3>1, <3>2, <3>3, ExecTypes, MoveStep
  <2> QED  BY <2>1, <2>2
<1>8. CASE FailWrite(e)
  <2>1. /\ tasks' = tasks \/ tasks' = [tasks EXCEPT ![t] = FailRow(tasks[t], x.att)]
        /\ UNCHANGED nextId /\ execs' = [execs EXCEPT ![e] = NULL]
        /\ fired' \subseteq fired \cup {<<t, "failed">>}
    BY <1>8 DEF FailWrite, EndExec, FireWebhook
  <2>2. \A u \in TaskIds \ {t} : tasks'[u] = tasks[u]
    BY <1>0, <1>2, <2>1, OthersSame
  <2> QED  BY <1>1, <1>2, <2>1, <2>2, EndStep
<1> QED  BY <1>3, <1>4, <1>5, <1>6, <1>7, <1>8 DEF ExecStep

\* Database calls that fail, with or without effect.
LEMMA FaultRInv ==
  ASSUME Regime, RInv, TypeOK', FaultStep
  PROVE  RInv'
<1>0. TypeOK
  BY DEF RInv
<1>1. ASSUME NEW w \in Workers, ClaimFault(w) \/ CancelLoop(w) PROVE RInv'
  <2>1. ASSUME NEW u \in TaskIds
        PROVE  tasks'[u] = tasks[u] \/ (tasks[u] # NULL /\ Free(u))
    <3>1. CASE UNCHANGED tasks
      BY <3>1
    <3>2. CASE \E t \in TaskIds : /\ IsNextClaim(tasks, t)
                                  /\ tasks' = [tasks EXCEPT ![t] = ClaimRow(@, w)]
      <4>1. PICK t \in TaskIds : /\ IsNextClaim(tasks, t)
                                 /\ tasks' = [tasks EXCEPT ![t] = ClaimRow(@, w)]
        BY <3>2
      <4>2. tasks[t] # NULL /\ Free(t)
        BY <4>1, FreeRow DEF IsNextClaim, Claimable
      <4> QED  BY <1>0, <4>1, <4>2 DEF TypeOK, Table
    <3> QED  BY <1>1, <3>1, <3>2 DEF ClaimFault, CancelLoop, LoseClaim
  <2>2. UNCHANGED <<execs, nextId, fired>>
    BY <1>1 DEF ClaimFault, CancelLoop
  <2> QED  BY <2>1, <2>2, TableStep
<1>2. ASSUME NEW e \in Slots, CompleteFault(e) PROVE RInv'
  <2> DEFINE t == execs[e].task
             x == execs[e]
  <2>1. x \in Exec /\ x # NULL /\ x.pc = "completing"
    BY <1>0, <1>2, WorkerAssumption DEF CompleteFault, At, TypeOK
  <2>2. t \in TaskIds /\ Owns(e[1], x, tasks[t]) /\ (tasks[t] # NULL => tasks[t] \in Row)
    BY <1>0, <2>1 DEF RInv, ExecOwnsRow, TypeOK, Exec, Table
  <2>3. PICK c \in {"timeout", "error"} : execs' = [execs EXCEPT ![e] = ToFail(x, c)]
    BY <1>2 DEF CompleteFault
  <2>4. /\ UNCHANGED <<nextId, fired>>
        /\ \/ tasks' = tasks
           \/ tasks[t] # NULL /\ tasks' = [tasks EXCEPT ![t] = CompleteRow(tasks[t])]
    BY <1>2 DEF CompleteFault
  <2>5. \A u \in TaskIds \ {t} : tasks'[u] = tasks[u]
    BY <1>0, <2>2, <2>4, OthersSame
  <2>6. \/ tasks'[t] = tasks[t]
        \/ tasks'[t].status = "completed"
    BY <1>0, <2>2, <2>4, OthersSame, CompleteRowType
  <2>7. Owns(e[1], ToFail(x, c), tasks'[t])
    BY <2>1, <2>2, <2>6, ExecTypes DEF Owns
  <2> QED  BY <2>1, <2>2, <2>3, <2>4, <2>5, <2>7, ExecTypes, MoveStep
<1>3. ASSUME NEW e \in Slots, FailFault(e) PROVE RInv'
  <2> DEFINE t == execs[e].task
  <2>1. execs[e] # NULL /\ t \in TaskIds
    BY <1>0, <1>3 DEF FailFault, At, TypeOK, Exec
  <2>2. /\ UNCHANGED nextId /\ execs' = [execs EXCEPT ![e] = NULL]
        /\ fired' \subseteq fired \cup {<<t, "failed">>}
        /\ tasks' = tasks \/ tasks' = [tasks EXCEPT ![t] = FailRow(tasks[t], execs[e].att)]
    BY <1>3 DEF FailFault, EndExec, FireWebhook
  <2>3. \A u \in TaskIds \ {t} : tasks'[u] = tasks[u]
    BY <1>0, <2>1, <2>2, OthersSame
  <2> QED  BY <2>1, <2>2, <2>3, EndStep
<1> QED  BY <1>1, <1>2, <1>3 DEF FaultStep


\* Time passes: a running row and its execution grow older together, because
\* no execution reaches the age at which its row is stale.
LEMMA TickRInv ==
  ASSUME Regime, RInv, TypeOK', Tick
  PROVE  RInv'
<1>0. TypeOK
  BY DEF RInv
<1>1. ASSUME NEW t \in TaskIds
      PROVE  /\ tasks[t] = NULL => tasks'[t] = NULL
             /\ tasks[t] # NULL => tasks[t] \in Row /\ tasks'[t] = AgeRow(tasks[t])
  BY <1>0 DEF Tick, AgeTable, TypeOK, Table
<1>2. ASSUME NEW e \in Slots
      PROVE  /\ execs[e] = NULL => execs'[e] = NULL
             /\ execs[e] # NULL => /\ execs[e] \in Exec /\ execs'[e] = AgeExec(execs[e])
                                   /\ execs'[e] # NULL
                                   /\ execs'[e].task = execs[e].task
                                   /\ execs'[e].pc = execs[e].pc
                                   /\ execs'[e].att = execs[e].att
                                   /\ execs[e].elapsed < MaxElapsed
                                   /\ execs'[e].elapsed = execs[e].elapsed + 1
  <2>1. execs'[e] = AgeExec(execs[e])
    BY DEF Tick
  <2>2. CASE execs[e] = NULL
    BY <2>1, <2>2 DEF AgeExec
  <2>3. CASE execs[e] # NULL
    <3>1. execs[e] \in Exec /\ execs[e].elapsed < MaxElapsed
      BY <1>0, <2>3 DEF TypeOK, Tick, Regime
    <3>2. AgeExec(execs[e]) \in Exec
      BY <3>1, AgeExecType
    <3>3. AgeExec(execs[e]) # NULL
      BY <3>2, WorkerAssumption
    <3> QED  BY <2>1, <2>3, <3>1, <3>3, AgeExecType
  <2> QED  BY <2>2, <2>3
<1>3. UNCHANGED <<nextId, fired>>
  BY DEF Tick
<1>4. ASSUME NEW e \in Slots, execs'[e] # NULL
      PROVE  Owns(e[1], execs'[e], tasks'[execs'[e].task])
  <2> DEFINE t == execs[e].task
             r == tasks[t]
  <2>1. execs[e] # NULL
    BY <1>2, <1>4
  <2>2. t \in TaskIds /\ Owns(e[1], execs[e], r) /\ execs'[e].task = t
    BY <1>2, <2>1 DEF RInv, ExecOwnsRow, Exec
  <2>3. CASE r = NULL
    BY <1>1, <2>2, <2>3 DEF Owns
  <2>4. CASE r # NULL
    <3>1. r \in Row /\ tasks'[t] = AgeRow(r)
      BY <1>1, <2>2, <2>4
    <3>2. /\ AgeRow(r).status = r.status /\ AgeRow(r).worker_id = r.worker_id
          /\ AgeRow(r).attempts = r.attempts
          /\ r.age # NULL /\ r.age <= StaleAfter => AgeRow(r).age = r.age + 1
      BY <3>1, AgeRowType
    <3>3. r.age = execs[e].elapsed => AgeRow(r).age = execs'[e].elapsed
      <4>1. execs[e].elapsed \in Nat /\ execs[e].elapsed <= StaleAfter
        BY <1>2, <2>1, WorkerAssumption, ConstantAssumption DEF Exec, Regime, MaxElapsed
      <4>2. execs[e].elapsed # NULL
        BY <4>1, NullAssumption
      <4> QED  BY <1>2, <2>1, <3>2, <4>1, <4>2
    <3> HIDE DEF r, t
    <3>4. Owns(e[1], execs'[e], AgeRow(r))
      BY <1>2, <2>1, <2>2, <2>4, <3>2, <3>3 DEF Owns
    <3> QED  BY <2>2, <3>1, <3>4
  <2> QED  BY <2>3, <2>4
<1>5. ExecOwnsRow'
  BY <1>4 DEF ExecOwnsRow
<1>6. SoleExecution'
  BY <1>2 DEF RInv, SoleExecution
<1>7. /\ \A t \in TaskIds : t >= nextId' => tasks'[t] = NULL
      /\ \A e \in Slots : execs'[e] # NULL => execs'[e].task < nextId'
  BY <1>1, <1>2, <1>3 DEF RInv
<1>8. ASSUME NEW t \in TaskIds, <<t, "completed">> \in fired'
      PROVE  /\ t < nextId'
             /\ tasks'[t] = NULL \/ tasks'[t].status = "completed"
             /\ \A e \in Slots : execs'[e] # NULL => execs'[e].task # t
  <2>1. /\ t < nextId
        /\ tasks[t] = NULL \/ tasks[t].status = "completed"
        /\ \A e \in Slots : execs[e] # NULL => execs[e].task # t
    BY <1>3, <1>8 DEF RInv
  <2> QED  BY <1>1, <1>2, <1>3, <2>1, AgeRowType
<1> QED  BY <1>5, <1>6, <1>7, <1>8 DEF RInv

\* Orphans, clients and administrators.
LEMMA OtherRInv ==
  ASSUME Regime, RInv, TypeOK',
         \/ \E t \in TaskIds : OrphanExit(t) \/ OrphanRetry(t)
         \/ \E o \in Options, d \in Delays : Enqueue(o, d)
         \/ AdminStep
  PROVE  RInv'
<1>0. TypeOK
  BY DEF RInv
<1>1. ASSUME NEW t \in TaskIds, OrphanExit(t) \/ OrphanRetry(t) PROVE RInv'
  <2>1. UNCHANGED <<tasks, execs, nextId, fired>>
    BY <1>1 DEF OrphanExit, OrphanRetry, Regime, dbVars
  <2> QED  BY <2>1, TableStep
<1>2. ASSUME NEW o \in Options, NEW d \in Delays, Enqueue(o, d) PROVE RInv'
  <2>1. /\ nextId \in TaskIds /\ nextId' = nextId + 1 /\ UNCHANGED <<execs, fired>>
        /\ \A t \in TaskIds : t # nextId => tasks'[t] = tasks[t]
    BY <1>0, <1>2 DEF Enqueue, TypeOK, Table, TaskIds
  <2>2. ASSUME NEW e \in Slots, execs[e] # NULL
        PROVE  /\ execs[e].task \in TaskIds /\ execs[e].task # nextId
               /\ execs[e].task < nextId'
    BY <1>0, <2>1, <2>2 DEF RInv, TypeOK, Exec, TaskIds
  <2>3. ExecOwnsRow' /\ SoleExecution'
    BY <2>1, <2>2 DEF RInv, ExecOwnsRow, SoleExecution
  <2>4. \A t \in TaskIds : t >= nextId' => tasks'[t] = NULL
    <3>1. \A t \in TaskIds : t >= nextId + 1 => t >= nextId /\ t # nextId
      BY <2>1 DEF TaskIds
    <3> QED  BY <2>1, <3>1 DEF RInv
  <2>5. ASSUME NEW t \in TaskIds, <<t, "completed">> \in fired'
        PROVE  /\ t < nextId'
               /\ tasks'[t] = NULL \/ tasks'[t].status = "completed"
               /\ \A e \in Slots : execs'[e] # NULL => execs'[e].task # t
    <3>1. /\ t < nextId
          /\ tasks[t] = NULL \/ tasks[t].status = "completed"
          /\ \A e \in Slots : execs[e] # NULL => execs[e].task # t
      BY <2>1, <2>5 DEF RInv
    <3>2. t # nextId /\ t < nextId'
      BY <2>1, <3>1 DEF TaskIds
    <3> QED  BY <2>1, <3>1, <3>2
  <2> QED  BY <2>1, <2>2, <2>3, <2>4, <2>5 DEF RInv
<1>3. ASSUME NEW t \in TaskIds, Requeue(t) \/ Cancel(t) PROVE RInv'
  <2>1. tasks[t] # NULL /\ Free(t)
    BY <1>3, FreeRow DEF Requeue, Cancel
  <2>2. \A u \in TaskIds : u # t => tasks'[u] = tasks[u]
    BY <1>0, <1>3 DEF Requeue, Cancel, TypeOK, Table
  <2>3. UNCHANGED <<execs, nextId>> /\ fired' \subseteq fired
    BY <1>3 DEF Requeue, Cancel
  <2>4. \A u \in TaskIds : tasks'[u] = tasks[u] \/ (tasks[u] # NULL /\ Free(u))
    BY <2>1, <2>2
  <2> QED  BY <2>3, <2>4, TableStep
<1>4. ASSUME NEW S \in SUBSET TaskIds, Delete(S) PROVE RInv'
  <2>1. \A t \in TaskIds : tasks'[t] = tasks[t] \/ tasks'[t] = NULL
    BY <1>4 DEF Delete, DeleteFrom
  <2>2. UNCHANGED <<execs, nextId, fired>>
    BY <1>4 DEF Delete
  <2> QED  BY <2>1, <2>2, TableStep
<1>5. CASE Cleanup
  <2>1. ASSUME NEW t \in TaskIds
        PROVE  \/ tasks'[t] = tasks[t]
               \/ /\ tasks[t] # NULL /\ tasks[t].status \notin Terminal
                  /\ tasks'[t].status = "expired"
                  /\ tasks'[t].attempts = tasks[t].attempts
    <3>1. tasks'[t] = IF TtlExpired(tasks[t]) THEN ExpireRow(tasks[t]) ELSE tasks[t]
      BY <1>5 DEF Cleanup, ExpireTable
    <3>2. CASE ~TtlExpired(tasks[t])
      BY <3>1, <3>2
    <3>3. CASE TtlExpired(tasks[t])
      <4>1. tasks[t] # NULL /\ tasks[t].status \notin Terminal
        BY <3>3 DEF TtlExpired
      <4>2. tasks[t] \in Row
        BY <1>0, <4>1 DEF TypeOK, Table
      <4> QED  BY <3>1, <3>3, <4>1, <4>2, FinishRowType
    <3> QED  BY <3>2, <3>3
  <2>2. UNCHANGED <<execs, nextId, fired>>
    BY <1>5 DEF Cleanup
  <2> QED  BY <2>1, <2>2, TableStep
<1> QED  BY <1>1, <1>2, <1>3, <1>4, <1>5 DEF AdminStep

\* Every step keeps the inductive invariant.
LEMMA NextRInv == Regime /\ RInv /\ [Next]_vars => RInv'
<1> SUFFICES ASSUME Regime, RInv, [Next]_vars PROVE RInv'
  OBVIOUS
<1>0. TypeOK'
  BY NextTypeOK DEF RInv
<1>1. CASE UNCHANGED vars
  <2>1. UNCHANGED <<tasks, execs, nextId, fired>>
    BY <1>1 DEF vars
  <2> QED  BY <1>0, <2>1, TableStep
<1>2. CASE Next
  BY <1>0, <1>2, LoopRInv, ExecRInv, FaultRInv, TickRInv, OtherRInv DEF Next
<1> QED  BY <1>1, <1>2

\* In the regime every reachable state satisfies the inductive invariant.
LEMMA SpecRInv == Regime => (Spec => []RInv)
<1> SUFFICES ASSUME Regime PROVE Spec => []RInv
  OBVIOUS
<1>1. RInv /\ [Next]_vars => RInv'
  BY NextRInv
<1> QED  BY <1>1, InitRInv, PTL DEF Spec

\* A task is executed by at most one coroutine of one worker, whatever crashes
\* and fails, if executions end before their rows are stale.
THEOREM ExecutionIsExclusive == Regime => (Spec => []SoleExecution)
<1> SUFFICES ASSUME Regime PROVE Spec => []SoleExecution
  OBVIOUS
<1>1. RInv => SoleExecution
  BY DEF RInv
<1> QED  BY <1>1, SpecRInv, PTL

\* Until its last write a coroutine of process_task owns the row it executes.
THEOREM ExecutionOwnsItsRow == Regime => (Spec => []ExecOwnsRow)
<1> SUFFICES ASSUME Regime PROVE Spec => []ExecOwnsRow
  OBVIOUS
<1>1. RInv => ExecOwnsRow
  BY DEF RInv
<1> QED  BY <1>1, SpecRInv, PTL

\* A task whose webhook was called with "completed" is completed, or deleted.
THEOREM CompletionHooksAreTrue == Regime => (Spec => []CompletedHookIsTrue)
<1> SUFFICES ASSUME Regime PROVE Spec => []CompletedHookIsTrue
  OBVIOUS
<1>1. RInv => CompletedHookIsTrue
  BY DEF RInv, CompletedHookIsTrue
<1> QED  BY <1>1, SpecRInv, PTL

-----------------------------------------------------------------------------
(* The accounting of attempts                                              *)

\* What ReturnCostsOneAttempt says of one task and one step.
Charged(t) ==
  tasks[t] # NULL /\ ~IsPending(tasks[t]) /\ IsPending(tasks'[t]) =>
    \/ tasks'[t].attempts = tasks[t].attempts + 1
    \/ tasks[t].status = "failed" /\ tasks'[t].attempts = 0

\* Steps that leave a row alone, delete it or keep its status charge nothing.
LEMMA NothingReturned ==
  ASSUME NEW t \in TaskIds,
         \/ tasks'[t] = tasks[t]
         \/ tasks'[t] = NULL
         \/ tasks[t] # NULL /\ tasks'[t].status = tasks[t].status
         \/ tasks'[t].status # "pending"
  PROVE  Charged(t)
BY DEF Charged, IsPending

\* The loop, the heartbeat and the reaper.
LEMMA LoopCharged ==
  ASSUME RInv, NEW t \in TaskIds, NEW w \in Workers,
         LoopStep(w) \/ Heartbeat(w) \/ Recover(w) \/ Signal(w) \/ Crash(w)
  PROVE  Charged(t)
<1>0. tasks \in Table /\ (tasks[t] # NULL => tasks[t] \in Row)
  BY DEF RInv, TypeOK, Table
<1>1. CASE LoopTop(w) \/ Acquire(w) \/ ClaimNone(w) \/ Signal(w) \/ Drain(w) \/ Crash(w)
  <2>1. tasks'[t] = tasks[t]
    BY <1>1 DEF LoopTop, Acquire, ClaimNone, Signal, Drain, Crash, dbVars
  <2> QED  BY <2>1, NothingReturned
<1>2. CASE ClaimFound(w)
  <2>1. PICK u \in TaskIds : /\ IsNextClaim(tasks, u)
                             /\ tasks' = [tasks EXCEPT ![u] = ClaimRow(@, w)]
    BY <1>2 DEF ClaimFound
  <2>2. tasks'[t] = tasks[t] \/ (u = t /\ tasks'[t] = ClaimRow(tasks[t], w))
    BY <1>0, <2>1 DEF Table
  <2>3. u = t => tasks[t] \in Row
    BY <1>0, <2>1 DEF IsNextClaim, Claimable
  <2>4. tasks'[t] = tasks[t] \/ tasks'[t].status # "pending"
    BY <2>2, <2>3, ClaimRowType
  <2> QED  BY <2>4, NothingReturned
<1>3. CASE Heartbeat(w)
  <2>1. tasks'[t] = IF /\ tasks[t] # NULL /\ tasks[t].worker_id = w
                       /\ tasks[t].status = "running"
                    THEN HeartbeatRow(tasks[t]) ELSE tasks[t]
    BY <1>3 DEF Heartbeat, HeartbeatTable
  <2>2. tasks'[t] = tasks[t] \/ (tasks[t] # NULL /\ tasks'[t].status = tasks[t].status)
    BY <1>0, <2>1, HeartbeatRowType
  <2> QED  BY <2>2, NothingReturned
<1>4. CASE Recover(w)
  <2>1. tasks'[t] = IF Stale(tasks[t]) THEN RecoverRow(tasks[t]) ELSE tasks[t]
    BY <1>4 DEF Recover, RecoverTable
  <2>2. CASE ~Stale(tasks[t])
    BY <2>1, <2>2, NothingReturned
  <2>3. CASE Stale(tasks[t])
    <3>1. tasks[t] \in Row
      BY <1>0, <2>3 DEF Stale
    <3>2. tasks'[t].attempts = tasks[t].attempts + 1
      BY <2>1, <2>3, <3>1, BackToPendingType, 0 \in Nat
    <3> QED  BY <3>2 DEF Charged
  <2> QED  BY <2>2, <2>3
<1> QED  BY <1>1, <1>2, <1>3, <1>4 DEF LoopStep

\* The UPDATE of fail_task charges one attempt: what it read is still there.
LEMMA FailCharged ==
  ASSUME RInv, NEW t \in TaskIds, NEW e \in Slots, At(e, "failwrite"),
         tasks[execs[e].task] # NULL,
         tasks' = [tasks EXCEPT ![execs[e].task] = FailRow(@, execs[e].att)]
  PROVE  Charged(t)
<1>1. CASE t # execs[e].task
  <2>1. tasks'[t] = tasks[t]
    BY <1>1 DEF RInv, TypeOK, Table
  <2> QED  BY <2>1, NothingReturned
<1>2. CASE t = execs[e].task
  <2>1. /\ execs[e] \in Exec /\ execs[e].pc = "failwrite" /\ tasks[t] \in Row
        /\ Owns(e[1], execs[e], tasks[t])
    BY <1>2 DEF RInv, TypeOK, Table, At, ExecOwnsRow
  <2>2. tasks[t].attempts = execs[e].att /\ execs[e].att \in Nat
    BY <1>2, <2>1 DEF Owns, Exec
  <2>3. tasks'[t] = FailRow(tasks[t], execs[e].att)
    BY <1>2 DEF RInv, TypeOK, Table
  <2>4. \A a \in Nat : FailRow(tasks[t], a).attempts = a + 1
    BY <2>1, FailRowType
  <2>5. tasks'[t].attempts = tasks[t].attempts + 1
    BY <2>2, <2>3, <2>4
  <2> QED  BY <2>5 DEF Charged
<1> QED  BY <1>1, <1>2

\* The UPDATE of complete_task returns no task.
LEMMA CompleteCharged ==
  ASSUME RInv, NEW t \in TaskIds, NEW e \in Slots, execs[e] # NULL,
         tasks[execs[e].task] # NULL,
         tasks' = [tasks EXCEPT ![execs[e].task] = CompleteRow(@)]
  PROVE  Charged(t)
<1>1. tasks'[t] = tasks[t] \/ (tasks[t] \in Row /\ tasks'[t] = CompleteRow(tasks[t]))
  BY DEF RInv, TypeOK, Table
<1>2. tasks'[t] = tasks[t] \/ tasks'[t].status # "pending"
  BY <1>1, CompleteRowType
<1> QED  BY <1>2, NothingReturned

\* process_task.
LEMMA ExecCharged ==
  ASSUME Regime, RInv, NEW t \in TaskIds, NEW e \in Slots, ExecStep(e)
  PROVE  Charged(t)
<1>1. CASE ChildOk(e) \/ ChildError(e) \/ Timeout(e) \/ FailRead(e)
  <2>1. tasks'[t] = tasks[t]
    BY <1>1 DEF ChildOk, ChildError, Timeout, FailRead, dbVars
  <2> QED  BY <2>1, NothingReturned
<1>2. CASE ChildRetry(e)
  BY <1>2 DEF ChildRetry, Regime
<1>3. CASE CompleteWrite(e)
  <2>1. CASE tasks[execs[e].task] = NULL
    <3>1. tasks'[t] = tasks[t]
      BY <1>3, <2>1 DEF CompleteWrite
    <3> QED  BY <3>1, NothingReturned
  <2>2. CASE tasks[execs[e].task] # NULL
    BY <1>3, <2>2, CompleteCharged DEF CompleteWrite, At
  <2> QED  BY <2>1, <2>2
<1>4. CASE FailWrite(e)
  <2>1. CASE tasks[execs[e].task] = NULL
    <3>1. tasks'[t] = tasks[t]
      BY <1>4, <2>1 DEF FailWrite
    <3> QED  BY <3>1, NothingReturned
  <2>2. CASE tasks[execs[e].task] # NULL
    BY <1>4, <2>2, FailCharged DEF FailWrite
  <2> QED  BY <2>1, <2>2
<1> QED  BY <1>1, <1>2, <1>3, <1>4 DEF ExecStep

\* Database calls that fail, with or without effect.
LEMMA FaultCharged ==
  ASSUME RInv, NEW t \in TaskIds, FaultStep
  PROVE  Charged(t)
<1>0. tasks \in Table /\ (tasks[t] # NULL => tasks[t] \in Row)
  BY DEF RInv, TypeOK, Table
<1>1. CASE UNCHANGED tasks
  BY <1>1, NothingReturned
<1>2. ASSUME NEW w \in Workers, NEW u \in TaskIds, IsNextClaim(tasks, u),
             tasks' = [tasks EXCEPT ![u] = ClaimRow(@, w)]
      PROVE  Charged(t)
  <2>1. tasks'[t] = tasks[t] \/ (u = t /\ tasks'[t] = ClaimRow(tasks[t], w))
    BY <1>0, <1>2 DEF Table
  <2>2. u = t => tasks[t] \in Row
    BY <1>0, <1>2 DEF IsNextClaim, Claimable
  <2>3. tasks'[t] = tasks[t] \/ tasks'[t].status # "pending"
    BY <2>1, <2>2, ClaimRowType
  <2> QED  BY <2>3, NothingReturned
<1>3. ASSUME NEW w \in Workers, ClaimFault(w) \/ CancelLoop(w) PROVE Charged(t)
  BY <1>1, <1>2, <1>3 DEF ClaimFault, CancelLoop, LoseClaim
<1>4. ASSUME NEW e \in Slots, CompleteFault(e) PROVE Charged(t)
  BY <1>1, <1>4, CompleteCharged DEF CompleteFault, At
<1>5. ASSUME NEW e \in Slots, FailFault(e) PROVE Charged(t)
  BY <1>1, <1>5, FailCharged DEF FailFault
<1> QED  BY <1>3, <1>4, <1>5 DEF FaultStep

\* Orphans, clients, administrators and time.
LEMMA OtherCharged ==
  ASSUME Regime, RInv, NEW t \in TaskIds,
         \/ \E u \in TaskIds : OrphanExit(u) \/ OrphanRetry(u)
         \/ \E o \in Options, d \in Delays : Enqueue(o, d)
         \/ AdminStep
         \/ Tick
  PROVE  Charged(t)
<1>0. /\ tasks \in Table /\ nextId \in 1 .. MaxTasks + 1
      /\ tasks[t] # NULL => tasks[t] \in Row
  BY DEF RInv, TypeOK, Table
<1>1. ASSUME NEW u \in TaskIds, OrphanExit(u) \/ OrphanRetry(u) PROVE Charged(t)
  <2>1. tasks'[t] = tasks[t]
    BY <1>1 DEF OrphanExit, OrphanRetry, Regime, dbVars
  <2> QED  BY <2>1, NothingReturned
<1>2. ASSUME NEW o \in Options, NEW d \in Delays, Enqueue(o, d) PROVE Charged(t)
  <2>1. CASE t = nextId
    <3>1. t >= nextId
      BY <1>0, <2>1, ConstantAssumption
    <3>2. tasks[t] = NULL
      BY <3>1 DEF RInv
    <3> QED  BY <3>2 DEF Charged
  <2>2. CASE t # nextId
    <3>1. tasks'[t] = tasks[t]
      BY <1>0, <1>2, <2>2 DEF Enqueue, Table
    <3> QED  BY <3>1, NothingReturned
  <2> QED  BY <2>1, <2>2
<1>3. ASSUME NEW u \in TaskIds, Requeue(u) PROVE Charged(t)
  <2>1. \/ tasks'[t] = tasks[t]
        \/ /\ tasks[t] \in Row /\ tasks[t].status = "failed"
           /\ tasks'[t] = RequeueRow(tasks[t])
    BY <1>0, <1>3 DEF Requeue, Table
  <2>2. tasks'[t] = tasks[t] \/ (tasks[t].status = "failed" /\ tasks'[t].attempts = 0)
    BY <2>1, BackToPendingType, 0 \in Nat
  <2> QED  BY <2>2, NothingReturned DEF Charged
<1>4. ASSUME NEW u \in TaskIds, Cancel(u) PROVE Charged(t)
  <2>1. \/ tasks'[t] = tasks[t]
        \/ tasks[t] \in Row /\ tasks'[t] = CancelRow(tasks[t])
    BY <1>0, <1>4 DEF Cancel, Table
  <2>2. tasks'[t] = tasks[t] \/ tasks'[t].status # "pending"
    BY <2>1, FinishRowType
  <2> QED  BY <2>2, NothingReturned
<1>5. ASSUME NEW S \in SUBSET TaskIds, Delete(S) PROVE Charged(t)
  <2>1. tasks'[t] = tasks[t] \/ tasks'[t] = NULL
    BY <1>5 DEF Delete, DeleteFrom
  <2> QED  BY <2>1, NothingReturned
<1>6. CASE Cleanup
  <2>1. tasks'[t] = IF TtlExpired(tasks[t]) THEN ExpireRow(tasks[t]) ELSE tasks[t]
    BY <1>6 DEF Cleanup, ExpireTable
  <2>2. TtlExpired(tasks[t]) => tasks[t] \in Row
    BY <1>0 DEF TtlExpired
  <2>3. tasks'[t] = tasks[t] \/ tasks'[t].status # "pending"
    BY <2>1, <2>2, FinishRowType
  <2> QED  BY <2>3, NothingReturned
<1>7. CASE Tick
  <2>1. tasks'[t] = IF tasks[t] = NULL THEN NULL ELSE AgeRow(tasks[t])
    BY <1>7 DEF Tick, AgeTable
  <2>2. tasks'[t] = NULL \/ (tasks[t] # NULL /\ tasks'[t].status = tasks[t].status)
    BY <1>0, <2>1, AgeRowType
  <2> QED  BY <2>2, NothingReturned
<1> QED  BY <1>1, <1>2, <1>3, <1>4, <1>5, <1>6, <1>7 DEF AdminStep

\* A task returns to the queue at the price of exactly one attempt, or by a
\* requeue: no attempt is lost or counted twice in fail_task and the reaper.
THEOREM AttemptsAreAccounted == Regime => (Spec => ReturnCostsOneAttempt)
<1> SUFFICES ASSUME Regime PROVE Spec => ReturnCostsOneAttempt
  OBVIOUS
<1>1. ASSUME RInv, [Next]_vars
      PROVE  [\A t \in TaskIds :
                tasks[t] # NULL /\ ~IsPending(tasks[t]) /\ IsPending(tasks'[t]) =>
                  \/ tasks'[t].attempts = tasks[t].attempts + 1
                  \/ tasks[t].status = "failed" /\ tasks'[t].attempts = 0]_vars
  <2>1. CASE UNCHANGED vars
    BY <2>1
  <2>2. CASE Next
    <3>1. ASSUME NEW t \in TaskIds PROVE Charged(t)
      BY <1>1, <2>2, LoopCharged, ExecCharged, FaultCharged, OtherCharged DEF Next
    <3> QED  BY <3>1 DEF Charged
  <2> QED  BY <1>1, <2>1, <2>2
<1> QED  BY <1>1, SpecRInv, PTL DEF Spec, ReturnCostsOneAttempt

-----------------------------------------------------------------------------
(* The documented life of a task                                           *)

\* The edges of the life of a task that a step takes in the table.
Edge(r, s) ==
  \/ s.status = r.status /\ s.attempts = r.attempts
  \/ /\ r.status = "pending" /\ s.status \in {"running", "cancelled", "expired"}
     /\ s.attempts = r.attempts
  \/ /\ r.status = "running" /\ s.status \in {"completed", "expired"}
     /\ s.attempts = r.attempts
  \/ /\ r.status = "running" /\ s.status \in {"pending", "failed"}
     /\ s.attempts = r.attempts + 1
  \/ r.status = "failed" /\ s.status = "pending" /\ s.attempts = 0

\* What a step does to a task that lives as documented.
Lives(t) ==
  \/ tasks'[t] = tasks[t] /\ (t < nextId' <=> t < nextId)
  \/ t < nextId /\ t < nextId' /\ tasks'[t] = NULL
  \/ /\ t >= nextId /\ t < nextId' /\ tasks[t] = NULL /\ tasks'[t] # NULL
     /\ tasks'[t].status = "pending" /\ tasks'[t].attempts = 0
  \/ /\ t < nextId /\ t < nextId' /\ tasks[t] # NULL /\ tasks'[t] # NULL
     /\ Edge(tasks[t], tasks'[t])

\* What the stage and the counter of a task are.
LEMMA StageIs ==
  ASSUME TypeOK, NEW t \in TaskIds
  PROVE  /\ t >= nextId => Stage(t) = "new"
         /\ t < nextId /\ tasks[t] = NULL => Stage(t) = "deleted"
         /\ t < nextId /\ tasks[t] # NULL => Stage(t) = tasks[t].status
         /\ tasks[t] = NULL => Attempts(t) = 0
         /\ tasks[t] # NULL => Attempts(t) = tasks[t].attempts
<1>1. t \in Nat /\ nextId \in Nat
  BY ConstantAssumption DEF TypeOK, TaskIds
<1> QED  BY <1>1 DEF Stage, Attempts

\* The same of the next state.
LEMMA NextStageIs ==
  ASSUME TypeOK', NEW t \in TaskIds
  PROVE  /\ t >= nextId' => Stage(t)' = "new"
         /\ t < nextId' /\ tasks'[t] = NULL => Stage(t)' = "deleted"
         /\ t < nextId' /\ tasks'[t] # NULL => Stage(t)' = tasks'[t].status
         /\ tasks'[t] = NULL => Attempts(t)' = 0
         /\ tasks'[t] # NULL => Attempts(t)' = tasks'[t].attempts
<1>1. t \in Nat /\ nextId' \in Nat
  BY ConstantAssumption DEF TypeOK, TaskIds
<1> QED  BY <1>1 DEF Stage, Attempts

\* Those steps are the documented ones.
LEMMA LifeIsDocumented ==
  ASSUME TypeOK, TypeOK', NEW t \in TaskIds, Lives(t)
  PROVE  Lifecycle!Move(t) \/ Lifecycle!Stay(t)
<1>1. t \in Nat /\ nextId \in Nat /\ nextId' \in Nat
  BY ConstantAssumption DEF TypeOK, TaskIds
<1>2. /\ t >= nextId => Stage(t) = "new"
      /\ t < nextId /\ tasks[t] = NULL => Stage(t) = "deleted"
      /\ t < nextId /\ tasks[t] # NULL => Stage(t) = tasks[t].status
      /\ Attempts(t) = IF tasks[t] = NULL THEN 0 ELSE tasks[t].attempts
  BY StageIs
<1>3. /\ t >= nextId' => Stage(t)' = "new"
      /\ t < nextId' /\ tasks'[t] = NULL => Stage(t)' = "deleted"
      /\ t < nextId' /\ tasks'[t] # NULL => Stage(t)' = tasks'[t].status
      /\ Attempts(t)' = IF tasks'[t] = NULL THEN 0 ELSE tasks'[t].attempts
  BY NextStageIs
<1>4. /\ tasks[t] # NULL => tasks[t].status \in Statuses /\ tasks[t].attempts \in Nat
      /\ tasks'[t] # NULL => tasks'[t].status \in Statuses /\ tasks'[t].attempts \in Nat
  BY DEF TypeOK, Table, Row
<1>5. CASE tasks'[t] = tasks[t] /\ (t < nextId' <=> t < nextId)
  <2>1. Stage(t)' = Stage(t) /\ Attempts(t)' = Attempts(t)
    BY <1>1, <1>2, <1>3, <1>5
  <2> QED  BY <2>1 DEF Lifecycle!Stay
<1>6. CASE t < nextId /\ t < nextId' /\ tasks'[t] = NULL
  <2>1. Stage(t)' = "deleted" /\ Attempts(t)' = 0
    BY <1>3, <1>6
  <2>2. CASE tasks[t] = NULL
    BY <1>2, <1>6, <2>1, <2>2 DEF Lifecycle!Stay
  <2>3. CASE tasks[t] # NULL
    <3>1. Stage(t) \in Statuses
      BY <1>2, <1>4, <1>6, <2>3
    <3> QED  BY <2>1, <3>1 DEF Lifecycle!Move, Lifecycle!Ways, Statuses
  <2> QED  BY <2>2, <2>3
<1>7. CASE /\ t >= nextId /\ t < nextId' /\ tasks[t] = NULL /\ tasks'[t] # NULL
           /\ tasks'[t].status = "pending" /\ tasks'[t].attempts = 0
  <2>1. Stage(t) = "new" /\ Stage(t)' = "pending" /\ Attempts(t)' = 0
    BY <1>2, <1>3, <1>7
  <2> QED  BY <2>1 DEF Lifecycle!Move, Lifecycle!Ways
<1>8. CASE /\ t < nextId /\ t < nextId' /\ tasks[t] # NULL /\ tasks'[t] # NULL
           /\ Edge(tasks[t], tasks'[t])
  <2>1. /\ Stage(t) = tasks[t].status /\ Stage(t)' = tasks'[t].status
        /\ Attempts(t) = tasks[t].attempts /\ Attempts(t)' = tasks'[t].attempts
    BY <1>2, <1>3, <1>8
  <2>2. CASE tasks'[t].status = tasks[t].status /\ tasks'[t].attempts = tasks[t].attempts
    BY <2>1, <2>2 DEF Lifecycle!Stay
  <2>3. CASE tasks[t].status = "pending"
    BY <1>8, <2>1, <2>2, <2>3 DEF Edge, Lifecycle!Move, Lifecycle!Ways
  <2>4. CASE tasks[t].status = "running"
    BY <1>8, <2>1, <2>2, <2>4 DEF Edge, Lifecycle!Move, Lifecycle!Ways
  <2>5. CASE tasks[t].status = "failed"
    BY <1>8, <2>1, <2>2, <2>5 DEF Edge, Lifecycle!Move, Lifecycle!Ways
  <2> QED  BY <1>8, <2>2, <2>3, <2>4, <2>5 DEF Edge
<1> QED  BY <1>5, <1>6, <1>7, <1>8 DEF Lives

\* The rows of a well-typed table are not NULL.
LEMMA RowNotNull == \A r \in Row : r # NULL
BY NullAssumption

\* The statements whose WHERE clause looks at the status, and complete_task on
\* a running row, take documented edges.
LEMMA StatementEdges ==
  ASSUME NEW r \in Row, NEW w \in Workers
  PROVE  /\ r.status = "pending" => Edge(r, ClaimRow(r, w)) /\ Edge(r, CancelRow(r))
         /\ r.status = "running" => Edge(r, RecoverRow(r)) /\ Edge(r, CompleteRow(r))
         /\ r.status = "failed" => Edge(r, RequeueRow(r))
         /\ r.status \notin Terminal => Edge(r, ExpireRow(r))
         /\ Edge(r, HeartbeatRow(r)) /\ Edge(r, AgeRow(r))
<1>0. r.attempts \in Nat /\ r.status \in Statuses
  BY DEF Row
<1>1. r.status = "pending" => Edge(r, ClaimRow(r, w)) /\ Edge(r, CancelRow(r))
  BY DEF Row, ClaimRow, CancelRow, Edge
<1>2. r.status = "running" => Edge(r, RecoverRow(r)) /\ Edge(r, CompleteRow(r))
  BY DEF Row, RecoverRow, CompleteRow, Edge
<1>3. r.status = "failed" => Edge(r, RequeueRow(r))
  BY DEF Row, RequeueRow, Edge
<1>4. r.status \notin Terminal => Edge(r, ExpireRow(r))
  BY <1>0 DEF Row, ExpireRow, Edge, Terminal, Statuses
<1>5. Edge(r, HeartbeatRow(r)) /\ Edge(r, AgeRow(r))
  BY AgeRowType DEF Row, HeartbeatRow, Edge
<1> QED  BY <1>1, <1>2, <1>3, <1>4, <1>5

\* No statement leaves NULL behind.
LEMMA StatementsLeaveRows ==
  ASSUME NEW r \in Row, NEW w \in Workers
  PROVE  /\ ClaimRow(r, w) # NULL /\ CancelRow(r) # NULL /\ RecoverRow(r) # NULL
         /\ CompleteRow(r) # NULL /\ RequeueRow(r) # NULL /\ ExpireRow(r) # NULL
         /\ HeartbeatRow(r) # NULL /\ AgeRow(r) # NULL
BY ClaimRowType, CompleteRowType, BackToPendingType, FinishRowType, HeartbeatRowType,
   AgeRowType, RowNotNull, 0 \in Nat

\* A row that one statement leaves alone, deletes or takes along an edge.
LEMMA EdgeStep ==
  ASSUME RInv, TypeOK', UNCHANGED nextId, NEW t \in TaskIds,
         \/ tasks'[t] = tasks[t]
         \/ tasks'[t] = NULL
         \/ tasks[t] # NULL /\ tasks'[t] # NULL /\ Edge(tasks[t], tasks'[t])
  PROVE  Lives(t)
<1>1. t \in Nat /\ nextId \in Nat
  BY ConstantAssumption DEF RInv, TypeOK, TaskIds
<1>2. t >= nextId => tasks[t] = NULL
  BY DEF RInv
<1> QED  BY <1>1, <1>2 DEF Lives

\* claim_task, its answer lost or not.
LEMMA ClaimLives ==
  ASSUME RInv, TypeOK', UNCHANGED nextId, NEW w \in Workers, NEW u \in TaskIds,
         IsNextClaim(tasks, u), tasks' = [tasks EXCEPT ![u] = ClaimRow(@, w)],
         NEW t \in TaskIds
  PROVE  Lives(t)
<1>1. tasks'[t] = IF t = u THEN ClaimRow(tasks[t], w) ELSE tasks[t]
  BY DEF RInv, TypeOK, Table
<1>2. CASE t = u
  <2>1. tasks[t] # NULL /\ tasks[t].status = "pending" /\ tasks[t] \in Row
    BY <1>2 DEF IsNextClaim, Claimable, RInv, TypeOK, Table
  <2>2. ClaimRow(tasks[t], w) # NULL /\ Edge(tasks[t], ClaimRow(tasks[t], w))
    BY <2>1, StatementEdges, StatementsLeaveRows
  <2> QED  BY <1>1, <1>2, <2>1, <2>2, EdgeStep
<1>3. CASE t # u
  BY <1>1, <1>3, EdgeStep
<1> QED  BY <1>2, <1>3

\* The main coroutine, the signal, a crash, the heartbeat and the reaper.
LEMMA LoopLives ==
  ASSUME RInv, TypeOK', NEW w \in Workers, NEW t \in TaskIds,
         LoopStep(w) \/ Heartbeat(w) \/ Recover(w) \/ Signal(w) \/ Crash(w)
  PROVE  Lives(t)
<1>0. tasks[t] = NULL \/ tasks[t] \in Row
  BY DEF RInv, TypeOK, Table
<1>1. CASE LoopTop(w) \/ Acquire(w) \/ ClaimNone(w) \/ Drain(w) \/ Signal(w) \/ Crash(w)
  <2>1. UNCHANGED <<tasks, nextId>>
    BY <1>1 DEF LoopTop, Acquire, ClaimNone, Drain, Signal, Crash, dbVars
  <2> QED  BY <2>1, EdgeStep
<1>2. CASE ClaimFound(w)
  BY <1>2, ClaimLives DEF ClaimFound
<1>3. CASE Heartbeat(w)
  <2>1. UNCHANGED nextId /\ (tasks'[t] = tasks[t]
                              \/ (tasks[t] # NULL /\ tasks'[t] = HeartbeatRow(tasks[t])))
    BY <1>3 DEF Heartbeat, HeartbeatTable
  <2>2. tasks[t] # NULL => /\ HeartbeatRow(tasks[t]) # NULL
                           /\ Edge(tasks[t], HeartbeatRow(tasks[t]))
    BY <1>0, StatementEdges, StatementsLeaveRows
  <2> QED  BY <2>1, <2>2, EdgeStep
<1>4. CASE Recover(w)
  <2>1. UNCHANGED nextId
        /\ tasks'[t] = IF Stale(tasks[t]) THEN RecoverRow(tasks[t]) ELSE tasks[t]
    BY <1>4 DEF Recover, RecoverTable
  <2>2. Stale(tasks[t]) => /\ tasks[t] # NULL /\ RecoverRow(tasks[t]) # NULL
                           /\ Edge(tasks[t], RecoverRow(tasks[t]))
    BY <1>0, StatementEdges, StatementsLeaveRows DEF Stale
  <2> QED  BY <2>1, <2>2, EdgeStep
<1> QED  BY <1>1, <1>2, <1>3, <1>4 DEF LoopStep

\* A statement of a coroutine on its own row, or none.  The row is running, or
\* the write is late: it is here that the invariant is needed, which says what
\* the row can be and that the attempts fail_task has read are still its own.
LEMMA WriteLives ==
  ASSUME RInv, TypeOK', NEW e \in Slots, execs[e] # NULL, execs'[e] # execs[e],
         UNCHANGED nextId, NEW t \in TaskIds,
         \/ tasks'[t] = tasks[t]
         \/ /\ t = execs[e].task /\ tasks[t] # NULL /\ execs[e].pc = "completing"
            /\ tasks'[t] = CompleteRow(tasks[t])
         \/ /\ t = execs[e].task /\ tasks[t] # NULL /\ execs[e].pc = "failwrite"
            /\ tasks'[t] = FailRow(tasks[t], execs[e].att)
  PROVE  Lives(t) \/ LateWrite(t)
<1>1. CASE tasks'[t] = tasks[t]
  BY <1>1, EdgeStep
<1>2. ASSUME t = execs[e].task, tasks[t] # NULL
      PROVE  /\ t < nextId /\ tasks[t] \in Row /\ Owns(e[1], execs[e], tasks[t])
             /\ Stage(t) = tasks[t].status /\ Attempts(t) = tasks[t].attempts
             /\ tasks'[t] # NULL => /\ Stage(t)' = tasks'[t].status
                                    /\ Attempts(t)' = tasks'[t].attempts
  <2>1. t < nextId /\ tasks[t] \in Row /\ Owns(e[1], execs[e], tasks[t])
    BY <1>2 DEF RInv, ExecOwnsRow, TypeOK, Table
  <2> QED  BY <1>2, <2>1, StageIs, NextStageIs DEF RInv
<1>3. CASE /\ t = execs[e].task /\ tasks[t] # NULL /\ execs[e].pc = "completing"
           /\ tasks'[t] = CompleteRow(tasks[t])
  <2>1. ASSUME NEW r \in Row
        PROVE  CompleteRow(r).attempts = r.attempts /\ CompleteRow(r).status = "completed"
    BY DEF CompleteRow, Row
  <2>2. tasks[t] \in Row /\ CompleteRow(tasks[t]) # NULL
    BY <1>2, <1>3, CompleteRowType, RowNotNull
  <2>3. tasks[t].status \in {"running", "expired"}
    BY <1>2, <1>3 DEF Owns
  <2>4. CASE tasks[t].status = "running"
    <3>1. Edge(tasks[t], tasks'[t])
      BY <1>3, <2>1, <2>2, <2>4 DEF Edge
    <3> QED  BY <1>3, <2>2, <3>1, EdgeStep
  <2>5. CASE tasks[t].status = "expired"
    BY <1>2, <1>3, <2>1, <2>2, <2>5 DEF LateWrite
  <2> QED  BY <2>3, <2>4, <2>5
<1>4. CASE /\ t = execs[e].task /\ tasks[t] # NULL /\ execs[e].pc = "failwrite"
           /\ tasks'[t] = FailRow(tasks[t], execs[e].att)
  <2>1. ASSUME NEW r \in Row, NEW a \in Nat
        PROVE  /\ FailRow(r, a) # NULL /\ FailRow(r, a).attempts = a + 1
               /\ FailRow(r, a).status \in {"pending", "failed"}
    <3>1. FailRow(r, a) # NULL
      BY FailRowType, RowNotNull
    <3> QED  BY <3>1 DEF FailRow, Row
  <2>2. tasks[t] \in Row /\ tasks[t].attempts \in Nat /\ execs[e].att = tasks[t].attempts
    BY <1>2, <1>4 DEF Owns, Row
  <2>3. /\ tasks'[t] # NULL /\ tasks'[t].attempts = tasks[t].attempts + 1
        /\ tasks'[t].status \in {"pending", "failed"}
    BY <1>4, <2>1, <2>2
  <2>4. tasks[t].status \in {"running", "expired", "completed"}
    BY <1>2, <1>4 DEF Owns
  <2>5. CASE tasks[t].status = "running"
    <3>1. Edge(tasks[t], tasks'[t])
      BY <2>3, <2>5 DEF Edge
    <3> QED  BY <1>4, <2>3, <3>1, EdgeStep
  <2>6. CASE tasks[t].status \in {"expired", "completed"}
    BY <1>2, <1>4, <2>3, <2>6 DEF LateWrite
  <2> QED  BY <2>4, <2>5, <2>6
<1> QED  BY <1>1, <1>3, <1>4

\* A coroutine that goes on is not what it was.
LEMMA OnwardMoves ==
  ASSUME NEW x \in Exec, NEW a \in Nat, NEW c \in {"timeout", "error"}
  PROVE  /\ x.pc # "failing" => ToFail(x, c) # x
         /\ ToFail(x, c) # NULL
<1>1. ToFail(x, c).pc = "failing"
  BY DEF ToFail, Exec
<1> QED  BY <1>1, ExecTypes, WorkerAssumption

\* process_task.
LEMMA ExecLives ==
  ASSUME Regime, RInv, TypeOK', NEW e \in Slots, NEW t \in TaskIds, ExecStep(e)
  PROVE  Lives(t) \/ LateWrite(t)
<1>0. TypeOK /\ execs[e] # NULL /\ UNCHANGED nextId
  BY DEF RInv, ExecStep, ChildOk, ChildError, ChildRetry, Timeout, CompleteWrite, FailRead,
         FailWrite, At, dbVars
<1>1. CASE ChildOk(e) \/ ChildError(e) \/ Timeout(e) \/ FailRead(e)
  <2>1. UNCHANGED tasks
    BY <1>1 DEF ChildOk, ChildError, Timeout, FailRead, dbVars
  <2> QED  BY <1>0, <2>1, EdgeStep
<1>2. CASE CompleteWrite(e)
  <2>1. execs'[e] = NULL
    BY <1>0, <1>2 DEF CompleteWrite, EndExec, TypeOK
  <2>2. \/ tasks'[t] = tasks[t]
        \/ /\ t = execs[e].task /\ tasks[t] # NULL /\ execs[e].pc = "completing"
           /\ tasks'[t] = CompleteRow(tasks[t])
    BY <1>0, <1>2 DEF CompleteWrite, At, TypeOK, Table
  <2> QED  BY <1>0, <2>1, <2>2, WriteLives
<1>3. CASE FailWrite(e)
  <2>1. execs'[e] = NULL
    BY <1>0, <1>3 DEF FailWrite, EndExec, TypeOK
  <2>2. \/ tasks'[t] = tasks[t]
        \/ /\ t = execs[e].task /\ tasks[t] # NULL /\ execs[e].pc = "failwrite"
           /\ tasks'[t] = FailRow(tasks[t], execs[e].att)
    BY <1>0, <1>3 DEF FailWrite, At, TypeOK, Table
  <2> QED  BY <1>0, <2>1, <2>2, WriteLives
<1> QED  BY <1>1, <1>2, <1>3 DEF ExecStep, ChildRetry, Regime

\* The failures of the database.
LEMMA FaultLives ==
  ASSUME RInv, TypeOK', NEW t \in TaskIds, FaultStep
  PROVE  Lives(t) \/ LateWrite(t)
<1>1. ASSUME NEW w \in Workers, ClaimFault(w) \/ CancelLoop(w) PROVE Lives(t)
  <2>1. UNCHANGED nextId /\ LoseClaim(w)
    BY <1>1 DEF ClaimFault, CancelLoop
  <2>2. CASE UNCHANGED tasks
    BY <2>1, <2>2, EdgeStep
  <2>3. CASE ~UNCHANGED tasks
    BY <2>1, <2>3, ClaimLives DEF LoseClaim
  <2> QED  BY <2>2, <2>3
<1>2. ASSUME NEW e \in Slots, CompleteFault(e) PROVE Lives(t) \/ LateWrite(t)
  <2>0. TypeOK /\ execs[e] # NULL /\ execs[e].pc = "completing" /\ UNCHANGED nextId
    BY <1>2 DEF RInv, CompleteFault, At
  <2>1. PICK c \in {"timeout", "error"} : execs' = [execs EXCEPT ![e] = ToFail(execs[e], c)]
    BY <1>2 DEF CompleteFault
  <2>2. \/ tasks'[t] = tasks[t]
        \/ /\ t = execs[e].task /\ tasks[t] # NULL /\ execs[e].pc = "completing"
           /\ tasks'[t] = CompleteRow(tasks[t])
    BY <1>2, <2>0 DEF CompleteFault, TypeOK, Table
  <2>3. execs[e] \in Exec /\ execs'[e] = ToFail(execs[e], c)
    BY <2>0, <2>1 DEF TypeOK
  <2>4. execs'[e] # execs[e]
    BY <2>0, <2>3, OnwardMoves, 0 \in Nat
  <2> QED  BY <2>0, <2>2, <2>4, WriteLives
<1>3. ASSUME NEW e \in Slots, FailFault(e) PROVE Lives(t) \/ LateWrite(t)
  <2>0. TypeOK /\ execs[e] # NULL /\ UNCHANGED nextId /\ execs'[e] = NULL
    BY <1>3 DEF RInv, FailFault, EndExec, At, TypeOK
  <2>1. \/ tasks'[t] = tasks[t]
        \/ /\ t = execs[e].task /\ tasks[t] # NULL /\ execs[e].pc = "failwrite"
           /\ tasks'[t] = FailRow(tasks[t], execs[e].att)
    BY <1>3, <2>0 DEF FailFault, At, TypeOK, Table
  <2> QED  BY <2>0, <2>1, WriteLives
<1> QED  BY <1>1, <1>2, <1>3 DEF FaultStep

\* Orphans, clients, the administrator and time.
LEMMA OtherLives ==
  ASSUME Regime, RInv, TypeOK', NEW t \in TaskIds,
         \/ \E u \in TaskIds : OrphanExit(u) \/ OrphanRetry(u)
         \/ \E o \in Options, d \in Delays : Enqueue(o, d)
         \/ AdminStep
         \/ Tick
  PROVE  Lives(t)
<1>0. TypeOK /\ (tasks[t] = NULL \/ tasks[t] \in Row) /\ t \in Nat /\ nextId \in Nat
  BY ConstantAssumption DEF RInv, TypeOK, Table, TaskIds
<1>1. ASSUME NEW u \in TaskIds, OrphanExit(u) \/ OrphanRetry(u) PROVE Lives(t)
  <2>1. UNCHANGED <<tasks, nextId>>
    BY <1>1 DEF OrphanExit, OrphanRetry, Regime, dbVars
  <2> QED  BY <2>1, EdgeStep
<1>2. ASSUME NEW o \in Options, NEW d \in Delays, Enqueue(o, d) PROVE Lives(t)
  <2>1. /\ nextId' = nextId + 1
        /\ tasks'[t] = IF t = nextId THEN NewRow(o, d) ELSE tasks[t]
    BY <1>0, <1>2 DEF Enqueue, TypeOK, Table, TaskIds
  <2>2. CASE t = nextId
    <3>1. tasks[t] = NULL
      BY <1>0, <2>2 DEF RInv
    <3>2. tasks'[t] # NULL
      BY <2>1, <2>2, NewRowType, RowNotNull, WorkerAssumption
    <3>3. tasks'[t].status = "pending" /\ tasks'[t].attempts = 0
      BY <2>1, <2>2 DEF NewRow
    <3>4. t >= nextId /\ t < nextId'
      BY <1>0, <2>1, <2>2
    <3> QED  BY <3>1, <3>2, <3>3, <3>4 DEF Lives
  <2>3. CASE t # nextId
    <3>1. tasks'[t] = tasks[t] /\ (t < nextId' <=> t < nextId)
      BY <1>0, <2>1, <2>3
    <3> QED  BY <3>1 DEF Lives
  <2> QED  BY <2>2, <2>3
<1>3. ASSUME NEW u \in TaskIds, Requeue(u) \/ Cancel(u) PROVE Lives(t)
  <2>1. \/ tasks'[t] = tasks[t]
        \/ /\ tasks[t] # NULL /\ tasks[t].status = "failed"
           /\ tasks'[t] = RequeueRow(tasks[t])
        \/ /\ tasks[t] # NULL /\ tasks[t].status = "pending"
           /\ tasks'[t] = CancelRow(tasks[t])
    BY <1>0, <1>3 DEF Requeue, Cancel, TypeOK, Table
  <2>2. UNCHANGED nextId
    BY <1>3 DEF Requeue, Cancel
  <2>3. ASSUME NEW r \in Row
        PROVE  /\ r.status = "failed" => Edge(r, RequeueRow(r))
               /\ r.status = "pending" => Edge(r, CancelRow(r))
               /\ RequeueRow(r) # NULL /\ CancelRow(r) # NULL
    <3>1. RequeueRow(r) # NULL /\ CancelRow(r) # NULL
      BY BackToPendingType, FinishRowType, RowNotNull, 0 \in Nat
    <3> QED  BY <3>1 DEF Row, RequeueRow, CancelRow, Edge
  <2> QED  BY <1>0, <2>1, <2>2, <2>3, EdgeStep
<1>4. ASSUME NEW S \in SUBSET TaskIds, Delete(S) PROVE Lives(t)
  <2>1. UNCHANGED nextId /\ (tasks'[t] = tasks[t] \/ tasks'[t] = NULL)
    BY <1>4 DEF Delete, DeleteFrom
  <2> QED  BY <2>1, EdgeStep
<1>5. CASE Cleanup
  <2>1. /\ UNCHANGED nextId
        /\ \/ tasks'[t] = tasks[t]
           \/ /\ tasks[t] # NULL /\ tasks[t].status \notin Terminal
              /\ tasks'[t] = ExpireRow(tasks[t])
    BY <1>5 DEF Cleanup, ExpireTable, TtlExpired
  <2>2. ASSUME NEW r \in Row, r.status \notin Terminal
        PROVE  Edge(r, ExpireRow(r)) /\ ExpireRow(r) # NULL
    <3>1. ExpireRow(r) # NULL
      BY FinishRowType, RowNotNull
    <3> QED  BY <2>2, <3>1 DEF ExpireRow, Row, Edge, Terminal, Statuses
  <2> QED  BY <1>0, <2>1, <2>2, EdgeStep
<1>6. CASE Tick
  <2>1. /\ UNCHANGED nextId
        /\ tasks'[t] = IF tasks[t] = NULL THEN NULL ELSE AgeRow(tasks[t])
    BY <1>6 DEF Tick, AgeTable
  <2>2. ASSUME NEW r \in Row
        PROVE  AgeRow(r) # NULL /\ Edge(r, AgeRow(r))
    BY AgeRowType, RowNotNull DEF Edge
  <2> QED  BY <1>0, <2>1, <2>2, EdgeStep
<1> QED  BY <1>1, <1>2, <1>3, <1>4, <1>5, <1>6 DEF AdminStep

\* While no execution outlives the reaper's threshold and no task function
\* raises RetryError, the status and the counter that the API shows of a task
\* follow the documented life but for the late writes of the coroutine that
\* has the task in hand: whatever crashes, lost answers, abandoned children,
\* requests and reapers there are, nobody else takes a task off its path.
THEOREM TasksStrayByLateWritesOnly == Regime => (Spec => OnlyLateWritesStray)
<1> SUFFICES ASSUME Regime PROVE Spec => OnlyLateWritesStray
  OBVIOUS
<1>1. ASSUME RInv, RInv', [Next]_vars
      PROVE  [\A t \in TaskIds : Lifecycle!Move(t) \/ Lifecycle!Stay(t) \/ LateWrite(t)]_vars
  <2>0. TypeOK /\ TypeOK'
    BY <1>1 DEF RInv
  <2>1. CASE UNCHANGED vars
    BY <2>1
  <2>2. CASE Next
    <3>1. ASSUME NEW t \in TaskIds PROVE Lives(t) \/ LateWrite(t)
      BY <1>1, <2>0, <2>2, LoopLives, ExecLives, FaultLives, OtherLives DEF Next
    <3>2. ASSUME NEW t \in TaskIds
          PROVE  Lifecycle!Move(t) \/ Lifecycle!Stay(t) \/ LateWrite(t)
      BY <2>0, <3>1, LifeIsDocumented
    <3> QED  BY <3>2
  <2> QED  BY <1>1, <2>1, <2>2
<1> QED  BY <1>1, SpecRInv, PTL DEF Spec, OnlyLateWritesStray

-----------------------------------------------------------------------------
(* The use of the storage interface                                        *)

\* The statements that StorageAPI names are those of TaskRow.
LEMMA SameStatements ==
  /\ Storage!TaskIds = TaskIds
  /\ \A T, t : Storage!IsNextClaim(T, t) <=> IsNextClaim(T, t)
  /\ \A r, w : Storage!ClaimRow(r, w) = ClaimRow(r, w)
  /\ \A r, a : Storage!FailRow(r, a) = FailRow(r, a)
  /\ \A r, d : Storage!RetryRow(r, d) = RetryRow(r, d)
  /\ \A o, d : Storage!NewRow(o, d) = NewRow(o, d)
  /\ \A r : /\ Storage!CompleteRow(r) = CompleteRow(r)
            /\ Storage!RequeueRow(r) = RequeueRow(r)
            /\ Storage!CancelRow(r) = CancelRow(r)
            /\ Storage!Stale(r) <=> Stale(r)
  /\ \A T, w : Storage!HeartbeatTable(T, w) = HeartbeatTable(T, w)
  /\ \A T, S : Storage!DeleteFrom(T, S) = DeleteFrom(T, S)
  /\ \A T : /\ Storage!RecoverTable(T) = RecoverTable(T)
            /\ Storage!ExpireTable(T) = ExpireTable(T)
            /\ Storage!AgeTable(T) = AgeTable(T)
<1>1. Storage!TaskIds = TaskIds
  BY DEF Storage!TaskIds, TaskIds
<1>2. \A r : Storage!Claimable(r) <=> Claimable(r)
  BY DEF Storage!Claimable, Claimable
<1>3. \A T, t : Storage!IsNextClaim(T, t) <=> IsNextClaim(T, t)
  BY <1>1, <1>2 DEF Storage!IsNextClaim, IsNextClaim
<1>4. /\ \A r, w : Storage!ClaimRow(r, w) = ClaimRow(r, w)
      /\ \A r, d : Storage!RetryRow(r, d) = RetryRow(r, d)
      /\ \A o, d : Storage!NewRow(o, d) = NewRow(o, d)
      /\ \A r : /\ Storage!CompleteRow(r) = CompleteRow(r)
                /\ Storage!RequeueRow(r) = RequeueRow(r)
                /\ Storage!CancelRow(r) = CancelRow(r)
  BY DEF Storage!ClaimRow, ClaimRow, Storage!RetryRow, RetryRow, Storage!NewRow, NewRow,
         Storage!CompleteRow, CompleteRow, Storage!RequeueRow, RequeueRow,
         Storage!CancelRow, CancelRow
<1>5. \A o, a : Storage!RetryDelay(o, a) = RetryDelay(o, a)
  BY DEF Storage!RetryDelay, RetryDelay, Storage!RetryBackoff, RetryBackoff
<1>6. \A r, a : Storage!FailRow(r, a) = FailRow(r, a)
  BY <1>5 DEF Storage!FailRow, FailRow
<1>7. \A r : /\ Storage!Stale(r) <=> Stale(r)
             /\ Storage!TtlExpired(r) <=> TtlExpired(r)
             /\ Storage!RecoverRow(r) = RecoverRow(r)
             /\ Storage!ExpireRow(r) = ExpireRow(r)
             /\ Storage!HeartbeatRow(r) = HeartbeatRow(r)
             /\ Storage!AgeRow(r) = AgeRow(r)
  BY DEF Storage!Stale, Stale, Storage!TtlExpired, TtlExpired, Storage!RecoverRow, RecoverRow,
         Storage!ExpireRow, ExpireRow, Storage!HeartbeatRow, HeartbeatRow, Storage!AgeRow, AgeRow,
         Storage!Terminal, Terminal
<1>8. /\ \A T, w : Storage!HeartbeatTable(T, w) = HeartbeatTable(T, w)
      /\ \A T, S : Storage!DeleteFrom(T, S) = DeleteFrom(T, S)
      /\ \A T : /\ Storage!RecoverTable(T) = RecoverTable(T)
                /\ Storage!ExpireTable(T) = ExpireTable(T)
                /\ Storage!AgeTable(T) = AgeTable(T)
  BY <1>1, <1>7 DEF Storage!HeartbeatTable, HeartbeatTable, Storage!DeleteFrom, DeleteFrom,
     Storage!RecoverTable, RecoverTable, Storage!ExpireTable, ExpireTable,
     Storage!AgeTable, AgeTable
<1> QED  BY <1>1, <1>3, <1>4, <1>6, <1>7, <1>8


\* What the storage layer sees of a step: one of its operations, or nothing.
Served == Storage!Next \/ UNCHANGED <<tasks, nextId, Failing>>

\* A coroutine that is not between the statements of fail_task, before or
\* after, changes nothing of what the calls in flight have read.
LEMMA FailingKept ==
  ASSUME TypeOK, NEW e \in Slots, ~At(e, "failwrite"), NEW x,
         x = NULL \/ x.pc # "failwrite", execs' = [execs EXCEPT ![e] = x]
  PROVE  Failing' = Failing
<1>1. execs'[e] = x /\ \A f \in Slots : f # e => execs'[f] = execs[f]
  BY DEF TypeOK
<1>2. At(e, "failwrite")' <=> At(e, "failwrite")
  BY <1>1 DEF At
<1>3. ASSUME NEW f \in Slots, f # e
      PROVE  /\ At(f, "failwrite")' <=> At(f, "failwrite")
             /\ execs'[f] = execs[f]
  BY <1>1, <1>3 DEF At
<1> QED  BY <1>2, <1>3 DEF Failing

\* A coroutine that ends leaves no call of fail_task in its slot.
LEMMA FailingEnds ==
  ASSUME TypeOK, NEW e \in Slots, execs' = [execs EXCEPT ![e] = NULL]
  PROVE  /\ Failing' = [Failing EXCEPT ![e] = NULL]
         /\ Failing' = [f \in Slots |-> IF f \in {e} THEN NULL ELSE Failing[f]]
<1>1. execs'[e] = NULL /\ \A f \in Slots : f # e => execs'[f] = execs[f]
  BY DEF TypeOK
<1>2. ~At(e, "failwrite")'
  BY <1>1 DEF At
<1>3. ASSUME NEW f \in Slots, f # e
      PROVE  At(f, "failwrite")' <=> At(f, "failwrite")
  BY <1>1, <1>3 DEF At
<1>4. Failing' = [f \in Slots |-> IF f = e THEN NULL ELSE Failing[f]]
  BY <1>1, <1>2, <1>3 DEF Failing
<1> QED  BY <1>4 DEF Failing

\* The statements on one row, as operations of the storage layer.
LEMMA RowServed ==
  ASSUME NEW t \in TaskIds, tasks[t] # NULL, UNCHANGED <<nextId, Failing>>,
         \/ tasks' = [tasks EXCEPT ![t] = CompleteRow(@)]
         \/ tasks[t].status = "failed" /\ tasks' = [tasks EXCEPT ![t] = RequeueRow(@)]
         \/ tasks[t].status = "pending" /\ tasks' = [tasks EXCEPT ![t] = CancelRow(@)]
         \/ /\ tasks[t].attempts < MaxAttempts
            /\ tasks' = [tasks EXCEPT ![t] = RetryRow(@, Countdown)]
  PROVE  Storage!Next
<1>1. CASE tasks' = [tasks EXCEPT ![t] = CompleteRow(@)]
  <2>1. Storage!Complete(t)
    BY <1>1, SameStatements DEF Storage!Complete
  <2> QED  BY <2>1, SameStatements DEF Storage!Next, Storage!TaskStep
<1>2. CASE tasks[t].status = "failed" /\ tasks' = [tasks EXCEPT ![t] = RequeueRow(@)]
  <2>1. Storage!Requeue(t)
    BY <1>2, SameStatements DEF Storage!Requeue
  <2> QED  BY <2>1, SameStatements DEF Storage!Next, Storage!TaskStep
<1>3. CASE tasks[t].status = "pending" /\ tasks' = [tasks EXCEPT ![t] = CancelRow(@)]
  <2>1. Storage!Cancel(t)
    BY <1>3, SameStatements DEF Storage!Cancel
  <2> QED  BY <2>1, SameStatements DEF Storage!Next, Storage!TaskStep
<1>4. CASE /\ tasks[t].attempts < MaxAttempts
           /\ tasks' = [tasks EXCEPT ![t] = RetryRow(@, Countdown)]
  <2>1. Storage!ManualRetry(t, Countdown)
    BY <1>4, SameStatements DEF Storage!ManualRetry
  <2> QED  BY <2>1, SameStatements DEF Storage!Next, Storage!TaskStep
<1> QED  BY <1>1, <1>2, <1>3, <1>4

\* claim_task, its answer lost or not.
LEMMA ClaimServed ==
  ASSUME NEW w \in Workers, UNCHANGED <<nextId, Failing>>, NEW t \in TaskIds,
         IsNextClaim(tasks, t), tasks' = [tasks EXCEPT ![t] = ClaimRow(@, w)]
  PROVE  Storage!Next
<1>1. Storage!Claim(w)
  BY SameStatements DEF Storage!Claim
<1> QED  BY <1>1 DEF Storage!Next

\* fail_task's second statement, and the calls that end without it.
LEMMA FailServed ==
  ASSUME TypeOK, NEW e \in Slots, execs' = [execs EXCEPT ![e] = NULL], UNCHANGED nextId,
         \/ UNCHANGED tasks
         \/ /\ At(e, "failwrite")
            /\ LET t == execs[e].task
               IN tasks' = IF tasks[t] = NULL THEN tasks
                           ELSE [tasks EXCEPT ![t] = FailRow(@, execs[e].att)]
  PROVE  Storage!Next
<1>1. CASE UNCHANGED tasks
  <2>1. Storage!FailAbort({e})
    BY <1>1, FailingEnds DEF Storage!FailAbort
  <2> QED  BY <2>1 DEF Storage!Next
<1>2. CASE /\ At(e, "failwrite")
           /\ LET t == execs[e].task
              IN tasks' = IF tasks[t] = NULL THEN tasks
                          ELSE [tasks EXCEPT ![t] = FailRow(@, execs[e].att)]
  <2>1. Failing[e] = [task |-> execs[e].task, attempts |-> execs[e].att]
    BY <1>2 DEF Failing
  <2>2. Failing[e] # NULL
    <3>1. execs[e] \in Exec
      BY <1>2 DEF At, TypeOK
    <3> QED  BY <2>1, <3>1, WorkerAssumption DEF Exec
  <2>3. Storage!FailWrite(e)
    <3>1. Failing[e].task = execs[e].task /\ Failing[e].attempts = execs[e].att
      BY <2>1
    <3>2. \A r, a : Storage!FailRow(r, a) = FailRow(r, a)
      BY SameStatements
    <3>3. Failing' = [Failing EXCEPT ![e] = NULL]
      BY FailingEnds
    <3>4. tasks' = IF tasks[Failing[e].task] = NULL THEN tasks
                   ELSE [tasks EXCEPT ![Failing[e].task] = Storage!FailRow(@, Failing[e].attempts)]
      BY <1>2, <3>1, <3>2
    <3> QED  BY <2>2, <3>3, <3>4 DEF Storage!FailWrite
  <2> QED  BY <2>3 DEF Storage!Next
<1> QED  BY <1>1, <1>2

\* A worker that stops or dies: its calls of fail_task end without their UPDATE.
LEMMA AbandonServed ==
  ASSUME NEW w \in Workers, Abandon(SlotsOf(w)), UNCHANGED dbVars
  PROVE  Storage!Next
<1>1. \A e \in Slots : execs'[e] = IF e \in SlotsOf(w) THEN NULL ELSE execs[e]
  BY DEF Abandon
<1>2. \A e \in Slots : At(e, "failwrite")' <=> e \notin SlotsOf(w) /\ At(e, "failwrite")
  BY <1>1 DEF At
<1>3. Failing' = [e \in Slots |-> IF e \in SlotsOf(w) THEN NULL ELSE Failing[e]]
  BY <1>1, <1>2 DEF Failing
<1>4. Storage!FailAbort(SlotsOf(w)) /\ SlotsOf(w) \in SUBSET Slots
  BY <1>3 DEF Storage!FailAbort, SlotsOf, dbVars
<1> QED  BY <1>4 DEF Storage!Next


\* The main coroutine, the signal, a crash, the heartbeat and the reaper.
LEMMA LoopServed ==
  ASSUME TypeOK, NEW w \in Workers,
         LoopStep(w) \/ Heartbeat(w) \/ Recover(w) \/ Signal(w) \/ Crash(w)
  PROVE  Served
<1>1. CASE LoopTop(w) \/ Acquire(w) \/ ClaimNone(w) \/ Signal(w)
  <2>1. UNCHANGED <<tasks, nextId, execs>>
    BY <1>1 DEF LoopTop, Acquire, ClaimNone, Signal, dbVars
  <2> QED  BY <2>1 DEF Served, Failing, At
<1>2. CASE ClaimFound(w)
  <2>1. PICK t \in TaskIds, i \in 1..Concurrency :
          /\ IsNextClaim(tasks, t)
          /\ execs[<<w, i>>] = NULL
          /\ tasks' = [tasks EXCEPT ![t] = ClaimRow(@, w)]
          /\ execs' = [execs EXCEPT ![<<w, i>>] = NewExec(t)]
    BY <1>2 DEF ClaimFound
  <2>2. PICK e \in Slots : e = <<w, i>>
    BY DEF Slots
  <2>3. NewExec(t).pc # "failwrite"
    BY DEF NewExec
  <2>4. Failing' = Failing
    BY <2>1, <2>2, <2>3, FailingKept DEF At
  <2>5. UNCHANGED nextId
    BY <1>2 DEF ClaimFound
  <2> QED  BY <2>1, <2>4, <2>5, ClaimServed DEF Served
<1>3. CASE Drain(w) \/ Crash(w)
  BY <1>3, AbandonServed DEF Drain, Crash, Served
<1>4. CASE Heartbeat(w)
  <2>1. UNCHANGED <<nextId, execs>>
    BY <1>4 DEF Heartbeat
  <2>2. Failing' = Failing
    BY <2>1 DEF Failing, At
  <2>3. Storage!Heartbeat(w)
    BY <1>4, <2>1, <2>2, SameStatements DEF Heartbeat, Storage!Heartbeat
  <2> QED  BY <2>3 DEF Served, Storage!Next
<1>5. CASE Recover(w)
  <2>1. UNCHANGED <<nextId, execs>>
    BY <1>5 DEF Recover
  <2>2. Failing' = Failing
    BY <2>1 DEF Failing, At
  <2>3. Storage!Recover
    BY <1>5, <2>1, <2>2, SameStatements DEF Recover, Storage!Recover
  <2> QED  BY <2>3 DEF Served, Storage!Next
<1> QED  BY <1>1, <1>2, <1>3, <1>4, <1>5 DEF LoopStep

\* process_task.
LEMMA ExecServed ==
  ASSUME TypeOK, NEW e \in Slots, ExecStep(e)
  PROVE  Served
<1>0. execs[e] # NULL /\ execs[e] \in Exec /\ UNCHANGED nextId
  BY DEF ExecStep, ChildOk, ChildError, ChildRetry, Timeout, CompleteWrite, FailRead,
         FailWrite, At, dbVars, TypeOK
<1>1. PICK t \in TaskIds : t = execs[e].task
  BY <1>0 DEF Exec
<1>2. CASE ChildOk(e) \/ ChildError(e) \/ ChildRetry(e) \/ Timeout(e)
  <2>1. \/ execs' = [execs EXCEPT ![e] = ToComplete(execs[e])]
        \/ execs' = [execs EXCEPT ![e] = ToFail(execs[e], "error")]
        \/ execs' = [execs EXCEPT ![e] = ToFail(execs[e], "timeout")]
    BY <1>2 DEF ChildOk, ChildError, ChildRetry, Timeout
  <2>2. \A x \in {ToComplete(execs[e]), ToFail(execs[e], "error"), ToFail(execs[e], "timeout")} :
          x.pc # "failwrite"
    BY <1>0, ExecTypes, 0 \in Nat
  <2>3. ~At(e, "failwrite")
    BY <1>2 DEF ChildOk, ChildError, ChildRetry, Timeout, At
  <2>4. Failing' = Failing
    BY <2>1, <2>2, <2>3, FailingKept
  <2>5. \/ UNCHANGED tasks
        \/ /\ tasks[t] # NULL /\ tasks[t].attempts < MaxAttempts
           /\ tasks' = [tasks EXCEPT ![t] = RetryRow(@, Countdown)]
    BY <1>1, <1>2 DEF ChildOk, ChildError, ChildRetry, Timeout, ManualRetry, dbVars
  <2> QED  BY <1>0, <2>4, <2>5, RowServed DEF Served
<1>3. CASE CompleteWrite(e)
  <2>1. execs' = [execs EXCEPT ![e] = NULL] /\ ~At(e, "failwrite")
    BY <1>3 DEF CompleteWrite, EndExec, At
  <2>2. Failing' = Failing
    BY <2>1, FailingKept
  <2>3. UNCHANGED tasks \/ (tasks[t] # NULL /\ tasks' = [tasks EXCEPT ![t] = CompleteRow(@)])
    BY <1>1, <1>3 DEF CompleteWrite
  <2> QED  BY <1>0, <2>2, <2>3, RowServed DEF Served
<1>4. CASE FailRead(e) /\ tasks[t] = NULL
  <2>1. execs' = [execs EXCEPT ![e] = NULL] /\ ~At(e, "failwrite") /\ UNCHANGED tasks
    BY <1>1, <1>4 DEF FailRead, EndExec, At, dbVars
  <2> QED  BY <1>0, <2>1, FailingKept DEF Served
<1>5. CASE FailRead(e) /\ tasks[t] # NULL
  <2> DEFINE a == tasks[t].attempts
  <2>1. /\ execs' = [execs EXCEPT ![e] = ToFailWrite(execs[e], a)] /\ UNCHANGED tasks
        /\ a < MaxAttempts /\ ~At(e, "failwrite")
    BY <1>1, <1>5 DEF FailRead, At, dbVars
  <2>2. a \in Nat
    BY <1>5 DEF TypeOK, Table, Row
  <2>3. ToFailWrite(execs[e], a) \in Exec /\ ToFailWrite(execs[e], a).pc = "failwrite"
        /\ ToFailWrite(execs[e], a).task = t /\ ToFailWrite(execs[e], a).att = a
    BY <1>0, <1>1, <2>2, ExecTypes
  <2>4. /\ execs'[e] = ToFailWrite(execs[e], a)
        /\ \A f \in Slots : f # e => execs'[f] = execs[f]
    BY <2>1 DEF TypeOK
  <2>5. At(e, "failwrite")'
    BY <2>3, <2>4, WorkerAssumption DEF At
  <2>6. \A f \in Slots : f # e => (At(f, "failwrite")' <=> At(f, "failwrite"))
    BY <2>4 DEF At
  <2>7. Failing' = [Failing EXCEPT ![e] = [task |-> t, attempts |-> a]]
    BY <2>3, <2>4, <2>5, <2>6 DEF Failing
  <2>8. Failing[e] = NULL
    BY <2>1 DEF Failing
  <2>9. Storage!FailRead(e, t)
    BY <1>0, <1>5, <2>1, <2>7, <2>8 DEF Storage!FailRead
  <2> QED  BY <2>9, SameStatements DEF Served, Storage!Next, Storage!TaskStep
<1>6. CASE FailWrite(e)
  BY <1>0, <1>6, FailServed DEF FailWrite, EndExec, Served
<1> QED  BY <1>2, <1>3, <1>4, <1>5, <1>6 DEF ExecStep

\* The failures of the database.
LEMMA FaultServed ==
  ASSUME TypeOK, FaultStep
  PROVE  Served
<1>1. ASSUME NEW w \in Workers, ClaimFault(w) \/ CancelLoop(w) PROVE Served
  <2>1. UNCHANGED <<nextId, execs>> /\ LoseClaim(w)
    BY <1>1 DEF ClaimFault, CancelLoop
  <2>2. Failing' = Failing
    BY <2>1 DEF Failing, At
  <2> QED  BY <2>1, <2>2, ClaimServed DEF LoseClaim, Served
<1>2. ASSUME NEW e \in Slots, CompleteFault(e) PROVE Served
  <2>0. execs[e] # NULL /\ execs[e] \in Exec /\ UNCHANGED nextId /\ ~At(e, "failwrite")
    BY <1>2 DEF CompleteFault, At, TypeOK
  <2>1. PICK t \in TaskIds : t = execs[e].task
    BY <2>0 DEF Exec
  <2>2. PICK c \in {"timeout", "error"} : execs' = [execs EXCEPT ![e] = ToFail(execs[e], c)]
    BY <1>2 DEF CompleteFault
  <2>3. ToFail(execs[e], c).pc # "failwrite"
    BY <2>0, ExecTypes, 0 \in Nat
  <2>4. Failing' = Failing
    BY <2>0, <2>2, <2>3, FailingKept
  <2>5. UNCHANGED tasks \/ (tasks[t] # NULL /\ tasks' = [tasks EXCEPT ![t] = CompleteRow(@)])
    BY <1>2, <2>1 DEF CompleteFault
  <2> QED  BY <2>0, <2>4, <2>5, RowServed DEF Served
<1>3. ASSUME NEW e \in Slots, FailFault(e) PROVE Served
  <2>1. /\ execs' = [execs EXCEPT ![e] = NULL] /\ UNCHANGED nextId
        /\ \/ UNCHANGED tasks
           \/ /\ At(e, "failwrite") /\ tasks[execs[e].task] # NULL
              /\ tasks' = [tasks EXCEPT ![execs[e].task] = FailRow(@, execs[e].att)]
    BY <1>3 DEF FailFault, EndExec
  <2> QED  BY <2>1, FailServed DEF Served
<1> QED  BY <1>1, <1>2, <1>3 DEF FaultStep

\* Orphans, clients, the administrator and time.
LEMMA OtherServed ==
  ASSUME TypeOK,
         \/ \E t \in TaskIds : OrphanExit(t) \/ OrphanRetry(t)
         \/ \E o \in Options, d \in Delays : Enqueue(o, d)
         \/ AdminStep
         \/ Tick
  PROVE  Served
<1>a. UNCHANGED execs => Failing' = Failing
  BY DEF Failing, At
<1>1. ASSUME NEW t \in TaskIds, OrphanExit(t) \/ OrphanRetry(t) PROVE Served
  <2>1. /\ UNCHANGED <<nextId, execs>>
        /\ \/ UNCHANGED tasks
           \/ /\ tasks[t] # NULL /\ tasks[t].attempts < MaxAttempts
              /\ tasks' = [tasks EXCEPT ![t] = RetryRow(@, Countdown)]
    BY <1>1 DEF OrphanExit, OrphanRetry, ManualRetry, dbVars
  <2> QED  BY <1>a, <2>1, RowServed DEF Served
<1>2. ASSUME NEW o \in Options, NEW d \in Delays, Enqueue(o, d) PROVE Served
  <2>1. Storage!Enqueue(o, d)
    BY <1>2, <1>a, SameStatements DEF Enqueue, Storage!Enqueue
  <2> QED  BY <2>1 DEF Served, Storage!Next
<1>3. ASSUME NEW t \in TaskIds, Requeue(t) \/ Cancel(t) PROVE Served
  BY <1>3, <1>a, RowServed DEF Requeue, Cancel, Served
<1>4. ASSUME NEW S \in SUBSET TaskIds, Delete(S) PROVE Served
  <2>1. Storage!Delete(S)
    BY <1>4, <1>a, SameStatements DEF Delete, Storage!Delete
  <2> QED  BY <2>1, SameStatements DEF Served, Storage!Next
<1>5. CASE Cleanup
  <2>1. Storage!Cleanup
    BY <1>5, <1>a, SameStatements DEF Cleanup, Storage!Cleanup
  <2> QED  BY <2>1 DEF Served, Storage!Next
<1>6. CASE Tick
  <2>1. ASSUME NEW e \in Slots
        PROVE  /\ At(e, "failwrite")' <=> At(e, "failwrite")
               /\ execs[e] # NULL => /\ execs'[e].task = execs[e].task
                                     /\ execs'[e].att = execs[e].att
    <3>1. execs'[e] = AgeExec(execs[e])
      BY <1>6 DEF Tick
    <3>2. execs[e] # NULL => execs[e] \in Exec
      BY DEF TypeOK
    <3>3. execs[e] # NULL => /\ AgeExec(execs[e]) \in Exec
                             /\ AgeExec(execs[e]).task = execs[e].task
                             /\ AgeExec(execs[e]).pc = execs[e].pc
                             /\ AgeExec(execs[e]).att = execs[e].att
      BY <3>2, AgeExecType
    <3>4. execs[e] = NULL => execs'[e] = NULL
      BY <3>1 DEF AgeExec
    <3> QED  BY <3>1, <3>3, <3>4, WorkerAssumption DEF At
  <2>2. Failing' = Failing
    BY <2>1 DEF Failing, At
  <2>3. Storage!Tick
    BY <1>6, <2>2, SameStatements DEF Tick, Storage!Tick
  <2> QED  BY <2>3 DEF Served, Storage!Next
<1> QED  BY <1>1, <1>2, <1>3, <1>4, <1>5, <1>6 DEF AdminStep

\* Whatever the workers, their children and the administrator do, whichever
\* call fails and whoever dies between the two statements of fail_task, the
\* table sees only the operations of StorageAPI.  No regime is assumed: what
\* StorageAPI_proofs shows of every client's table holds of this system's.
THEOREM WorkersUseTheStorage == Spec => StorageSpec
<1>1. Init => Storage!Init
  BY SameStatements DEF Init, Storage!Init, Failing, At
<1>2. ASSUME TypeOK, [Next]_vars
      PROVE  [Storage!Next]_<<tasks, nextId, Failing>>
  <2>1. CASE UNCHANGED vars
    BY <2>1 DEF vars, Failing, At
  <2>2. CASE Next
    <3>1. Served
      BY <1>2, <2>2, LoopServed, ExecServed, FaultServed, OtherServed DEF Next
    <3> QED  BY <3>1 DEF Served
  <2> QED  BY <1>2, <2>1, <2>2
<1> QED  BY <1>1, <1>2, PyWorkerTypeOK, PTL DEF Spec, StorageSpec, Storage!Spec, Storage!vars


\* The theorems of StorageAPI_proofs, with this system's calls of fail_task.
Proved == INSTANCE StorageAPI_proofs
            WITH Callers <- Slots, Delays <- Delays \cup {Countdown}, failing <- Failing

\* The constants of this system are constants StorageAPI_proofs is about.
LEMMA StorageConstants ==
  /\ /\ NULL \notin Proved!FailRecord
     /\ Delays \cup {Countdown} \subseteq Nat
  /\ /\ NULL \notin Int
     /\ NULL \notin Workers
     /\ NULL \notin {"set", "fresh", "old"}
     /\ NULL \notin Proved!Row
  /\ /\ MaxTasks \in Nat
     /\ MaxAttempts \in Nat
     /\ StaleAfter \in Nat
     /\ DefaultRetryDelay \in Nat
     /\ Options \subseteq Proved!OptionType
     /\ RetryBackoffSeconds \in Seq(Nat)
     /\ Len(RetryBackoffSeconds) > 0
<1>1. NULL \notin Proved!FailRecord /\ Delays \cup {Countdown} \subseteq Nat
  BY WorkerAssumption DEF Proved!FailRecord, Proved!TaskIds, TaskIds
<1>2. NULL \notin Proved!Row
  BY NullAssumption DEF Proved!Row, Proved!Statuses, Row, Statuses
<1>3. Options \subseteq Proved!OptionType
  BY ConstantAssumption DEF Proved!OptionType, OptionType
<1> QED  BY <1>1, <1>2, <1>3, NullAssumption, ConstantAssumption

\* With Python workers, in any regime, the columns of every row agree with its
\* status and a task is failed only with its attempts used up: the system
\* implements StorageAPI, and StorageAPI_proofs shows it of every client.
THEOREM PyTableIsSound == Spec => [](Storage!RowShape /\ Storage!FailedIsExhausted)
<1>1. Proved!Spec => []Proved!RowShape
  BY StorageConstants, Proved!StorageRowShape, PTL
<1>2. Proved!Spec => []Proved!FailedIsExhausted
  BY StorageConstants, Proved!StorageFailedIsExhausted, PTL
<1>3. Storage!Init => Proved!Init
  BY DEF Storage!Init, Proved!Init, Storage!TaskIds, Proved!TaskIds
<1>4. Storage!Next => Proved!Next
  BY Zenon DEF Storage!Next, Proved!Next, Storage!TaskStep, Proved!TaskStep,
         Storage!Enqueue, Proved!Enqueue, Storage!Claim, Proved!Claim,
         Storage!Complete, Proved!Complete, Storage!FailRead, Proved!FailRead,
         Storage!FailWrite, Proved!FailWrite, Storage!FailAbort, Proved!FailAbort,
         Storage!ManualRetry, Proved!ManualRetry, Storage!Heartbeat, Proved!Heartbeat,
         Storage!Recover, Proved!Recover, Storage!Requeue, Proved!Requeue,
         Storage!Cancel, Proved!Cancel, Storage!Cleanup, Proved!Cleanup,
         Storage!Delete, Proved!Delete, Storage!Tick, Proved!Tick,
         Storage!TaskIds, Proved!TaskIds, Storage!NewRow, Proved!NewRow,
         Storage!IsNextClaim, Proved!IsNextClaim, Storage!Claimable, Proved!Claimable,
         Storage!ClaimRow, Proved!ClaimRow, Storage!CompleteRow, Proved!CompleteRow,
         Storage!FailRow, Proved!FailRow, Storage!RetryDelay, Proved!RetryDelay,
         Storage!RetryBackoff, Proved!RetryBackoff, Storage!RetryRow, Proved!RetryRow,
         Storage!Stale, Proved!Stale, Storage!RecoverRow, Proved!RecoverRow,
         Storage!RequeueRow, Proved!RequeueRow, Storage!CancelRow, Proved!CancelRow,
         Storage!TtlExpired, Proved!TtlExpired, Storage!Terminal, Proved!Terminal,
         Storage!ExpireRow, Proved!ExpireRow, Storage!HeartbeatRow, Proved!HeartbeatRow,
         Storage!AgeRow, Proved!AgeRow, Storage!RecoverTable, Proved!RecoverTable,
         Storage!ExpireTable, Proved!ExpireTable, Storage!DeleteFrom, Proved!DeleteFrom,
         Storage!AgeTable, Proved!AgeTable, Storage!HeartbeatTable, Proved!HeartbeatTable
<1>5. [Storage!Next]_(Storage!vars) => [Proved!Next]_(Proved!vars)
  BY <1>4 DEF Storage!vars, Proved!vars
<1>6. /\ Proved!RowShape => Storage!RowShape
      /\ Proved!FailedIsExhausted => Storage!FailedIsExhausted
  BY DEF Storage!RowShape, Proved!RowShape, Storage!Shaped, Proved!Shaped,
         Storage!FailedIsExhausted, Proved!FailedIsExhausted,
         Storage!Exhausted, Proved!Exhausted,
         Storage!TaskIds, Proved!TaskIds, Storage!Terminal, Proved!Terminal
<1> QED  BY <1>1, <1>2, <1>3, <1>5, <1>6, WorkersUseTheStorage, PTL
         DEF StorageSpec, Storage!Spec, Proved!Spec
=============================================================================
