-------------------------- MODULE StorageAPI_proofs --------------------------
(***************************************************************************)
(* For every number of tasks, workers, callers and every choice of options *)
(* and delays: any sequence of calls of the storage interface keeps the    *)
(* table well typed, its rows well shaped and its failed rows exhausted.   *)
(*                                                                         *)
(* The three facts are proved together, as one invariant about the rows:   *)
(* each statement maps a good row to a good row (TaskRow_proofs), and each *)
(* action of StorageAPI applies one statement to some rows (the theorem).  *)
(***************************************************************************)
EXTENDS StorageAPI, TaskRow_proofs

IInv ==
  /\ tasks \in GoodTable
  /\ nextId \in 1 .. MaxTasks + 1
  /\ failing \in [Callers -> FailRecord \cup {NULL}]

-----------------------------------------------------------------------------
(* The theorem                                                             *)

\* Initially the table is empty and no fail_task is running.
LEMMA InitIInv == Init => IInv
BY ConstantAssumption DEF Init, IInv, GoodTable

\* Every call, and every step of fail_task, keeps the invariant.
LEMMA NextIInv == IInv /\ [Next]_vars => IInv'
<1> SUFFICES ASSUME IInv, [Next]_vars
             PROVE  IInv'
  OBVIOUS
<1> USE DEF IInv, GoodTable
<1>a. \A r \in GoodRow : r # NULL
  BY NullAssumption DEF GoodRow
<1>1. CASE \E o \in Options, d \in Delays : Enqueue(o, d)
  <2>1. PICK o \in Options, d \in Delays : Enqueue(o, d)
    BY <1>1
  <2>2. d \in Nat /\ nextId \in TaskIds /\ nextId + 1 \in 1 .. MaxTasks + 1
    BY <2>1, ConstantAssumption, CallerAssumption DEF Enqueue, TaskIds
  <2> QED  BY <2>1, <2>2, NewRowGood DEF Enqueue
<1>2. ASSUME NEW w \in Workers, Claim(w) PROVE IInv'
  <2>1. PICK t \in TaskIds : /\ IsNextClaim(tasks, t)
                             /\ tasks' = [tasks EXCEPT ![t] = ClaimRow(@, w)]
    BY <1>2 DEF Claim
  <2>2. tasks[t] \in GoodRow
    BY <2>1 DEF IsNextClaim, Claimable
  <2> QED  BY <1>2, <2>1, <2>2, ClaimRowGood DEF Claim
<1>3. ASSUME NEW w \in Workers, Heartbeat(w) PROVE IInv'
  <2>1. \A t \in TaskIds : tasks[t] # NULL => HeartbeatRow(tasks[t]) \in GoodRow
    BY OtherRowsGood
  <2> QED  BY <1>3, <2>1 DEF Heartbeat, HeartbeatTable
<1>4. ASSUME NEW t \in TaskIds, TaskStep(t) PROVE IInv'
  <2>1. CASE Complete(t)
    BY <2>1, OtherRowsGood DEF Complete
  <2>2. CASE Requeue(t)
    BY <2>2, BackToPendingGood DEF Requeue
  <2>3. CASE Cancel(t)
    BY <2>3, OtherRowsGood DEF Cancel
  <2>4. CASE \E d \in Delays : ManualRetry(t, d)
    BY <2>4, BackToPendingGood, CallerAssumption DEF ManualRetry
  <2>5. CASE \E c \in Callers : FailRead(c, t)
    <3>1. PICK c \in Callers : FailRead(c, t)
      BY <2>5
    <3>2. tasks[t].attempts \in Nat
      BY <3>1 DEF FailRead, GoodRow, Row
    <3> QED  BY <3>1, <3>2 DEF FailRead, FailRecord
  <2> QED  BY <1>4, <2>1, <2>2, <2>3, <2>4, <2>5 DEF TaskStep
<1>5. ASSUME NEW c \in Callers, FailWrite(c) PROVE IInv'
  <2>1. failing[c] \in FailRecord
    BY <1>5 DEF FailWrite
  <2>2. failing[c].task \in TaskIds /\ failing[c].attempts \in Nat
    BY <2>1 DEF FailRecord
  <2> QED  BY <1>5, <2>2, FailRowGood DEF FailWrite
<1>6. ASSUME NEW C \in SUBSET Callers, FailAbort(C) PROVE IInv'
  BY <1>6 DEF FailAbort
<1>7. CASE \E S \in SUBSET TaskIds : Delete(S)
  BY <1>7 DEF Delete, DeleteFrom
<1>8. CASE Recover
  BY <1>8, <1>a, BackToPendingGood DEF Recover, RecoverTable, Stale
<1>9. CASE Cleanup
  BY <1>9, <1>a, OtherRowsGood DEF Cleanup, ExpireTable, TtlExpired
<1>10. CASE Tick
  BY <1>10, OtherRowsGood DEF Tick, AgeTable
<1>11. CASE UNCHANGED vars
  BY <1>11 DEF vars
<1> QED
  BY <1>1, <1>2, <1>3, <1>4, <1>5, <1>6, <1>7, <1>8, <1>9, <1>10, <1>11 DEF Next

\* The good rows are what the three properties are about.
LEMMA IInvImplies == IInv => TypeOK /\ RowShape /\ FailedIsExhausted
BY DEF IInv, GoodTable, GoodRow, TypeOK, Table, RowShape, FailedIsExhausted

\* The storage interface, under any clients, keeps its type invariant.
THEOREM StorageTypeOK == Spec => []TypeOK
BY InitIInv, NextIInv, IInvImplies, PTL DEF Spec

\* Under any clients, the columns of every row agree with its status.
THEOREM StorageRowShape == Spec => []RowShape
BY InitIInv, NextIInv, IInvImplies, PTL DEF Spec

\* Under any clients, a row is failed only with its attempts used up.
THEOREM StorageFailedIsExhausted == Spec => []FailedIsExhausted
BY InitIInv, NextIInv, IInvImplies, PTL DEF Spec
=============================================================================
