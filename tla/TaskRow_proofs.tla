--------------------------- MODULE TaskRow_proofs ---------------------------
(***************************************************************************)
(* What the SQL statements of TaskRow do to a row of the table: they keep  *)
(* it a row, and which columns they set.                                   *)
(***************************************************************************)
EXTENDS TaskRow, TLAPS

\* The backoff table has an entry for every attempt.
LEMMA RetryBackoffType ==
  ASSUME NEW a \in Nat
  PROVE  RetryBackoff(a) \in Nat
<1>1. RetryBackoffSeconds \in Seq(Nat) /\ Len(RetryBackoffSeconds) > 0
  BY ConstantAssumption
<1>2. \A i \in 1..Len(RetryBackoffSeconds) : RetryBackoffSeconds[i] \in Nat
  BY <1>1
<1> QED  BY <1>1, <1>2 DEF RetryBackoff

\* The delay of a retry is a natural number for every retry policy.
LEMMA RetryDelayType ==
  ASSUME NEW o \in Options, NEW a \in Nat
  PROVE  RetryDelay(o, a) \in Nat
<1>1. o \in OptionType /\ DefaultRetryDelay \in Nat
  BY ConstantAssumption
<1>2. RetryBackoff(a) \in Nat
  BY RetryBackoffType
<1> QED  BY <1>1, <1>2 DEF RetryDelay, OptionType

\* The INSERT of enqueue creates a pending row.
LEMMA NewRowType ==
  ASSUME NEW o \in Options, NEW d \in Nat
  PROVE  /\ NewRow(o, d) \in Row
         /\ NewRow(o, d).status = "pending"
         /\ NewRow(o, d).age = NULL /\ NewRow(o, d).worker_id = NULL
BY ConstantAssumption DEF NewRow, Row, Statuses, OptionType

\* claim_task makes the row a running one of worker w that has just started.
LEMMA ClaimRowType ==
  ASSUME NEW r \in Row, NEW w \in Workers
  PROVE  /\ ClaimRow(r, w) \in Row
         /\ ClaimRow(r, w).status = "running" /\ ClaimRow(r, w).age = 0
         /\ ClaimRow(r, w).worker_id = w
<1>1. 0 \in 0 .. StaleAfter + 1
  BY ConstantAssumption
<1>2. ClaimRow(r, w) \in Row
  BY <1>1 DEF ClaimRow, Row, Statuses
<1> QED  BY <1>2 DEF ClaimRow, Row

\* complete_task.
LEMMA CompleteRowType ==
  ASSUME NEW r \in Row
  PROVE  /\ CompleteRow(r) \in Row
         /\ CompleteRow(r).status = "completed"
         /\ CompleteRow(r).completed_at = "set"
         /\ CompleteRow(r).attempts = r.attempts
BY DEF CompleteRow, Row, Statuses

\* fail_task, for any value a of attempts that it may have read: the task is
\* scheduled again, or it is failed because its attempts are used up.
LEMMA FailRowType ==
  ASSUME NEW r \in Row, NEW a \in Nat
  PROVE  /\ FailRow(r, a) \in Row
         /\ FailRow(r, a).attempts = a + 1
         /\ FailRow(r, a).opts = r.opts
         /\ \/ /\ FailRow(r, a).status = "pending"
               /\ FailRow(r, a).age = NULL /\ FailRow(r, a).worker_id = NULL
            \/ /\ FailRow(r, a).status = "failed" /\ FailRow(r, a).completed_at = "set"
               /\ a + 1 >= r.opts.max_retries
<1> DEFINE s == FailRow(r, a)
<1>1. r.opts \in Options /\ r.opts.max_retries \in Nat
  BY ConstantAssumption DEF Row, OptionType
<1>2. RetryDelay(r.opts, a + 1) \in Nat /\ a + 1 \in Nat
  BY <1>1, RetryDelayType
<1>3. CASE a + 1 < r.opts.max_retries
  <2>1. s \in Row
    BY <1>1, <1>2, <1>3 DEF FailRow, Row, Statuses
  <2>2. /\ s.status = "pending" /\ s.age = NULL /\ s.worker_id = NULL
        /\ s.attempts = a + 1 /\ s.opts = r.opts
    BY <1>3 DEF FailRow, Row
  <2> QED  BY <2>1, <2>2
<1>4. CASE ~(a + 1 < r.opts.max_retries)
  <2>1. s \in Row
    BY <1>1, <1>2, <1>4 DEF FailRow, Row, Statuses
  <2>2. /\ s.status = "failed" /\ s.completed_at = "set"
        /\ s.attempts = a + 1 /\ s.opts = r.opts
    BY <1>4 DEF FailRow, Row
  <2> QED  BY <1>1, <1>4, <2>1, <2>2
<1> QED  BY <1>3, <1>4

\* The manual retry and the reaper return a row to pending and add 1 to its
\* attempts; requeue resets them.
LEMMA BackToPendingType ==
  ASSUME NEW r \in Row, NEW d \in Nat
  PROVE  /\ RetryRow(r, d) \in Row
         /\ RetryRow(r, d).status = "pending" /\ RetryRow(r, d).attempts = r.attempts + 1
         /\ RetryRow(r, d).age = NULL /\ RetryRow(r, d).worker_id = NULL
         /\ RecoverRow(r) \in Row
         /\ RecoverRow(r).status = "pending" /\ RecoverRow(r).attempts = r.attempts + 1
         /\ RecoverRow(r).age = NULL /\ RecoverRow(r).worker_id = NULL
         /\ RequeueRow(r) \in Row
         /\ RequeueRow(r).status = "pending" /\ RequeueRow(r).attempts = 0
         /\ RequeueRow(r).age = NULL /\ RequeueRow(r).worker_id = NULL
<1>1. r.attempts + 1 \in Nat
  BY DEF Row
<1>2. RetryRow(r, d) \in Row    BY <1>1 DEF RetryRow, Row, Statuses
<1>3. RecoverRow(r) \in Row     BY <1>1 DEF RecoverRow, Row, Statuses
<1>4. RequeueRow(r) \in Row     BY DEF RequeueRow, Row, Statuses
<1>5. /\ RetryRow(r, d).status = "pending" /\ RetryRow(r, d).attempts = r.attempts + 1
      /\ RetryRow(r, d).age = NULL /\ RetryRow(r, d).worker_id = NULL
  BY DEF RetryRow, Row
<1>6. /\ RecoverRow(r).status = "pending" /\ RecoverRow(r).attempts = r.attempts + 1
      /\ RecoverRow(r).age = NULL /\ RecoverRow(r).worker_id = NULL
  BY DEF RecoverRow, Row
<1>7. /\ RequeueRow(r).status = "pending" /\ RequeueRow(r).attempts = 0
      /\ RequeueRow(r).age = NULL /\ RequeueRow(r).worker_id = NULL
  BY DEF RequeueRow, Row
<1> QED  BY <1>2, <1>3, <1>4, <1>5, <1>6, <1>7

\* cancel_task and cleanup_expired_tasks finish a row.
LEMMA FinishRowType ==
  ASSUME NEW r \in Row
  PROVE  /\ CancelRow(r) \in Row
         /\ CancelRow(r).status = "cancelled" /\ CancelRow(r).completed_at = "set"
         /\ CancelRow(r).attempts = r.attempts
         /\ ExpireRow(r) \in Row
         /\ ExpireRow(r).status = "expired" /\ ExpireRow(r).completed_at = "set"
         /\ ExpireRow(r).attempts = r.attempts
BY DEF CancelRow, ExpireRow, Row, Statuses

\* The heartbeat changes nothing that another statement reads.
LEMMA HeartbeatRowType ==
  ASSUME NEW r \in Row
  PROVE  /\ HeartbeatRow(r) \in Row
         /\ HeartbeatRow(r).status = r.status /\ HeartbeatRow(r).age = r.age
         /\ HeartbeatRow(r).worker_id = r.worker_id
         /\ HeartbeatRow(r).attempts = r.attempts /\ HeartbeatRow(r).opts = r.opts
         /\ HeartbeatRow(r).completed_at = r.completed_at
BY DEF HeartbeatRow, Row

\* Time moves only the columns that hold timestamps.
LEMMA AgeRowType ==
  ASSUME NEW r \in Row
  PROVE  /\ AgeRow(r) \in Row
         /\ AgeRow(r).status = r.status /\ AgeRow(r).worker_id = r.worker_id
         /\ AgeRow(r).opts = r.opts /\ AgeRow(r).attempts = r.attempts
         /\ AgeRow(r).completed_at = r.completed_at
         /\ AgeRow(r).age = NULL <=> r.age = NULL
         /\ r.age # NULL /\ r.age <= StaleAfter => AgeRow(r).age = r.age + 1
<1> DEFINE s == AgeRow(r)
<1>1. /\ (IF r.delay > 0 THEN r.delay - 1 ELSE 0) \in Nat
      /\ (IF r.age # NULL /\ r.age <= StaleAfter THEN r.age + 1 ELSE r.age)
           \in (0 .. StaleAfter + 1) \cup {NULL}
      /\ (IF r.ttl # NULL /\ r.ttl >= 0 THEN r.ttl - 1 ELSE r.ttl) \in Int \cup {NULL}
  BY ConstantAssumption DEF Row
<1>2. s \in Row
  BY <1>1 DEF AgeRow, Row
<1>3. /\ s.status = r.status /\ s.worker_id = r.worker_id /\ s.opts = r.opts
      /\ s.completed_at = r.completed_at /\ s.attempts = r.attempts
      /\ s.age = (IF r.age # NULL /\ r.age <= StaleAfter THEN r.age + 1 ELSE r.age)
  BY DEF AgeRow, Row
<1>4. s.age = NULL <=> r.age = NULL
  BY <1>3, NullAssumption, ConstantAssumption DEF Row
<1> QED  BY <1>2, <1>3, <1>4

\* No statement changes the options a task was enqueued with; only time moves
\* its TTL, and not that of a task without one.
LEMMA StatementsKeepOpts ==
  ASSUME NEW r \in Row, NEW w \in Workers, NEW d \in Nat
  PROVE  /\ \A s \in {ClaimRow(r, w), CompleteRow(r), RetryRow(r, d), RecoverRow(r),
                      RequeueRow(r), CancelRow(r), ExpireRow(r), HeartbeatRow(r)} :
              s.opts = r.opts /\ s.ttl = r.ttl
         /\ AgeRow(r).opts = r.opts /\ (r.ttl = NULL => AgeRow(r).ttl = NULL)
<1>1. /\ ClaimRow(r, w).opts = r.opts /\ ClaimRow(r, w).ttl = r.ttl
      /\ CompleteRow(r).opts = r.opts /\ CompleteRow(r).ttl = r.ttl
      /\ RetryRow(r, d).opts = r.opts /\ RetryRow(r, d).ttl = r.ttl
      /\ RecoverRow(r).opts = r.opts /\ RecoverRow(r).ttl = r.ttl
  BY DEF Row, ClaimRow, CompleteRow, RetryRow, RecoverRow
<1>2. /\ RequeueRow(r).opts = r.opts /\ RequeueRow(r).ttl = r.ttl
      /\ CancelRow(r).opts = r.opts /\ CancelRow(r).ttl = r.ttl
      /\ ExpireRow(r).opts = r.opts /\ ExpireRow(r).ttl = r.ttl
      /\ HeartbeatRow(r).opts = r.opts /\ HeartbeatRow(r).ttl = r.ttl
  BY DEF Row, RequeueRow, CancelRow, ExpireRow, HeartbeatRow
<1>3. AgeRow(r).opts = r.opts /\ (r.ttl = NULL => AgeRow(r).ttl = NULL)
  BY DEF Row, AgeRow
<1> QED  BY <1>1, <1>2, <1>3

-----------------------------------------------------------------------------
(* The statements map good rows to good rows                               *)

\* A row whose columns agree with its status and that, if it is failed, has
\* used up its retries; a table of such rows.
GoodRow == {r \in Row : Shaped(r) /\ (r.status = "failed" => Exhausted(r))}

GoodTable == [TaskIds -> GoodRow \cup {NULL}]

\* claim_task makes a good row: it writes both columns the reaper and the
\* heartbeat look at.
LEMMA ClaimRowGood ==
  ASSUME NEW r \in GoodRow, NEW w \in Workers
  PROVE  ClaimRow(r, w) \in GoodRow
<1>1. 0 # NULL /\ w # NULL
  BY NullAssumption
<1> QED  BY <1>1, ClaimRowType DEF GoodRow, Shaped, Terminal

\* The INSERT of enqueue makes a good row.
LEMMA NewRowGood ==
  ASSUME NEW o \in Options, NEW d \in Nat
  PROVE  NewRow(o, d) \in GoodRow
BY NewRowType DEF GoodRow, Shaped, Terminal

\* Both outcomes of fail_task keep a row good, for any value of attempts it
\* may have read.
LEMMA FailRowGood ==
  ASSUME NEW r \in GoodRow, NEW a \in Nat
  PROVE  FailRow(r, a) \in GoodRow
<1>1. r \in Row
  BY DEF GoodRow
<1> DEFINE s == FailRow(r, a)
<1>2. /\ s \in Row /\ s.attempts = a + 1
      /\ \/ s.status = "pending" /\ s.age = NULL /\ s.worker_id = NULL
         \/ /\ s.status = "failed" /\ s.completed_at = "set"
            /\ s.attempts >= s.opts.max_retries
  BY <1>1, FailRowType, Zenon
<1>3. s.attempts >= 1
  BY <1>2
<1> HIDE DEF s
<1>4. s \in GoodRow
  BY <1>2, <1>3 DEF GoodRow, Shaped, Exhausted, Terminal
<1> QED  BY <1>4 DEF s

\* The manual retry, the reaper and requeue make good pending rows.
LEMMA BackToPendingGood ==
  ASSUME NEW r \in GoodRow, NEW d \in Nat
  PROVE  /\ RetryRow(r, d) \in GoodRow
         /\ RecoverRow(r) \in GoodRow
         /\ RequeueRow(r) \in GoodRow
<1>1. r \in Row
  BY DEF GoodRow
<1> QED  BY <1>1, BackToPendingType DEF GoodRow, Shaped, Terminal

\* complete_task, cancel and expiry make good finished rows; the heartbeat and
\* time keep a row good.
LEMMA OtherRowsGood ==
  ASSUME NEW r \in GoodRow
  PROVE  /\ CompleteRow(r) \in GoodRow
         /\ CancelRow(r) \in GoodRow
         /\ ExpireRow(r) \in GoodRow
         /\ HeartbeatRow(r) \in GoodRow
         /\ AgeRow(r) \in GoodRow
<1>1. r \in Row
  BY DEF GoodRow
<1>2. CompleteRow(r) \in GoodRow
  BY <1>1, CompleteRowType DEF GoodRow, Shaped
<1>3. CancelRow(r) \in GoodRow /\ ExpireRow(r) \in GoodRow
  BY <1>1, FinishRowType DEF GoodRow, Shaped
<1>4. HeartbeatRow(r) \in GoodRow
  BY <1>1, HeartbeatRowType DEF GoodRow, Shaped, Exhausted
<1>5. AgeRow(r) \in GoodRow
  BY <1>1, AgeRowType DEF GoodRow, Shaped, Exhausted
<1> QED  BY <1>2, <1>3, <1>4, <1>5
=============================================================================
