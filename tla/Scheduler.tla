----------------------------- MODULE Scheduler ------------------------------
(***************************************************************************)
(* The periodic scheduler (python/lapinq/scheduler.py) in each server that *)
(* is started with --scheduler, over the table lapinq_scheduled_tasks.  No *)
(* server knows of another: whether a schedule has been triggered in this  *)
(* minute is read from last_triggered_at, the task is enqueued, and        *)
(* last_triggered_at is written, in three separate statements.             *)
(*                                                                         *)
(* Time is counted in units, Minute of them to a minute.  The clocks of    *)
(* the servers and of the database agree.                                  *)
(***************************************************************************)
EXTENDS Cron, FiniteSets

CONSTANTS
  NULL,
  Servers,    \* the servers with --scheduler
  Schedules,  \* the enabled rows of lapinq_scheduled_tasks
  Crons,      \* the expressions a row may have
  Intervals,  \* the values of --scheduler-interval
  Minute,     \* units of time in a minute
  Lateness,   \* how much later than asked asyncio.sleep may return
  Horizon,    \* bound: how many minutes are followed
  MaxFaults   \* bound: how many ticks fail or servers stop

VARIABLES
  clock,      \* now
  cron,       \* the column cron of each row
  last,       \* the column last_triggered_at
  srv,        \* the scheduler coroutine of each server
  triggers,   \* how often each row was enqueued for each minute
  since,      \* since when each server has been ticking without a failure
  straddled,  \* some tick was still going on when its minute ended
  faults      \* failures still to come

vars == <<clock, cron, last, srv, triggers, since, straddled, faults>>
rowVars == <<cron, last, triggers>>

Minutes == 0 .. Horizon - 1
Ticking == {"select", "rows", "update"}

\* pc is the await the coroutine is at; now is _tick's local variable, todo
\* the rows it has still to enqueue, row the one it has just enqueued.
Server == [pc       : {"down", "sleep"} \cup Ticking,
           interval : Intervals \cup {0},
           wait     : Nat,                     \* until the sleep is over at the latest
           now      : Nat,
           todo     : SUBSET Schedules,
           row      : Schedules \cup {NULL}]

ASSUME SchedulerAssumption ==
  /\ IsFiniteSet(Servers)
  /\ Intervals \cup {Minute, Horizon} \subseteq Nat \ {0}
  /\ Lateness \in Nat
  /\ MaxFaults \in Nat
  /\ NULL \notin Nat \cup Schedules
  /\ Crons \subseteq Seq(Part)

\* Between two ticks only the rest of the sleep counts.
Asleep(i, n) ==
  [pc |-> "sleep", interval |-> i, wait |-> n, now |-> 0, todo |-> {}, row |-> NULL]

Down == [Asleep(0, 0) EXCEPT !.pc = "down"]

Init ==
  /\ clock = 0
  /\ cron \in [Schedules -> Crons]
  /\ last = [r \in Schedules |-> NULL]
  /\ srv = [s \in Servers |-> Down]
  /\ triggers = [r \in Schedules |-> [m \in Minutes |-> 0]]
  /\ since = [s \in Servers |-> 0]
  /\ straddled = FALSE
  /\ faults = MaxFaults

MinuteOf(t) == t \div Minute

\* The date of a minute: every month has the same length.
DateOf(m) ==
  LET Size(i) == FieldRanges[i][2] - FieldRanges[i][1] + 1
      hours == m \div Size(1)
      days == hours \div Size(2)
  IN <<FieldRanges[1][1] + (m % Size(1)),
       FieldRanges[2][1] + (hours % Size(2)),
       FieldRanges[3][1] + (days % Size(3)),
       FieldRanges[4][1] + ((days \div Size(3)) % Size(4)),
       (days + 6) % 7>>

-----------------------------------------------------------------------------
(* The coroutine                                                           *)

\* The server's lifespan creates the task of _loop, which the event loop runs
\* when it gets to it.
Start(s) ==
  /\ srv[s].pc = "down"
  /\ \E i \in Intervals : srv' = [srv EXCEPT ![s] = Asleep(i, Lateness)]
  /\ since' = [since EXCEPT ![s] = clock]
  /\ UNCHANGED <<clock, rowVars, straddled, faults>>

\* _tick begins: now = datetime.now().  The sleep has lasted at least the
\* interval.
BeginTick(s) ==
  /\ srv[s].pc = "sleep"
  /\ srv[s].wait <= Lateness
  /\ MinuteOf(clock) \in Minutes
  /\ srv' = [srv EXCEPT ![s].pc = "select", ![s].now = clock]
  /\ UNCHANGED <<clock, rowVars, since, straddled, faults>>

TriggeredAfter(r, now) == last[r] # NULL /\ last[r] > MinuteOf(now) * Minute

TriggeredRecently(r, now) == last[r] # NULL /\ now - last[r] < Minute

\* last >= now.replace(second=0, microsecond=0).
Triggered(r, now) == last[r] # NULL /\ last[r] >= MinuteOf(now) * Minute

\* The rows as they are now decide what the whole tick enqueues.
Select(s) ==
  /\ srv[s].pc = "select"
  /\ LET now == srv[s].now
         todo == {r \in Schedules :
                    /\ ~Invalid(cron[r])
                    /\ ShouldRun(ParseCron(cron[r]), DateOf(MinuteOf(now)))
                    /\ ~Triggered(r, now)}
     IN srv' = [srv EXCEPT ![s].pc = "rows", ![s].todo = todo]
  /\ UNCHANGED <<clock, rowVars, since, straddled, faults>>

Trigger(s, r) ==
  triggers' = [triggers EXCEPT ![r][MinuteOf(srv[s].now)] = @ + 1]

\* await storage.enqueue(...); the SELECT has no order.
Enqueue(s) ==
  /\ srv[s].pc = "rows"
  /\ \E r \in srv[s].todo :
        /\ Trigger(s, r)
        /\ srv' = [srv EXCEPT ![s].pc = "update", ![s].todo = @ \ {r}, ![s].row = r]
  /\ UNCHANGED <<clock, cron, last, since, straddled, faults>>

MarkTriggered(s) == last' = [last EXCEPT ![srv[s].row] = clock]

\* UPDATE ... SET last_triggered_at = now(): the minute may be over.
Update(s) ==
  /\ srv[s].pc = "update"
  /\ MarkTriggered(s)
  /\ srv' = [srv EXCEPT ![s].pc = "rows", ![s].row = NULL]
  /\ UNCHANGED <<clock, cron, triggers, since, straddled, faults>>

EndTickAligned(s) ==
  /\ srv[s].pc = "rows"
  /\ srv[s].todo = {}
  /\ srv' = [srv EXCEPT ![s] = Asleep(@.interval, @.interval + Lateness - (clock - @.now))]
  /\ UNCHANGED <<clock, rowVars, since, straddled, faults>>

\* await asyncio.sleep(self.interval).
EndTick(s) ==
  /\ srv[s].pc = "rows"
  /\ srv[s].todo = {}
  /\ srv' = [srv EXCEPT ![s] = Asleep(@.interval, @.interval + Lateness)]
  /\ UNCHANGED <<clock, rowVars, since, straddled, faults>>

\* The statement the coroutine awaits ends without an answer, committed or not.
LoseAnswer(s) ==
  /\ UNCHANGED cron
  /\ \/ UNCHANGED <<last, triggers>>
     \/ srv[s].pc = "rows" /\ (\E r \in srv[s].todo : Trigger(s, r)) /\ UNCHANGED last
     \/ srv[s].pc = "update" /\ MarkTriggered(s) /\ UNCHANGED triggers

\* A statement raises: _loop logs it, gives up the rest of the tick and sleeps.
TickFails(s) ==
  /\ srv[s].pc \in Ticking
  /\ faults > 0
  /\ faults' = faults - 1
  /\ LoseAnswer(s)
  /\ srv' = [srv EXCEPT ![s] = Asleep(@.interval, @.interval + Lateness)]
  /\ since' = [since EXCEPT ![s] = clock + 1]
  /\ UNCHANGED <<clock, straddled>>

\* The server stops or dies: the task is cancelled at its await.
Stop(s) ==
  /\ srv[s].pc # "down"
  /\ faults > 0
  /\ faults' = faults - 1
  /\ LoseAnswer(s)
  /\ srv' = [srv EXCEPT ![s] = Down]
  /\ UNCHANGED <<clock, since, straddled>>

\* Time passes, and a sleeper wakes up before it is later than Lateness.
Tick ==
  /\ MinuteOf(clock) < Horizon
  /\ \A s \in Servers : ~(srv[s].pc = "sleep" /\ srv[s].wait = 0)
  /\ clock' = clock + 1
  /\ srv' = [s \in Servers |->
               IF srv[s].pc = "sleep" THEN [srv[s] EXCEPT !.wait = @ - 1] ELSE srv[s]]
  /\ straddled' = \/ straddled
                  \/ /\ MinuteOf(clock') # MinuteOf(clock)
                     /\ \E s \in Servers : srv[s].pc \in Ticking
  /\ UNCHANGED <<rowVars, since, faults>>

\* What happens beyond the horizon is not followed.
AtHorizon ==
  /\ MinuteOf(clock) = Horizon
  /\ UNCHANGED vars

Next ==
  \/ \E s \in Servers :
       \/ Start(s) \/ BeginTick(s) \/ Select(s) \/ Enqueue(s) \/ Update(s)
       \/ EndTick(s) \/ TickFails(s) \/ Stop(s)
  \/ Tick
  \/ AtHorizon

Spec == Init /\ [][Next]_vars

-----------------------------------------------------------------------------
(* Properties                                                              *)

\* The rows, the coroutines and the histories keep their types.
TypeOK ==
  /\ clock \in 0 .. Horizon * Minute
  /\ cron \in [Schedules -> Crons]
  /\ last \in [Schedules -> Nat \cup {NULL}]
  /\ srv \in [Servers -> Server]
  /\ triggers \in [Schedules -> [Minutes -> Nat]]
  /\ since \in [Servers -> Nat]
  /\ straddled \in BOOLEAN
  /\ faults \in 0..MaxFaults

\* The minutes an expression that can be parsed names.
DueMinutes == [c \in Crons |-> {m \in Minutes : ~Invalid(c) /\ IsDue(c, DateOf(m))}]

\* A row is enqueued only for minutes its cron expression names, however late
\* the statement is executed, and a row whose expression cannot be parsed is
\* never enqueued.
TriggersAreDue ==
  \A r \in Schedules, m \in Minutes :
    triggers[r][m] > 0 => m \in DueMinutes[cron[r]]

\* The check of last_triggered_at is not atomic with the enqueue, but a server
\* whose ticks succeed enqueues a row once for a minute: duplicates come only
\* from other servers and from ticks that were interrupted.
TriggersBounded ==
  \A r \in Schedules, m \in Minutes :
    triggers[r][m] <= Cardinality(Servers) + (MaxFaults - faults)

\* As long as no tick is still going on when its minute ends, a row is enqueued
\* for every minute its expression names during which some server was up and
\* had no failing tick, although the ticks drift and wake late, if that
\* server's interval falls short of a minute by at least the lateness; a row
\* that cannot be parsed does not hold back the others.
NoMinuteMissed ==
  ~straddled =>
    \A r \in Schedules, m \in Minutes :
      /\ MinuteOf(clock) > m /\ m \in DueMinutes[cron[r]]
      /\ \E s \in Servers : /\ srv[s].pc # "down"
                         /\ srv[s].interval + Lateness <= Minute
                         /\ since[s] <= m * Minute
      => triggers[r][m] > 0
=============================================================================
