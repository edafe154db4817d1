-------------------------- MODULE Scheduler_proofs ---------------------------
(***************************************************************************)
(* The scheduler for any number of servers, rows, minutes and faults, and  *)
(* any expressions: _parse_cron and _should_run decide what the expression *)
(* means, a row is enqueued only for minutes it names, at most once per    *)
(* server and interruption, and for each of them as long as no tick is     *)
(* still going on when its minute ends.                                    *)
(***************************************************************************)
EXTENDS Scheduler, FiniteSetTheorems, TLAPS

-----------------------------------------------------------------------------
(* Cron expressions                                                        *)

\* A date as the fields count it; the weekday is Python's.
IsDate(d) ==
  /\ \A i \in 1..4 : d[i] \in FieldRanges[i][1] .. FieldRanges[i][2]
  /\ d[5] \in 0 .. 6

\* The weekdays the expression spells out are 0 to 7.  _parse_cron takes larger
\* ones too, modulo 7.
PlainWeekdays(c) ==
  ~Invalid(c) /\ ~c[5].all => \A w \in ParsePart(c[5], 5) : w <= 7

\* Division as \div and % do it.
LEMMA DivMod ==
  ASSUME NEW a \in Nat, NEW b \in Nat \ {0}
  PROVE  /\ a \div b \in Nat /\ a % b \in 0 .. b - 1
         /\ a = (a \div b) * b + (a % b)
         /\ (a \div b) * b <= a /\ a < (a \div b) * b + b
OBVIOUS

\* Of two numbers the smaller has the smaller quotient.
LEMMA DivMonotone ==
  ASSUME NEW a \in Nat, NEW b \in Nat \ {0}, NEW c \in Nat, a <= c
  PROVE  a \div b <= c \div b
OBVIOUS

\* range(a, b + 1, step): the multiples of step from a to b.
LEMMA SteppedMembers ==
  ASSUME NEW a \in Nat, NEW b \in Nat, a <= b,
         NEW step \in Int, step # 0, NEW v \in Int
  PROVE  v \in Stepped(a, b, step) <=>
           a <= v /\ v <= b /\ step > 0 /\ (v - a) % step = 0
<1>1. CASE step < 0
  BY <1>1 DEF Stepped
<1>2. CASE step > 0
  <2>0. step \in Nat \ {0} /\ b - a \in Nat
    BY <1>2
  <2>1. ASSUME NEW k \in 0 .. (b - a) \div step, v = a + k * step
        PROVE  a <= v /\ v <= b /\ (v - a) % step = 0
    <3>1. k * step <= b - a /\ k * step >= 0
      <4>1. ((b - a) \div step) * step <= b - a
        BY <2>0, DivMod
      <4>2. k \in Nat /\ (b - a) \div step \in Nat /\ k <= (b - a) \div step
        BY <2>0, DivMod
      <4>3. k * step <= ((b - a) \div step) * step
        BY <2>0, <4>2
      <4>4. k * step \in Nat /\ ((b - a) \div step) * step \in Nat
        BY <2>0, <4>2
      <4> QED  BY <2>0, <4>1, <4>3, <4>4
    <3>2. (k * step) % step = 0
      BY <2>0
    <3>3. k * step \in Nat
      BY <2>0
    <3>4. v - a = k * step
      BY <2>1, <3>3
    <3> QED  BY <2>1, <3>1, <3>2, <3>3, <3>4
  <2>2. ASSUME a <= v, v <= b, (v - a) % step = 0
        PROVE  \E k \in 0 .. (b - a) \div step : v = a + k * step
    <3>1. v - a \in Nat /\ v - a <= b - a
      BY <2>2
    <3> DEFINE k == (v - a) \div step
    <3>2. k \in Nat /\ v - a = k * step + 0
      BY <2>0, <2>2, <3>1, DivMod
    <3>3. k <= (b - a) \div step
      BY <2>0, <3>1, DivMonotone
    <3>4. (b - a) \div step \in Nat
      BY <2>0, DivMod
    <3> HIDE DEF k
    <3>5. k * step \in Nat
      BY <2>0, <3>2
    <3>6. v = a + k * step
      BY <3>2, <3>5
    <3>7. k \in 0 .. (b - a) \div step
      BY <3>2, <3>3, <3>4
    <3> QED  BY <3>6, <3>7
  <2>3. Stepped(a, b, step) = {a + k * step : k \in 0 .. (b - a) \div step}
    BY <1>2 DEF Stepped
  <2>4. v \in Stepped(a, b, step) <=>
          \E k \in 0 .. (b - a) \div step : v = a + k * step
    BY <2>3
  <2> QED  BY <1>2, <2>1, <2>2, <2>4
<1> QED  BY <1>1, <1>2

\* A segment that does not raise adds the values it names.
LEMMA ValuesAreNamed ==
  ASSUME NEW g \in Segment, NEW lo \in Nat, NEW hi \in Nat, ~Raises(g, lo, hi), NEW v \in Int
  PROVE  v \in Values(g, lo, hi) <=> Names(g, lo, hi, v)
<1>0. g.a \in Nat /\ g.b \in Nat /\ g.step \in Int
  BY DEF Segment
<1>1. CASE g.kind = "value"
  BY <1>1 DEF Values, Names
<1>2. CASE g.kind = "range"
  BY <1>0, <1>2 DEF Values, Names
<1>3. CASE g.kind = "stepAll"
  <2>1. lo <= hi /\ g.step # 0
    BY <1>3 DEF Raises, HasStep, BaseRange
  <2>2. Values(g, lo, hi) = Stepped(lo, hi, g.step)
    BY <1>3 DEF Values, BaseRange
  <2> QED  BY <1>0, <1>3, <2>1, <2>2, SteppedMembers DEF Names
<1>4. CASE g.kind = "stepRange"
  <2>1. g.a <= g.b /\ g.step # 0
    BY <1>0, <1>4 DEF Raises, HasStep, BaseRange
  <2>2. Values(g, lo, hi) = Stepped(g.a, g.b, g.step)
    BY <1>4 DEF Values, BaseRange
  <2> QED  BY <1>0, <1>4, <2>1, <2>2, SteppedMembers DEF Names
<1>5. CASE g.kind = "stepFrom"
  <2>1. g.a <= hi /\ g.step # 0
    BY <1>0, <1>5 DEF Raises, HasStep, BaseRange
  <2>2. Values(g, lo, hi) = Stepped(g.a, hi, g.step)
    BY <1>5 DEF Values, BaseRange
  <2> QED  BY <1>0, <1>5, <2>1, <2>2, SteppedMembers DEF Names
<1>6. g.kind \in {"value", "range", "stepAll", "stepRange", "stepFrom", "bad"} /\ g.kind # "bad"
  BY DEF Segment, Raises
<1> QED  BY <1>1, <1>2, <1>3, <1>4, <1>5, <1>6

\* The fields of a valid expression.
LEMMA Fields ==
  ASSUME NEW c \in Seq(Part), ~Invalid(c), NEW i \in 1..5
  PROVE  /\ Len(c) = 5 /\ c[i] \in Part
         /\ FieldRanges[i][1] \in Nat /\ FieldRanges[i][2] \in Nat
         /\ FieldRanges[i][1] <= FieldRanges[i][2]
         /\ ~c[i].all => \A g \in c[i].segs :
              g \in Segment /\ ~Raises(g, FieldRanges[i][1], FieldRanges[i][2])
<1>1. Len(c) = 5
  BY DEF Invalid
<1>2. c[i] \in Part
  <2>1. i \in 1 .. Len(c)
    BY <1>1
  <2> HIDE DEF Part
  <2> QED  BY <2>1
<1>3. c[i].segs \subseteq Segment
  BY <1>2 DEF Part
<1>4. /\ FieldRanges[i][1] \in Nat /\ FieldRanges[i][2] \in Nat
      /\ FieldRanges[i][1] <= FieldRanges[i][2]
  BY FieldAssumption
<1> QED  BY <1>1, <1>2, <1>3, <1>4 DEF Invalid

\* A field that is spelled out holds the values it names, and "*" all of its
\* range.
LEMMA PartIsNamed ==
  ASSUME NEW c \in Seq(Part), ~Invalid(c), NEW i \in 1..5, NEW v \in Int
  PROVE  /\ c[i].all => (v \in ParsePart(c[i], i) <=>
                           v \in FieldRanges[i][1] .. FieldRanges[i][2])
         /\ ~c[i].all => (v \in ParsePart(c[i], i) <=> PartNames(c[i], i, v))
<1> DEFINE lo == FieldRanges[i][1]  hi == FieldRanges[i][2]
<1>1. /\ lo \in Nat /\ hi \in Nat
      /\ ~c[i].all => \A g \in c[i].segs : g \in Segment /\ ~Raises(g, lo, hi)
  BY Fields
<1>2. CASE c[i].all
  BY <1>2 DEF ParsePart
<1>3. CASE ~c[i].all
  <2>1. \A g \in c[i].segs : v \in Values(g, lo, hi) <=> Names(g, lo, hi, v)
    BY <1>1, <1>3, ValuesAreNamed
  <2>2. ParsePart(c[i], i) = UNION {Values(g, lo, hi) : g \in c[i].segs}
    BY <1>3 DEF ParsePart
  <2>3. PartNames(c[i], i, v) <=> \E g \in c[i].segs : Names(g, lo, hi, v)
    BY <1>3 DEF PartNames
  <2> QED  BY <1>3, <2>1, <2>2, <2>3
<1> QED  BY <1>2, <1>3

\* What a field holds are numbers.
LEMMA PartsAreNumbers ==
  ASSUME NEW c \in Seq(Part), ~Invalid(c), NEW i \in 1..5, ~c[i].all
  PROVE  ParsePart(c[i], i) \subseteq Nat
<1> DEFINE lo == FieldRanges[i][1]  hi == FieldRanges[i][2]
<1>1. /\ lo \in Nat /\ hi \in Nat
      /\ \A g \in c[i].segs : g \in Segment /\ ~Raises(g, lo, hi)
  BY Fields
<1>2. ASSUME NEW g \in c[i].segs PROVE Values(g, lo, hi) \subseteq Nat
  <2>0. g.a \in Nat /\ g.b \in Nat /\ g.step \in Int
    BY <1>1 DEF Segment
  <2>1. CASE g.kind = "value"
    BY <2>0, <2>1 DEF Values
  <2>2. CASE g.kind = "range"
    BY <2>0, <2>2 DEF Values
  <2>3. CASE g.kind \notin {"value", "range"}
    <3>1. PICK a \in Nat, b \in Nat : BaseRange(g, lo, hi) = <<a, b>>
      <4>1. g.kind \in {"stepAll", "stepRange", "stepFrom"}
        BY <1>1, <2>3 DEF Segment, Raises
      <4> QED  BY <1>1, <2>0, <4>1 DEF BaseRange
    <3>2. HasStep(g)
      BY <1>1, <2>3 DEF Segment, Raises, HasStep
    <3>3. a <= b /\ g.step # 0
      BY <1>1, <2>0, <3>1, <3>2 DEF Raises
    <3>4. Values(g, lo, hi) = Stepped(a, b, g.step)
      BY <2>3, <3>1 DEF Values
    <3>5. CASE g.step < 0
      BY <3>4, <3>5 DEF Stepped
    <3>6. CASE g.step > 0
      <4>0. b - a \in Nat /\ g.step \in Nat \ {0}
        BY <2>0, <3>3, <3>6
      <4>1. (b - a) \div g.step \in Nat
        BY <4>0, DivMod
      <4>2. \A k \in 0 .. (b - a) \div g.step : a + k * g.step \in Nat
        BY <2>0, <3>6, <4>1
      <4> QED  BY <3>4, <3>6, <4>2 DEF Stepped
    <3> QED  BY <2>0, <3>3, <3>5, <3>6
  <2> QED  BY <2>1, <2>2, <2>3
<1>3. ParsePart(c[i], i) = UNION {Values(g, lo, hi) : g \in c[i].segs}
  BY DEF ParsePart
<1> QED  BY <1>2, <1>3

\* The weekday of cron (from Sunday) and Python's (from Monday).
LEMMA Weekdays ==
  /\ \A w \in 0 .. 7 : (w + 6) % 7 \in 0 .. 6 /\ (((w + 6) % 7) + 1) % 7 = IF w = 7 THEN 0 ELSE w
  /\ \A d \in 0 .. 6 : (d + 1) % 7 \in 0 .. 6 /\ (((d + 1) % 7) + 6) % 7 = d
  /\ \A d \in 0 .. 6 : (d + 1) % 7 = 0 => d = 6
  /\ (7 + 6) % 7 = 6
OBVIOUS

\* What the fifth set holds, and what the fifth field names.
LEMMA WeekdayIsNamed ==
  ASSUME NEW c \in Seq(Part), ~Invalid(c), NEW d \in 0 .. 6
  PROVE  LET sundayFirst == (d + 1) % 7
             due == PartNames(c[5], 5, sundayFirst) \/ (sundayFirst = 0 /\ PartNames(c[5], 5, 7))
         IN /\ due => \E w \in ParsePart(c[5], 5) : d = (w + 6) % 7
            /\ PlainWeekdays(c) /\ (\E w \in ParsePart(c[5], 5) : d = (w + 6) % 7) => due
<1> DEFINE sundayFirst == (d + 1) % 7
<1>0. sundayFirst \in 0 .. 6 /\ (sundayFirst + 6) % 7 = d
  BY Weekdays
<1>1. CASE c[5].all
  <2>1. ParsePart(c[5], 5) = 0 .. 6
    BY <1>1, FieldAssumption DEF ParsePart
  <2>2. \A v : PartNames(c[5], 5, v)
    BY <1>1 DEF PartNames
  <2> QED  BY <1>0, <2>1, <2>2
<1>2. CASE ~c[5].all
  <2>1. \A v \in Int : v \in ParsePart(c[5], 5) <=> PartNames(c[5], 5, v)
    BY <1>2, PartIsNamed
  <2>2. ASSUME PartNames(c[5], 5, sundayFirst) \/ (sundayFirst = 0 /\ PartNames(c[5], 5, 7))
        PROVE  \E w \in ParsePart(c[5], 5) : d = (w + 6) % 7
    <3>1. CASE PartNames(c[5], 5, sundayFirst)
      BY <1>0, <2>1, <3>1
    <3>2. CASE sundayFirst = 0 /\ PartNames(c[5], 5, 7)
      <4>1. 7 \in ParsePart(c[5], 5)
        BY <2>1, <3>2
      <4>2. d = 6 /\ (7 + 6) % 7 = 6
        BY <3>2, Weekdays
      <4> QED  BY <4>1, <4>2
    <3> QED  BY <2>2, <3>1, <3>2
  <2>3. ASSUME PlainWeekdays(c), NEW w \in ParsePart(c[5], 5), d = (w + 6) % 7
        PROVE  PartNames(c[5], 5, sundayFirst) \/ (sundayFirst = 0 /\ PartNames(c[5], 5, 7))
    <3>1. w \in Nat
      BY <1>2, PartsAreNumbers
    <3>2. w <= 7
      BY <1>2, <2>3 DEF PlainWeekdays
    <3>3. w \in 0 .. 7
      BY <3>1, <3>2
    <3>4. sundayFirst = IF w = 7 THEN 0 ELSE w
      BY <2>3, <3>3, Weekdays
    <3> QED  BY <2>1, <3>1, <3>4
  <2> QED  BY <2>2, <2>3
<1> QED  BY <1>1, <1>2

\* _should_run of the parsed expression says what the expression means: it
\* enqueues on every date that is due, and on no other if the weekdays are 0 to 7.
LEMMA ShouldRunIsDue ==
  ASSUME NEW c \in Seq(Part), ~Invalid(c), NEW d, IsDate(d)
  PROVE  /\ IsDue(c, d) => ShouldRun(ParseCron(c), d)
         /\ PlainWeekdays(c) /\ ShouldRun(ParseCron(c), d) => IsDue(c, d)
<1>1. ASSUME NEW i \in 1..4
      PROVE  d[i] \in ParseCron(c)[i] <=> PartNames(c[i], i, d[i])
  <2>1. d[i] \in FieldRanges[i][1] .. FieldRanges[i][2] /\ i \in 1..5 /\ i # 5
    BY DEF IsDate
  <2>2. d[i] \in Int
    BY <2>1, FieldAssumption
  <2>3. ParseCron(c)[i] = ParsePart(c[i], i)
    BY <2>1 DEF ParseCron
  <2>4. CASE c[i].all
    BY <2>1, <2>2, <2>3, <2>4, PartIsNamed DEF PartNames
  <2>5. CASE ~c[i].all
    BY <2>1, <2>2, <2>3, <2>5, PartIsNamed
  <2> QED  BY <2>4, <2>5
<1>2. d[5] \in ParseCron(c)[5] <=> \E w \in ParsePart(c[5], 5) : d[5] = (w + 6) % 7
  BY DEF ParseCron
<1>3. d[5] \in 0 .. 6
  BY DEF IsDate
<1>4. ShouldRun(ParseCron(c), d) <=>
        /\ \A i \in 1..4 : d[i] \in ParseCron(c)[i]
        /\ d[5] \in ParseCron(c)[5]
  <2>1. \A i \in 1..5 : i \in 1..4 \/ i = 5
    OBVIOUS
  <2>2. \A i \in 1..4 : i \in 1..5
    OBVIOUS
  <2> QED  BY <2>1, <2>2 DEF ShouldRun
<1> QED  BY <1>1, <1>2, <1>3, <1>4, WeekdayIsNamed DEF IsDue

\* The date of a minute is one.
LEMMA DateOfIsDate ==
  ASSUME NEW m \in Nat
  PROVE  IsDate(DateOf(m))
<1> DEFINE Size(i) == FieldRanges[i][2] - FieldRanges[i][1] + 1
           hours == m \div Size(1)
           days == hours \div Size(2)
           months == days \div Size(3)
<1>1. ASSUME NEW i \in 1..5
      PROVE  FieldRanges[i][1] \in Nat /\ FieldRanges[i][2] \in Nat /\ Size(i) \in Nat \ {0}
  BY FieldAssumption
<1>2. hours \in Nat
  <2>1. Size(1) \in Nat \ {0}
    BY <1>1
  <2> QED  BY <2>1, DivMod
<1>3. days \in Nat
  <2>1. Size(2) \in Nat \ {0}
    BY <1>1
  <2> HIDE DEF hours
  <2> QED  BY <1>2, <2>1, DivMod
<1>4. months \in Nat
  <2>1. Size(3) \in Nat \ {0}
    BY <1>1
  <2> HIDE DEF days
  <2> QED  BY <1>3, <2>1, DivMod
<1>5. ASSUME NEW i \in 1..4, NEW n \in Nat
      PROVE  FieldRanges[i][1] + (n % Size(i)) \in FieldRanges[i][1] .. FieldRanges[i][2]
  <2>1. i \in 1..5
    OBVIOUS
  <2>2. n % Size(i) \in 0 .. Size(i) - 1
    BY <1>1, <2>1, DivMod
  <2> QED  BY <1>1, <2>1, <2>2
<1>6. (days + 6) % 7 \in 0 .. 6
  BY <1>3
<1> DEFINE d == DateOf(m)
<1>7. /\ d[1] = FieldRanges[1][1] + (m % Size(1))
      /\ d[2] = FieldRanges[2][1] + (hours % Size(2))
      /\ d[3] = FieldRanges[3][1] + (days % Size(3))
      /\ d[4] = FieldRanges[4][1] + (months % Size(4))
      /\ d[5] = (days + 6) % 7
  BY DEF DateOf
<1> HIDE DEF d, hours, days, months, Size
<1>8. \A i \in 1..4 : i = 1 \/ i = 2 \/ i = 3 \/ i = 4
  OBVIOUS
<1>9. \A i \in 1..4 : d[i] \in FieldRanges[i][1] .. FieldRanges[i][2]
  BY <1>2, <1>3, <1>4, <1>5, <1>7, <1>8
<1> QED  BY <1>6, <1>7, <1>9 DEF IsDate, d

-----------------------------------------------------------------------------
(* The invariants                                                          *)

\* A row with expression c is enqueued in minute m.
Runs(c, m) == ~Invalid(c) /\ ShouldRun(ParseCron(c), DateOf(m))

\* A coroutine at time t, over rows with the expressions cr: what it has still
\* to enqueue are rows that run in the minute in which its tick began.
GoodServer(x, t, cr) ==
  /\ x \in Server
  /\ x.pc # "down" => x.interval \in Intervals
  /\ x.pc \in Ticking => x.now <= t /\ MinuteOf(x.now) \in Minutes
  /\ x.pc = "update" => x.row \in Schedules \ x.todo
  /\ x.pc \notin {"rows", "update"} => x.todo = {}
  /\ \A r \in x.todo : Runs(cr[r], MinuteOf(x.now))

BInv ==
  /\ TypeOK
  /\ \A s \in Servers : GoodServer(srv[s], clock, cron)
  /\ \A r \in Schedules : last[r] # NULL => last[r] <= clock
  /\ \A r \in Schedules, m \in Minutes : triggers[r][m] > 0 => Runs(cron[r], m)

\* last_triggered_at tells a tick of minute m that the row was enqueued.
Marked(r, m) == last[r] # NULL /\ last[r] >= m * Minute

\* The servers that will enqueue r for m, and those that have and are to say so.
Owing(r, m) == {s \in Servers : r \in srv[s].todo /\ MinuteOf(srv[s].now) = m}
Marking(r, m) ==
  {s \in Servers : srv[s].pc = "update" /\ srv[s].row = r /\ MinuteOf(srv[s].now) = m}

Used == MaxFaults - faults

\* Until a row is marked, whoever has enqueued it is to mark it or was
\* interrupted; from then on nobody begins to owe it.
Counted(r, m) ==
  /\ ~Marked(r, m) => triggers[r][m] <= Cardinality(Marking(r, m)) + Used
  /\ Marked(r, m) => triggers[r][m] + Cardinality(Owing(r, m)) <= Cardinality(Servers) + Used

CInv == \A r \in Schedules, m \in Minutes : Counted(r, m)

\* Minute m has got what runs in it.
Covered(m) == \A r \in Schedules : Runs(cron[r], m) => triggers[r][m] > 0

\* The minutes that are over since server s has been ticking.
Behind(s) ==
  \A m \in Minutes : m < MinuteOf(clock) /\ since[s] <= m * Minute => Covered(m)

\* The sleep of server s ends in the next minute at the latest, and in this one
\* unless s has covered it.
Wakes(s) ==
  srv[s].pc = "sleep" =>
    /\ clock + srv[s].wait < (MinuteOf(clock) + 2) * Minute
    /\ \A m \in Minutes : m = MinuteOf(clock) /\ since[s] <= m * Minute =>
         Covered(m) \/ clock + srv[s].wait < (m + 1) * Minute

\* A tick and its marks are of the current minute.
InTime(s) ==
  /\ srv[s].pc \in Ticking => MinuteOf(srv[s].now) = MinuteOf(clock)
  /\ srv[s].pc = "update" => triggers[srv[s].row][MinuteOf(clock)] > 0
  /\ srv[s].pc \in {"rows", "update"} =>
       \A r \in Schedules : Runs(cron[r], MinuteOf(clock)) =>
         r \in srv[s].todo \/ triggers[r][MinuteOf(clock)] > 0

\* A row's mark is of a minute it was enqueued for.
MarksHold ==
  \A r \in Schedules : last[r] # NULL =>
    MinuteOf(last[r]) \in Minutes /\ triggers[r][MinuteOf(last[r])] > 0

NInv ==
  ~straddled =>
    /\ MarksHold
    /\ \A s \in Servers : InTime(s)
    /\ \A s \in Servers :
         srv[s].pc # "down" /\ srv[s].interval + Lateness <= Minute => Behind(s) /\ Wakes(s)

-----------------------------------------------------------------------------
(* Time and coroutines                                                     *)

\* The minute of a time.
LEMMA MinuteFacts ==
  ASSUME NEW t \in Nat
  PROVE  /\ MinuteOf(t) \in Nat
         /\ MinuteOf(t) * Minute <= t /\ t < MinuteOf(t) * Minute + Minute
BY SchedulerAssumption, DivMod DEF MinuteOf

\* Times of a minute have that minute.
LEMMA MinuteIs ==
  ASSUME NEW q \in Nat, NEW t \in Nat, q * Minute <= t, t < q * Minute + Minute
  PROVE  MinuteOf(t) = q
<1>1. Minute \in Nat \ {0}
  BY SchedulerAssumption
<1>2. \A b \in Nat \ {0} : q * b <= t /\ t < q * b + b => t \div b = q
  OBVIOUS
<1> QED  BY <1>1, <1>2 DEF MinuteOf

\* Minutes follow one another.
LEMMA MinutesFollow ==
  ASSUME NEW m \in Nat, NEW q \in Nat
  PROVE  /\ m * Minute \in Nat
         /\ m < q => m * Minute + Minute <= q * Minute
         /\ m <= q => m * Minute <= q * Minute
         /\ (m + 1) * Minute = m * Minute + Minute
         /\ (m + 2) * Minute = m * Minute + Minute + Minute
<1>1. Minute \in Nat \ {0}
  BY SchedulerAssumption
<1> QED  BY <1>1

\* The coroutine of server s has moved, and the others have not.
Moved(s) ==
  /\ srv' \in [Servers -> Server]
  /\ \A q \in Servers : q # s => srv'[q] = srv[q]
  /\ GoodServer(srv'[s], clock, cron)
  /\ UNCHANGED <<clock, cron>>

\* A coroutine becomes x.
LEMMA MovedTo ==
  ASSUME BInv, NEW s \in Servers, NEW x, srv' = [srv EXCEPT ![s] = x],
         GoodServer(x, clock, cron), UNCHANGED <<clock, cron>>
  PROVE  Moved(s) /\ srv'[s] = x
<1>1. srv \in [Servers -> Server] /\ x \in Server
  BY DEF BInv, TypeOK, GoodServer
<1> QED  BY <1>1 DEF Moved

\* Between two ticks nothing is to be enqueued.
LEMMA AsleepIsGood ==
  ASSUME NEW i \in Intervals, NEW n \in Nat, NEW t, NEW cr
  PROVE  /\ GoodServer(Asleep(i, n), t, cr) /\ GoodServer(Down, t, cr)
         /\ Asleep(i, n).pc = "sleep" /\ Asleep(i, n).interval = i /\ Asleep(i, n).wait = n
         /\ Asleep(i, n).todo = {}
<1>1. Asleep(i, n) \in Server /\ Down \in Server
  BY DEF Asleep, Down, Server
<1>2. /\ Asleep(i, n).pc = "sleep" /\ Asleep(i, n).interval = i /\ Asleep(i, n).wait = n
      /\ Asleep(i, n).todo = {}
  BY DEF Asleep
<1> QED  BY <1>1, <1>2 DEF GoodServer, Down, Asleep, Ticking

\* What a server that is down is.
LEMMA DownFacts ==
  ASSUME NEW t, NEW cr
  PROVE  GoodServer(Down, t, cr) /\ Down.pc = "down" /\ Down.todo = {}
<1>1. Down \in Server /\ Down.pc = "down" /\ Down.todo = {}
  BY DEF Asleep, Down, Server
<1> QED  BY <1>1 DEF GoodServer, Ticking

\* What a step has to do with the coroutine it moves, action by action.
LEMMA StartMoves ==
  ASSUME BInv, NEW s \in Servers, Start(s)
  PROVE  /\ Moved(s) /\ UNCHANGED <<last, triggers, straddled, faults>>
         /\ srv[s].pc = "down" /\ srv'[s].pc = "sleep" /\ srv'[s].wait = Lateness
         /\ srv'[s].todo = {} /\ srv'[s].interval \in Intervals
         /\ since' = [since EXCEPT ![s] = clock]
<1>0. UNCHANGED <<clock, cron>> /\ UNCHANGED <<last, triggers, straddled, faults>>
  BY DEF Start, rowVars
<1>1. PICK i \in Intervals : srv' = [srv EXCEPT ![s] = Asleep(i, Lateness)]
  BY DEF Start
<1>2. /\ GoodServer(Asleep(i, Lateness), clock, cron) /\ Asleep(i, Lateness).pc = "sleep"
      /\ Asleep(i, Lateness).wait = Lateness /\ Asleep(i, Lateness).todo = {}
      /\ Asleep(i, Lateness).interval = i
  BY AsleepIsGood, SchedulerAssumption
<1>3. Moved(s) /\ srv'[s] = Asleep(i, Lateness)
  BY <1>0, <1>1, <1>2, MovedTo
<1> QED  BY <1>0, <1>2, <1>3 DEF Start

\* BeginTick takes the time.
LEMMA BeginTickMoves ==
  ASSUME BInv, NEW s \in Servers, BeginTick(s)
  PROVE  /\ Moved(s) /\ UNCHANGED <<last, triggers, since, straddled, faults>>
         /\ srv[s].pc = "sleep" /\ srv[s].todo = {} /\ srv'[s].pc = "select"
         /\ srv'[s].todo = {} /\ srv'[s].now = clock /\ srv'[s].interval = srv[s].interval
<1>0. /\ UNCHANGED <<clock, cron>> /\ UNCHANGED <<last, triggers, since, straddled, faults>>
      /\ srv[s].pc = "sleep"
  BY DEF BeginTick, rowVars
<1>1. /\ srv \in [Servers -> Server] /\ GoodServer(srv[s], clock, cron) /\ clock \in Nat
      /\ srv[s] \in Server
  BY SchedulerAssumption DEF BInv, TypeOK
<1> DEFINE x == [srv[s] EXCEPT !.pc = "select", !.now = clock]
<1>2. srv' = [srv EXCEPT ![s] = x]
  BY <1>1 DEF BeginTick
<1>3. /\ x \in Server /\ x.pc = "select" /\ x.now = clock /\ x.todo = srv[s].todo
      /\ x.interval = srv[s].interval
  BY <1>1 DEF Server, Ticking
<1> HIDE DEF x
<1>4. x.todo = {} /\ x.interval \in Intervals /\ MinuteOf(clock) \in Minutes
  BY <1>0, <1>1, <1>3 DEF GoodServer, BeginTick
<1>5. GoodServer(x, clock, cron)
  BY <1>1, <1>3, <1>4 DEF GoodServer
<1>6. Moved(s) /\ srv'[s] = x
  BY <1>0, <1>2, <1>5, MovedTo
<1> QED  BY <1>0, <1>3, <1>4, <1>6

\* Select finds what runs and is not marked.
LEMMA SelectMoves ==
  ASSUME BInv, NEW s \in Servers, Select(s)
  PROVE  /\ Moved(s) /\ UNCHANGED <<last, triggers, since, straddled, faults>>
         /\ srv[s].pc = "select" /\ srv[s].todo = {} /\ srv'[s].pc = "rows"
         /\ srv'[s].now = srv[s].now /\ srv'[s].interval = srv[s].interval
         /\ \A r \in Schedules : r \in srv'[s].todo <=>
              /\ Runs(cron[r], MinuteOf(srv[s].now))
              /\ ~Marked(r, MinuteOf(srv[s].now))
<1>0. /\ UNCHANGED <<clock, cron>> /\ UNCHANGED <<last, triggers, since, straddled, faults>>
      /\ srv[s].pc = "select"
  BY DEF Select, rowVars
<1>1. /\ srv \in [Servers -> Server] /\ GoodServer(srv[s], clock, cron)
      /\ srv[s] \in Server
  BY DEF BInv, TypeOK
<1> DEFINE now == srv[s].now
           todo == {r \in Schedules : /\ ~Invalid(cron[r])
                                      /\ ShouldRun(ParseCron(cron[r]), DateOf(MinuteOf(now)))
                                      /\ ~Triggered(r, now)}
           x == [srv[s] EXCEPT !.pc = "rows", !.todo = todo]
<1>2. srv' = [srv EXCEPT ![s] = x]
  BY <1>1 DEF Select
<1>3. \A r \in Schedules : r \in todo <=> Runs(cron[r], MinuteOf(now)) /\ ~Marked(r, MinuteOf(now))
  BY DEF Runs, Triggered, Marked
<1>4. todo \subseteq Schedules
  OBVIOUS
<1> HIDE DEF todo
<1>5. /\ x \in Server /\ x.pc = "rows" /\ x.now = now /\ x.todo = todo
      /\ x.interval = srv[s].interval
  BY <1>1, <1>4 DEF Server, Ticking
<1> HIDE DEF x
<1>6. GoodServer(x, clock, cron)
  BY <1>0, <1>1, <1>3, <1>4, <1>5 DEF GoodServer, Ticking
<1>7. Moved(s) /\ srv'[s] = x
  BY <1>0, <1>2, <1>6, MovedTo
<1>8. srv[s].todo = {}
  BY <1>0, <1>1 DEF GoodServer
<1> QED  BY <1>0, <1>3, <1>5, <1>7, <1>8

\* One more enqueue of r for minute m.
OneMore(r, m) ==
  /\ triggers' \in [Schedules -> [Minutes -> Nat]]
  /\ triggers'[r][m] = triggers[r][m] + 1
  /\ \A q \in Schedules, n \in Minutes : q # r \/ n # m => triggers'[q][n] = triggers[q][n]

\* Trigger counts an enqueue of a row for the minute of the tick.
LEMMA TriggerCounts ==
  ASSUME BInv, NEW s \in Servers, srv[s].pc = "rows", NEW r \in srv[s].todo, Trigger(s, r)
  PROVE  /\ r \in Schedules /\ MinuteOf(srv[s].now) \in Minutes
         /\ Runs(cron[r], MinuteOf(srv[s].now))
         /\ OneMore(r, MinuteOf(srv[s].now))
<1>1. GoodServer(srv[s], clock, cron) /\ triggers \in [Schedules -> [Minutes -> Nat]]
  BY DEF BInv, TypeOK
<1>2. /\ r \in Schedules /\ MinuteOf(srv[s].now) \in Minutes
      /\ Runs(cron[r], MinuteOf(srv[s].now))
  BY <1>1 DEF GoodServer, Server, Ticking
<1> DEFINE m == MinuteOf(srv[s].now)
<1>3. triggers' = [triggers EXCEPT ![r][m] = @ + 1] /\ m \in Minutes
  BY <1>2 DEF Trigger
<1> HIDE DEF m
<1>4. OneMore(r, m)
  BY <1>1, <1>2, <1>3 DEF OneMore
<1> QED  BY <1>2, <1>4 DEF m

\* Enqueue counts, and goes on to mark the row.
LEMMA EnqueueMoves ==
  ASSUME BInv, NEW s \in Servers, Enqueue(s)
  PROVE  /\ Moved(s) /\ UNCHANGED <<last, since, straddled, faults>>
         /\ srv[s].pc = "rows" /\ srv'[s].pc = "update"
         /\ srv'[s].now = srv[s].now /\ srv'[s].interval = srv[s].interval
         /\ MinuteOf(srv[s].now) \in Minutes
         /\ \E r \in srv[s].todo :
              /\ r \in Schedules /\ Runs(cron[r], MinuteOf(srv[s].now))
              /\ srv'[s].todo = srv[s].todo \ {r} /\ srv'[s].row = r
              /\ OneMore(r, MinuteOf(srv[s].now))
<1>0. /\ UNCHANGED <<clock, cron>> /\ UNCHANGED <<last, since, straddled, faults>>
      /\ srv[s].pc = "rows"
  BY DEF Enqueue
<1>1. /\ srv \in [Servers -> Server] /\ GoodServer(srv[s], clock, cron)
      /\ srv[s] \in Server
  BY DEF BInv, TypeOK
<1>2. PICK r \in srv[s].todo :
        /\ Trigger(s, r)
        /\ srv' = [srv EXCEPT ![s].pc = "update", ![s].todo = @ \ {r}, ![s].row = r]
  BY DEF Enqueue
<1> DEFINE x == [srv[s] EXCEPT !.pc = "update", !.todo = srv[s].todo \ {r}, !.row = r]
<1>3. /\ r \in Schedules /\ MinuteOf(srv[s].now) \in Minutes
      /\ Runs(cron[r], MinuteOf(srv[s].now)) /\ OneMore(r, MinuteOf(srv[s].now))
  BY <1>0, <1>2, TriggerCounts
<1>4. srv' = [srv EXCEPT ![s] = x]
  BY <1>1, <1>2
<1>5. /\ x \in Server /\ x.pc = "update" /\ x.now = srv[s].now /\ x.todo = srv[s].todo \ {r}
      /\ x.row = r /\ x.interval = srv[s].interval
  BY <1>1, <1>3 DEF Server, Ticking
<1> HIDE DEF x
<1>6. GoodServer(x, clock, cron)
  BY <1>0, <1>1, <1>3, <1>5 DEF GoodServer, Ticking
<1>7. Moved(s) /\ srv'[s] = x
  BY <1>0, <1>4, <1>6, MovedTo
<1> QED  BY <1>0, <1>3, <1>5, <1>7

\* Row r is marked at the time it is.
Marks(r) ==
  /\ last' \in [Schedules -> Nat \cup {NULL}]
  /\ last'[r] = clock
  /\ \A q \in Schedules : q # r => last'[q] = last[q]

\* MarkTriggered marks the row that was enqueued.
LEMMA MarkTriggeredMarks ==
  ASSUME BInv, NEW s \in Servers, srv[s].pc = "update", MarkTriggered(s)
  PROVE  /\ srv[s].row \in Schedules \ srv[s].todo /\ MinuteOf(srv[s].now) \in Minutes
         /\ Marks(srv[s].row)
<1>1. /\ GoodServer(srv[s], clock, cron) /\ last \in [Schedules -> Nat \cup {NULL}]
      /\ clock \in Nat
  BY SchedulerAssumption DEF BInv, TypeOK
<1>2. srv[s].row \in Schedules \ srv[s].todo /\ MinuteOf(srv[s].now) \in Minutes
  BY <1>1 DEF GoodServer, Ticking
<1> DEFINE r == srv[s].row
<1>3. last' = [last EXCEPT ![r] = clock] /\ r \in Schedules
  BY <1>2 DEF MarkTriggered
<1> HIDE DEF r
<1>4. Marks(r)
  BY <1>1, <1>3 DEF Marks
<1> QED  BY <1>2, <1>4 DEF r

\* Update marks the row, and goes on with the next.
LEMMA UpdateMoves ==
  ASSUME BInv, NEW s \in Servers, Update(s)
  PROVE  /\ Moved(s) /\ UNCHANGED <<triggers, since, straddled, faults>>
         /\ srv[s].pc = "update" /\ srv'[s].pc = "rows" /\ srv'[s].todo = srv[s].todo
         /\ srv'[s].now = srv[s].now /\ srv'[s].interval = srv[s].interval
         /\ srv[s].row \in Schedules \ srv[s].todo /\ MinuteOf(srv[s].now) \in Minutes
         /\ Marks(srv[s].row)
<1>0. /\ UNCHANGED <<clock, cron>> /\ UNCHANGED <<triggers, since, straddled, faults>>
      /\ srv[s].pc = "update"
  BY DEF Update
<1>1. /\ srv \in [Servers -> Server] /\ GoodServer(srv[s], clock, cron)
      /\ srv[s] \in Server
  BY DEF BInv, TypeOK
<1>2. /\ srv[s].row \in Schedules \ srv[s].todo /\ MinuteOf(srv[s].now) \in Minutes
      /\ Marks(srv[s].row)
  BY <1>0, MarkTriggeredMarks DEF Update
<1> DEFINE x == [srv[s] EXCEPT !.pc = "rows", !.row = NULL]
<1>3. srv' = [srv EXCEPT ![s] = x]
  BY <1>1 DEF Update
<1>4. /\ x \in Server /\ x.pc = "rows" /\ x.now = srv[s].now /\ x.todo = srv[s].todo
      /\ x.interval = srv[s].interval
  BY <1>1 DEF Server, Ticking
<1> HIDE DEF x
<1>5. GoodServer(x, clock, cron)
  BY <1>0, <1>1, <1>4 DEF GoodServer, Ticking
<1>6. Moved(s) /\ srv'[s] = x
  BY <1>0, <1>3, <1>5, MovedTo
<1> QED  BY <1>0, <1>2, <1>4, <1>6

\* EndTick sleeps for an interval.
LEMMA EndTickMoves ==
  ASSUME BInv, NEW s \in Servers, EndTick(s)
  PROVE  /\ Moved(s) /\ UNCHANGED <<last, triggers, since, straddled, faults>>
         /\ srv[s].pc = "rows" /\ srv[s].todo = {} /\ srv'[s].pc = "sleep"
         /\ srv'[s].wait = srv[s].interval + Lateness /\ srv'[s].interval = srv[s].interval
         /\ srv'[s].todo = {} /\ srv[s].interval \in Intervals
<1>0. /\ UNCHANGED <<clock, cron>> /\ UNCHANGED <<last, triggers, since, straddled, faults>>
      /\ srv[s].pc = "rows" /\ srv[s].todo = {}
  BY DEF EndTick, rowVars
<1>1. srv \in [Servers -> Server] /\ GoodServer(srv[s], clock, cron)
  BY DEF BInv, TypeOK
<1>2. PICK i \in Intervals, n \in Nat : i = srv[s].interval /\ n = i + Lateness
  BY <1>0, <1>1, SchedulerAssumption DEF GoodServer
<1>3. srv' = [srv EXCEPT ![s] = Asleep(i, n)]
  BY <1>1, <1>2 DEF EndTick
<1>4. /\ GoodServer(Asleep(i, n), clock, cron) /\ Asleep(i, n).pc = "sleep"
      /\ Asleep(i, n).interval = i /\ Asleep(i, n).todo = {}
      /\ Asleep(i, n).wait = n
  BY <1>2, AsleepIsGood
<1>5. Moved(s) /\ srv'[s] = Asleep(i, n)
  BY <1>0, <1>3, <1>4, MovedTo
<1> QED  BY <1>0, <1>2, <1>4, <1>5

\* What an interrupted statement may have done.
Lost(s) ==
  \/ UNCHANGED <<last, triggers>>
  \/ /\ srv[s].pc = "rows" /\ UNCHANGED last /\ MinuteOf(srv[s].now) \in Minutes
     /\ \E r \in srv[s].todo : /\ r \in Schedules /\ Runs(cron[r], MinuteOf(srv[s].now))
                               /\ OneMore(r, MinuteOf(srv[s].now))
  \/ /\ srv[s].pc = "update" /\ UNCHANGED triggers /\ MinuteOf(srv[s].now) \in Minutes
     /\ srv[s].row \in Schedules \ srv[s].todo /\ Marks(srv[s].row)

\* A tick that fails and a server that stops are interrupted, at a fault.
LEMMA InterruptedMoves ==
  ASSUME BInv, NEW s \in Servers, TickFails(s) \/ Stop(s)
  PROVE  /\ Moved(s) /\ UNCHANGED straddled /\ Lost(s)
         /\ faults' = faults - 1 /\ faults > 0
         /\ srv'[s].todo = {}
         /\ \/ /\ srv'[s].pc = "sleep" /\ srv[s].pc \in Ticking
               /\ srv[s].interval \in Intervals /\ srv'[s].interval = srv[s].interval
               /\ srv'[s].wait = srv[s].interval + Lateness /\ since' = [since EXCEPT ![s] = clock + 1]
            \/ srv'[s].pc = "down" /\ UNCHANGED since
<1>0. /\ UNCHANGED clock /\ UNCHANGED cron /\ UNCHANGED straddled /\ faults' = faults - 1 /\ faults > 0
      /\ LoseAnswer(s)
  BY DEF TickFails, Stop, LoseAnswer
<1>1. srv \in [Servers -> Server] /\ GoodServer(srv[s], clock, cron)
  BY DEF BInv, TypeOK
<1>2. Lost(s)
  <2>1. CASE UNCHANGED <<last, triggers>>
    BY <2>1 DEF Lost
  <2>2. CASE srv[s].pc = "rows" /\ (\E r \in srv[s].todo : Trigger(s, r)) /\ UNCHANGED last
    <3>1. PICK r \in srv[s].todo : Trigger(s, r)
      BY <2>2
    <3>2. /\ r \in Schedules /\ MinuteOf(srv[s].now) \in Minutes
          /\ Runs(cron[r], MinuteOf(srv[s].now)) /\ OneMore(r, MinuteOf(srv[s].now))
      BY <2>2, <3>1, TriggerCounts
    <3> QED  BY <2>2, <3>2 DEF Lost
  <2>3. CASE srv[s].pc = "update" /\ MarkTriggered(s) /\ UNCHANGED triggers
    <3>1. /\ srv[s].row \in Schedules \ srv[s].todo /\ MinuteOf(srv[s].now) \in Minutes
          /\ Marks(srv[s].row)
      BY <2>3, MarkTriggeredMarks
    <3> QED  BY <2>3, <3>1 DEF Lost
  <2> QED  BY <1>0, <2>1, <2>2, <2>3 DEF LoseAnswer
<1>3. CASE TickFails(s)
  <2>1. srv[s].pc \in Ticking /\ since' = [since EXCEPT ![s] = clock + 1]
    BY <1>3 DEF TickFails
  <2>2. PICK i \in Intervals, n \in Nat : i = srv[s].interval /\ n = i + Lateness
    BY <1>1, <2>1, SchedulerAssumption DEF GoodServer, Ticking
  <2>3. srv' = [srv EXCEPT ![s] = Asleep(i, n)]
    BY <1>1, <1>3, <2>2 DEF TickFails
  <2>4. /\ GoodServer(Asleep(i, n), clock, cron) /\ Asleep(i, n).pc = "sleep"
        /\ Asleep(i, n).interval = i /\ Asleep(i, n).todo = {}
      /\ Asleep(i, n).wait = n
    BY <2>2, AsleepIsGood
  <2>5. Moved(s) /\ srv'[s] = Asleep(i, n)
    BY <1>0, <2>3, <2>4, MovedTo
  <2> QED  BY <1>0, <1>2, <2>1, <2>2, <2>4, <2>5
<1>4. CASE Stop(s)
  <2>1. srv' = [srv EXCEPT ![s] = Down] /\ UNCHANGED since
    BY <1>4 DEF Stop
  <2>2. GoodServer(Down, clock, cron) /\ Down.pc = "down" /\ Down.todo = {}
    BY DownFacts
  <2>3. Moved(s) /\ srv'[s] = Down
    BY <1>0, <2>1, <2>2, MovedTo
  <2> QED  BY <1>0, <1>2, <2>1, <2>2, <2>3
<1> QED  BY <1>3, <1>4

-----------------------------------------------------------------------------
(* Types, and what was enqueued runs                                       *)

\* A step of a server enqueues one row that runs, or none, and marks one, or none.
TriggersStep ==
  \/ UNCHANGED triggers
  \/ \E r \in Schedules, m \in Minutes : Runs(cron[r], m) /\ OneMore(r, m)
LastStep == UNCHANGED last \/ \E r \in Schedules : Marks(r)

\* Such a step keeps BInv.
LEMMA ServerKeepsBInv ==
  ASSUME BInv, NEW s \in Servers, Moved(s), TriggersStep, LastStep,
         since' \in [Servers -> Nat], UNCHANGED straddled, faults' \in 0 .. MaxFaults
  PROVE  BInv'
<1>0. TypeOK /\ clock \in Nat
  BY SchedulerAssumption DEF BInv, TypeOK
<1>1. /\ triggers' \in [Schedules -> [Minutes -> Nat]]
      /\ \A r \in Schedules, m \in Minutes : triggers'[r][m] > 0 => Runs(cron[r], m)
  <2>1. CASE UNCHANGED triggers
    BY <2>1 DEF BInv, TypeOK
  <2>2. ASSUME NEW q \in Schedules, NEW n \in Minutes, Runs(cron[q], n), OneMore(q, n)
        PROVE  /\ triggers' \in [Schedules -> [Minutes -> Nat]]
               /\ \A r \in Schedules, m \in Minutes : triggers'[r][m] > 0 => Runs(cron[r], m)
    <3>1. ASSUME NEW r \in Schedules, NEW m \in Minutes, triggers'[r][m] > 0
          PROVE  Runs(cron[r], m)
      <4>1. CASE r = q /\ m = n
        BY <2>2, <4>1
      <4>2. CASE r # q \/ m # n
        <5>1. triggers'[r][m] = triggers[r][m]
          BY <2>2, <4>2 DEF OneMore
        <5> QED  BY <3>1, <5>1 DEF BInv
      <4> QED  BY <4>1, <4>2
    <3> QED  BY <2>2, <3>1 DEF OneMore
  <2> QED  BY <2>1, <2>2 DEF TriggersStep
<1>2. /\ last' \in [Schedules -> Nat \cup {NULL}]
      /\ \A r \in Schedules : last'[r] # NULL => last'[r] <= clock
  <2>1. CASE UNCHANGED last
    BY <2>1 DEF BInv, TypeOK
  <2>2. ASSUME NEW q \in Schedules, Marks(q)
        PROVE  /\ last' \in [Schedules -> Nat \cup {NULL}]
               /\ \A r \in Schedules : last'[r] # NULL => last'[r] <= clock
    <3>1. \A r \in Schedules : r = q \/ last'[r] = last[r]
      BY <2>2 DEF Marks
    <3>2. last'[q] = clock /\ clock <= clock
      BY <1>0, <2>2 DEF Marks
    <3> QED  BY <2>2, <3>1, <3>2 DEF Marks, BInv
  <2> QED  BY <2>1, <2>2 DEF LastStep
<1>3. clock' = clock /\ cron' = cron /\ srv' \in [Servers -> Server]
  BY DEF Moved
<1>4. ASSUME NEW q \in Servers PROVE GoodServer(srv'[q], clock, cron)
  BY DEF Moved, BInv
<1>5. TypeOK'
  BY <1>0, <1>1, <1>2, <1>3 DEF TypeOK
<1> QED  BY <1>1, <1>2, <1>3, <1>4, <1>5 DEF BInv

\* The steps of the servers keep BInv.
LEMMA ServersKeepBInv ==
  ASSUME BInv, NEW s \in Servers,
         \/ Start(s) \/ BeginTick(s) \/ Select(s) \/ Enqueue(s) \/ Update(s)
         \/ EndTick(s) \/ TickFails(s) \/ Stop(s)
  PROVE  BInv'
<1>0. since \in [Servers -> Nat] /\ faults \in 0 .. MaxFaults /\ clock \in Nat
  BY SchedulerAssumption DEF BInv, TypeOK
<1>1. CASE Start(s)
  <2>1. Moved(s) /\ UNCHANGED <<last, triggers, straddled, faults>> /\ since' = [since EXCEPT ![s] = clock]
    BY <1>1, StartMoves
  <2>2. TriggersStep /\ LastStep /\ since' \in [Servers -> Nat]
    BY <1>0, <2>1 DEF TriggersStep, LastStep
  <2> QED  BY <1>0, <2>1, <2>2, ServerKeepsBInv
<1>2. CASE BeginTick(s) \/ Select(s) \/ EndTick(s)
  <2>1. Moved(s) /\ UNCHANGED <<last, triggers, since, straddled, faults>>
    BY <1>2, BeginTickMoves, SelectMoves, EndTickMoves
  <2>2. TriggersStep /\ LastStep
    BY <2>1 DEF TriggersStep, LastStep
  <2> QED  BY <1>0, <2>1, <2>2, ServerKeepsBInv
<1>3. CASE Enqueue(s)
  <2>1. Moved(s) /\ UNCHANGED <<last, since, straddled, faults>>
    BY <1>3, EnqueueMoves
  <2>2. TriggersStep
    BY <1>3, EnqueueMoves DEF TriggersStep
  <2>3. LastStep
    BY <2>1 DEF LastStep
  <2> QED  BY <1>0, <2>1, <2>2, <2>3, ServerKeepsBInv
<1>4. CASE Update(s)
  <2>1. Moved(s) /\ UNCHANGED <<triggers, since, straddled, faults>>
    BY <1>4, UpdateMoves
  <2>2. LastStep
    BY <1>4, UpdateMoves DEF LastStep
  <2>3. TriggersStep
    BY <2>1 DEF TriggersStep
  <2> QED  BY <1>0, <2>1, <2>2, <2>3, ServerKeepsBInv
<1>5. CASE TickFails(s) \/ Stop(s)
  <2>1. /\ Moved(s) /\ UNCHANGED straddled /\ Lost(s) /\ faults' = faults - 1 /\ faults > 0
        /\ since' = [since EXCEPT ![s] = clock + 1] \/ UNCHANGED since
    BY <1>5, InterruptedMoves
  <2>2. TriggersStep /\ LastStep
    BY <2>1 DEF Lost, TriggersStep, LastStep
  <2>3. faults' \in 0 .. MaxFaults /\ since' \in [Servers -> Nat]
    BY <1>0, <2>1, SchedulerAssumption
  <2> QED  BY <2>1, <2>2, <2>3, ServerKeepsBInv
<1> QED  BY <1>1, <1>2, <1>3, <1>4, <1>5

\* What the clock does: sleepers come nearer to their time, the rest stays.
LEMMA TickMoves ==
  ASSUME BInv, Tick
  PROVE  /\ clock \in Nat /\ clock' = clock + 1 /\ MinuteOf(clock) < Horizon
         /\ UNCHANGED <<cron, last, triggers, since, faults>>
         /\ srv' \in [Servers -> Server]
         /\ \A s \in Servers :
              /\ srv'[s].pc = srv[s].pc /\ srv'[s].todo = srv[s].todo /\ srv'[s].row = srv[s].row
              /\ srv'[s].now = srv[s].now /\ srv'[s].interval = srv[s].interval
              /\ srv[s].pc = "sleep" => srv[s].wait \in Nat \ {0} /\ srv'[s].wait = srv[s].wait - 1
         /\ straddled' = (straddled \/ (/\ MinuteOf(clock') # MinuteOf(clock)
                                        /\ \E s \in Servers : srv[s].pc \in Ticking))
<1>0. srv \in [Servers -> Server] /\ clock \in Nat
  BY SchedulerAssumption DEF BInv, TypeOK
<1>1. UNCHANGED <<cron, last, triggers, since, faults>>
  BY DEF Tick, rowVars
<1> DEFINE y(s) == IF srv[s].pc = "sleep" THEN [srv[s] EXCEPT !.wait = @ - 1] ELSE srv[s]
<1>2. srv' = [s \in Servers |-> y(s)]
  BY DEF Tick
<1>3. ASSUME NEW s \in Servers
      PROVE  /\ y(s) \in Server
             /\ y(s).pc = srv[s].pc /\ y(s).todo = srv[s].todo /\ y(s).row = srv[s].row
             /\ y(s).now = srv[s].now /\ y(s).interval = srv[s].interval
             /\ srv[s].pc = "sleep" => srv[s].wait \in Nat \ {0} /\ y(s).wait = srv[s].wait - 1
  <2>1. srv[s] \in Server
    BY <1>0
  <2>2. srv[s].pc = "sleep" => srv[s].wait \in Nat \ {0}
    BY <2>1 DEF Tick, Server
  <2>3. CASE srv[s].pc = "sleep"
    <3>1. srv[s].wait - 1 \in Nat
      BY <2>2, <2>3
    <3> QED  BY <2>1, <2>2, <2>3, <3>1 DEF Server
  <2>4. CASE srv[s].pc # "sleep"
    BY <2>1, <2>4
  <2> QED  BY <2>3, <2>4
<1> HIDE DEF y
<1>4. srv' \in [Servers -> Server] /\ \A s \in Servers : srv'[s] = y(s)
  BY <1>2, <1>3
<1> QED  BY <1>0, <1>1, <1>3, <1>4 DEF Tick

\* The clock keeps BInv.
LEMMA TickKeepsBInv ==
  ASSUME BInv, Tick
  PROVE  BInv'
<1>0. TypeOK /\ straddled \in BOOLEAN /\ Horizon \in Nat /\ Minute \in Nat \ {0}
  BY SchedulerAssumption DEF BInv, TypeOK
<1>1. /\ clock \in Nat /\ clock' = clock + 1 /\ MinuteOf(clock) < Horizon
      /\ UNCHANGED <<cron, last, triggers, since, faults>>
      /\ srv' \in [Servers -> Server]
      /\ \A s \in Servers :
           /\ srv'[s].pc = srv[s].pc /\ srv'[s].todo = srv[s].todo /\ srv'[s].row = srv[s].row
           /\ srv'[s].now = srv[s].now /\ srv'[s].interval = srv[s].interval
      /\ straddled' \in BOOLEAN
  BY <1>0, TickMoves
<1>2. clock' \in 0 .. Horizon * Minute
  <2>1. MinuteOf(clock) \in Nat /\ clock < MinuteOf(clock) * Minute + Minute
    BY <1>1, MinuteFacts
  <2>2. MinuteOf(clock) * Minute + Minute <= Horizon * Minute
    BY <1>0, <1>1, <2>1, MinutesFollow
  <2>3. MinuteOf(clock) * Minute \in Nat /\ Horizon * Minute \in Nat
    BY <1>0, <2>1, MinutesFollow
  <2> QED  BY <1>0, <1>1, <2>1, <2>2, <2>3
<1>3. TypeOK'
  BY <1>0, <1>1, <1>2 DEF TypeOK
<1>4. ASSUME NEW s \in Servers PROVE GoodServer(srv'[s], clock', cron)
  <2>1. GoodServer(srv[s], clock, cron) /\ srv'[s] \in Server /\ srv[s].now \in Nat
    BY <1>0, <1>1 DEF BInv, TypeOK, Server
  <2> QED  BY <1>1, <2>1 DEF GoodServer
<1>5. \A r \in Schedules : last'[r] # NULL => last'[r] <= clock'
  <2>1. \A r \in Schedules : last[r] # NULL => last[r] \in Nat /\ last[r] <= clock
    BY DEF BInv, TypeOK
  <2> QED  BY <1>1, <2>1
<1> QED  BY <1>1, <1>3, <1>4, <1>5 DEF BInv

\* BInv is inductive.
LEMMA BInvInductive ==
  /\ Init => BInv
  /\ BInv /\ [Next]_vars => BInv'
<1>1. ASSUME Init PROVE BInv
  <2>1. GoodServer(Down, clock, cron) /\ Down \in Server
    BY DownFacts DEF GoodServer
  <2>2. 0 \in 0 .. Horizon * Minute /\ MaxFaults \in 0 .. MaxFaults
    BY SchedulerAssumption
  <2>3. /\ clock = 0 /\ cron \in [Schedules -> Crons] /\ last = [r \in Schedules |-> NULL]
        /\ srv = [s \in Servers |-> Down]
        /\ triggers = [r \in Schedules |-> [m \in Minutes |-> 0]]
        /\ since = [s \in Servers |-> 0] /\ straddled = FALSE /\ faults = MaxFaults
    BY <1>1 DEF Init
  <2>4. TypeOK
    BY <2>1, <2>2, <2>3 DEF TypeOK
  <2>5. \A s \in Servers : GoodServer(srv[s], clock, cron)
    BY <2>1, <2>3
  <2> QED  BY <2>3, <2>4, <2>5 DEF BInv
<1>2. ASSUME BInv, [Next]_vars PROVE BInv'
  <2>1. CASE UNCHANGED vars
    <3>1. UNCHANGED <<clock, cron, last, srv, triggers, since, straddled, faults>>
      BY <2>1 DEF vars
    <3> QED  BY <1>2, <3>1 DEF BInv, TypeOK
  <2>2. CASE Tick
    BY <1>2, <2>2, TickKeepsBInv
  <2> QED  BY <1>2, <2>1, <2>2, ServersKeepBInv DEF Next, AtHorizon
<1> QED  BY <1>1, <1>2

\* BInv holds in every reachable state.
LEMMA BInvAlways == Spec => []BInv
<1>1. Init => BInv
  BY BInvInductive
<1>2. BInv /\ [Next]_vars => BInv'
  BY BInvInductive
<1> QED  BY <1>1, <1>2, PTL DEF Spec

\* Type correctness, for every number of servers, rows, minutes and faults.
THEOREM SchedulerTypeOK == Spec => []TypeOK
<1>1. BInv => TypeOK
  BY DEF BInv
<1> QED  BY <1>1, BInvAlways, PTL

\* The minutes in the table are those the expression names.
LEMMA DueMinutesAre ==
  ASSUME NEW c \in Crons, NEW m \in Minutes
  PROVE  m \in DueMinutes[c] <=> ~Invalid(c) /\ IsDue(c, DateOf(m))
BY DEF DueMinutes

\* A row is enqueued only for minutes its expression names, if the weekdays it
\* spells out are 0 to 7; whatever the servers do, and however late.
THEOREM TriggersAreAlwaysDue ==
  (\A c \in Crons : PlainWeekdays(c)) => (Spec => []TriggersAreDue)
<1> SUFFICES ASSUME \A c \in Crons : PlainWeekdays(c) PROVE Spec => []TriggersAreDue
  OBVIOUS
<1>1. BInv => TriggersAreDue
  <2> SUFFICES ASSUME BInv, NEW r \in Schedules, NEW m \in Minutes, triggers[r][m] > 0
               PROVE  m \in DueMinutes[cron[r]]
    BY DEF TriggersAreDue
  <2>1. Runs(cron[r], m)
    BY DEF BInv
  <2>2. cron[r] \in Crons
    BY DEF BInv, TypeOK
  <2>3. cron[r] \in Seq(Part)
    BY <2>2, SchedulerAssumption
  <2>4. IsDate(DateOf(m))
    BY DateOfIsDate, SchedulerAssumption DEF Minutes
  <2>5. PlainWeekdays(cron[r])
    BY <2>2
  <2>6. ~Invalid(cron[r]) /\ IsDue(cron[r], DateOf(m))
    BY <2>1, <2>3, <2>4, <2>5, ShouldRunIsDue DEF Runs
  <2> QED  BY <2>2, <2>6, DueMinutesAre
<1> QED  BY <1>1, BInvAlways, PTL

-----------------------------------------------------------------------------
(* How often a row is enqueued for a minute                                *)

\* Sets of servers that differ in one at most.
LEMMA CardinalityOfOne ==
  ASSUME NEW S \in SUBSET Servers, NEW T \in SUBSET Servers, NEW s \in Servers,
         \A q \in Servers : q # s => (q \in S <=> q \in T)
  PROVE  /\ Cardinality(S) \in Nat /\ Cardinality(T) \in Nat
         /\ (s \in S <=> s \in T) => Cardinality(T) = Cardinality(S)
         /\ s \in T => Cardinality(T) <= Cardinality(S) + 1 /\ Cardinality(T) >= Cardinality(S)
         /\ s \in T /\ s \notin S => Cardinality(T) = Cardinality(S) + 1
         /\ s \notin T => Cardinality(T) <= Cardinality(S) /\ Cardinality(S) <= Cardinality(T) + 1
         /\ s \notin T /\ s \in S => Cardinality(S) = Cardinality(T) + 1
<1>1. IsFiniteSet(S) /\ IsFiniteSet(T)
  BY SchedulerAssumption, FS_Subset
<1>2. Cardinality(S) \in Nat /\ Cardinality(T) \in Nat
  BY <1>1, FS_CardinalityType
<1>3. CASE s \in S <=> s \in T
  <2>1. S = T
    BY <1>3
  <2> QED  BY <1>2, <2>1
<1>4. CASE s \in T /\ s \notin S
  <2>1. T = S \cup {s}
    BY <1>4
  <2>2. Cardinality(S \cup {s}) = Cardinality(S) + 1
    BY <1>1, <1>4, FS_AddElement
  <2> QED  BY <1>2, <1>4, <2>1, <2>2
<1>5. CASE s \in S /\ s \notin T
  <2>1. S = T \cup {s}
    BY <1>5
  <2>2. Cardinality(T \cup {s}) = Cardinality(T) + 1
    BY <1>1, <1>5, FS_AddElement
  <2> QED  BY <1>2, <1>5, <2>1, <2>2
<1> QED  BY <1>3, <1>4, <1>5

\* No server both owes a row and is to mark it.
LEMMA OwingOrMarking ==
  ASSUME BInv, NEW r \in Schedules, NEW m \in Minutes
  PROVE  Cardinality(Owing(r, m)) + Cardinality(Marking(r, m)) <= Cardinality(Servers)
<1> DEFINE O == Owing(r, m)  K == Marking(r, m)
<1>1. O \subseteq Servers /\ K \subseteq Servers
  BY DEF Owing, Marking
<1>2. O \cap K = {}
  <2> SUFFICES ASSUME NEW s \in O, s \in K PROVE FALSE
    OBVIOUS
  <2>1. s \in Servers /\ r \in srv[s].todo /\ srv[s].pc = "update" /\ srv[s].row = r
    BY DEF Owing, Marking
  <2> QED  BY <2>1 DEF BInv, GoodServer
<1> HIDE DEF O, K
<1>3. IsFiniteSet(O) /\ IsFiniteSet(K) /\ IsFiniteSet(Servers)
  BY <1>1, SchedulerAssumption, FS_Subset
<1>4. /\ Cardinality(O) \in Nat /\ Cardinality(K) \in Nat /\ Cardinality(Servers) \in Nat
      /\ Cardinality(O \cap K) = 0
  BY <1>2, <1>3, FS_CardinalityType, FS_EmptySet
<1>5. Cardinality(O \cup K) = Cardinality(O) + Cardinality(K) - Cardinality(O \cap K)
  BY <1>3, FS_Union
<1>6. Cardinality(O \cup K) <= Cardinality(Servers)
  <2>1. O \cup K \subseteq Servers
    BY <1>1
  <2> QED  BY <1>3, <2>1, FS_Subset
<1>7. Cardinality(O) + Cardinality(K) <= Cardinality(Servers)
  BY <1>4, <1>5, <1>6
<1> QED  BY <1>7 DEF O, K

\* The counts before and after a step of server s.
LEMMA CountsAfter ==
  ASSUME BInv, NEW s \in Servers, Moved(s), NEW r \in Schedules, NEW m \in Minutes
  PROVE  /\ Cardinality(Owing(r, m)) \in Nat /\ Cardinality(Owing(r, m)') \in Nat
         /\ Cardinality(Marking(r, m)) \in Nat /\ Cardinality(Marking(r, m)') \in Nat
         /\ (s \in Owing(r, m) <=> s \in Owing(r, m)') =>
              Cardinality(Owing(r, m)') = Cardinality(Owing(r, m))
         /\ s \notin Owing(r, m)' => Cardinality(Owing(r, m)') <= Cardinality(Owing(r, m))
         /\ s \notin Owing(r, m)' /\ s \in Owing(r, m) =>
              Cardinality(Owing(r, m)) = Cardinality(Owing(r, m)') + 1
         /\ (s \in Marking(r, m) <=> s \in Marking(r, m)') =>
              Cardinality(Marking(r, m)') = Cardinality(Marking(r, m))
         /\ s \in Marking(r, m)' /\ s \notin Marking(r, m) =>
              Cardinality(Marking(r, m)') = Cardinality(Marking(r, m)) + 1
         /\ s \notin Marking(r, m)' => Cardinality(Marking(r, m)) <= Cardinality(Marking(r, m)') + 1
<1>1. \A q \in Servers : q # s => srv'[q] = srv[q]
  BY DEF Moved
<1>2. /\ Owing(r, m) \in SUBSET Servers /\ Owing(r, m)' \in SUBSET Servers
      /\ \A q \in Servers : q # s => (q \in Owing(r, m) <=> q \in Owing(r, m)')
  BY <1>1 DEF Owing
<1>3. /\ Marking(r, m) \in SUBSET Servers /\ Marking(r, m)' \in SUBSET Servers
      /\ \A q \in Servers : q # s => (q \in Marking(r, m) <=> q \in Marking(r, m)')
  BY <1>1 DEF Marking
<1> DEFINE O == Owing(r, m)  O1 == Owing(r, m)'  K == Marking(r, m)  K1 == Marking(r, m)'
<1> HIDE DEF O, O1, K, K1
<1>4. /\ Cardinality(O) \in Nat /\ Cardinality(O1) \in Nat
      /\ (s \in O <=> s \in O1) => Cardinality(O1) = Cardinality(O)
      /\ s \notin O1 => Cardinality(O1) <= Cardinality(O)
      /\ s \notin O1 /\ s \in O => Cardinality(O) = Cardinality(O1) + 1
  BY <1>2, CardinalityOfOne DEF O, O1
<1>5. /\ Cardinality(K) \in Nat /\ Cardinality(K1) \in Nat
      /\ (s \in K <=> s \in K1) => Cardinality(K1) = Cardinality(K)
      /\ s \in K1 /\ s \notin K => Cardinality(K1) = Cardinality(K) + 1
      /\ s \notin K1 => Cardinality(K) <= Cardinality(K1) + 1
  BY <1>3, CardinalityOfOne DEF K, K1
<1> QED  BY <1>4, <1>5 DEF O, O1, K, K1

\* The numbers of a row and a minute are numbers.
LEMMA CountTypes ==
  ASSUME BInv, NEW r \in Schedules, NEW m \in Minutes
  PROVE  /\ triggers[r][m] \in Nat /\ Used \in Nat /\ m \in Nat /\ m * Minute \in Nat
         /\ Cardinality(Servers) \in Nat
         /\ last[r] # NULL => last[r] \in Nat /\ last[r] <= clock
         /\ clock \in Nat
<1>1. m \in Nat
  BY SchedulerAssumption DEF Minutes
<1>2. m * Minute \in Nat
  BY <1>1, SchedulerAssumption
<1>3. Cardinality(Servers) \in Nat
  BY SchedulerAssumption, FS_CardinalityType
<1>4. Used \in Nat
  BY SchedulerAssumption DEF BInv, TypeOK, Used
<1> QED  BY <1>1, <1>2, <1>3, <1>4, SchedulerAssumption DEF BInv, TypeOK

\* A step that neither enqueues nor marks, and begins to owe only what is not
\* marked.
LEMMA QuietKeepsCount ==
  ASSUME BInv, NEW s \in Servers, Moved(s), UNCHANGED <<last, triggers, faults>>,
         NEW r \in Schedules, NEW m \in Minutes, Counted(r, m),
         s \notin Marking(r, m), s \notin Marking(r, m)',
         Marked(r, m) => (s \in Owing(r, m) <=> s \in Owing(r, m)')
  PROVE  Counted(r, m)'
<1>1. Cardinality(Marking(r, m)') = Cardinality(Marking(r, m))
  BY CountsAfter
<1>2. Marked(r, m) => Cardinality(Owing(r, m)') = Cardinality(Owing(r, m))
  BY CountsAfter
<1>3. /\ Marked(r, m)' <=> Marked(r, m)
      /\ triggers' = triggers /\ Used' = Used
  BY DEF Marked, Used
<1> QED  BY <1>1, <1>2, <1>3 DEF Counted

\* Enqueue: who owed is to mark.
LEMMA EnqueueKeepsCount ==
  ASSUME BInv, NEW s \in Servers, Enqueue(s), NEW r \in Schedules, NEW m \in Minutes, Counted(r, m)
  PROVE  Counted(r, m)'
<1>0. /\ Moved(s) /\ UNCHANGED <<last, since, straddled, faults>>
      /\ srv[s].pc = "rows" /\ srv'[s].pc = "update" /\ srv'[s].now = srv[s].now
      /\ MinuteOf(srv[s].now) \in Minutes
  BY EnqueueMoves
<1>1. PICK q \in srv[s].todo :
        /\ q \in Schedules
        /\ srv'[s].todo = srv[s].todo \ {q} /\ srv'[s].row = q
        /\ OneMore(q, MinuteOf(srv[s].now))
  BY EnqueueMoves
<1>2. /\ Marked(r, m)' <=> Marked(r, m)
      /\ Used' = Used
  BY <1>0 DEF Marked, Used
<1>3. s \notin Marking(r, m)
  BY <1>0 DEF Marking
<1>4. CASE q = r /\ MinuteOf(srv[s].now) = m
  <2>1. s \in Owing(r, m) /\ s \notin Owing(r, m)' /\ s \in Marking(r, m)'
    BY <1>0, <1>1, <1>4 DEF Owing, Marking
  <2>2. /\ Cardinality(Owing(r, m)) = Cardinality(Owing(r, m)') + 1
        /\ Cardinality(Marking(r, m)') = Cardinality(Marking(r, m)) + 1
        /\ Cardinality(Owing(r, m)') \in Nat /\ Cardinality(Marking(r, m)) \in Nat
    BY <1>0, <1>3, <2>1, CountsAfter
  <2>3. triggers'[r][m] = triggers[r][m] + 1
    BY <1>1, <1>4 DEF OneMore
  <2>4. triggers[r][m] \in Nat /\ Used \in Nat /\ Cardinality(Servers) \in Nat
    BY CountTypes
  <2>5. CASE Marked(r, m)
    BY <1>2, <2>2, <2>3, <2>4, <2>5 DEF Counted
  <2>6. CASE ~Marked(r, m)
    BY <1>2, <2>2, <2>3, <2>4, <2>6 DEF Counted
  <2> QED  BY <2>5, <2>6
<1>5. CASE ~(q = r /\ MinuteOf(srv[s].now) = m)
  <2>1. (s \in Owing(r, m) <=> s \in Owing(r, m)') /\ s \notin Marking(r, m)'
    BY <1>0, <1>1, <1>5 DEF Owing, Marking
  <2>2. /\ Cardinality(Owing(r, m)) = Cardinality(Owing(r, m)')
        /\ Cardinality(Marking(r, m)') = Cardinality(Marking(r, m))
    BY <1>0, <1>3, <2>1, CountsAfter
  <2>3. triggers'[r][m] = triggers[r][m]
    BY <1>1, <1>5 DEF OneMore
  <2> QED  BY <1>2, <2>2, <2>3 DEF Counted
<1> QED  BY <1>4, <1>5

\* A row that is marked now is marked for every minute that has begun; what is
\* still owed and what was to be marked are counts of different servers.
LEMMA MarkingKeepsCount ==
  ASSUME BInv, NEW s \in Servers, Moved(s), UNCHANGED triggers,
         srv[s].pc = "update", srv[s].row \in Schedules \ srv[s].todo,
         MinuteOf(srv[s].now) \in Minutes, Marks(srv[s].row),
         (srv'[s].todo = srv[s].todo /\ srv'[s].now = srv[s].now) \/ srv'[s].todo = {},
         srv'[s].pc # "update",
         Used' \in Nat, Used' >= Used,
         NEW r \in Schedules, NEW m \in Minutes, Counted(r, m)
  PROVE  Counted(r, m)'
<1>0. /\ triggers[r][m] \in Nat /\ Used \in Nat /\ m \in Nat /\ m * Minute \in Nat
      /\ Cardinality(Servers) \in Nat /\ clock \in Nat
      /\ last[r] # NULL => last[r] \in Nat /\ last[r] <= clock
  BY CountTypes
<1>1. Cardinality(Owing(r, m)') <= Cardinality(Owing(r, m))
  <2>1. (s \in Owing(r, m) <=> s \in Owing(r, m)') \/ s \notin Owing(r, m)'
    BY DEF Owing
  <2> QED  BY <2>1, CountsAfter
<1>2. /\ Cardinality(Owing(r, m)) \in Nat /\ Cardinality(Owing(r, m)') \in Nat
      /\ Cardinality(Marking(r, m)) \in Nat /\ Cardinality(Marking(r, m)') \in Nat
  BY CountsAfter
<1>3. Cardinality(Owing(r, m)) + Cardinality(Marking(r, m)) <= Cardinality(Servers)
  BY OwingOrMarking
<1>4. s \notin Marking(r, m)'
  BY DEF Marking
<1>5. CASE r # srv[s].row
  <2>1. s \notin Marking(r, m)
    BY <1>5 DEF Marking
  <2>2. Cardinality(Marking(r, m)') = Cardinality(Marking(r, m))
    BY <1>4, <2>1, CountsAfter
  <2>3. last'[r] = last[r]
    BY <1>5 DEF Marks
  <2>4. Marked(r, m)' <=> Marked(r, m)
    BY <2>3 DEF Marked
  <2>5. CASE Marked(r, m)
    BY <1>0, <1>1, <1>2, <2>4, <2>5 DEF Counted
  <2>6. CASE ~Marked(r, m)
    BY <1>0, <1>2, <2>2, <2>4, <2>6 DEF Counted
  <2> QED  BY <2>5, <2>6
<1>6. CASE r = srv[s].row
  <2>1. last'[r] = clock /\ clock # NULL
    BY <1>0, <1>6, SchedulerAssumption DEF Marks
  <2>2. Marked(r, m)' <=> clock >= m * Minute
    BY <2>1 DEF Marked
  <2>3. CASE clock >= m * Minute
    <3>1. triggers[r][m] + Cardinality(Owing(r, m)) <= Cardinality(Servers) + Used
      <4>1. CASE Marked(r, m)
        BY <4>1 DEF Counted
      <4>2. CASE ~Marked(r, m)
        BY <1>0, <1>2, <1>3, <4>2 DEF Counted
      <4> QED  BY <4>1, <4>2
    <3> QED  BY <1>0, <1>1, <1>2, <2>2, <2>3, <3>1 DEF Counted
  <2>4. CASE ~(clock >= m * Minute)
    <3>1. ~Marked(r, m)
      BY <1>0, <2>4 DEF Marked
    <3>2. s \notin Marking(r, m)
      <4>1. srv[s].now \in Nat /\ srv[s].now <= clock
        BY DEF BInv, GoodServer, Server, Ticking
      <4>2. MinuteOf(srv[s].now) * Minute <= srv[s].now
        BY <4>1, MinuteFacts
      <4>3. MinuteOf(srv[s].now) # m
        BY <1>0, <2>4, <4>1, <4>2
      <4> QED  BY <4>3 DEF Marking
    <3>3. Cardinality(Marking(r, m)') = Cardinality(Marking(r, m))
      BY <1>4, <3>2, CountsAfter
    <3> QED  BY <1>0, <1>2, <2>2, <2>4, <3>1, <3>3 DEF Counted
  <2> QED  BY <2>3, <2>4
<1> QED  BY <1>5, <1>6

\* An interruption may leave a row enqueued and not marked: it costs a fault.
LEMMA InterruptionKeepsCount ==
  ASSUME BInv, NEW s \in Servers, TickFails(s) \/ Stop(s),
         NEW r \in Schedules, NEW m \in Minutes, Counted(r, m)
  PROVE  Counted(r, m)'
<1>0. /\ Moved(s) /\ Lost(s) /\ faults' = faults - 1 /\ faults > 0 /\ srv'[s].todo = {}
      /\ srv'[s].pc \in {"sleep", "down"}
  BY InterruptedMoves
<1>1. Used' = Used + 1 /\ Used \in Nat
  <2>1. faults \in 0 .. MaxFaults
    BY DEF BInv, TypeOK
  <2> QED  BY <1>0, <2>1, SchedulerAssumption DEF Used
<1>2. /\ triggers[r][m] \in Nat /\ Cardinality(Servers) \in Nat
  BY CountTypes
<1>3. s \notin Owing(r, m)' /\ s \notin Marking(r, m)'
  BY <1>0 DEF Owing, Marking
<1>4. /\ Cardinality(Owing(r, m)) \in Nat /\ Cardinality(Owing(r, m)') \in Nat
      /\ Cardinality(Marking(r, m)) \in Nat /\ Cardinality(Marking(r, m)') \in Nat
      /\ Cardinality(Owing(r, m)') <= Cardinality(Owing(r, m))
      /\ Cardinality(Marking(r, m)) <= Cardinality(Marking(r, m)') + 1
  BY <1>0, <1>3, CountsAfter
<1>5. CASE UNCHANGED <<last, triggers>>
  <2>1. (Marked(r, m)' <=> Marked(r, m)) /\ triggers' = triggers
    BY <1>5 DEF Marked
  <2>2. CASE Marked(r, m)
    BY <1>1, <1>2, <1>4, <2>1, <2>2 DEF Counted
  <2>3. CASE ~Marked(r, m)
    BY <1>1, <1>2, <1>4, <2>1, <2>3 DEF Counted
  <2> QED  BY <2>2, <2>3
<1>6. ASSUME srv[s].pc = "rows", UNCHANGED last, MinuteOf(srv[s].now) \in Minutes,
             NEW q \in srv[s].todo, q \in Schedules, OneMore(q, MinuteOf(srv[s].now))
      PROVE  Counted(r, m)'
  <2>1. Marked(r, m)' <=> Marked(r, m)
    BY <1>6 DEF Marked
  <2>2. triggers'[r][m] \in Nat /\ triggers'[r][m] <= triggers[r][m] + 1
    BY <1>2, <1>6 DEF OneMore
  <2>3. s \notin Marking(r, m)
    BY <1>6 DEF Marking
  <2>4. Cardinality(Marking(r, m)') = Cardinality(Marking(r, m))
    BY <1>0, <1>3, <2>3, CountsAfter
  <2>5. CASE Marked(r, m)
    BY <1>1, <1>2, <1>4, <2>1, <2>2, <2>5 DEF Counted
  <2>6. CASE ~Marked(r, m)
    BY <1>1, <1>2, <1>4, <2>1, <2>2, <2>4, <2>6 DEF Counted
  <2> QED  BY <2>5, <2>6
<1>7. CASE /\ srv[s].pc = "update" /\ UNCHANGED triggers /\ MinuteOf(srv[s].now) \in Minutes
           /\ srv[s].row \in Schedules \ srv[s].todo /\ Marks(srv[s].row)
  <2>1. Used' \in Nat /\ Used' >= Used
    BY <1>1
  <2> QED  BY <1>0, <1>7, <2>1, MarkingKeepsCount
<1> QED  BY <1>0, <1>5, <1>6, <1>7 DEF Lost

\* CInv is inductive, given BInv.
LEMMA CInvInductive ==
  /\ Init => CInv
  /\ BInv /\ CInv /\ [Next]_vars => CInv'
<1>1. ASSUME Init PROVE CInv
  <2>0. BInv
    BY <1>1, BInvInductive
  <2> SUFFICES ASSUME NEW r \in Schedules, NEW m \in Minutes PROVE Counted(r, m)
    BY DEF CInv
  <2>1. triggers[r][m] = 0 /\ ~Marked(r, m)
    BY <1>1 DEF Init, Marked
  <2>2. Used \in Nat
    BY <2>0, CountTypes
  <2>3. Cardinality(Marking(r, m)) \in Nat
    <3>1. IsFiniteSet(Marking(r, m))
      <4>1. Marking(r, m) \subseteq Servers
        BY DEF Marking
      <4> QED  BY <4>1, SchedulerAssumption, FS_Subset
    <3> QED  BY <3>1, FS_CardinalityType
  <2> QED  BY <2>1, <2>2, <2>3 DEF Counted
<1>2. ASSUME BInv, CInv, [Next]_vars PROVE CInv'
  <2> SUFFICES ASSUME NEW r \in Schedules, NEW m \in Minutes PROVE Counted(r, m)'
    BY DEF CInv
  <2>0. Counted(r, m)
    BY <1>2 DEF CInv
  <2>1. ASSUME NEW s \in Servers, Start(s) PROVE Counted(r, m)'
    <3>1. /\ Moved(s) /\ UNCHANGED <<last, triggers, straddled, faults>>
          /\ srv[s].pc = "down" /\ srv'[s].pc = "sleep" /\ srv'[s].todo = {}
      BY <1>2, <2>1, StartMoves
    <3>2. srv[s].todo = {}
      BY <1>2, <3>1 DEF BInv, GoodServer
    <3>3. /\ s \notin Marking(r, m) /\ s \notin Marking(r, m)'
          /\ s \notin Owing(r, m) /\ s \notin Owing(r, m)'
      BY <3>1, <3>2 DEF Marking, Owing
    <3> QED  BY <1>2, <2>0, <3>1, <3>3, QuietKeepsCount
  <2>2. ASSUME NEW s \in Servers, BeginTick(s) \/ EndTick(s) PROVE Counted(r, m)'
    <3>1. /\ Moved(s) /\ UNCHANGED <<last, triggers, since, straddled, faults>>
          /\ srv[s].pc # "update" /\ srv'[s].pc # "update" /\ srv'[s].todo = {} /\ srv[s].todo = {}
      BY <1>2, <2>2, BeginTickMoves, EndTickMoves
    <3>2. /\ s \notin Marking(r, m) /\ s \notin Marking(r, m)'
          /\ s \notin Owing(r, m) /\ s \notin Owing(r, m)'
      BY <3>1 DEF Marking, Owing
    <3> QED  BY <1>2, <2>0, <3>1, <3>2, QuietKeepsCount
  <2>3. ASSUME NEW s \in Servers, Select(s) PROVE Counted(r, m)'
    <3>1. /\ Moved(s) /\ UNCHANGED <<last, triggers, since, straddled, faults>>
          /\ srv[s].pc = "select" /\ srv[s].todo = {} /\ srv'[s].pc = "rows"
          /\ srv'[s].now = srv[s].now
          /\ r \in srv'[s].todo => ~Marked(r, MinuteOf(srv[s].now))
      BY <1>2, <2>3, SelectMoves
    <3>2. /\ s \notin Marking(r, m) /\ s \notin Marking(r, m)' /\ s \notin Owing(r, m)
          /\ Marked(r, m) => s \notin Owing(r, m)'
      BY <3>1 DEF Marking, Owing
    <3> QED  BY <1>2, <2>0, <3>1, <3>2, QuietKeepsCount
  <2>4. ASSUME NEW s \in Servers, Enqueue(s) PROVE Counted(r, m)'
    BY <1>2, <2>0, <2>4, EnqueueKeepsCount
  <2>5. ASSUME NEW s \in Servers, Update(s) PROVE Counted(r, m)'
    <3>1. /\ Moved(s) /\ UNCHANGED <<triggers, since, straddled, faults>>
          /\ srv[s].pc = "update" /\ srv'[s].pc = "rows" /\ srv'[s].todo = srv[s].todo
          /\ srv'[s].now = srv[s].now
          /\ srv[s].row \in Schedules \ srv[s].todo /\ MinuteOf(srv[s].now) \in Minutes
          /\ Marks(srv[s].row)
      BY <1>2, <2>5, UpdateMoves
    <3>2. Used \in Nat /\ Used' = Used
      BY <1>2, <3>1, CountTypes DEF Used
    <3>3. Used' \in Nat /\ Used' >= Used
      BY <3>2
    <3> QED  BY <1>2, <2>0, <3>1, <3>3, MarkingKeepsCount
  <2>6. ASSUME NEW s \in Servers, TickFails(s) \/ Stop(s) PROVE Counted(r, m)'
    BY <1>2, <2>0, <2>6, InterruptionKeepsCount
  <2>7. CASE Tick
    <3>1. /\ UNCHANGED <<last, triggers, faults>>
          /\ \A s \in Servers :
               /\ srv'[s].pc = srv[s].pc /\ srv'[s].todo = srv[s].todo /\ srv'[s].row = srv[s].row
               /\ srv'[s].now = srv[s].now
      BY <1>2, <2>7, TickMoves
    <3>2. Owing(r, m)' = Owing(r, m) /\ Marking(r, m)' = Marking(r, m)
      BY <3>1 DEF Owing, Marking
    <3> QED  BY <2>0, <3>1, <3>2 DEF Counted, Marked, Used
  <2>8. CASE UNCHANGED vars
    <3>1. UNCHANGED <<last, triggers, faults, srv>>
      BY <2>8 DEF vars
    <3> QED  BY <2>0, <3>1 DEF Counted, Marked, Used, Owing, Marking
  <2> QED  BY <1>2, <2>1, <2>2, <2>3, <2>4, <2>5, <2>6, <2>7, <2>8 DEF Next, AtHorizon
<1> QED  BY <1>1, <1>2

\* A row is enqueued for a minute at most once per server and interruption,
\* although nothing makes the check, the enqueue and the mark one step.
THEOREM TriggersAreBounded == Spec => []TriggersBounded
<1>1. Init => CInv
  BY CInvInductive
<1>2. BInv /\ CInv /\ [Next]_vars => CInv'
  BY CInvInductive
<1>3. BInv /\ CInv => TriggersBounded
  <2> SUFFICES ASSUME BInv, CInv, NEW r \in Schedules, NEW m \in Minutes
               PROVE  triggers[r][m] <= Cardinality(Servers) + Used
    BY DEF TriggersBounded, Used
  <2>1. /\ triggers[r][m] \in Nat /\ Used \in Nat /\ Cardinality(Servers) \in Nat
    BY CountTypes
  <2>2. /\ Owing(r, m) \subseteq Servers /\ Marking(r, m) \subseteq Servers
    BY DEF Owing, Marking
  <2>3. /\ Cardinality(Owing(r, m)) \in Nat /\ Cardinality(Marking(r, m)) \in Nat
    BY <2>2, SchedulerAssumption, FS_Subset, FS_CardinalityType
  <2>4. Cardinality(Owing(r, m)) + Cardinality(Marking(r, m)) <= Cardinality(Servers)
    BY OwingOrMarking
  <2>5. Counted(r, m)
    BY DEF CInv
  <2>6. CASE Marked(r, m)
    BY <2>1, <2>3, <2>5, <2>6 DEF Counted
  <2>7. CASE ~Marked(r, m)
    BY <2>1, <2>3, <2>4, <2>5, <2>7 DEF Counted
  <2> QED  BY <2>6, <2>7
<1> QED  BY <1>1, <1>2, <1>3, BInvAlways, PTL DEF Spec

-----------------------------------------------------------------------------
(* No minute is missed                                                     *)

\* What was enqueued stays so.
Grows == \A r \in Schedules, m \in Minutes : triggers[r][m] > 0 => triggers'[r][m] > 0

\* Every step of a server is such.
LEMMA TriggersGrow ==
  ASSUME BInv, TriggersStep
  PROVE  Grows
<1> SUFFICES ASSUME NEW r \in Schedules, NEW m \in Minutes, triggers[r][m] > 0
             PROVE  triggers'[r][m] > 0
  BY DEF Grows
<1>1. triggers[r][m] \in Nat
  BY CountTypes
<1>2. CASE UNCHANGED triggers
  BY <1>2
<1>3. ASSUME NEW q \in Schedules, NEW n \in Minutes, OneMore(q, n) PROVE triggers'[r][m] > 0
  <2>1. CASE r = q /\ m = n
    BY <1>1, <1>3, <2>1 DEF OneMore
  <2>2. CASE r # q \/ m # n
    BY <1>3, <2>2 DEF OneMore
  <2> QED  BY <2>1, <2>2
<1> QED  BY <1>2, <1>3 DEF TriggersStep

\* A minute that is covered stays so.
LEMMA CoveredStays ==
  ASSUME Grows, UNCHANGED cron, NEW m \in Minutes, Covered(m)
  PROVE  Covered(m)'
BY DEF Grows, Covered

\* A server that does not move is in time as before, and covers what it did.
LEMMA OthersInTime ==
  ASSUME BInv, Grows, NEW s \in Servers, Moved(s), NEW q \in Servers, q # s, InTime(q)
  PROVE  InTime(q)'
<1>1. srv'[q] = srv[q] /\ clock' = clock /\ cron' = cron
  BY DEF Moved
<1>2. GoodServer(srv[q], clock, cron)
  BY DEF BInv
<1>3. PICK M : M = MinuteOf(clock)
  OBVIOUS
<1>4. MinuteOf(clock)' = M
  BY <1>1, <1>3 DEF MinuteOf
<1>5. srv[q].pc \in Ticking => M \in Minutes /\ MinuteOf(srv[q].now) = M
  BY <1>2, <1>3 DEF InTime, GoodServer
<1>6. srv[q].pc = "update" => srv[q].row \in Schedules /\ triggers'[srv[q].row][M] > 0
  BY <1>2, <1>3, <1>5 DEF InTime, GoodServer, Grows, Ticking
<1>7. srv[q].pc \in {"rows", "update"} =>
        \A r \in Schedules : Runs(cron[r], M) => r \in srv[q].todo \/ triggers'[r][M] > 0
  BY <1>3, <1>5 DEF InTime, Grows, Ticking
<1> QED  BY <1>1, <1>3, <1>4, <1>5, <1>6, <1>7 DEF InTime

\* They stay covered while the minute lasts.
LEMMA BehindStays ==
  ASSUME Grows, UNCHANGED <<clock, cron>>, NEW s \in Servers, since'[s] = since[s], Behind(s)
  PROVE  Behind(s)'
<1> SUFFICES ASSUME NEW m \in Minutes, m < MinuteOf(clock)', since'[s] <= m * Minute
             PROVE  Covered(m)'
  BY DEF Behind
<1>1. m < MinuteOf(clock) /\ since[s] <= m * Minute
  BY DEF MinuteOf
<1> QED  BY <1>1, CoveredStays DEF Behind

\* So does the end of a sleep.
LEMMA WakesStays ==
  ASSUME Grows, UNCHANGED <<clock, cron>>, NEW s \in Servers, since'[s] = since[s],
         srv'[s] = srv[s], Wakes(s)
  PROVE  Wakes(s)'
<1>1. MinuteOf(clock)' = MinuteOf(clock)
  BY DEF MinuteOf
<1>2. \A m \in Minutes : Covered(m) => Covered(m)'
  BY CoveredStays
<1> QED  BY <1>1, <1>2 DEF Wakes

\* A step of server s keeps NInv, if s itself is in time and covers its minutes.
LEMMA ServerKeepsNInv ==
  ASSUME BInv, NInv, NEW s \in Servers, Moved(s), TriggersStep, UNCHANGED straddled,
         \A q \in Servers : q # s => since'[q] = since[q],
         ~straddled => MarksHold' /\ InTime(s)',
         ~straddled /\ srv'[s].pc # "down" /\ srv'[s].interval + Lateness <= Minute =>
           Behind(s)' /\ Wakes(s)'
  PROVE  NInv'
<1> SUFFICES ASSUME ~straddled
             PROVE  /\ MarksHold'
                    /\ \A q \in Servers : InTime(q)'
                    /\ \A q \in Servers :
                         srv'[q].pc # "down" /\ srv'[q].interval + Lateness <= Minute =>
                           Behind(q)' /\ Wakes(q)'
  BY DEF NInv
<1>1. Grows
  BY TriggersGrow
<1>2. ASSUME NEW q \in Servers
      PROVE  /\ InTime(q)'
             /\ srv'[q].pc # "down" /\ srv'[q].interval + Lateness <= Minute =>
                  Behind(q)' /\ Wakes(q)'
  <2>1. CASE q = s
    BY <2>1
  <2>2. CASE q # s
    <3>1. /\ InTime(q)
          /\ srv[q].pc # "down" /\ srv[q].interval + Lateness <= Minute => Behind(q) /\ Wakes(q)
      BY DEF NInv
    <3>2. srv'[q] = srv[q] /\ since'[q] = since[q] /\ UNCHANGED <<clock, cron>>
      BY <2>2 DEF Moved
    <3>3. InTime(q)'
      BY <1>1, <2>2, <3>1, OthersInTime
    <3>4. Behind(q) => Behind(q)'
      BY <1>1, <3>2, BehindStays
    <3>5. Wakes(q) => Wakes(q)'
      BY <1>1, <3>2, WakesStays
    <3> QED  BY <3>1, <3>2, <3>3, <3>4, <3>5
  <2> QED  BY <2>1, <2>2
<1> QED  BY <1>2

\* Marks stay true while no row is marked, and a row that is marked was enqueued
\* in this minute.
LEMMA MarksStay ==
  ASSUME BInv, Grows, MarksHold, UNCHANGED last
  PROVE  MarksHold'
BY DEF MarksHold, Grows, MinuteOf

\* An UPDATE of last_run in the minute the row was read for: that minute holds its trigger.
LEMMA NewMarkHolds ==
  ASSUME BInv, Grows, MarksHold, NEW s \in Servers, InTime(s), srv[s].pc = "update",
         Marks(srv[s].row), srv[s].row \in Schedules, MinuteOf(srv[s].now) \in Minutes
  PROVE  MarksHold'
<1>1. PICK M : M = MinuteOf(clock)
  OBVIOUS
<1>2. M \in Minutes /\ triggers[srv[s].row][M] > 0
  BY <1>1 DEF InTime, Ticking
<1>3. PICK r \in Schedules : r = srv[s].row
  OBVIOUS
<1>4. triggers'[r][M] > 0 /\ last'[r] = clock
  BY <1>2, <1>3 DEF Grows, Marks
<1> SUFFICES ASSUME NEW q \in Schedules, last'[q] # NULL
             PROVE  MinuteOf(last'[q]) \in Minutes /\ triggers'[q][MinuteOf(last'[q])] > 0
  BY DEF MarksHold, MinuteOf
<1>5. CASE q = r
  BY <1>1, <1>2, <1>4, <1>5
<1>6. CASE q # r
  <2>1. last'[q] = last[q]
    BY <1>3, <1>6 DEF Marks
  <2> QED  BY <2>1 DEF MarksHold, Grows
<1> QED  BY <1>5, <1>6

\* The time, the minute and what follows it.
LEMMA Now ==
  ASSUME BInv
  PROVE  /\ clock \in Nat /\ MinuteOf(clock) \in Nat /\ Minute \in Nat \ {0}
         /\ MinuteOf(clock) * Minute \in Nat
         /\ MinuteOf(clock) * Minute <= clock
         /\ clock < MinuteOf(clock) * Minute + Minute
         /\ (MinuteOf(clock) + 1) * Minute = MinuteOf(clock) * Minute + Minute
         /\ (MinuteOf(clock) + 2) * Minute = MinuteOf(clock) * Minute + Minute + Minute
         /\ \A m \in Minutes : m \in Nat /\ m * Minute \in Nat
         /\ \A m \in Minutes : m < MinuteOf(clock) => m * Minute + Minute <= MinuteOf(clock) * Minute
<1>1. clock \in Nat /\ Minute \in Nat \ {0} /\ Minutes \subseteq Nat
  BY SchedulerAssumption DEF BInv, TypeOK, Minutes
<1>2. MinuteOf(clock) \in Nat
  BY <1>1, MinuteFacts
<1>3. /\ MinuteOf(clock) * Minute <= clock
      /\ clock < MinuteOf(clock) * Minute + Minute
  BY <1>1, MinuteFacts
<1>4. /\ MinuteOf(clock) * Minute \in Nat
      /\ (MinuteOf(clock) + 1) * Minute = MinuteOf(clock) * Minute + Minute
      /\ (MinuteOf(clock) + 2) * Minute = MinuteOf(clock) * Minute + Minute + Minute
  BY <1>2, MinutesFollow
<1>5. ASSUME NEW m \in Minutes
      PROVE  /\ m \in Nat /\ m * Minute \in Nat
             /\ m < MinuteOf(clock) => m * Minute + Minute <= MinuteOf(clock) * Minute
  BY <1>1, <1>2, MinutesFollow
<1> QED  BY <1>1, <1>2, <1>3, <1>4, <1>5

\* A server that has begun, or begins again, to tick is behind with nothing.
LEMMA NothingBehind ==
  ASSUME BInv, NEW s \in Servers, UNCHANGED <<clock, cron>>, since'[s] \in Nat, since'[s] >= clock
  PROVE  Behind(s)'
<1> SUFFICES ASSUME NEW m \in Minutes, m < MinuteOf(clock)', since'[s] <= m * Minute
             PROVE  FALSE
  BY DEF Behind
<1>1. m < MinuteOf(clock)
  BY DEF MinuteOf
<1> QED  BY <1>1, Now

\* The steps of the servers, one by one.
LEMMA StartKeepsNInv ==
  ASSUME BInv, NInv, NEW s \in Servers, Start(s)
  PROVE  NInv'
<1>1. /\ Moved(s) /\ UNCHANGED <<last, triggers, straddled, faults>>
      /\ srv'[s].pc = "sleep" /\ srv'[s].wait = Lateness /\ srv'[s].interval \in Intervals
      /\ since' = [since EXCEPT ![s] = clock]
  BY StartMoves
<1>2. TriggersStep /\ Grows
  BY <1>1 DEF TriggersStep, Grows
<1>3. since'[s] = clock /\ (\A q \in Servers : q # s => since'[q] = since[q]) /\ clock \in Nat
  BY <1>1, Now DEF BInv, TypeOK
<1>4. UNCHANGED <<clock, cron>> /\ MinuteOf(clock)' = MinuteOf(clock)
  BY <1>1 DEF Moved, MinuteOf
<1>5. ~straddled => MarksHold' /\ InTime(s)'
  BY <1>1, <1>2, MarksStay DEF NInv, InTime, Ticking
<1>6. since'[s] \in Nat /\ since'[s] >= clock
  BY <1>3
<1>7. Behind(s)'
  BY <1>4, <1>6, NothingBehind
<1>8. ASSUME srv'[s].interval + Lateness <= Minute PROVE Wakes(s)'
  <2>1. Lateness \in Nat /\ Lateness < Minute
    <3>1. Lateness \in Nat /\ Minute \in Nat /\ Intervals \subseteq Nat \ {0}
      BY SchedulerAssumption
    <3>2. PICK i \in Nat \ {0} : i = srv'[s].interval
      BY <1>1, <3>1
    <3> QED  BY <1>8, <3>1, <3>2
  <2>2. clock + Lateness < (MinuteOf(clock) + 2) * Minute
    BY <2>1, Now
  <2>3. ASSUME NEW m \in Minutes, m = MinuteOf(clock), clock <= m * Minute
        PROVE  clock + Lateness < (m + 1) * Minute
    BY <2>1, <2>3, Now
  <2> QED  BY <1>1, <1>3, <1>4, <2>2, <2>3 DEF Wakes
<1> QED  BY <1>1, <1>2, <1>3, <1>5, <1>7, <1>8, ServerKeepsNInv

\* BeginTick: the tick is of this minute.
LEMMA BeginTickKeepsNInv ==
  ASSUME BInv, NInv, NEW s \in Servers, BeginTick(s)
  PROVE  NInv'
<1>1. /\ Moved(s) /\ UNCHANGED <<last, triggers, since, straddled, faults>>
      /\ srv[s].pc = "sleep" /\ srv'[s].pc = "select"
      /\ srv'[s].now = clock /\ srv'[s].interval = srv[s].interval
  BY BeginTickMoves
<1>2. TriggersStep /\ Grows
  BY <1>1 DEF TriggersStep, Grows
<1>3. UNCHANGED <<clock, cron>>
  BY <1>1 DEF Moved
<1>4. ~straddled => MarksHold' /\ InTime(s)'
  BY <1>1, <1>2, <1>3, MarksStay DEF NInv, InTime, Ticking, MinuteOf
<1>5. ~straddled /\ srv'[s].interval + Lateness <= Minute => Behind(s)'
  BY <1>1, <1>2, <1>3, BehindStays DEF NInv
<1>6. Wakes(s)'
  BY <1>1 DEF Wakes
<1> QED  BY <1>1, <1>2, <1>4, <1>5, <1>6, ServerKeepsNInv

\* Select: a row that runs and is not owed was enqueued in this minute.
LEMMA SelectKeepsNInv ==
  ASSUME BInv, NInv, NEW s \in Servers, Select(s)
  PROVE  NInv'
<1>1. /\ Moved(s) /\ UNCHANGED <<last, triggers, since, straddled, faults>>
      /\ srv[s].pc = "select" /\ srv'[s].pc = "rows"
      /\ srv'[s].now = srv[s].now /\ srv'[s].interval = srv[s].interval
      /\ \A r \in Schedules : r \in srv'[s].todo <=>
           /\ Runs(cron[r], MinuteOf(srv[s].now))
           /\ ~Marked(r, MinuteOf(srv[s].now))
  BY SelectMoves
<1>2. TriggersStep /\ Grows
  BY <1>1 DEF TriggersStep, Grows
<1>3. UNCHANGED <<clock, cron>>
  BY <1>1 DEF Moved
<1>4. ASSUME ~straddled PROVE MarksHold' /\ InTime(s)'
  <2>1. MarksHold /\ InTime(s)
    BY <1>4 DEF NInv
  <2>2. MarksHold'
    BY <1>1, <1>2, <2>1, MarksStay
  <2>3. PICK M \in Nat : M = MinuteOf(clock) /\ M = MinuteOf(srv[s].now)
    BY <1>1, <2>1, Now DEF InTime, Ticking
  <2>4. ASSUME NEW r \in Schedules, Marked(r, M) PROVE triggers[r][M] > 0
    <3>1. last[r] \in Nat /\ last[r] >= M * Minute /\ last[r] <= clock /\ last[r] # NULL
      BY <2>4, SchedulerAssumption DEF Marked, BInv, TypeOK
    <3>2. MinuteOf(last[r]) = M
      BY <2>3, <3>1, Now, MinuteIs
    <3> QED  BY <2>1, <3>1, <3>2 DEF MarksHold
  <2>5. \A r \in Schedules : Runs(cron[r], M) => r \in srv'[s].todo \/ triggers[r][M] > 0
    BY <1>1, <2>3, <2>4
  <2>6. MinuteOf(clock)' = M /\ MinuteOf(srv'[s].now) = M
    BY <1>1, <1>3, <2>3 DEF MinuteOf
  <2>7. InTime(s)'
    BY <1>1, <1>3, <2>5, <2>6 DEF InTime, Ticking, MinuteOf
  <2> QED  BY <2>2, <2>7
<1>5. ~straddled /\ srv'[s].interval + Lateness <= Minute => Behind(s)'
  BY <1>1, <1>2, <1>3, BehindStays DEF NInv
<1>6. Wakes(s)'
  BY <1>1 DEF Wakes
<1> QED  BY <1>1, <1>2, <1>4, <1>5, <1>6, ServerKeepsNInv

\* Enqueue: the row is no longer owed, and counted.
LEMMA EnqueueKeepsNInv ==
  ASSUME BInv, NInv, NEW s \in Servers, Enqueue(s)
  PROVE  NInv'
<1>1. /\ Moved(s) /\ UNCHANGED <<last, since, straddled, faults>>
      /\ srv[s].pc = "rows" /\ srv'[s].pc = "update"
      /\ srv'[s].now = srv[s].now /\ srv'[s].interval = srv[s].interval
      /\ MinuteOf(srv[s].now) \in Minutes
  BY EnqueueMoves
<1>2. PICK q \in srv[s].todo :
        /\ q \in Schedules /\ Runs(cron[q], MinuteOf(srv[s].now))
        /\ srv'[s].todo = srv[s].todo \ {q} /\ srv'[s].row = q
        /\ OneMore(q, MinuteOf(srv[s].now))
  BY EnqueueMoves
<1>3. TriggersStep
  BY <1>1, <1>2 DEF TriggersStep
<1>4. Grows
  BY <1>3, TriggersGrow
<1>5. UNCHANGED <<clock, cron>>
  BY <1>1 DEF Moved
<1>6. ASSUME ~straddled PROVE MarksHold' /\ InTime(s)'
  <2>1. MarksHold /\ InTime(s)
    BY <1>6 DEF NInv
  <2>2. MarksHold'
    BY <1>1, <1>4, <2>1, MarksStay
  <2>3. PICK M \in Minutes : M = MinuteOf(clock) /\ M = MinuteOf(srv[s].now)
    BY <1>1, <2>1 DEF InTime, Ticking
  <2>4. triggers[q][M] \in Nat /\ triggers'[q][M] = triggers[q][M] + 1
    BY <1>2, <2>3, CountTypes DEF OneMore
  <2>5. triggers'[q][M] > 0
    BY <2>4
  <2>6. \A r \in Schedules : Runs(cron[r], M) => r \in srv'[s].todo \/ triggers'[r][M] > 0
    BY <1>1, <1>2, <1>4, <2>1, <2>3, <2>5 DEF InTime, Grows
  <2>7. MinuteOf(clock)' = M /\ MinuteOf(srv'[s].now) = M
    BY <1>1, <1>5, <2>3 DEF MinuteOf
  <2>8. InTime(s)'
    BY <1>1, <1>2, <1>5, <2>5, <2>6, <2>7 DEF InTime, Ticking, MinuteOf
  <2> QED  BY <2>2, <2>8
<1>7. ~straddled /\ srv'[s].interval + Lateness <= Minute => Behind(s)'
  BY <1>1, <1>4, <1>5, BehindStays DEF NInv
<1>8. Wakes(s)'
  BY <1>1 DEF Wakes
<1> QED  BY <1>1, <1>3, <1>6, <1>7, <1>8, ServerKeepsNInv

\* Update: the row is marked in the minute it was enqueued for.
LEMMA UpdateKeepsNInv ==
  ASSUME BInv, NInv, NEW s \in Servers, Update(s)
  PROVE  NInv'
<1>1. /\ Moved(s) /\ UNCHANGED <<triggers, since, straddled, faults>>
      /\ srv[s].pc = "update" /\ srv'[s].pc = "rows" /\ srv'[s].todo = srv[s].todo
      /\ srv'[s].now = srv[s].now /\ srv'[s].interval = srv[s].interval
      /\ srv[s].row \in Schedules /\ MinuteOf(srv[s].now) \in Minutes
      /\ Marks(srv[s].row)
  BY UpdateMoves
<1>2. TriggersStep /\ Grows
  BY <1>1 DEF TriggersStep, Grows
<1>3. UNCHANGED <<clock, cron>>
  BY <1>1 DEF Moved
<1>4. ASSUME ~straddled PROVE MarksHold' /\ InTime(s)'
  <2>1. MarksHold /\ InTime(s)
    BY <1>4 DEF NInv
  <2>2. MarksHold'
    BY <1>1, <1>2, <2>1, NewMarkHolds
  <2>3. InTime(s)'
    BY <1>1, <1>3, <2>1 DEF InTime, Ticking, MinuteOf
  <2> QED  BY <2>2, <2>3
<1>5. ~straddled /\ srv'[s].interval + Lateness <= Minute => Behind(s)'
  BY <1>1, <1>2, <1>3, BehindStays DEF NInv
<1>6. Wakes(s)'
  BY <1>1 DEF Wakes
<1> QED  BY <1>1, <1>2, <1>4, <1>5, <1>6, ServerKeepsNInv

\* EndTick: nothing is owed, so the minute is covered; and the sleep is no longer
\* than a minute, late as it may end.
LEMMA EndTickKeepsNInv ==
  ASSUME BInv, NInv, NEW s \in Servers, EndTick(s)
  PROVE  NInv'
<1>1. /\ Moved(s) /\ UNCHANGED <<last, triggers, since, straddled, faults>>
      /\ srv[s].pc = "rows" /\ srv[s].todo = {} /\ srv'[s].pc = "sleep"
      /\ srv'[s].wait = srv[s].interval + Lateness /\ srv'[s].interval = srv[s].interval
      /\ srv[s].interval \in Intervals
  BY EndTickMoves
<1>2. TriggersStep /\ Grows
  BY <1>1 DEF TriggersStep, Grows
<1>3. UNCHANGED <<clock, cron>> /\ MinuteOf(clock)' = MinuteOf(clock)
  BY <1>1 DEF Moved, MinuteOf
<1>4. ~straddled => MarksHold' /\ InTime(s)'
  BY <1>1, <1>2, MarksStay DEF NInv, InTime, Ticking
<1>5. ASSUME ~straddled, srv'[s].interval + Lateness <= Minute PROVE Behind(s)' /\ Wakes(s)'
  <2>1. Behind(s)'
    BY <1>1, <1>2, <1>3, <1>5, BehindStays DEF NInv
  <2>2. ASSUME NEW m \in Minutes, m = MinuteOf(clock) PROVE Covered(m)'
    <3>1. Covered(m)
      BY <1>1, <1>5, <2>2 DEF NInv, InTime, Covered
    <3> QED  BY <1>2, <1>3, <3>1, CoveredStays
  <2>3. clock + (srv[s].interval + Lateness) < (MinuteOf(clock) + 2) * Minute
    <3>1. srv[s].interval + Lateness \in Nat /\ srv[s].interval + Lateness <= Minute
      BY <1>1, <1>5, SchedulerAssumption
    <3> QED  BY <3>1, Now
  <2>4. Wakes(s)'
    BY <1>1, <1>3, <2>2, <2>3 DEF Wakes
  <2> QED  BY <2>1, <2>4
<1> QED  BY <1>1, <1>2, <1>4, <1>5, ServerKeepsNInv

\* An interruption: the server counts as ticking from now on only.
LEMMA InterruptionKeepsNInv ==
  ASSUME BInv, NInv, NEW s \in Servers, TickFails(s) \/ Stop(s)
  PROVE  NInv'
<1>1. /\ Moved(s) /\ UNCHANGED straddled /\ Lost(s) /\ srv'[s].todo = {}
      /\ \/ /\ srv'[s].pc = "sleep" /\ srv[s].pc \in Ticking
            /\ srv[s].interval \in Intervals /\ srv'[s].interval = srv[s].interval
            /\ srv'[s].wait = srv[s].interval + Lateness /\ since' = [since EXCEPT ![s] = clock + 1]
         \/ srv'[s].pc = "down" /\ UNCHANGED since
  BY InterruptedMoves
<1>2. TriggersStep
  BY <1>1 DEF Lost, TriggersStep
<1>3. Grows
  BY <1>2, TriggersGrow
<1>4. UNCHANGED <<clock, cron>> /\ MinuteOf(clock)' = MinuteOf(clock)
  BY <1>1 DEF Moved, MinuteOf
<1>5. ASSUME ~straddled PROVE MarksHold' /\ InTime(s)'
  <2>1. MarksHold /\ InTime(s)
    BY <1>5 DEF NInv
  <2>2. ASSUME UNCHANGED last PROVE MarksHold'
    BY <1>3, <2>1, <2>2, MarksStay
  <2>3. ASSUME srv[s].pc = "update", MinuteOf(srv[s].now) \in Minutes,
               srv[s].row \in Schedules, Marks(srv[s].row)
        PROVE  MarksHold'
    BY <1>3, <2>1, <2>3, NewMarkHolds
  <2>4. MarksHold'
    BY <1>1, <2>2, <2>3 DEF Lost
  <2>5. InTime(s)'
    BY <1>1 DEF InTime, Ticking
  <2> QED  BY <2>4, <2>5
<1>6. \A q \in Servers : q # s => since'[q] = since[q]
  BY <1>1 DEF BInv, TypeOK
<1>7. CASE srv'[s].pc = "down"
  BY <1>1, <1>2, <1>5, <1>6, <1>7, ServerKeepsNInv
<1>8. CASE /\ srv'[s].pc = "sleep" /\ srv[s].interval \in Intervals
           /\ srv'[s].interval = srv[s].interval
           /\ srv'[s].wait = srv[s].interval + Lateness /\ since' = [since EXCEPT ![s] = clock + 1]
  <2>1. clock \in Nat /\ since'[s] = clock + 1
    BY <1>8, Now DEF BInv, TypeOK
  <2>2. since'[s] \in Nat /\ since'[s] >= clock
    BY <2>1
  <2>3. Behind(s)'
    BY <1>4, <2>2, NothingBehind
  <2>4. ASSUME srv[s].interval + Lateness <= Minute PROVE Wakes(s)'
    <3>1. srv[s].interval + Lateness \in Nat
      BY <1>8, SchedulerAssumption
    <3>2. clock + (srv[s].interval + Lateness) < (MinuteOf(clock) + 2) * Minute
      BY <2>4, <3>1, Now
    <3>3. ~(since'[s] <= MinuteOf(clock) * Minute)
      BY <2>1, Now
    <3> QED  BY <1>4, <1>8, <3>2, <3>3 DEF Wakes
  <2> QED  BY <1>1, <1>2, <1>5, <1>6, <1>8, <2>3, <2>4, ServerKeepsNInv
<1> QED  BY <1>1, <1>7, <1>8

\* The clock: when a minute ends, no tick is going on and every sleeper has
\* covered it, for it would have woken up.
LEMMA TickKeepsNInv ==
  ASSUME BInv, NInv, Tick
  PROVE  NInv'
<1>1. /\ clock \in Nat /\ clock' = clock + 1
      /\ UNCHANGED <<cron, last, triggers, since, faults>>
      /\ \A s \in Servers :
           /\ srv'[s].pc = srv[s].pc /\ srv'[s].todo = srv[s].todo /\ srv'[s].row = srv[s].row
           /\ srv'[s].now = srv[s].now /\ srv'[s].interval = srv[s].interval
           /\ srv[s].pc = "sleep" => srv[s].wait \in Nat \ {0} /\ srv'[s].wait = srv[s].wait - 1
      /\ straddled' = (straddled \/ (/\ MinuteOf(clock') # MinuteOf(clock)
                                     /\ \E s \in Servers : srv[s].pc \in Ticking))
  BY TickMoves
<1> SUFFICES ASSUME ~straddled'
             PROVE  /\ MarksHold'
                    /\ \A s \in Servers : InTime(s)'
                    /\ \A s \in Servers : srv'[s].pc # "down" /\ srv'[s].interval + Lateness <= Minute =>
                                            Behind(s)' /\ Wakes(s)'
  BY DEF NInv
<1>2. /\ ~straddled
      /\ MinuteOf(clock') = MinuteOf(clock) \/ \A s \in Servers : srv[s].pc \notin Ticking
  BY <1>1
<1>3. Grows /\ MarksHold'
  BY <1>1, <1>2 DEF Grows, NInv, MarksHold, MinuteOf
<1>4. PICK M \in Nat : M = MinuteOf(clock)
  BY Now
<1>5. PICK N \in Nat : N = MinuteOf(clock')
  <2>1. clock + 1 \in Nat
    BY <1>1
  <2>2. MinuteOf(clock + 1) \in Nat
    BY <2>1, MinuteFacts
  <2> QED  BY <1>1, <2>2
<1>6. /\ M * Minute \in Nat /\ N * Minute \in Nat /\ Minute \in Nat \ {0}
      /\ M * Minute <= clock /\ clock < M * Minute + Minute
      /\ N * Minute <= clock + 1 /\ clock + 1 < N * Minute + Minute
      /\ (M + 1) * Minute = M * Minute + Minute
      /\ (M + 2) * Minute = M * Minute + Minute + Minute
      /\ (N + 1) * Minute = N * Minute + Minute
      /\ (N + 2) * Minute = N * Minute + Minute + Minute
  <2>1. clock + 1 \in Nat
    BY <1>1
  <2>2. N = MinuteOf(clock + 1)
    BY <1>1, <1>5
  <2>3. N * Minute <= clock + 1 /\ clock + 1 < N * Minute + Minute
    BY <2>1, <2>2, MinuteFacts
  <2>4. /\ N * Minute \in Nat /\ (N + 1) * Minute = N * Minute + Minute
        /\ (N + 2) * Minute = N * Minute + Minute + Minute
    BY MinutesFollow
  <2> QED  BY <1>4, <2>3, <2>4, Now
<1>7. N = M \/ (N = M + 1 /\ clock + 1 = M * Minute + Minute)
  <2>1. M < N => M * Minute + Minute <= N * Minute
    BY MinutesFollow
  <2>2. N < M => N * Minute + Minute <= M * Minute
    BY MinutesFollow
  <2>3. M <= N
    BY <1>1, <1>6, <2>2
  <2>4. CASE M < N
    <3>1. clock + 1 = M * Minute + Minute
      BY <1>1, <1>6, <2>1, <2>4
    <3>2. M + 1 < N => (M + 1) * Minute + Minute <= N * Minute
      BY MinutesFollow
    <3>3. ~(M + 1 < N)
      BY <1>1, <1>6, <3>1, <3>2
    <3> QED  BY <2>4, <3>1, <3>3
  <2> QED  BY <2>3, <2>4
<1>8. ASSUME NEW s \in Servers PROVE InTime(s)'
  <2>1. InTime(s)
    BY <1>2 DEF NInv
  <2>2. CASE srv[s].pc \notin Ticking
    BY <1>1, <2>2 DEF InTime, Ticking
  <2>3. CASE srv[s].pc \in Ticking
    <3>1. MinuteOf(clock)' = M
      BY <1>2, <1>4, <2>3 DEF MinuteOf
    <3> QED  BY <1>1, <1>4, <2>1, <3>1 DEF InTime, MinuteOf
  <2> QED  BY <2>2, <2>3
<1>9. ASSUME NEW s \in Servers, srv'[s].pc # "down", srv'[s].interval + Lateness <= Minute
      PROVE  Behind(s)' /\ Wakes(s)'
  <2>1. Behind(s) /\ Wakes(s)
    BY <1>1, <1>2, <1>9 DEF NInv
  <2>2. \A m \in Minutes : Covered(m) => Covered(m)'
    BY <1>1, <1>3, CoveredStays
  <2>3. \A m \in Minutes : m \in Nat /\ m * Minute \in Nat
    BY Now
  <2>4. since'[s] = since[s] /\ MinuteOf(clock)' = N
    BY <1>1, <1>5 DEF MinuteOf
  <2>5. CASE N = M
    <3>1. Behind(s)'
      BY <1>4, <2>1, <2>2, <2>4, <2>5 DEF Behind
    <3>2. srv[s].pc = "sleep" => clock' + srv'[s].wait = clock + srv[s].wait
      BY <1>1
    <3>3. Wakes(s)'
      BY <1>1, <1>4, <2>1, <2>2, <2>4, <2>5, <3>2 DEF Wakes
    <3> QED  BY <3>1, <3>3
  <2>6. CASE N = M + 1 /\ clock + 1 = M * Minute + Minute
    <3>1. N # M
      BY <2>6
    <3>2. srv[s].pc = "sleep"
      <4>1. srv[s].pc \notin Ticking
        BY <1>2, <1>4, <1>5, <3>1
      <4>2. srv[s].pc \in {"down", "sleep"} \cup Ticking
        BY DEF BInv, TypeOK, Server
      <4> QED  BY <1>1, <1>9, <4>1, <4>2
    <3>3. srv[s].wait \in Nat \ {0} /\ clock' + srv'[s].wait = clock + srv[s].wait
      BY <1>1, <3>2
    <3>4. ASSUME NEW m \in Minutes, m = M, since[s] <= m * Minute PROVE Covered(m)
      <4>1. Covered(m) \/ clock + srv[s].wait < (m + 1) * Minute
        BY <1>4, <2>1, <3>2, <3>4 DEF Wakes
      <4>2. ~(clock + srv[s].wait < (m + 1) * Minute)
        BY <1>1, <1>6, <2>6, <3>3, <3>4
      <4> QED  BY <4>1, <4>2
    <3>5. ASSUME NEW m \in Minutes, m < N, since[s] <= m * Minute PROVE Covered(m)
      <4>1. m < M \/ m = M
        BY <2>3, <2>6, <3>5
      <4> QED  BY <1>4, <2>1, <3>4, <3>5, <4>1 DEF Behind
    <3>6. Behind(s)'
      BY <2>2, <2>4, <3>5 DEF Behind
    <3>7. clock + srv[s].wait < (M + 2) * Minute
      BY <1>4, <2>1, <3>2 DEF Wakes
    <3>8. /\ clock' + srv'[s].wait < (N + 1) * Minute
          /\ clock' + srv'[s].wait < (N + 2) * Minute
      <4>1. (N + 1) * Minute = (M + 2) * Minute
        BY <2>6
      <4>2. clock' + srv'[s].wait < (N + 1) * Minute
        BY <3>3, <3>7, <4>1
      <4>3. clock' + srv'[s].wait \in Nat
        BY <1>1, <3>3
      <4> QED  BY <1>6, <4>2, <4>3
    <3>9. Wakes(s)'
      BY <2>4, <3>8 DEF Wakes
    <3> QED  BY <3>6, <3>9
  <2> QED  BY <1>7, <2>5, <2>6
<1> QED  BY <1>3, <1>8, <1>9

\* NInv is inductive, given BInv.
LEMMA NInvInductive ==
  /\ Init => NInv
  /\ BInv /\ NInv /\ [Next]_vars => NInv'
<1>1. ASSUME Init PROVE NInv
  <2>1. Down.pc = "down"
    BY DownFacts
  <2>2. \A s \in Servers : srv[s].pc = "down"
    BY <1>1, <2>1 DEF Init
  <2>3. MarksHold
    BY <1>1 DEF Init, MarksHold
  <2>4. \A s \in Servers : InTime(s)
    BY <2>2 DEF InTime, Ticking
  <2> QED  BY <2>2, <2>3, <2>4 DEF NInv
<1>2. ASSUME BInv, NInv, [Next]_vars PROVE NInv'
  <2>1. CASE UNCHANGED vars
    <3>1. UNCHANGED <<clock, cron, last, srv, triggers, since, straddled, faults>>
      BY <2>1 DEF vars
    <3> QED  BY <1>2, <3>1 DEF NInv, MarksHold, InTime, Behind, Wakes, Covered, MinuteOf
  <2>2. CASE Tick
    BY <1>2, <2>2, TickKeepsNInv
  <2>3. ASSUME NEW s \in Servers,
               \/ Start(s) \/ BeginTick(s) \/ Select(s) \/ Enqueue(s) \/ Update(s)
               \/ EndTick(s) \/ TickFails(s) \/ Stop(s)
        PROVE  NInv'
    BY <1>2, <2>3, StartKeepsNInv, BeginTickKeepsNInv, SelectKeepsNInv, EnqueueKeepsNInv,
       UpdateKeepsNInv, EndTickKeepsNInv, InterruptionKeepsNInv
  <2> QED  BY <1>2, <2>1, <2>2, <2>3 DEF Next, AtHorizon
<1> QED  BY <1>1, <1>2

\* As long as no tick is still going on when its minute ends, no minute that an
\* expression names is missed while some server ticks without a failure whose
\* interval, with the lateness of its wake-ups, is at most a minute.
THEOREM NoMinuteIsMissed == Spec => []NoMinuteMissed
<1>1. Init => NInv
  BY NInvInductive
<1>2. BInv /\ NInv /\ [Next]_vars => NInv'
  BY NInvInductive
<1>3. BInv /\ NInv => NoMinuteMissed
  <2> SUFFICES ASSUME BInv, NInv, ~straddled, NEW r \in Schedules, NEW m \in Minutes,
                      MinuteOf(clock) > m, m \in DueMinutes[cron[r]],
                      NEW s \in Servers, srv[s].pc # "down", srv[s].interval + Lateness <= Minute,
                      since[s] <= m * Minute
               PROVE  triggers[r][m] > 0
    BY DEF NoMinuteMissed
  <2>1. cron[r] \in Crons /\ cron[r] \in Seq(Part)
    BY SchedulerAssumption DEF BInv, TypeOK
  <2>2. IsDate(DateOf(m))
    BY DateOfIsDate, SchedulerAssumption DEF Minutes
  <2>3. Runs(cron[r], m)
    BY <2>1, <2>2, ShouldRunIsDue, DueMinutesAre DEF Runs
  <2>4. m < MinuteOf(clock)
    BY Now
  <2> QED  BY <2>3, <2>4 DEF NInv, Behind, Covered
<1> QED  BY <1>1, <1>2, <1>3, BInvAlways, PTL DEF Spec
=============================================================================
