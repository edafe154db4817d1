-------------------------------- MODULE Cron --------------------------------
(***************************************************************************)
(* Cron expressions as python/lapinq/scheduler.py reads them: _parse_cron  *)
(* and _should_run, and what a cron expression means, as a reference.      *)
(*                                                                         *)
(* An expression is a sequence of parts, a part is "*" (all) or a list of  *)
(* segments separated by commas, kept as a set because _parse_cron unites  *)
(* their values.  A segment is what its text was split into.               *)
(***************************************************************************)
EXTENDS Integers, Sequences

CONSTANT FieldRanges  \* field_ranges: the <<lo, hi>> of minute, hour, day, month, weekday

Segment == [kind : {"value",      \* N
                    "range",      \* N-M
                    "stepAll",    \* */S
                    "stepRange",  \* N-M/S
                    "stepFrom",   \* N/S
                    "bad"},       \* int() or the split raises ValueError
            a : Nat, b : Nat, step : Int]

Part == [all : BOOLEAN, segs : SUBSET Segment]

ASSUME FieldAssumption ==
  /\ FieldRanges \in [1..5 -> Nat \X Nat]
  /\ \A i \in 1..5 : FieldRanges[i][1] <= FieldRanges[i][2]
  /\ FieldRanges[5] = <<0, 6>>

-----------------------------------------------------------------------------
(* _parse_cron                                                             *)

HasStep(g) == g.kind \in {"stepAll", "stepRange", "stepFrom"}

\* base_range, as its first and last value.
BaseRange(g, lo, hi) ==
  CASE g.kind = "stepAll"   -> <<lo, hi>>
    [] g.kind = "stepRange" -> <<g.a, g.b>>
    [] g.kind = "stepFrom"  -> <<g.a, hi>>

\* The ValueErrors: a number that is none, min() of an empty range, a step of 0.
Raises(g, lo, hi) ==
  \/ g.kind = "bad"
  \/ HasStep(g) /\ (g.step = 0 \/ BaseRange(g, lo, hi)[1] > BaseRange(g, lo, hi)[2])

Invalid(c) ==
  \/ Len(c) # 5
  \/ \E i \in 1..5 : ~c[i].all /\ \E g \in c[i].segs :
                        Raises(g, FieldRanges[i][1], FieldRanges[i][2])

\* range(first, last + 1, step).
Stepped(first, last, step) ==
  IF step < 0 THEN {} ELSE {first + k * step : k \in 0 .. (last - first) \div step}

\* What a segment adds to values.
Values(g, lo, hi) ==
  CASE g.kind = "value" -> {g.a}
    [] g.kind = "range" -> g.a .. g.b
    [] OTHER -> LET base == BaseRange(g, lo, hi) IN Stepped(base[1], base[2], g.step)

ParsePart(p, i) ==
  LET lo == FieldRanges[i][1]  hi == FieldRanges[i][2]
  IN IF p.all THEN lo .. hi ELSE UNION {Values(g, lo, hi) : g \in p.segs}

ParseCronUnconverted(c) == [i \in 1..5 |-> ParsePart(c[i], i)]

\* The five sets; cron counts weekdays from Sunday, Python from Monday.
ParseCron(c) ==
  [i \in 1..5 |-> IF i = 5 THEN {(w + 6) % 7 : w \in ParsePart(c[5], 5)}
                  ELSE ParsePart(c[i], i)]

\* _should_run; d is the date as <<minute, hour, day, month, weekday()>>.
ShouldRun(sets, d) == \A i \in 1..5 : d[i] \in sets[i]

-----------------------------------------------------------------------------
(* What an expression means                                                *)

\* Segment g names the value v.
Names(g, lo, hi, v) ==
  CASE g.kind = "value"     -> v = g.a
    [] g.kind = "range"     -> g.a <= v /\ v <= g.b
    [] g.kind = "stepAll"   -> lo <= v /\ v <= hi /\ g.step > 0 /\ (v - lo) % g.step = 0
    [] g.kind = "stepRange" -> g.a <= v /\ v <= g.b /\ g.step > 0 /\ (v - g.a) % g.step = 0
    [] g.kind = "stepFrom"  -> g.a <= v /\ v <= hi /\ g.step > 0 /\ (v - g.a) % g.step = 0
    [] OTHER                -> FALSE

PartNames(p, i, v) ==
  p.all \/ \E g \in p.segs : Names(g, FieldRanges[i][1], FieldRanges[i][2], v)

\* Sunday is 0 and 7 in a cron expression and 6 for Python.
IsDue(c, d) ==
  /\ \A i \in 1..4 : PartNames(c[i], i, d[i])
  /\ LET sundayFirst == (d[5] + 1) % 7
     IN PartNames(c[5], 5, sundayFirst) \/ (sundayFirst = 0 /\ PartNames(c[5], 5, 7))
=============================================================================
