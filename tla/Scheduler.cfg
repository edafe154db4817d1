SPECIFICATION Spec
CONSTANTS
  NULL = NULL
  FieldRanges <- MCFieldRanges
  Servers = {s1, s2}
  Schedules = {r1, r2}
  Crons <- MCCrons
  Intervals = {1, 2}
  Minute = 2
  Lateness = 1
  Horizon = 2
  MaxFaults = 1
SYMMETRY MCSymmetry
INVARIANTS
  TypeOK
  TriggersAreDue
  TriggersBounded
  NoMinuteMissed
