SPECIFICATION Spec
CONSTANTS
  Pythons = {p1, p2}
  Rusts = {r1}
  MaxTries = 5
  MaxFaults = 1
INVARIANTS
  TypeOK
  RecordedIsApplied
  UpIsComplete
PROPERTIES
  VersionNeverLowered
  StarterComesUp
