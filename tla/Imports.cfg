\* Two importers, at once and one after the other.
SPECIFICATION MCSpec
CONSTANTS
  i1 = i1  i2 = i2  s1 = s1  s2 = s2
  NoSalary = NoSalary  Absent = Absent  Unplaced = Unplaced  Nobody = Nobody
  Importers = {i1, i2}
  Players = {1, 2}
  Salaries = {s1, s2}
  RunningTimeout = 1
  MaxRuns = 2  LastInstant = 0
INVARIANTS RecordsTellTheTruth MirrorReported
PROPERTIES NewestUnlessOverlapping
