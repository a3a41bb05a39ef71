CONSTANTS
  t1 = t1
  t2 = t2
  t3 = t3
  Task = {t1, t2, t3}
  WaveOf <- TwoWaves
  DependsOn <- TwoDeps
  Command = {c1, c2}
  Foreign = {1, t3}
  Squash = FALSE
  MayCrash = TRUE
  Budget = 3
  MaxRecords = 3
  None = None
SPECIFICATION Spec
INVARIANTS
  MergedIsMerged
  DependencyOrder
  RecordsKept
  ForeignUntouched
PROPERTIES
  ConflictStays
SYMMETRY Symmetry
CHECK_DEADLOCK FALSE
