CONSTANTS
  t1 = t1
  t2 = t2
  t3 = t3
  Task = {t1, t2, t3}
  WaveOf <- TwoWaves
  DependsOn <- TwoDeps
  Command = {c1}
  Foreign = {}
  Squash = TRUE
  MayCrash = FALSE
  Budget = 3
  MaxRecords = 4
  None = None
SPECIFICATION Spec
INVARIANTS
  DeliveredDepsSuffice
SYMMETRY Symmetry
CHECK_DEADLOCK FALSE
