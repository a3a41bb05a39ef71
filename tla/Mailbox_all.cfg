CONSTANTS
  Message = {m1, m2, m3}
  Posted = {m1, m2}
  Replier = {r1, r2, r3}
  Reader = {g1}
  Cap = 1
  None = None
  MayCrash = TRUE
SPECIFICATION Spec
INVARIANTS
  NothingLost
  ReadersMissNothing
  CapHeld
PROPERTIES
  BoxAnswersOnce
SYMMETRY Symmetry
CHECK_DEADLOCK FALSE
