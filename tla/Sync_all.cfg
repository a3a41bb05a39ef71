CONSTANTS
  Run = {r1, r2}
  Key = {k1}
  Pass = {p1, p2}
  None = None
  Unreadable = Unreadable
  OneConnection = FALSE
  MayRestart = TRUE
  MayUnmount = TRUE
  MaxLines = 1
  MaxChanges = 2
SPECIFICATION Spec
INVARIANTS
  MirrorAgrees
  EventsInOrder
PROPERTIES
  RealRowsKept
SYMMETRY Symmetry
CHECK_DEADLOCK FALSE
