CONSTANTS
  Proc = {p1, p2, p3}
  NoLock = NoLock
SPECIFICATION Spec
INVARIANTS
  LiveHolderNeverPreempted
SYMMETRY Symmetry
CHECK_DEADLOCK FALSE
