CONSTANTS
  Proc = {p1, p2, p3}
  NoLock = NoLock
SPECIFICATION FairSpec
INVARIANTS
  ExclusionUnlessPreempted
  NoLostUpdate
  SlowHolderKeepsLock
PROPERTIES
  AtomicUpdates
  EveryCallEnds
CHECK_DEADLOCK FALSE
