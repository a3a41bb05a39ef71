CONSTANTS
  Caller = {c1, c2}
  Session = {s1, s2}
  Status = {running, done}
  NoStatus = NoStatus
  OldStatus = OldStatus
  Registry = Registry
  Free = Free
  Absent = Absent
  Corrupt = Corrupt
  Parent = {OldParent, NoParent}
  OldParent = OldParent
  NoParent = NoParent
  Healthy = FALSE
  MayCrash = TRUE
SPECIFICATION FairSpec
INVARIANTS
  StatusHasEvent
  DriftNeedsOverlap
PROPERTIES
  OnlyStatusChanges
  EveryCallEnds
CHECK_DEADLOCK FALSE
