CONSTANTS
  Caller = {c1}
  Session = {s1, f1}
  Status = {running}
  NoStatus = NoStatus
  OldStatus = OldStatus
  Registry = Registry
  Free = Free
  Absent = Absent
  Corrupt = Corrupt
  Parent = {OldParent, NoParent, P}
  OldParent = OldParent
  NoParent = NoParent
  Healthy = FALSE
  MayCrash = FALSE
  Tool = {t1, t2}
  Kinds = {"backfill", "create", "clean"}
  Fixture = {f1}
  Active = running
  Desired = P
  Attempts = 2
SPECIFICATION ToolSpec
INVARIANTS
  WritersAreCurrent
PROPERTIES
  ToolsKeepEntries
  UpdatesAreSingle
SYMMETRY Symmetry
CHECK_DEADLOCK FALSE
