CONSTANTS
  Console = {c1, c2}
  PORT <- FirstPort
  MaxPort = 3
  Taken = {2}
  MaxTries = 2
  OtherTables <- SomeTables
  Request = {r1, r2}
  Skill = {builder, mine}
  BuiltIn = {builder}
  OnDisk = OnDisk
  None = None
  MaxStarts = 3
SPECIFICATION Spec
INVARIANTS
  ServesOwnDatabase
  OneBootSurvives
  AnsweredIsApplied
PROPERTIES
  LibraryAtomic
SYMMETRY Symmetry
CHECK_DEADLOCK FALSE
