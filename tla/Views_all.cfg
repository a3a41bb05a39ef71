CONSTANTS
  Session = {s1, s2}
  Busy = {s1}
  View = {v1}
  Plans <- MCPlans
  Status = {"running", "failed", "done"}
  Lengths = {3}
  Shown = 2
  Recent = 1
  Absent = Absent
  Broken = Broken
  Null = Null
  MAX_IN_FLIGHT = 1
  SMALL_FILE_THRESHOLD = 8
  TAIL_CHUNK_BYTES = 6
  FirstWindow = 1
  MaxChanges = 3
  MaxDrawn = 4
SPECIFICATION ViewSpec
INVARIANTS
  TailsMatchLog
  DetailIsCurrent
  MapDrawsAll
PROPERTIES
  GraphFollowsPlan
CHECK_DEADLOCK FALSE
