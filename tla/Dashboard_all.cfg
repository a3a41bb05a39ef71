CONSTANTS
  Session = {s1, s2}
  Skill = {builder}
  None = None
  Unloaded = Unloaded
  Activations = 2
  MaxClicks = 4
  MaxTyped = 1
  MaxEvents = 1
SPECIFICATION FairSpec
INVARIANTS
  ThreadIsSelected
  SentOnce
  OwnTexts
PROPERTIES
  Settles
CHECK_DEADLOCK FALSE
