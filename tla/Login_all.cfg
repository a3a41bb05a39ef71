CONSTANTS
  Browser = {b1, b2}
  Visit = {v1, v2, v3}
  Account = {ann, eve}
  Allowed = {ann}
  None = None
  StableSecret = FALSE
  SESSION_TTL = 1
  OAUTH_STATE_TTL = 1
  windowMs = 2
  max = 1
  MaxTime = 2
  MaxRestarts = 1
SPECIFICATION Spec
INVARIANTS
  SessionsComeHome
  
  UndisturbedLoginSucceeds
  RateHeld
SYMMETRY Symmetry
CHECK_DEADLOCK FALSE
