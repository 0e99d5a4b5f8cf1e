SPECIFICATION Spec
CONSTANTS
  o1 = o1
  o2 = o2
  NoOutput = NoOutput
  NoLock = NoLock
  Outputs = {o1, o2}
  MaxAttempts = 2
  MaxInFlight = 1
  MaxPlugs = 1
INVARIANT SessionStaysLocked
CHECK_DEADLOCK FALSE
