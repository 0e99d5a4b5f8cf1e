CONSTANTS
  Regions = {r1, r2}
  SwapchainCap = 4
  Modes = {1, 2}
  Scales = {1, 2}
  Levels = {1, 2}
  RetryMin = 16
  RetryMax = 30
  NoCfg = NoCfg
  MaxChanges = 1
  MaxRequests = 2
  MaxFaults = 2
SPECIFICATION Spec
INVARIANTS
  DamageCoversStale
  NeverBusy
  StaleIsScheduled
  RequestsApplied
PROPERTIES
  ScreenCatchesUp
CHECK_DEADLOCK FALSE
