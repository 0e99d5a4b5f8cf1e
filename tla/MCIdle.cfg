SPECIFICATION FairSpec
CONSTANTS
  Seats = {s1, s2}
  Idles = {i1}
  Surfaces = {w1, w2}
  Toplevels = {w1}
  Timeouts = {0, 1}
  NoIdle = NoIdle
  NoInhibitor = NoInhibitor
INVARIANTS
  InhibitsWhileShown
  InhibitedStaysActive
  IdleAfterQuiet
PROPERTIES
  ActivityWakes
  IdleEventually
