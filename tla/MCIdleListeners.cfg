SPECIFICATION Spec
CONSTANTS
  Seats = {s1}
  Idles = {i1}
  Surfaces = {w1}
  Toplevels = {w1}
  Timeouts = {0, 2}
  NoIdle = NoIdle
  NoInhibitor = NoInhibitor
INVARIANT ListenersOnce
