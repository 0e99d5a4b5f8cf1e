SPECIFICATION Spec
CONSTANTS
  Width = 4
  Widths = {1, 2}
  Places = {0, 1}
  Tiles = {"none", "right"}
  MaxRequests = 4
INVARIANTS
  WaitsWithTimer
  ClientKnowsState
  
  CoversWhenSettled
