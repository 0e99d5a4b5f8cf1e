SPECIFICATION Spec
CONSTANTS
  MaxServers = 3
  MaxChildren = 2
INVARIANTS
  StartedOnce
  ConnectionIsCurrent
  
PROPERTIES
  BeginAndEnd
