SPECIFICATION FairSpec
CONSTANTS
  j1 = j1
  j2 = j2
  j3 = j3
  j4 = j4
  f1 = f1
  f2 = f2
  NoJob = NoJob
  NoFence = NoFence
  Jobs = {j1, j2, j3, j4}
  Fences = {f1, f2}
  FenceOf <- MCFenceOf
  MaxThreads = 2
  InitMaxJobs = 2
  Growth = 2
INVARIANTS
  TypeOK
  RingConsistent
  OneOwner
  FenceSettlesJob
PROPERTIES
  ImplementsPool
  NobodyStuck
CHECK_DEADLOCK FALSE
