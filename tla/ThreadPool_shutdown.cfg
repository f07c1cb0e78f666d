\* Does Thread_Shutdown always complete?
SPECIFICATION FairSpec
CONSTANTS
  j1 = j1
  j2 = j2
  j3 = j3
  NoJob = NoJob
  Jobs = {j1}
  NumThreads = 1
  MaxInits = 1
PROPERTIES ShutdownCompletes
CHECK_DEADLOCK FALSE
