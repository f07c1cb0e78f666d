\* Two threads for three jobs under fair scheduling, and the pool started over once.
SPECIFICATION FairSpec
CONSTANTS
  j1 = j1
  j2 = j2
  j3 = j3
  NoJob = NoJob
  Jobs <- MCJobs
  NumThreads = 2
  MaxInits = 2
INVARIANTS TypeOK HandlesExclusive
PROPERTIES JobsServed EveryJobRuns EveryWaitReturns
CHECK_DEADLOCK FALSE
