SPECIFICATION FairSpec
CONSTANTS
  j1 = j1
  j2 = j2
  j3 = j3
  c1 = c1
  c2 = c2
  NoJob = NoJob
  Jobs <- const_Jobs
  Clients <- const_Clients
INVARIANTS
  ZeroMeansIdle
  OneFate
PROPERTIES
  ImplementsJobQueue
  EveryJobIsReported
CHECK_DEADLOCK FALSE
