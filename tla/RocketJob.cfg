SPECIFICATION FairSpec
CONSTANTS
  NumJobs = 2
  Tasks <- MCTwoTasks
INVARIANTS
  DoneMeansRan
  NoSError
  NoRunAfterEnd
  DomainFree
  PmBalanced
  QuietAfterSync
PROPERTIES
  NoTaskStopped
  ResetEnds
  JobsEnd
CHECK_DEADLOCK FALSE
