SPECIFICATION Spec
CONSTANTS
  NumJobs = 2
  Tasks <- MCTwoTasks
PROPERTY NeverStopsATask
CHECK_DEADLOCK FALSE
