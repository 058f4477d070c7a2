SPECIFICATION FairSpec
CONSTANTS
  Caller <- MCCaller
  Owner = "owner"
  Worker <- MCWorker
  None = "none"
  Work <- MCWork
  Null = "null"
  MaxStarts = 1
  MaxStops = 1
INVARIANT TypeOK
PROPERTIES ImplementsExecutor WorkRuns StopReturns
\* Every call may have been made and returned.
CHECK_DEADLOCK FALSE
