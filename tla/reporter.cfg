SPECIFICATION FairSpec
CONSTANTS
  Reactors = {r1, r2}
  thread_cnt = 2
  a1 = a1
  a2 = a2
  Keys = {a1, a2}
  Requests <- MCRequests
  MaxReports = 3
  MaxErrors = 1
INVARIANTS TypeOK OverrunNeedsRace LastOfAQueueIsStored
PROPERTY EveryReportStored
CHECK_DEADLOCK FALSE
