SPECIFICATION FairSpec
CONSTANTS
  ThreadCnt = 2
  Fds = {f1, f2}
  None = None
  evfd = evfd
  _max_conns = 2
  MaxTasks = 1
INVARIANTS TypeOK ClosedFdIsNowhere TableMatchesConns TasksAreConserved
PROPERTY QueuesAreServed
