SPECIFICATION FairSpec
CONSTANTS
  Hosts = {h1, h2, h3}
  Responses = {{h1}, {h2}, {h1, h3}, {h3}}
  Addrs = {a1, a2}
  Freed = Freed
  Unset = Unset
  probe_num = 1
  init_succ_cnt = 1
  init_err_cnt = 1
  ErrNum = 2
  ErrDen = 3
  SuccNum = 1
  SuccDen = 3
  contin_err_limit = 2
  contin_succ_limit = 2
  idle_timeout = 1
  overload_timeout = 1
  MaxCalls = 1
  MaxQueue = 1
INVARIANTS TypeOK ListsPartitionLive LiveIsMapped ServedFollowsRoute NoLateJudgement CountersShareTheWindow
PROPERTY OverloadEnds
CHECK_DEADLOCK FALSE
