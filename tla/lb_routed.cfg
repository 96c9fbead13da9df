SPECIFICATION Spec
CONSTANTS
  Hosts = {h1, h2, h3}
  Responses = {{}, {h1}, {h2}, {h3}, {h1, h2}, {h1, h3}, {h2, h3}, {h1, h2, h3}}
  Addrs = {a1, a2, a3}
  Freed = Freed
  Unset = Unset
  probe_num = 1
  init_succ_cnt = 1
  init_err_cnt = 0
  ErrNum = 1
  ErrDen = 2
  SuccNum = 1
  SuccDen = 2
  contin_err_limit = 1
  contin_succ_limit = 1
  idle_timeout = 1
  overload_timeout = 1
  MaxCalls = 1
  MaxQueue = 0
SYMMETRY Symmetry
INVARIANTS EveryRoutedHostIsServed
CHECK_DEADLOCK FALSE
