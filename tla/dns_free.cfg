SPECIFICATION Spec
CONSTANTS
  Mods = {m1, m2}
  Fds = {f1}
  Threads = {t1, t2}
  None = None
  AdminWaits = "nothing"
  MaxEdits = 2
SYMMETRY Symmetry
INVARIANT ClosedFdIsForgotten
PROPERTIES NoStaleRouteSent ServesRouteTable
