SPECIFICATION FairSpec
CONSTANTS
  Mods = {m1, m2}
  Fds = {f1}
  Threads = {t1, t2}
  None = None
  AdminWaits = "pushes"
  MaxEdits = 2
INVARIANTS TypeOK ChangesReachSubscribers
PROPERTY LastEditArrives
