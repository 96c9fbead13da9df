SPECIFICATION Spec
CONSTANTS
  Conns = {c1, c2}
  Talkers = {c1}
  Served = {c2}
  BodyLens = {0, 1, 3}
  HEAD_LEN = 2
  LEN_LIMIT = 2
  Caps = {3, 6}
  Prefilled = 1
  MEM_LIMIT = 16
  MaxIn = 2
  MaxOut = 2
INVARIANTS TypeOK BuffersAreConserved MessagesAreWhole HeadAssertsHold NothingIsStuck
CHECK_DEADLOCK FALSE
