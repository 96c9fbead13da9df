SPECIFICATION FairSpec
CONSTANTS
  Clients = {c1}
  Mods = {0, 3}
  Width = 3
  MaxCalls = 4
  MaxInterrupts = 2
INVARIANTS TypeOK AnswerIsOwn StaleAnswersAreBounded
PROPERTY CallReturns
CHECK_DEADLOCK FALSE
