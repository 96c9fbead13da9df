SPECIFICATION FairSpec
CONSTANTS
  Senders = {s1, s2, s3}
  None = None
  MaxMessages = 4
INVARIANTS TypeOK NoLostWakeUp
PROPERTIES ImplementsMailbox EveryMessageHandled
CHECK_DEADLOCK FALSE
