SPECIFICATION FairAgent
CONSTANTS
  MaxRequests = 4
  Room = 2
  Mods = {0, 3, 4}
  None = None
INVARIANTS AgentTypeOK BufferedRequestsAreScheduled PatientClientListens PullingHasRequest
PROPERTY PullAnswered
CHECK_DEADLOCK FALSE
