SPECIFICATION FairSpec
CONSTANTS
  Connections = {c1, c2, c3}
  Addresses = {a1, a2}
  PendingLimit = 2
  PerIpLimit = 1
  MaxSessions = 1
  FileSessions = 1
  Requests = {q1, q2}
  LnaLimit = 2
CHECK_DEADLOCK FALSE
INVARIANTS
  OwnerIsNotCutOff
  CountersExact
PROPERTIES
  AgentEnds
