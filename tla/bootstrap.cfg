SPECIFICATION Spec
CONSTANTS
  m1 = m1
  m2 = m2
  NoSession = NoSession
  Messages <- TwoMessages
  Threads <- OneThread
  PayloadOf <- ThreadPayloads
  None = None
  Sessions <- TwoSessions
  MaxHistory = 2
  Executions = 2
  MaxFaults = 0
  FaultKinds = {}
INVARIANTS SeededOnce
CHECK_DEADLOCK FALSE
