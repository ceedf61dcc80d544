SPECIFICATION FairSpec
CONSTANTS
  m1 = m1
  m2 = m2
  NoSession = NoSession
  Messages <- TwoMessages
  Threads <- OneThread
  PayloadOf <- ThreadPayloads
  None = None
  Sessions <- TwoSessions
  MaxHistory = 2
  Executions = 1
  MaxFaults = 1
  FaultKinds = {"store", "channel", "bus", "tracker"}
INVARIANTS TypeOK AnsweredWasRecorded TurnsAreAnswers SeededFirst VersionIsShown MarkedIsPublished
PROPERTIES NeverBlocked ImplementsDialogue
CHECK_DEADLOCK FALSE
