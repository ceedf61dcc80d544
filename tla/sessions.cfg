SPECIFICATION Spec
CONSTANTS
  c1 = c1
  c2 = c2
  s1 = s1
  s2 = s2
  s3 = s3
  s4 = s4
  x1 = x1
  x2 = x2
  t1 = t1
  t2 = t2
  None = None
  NoSession = NoSession
  Callers <- TwoCallers
  Sessions <- FourSessions
  Messages <- NoMessages
  MaxHistory = 0
  Executions = 0
  Threads <- SomeThreads
  Requests <- SomeRequests
  Resolver <- Lab
  Topics <- TwoTopics
  RecentLimit = 1
  MaxCalls = 4
  MaxFaults = 1
INVARIANTS TypeOK OwnConversation FewThreads FewSessions FreshCache
CHECK_DEADLOCK FALSE
