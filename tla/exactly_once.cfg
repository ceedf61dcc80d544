SPECIFICATION Spec
CONSTANTS
  a1 = a1
  a2 = a2
  NoAgent = NoAgent
  NoEntry = NoEntry
  MaxLen = 3
  ReadCount = 2
  ClaimCount = 3
  PelCount = 3
  MaxFaults = 0
  Roomed = {1}
  Senders = {a1, a2}
  Agents <- PairAgents
  Streams <- PairStreams
  Subscriptions <- PairSubscriptions
  StreamOf <- OneStream
  Entries <- TwoEntries
  KindOf <- AllTasks
  FaultKinds = {}
PROPERTIES AtMostOnce
