SPECIFICATION Spec
CONSTANTS
  a1 = a1
  a2 = a2
  NoAgent = NoAgent
  NoEntry = NoEntry
  MaxLen = 2
  ReadCount = 2
  ClaimCount = 3
  PelCount = 3
  MaxFaults = 1
  Roomed = {1}
  Senders = {a1}
  Agents <- PairAgents
  Streams <- PairStreams
  Subscriptions <- PairSubscriptions
  StreamOf <- OneStream
  Entries <- ThreeEntries
  KindOf <- Mixed
  FaultKinds = {"fetch", "watchdog", "close", "ack", "publish", "channel", "heartbeat", "crash", "cancel", "stop", "dataloss"}
INVARIANTS TypeOK NoTaskLost AckAfterAttempt MutualExclusion NoStranded SuccessMeansReplied
PROPERTIES ImplementsQueue ImplementsLease
