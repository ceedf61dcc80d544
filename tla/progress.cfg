SPECIFICATION FairSpec
CONSTANTS
  a1 = a1
  a2 = a2
  NoAgent = NoAgent
  NoEntry = NoEntry
  MaxLen = 3
  ReadCount = 2
  ClaimCount = 3
  PelCount = 3
  MaxFaults = 2
  Roomed = {}
  Senders = {a1}
  Agents <- SoloAgents
  Streams <- SoloStreams
  Subscriptions <- SoloSubscriptions
  StreamOf <- Alternating
  Entries <- TwoEntries
  KindOf <- AllTasks
  FaultKinds = {"fetch", "watchdog", "ack", "crash"}
INVARIANTS AckedHasResult HeartbeatListsTasks
PROPERTIES EveryTaskDone
