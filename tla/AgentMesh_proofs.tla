--------------------------- MODULE AgentMesh_proofs ---------------------------
(***************************************************************************)
(* Theorems about the mesh, for every number of agents, streams, entries   *)
(* and faults.                                                             *)
(***************************************************************************)
EXTENDS AgentMesh, FiniteSetTheorems, TLAPS

\* What a step of the mesh can do to the server: one command, or nothing.
ServerStep ==
  \/ UNCHANGED redisVars
  \/ \E e \in Entries : XAdd(e) \/ XAck(e) \/ BecomeStale(e)
  \/ \E s \in Streams : CreateGroup(s) \/ DataLoss(s)
  \/ \E a \in Agents, s \in Streams :
       XAutoClaim(a, s) \/ XReadHistory(a, s) \/ XReadNew(a, s)

-----------------------------------------------------------------------------
(* The server alone.                                                       *)

\* A trimmed prefix is part of the stream it is trimmed from.
LEMMA TrimmableSubset ==
  ASSUME NEW S, NEW T \in Trimmable(S)
  PROVE  T \subseteq S
BY DEF Trimmable, LeastN

\* The commands that take entries take entries that are there to take.
LEMMA TakenEntries ==
  ASSUME NEW a, NEW s
  PROVE  /\ Claimable(s) \subseteq stale \cap InStream(s)
         /\ History(a, s) \subseteq PendingTo(a, s)
         /\ Fresh(s) \subseteq unread \cap InStream(s)
BY DEF Claimable, History, Fresh, LeastN

\* Every command keeps the server's state well formed.
LEMMA ServerType == RedisTypeOK /\ ServerStep => RedisTypeOK'
<1> SUFFICES ASSUME RedisTypeOK, ServerStep PROVE RedisTypeOK'
  OBVIOUS
<1> USE DEF RedisTypeOK
<1>1. CASE UNCHANGED redisVars
  BY <1>1 DEF redisVars
<1>2. ASSUME NEW e \in Entries, XAdd(e) PROVE RedisTypeOK'
  <2> DEFINE s == StreamOf[e]
             S == (present \cap InStream(s)) \cup {e}
  <2>1. PICK dropped \in Trimmable(S) :
          /\ present' = (present \cup {e}) \ dropped
          /\ unread' = (IF s \in group THEN unread \cup {e} ELSE unread) \ dropped
    BY <1>2 DEF XAdd
  <2>2. sent' = sent \cup {e} /\ UNCHANGED <<owner, stale, group, acked>>
    BY <1>2 DEF XAdd
  <2> QED BY <2>1, <2>2
<1>3. ASSUME NEW e \in Entries, XAck(e) PROVE RedisTypeOK'
  BY <1>3 DEF XAck
<1>4. ASSUME NEW e \in Entries, BecomeStale(e) PROVE RedisTypeOK'
  BY <1>4 DEF BecomeStale
<1>5. ASSUME NEW s \in Streams, CreateGroup(s) PROVE RedisTypeOK'
  BY <1>5 DEF CreateGroup, XGroupCreate
<1>6. ASSUME NEW s \in Streams, DataLoss(s) PROVE RedisTypeOK'
  BY <1>6 DEF DataLoss, InStream
<1>7. ASSUME NEW a \in Agents, NEW s \in Streams, XAutoClaim(a, s)
      PROVE RedisTypeOK'
  BY <1>7, TakenEntries DEF XAutoClaim
<1>8. ASSUME NEW a \in Agents, NEW s \in Streams, XReadHistory(a, s)
      PROVE RedisTypeOK'
  BY <1>8 DEF XReadHistory
<1>9. ASSUME NEW a \in Agents, NEW s \in Streams, XReadNew(a, s)
      PROVE RedisTypeOK'
  BY <1>9, AgentsAssumption DEF XReadNew
<1> QED
  BY <1>1, <1>2, <1>3, <1>4, <1>5, <1>6, <1>7, <1>8, <1>9 DEF ServerStep

-----------------------------------------------------------------------------
(* Every step of the mesh is at most one command.                          *)

\* A subscription names an agent and a stream.
LEMMA SubscriptionParts ==
  ASSUME NEW w \in Subscriptions
  PROVE  /\ AgentOf(w) \in Agents
         /\ StreamIn(w) \in Streams
         /\ w = <<AgentOf(w), StreamIn(w)>>
BY SubscriptionsAssumption DEF AgentOf, StreamIn

\* A worker with a task in hand has an entry.
LEMMA TaskInHand ==
  ASSUME TypeOK, NEW w \in Subscriptions, pc[w] # "idle"
  PROVE  task[w] \in Entries
BY DEF TypeOK

\* The steps of a generator give the server at most one command.
LEMMA GeneratorServer ==
  ASSUME NEW w \in Subscriptions, GeneratorStep(w)
  PROVE  ServerStep
<1> DEFINE a == AgentOf(w)
           s == StreamIn(w)
<1>0. a \in Agents /\ s \in Streams
  BY SubscriptionParts
<1>1. CASE EnsureGroup(w)
  BY <1>0, <1>1 DEF EnsureGroup, Lost, ServerStep
<1>2. CASE ReclaimPending(w)
  BY <1>0, <1>2 DEF ReclaimPending, Lost, ServerStep
<1>3. CASE ReadOwnPending(w)
  BY <1>0, <1>3 DEF ReadOwnPending, Lost, ServerStep
<1>4. CASE ReadNew(w)
  BY <1>0, <1>4 DEF ReadNew, ServerStep
<1>5. CASE ReadFails(w)
  BY <1>0, <1>5 DEF ReadFails, Lost, ServerStep
<1>6. CASE Watchdog(w)
  BY <1>0, <1>6 DEF Watchdog, Lost, ServerStep
<1>7. CASE SkipUnparseable(w)
  BY <1>7 DEF SkipUnparseable, Lost, ServerStep
<1> QED
  BY <1>1, <1>2, <1>3, <1>4, <1>5, <1>6, <1>7 DEF GeneratorStep

\* So do the steps of a worker.
LEMMA WorkServer ==
  ASSUME TypeOK, NEW w \in Subscriptions, Work(w)
  PROVE  ServerStep
<1>1. CASE Leave(w)
  BY <1>1 DEF Leave, ServerStep
<1>2. CASE Generate(w)
  BY <1>2, GeneratorServer DEF Generate
<1>3. CASE Take(w)
  BY <1>3 DEF Take, Yield, ServerStep
<1>4. CASE Prepare(w) \/ Beat(w) \/ Execute(w) \/ Reply(w) \/ Record(w)
           \/ Finish(w) \/ PublishResult(w)
  BY <1>4 DEF Prepare, Beat, Execute, Reply, Record, Finish, PublishResult,
              LocalStep, ServerStep
<1>5. CASE Ack(w) \/ AckRetry(w)
  <2>1. task[w] \in Entries
    BY <1>5, TaskInHand DEF Ack, AckRetry, At
  <2> QED BY <1>5, <2>1 DEF Ack, AckRetry, Lost, ServerStep
<1> QED
  BY <1>1, <1>2, <1>3, <1>4, <1>5 DEF Work, Process

\* So does every step.
LEMMA StepServer == TypeOK /\ [Next]_vars => ServerStep
<1> SUFFICES ASSUME TypeOK, [Next]_vars PROVE ServerStep
  OBVIOUS
<1>1. CASE UNCHANGED vars
  BY <1>1 DEF vars, ServerStep
<1>2. ASSUME NEW e \in Entries, Publish(e) \/ Elapse(e) PROVE ServerStep
  BY <1>2 DEF Publish, Elapse, ServerStep
<1>3. ASSUME NEW s \in Streams, LoseStream(s) PROVE ServerStep
  BY <1>3 DEF LoseStream, ServerStep
<1>4. ASSUME NEW a \in Agents,
             Start(a) \/ Stop(a) \/ Crash(a) \/ Cancel(a) \/ CloseBus(a)
      PROVE  ServerStep
  BY <1>4 DEF Start, Stop, Crash, Cancel, Halt, CloseBus, Close, ServerStep
<1>5. ASSUME NEW w \in Subscriptions, Work(w) PROVE ServerStep
  BY <1>5, WorkServer
<1> QED
  BY <1>1, <1>2, <1>3, <1>4, <1>5 DEF Next

-----------------------------------------------------------------------------
(* Types.                                                                  *)

LocalTypeOK ==
  /\ grouped \in [Agents -> SUBSET Streams]
  /\ phase \in [Subscriptions -> Phases]
  /\ batch \in [Subscriptions -> SUBSET Entries]
  /\ hollow \in [Subscriptions -> SUBSET Entries]
  /\ abandoned \subseteq Entries
  /\ faults \in Nat
  /\ running \in [Agents -> BOOLEAN]
  /\ pc \in [Subscriptions -> Steps]
  /\ task \in [Subscriptions -> Entries \cup {NoEntry}]
  /\ \A w \in Subscriptions : pc[w] = "idle" <=> task[w] = NoEntry
  /\ status \in [Subscriptions -> Statuses]
  /\ heartbeat \in [Agents -> SUBSET Entries]
  /\ started \subseteq Entries
  /\ attempted \subseteq Entries
  /\ rejected \subseteq Entries
  /\ replied \subseteq Agents \X Entries
  /\ results \subseteq Agents \X Entries \X Statuses
  /\ overdue \subseteq Entries

LEMMA TypeParts == TypeOK <=> RedisTypeOK /\ LocalTypeOK
BY DEF TypeOK, BusTypeOK, LocalTypeOK

\* What a generator does to its own state.
LEMMA GeneratorType ==
  ASSUME TypeOK, NEW w \in Subscriptions, Generate(w)
  PROVE  LocalTypeOK'
<1> DEFINE a == AgentOf(w)
           s == StreamIn(w)
<1>0. /\ a \in Agents /\ s \in Streams
      /\ RedisTypeOK /\ LocalTypeOK
      /\ UNCHANGED consumerVars
      /\ GeneratorStep(w)
  BY SubscriptionParts, TypeParts DEF Generate
<1> USE DEF LocalTypeOK, consumerVars, workerVars, outcomeVars, Fault, GoTo,
            Fetch, Raise, Phases
<1>1. CASE EnsureGroup(w)
  BY <1>0, <1>1 DEF EnsureGroup
<1>2. CASE ReclaimPending(w)
  <2>1. Claimable(s) \subseteq Entries
    BY TakenEntries DEF InStream
  <2> QED BY <1>0, <1>2, <2>1 DEF ReclaimPending
<1>3. CASE ReadOwnPending(w)
  <2>1. History(a, s) \subseteq Entries
    BY TakenEntries DEF PendingTo, InStream
  <2> QED BY <1>0, <1>3, <2>1 DEF ReadOwnPending
<1>4. CASE ReadNew(w)
  <2>1. Fresh(s) \subseteq Entries
    BY TakenEntries DEF InStream
  <2> QED BY <1>0, <1>4, <2>1 DEF ReadNew
<1>5. CASE ReadFails(w)
  BY <1>0, <1>5 DEF ReadFails
<1>6. CASE Watchdog(w)
  <2>1. Fresh(s) \subseteq Entries
    BY TakenEntries DEF InStream
  <2> QED BY <1>0, <1>6, <2>1 DEF Watchdog
<1>7. CASE SkipUnparseable(w)
  BY <1>0, <1>7 DEF SkipUnparseable
<1> QED
  BY <1>0, <1>1, <1>2, <1>3, <1>4, <1>5, <1>6, <1>7 DEF GeneratorStep

\* What a worker does to its own state.
LEMMA WorkType ==
  ASSUME TypeOK, NEW w \in Subscriptions, Work(w)
  PROVE  LocalTypeOK'
<1>0. /\ AgentOf(w) \in Agents
      /\ LocalTypeOK
      /\ pc[w] # "idle" => task[w] \in Entries
  BY SubscriptionParts, TypeParts, TaskInHand
<1>1. CASE Leave(w)
  BY <1>0, <1>1 DEF LocalTypeOK, Leave, GoTo, Phases, consumerVars, workerVars,
                    outcomeVars
<1>2. CASE Generate(w)
  BY <1>2, GeneratorType
<1>3. CASE Take(w)
  BY <1>0, <1>3, NoEntryAssumption
     DEF LocalTypeOK, Take, Yield, At, Goto, Steps, outcomeVars
<1> USE DEF LocalTypeOK, LocalStep, At, Goto, Steps, Statuses, Fault, Done
<1>4. CASE Prepare(w)
  BY <1>0, <1>4 DEF Prepare
<1>5. CASE Beat(w)
  BY <1>0, <1>5 DEF Beat
<1>6. CASE Execute(w)
  BY <1>0, <1>6 DEF Execute
<1>7. CASE Reply(w)
  BY <1>0, <1>7 DEF Reply
<1>8. CASE Record(w)
  BY <1>0, <1>8 DEF Record
<1>9. CASE Finish(w)
  BY <1>0, <1>9 DEF Finish, outcomeVars
<1>10. CASE PublishResult(w)
  BY <1>0, <1>10 DEF PublishResult
<1>11. CASE Ack(w)
  BY <1>0, <1>11 DEF Ack, outcomeVars
<1>12. CASE AckRetry(w)
  BY <1>0, <1>12 DEF AckRetry, outcomeVars, Fetch, GoTo, Phases
<1> QED
  BY <1>1, <1>2, <1>3, <1>4, <1>5, <1>6, <1>7, <1>8, <1>9, <1>10, <1>11, <1>12
     DEF Work, Process

\* What a step of an agent's process does.
LEMMA ProcessType ==
  ASSUME TypeOK, NEW a \in Agents,
         Start(a) \/ Stop(a) \/ Crash(a) \/ Cancel(a) \/ CloseBus(a)
  PROVE  LocalTypeOK'
<1>0. LocalTypeOK
  BY TypeParts
<1> USE DEF LocalTypeOK, Phases, Steps, Statuses, Fault, outcomeVars, Workers
<1>1. CASE Start(a)
  BY <1>0, <1>1 DEF Start
<1>2. CASE Stop(a)
  BY <1>0, <1>2 DEF Stop
<1>3. CASE Crash(a)
  BY <1>0, <1>3 DEF Crash, Halt, DropGenerators
<1>4. CASE Cancel(a)
  BY <1>0, <1>4 DEF Cancel, Halt, DropGenerators
<1>5. CASE CloseBus(a)
  BY <1>0, <1>5 DEF CloseBus, Close, consumerVars, workerVars
<1> QED BY <1>1, <1>2, <1>3, <1>4, <1>5

LEMMA TypeInit == Init => TypeOK
BY DEF Init, ConsumerInit, BusInit, RedisInit, TypeOK, BusTypeOK, RedisTypeOK,
       Phases, Steps, Statuses

LEMMA TypeStep == TypeOK /\ [Next]_vars => TypeOK'
<1> SUFFICES ASSUME TypeOK, [Next]_vars PROVE TypeOK'
  OBVIOUS
<1>0. RedisTypeOK /\ LocalTypeOK
  BY TypeParts
<1>1. RedisTypeOK'
  BY <1>0, StepServer, ServerType
<1>2. LocalTypeOK'
  <2>1. CASE UNCHANGED vars
    BY <1>0, <2>1 DEF LocalTypeOK, vars, busVars, consumerVars, workerVars,
                      outcomeVars
  <2>2. ASSUME NEW e \in Entries, Publish(e) \/ Elapse(e) PROVE LocalTypeOK'
    BY <1>0, <2>2 DEF LocalTypeOK, Publish, Elapse, busVars, consumerVars,
                      workerVars, outcomeVars
  <2>3. ASSUME NEW s \in Streams, LoseStream(s) PROVE LocalTypeOK'
    BY <1>0, <2>3 DEF LocalTypeOK, LoseStream, Fault, consumerVars, workerVars,
                      outcomeVars
  <2> QED
    BY <2>1, <2>2, <2>3, ProcessType, WorkType DEF Next
<1> QED
  BY <1>1, <1>2 DEF TypeOK, BusTypeOK, LocalTypeOK

\* Every variable keeps its type, and a worker has a task exactly while it is
\* inside _process_task or acknowledging.
THEOREM Types == Spec => []TypeOK
BY TypeInit, TypeStep, PTL DEF Spec

-----------------------------------------------------------------------------
(* No task is lost: the server's commands are enough for that.             *)

LEMMA NothingLost ==
  ASSUME RedisTypeOK, NoTaskLost, ServerStep
  PROVE  NoTaskLost'
<1> USE DEF RedisTypeOK, NoTaskLost, Owed
<1>1. CASE UNCHANGED redisVars
  BY <1>1 DEF redisVars
<1>2. ASSUME NEW e \in Entries, XAdd(e) PROVE NoTaskLost'
  BY <1>2 DEF XAdd
<1>3. ASSUME NEW e \in Entries, XAck(e) PROVE NoTaskLost'
  BY <1>3 DEF XAck
<1>4. ASSUME NEW e \in Entries, BecomeStale(e) PROVE NoTaskLost'
  BY <1>4 DEF BecomeStale
<1>5. ASSUME NEW s \in Streams, CreateGroup(s) PROVE NoTaskLost'
  BY <1>5 DEF CreateGroup, XGroupCreate, InStream
<1>6. ASSUME NEW s \in Streams, DataLoss(s) PROVE NoTaskLost'
  BY <1>6 DEF DataLoss, InStream
<1>7. ASSUME NEW a \in Agents, NEW s \in Streams, XAutoClaim(a, s)
      PROVE  NoTaskLost'
  BY <1>7, AgentsAssumption DEF XAutoClaim
<1>8. ASSUME NEW a \in Agents, NEW s \in Streams, XReadHistory(a, s)
      PROVE  NoTaskLost'
  BY <1>8 DEF XReadHistory
<1>9. ASSUME NEW a \in Agents, NEW s \in Streams, XReadNew(a, s)
      PROVE  NoTaskLost'
  BY <1>9, AgentsAssumption DEF XReadNew
<1> QED
  BY <1>1, <1>2, <1>3, <1>4, <1>5, <1>6, <1>7, <1>8, <1>9 DEF ServerStep

\* Between XADD and XACK no task is lost, whatever fails and however often.
THEOREM TasksAreKept == Spec => []NoTaskLost
<1>1. Init => NoTaskLost
  BY DEF Init, ConsumerInit, BusInit, RedisInit, NoTaskLost
<1>2. TypeOK /\ NoTaskLost /\ [Next]_vars => NoTaskLost'
  BY TypeParts, StepServer, NothingLost
<1> QED
  BY <1>1, <1>2, Types, PTL DEF Spec

-----------------------------------------------------------------------------
(* An entry is acknowledged after an attempt at it.                        *)

\* Nobody has, or has acknowledged, an entry that was never sent.
KnownEntries ==
  /\ acked \subseteq sent
  /\ \A e \in Entries : owner[e] # NoAgent => e \in sent
  /\ \A w \in Subscriptions :
       batch[w] \subseteq sent /\ (task[w] # NoEntry => task[w] \in sent)

\* The entries a worker was told to have no fields have none, ever.
HollowGone ==
  \A w \in Subscriptions :
    hollow[w] \subseteq batch[w] /\ hollow[w] \cap present = {}

Ended(w) == pc[w] \in {"finish", "publish", "ack", "ackretry"}

\* Entries whose processing came to an end, with or without an execution.
Tried == attempted \cup rejected

\* A worker past execute_fn, or past an exception, made its attempt.
EndedAttempted ==
  \A w \in Subscriptions : Ended(w) => task[w] \in Tried

\* Entries stay sent; their fields never come back.
LEMMA SentForGood ==
  ASSUME RedisTypeOK, ServerStep
  PROVE  /\ sent \subseteq sent'
         /\ present' \cap sent \subseteq present
<1> USE DEF RedisTypeOK
<1>1. ASSUME NEW e \in Entries, XAdd(e)
      PROVE  sent \subseteq sent' /\ present' \cap sent \subseteq present
  BY <1>1 DEF XAdd
<1> QED
  BY <1>1 DEF ServerStep, redisVars, XAck, BecomeStale, CreateGroup, XGroupCreate, DataLoss,
              XAutoClaim, XReadHistory, XReadNew

\* Only a command that takes entries, or XACK, changes who they are pending
\* to, and none of them is pending to anybody before it is sent.
LEMMA OwnersKnown ==
  ASSUME RedisTypeOK, ServerStep, \A e \in Entries : owner[e] # NoAgent => e \in sent
  PROVE  \A e \in Entries : owner'[e] # NoAgent => e \in sent'
<1> USE DEF RedisTypeOK
<1>1. sent \subseteq sent'
  BY SentForGood
<1>2. ASSUME NEW a \in Agents, NEW s \in Streams, XAutoClaim(a, s)
      PROVE  \A e \in Entries : owner'[e] # NoAgent => e \in sent'
  BY <1>1, <1>2, TakenEntries DEF XAutoClaim
<1>3. ASSUME NEW a \in Agents, NEW s \in Streams, XReadNew(a, s)
      PROVE  \A e \in Entries : owner'[e] # NoAgent => e \in sent'
  BY <1>1, <1>3, TakenEntries DEF XReadNew
<1>4. ASSUME \/ UNCHANGED redisVars
             \/ \E e \in Entries : XAdd(e) \/ XAck(e) \/ BecomeStale(e)
             \/ \E s \in Streams : CreateGroup(s) \/ DataLoss(s)
             \/ \E a \in Agents, s \in Streams : XReadHistory(a, s)
      PROVE  \A e \in Entries : owner'[e] # NoAgent => e \in sent'
  BY <1>1, <1>4 DEF redisVars, XAdd, XAck, BecomeStale, CreateGroup, XGroupCreate, DataLoss,
                    XReadHistory
<1> QED
  BY <1>2, <1>3, <1>4 DEF ServerStep

\* An entry is acknowledged by a worker that has it in memory.
LEMMA GeneratorKnown ==
  ASSUME TypeOK, KnownEntries, NEW w \in Subscriptions, Generate(w)
  PROVE  KnownEntries'
<1> DEFINE a == AgentOf(w)
           s == StreamIn(w)
<1>0. /\ RedisTypeOK
      /\ batch \in [Subscriptions -> SUBSET Entries]
      /\ UNCHANGED consumerVars
      /\ GeneratorStep(w)
      /\ sent \subseteq sent'
      /\ \A e \in Entries : owner'[e] # NoAgent => e \in sent'
  BY GeneratorServer, SentForGood, OwnersKnown
     DEF Generate, TypeOK, BusTypeOK, KnownEntries
<1> USE <1>0 DEF KnownEntries, Fetch, Raise, Lost, redisVars, consumerVars, workerVars
<1>1. CASE EnsureGroup(w)
  BY <1>1 DEF EnsureGroup, CreateGroup, XGroupCreate
<1>2. CASE ReclaimPending(w)
  <2>1. Claimable(s) \subseteq sent
    BY TakenEntries DEF RedisTypeOK
  <2> QED BY <1>2, <2>1 DEF ReclaimPending, XAutoClaim
<1>3. CASE ReadOwnPending(w)
  <2>1. History(a, s) \subseteq sent
    BY TakenEntries, SubscriptionParts, AgentsAssumption DEF PendingTo, InStream
  <2> QED BY <1>3, <2>1 DEF ReadOwnPending, XReadHistory
<1>4. CASE ReadNew(w)
  <2>1. Fresh(s) \subseteq sent
    BY TakenEntries DEF RedisTypeOK
  <2> QED BY <1>4, <2>1 DEF ReadNew, XReadNew
<1>5. CASE ReadFails(w)
  BY <1>5 DEF ReadFails, XReadNew
<1>6. CASE Watchdog(w)
  BY <1>6 DEF Watchdog, XReadNew
<1>7. CASE SkipUnparseable(w)
  BY <1>7 DEF SkipUnparseable, XAck, IsNext
<1> QED
  BY <1>1, <1>2, <1>3, <1>4, <1>5, <1>6, <1>7 DEF GeneratorStep

LEMMA KnownStep == TypeOK /\ KnownEntries /\ [Next]_vars => KnownEntries'
<1> SUFFICES ASSUME TypeOK, KnownEntries, [Next]_vars PROVE KnownEntries'
  OBVIOUS
<1>0. /\ RedisTypeOK
      /\ batch \in [Subscriptions -> SUBSET Entries]
      /\ task \in [Subscriptions -> Entries \cup {NoEntry}]
      /\ sent \subseteq sent'
      /\ \A e \in Entries : owner'[e] # NoAgent => e \in sent'
  BY StepServer, SentForGood, OwnersKnown DEF TypeOK, BusTypeOK, KnownEntries
<1> USE <1>0 DEF KnownEntries
<1>1. CASE UNCHANGED vars
  BY <1>1 DEF vars, redisVars, busVars, consumerVars, workerVars
<1>2. ASSUME NEW e \in Entries, Publish(e) \/ Elapse(e) PROVE KnownEntries'
  BY <1>2 DEF Publish, Elapse, XAdd, BecomeStale, busVars, consumerVars, workerVars
<1>3. ASSUME NEW s \in Streams, LoseStream(s) PROVE KnownEntries'
  BY <1>3 DEF LoseStream, DataLoss, consumerVars, workerVars
<1>4. ASSUME NEW a \in Agents,
             Start(a) \/ Stop(a) \/ Crash(a) \/ Cancel(a) \/ CloseBus(a)
      PROVE  KnownEntries'
  BY <1>4 DEF Start, Stop, Crash, Cancel, Halt, DropGenerators, CloseBus, Close,
              redisVars, consumerVars, workerVars
<1>5. ASSUME NEW w \in Subscriptions, Work(w) PROVE KnownEntries'
  <2>1. CASE Leave(w)
    BY <2>1 DEF Leave, redisVars, consumerVars, workerVars
  <2>2. CASE Generate(w)
    BY <2>2, GeneratorKnown
  <2>3. CASE Take(w)
    BY <2>3 DEF Take, Yield, IsNext, redisVars
  <2>4. CASE Prepare(w) \/ Beat(w) \/ Execute(w) \/ Reply(w) \/ Record(w)
             \/ Finish(w) \/ PublishResult(w)
    BY <2>4 DEF Prepare, Beat, Execute, Reply, Record, Finish, PublishResult,
                LocalStep, redisVars
  <2>5. CASE Ack(w) \/ AckRetry(w)
    <3>1. task[w] \in sent
      BY <2>5, TaskInHand, NoEntryAssumption DEF Ack, AckRetry, At
    <3> QED
      BY <2>5, <3>1 DEF Ack, AckRetry, Lost, XAck, Done, Fetch, redisVars
  <2> QED BY <1>5, <2>1, <2>2, <2>3, <2>4, <2>5 DEF Work, Process
<1> QED
  BY <1>1, <1>2, <1>3, <1>4, <1>5 DEF Next

LEMMA HollowStep ==
  TypeOK /\ KnownEntries /\ HollowGone /\ [Next]_vars => HollowGone'
<1> SUFFICES ASSUME TypeOK, KnownEntries, HollowGone, [Next]_vars
             PROVE  HollowGone'
  OBVIOUS
<1>0. /\ batch \in [Subscriptions -> SUBSET Entries]
      /\ hollow \in [Subscriptions -> SUBSET Entries]
      /\ \A w \in Subscriptions : batch[w] \subseteq sent
      /\ present' \cap sent \subseteq present
  BY StepServer, SentForGood DEF TypeOK, BusTypeOK, KnownEntries
<1> USE <1>0 DEF HollowGone, Fetch, Raise
<1>1. CASE UNCHANGED <<batch, hollow>>
  BY <1>1
<1>2. ASSUME NEW w \in Subscriptions, Generate(w) PROVE HollowGone'
  <2> DEFINE a == AgentOf(w)
             s == StreamIn(w)
  <2>1. CASE EnsureGroup(w)
    BY <2>1 DEF EnsureGroup
  <2>2. CASE ReclaimPending(w)
    BY <2>2 DEF ReclaimPending
  <2>3. CASE ReadOwnPending(w)
    <3>1. CASE Fetch(w, History(a, s), History(a, s) \ present)
      <4>1. CASE XReadHistory(a, s)
        BY <3>1, <4>1 DEF XReadHistory
      <4>2. CASE ~XReadHistory(a, s)
        BY <2>3, <4>2 DEF ReadOwnPending, Lost, XReadHistory
      <4> QED BY <4>1, <4>2
    <3>2. CASE ~Fetch(w, History(a, s), History(a, s) \ present)
      BY <2>3, <3>2 DEF ReadOwnPending
    <3> QED BY <3>1, <3>2
  <2>4. CASE ReadNew(w)
    BY <2>4 DEF ReadNew
  <2>5. CASE ReadFails(w)
    BY <2>5 DEF ReadFails
  <2>6. CASE Watchdog(w)
    BY <2>6 DEF Watchdog
  <2>7. CASE SkipUnparseable(w)
    BY <2>7 DEF SkipUnparseable
  <2> QED
    BY <1>2, <2>1, <2>2, <2>3, <2>4, <2>5, <2>6, <2>7 DEF Generate, GeneratorStep
<1>3. ASSUME NEW w \in Subscriptions, Take(w) PROVE HollowGone'
  BY <1>3 DEF Take, Yield, Unparseable
<1>4. ASSUME NEW w \in Subscriptions, AckRetry(w) PROVE HollowGone'
  BY <1>4 DEF AckRetry
<1>5. ASSUME NEW a \in Agents, Halt(a) PROVE HollowGone'
  BY <1>5 DEF Halt, DropGenerators
<1>6. ASSUME NEW w \in Subscriptions, Work(w), ~Generate(w), ~Take(w), ~AckRetry(w)
      PROVE  UNCHANGED <<batch, hollow>>
  BY <1>6 DEF Work, Leave, Process, Prepare, Beat, Execute, Reply, Record,
              Finish, PublishResult, Ack, LocalStep
<1>7. ASSUME \/ UNCHANGED vars
             \/ \E e \in Entries : Publish(e) \/ Elapse(e)
             \/ \E s \in Streams : LoseStream(s)
             \/ \E a \in Agents : Start(a) \/ Stop(a) \/ CloseBus(a)
      PROVE  UNCHANGED <<batch, hollow>>
  BY <1>7 DEF vars, busVars, Publish, Elapse, LoseStream, Start, Stop, CloseBus, Close
<1> QED
  BY <1>1, <1>2, <1>3, <1>4, <1>5, <1>6, <1>7 DEF Next, Crash, Cancel

LEMMA EndedStep ==
  TypeOK /\ EndedAttempted /\ [Next]_vars => EndedAttempted'
<1> SUFFICES ASSUME TypeOK, EndedAttempted, [Next]_vars
             PROVE  EndedAttempted'
  OBVIOUS
<1>0. /\ pc \in [Subscriptions -> Steps]
      /\ task \in [Subscriptions -> Entries \cup {NoEntry}]
  BY DEF TypeOK
<1> USE <1>0 DEF EndedAttempted, Ended, Tried
<1>1. CASE UNCHANGED <<pc, task, attempted, rejected>>
  BY <1>1
<1>2. ASSUME NEW w \in Subscriptions, Process(w) PROVE EndedAttempted'
  <2> USE DEF At, Goto, outcomeVars, Done
  <2>1. CASE Prepare(w) \/ Beat(w) \/ Execute(w)
    BY <2>1 DEF Prepare, Beat, Execute
  <2>2. CASE Reply(w) \/ Record(w)
    BY <2>2 DEF Reply, Record
  <2>3. CASE Finish(w) \/ PublishResult(w)
    BY <2>3 DEF Finish, PublishResult
  <2>4. CASE Ack(w) \/ AckRetry(w)
    BY <2>4 DEF Ack, AckRetry
  <2> QED BY <1>2, <2>1, <2>2, <2>3, <2>4 DEF Process
<1>3. ASSUME NEW w \in Subscriptions, Take(w) PROVE EndedAttempted'
  BY <1>3 DEF Take, At, Goto, outcomeVars
<1>4. ASSUME NEW a \in Agents, Halt(a) PROVE EndedAttempted'
  BY <1>4 DEF Halt, outcomeVars
<1>5. ASSUME \/ UNCHANGED vars
             \/ \E e \in Entries : Publish(e) \/ Elapse(e)
             \/ \E s \in Streams : LoseStream(s)
             \/ \E a \in Agents : Start(a) \/ Stop(a) \/ CloseBus(a)
             \/ \E w \in Subscriptions : Leave(w) \/ Generate(w)
      PROVE  UNCHANGED <<pc, task, attempted, rejected>>
  BY <1>5 DEF vars, consumerVars, workerVars, outcomeVars, Publish, Elapse,
              LoseStream, Start, Stop, CloseBus, Leave, Generate
<1> QED
  BY <1>1, <1>2, <1>3, <1>4, <1>5 DEF Next, Work, Crash, Cancel

LEMMA AckStep ==
  TypeOK /\ KnownEntries /\ HollowGone /\ EndedAttempted /\ AckAfterAttempt
  /\ [Next]_vars => AckAfterAttempt'
<1> SUFFICES ASSUME TypeOK, KnownEntries, HollowGone, EndedAttempted,
                    AckAfterAttempt, [Next]_vars
             PROVE  AckAfterAttempt'
  OBVIOUS
<1>0. /\ acked \subseteq sent
      /\ present' \cap sent \subseteq present
  BY StepServer, SentForGood DEF TypeOK, BusTypeOK, KnownEntries
<1>1. attempted \subseteq attempted' /\ rejected \subseteq rejected'
  <2>1. ASSUME NEW w \in Subscriptions, Process(w)
        PROVE  attempted \subseteq attempted' /\ rejected \subseteq rejected'
    BY <2>1 DEF Process, Prepare, Beat, Execute, Reply, Record, Finish,
                PublishResult, Ack, AckRetry, outcomeVars
  <2> QED
    BY <2>1 DEF Next, Work, vars, consumerVars, outcomeVars, Publish, Elapse,
                LoseStream, Start, Stop, Crash, Cancel, Halt, CloseBus, Leave,
                Generate, Take
<1>2. CASE UNCHANGED acked
  BY <1>0, <1>1, <1>2 DEF AckAfterAttempt
<1>3. ASSUME NEW w \in Subscriptions, NEW e \in Entries, XAck(e),
             \/ IsNext(w, e) /\ Unparseable(w, e)
             \/ e = task[w] /\ Ended(w)
      PROVE  AckAfterAttempt'
  <2>1. acked' = acked \cup {e} /\ present' = present
    BY <1>3 DEF XAck
  <2>2. e \in present => KindOf[e] = "garbled" \/ e \in Tried
    BY <1>3 DEF Unparseable, HollowGone, EndedAttempted
  <2> QED BY <1>1, <2>1, <2>2 DEF AckAfterAttempt, Tried
<1>4. ASSUME NEW w \in Subscriptions, Generate(w) PROVE AckAfterAttempt'
  <2>1. CASE SkipUnparseable(w)
    BY <1>2, <1>3, <2>1 DEF SkipUnparseable, Lost, redisVars
  <2>2. CASE ~SkipUnparseable(w)
    <3>1. UNCHANGED acked
      BY <1>4, <2>2 DEF Generate, GeneratorStep, EnsureGroup, ReclaimPending,
           ReadOwnPending, ReadNew, ReadFails, Watchdog, Lost, redisVars,
           CreateGroup, XGroupCreate, XAutoClaim, XReadHistory, XReadNew
    <3> QED BY <1>2, <3>1
  <2> QED BY <2>1, <2>2
<1>5. ASSUME NEW w \in Subscriptions, Ack(w) \/ AckRetry(w)
      PROVE  AckAfterAttempt'
  <2>1. task[w] \in Entries /\ Ended(w)
    BY <1>5, TaskInHand DEF Ack, AckRetry, At, Ended
  <2> QED BY <1>2, <1>3, <1>5, <2>1 DEF Ack, AckRetry, Lost, redisVars
<1>6. ASSUME NEW w \in Subscriptions, Work(w), ~Generate(w), ~Ack(w), ~AckRetry(w)
      PROVE  UNCHANGED acked
  BY <1>6 DEF Work, Leave, Take, Yield, Process, Prepare, Beat, Execute, Reply,
              Record, Finish, PublishResult, LocalStep, redisVars
<1>7. ASSUME \/ UNCHANGED vars
             \/ \E e \in Entries : Publish(e) \/ Elapse(e)
             \/ \E s \in Streams : LoseStream(s)
             \/ \E a \in Agents : Start(a) \/ Stop(a) \/ Crash(a) \/ Cancel(a)
                                  \/ CloseBus(a)
      PROVE  UNCHANGED acked
  BY <1>7 DEF vars, redisVars, Publish, Elapse, XAdd, BecomeStale, LoseStream,
              DataLoss, Start, Stop, Crash, Cancel, Halt, CloseBus, Close
<1> QED
  BY <1>2, <1>4, <1>5, <1>6, <1>7 DEF Next

\* What the acknowledgement of a task rests on.
AttemptInv == TypeOK /\ KnownEntries /\ HollowGone /\ EndedAttempted /\ AckAfterAttempt

LEMMA AttemptInit == Init => AttemptInv
<1> SUFFICES ASSUME Init PROVE AttemptInv
  OBVIOUS
<1>1. TypeOK
  BY TypeInit
<1> QED
  BY <1>1 DEF AttemptInv, Init, ConsumerInit, BusInit, RedisInit, KnownEntries,
              HollowGone, EndedAttempted, Ended, AckAfterAttempt

LEMMA AttemptStep == AttemptInv /\ [Next]_vars => AttemptInv'
BY TypeStep, KnownStep, HollowStep, EndedStep, AckStep DEF AttemptInv

\* An entry is acknowledged only once an attempt to process it is over, or
\* when there is nothing in it to process.
THEOREM AckedAfterAttempt == Spec => []AckAfterAttempt
<1>1. Spec => []AttemptInv
  BY AttemptInit, AttemptStep, PTL DEF Spec
<1>2. AttemptInv => AckAfterAttempt
  BY DEF AttemptInv
<1> QED
  BY <1>1, <1>2, PTL

-----------------------------------------------------------------------------
(* The mesh implements AtLeastOnceQueue: each step of it is a step of the  *)
(* queue, or changes nothing the queue shows.                              *)

QueueStep == [Queue!QueueNext]_Queue!queueVars

OwedEntries == {e \in Entries : Owed(e)}
Unreadable == {e \in Entries : KindOf[e] = "garbled"}

\* What may be acknowledged: tried, or with nothing in it to try.
Excused(e) == e \in Tried \/ e \in sent \ present \/ e \in Unreadable

\* A command other than XACK.
QuietServerStep ==
  \/ UNCHANGED redisVars
  \/ \E e \in Entries : XAdd(e) \/ BecomeStale(e)
  \/ \E s \in Streams : CreateGroup(s) \/ DataLoss(s)
  \/ \E a \in Agents, s \in Streams :
       XAutoClaim(a, s) \/ XReadHistory(a, s) \/ XReadNew(a, s)

-----------------------------------------------------------------------------
(* Commands, as steps of the queue.                                        *)

LEMMA StutterStep ==
  ASSUME OwedEntries' = OwedEntries, (sent \ present)' = sent \ present,
         sent' = sent, Tried' = Tried
  PROVE  QueueStep
BY DEF QueueStep, OwedEntries, Tried, Queue!queueVars

LEMMA SendStep ==
  ASSUME RedisTypeOK, Tried' = Tried, NEW e \in Entries, XAdd(e)
  PROVE  QueueStep
<1> DEFINE s == StreamOf[e]
           S == (present \cap InStream(s)) \cup {e}
<1> USE DEF RedisTypeOK
<1>1. PICK dropped \in Trimmable(S) :
        /\ present' = (present \cup {e}) \ dropped
        /\ unread' = (IF s \in group THEN unread \cup {e} ELSE unread) \ dropped
  BY DEF XAdd
<1>2. /\ e \notin sent
      /\ sent' = sent \cup {e}
      /\ UNCHANGED <<owner, stale, group, acked>>
  BY DEF XAdd
<1>3. dropped \subseteq present \cup {e}
  BY <1>1, TrimmableSubset DEF InStream
<1>4. (sent \ present)' = (sent \ present) \cup dropped /\ dropped \in SUBSET sent'
  BY <1>1, <1>2, <1>3
<1>5. OwedEntries' = (OwedEntries \cup {e}) \ ((OwedEntries \cup {e}) \ OwedEntries')
  BY <1>1, <1>2 DEF OwedEntries, Owed
<1>6. (OwedEntries \cup {e}) \ OwedEntries' \in SUBSET dropped
  BY <1>1, <1>2 DEF OwedEntries, Owed
<1>7. Queue!Send(e)
  BY <1>2, <1>4, <1>5, <1>6 DEF Queue!Send, OwedEntries, Tried
<1> QED BY <1>7 DEF QueueStep, Queue!QueueNext

LEMMA DischargeStep ==
  ASSUME NEW D \in SUBSET Entries,
         D \subseteq OwedEntries,
         \A e \in D : Excused(e),
         OwedEntries' = OwedEntries \ D,
         (sent \ present)' = sent \ present,
         sent' = sent, Tried' = Tried
  PROVE  QueueStep
<1>1. D \in SUBSET (OwedEntries \cap (Tried \cup (sent \ present) \cup Unreadable))
  BY DEF Excused
<1>2. Queue!Discharge
  BY <1>1 DEF Queue!Discharge, OwedEntries, Unreadable, Tried
<1> QED BY <1>2 DEF QueueStep, Queue!QueueNext

LEMMA AckIsDischarge ==
  ASSUME RedisTypeOK, Tried' = Tried,
         NEW e \in Entries, XAck(e), Excused(e)
  PROVE  QueueStep
<1> DEFINE D == OwedEntries \ OwedEntries'
<1>1. D \subseteq {e} /\ OwedEntries' = OwedEntries \ D
  BY DEF XAck, OwedEntries, Owed, RedisTypeOK
<1>2. D \in SUBSET Entries /\ D \subseteq OwedEntries
  BY DEF OwedEntries
<1>3. (sent \ present)' = sent \ present /\ sent' = sent
  BY DEF XAck
<1> HIDE DEF D
<1> QED BY <1>1, <1>2, <1>3, DischargeStep

LEMMA ClaimIsDischarge ==
  ASSUME RedisTypeOK, Tried' = Tried,
         \A e \in Entries : owner[e] # NoAgent => e \in sent,
         NEW a \in Agents, NEW s \in Streams, XAutoClaim(a, s)
  PROVE  QueueStep
<1> DEFINE D == OwedEntries \ OwedEntries'
<1>1. D \subseteq Claimable(s) \ present /\ OwedEntries' = OwedEntries \ D
  BY TakenEntries, AgentsAssumption
     DEF XAutoClaim, OwedEntries, Owed, RedisTypeOK
<1>2. D \in SUBSET Entries /\ D \subseteq OwedEntries
  BY DEF OwedEntries
<1>3. \A e \in D : Excused(e)
  BY <1>1, TakenEntries DEF Excused, RedisTypeOK
<1>4. (sent \ present)' = sent \ present /\ sent' = sent
  BY DEF XAutoClaim
<1> HIDE DEF D
<1> QED BY <1>1, <1>2, <1>3, <1>4, DischargeStep

LEMMA LossStep ==
  ASSUME RedisTypeOK, Tried' = Tried,
         \A e \in Entries : owner[e] # NoAgent => e \in sent,
         NEW s \in Streams, DataLoss(s)
  PROVE  QueueStep
<1> DEFINE T == present \cap InStream(s)
           D == OwedEntries \cap InStream(s)
<1> USE DEF RedisTypeOK
<1>1. T \in SUBSET sent /\ (sent \ present)' = (sent \ present) \cup T
  BY DEF DataLoss
<1>2. D \in SUBSET (sent \ present)'
  BY DEF DataLoss, OwedEntries, Owed
<1>3. OwedEntries' = OwedEntries \ D
  BY DEF DataLoss, OwedEntries, Owed, InStream
<1>4. sent' = sent /\ Tried' = Tried
  BY DEF DataLoss
<1>5. Queue!Lose
  BY <1>1, <1>2, <1>3, <1>4 DEF Queue!Lose, OwedEntries, Tried
<1> QED BY <1>5 DEF QueueStep, Queue!QueueNext

LEMMA QuietStep ==
  ASSUME RedisTypeOK, Tried' = Tried,
         \A e \in Entries : owner[e] # NoAgent => e \in sent,
         QuietServerStep
  PROVE  QueueStep
<1>1. ASSUME NEW s \in Streams, CreateGroup(s) PROVE QueueStep
  BY <1>1, StutterStep DEF CreateGroup, XGroupCreate, OwedEntries, Owed, InStream, RedisTypeOK
<1>2. ASSUME NEW a \in Agents, NEW s \in Streams, XReadNew(a, s)
      PROVE  QueueStep
  <2>1. OwedEntries' = OwedEntries
    BY <1>2, TakenEntries, AgentsAssumption
       DEF XReadNew, OwedEntries, Owed, RedisTypeOK
  <2> QED BY <1>2, <2>1, StutterStep DEF XReadNew
<1>3. ASSUME \/ UNCHANGED redisVars
             \/ \E e \in Entries : BecomeStale(e)
             \/ \E a \in Agents, s \in Streams : XReadHistory(a, s)
      PROVE  QueueStep
  BY <1>3, StutterStep DEF redisVars, BecomeStale, XReadHistory, OwedEntries, Owed
<1> QED
  BY <1>1, <1>2, <1>3, SendStep, ClaimIsDischarge, LossStep DEF QuietServerStep

LEMMA AttemptIsAttempt ==
  ASSUME UNCHANGED redisVars, NEW e \in Entries, e \in sent,
         Tried' = Tried \cup {e}
  PROVE  QueueStep
<1>1. Queue!Attempt(e)
  BY DEF Queue!Attempt, redisVars, Owed, Tried
<1> QED BY <1>1 DEF QueueStep, Queue!QueueNext

-----------------------------------------------------------------------------
(* The steps of the mesh.                                                  *)

LEMMA GeneratorQueue ==
  ASSUME AttemptInv, NEW w \in Subscriptions, Generate(w)
  PROVE  QueueStep
<1> DEFINE a == AgentOf(w)
           s == StreamIn(w)
<1>0. /\ RedisTypeOK /\ Tried' = Tried
      /\ \A e \in Entries : owner[e] # NoAgent => e \in sent
      /\ a \in Agents /\ s \in Streams
  BY SubscriptionParts
     DEF AttemptInv, TypeOK, BusTypeOK, KnownEntries, Generate, consumerVars, Tried,
         outcomeVars
<1>1. CASE SkipUnparseable(w)
  <2>1. PICK e \in Entries : /\ IsNext(w, e)
                             /\ Unparseable(w, e)
                             /\ XAck(e) \/ UNCHANGED redisVars
    BY <1>1 DEF SkipUnparseable, Lost
  <2>2. Excused(e)
    BY <2>1 DEF Excused, Unparseable, Unreadable, AttemptInv, KnownEntries,
                HollowGone, IsNext
  <2> QED BY <1>0, <2>1, <2>2, AckIsDischarge, QuietStep DEF QuietServerStep
<1>2. CASE ~SkipUnparseable(w)
  <2>1. \/ UNCHANGED redisVars
        \/ CreateGroup(s) \/ XAutoClaim(a, s)
        \/ XReadHistory(a, s) \/ XReadNew(a, s)
    BY <1>2 DEF Generate, GeneratorStep, EnsureGroup, ReclaimPending,
         ReadOwnPending, ReadNew, ReadFails, Watchdog, Lost
  <2>2. QuietServerStep
    BY <1>0, <2>1 DEF QuietServerStep
  <2> QED BY <1>0, <2>2, QuietStep
<1> QED BY <1>1, <1>2

LEMMA WorkQueue ==
  ASSUME AttemptInv, NEW w \in Subscriptions, Work(w)
  PROVE  QueueStep
<1>0. /\ RedisTypeOK
      /\ \A e \in Entries : owner[e] # NoAgent => e \in sent
      /\ pc[w] # "idle" => task[w] \in Entries \cap sent
  BY TaskInHand, NoEntryAssumption DEF AttemptInv, TypeOK, BusTypeOK, KnownEntries
<1>1. CASE Generate(w)
  BY <1>1, GeneratorQueue
<1>2. CASE Leave(w) \/ Take(w) \/ Finish(w) \/ PublishResult(w)
  <2>1. UNCHANGED redisVars /\ Tried' = Tried
    BY <1>2 DEF Leave, Take, Yield, Finish, PublishResult, LocalStep,
                consumerVars, outcomeVars, Tried
  <2> QED BY <1>0, <2>1, QuietStep DEF QuietServerStep
<1>3. CASE Prepare(w) \/ Beat(w) \/ Execute(w) \/ Reply(w) \/ Record(w)
  <2>1. /\ UNCHANGED redisVars
        /\ Tried' \in {Tried, Tried \cup {task[w]}}
        /\ task[w] \in Entries \cap sent
    BY <1>0, <1>3 DEF Prepare, Beat, Execute, Reply, Record, LocalStep, At, Tried
  <2> QED BY <1>0, <2>1, QuietStep, AttemptIsAttempt DEF QuietServerStep
<1>4. CASE Ack(w) \/ AckRetry(w)
  <2>1. /\ Tried' = Tried
        /\ XAck(task[w]) \/ UNCHANGED redisVars
        /\ task[w] \in Entries
        /\ task[w] \in Tried
    BY <1>0, <1>4 DEF Ack, AckRetry, At, Lost, outcomeVars, AttemptInv,
                      EndedAttempted, Ended, Tried
  <2> QED
    BY <1>0, <2>1, AckIsDischarge, QuietStep DEF Excused, QuietServerStep
<1> QED
  BY <1>1, <1>2, <1>3, <1>4 DEF Work, Process

LEMMA NextIsQueueStep == AttemptInv /\ [Next]_vars => QueueStep
<1> SUFFICES ASSUME AttemptInv, [Next]_vars PROVE QueueStep
  OBVIOUS
<1>0. /\ RedisTypeOK
      /\ \A e \in Entries : owner[e] # NoAgent => e \in sent
  BY DEF AttemptInv, TypeOK, BusTypeOK, KnownEntries
<1>1. ASSUME \/ UNCHANGED vars
             \/ \E e \in Entries : Publish(e) \/ Elapse(e)
             \/ \E s \in Streams : LoseStream(s)
             \/ \E a \in Agents : Start(a) \/ Stop(a) \/ Crash(a) \/ Cancel(a)
                                  \/ CloseBus(a)
      PROVE  QuietServerStep /\ Tried' = Tried
  BY <1>1 DEF QuietServerStep, Tried, vars, redisVars, consumerVars, outcomeVars,
       Publish, Elapse, LoseStream, Start, Stop, Crash, Cancel, Halt, CloseBus, Close
<1>2. ASSUME NEW w \in Subscriptions, Work(w) PROVE QueueStep
  BY <1>2, WorkQueue
<1> QED
  BY <1>0, <1>1, <1>2, QuietStep DEF Next

LEMMA InitIsQueueInit == Init => Queue!QueueInit
BY DEF Init, ConsumerInit, BusInit, RedisInit, Queue!QueueInit, Owed

\* The mesh keeps the promise of the at-least-once queue: what is sent stays
\* owed until it was attempted, unless its content is gone or unreadable, and
\* is never owed again afterwards.
THEOREM MeshImplementsQueue == Spec => ImplementsQueue
<1>1. Spec => []AttemptInv
  BY AttemptInit, AttemptStep, PTL DEF Spec
<1>2. AttemptInv /\ [Next]_vars => [Queue!QueueNext]_Queue!queueVars
  BY NextIsQueueStep DEF QueueStep
<1> QED
  BY <1>1, <1>2, InitIsQueueInit, PTL DEF Spec, ImplementsQueue, Queue!QueueSpec

=============================================================================
