---------------------------- MODULE Outcome_proofs ----------------------------
(***************************************************************************)
(* What a task leaves behind: its reply, its result, its line in the       *)
(* heartbeat; and who may take it on, and when.                            *)
(***************************************************************************)
EXTENDS Ownership_proofs

\* Where every worker is, its task and its outcome.
progressVars ==
  <<pc, task, status, heartbeat, started, attempted, rejected, replied, results>>

\* Steps that leave that alone.
LEMMA QuietSteps ==
  ASSUME \/ UNCHANGED vars
         \/ \E e \in Entries : Publish(e) \/ Elapse(e)
         \/ \E s \in Streams : LoseStream(s)
         \/ \E a \in Agents : Start(a) \/ Stop(a) \/ CloseBus(a)
         \/ \E w \in Subscriptions : Leave(w) \/ Generate(w)
  PROVE  UNCHANGED progressVars
BY DEF progressVars, vars, consumerVars, workerVars, outcomeVars, Publish, Elapse,
       LoseStream, Start, Stop, CloseBus, Leave, Generate

\* Every step is one of those, or gives a worker a task, or works on one, or
\* ends a process.
LEMMA StepCases ==
  ASSUME [Next]_vars
  PROVE  \/ UNCHANGED progressVars
         \/ \E w \in Subscriptions : Take(w) \/ Process(w)
         \/ \E a \in Agents : Crash(a) \/ Cancel(a)
BY QuietSteps DEF Next, Work

-----------------------------------------------------------------------------
(* A success was replied.                                                  *)

\* A worker whose reply went out, and one that says so in its result.
RepliedInv ==
  \A w \in Subscriptions :
    \/ At(w, "record")
    \/ pc[w] \in {"finish", "publish"} /\ status[w] = "success"
    => (Replies(w) => <<AgentOf(w), task[w]>> \in replied)

LEMMA RepliedStep ==
  ASSUME TypeOK, RepliedInv, [Next]_vars
  PROVE  RepliedInv'
<1>0. /\ pc \in [Subscriptions -> Steps]
      /\ task \in [Subscriptions -> Entries \cup {NoEntry}]
      /\ status \in [Subscriptions -> Statuses]
  BY DEF TypeOK
<1> USE <1>0 DEF RepliedInv, Replies, At, Goto, outcomeVars, Done, AgentOf
<1>1. CASE UNCHANGED progressVars
  BY <1>1 DEF progressVars
<1>2. ASSUME NEW w \in Subscriptions, Take(w) PROVE RepliedInv'
  BY <1>2 DEF Take
<1>3. ASSUME NEW w \in Subscriptions, Process(w) PROVE RepliedInv'
  <2>1. CASE Prepare(w) \/ Beat(w) \/ Execute(w)
    BY <2>1 DEF Prepare, Beat, Execute
  <2>2. CASE Reply(w)
    BY <2>2 DEF Reply
  <2>3. CASE Record(w) \/ Finish(w) \/ PublishResult(w)
    BY <2>3 DEF Record, Finish, PublishResult
  <2>4. CASE Ack(w) \/ AckRetry(w)
    BY <2>4 DEF Ack, AckRetry
  <2> QED BY <1>3, <2>1, <2>2, <2>3, <2>4 DEF Process
<1>4. ASSUME NEW a \in Agents, Halt(a) PROVE RepliedInv'
  BY <1>4 DEF Halt
<1> QED BY <1>1, <1>2, <1>3, <1>4, StepCases DEF Crash, Cancel

LEMMA SuccessStep ==
  ASSUME TypeOK, RepliedInv, SuccessMeansReplied, [Next]_vars
  PROVE  SuccessMeansReplied'
<1> USE DEF SuccessMeansReplied, outcomeVars
<1>1. CASE UNCHANGED <<results, replied>>
  BY <1>1
<1>2. ASSUME NEW w \in Subscriptions, Reply(w) PROVE SuccessMeansReplied'
  BY <1>2 DEF Reply
<1>3. ASSUME NEW w \in Subscriptions, PublishResult(w)
      PROVE  SuccessMeansReplied'
  BY <1>3 DEF PublishResult, RepliedInv, Replies, At
<1>4. ASSUME NEW w \in Subscriptions, Process(w), ~Reply(w), ~PublishResult(w)
      PROVE  UNCHANGED <<results, replied>>
  BY <1>4 DEF Process, Prepare, Beat, Execute, Record, Finish, Ack, AckRetry
<1>5. ASSUME \/ \E w \in Subscriptions : Take(w)
             \/ \E a \in Agents : Crash(a) \/ Cancel(a)
      PROVE  UNCHANGED <<results, replied>>
  BY <1>5 DEF Take, Crash, Cancel, Halt
<1> QED BY <1>1, <1>2, <1>3, <1>4, <1>5, StepCases DEF progressVars

\* Where there is a room to reply to and a channel that sends, no result of an
\* agent says success unless it delivered the reply itself, whatever fails.
THEOREM SuccessWasReplied == Spec => []SuccessMeansReplied
<1>1. Init => RepliedInv /\ SuccessMeansReplied
  BY DEF RepliedInv, At, SuccessMeansReplied, Init, ConsumerInit
<1>2. TypeOK /\ RepliedInv /\ SuccessMeansReplied /\ [Next]_vars
        => (RepliedInv /\ SuccessMeansReplied)'
  BY RepliedStep, SuccessStep
<1> QED
  BY <1>1, <1>2, Types, PTL DEF Spec

-----------------------------------------------------------------------------
(* An acknowledged task has a result.                                      *)

HasResult(e) == \E a \in Agents, s \in Statuses : <<a, e, s>> \in results

\* A worker that acknowledges a task published its result.
ResultInv ==
  \A w \in Subscriptions :
    pc[w] \in {"ack", "ackretry"} /\ KindOf[task[w]] = "task"
      => HasResult(task[w])

\* Results stay where they are published.
LEMMA ResultsGrow ==
  ASSUME [Next]_vars
  PROVE  results \subseteq results'
<1>1. ASSUME NEW w \in Subscriptions, Process(w)
      PROVE  results \subseteq results'
  BY <1>1 DEF Process, Prepare, Beat, Execute, Reply, Record, Finish,
              PublishResult, Ack, AckRetry, outcomeVars
<1> QED
  BY <1>1, StepCases DEF progressVars, outcomeVars, Take, Crash, Cancel, Halt

LEMMA ResultStep ==
  ASSUME {"heartbeat", "publish"} \cap FaultKinds = {},
         TypeOK, ResultInv, [Next]_vars
  PROVE  ResultInv'
<1>0. /\ pc \in [Subscriptions -> Steps]
      /\ task \in [Subscriptions -> Entries \cup {NoEntry}]
      /\ status \in [Subscriptions -> Statuses]
      /\ results \subseteq results'
  BY ResultsGrow DEF TypeOK
<1> USE <1>0 DEF ResultInv, HasResult, At, Goto, Done, Fault
<1>1. CASE UNCHANGED progressVars
  BY <1>1 DEF progressVars
<1>2. ASSUME NEW w \in Subscriptions, Take(w) PROVE ResultInv'
  BY <1>2 DEF Take
<1>3. ASSUME NEW w \in Subscriptions, Process(w) PROVE ResultInv'
  <2>1. CASE Prepare(w)
    BY <2>1 DEF Prepare
  <2>2. CASE Beat(w) \/ Execute(w) \/ Reply(w) \/ Record(w) \/ Finish(w)
    BY <2>2 DEF Beat, Execute, Reply, Record, Finish
  <2>3. CASE PublishResult(w)
    <3>1. <<AgentOf(w), task[w], status[w]>> \in results'
      BY <2>3 DEF PublishResult
    <3> QED BY <2>3, <3>1, SubscriptionParts DEF PublishResult
  <2>4. CASE Ack(w) \/ AckRetry(w)
    BY <2>4 DEF Ack, AckRetry
  <2> QED BY <1>3, <2>1, <2>2, <2>3, <2>4 DEF Process
<1>4. ASSUME NEW a \in Agents, Halt(a) PROVE ResultInv'
  BY <1>4 DEF Halt
<1> QED BY <1>1, <1>2, <1>3, <1>4, StepCases DEF Crash, Cancel

\* Who acknowledges: a generator, what it cannot hand out; a worker, the task
\* it is done with.
LEMMA AckOrigin ==
  ASSUME TypeOK, [Next]_vars, NEW e \in acked', e \notin acked
  PROVE  \E w \in Subscriptions :
           \/ /\ SkipUnparseable(w) /\ Generate(w) /\ XAck(e)
              /\ IsNext(w, e) /\ Unparseable(w, e)
           \/ (Ack(w) \/ AckRetry(w)) /\ task[w] = e /\ XAck(e)
<1>1. ASSUME NEW w \in Subscriptions, Generate(w), ~SkipUnparseable(w)
      PROVE  acked' = acked
  BY <1>1 DEF Generate, GeneratorStep, EnsureGroup, ReclaimPending,
       ReadOwnPending, ReadNew, ReadFails, Watchdog, Lost, redisVars,
       CreateGroup, XGroupCreate, XAutoClaim, XReadHistory, XReadNew
<1>2. ASSUME NEW w \in Subscriptions, Generate(w), SkipUnparseable(w)
      PROVE  XAck(e) /\ IsNext(w, e) /\ Unparseable(w, e)
  BY <1>2 DEF SkipUnparseable, Lost, redisVars, XAck
<1>3. ASSUME NEW w \in Subscriptions, Ack(w) \/ AckRetry(w)
      PROVE  task[w] = e /\ XAck(e)
  BY <1>3 DEF Ack, AckRetry, Lost, redisVars, XAck
<1>4. ASSUME NEW w \in Subscriptions, Work(w), ~Generate(w), ~Ack(w), ~AckRetry(w)
      PROVE  acked' = acked
  BY <1>4 DEF Work, Leave, Take, Yield, Process, Prepare, Beat, Execute, Reply,
              Record, Finish, PublishResult, LocalStep, redisVars
<1>5. ASSUME \/ UNCHANGED vars
             \/ \E d \in Entries : Publish(d) \/ Elapse(d)
             \/ \E s \in Streams : LoseStream(s)
             \/ \E a \in Agents : Start(a) \/ Stop(a) \/ Crash(a) \/ Cancel(a)
                                  \/ CloseBus(a)
      PROVE  acked' = acked
  BY <1>5 DEF vars, redisVars, Publish, Elapse, XAdd, BecomeStale, LoseStream,
              DataLoss, Start, Stop, Crash, Cancel, Halt, CloseBus, Close
<1> QED
  BY <1>1, <1>2, <1>3, <1>4, <1>5 DEF Next

LEMMA AckedResultStep ==
  ASSUME AttemptInv, ResultInv, AckedHasResult, [Next]_vars
  PROVE  AckedHasResult'
<1> SUFFICES ASSUME NEW e \in acked', e \in present', KindOf[e] = "task"
             PROVE  HasResult(e)'
  BY DEF AckedHasResult, HasResult
<1>0. /\ TypeOK /\ HollowGone
      /\ results \subseteq results'
      /\ acked \subseteq sent /\ present' \cap sent \subseteq present
  BY ResultsGrow, StepServer, SentForGood
     DEF AttemptInv, KnownEntries, TypeOK, BusTypeOK
<1>1. CASE e \in acked
  BY <1>0, <1>1 DEF AckedHasResult, HasResult
<1>2. CASE e \notin acked
  <2>1. PICK w \in Subscriptions :
          \/ XAck(e) /\ IsNext(w, e) /\ Unparseable(w, e)
          \/ (Ack(w) \/ AckRetry(w)) /\ task[w] = e /\ XAck(e)
    BY <1>0, <1>2, AckOrigin
  <2>2. e \in present
    BY <2>1 DEF XAck
  <2>3. ~Unparseable(w, e)
    BY <1>0, <2>2 DEF Unparseable, HollowGone
  <2>4. pc[w] \in {"ack", "ackretry"} /\ task[w] = e
    BY <2>1, <2>3 DEF Ack, AckRetry, At
  <2> QED BY <1>0, <2>4 DEF ResultInv, HasResult
<1> QED BY <1>1, <1>2

\* Where the heartbeat and the results stream do not fail, no task is
\* acknowledged before a result of it is published.
THEOREM AckedAfterResult ==
  ASSUME {"heartbeat", "publish"} \cap FaultKinds = {}
  PROVE  Spec => []AckedHasResult
<1>1. Init => AttemptInv /\ ResultInv /\ AckedHasResult
  BY AttemptInit
     DEF ResultInv, AckedHasResult, Init, ConsumerInit, BusInit, RedisInit
<1>2. AttemptInv /\ ResultInv /\ AckedHasResult /\ [Next]_vars
        => (AttemptInv /\ ResultInv /\ AckedHasResult)'
  BY AttemptStep, ResultStep, AckedResultStep DEF AttemptInv
<1> QED
  BY <1>1, <1>2, PTL DEF Spec

-----------------------------------------------------------------------------
(* The heartbeat lists what is in hand.                                    *)

Listed(w) == InTry(w) \/ At(w, "beat")

\* HeartbeatListsTasks, entry by entry.
ListedInv ==
  \A a \in Agents : \A e \in Entries :
    e \in heartbeat[a] <=> \E w \in Workers(a) : Listed(w) /\ task[w] = e

\* What a worker has in memory comes from its own stream, so that two workers
\* of one agent never have the same task.
OwnStreamInv ==
  /\ TypeOK
  /\ PlacesApart
  /\ \A w \in Subscriptions : \A e \in Entries :
       Holds(w, e) => StreamOf[e] = StreamIn(w)

LEMMA OwnStreamStep == OwnStreamInv /\ [Next]_vars => OwnStreamInv'
<1> SUFFICES ASSUME OwnStreamInv, [Next]_vars PROVE OwnStreamInv'
  OBVIOUS
<1>1. TypeOK' /\ RedisTypeOK /\ ServerStep
  BY TypeStep, StepServer DEF OwnStreamInv, TypeOK, BusTypeOK
<1>2. PlacesApart'
  BY <1>1, PlacesStep DEF OwnStreamInv
<1>3. ASSUME NEW w \in Subscriptions, NEW e \in Entries, Holds(w, e)'
      PROVE  StreamOf[e] = StreamIn(w)
  <2>1. CASE Holds(w, e)
    BY <2>1 DEF OwnStreamInv
  <2>2. CASE ~Holds(w, e)
    BY <1>3, <2>2, NewInMemory DEF OwnStreamInv, Secured
  <2> QED BY <2>1, <2>2
<1> QED BY <1>1, <1>2, <1>3 DEF OwnStreamInv, StreamIn

\* Two workers of one agent with the same task are one.
LEMMA OneWorker ==
  ASSUME OwnStreamInv, NEW a \in Agents, NEW v \in Workers(a), NEW w \in Workers(a),
         task[v] = task[w], task[w] # NoEntry
  PROVE  v = w
<1>1. /\ v \in Subscriptions /\ w \in Subscriptions
      /\ AgentOf(v) = AgentOf(w)
  BY DEF Workers
<1>2. task[w] \in Entries
  BY <1>1 DEF OwnStreamInv, TypeOK
<1>3. StreamIn(v) = StreamIn(w)
  BY <1>1, <1>2 DEF OwnStreamInv, Holds
<1> QED BY <1>1, <1>3, SubscriptionParts

LEMMA ListedStep ==
  ASSUME {"heartbeat", "cancel"} \cap FaultKinds = {},
         OwnStreamInv, ListedInv, [Next]_vars
  PROVE  ListedInv'
<1>0. /\ pc \in [Subscriptions -> Steps]
      /\ task \in [Subscriptions -> Entries \cup {NoEntry}]
      /\ heartbeat \in [Agents -> SUBSET Entries]
      /\ NoEntry \notin Entries
  BY NoEntryAssumption DEF OwnStreamInv, TypeOK
<1> USE <1>0 DEF ListedInv, Listed, InTry, At, Goto, outcomeVars, Done, Workers, Fault
<1>1. CASE UNCHANGED progressVars
  BY <1>1 DEF progressVars
<1>2. ASSUME NEW w \in Subscriptions, Take(w) PROVE ListedInv'
  BY <1>2 DEF Take
<1>3. ASSUME NEW w \in Subscriptions, Process(w) PROVE ListedInv'
  <2>0. pc[w] # "idle"
    BY <1>3 DEF Process, Prepare, Beat, Execute, Reply, Record, Finish,
                PublishResult, Ack, AckRetry
  <2>1. task[w] \in Entries /\ AgentOf(w) \in Agents
    BY <2>0, TaskInHand, SubscriptionParts DEF OwnStreamInv
  <2>2. CASE Prepare(w)
    BY <2>1, <2>2 DEF Prepare
  <2>3. CASE Beat(w) \/ Execute(w) \/ Reply(w) \/ Record(w)
    BY <2>3 DEF Beat, Execute, Reply, Record
  <2>4. CASE Finish(w)
    <3>1. /\ pc[w] = "finish" /\ pc' = [pc EXCEPT ![w] = "publish"]
          /\ heartbeat' = [heartbeat EXCEPT ![AgentOf(w)] = @ \ {task[w]}]
          /\ task' = task
      BY <2>4 DEF Finish
    <3>2. ASSUME NEW v \in Subscriptions, AgentOf(v) = AgentOf(w),
                 task[v] = task[w]
          PROVE  v = w
      BY <2>1, <3>2, OneWorker
    <3> QED BY <2>1, <3>1, <3>2
  <2>5. CASE PublishResult(w) \/ Ack(w) \/ AckRetry(w)
    BY <2>5 DEF PublishResult, Ack, AckRetry
  <2> QED BY <1>3, <2>2, <2>3, <2>4, <2>5 DEF Process
<1>4. ASSUME NEW a \in Agents, Crash(a) PROVE ListedInv'
  BY <1>4 DEF Crash, Halt
<1> QED BY <1>1, <1>2, <1>3, <1>4, StepCases DEF Cancel

\* Where the heartbeat's own publishing does not fail and no consumer is
\* cancelled, the heartbeat of an agent lists exactly the tasks in hand.
THEOREM HeartbeatIsTrue ==
  ASSUME {"heartbeat", "cancel"} \cap FaultKinds = {}
  PROVE  Spec => []HeartbeatListsTasks
<1>1. Init => OwnStreamInv /\ ListedInv
  BY TypeInit, NoEntryAssumption
     DEF OwnStreamInv, PlacesApart, Holds, ListedInv, Listed, InTry, At, Workers,
         Init, ConsumerInit, BusInit, RedisInit
<1>2. OwnStreamInv /\ ListedInv /\ [Next]_vars => (OwnStreamInv /\ ListedInv)'
  BY OwnStreamStep, ListedStep
<1>3. OwnStreamInv /\ ListedInv => HeartbeatListsTasks
  <2> SUFFICES ASSUME OwnStreamInv, ListedInv, NEW a \in Agents
               PROVE  heartbeat[a] = {task[w] : w \in {v \in Workers(a) : Listed(v)}}
    BY DEF HeartbeatListsTasks, Listed
  <2>1. heartbeat[a] \subseteq Entries
    BY DEF OwnStreamInv, TypeOK
  <2>2. ASSUME NEW w \in Workers(a), Listed(w) PROVE task[w] \in Entries
    BY <2>2, TaskInHand DEF OwnStreamInv, Listed, InTry, At, Workers
  <2> QED BY <2>1, <2>2 DEF ListedInv
<1> QED
  BY <1>1, <1>2, <1>3, PTL DEF Spec

-----------------------------------------------------------------------------
(* An acknowledged entry never comes back.                                 *)

\* An acknowledged entry is nowhere the server could deliver it from.
Withdrawn(e) ==
  /\ e \in sent
  /\ e \notin unread
  /\ owner[e] = NoAgent
  /\ e \in present => StreamOf[e] \in group

LEMMA WithdrawnStep ==
  ASSUME RedisTypeOK, ServerStep, NEW e \in Entries, Withdrawn(e)
  PROVE  Withdrawn(e)'
<1> USE DEF RedisTypeOK, Withdrawn
<1>1. ASSUME NEW d \in Entries, XAdd(d) PROVE Withdrawn(e)'
  BY <1>1 DEF XAdd
<1>2. ASSUME NEW s \in Streams, CreateGroup(s) PROVE Withdrawn(e)'
  BY <1>2 DEF CreateGroup, XGroupCreate, InStream
<1>3. ASSUME NEW s \in Streams, DataLoss(s) PROVE Withdrawn(e)'
  BY <1>3 DEF DataLoss, InStream
<1>4. ASSUME NEW a \in Agents, NEW s \in Streams, XAutoClaim(a, s) \/ XReadNew(a, s)
      PROVE  Withdrawn(e)'
  BY <1>4, TakenEntries DEF XAutoClaim, XReadNew
<1>5. ASSUME \/ UNCHANGED redisVars
             \/ \E d \in Entries : XAck(d) \/ BecomeStale(d)
             \/ \E a \in Agents, s \in Streams : XReadHistory(a, s)
      PROVE  Withdrawn(e)'
  BY <1>5 DEF redisVars, XAck, BecomeStale, XReadHistory
<1> QED BY <1>1, <1>2, <1>3, <1>4, <1>5 DEF ServerStep

\* The only worker that may still have an acknowledged entry in memory, if the
\* entry was not held for too long, is the one whose acknowledgement was lost
\* on the way back.
Over(w, e) ==
  /\ e \notin batch[w]
  /\ task[w] = e => pc[w] \in {"ack", "ackretry"}

AckedForGood ==
  \A e \in acked :
    Withdrawn(e) /\ (e \notin overdue => \A w \in Subscriptions : Over(w, e))

\* A worker's task is no longer in its batch.
TaskTaken == \A w \in Subscriptions : task[w] \notin batch[w]

\* A worker on a task has its generator waiting for it.
Lively ==
  \A w \in Subscriptions :
    pc[w] # "idle" => phase[w] \in {"claimed", "owned", "reading"}

LEMMA TaskTakenStep == TypeOK /\ TaskTaken /\ [Next]_vars => TaskTaken'
<1> SUFFICES ASSUME TypeOK, TaskTaken, [Next]_vars PROVE TaskTaken'
  OBVIOUS
<1>0. /\ batch \in [Subscriptions -> SUBSET Entries]
      /\ task \in [Subscriptions -> Entries \cup {NoEntry}]
      /\ \A w \in Subscriptions : pc[w] = "idle" <=> task[w] = NoEntry
      /\ NoEntry \notin Entries
      /\ batch' \in [Subscriptions -> SUBSET Entries]
  BY NoEntryAssumption, TypeStep DEF TypeOK, BusTypeOK
<1> USE <1>0 DEF TaskTaken
<1>1. CASE UNCHANGED <<batch, task>>
  BY <1>1
<1>2. ASSUME NEW w \in Subscriptions, Generate(w) PROVE TaskTaken'
  <2>1. task' = task /\ task[w] = NoEntry
    BY <1>2 DEF Generate, At, consumerVars, workerVars
  <2>2. \A v \in Subscriptions : v # w => batch'[v] = batch[v]
    BY <1>2 DEF Generate, GeneratorStep, EnsureGroup, ReclaimPending,
         ReadOwnPending, ReadNew, ReadFails, Watchdog, SkipUnparseable, Fetch, Raise
  <2> QED BY <2>1, <2>2
<1>3. ASSUME NEW w \in Subscriptions, Take(w) PROVE TaskTaken'
  BY <1>3 DEF Take, Yield
<1>4. ASSUME NEW w \in Subscriptions, Ack(w) \/ AckRetry(w) PROVE TaskTaken'
  BY <1>4 DEF Ack, AckRetry, Done, Fetch
<1>5. ASSUME NEW a \in Agents, Halt(a) PROVE TaskTaken'
  BY <1>5 DEF Halt, DropGenerators
<1>6. ASSUME NEW w \in Subscriptions, Work(w), ~Generate(w), ~Take(w), ~Ack(w), ~AckRetry(w)
      PROVE  UNCHANGED <<batch, task>>
  BY <1>6 DEF Work, Leave, Process, Prepare, Beat, Execute, Reply, Record,
              Finish, PublishResult, LocalStep, consumerVars, workerVars
<1>7. ASSUME \/ UNCHANGED vars
             \/ \E e \in Entries : Publish(e) \/ Elapse(e)
             \/ \E s \in Streams : LoseStream(s)
             \/ \E a \in Agents : Start(a) \/ Stop(a) \/ CloseBus(a)
      PROVE  UNCHANGED <<batch, task>>
  BY <1>7 DEF vars, busVars, consumerVars, workerVars, Publish, Elapse,
              LoseStream, Start, Stop, CloseBus, Close
<1> QED
  BY <1>1, <1>2, <1>3, <1>4, <1>5, <1>6, <1>7 DEF Next, Crash, Cancel

LEMMA LivelyStep ==
  ASSUME TypeOK, Lively, [Next]_vars
  PROVE  Lively'
<1>0. /\ phase \in [Subscriptions -> Phases]
      /\ pc \in [Subscriptions -> Steps]
  BY DEF TypeOK, BusTypeOK
<1> USE <1>0 DEF Lively
<1>1. CASE UNCHANGED <<phase, pc>>
  BY <1>1
<1>2. ASSUME NEW w \in Subscriptions, Generate(w) PROVE Lively'
  <2>1. /\ pc[w] = "idle" /\ pc' = pc
        /\ \A v \in Subscriptions : v # w => phase'[v] = phase[v]
    BY <1>2 DEF Generate, At, consumerVars, workerVars, GeneratorStep,
         EnsureGroup, ReclaimPending, ReadOwnPending, ReadNew, ReadFails,
         Watchdog, SkipUnparseable, GoTo, Raise
  <2> QED BY <2>1
<1>3. ASSUME NEW w \in Subscriptions, Take(w) PROVE Lively'
  BY <1>3 DEF Take, Yield, At, Goto
<1>4. ASSUME NEW w \in Subscriptions, Leave(w) PROVE Lively'
  BY <1>4 DEF Leave, GoTo, consumerVars, workerVars
<1>5. ASSUME NEW w \in Subscriptions, Process(w) PROVE Lively'
  <2>1. CASE Ack(w) \/ AckRetry(w)
    BY <2>1 DEF Ack, AckRetry, At, Goto, GoTo, Done
  <2>2. CASE ~Ack(w) /\ ~AckRetry(w)
    BY <1>5, <2>2 DEF Process, Prepare, Beat, Execute, Reply, Record, Finish,
                      PublishResult, At, Goto, LocalStep
  <2> QED BY <2>1, <2>2
<1>6. ASSUME NEW a \in Agents, Start(a) PROVE Lively'
  BY <1>6 DEF Start, Workers
<1>7. ASSUME NEW a \in Agents, Halt(a) PROVE Lively'
  BY <1>7 DEF Halt, DropGenerators, Workers
<1>8. ASSUME \/ UNCHANGED vars
             \/ \E e \in Entries : Publish(e) \/ Elapse(e)
             \/ \E s \in Streams : LoseStream(s)
             \/ \E a \in Agents : Stop(a) \/ CloseBus(a)
      PROVE  UNCHANGED <<phase, pc>>
  BY <1>8 DEF vars, busVars, consumerVars, workerVars, Publish, Elapse,
              LoseStream, Stop, CloseBus, Close
<1> QED
  BY <1>1, <1>2, <1>3, <1>4, <1>5, <1>6, <1>7, <1>8 DEF Next, Work, Crash, Cancel

\* An acknowledging worker goes on to acknowledge, or forgets its task.
LEMMA StillOver ==
  ASSUME TypeOK, TaskTaken, [Next]_vars, NEW w \in Subscriptions,
         pc[w] \in {"ack", "ackretry"}, NEW e \in Entries, task[w] = e
  PROVE  Over(w, e)'
<1>0. /\ pc \in [Subscriptions -> Steps]
      /\ task \in [Subscriptions -> Entries \cup {NoEntry}]
      /\ batch \in [Subscriptions -> SUBSET Entries]
      /\ e # NoEntry /\ e \notin batch[w]
  BY NoEntryAssumption DEF TypeOK, BusTypeOK, TaskTaken
<1> USE <1>0 DEF Over
<1>1. CASE batch'[w] = batch[w] /\ task'[w] = task[w] /\ pc'[w] = pc[w]
  BY <1>1
<1>2. ASSUME NEW v \in Subscriptions, Generate(v) PROVE Over(w, e)'
  <2>1. v # w /\ UNCHANGED <<pc, task>>
    BY <1>2 DEF Generate, At, consumerVars, workerVars
  <2>2. batch'[w] = batch[w]
    BY <1>2, <2>1 DEF Generate, GeneratorStep, EnsureGroup, ReclaimPending,
         ReadOwnPending, ReadNew, ReadFails, Watchdog, SkipUnparseable, Fetch, Raise
  <2> QED BY <1>1, <2>1, <2>2
<1>3. ASSUME NEW v \in Subscriptions, Take(v) PROVE Over(w, e)'
  BY <1>3 DEF Take, Yield, At, Goto
<1>4. ASSUME NEW v \in Subscriptions, Ack(v) \/ AckRetry(v) PROVE Over(w, e)'
  BY <1>4 DEF Ack, AckRetry, At, Goto, Done, Fetch
<1>5. ASSUME NEW v \in Subscriptions,
             \/ Prepare(v) \/ Beat(v) \/ Execute(v) \/ Reply(v) \/ Record(v)
             \/ Finish(v) \/ PublishResult(v)
      PROVE  Over(w, e)'
  <2>1. v # w /\ UNCHANGED <<batch, task>>
    BY <1>5 DEF Prepare, Beat, Execute, Reply, Record, Finish, PublishResult,
                At, LocalStep
  <2>2. pc'[w] = pc[w]
    BY <1>5, <2>1 DEF Prepare, Beat, Execute, Reply, Record, Finish,
                      PublishResult, Goto
  <2> QED BY <2>1, <2>2
<1>6. ASSUME NEW a \in Agents, Halt(a) PROVE Over(w, e)'
  BY <1>6 DEF Halt, DropGenerators
<1>7. ASSUME \/ UNCHANGED vars
             \/ \E d \in Entries : Publish(d) \/ Elapse(d)
             \/ \E s \in Streams : LoseStream(s)
             \/ \E a \in Agents : Start(a) \/ Stop(a) \/ CloseBus(a)
             \/ \E v \in Subscriptions : Leave(v)
      PROVE  UNCHANGED <<batch, task, pc>>
  BY <1>7 DEF vars, busVars, consumerVars, workerVars, Publish, Elapse,
              LoseStream, Start, Stop, CloseBus, Close, Leave
<1> QED
  BY <1>1, <1>2, <1>3, <1>4, <1>5, <1>6, <1>7
     DEF Next, Work, Process, Crash, Cancel

\* Withdrawn at the end of a step, an entry was put into no memory by it.
LEMMA NotFetched ==
  ASSUME OwnershipInv, [Next]_vars, NEW w \in Subscriptions,
         NEW e \in Entries, Withdrawn(e)', ~Holds(w, e)
  PROVE  Over(w, e)'
<1>1. AgentOf(w) # NoAgent
  BY SubscriptionParts, AgentsAssumption
<1>2. ~Holds(w, e)'
  BY <1>1, NewInMemory DEF OwnershipInv, Withdrawn
<1> QED BY <1>2 DEF Holds, Over

LEMMA AckedStep ==
  ASSUME OwnershipInv, KnownEntries, TaskTaken, AckedForGood, [Next]_vars
  PROVE  AckedForGood'
<1> SUFFICES ASSUME NEW e \in acked'
             PROVE  /\ Withdrawn(e)'
                    /\ e \notin overdue' => \A w \in Subscriptions : Over(w, e)'
  BY DEF AckedForGood
<1>0. TypeOK /\ RedisTypeOK /\ ServerStep /\ TypeOK' /\ e \in Entries
  BY TypeStep, StepServer DEF OwnershipInv, TypeOK, BusTypeOK, RedisTypeOK
<1>1. CASE e \in acked
  <2>1. Withdrawn(e)'
    BY <1>0, <1>1, WithdrawnStep DEF AckedForGood
  <2>2. ASSUME e \notin overdue, NEW w \in Subscriptions, Holds(w, e)
        PROVE  Over(w, e)'
    <3>1. task[w] = e /\ pc[w] \in {"ack", "ackretry"}
      BY <1>1, <2>2 DEF AckedForGood, Over, Holds
    <3> QED BY <1>0, <3>1, StillOver
  <2> QED BY <1>0, <2>1, <2>2, NotFetched, OverdueForGood
<1>2. CASE e \notin acked
  <2>1. PICK v \in Subscriptions :
          \/ /\ SkipUnparseable(v) /\ Generate(v) /\ XAck(e)
             /\ IsNext(v, e) /\ Unparseable(v, e)
          \/ (Ack(v) \/ AckRetry(v)) /\ task[v] = e /\ XAck(e)
    BY <1>0, <1>2, AckOrigin
  <2>2. Holds(v, e) /\ XAck(e)
    BY <2>1 DEF Holds, IsNext
  <2>3. Withdrawn(e)'
    BY <1>0, <2>2 DEF OwnershipInv, Secured, Withdrawn, XAck, RedisTypeOK
  <2>4. ASSUME e \notin overdue, NEW w \in Subscriptions, w # v
        PROVE  Over(w, e)'
    <3>1. ~Holds(w, e)
      BY <1>0, <2>2, <2>4 DEF OwnershipInv, MutualExclusion
    <3> QED BY <1>0, <2>3, <3>1, NotFetched
  <2>5. Over(v, e)'
    <3>1. CASE Generate(v) /\ SkipUnparseable(v)
      <4>1. task'[v] # e
        BY <1>0, <3>1, NoEntryAssumption
           DEF Generate, At, consumerVars, workerVars, TypeOK
      <4>2. batch'[v] \subseteq batch[v] \ {e}
        <5>1. PICK d \in Entries :
                /\ IsNext(v, d)
                /\ \/ XAck(d) /\ Fetch(v, batch[v] \ {d}, hollow[v] \ {d})
                   \/ Lost(XAck(d)) /\ Raise(v)
          BY <3>1 DEF SkipUnparseable
        <5>2. d = e \/ acked' = acked \cup {d} \/ acked' = acked
          BY <5>1 DEF XAck, Lost, redisVars
        <5>3. d = e
          BY <1>2, <5>1, <2>2 DEF XAck, Lost, redisVars
        <5> QED BY <1>0, <5>1, <5>3 DEF Fetch, Raise, TypeOK, BusTypeOK
      <4> QED BY <4>1, <4>2 DEF Over
    <3>2. CASE Ack(v) \/ AckRetry(v)
      <4>1. pc[v] \in {"ack", "ackretry"}
        BY <3>2 DEF Ack, AckRetry, At
      <4>2. task[v] = e
        BY <2>1, <3>2, <4>1 DEF Generate, At
      <4> QED BY <1>0, <4>1, <4>2, StillOver
    <3> QED BY <2>1, <3>1, <3>2
  <2> QED BY <2>3, <2>4, <2>5, OverdueForGood
<1> QED BY <1>1, <1>2

\* An acknowledged entry is never given out again, and unless it was held for
\* too long it is in nobody's hands.
AckedInv == OwnershipInv /\ KnownEntries /\ TaskTaken /\ AckedForGood /\ Lively

LEMMA AckedInit == Init => AckedInv
<1> SUFFICES ASSUME Init PROVE AckedInv
  OBVIOUS
<1>1. OwnershipInv /\ KnownEntries
  BY OwnershipInit, AttemptInit DEF AttemptInv
<1>2. TaskTaken /\ AckedForGood /\ Lively
  BY DEF TaskTaken, AckedForGood, Lively, Init, ConsumerInit, BusInit, RedisInit
<1> QED BY <1>1, <1>2 DEF AckedInv

LEMMA AckedInvStep == AckedInv /\ [Next]_vars => AckedInv'
<1> SUFFICES ASSUME AckedInv, [Next]_vars PROVE AckedInv'
  OBVIOUS
<1>1. TypeOK
  BY DEF AckedInv, OwnershipInv
<1> QED
  BY <1>1, OwnershipStep, KnownStep, TaskTakenStep, AckedStep, LivelyStep
     DEF AckedInv

-----------------------------------------------------------------------------
(* A pending entry is a lease.                                             *)

Up == {w \in Subscriptions : phase[w] # "down"}

DoingOf(w) == IF Executing(w) THEN task[w] ELSE NoEntry
Doing == [w \in Subscriptions |-> DoingOf(w)]

LEMMA LeaseUntouched ==
  ASSUME UNCHANGED <<Up, Doing, started, acked, overdue>>
  PROVE  UNCHANGED Lease!leaseVars
BY DEF Lease!leaseVars, Up, Doing, DoingOf

\* Only the workers of a step change what they do.
LEMMA DoingChanges ==
  ASSUME TypeOK, NEW w \in Subscriptions,
         \A v \in Subscriptions : v # w => pc'[v] = pc[v] /\ task'[v] = task[v]
  PROVE  Doing' = [Doing EXCEPT ![w] = DoingOf(w)']
<1>1. \A v \in Subscriptions : v # w => DoingOf(v)' = DoingOf(v)
  BY DEF DoingOf, Executing
<1> QED BY <1>1 DEF Doing

\* Nobody but its worker does a task that is in a worker's memory, unless it
\* was held for too long.
LEMMA DoneByHolder ==
  ASSUME AckedInv, NEW w \in Subscriptions, NEW e \in Entries \ overdue, Holds(w, e)
  PROVE  \A v \in Subscriptions : v # w => task[v] # e
BY DEF AckedInv, OwnershipInv, MutualExclusion, Holds

\* Nor is it done, before the worker acknowledges it.
LEMMA NotDoneYet ==
  ASSUME AckedInv, NEW w \in Subscriptions, NEW e \in Entries \ overdue,
         Holds(w, e), pc[w] \notin {"ack", "ackretry"}
  PROVE  e \notin acked
BY DEF AckedInv, AckedForGood, Over, Holds

\* What a worker holds and does not execute is free, or was held for too long.
LEMMA HeldIsFree ==
  ASSUME AckedInv, NEW w \in Subscriptions, NEW e \in Entries, Holds(w, e),
         ~Executing(w)
  PROVE  Lease!Free(e) \/ e \in overdue
<1> SUFFICES ASSUME e \notin overdue PROVE Lease!Free(e)
  OBVIOUS
<1>1. e \notin acked
  BY NotDoneYet DEF Executing
<1>2. e # NoEntry
  BY NoEntryAssumption
<1>3. ASSUME NEW v \in Subscriptions PROVE DoingOf(v) # e
  BY <1>2, DoneByHolder DEF DoingOf
<1> QED BY <1>1, <1>3 DEF Lease!Free, DoingOf

\* A step within one execution, or before it.
LEMMA LeaseGoesOn ==
  ASSUME TypeOK, NEW w \in Subscriptions, NEW step \in Steps,
         UNCHANGED <<phase, task, started, acked, overdue>>, Goto(w, step),
         LET Far == {"execute", "reply", "record", "finish", "publish", "ack", "ackretry"}
         IN  pc[w] \in Far <=> step \in Far
  PROVE  UNCHANGED Lease!leaseVars
<1>1. pc'[w] = step /\ \A v \in Subscriptions : v # w => pc'[v] = pc[v]
  BY DEF Goto, TypeOK
<1>2. \A v \in Subscriptions : DoingOf(v)' = DoingOf(v)
  BY <1>1 DEF DoingOf, Executing
<1> QED BY <1>2, LeaseUntouched DEF Up, Doing

LEMMA LeaseBegins ==
  ASSUME AckedInv, NEW w \in Subscriptions, pc[w] \in {"prepare", "beat"},
         NEW step \in {"execute", "ackretry"}, Goto(w, step),
         UNCHANGED <<phase, task, acked, overdue>>,
         started' \in {started, started \cup {task[w]}}
  PROVE  Lease!LeaseNext
<1>0. TypeOK /\ task[w] \in Entries
  BY TaskInHand DEF AckedInv, OwnershipInv
<1>e. PICK e \in Entries : e = task[w]
  BY <1>0
<1>1. pc'[w] = step /\ \A v \in Subscriptions : v # w => pc'[v] = pc[v]
  BY <1>0 DEF Goto, TypeOK
<1>2. Lease!Free(e) \/ e \in overdue
  BY <1>e, HeldIsFree DEF Holds, Executing
<1>3. w \in Up /\ Doing[w] = NoEntry
  BY DEF AckedInv, Lively, Up, Doing, DoingOf, Executing
<1>4. Doing' = [Doing EXCEPT ![w] = e]
  BY <1>e, <1>0, <1>1, DoingChanges DEF DoingOf, Executing
<1>5. Lease!Begin(w, e)
  BY <1>e, <1>2, <1>3, <1>4 DEF Lease!Begin, Up, Doing, DoingOf
<1> QED BY <1>5 DEF Lease!LeaseNext

\* The acknowledgement, whether its answer comes back or not.
LEMMA LeaseSettles ==
  ASSUME AckedInv, NEW w \in Subscriptions, Executing(w),
         UNCHANGED <<phase, started, overdue>>,
         \/ Done(w)
         \/ UNCHANGED task /\ (UNCHANGED pc \/ Goto(w, "ackretry")),
         acked' = acked \cup {task[w]}
  PROVE  Lease!LeaseNext
<1>0. TypeOK /\ task[w] \in Entries /\ NoEntry \notin Entries
  BY TaskInHand, NoEntryAssumption DEF AckedInv, OwnershipInv, Executing
<1>1. Doing[w] = task[w]
  BY DEF Doing, DoingOf
<1>2. Doing' \in {Doing, [Doing EXCEPT ![w] = NoEntry]}
  <2>1. CASE Done(w)
    <3>1. \A v \in Subscriptions : v # w => pc'[v] = pc[v] /\ task'[v] = task[v]
      BY <1>0, <2>1 DEF Done, Goto, TypeOK
    <3>2. DoingOf(w)' = NoEntry
      BY <1>0, <2>1 DEF Done, Goto, DoingOf, Executing, TypeOK
    <3> QED BY <1>0, <3>1, <3>2, DoingChanges
  <2>2. CASE UNCHANGED task /\ (UNCHANGED pc \/ Goto(w, "ackretry"))
    <3>1. \A v \in Subscriptions : Executing(v)' <=> Executing(v)
      BY <1>0, <2>2 DEF Executing, Goto, TypeOK
    <3>2. \A v \in Subscriptions : DoingOf(v)' = DoingOf(v)
      BY <2>2, <3>1 DEF DoingOf
    <3> QED BY <3>2 DEF Doing
  <2> QED BY <2>1, <2>2
<1>3. Up' = Up
  BY DEF Up
<1>4. Lease!Settle(w)
  BY <1>0, <1>1, <1>2, <1>3 DEF Lease!Settle, Up, Doing, DoingOf
<1> QED BY <1>4 DEF Lease!LeaseNext

\* A worker ends: one that was told to stop while nothing was left to do, or
\* one that gives up an acknowledgement.
LEMMA LeaseIsDropped ==
  ASSUME AckedInv, NEW w \in Subscriptions, UNCHANGED <<started, overdue>>,
         \/ Done(w)
         \/ pc[w] = "idle" /\ UNCHANGED <<pc, task>>,
         GoTo(w, "down"),
         \/ acked' = acked
         \/ Executing(w) /\ acked' = acked \cup {task[w]}
  PROVE  Lease!LeaseNext
<1>0. TypeOK /\ NoEntry \notin Entries
  BY NoEntryAssumption DEF AckedInv, OwnershipInv
<1>1. \A v \in Subscriptions : v # w => pc'[v] = pc[v] /\ task'[v] = task[v]
  BY <1>0 DEF Done, Goto, TypeOK
<1>2. DoingOf(w)' = NoEntry
  BY <1>0 DEF Done, Goto, DoingOf, Executing, TypeOK
<1>3. Doing' = [v \in Subscriptions |-> IF v \in {w} THEN NoEntry ELSE Doing[v]]
  BY <1>0, <1>1, <1>2, DoingChanges DEF Doing
<1>4. Up' = Up \ {w}
  BY <1>0 DEF Up, GoTo, TypeOK, BusTypeOK
<1>5. \E D \in SUBSET ({Doing[v] : v \in {w}} \ {NoEntry}) : acked' = acked \cup D
  <2>1. CASE acked' = acked
    <3>1. {} \in SUBSET ({Doing[v] : v \in {w}} \ {NoEntry}) /\ acked' = acked \cup {}
      BY <2>1
    <3> QED BY <3>1
  <2>2. CASE Executing(w) /\ acked' = acked \cup {task[w]}
    <3>1. Doing[w] = task[w] /\ task[w] # NoEntry
      BY <1>0, <2>2, TaskInHand DEF Doing, DoingOf, Executing
    <3> QED BY <2>2, <3>1
  <2> QED BY <2>1, <2>2
<1>6. Lease!Quit
  <2>1. {w} \in SUBSET Subscriptions
    OBVIOUS
  <2> QED BY <2>1, <1>3, <1>4, <1>5 DEF Lease!Quit, Up, Doing, DoingOf
<1> QED BY <1>6 DEF Lease!LeaseNext

LEMMA LeaseEnds ==
  ASSUME AckedInv, NEW a \in Agents, Crash(a) \/ Cancel(a)
  PROVE  Lease!LeaseNext
<1>1. /\ UNCHANGED <<started, acked, overdue>>
      /\ pc' = [w \in Subscriptions |-> IF w \in Workers(a) THEN "idle" ELSE pc[w]]
      /\ task' = [w \in Subscriptions |-> IF w \in Workers(a) THEN NoEntry ELSE task[w]]
      /\ phase' = [w \in Subscriptions |-> IF w \in Workers(a) THEN "down" ELSE phase[w]]
  BY DEF Crash, Cancel, Halt, DropGenerators, Workers, redisVars, outcomeVars
<1>2. Workers(a) \in SUBSET Subscriptions
  BY DEF Workers
<1>3. Doing' = [w \in Subscriptions |-> IF w \in Workers(a) THEN NoEntry ELSE Doing[w]]
  <2>1. \A w \in Subscriptions :
          DoingOf(w)' = IF w \in Workers(a) THEN NoEntry ELSE DoingOf(w)
    BY <1>1 DEF DoingOf, Executing
  <2> QED BY <2>1 DEF Doing
<1>4. Up' = Up \ Workers(a)
  BY <1>1 DEF Up
<1>5. \E D \in SUBSET ({Doing[w] : w \in Workers(a)} \ {NoEntry}) : acked' = acked \cup D
  <2>1. {} \in SUBSET ({Doing[w] : w \in Workers(a)} \ {NoEntry}) /\ acked' = acked \cup {}
    BY <1>1
  <2> QED BY <2>1
<1>6. Lease!Quit
  BY <1>1, <1>2, <1>3, <1>4, <1>5 DEF Lease!Quit, Up, Doing, DoingOf
<1> QED BY <1>6 DEF Lease!LeaseNext

\* start() brings workers up that were down.
LEMMA LeaseStarts ==
  ASSUME AckedInv, NEW a \in Agents, Start(a)
  PROVE  Lease!LeaseNext
<1>1. /\ UNCHANGED <<pc, task, started, acked, overdue>>
      /\ phase' = [w \in Subscriptions |-> IF w \in Workers(a) THEN "restart" ELSE phase[w]]
  BY DEF Start, redisVars, outcomeVars
<1>2. Workers(a) \in SUBSET Subscriptions
  BY DEF Workers
<1>3. Up' = Up \cup Workers(a)
  BY <1>1, <1>2 DEF Up
<1>4. Doing' = Doing
  BY <1>1 DEF Doing, DoingOf, Executing
<1>5. Lease!Join
  BY <1>1, <1>2, <1>3, <1>4 DEF Lease!Join, Up, Doing, DoingOf
<1> QED BY <1>5 DEF Lease!LeaseNext

\* Time only makes leases run out.
LEMMA LeaseExpires ==
  ASSUME NEW e \in Entries, Elapse(e)
  PROVE  [Lease!LeaseNext]_Lease!leaseVars
<1>1. /\ UNCHANGED <<phase, pc, task, started, acked>>
      /\ overdue' = overdue \cup {e} \/ overdue' = overdue
  BY DEF Elapse, BecomeStale, busVars, workerVars
<1>2. Up' = Up /\ Doing' = Doing
  BY <1>1 DEF Up, Doing, DoingOf, Executing
<1>3. CASE overdue' = overdue
  BY <1>1, <1>2, <1>3, LeaseUntouched
<1>4. CASE overdue' = overdue \cup {e}
  <2>1. Lease!Expire(e)
    BY <1>1, <1>2, <1>4 DEF Lease!Expire, Up, Doing, DoingOf
  <2> QED BY <2>1 DEF Lease!LeaseNext
<1> QED BY <1>1, <1>3, <1>4

\* What the generator does with an entry that nobody can read.
LEMMA GeneratorLease ==
  ASSUME AckedInv, NEW w \in Subscriptions, Generate(w)
  PROVE  [Lease!LeaseNext]_Lease!leaseVars
<1>1. UNCHANGED <<pc, task, started, overdue>> /\ ~Executing(w)
  BY DEF Generate, At, consumerVars, workerVars, outcomeVars, Executing
<1>2. Up' = Up /\ Doing' = Doing
  <2>1. phase \in [Subscriptions -> Phases]
    BY DEF AckedInv, OwnershipInv, TypeOK, BusTypeOK
  <2>2. /\ phase[w] # "down" /\ phase'[w] # "down"
        /\ \A v \in Subscriptions : v # w => phase'[v] = phase[v]
    BY <2>1 DEF Generate, GeneratorStep, EnsureGroup, ReclaimPending,
         ReadOwnPending, ReadNew, ReadFails, Watchdog, SkipUnparseable, GoTo, Raise
  <2>3. Up' = Up
    BY <2>2 DEF Up
  <2>4. Doing' = Doing
    BY <1>1 DEF Doing, DoingOf, Executing
  <2> QED BY <2>3, <2>4
<1>3. CASE SkipUnparseable(w)
  <2>1. PICK e \in Entries : e \in batch[w] /\ (XAck(e) \/ UNCHANGED redisVars)
    BY <1>3 DEF SkipUnparseable, IsNext, Lost
  <2>2. Lease!Free(e) \/ e \in overdue
    BY <1>1, <2>1, HeldIsFree DEF Holds
  <2>3. CASE XAck(e)
    <3>1. Lease!Dismiss(e)
      BY <1>1, <1>2, <2>2, <2>3 DEF Lease!Dismiss, XAck, Up, Doing, DoingOf
    <3> QED BY <3>1 DEF Lease!LeaseNext
  <2>4. CASE UNCHANGED redisVars
    BY <1>1, <1>2, <2>4, LeaseUntouched DEF redisVars
  <2> QED BY <2>1, <2>3, <2>4
<1>4. CASE ~SkipUnparseable(w)
  <2>1. acked' = acked
    BY <1>4 DEF Generate, GeneratorStep, EnsureGroup, ReclaimPending,
         ReadOwnPending, ReadNew, ReadFails, Watchdog, Lost, redisVars,
         CreateGroup, XGroupCreate, XAutoClaim, XReadHistory, XReadNew
  <2> QED BY <1>1, <1>2, <2>1, LeaseUntouched
<1> QED BY <1>3, <1>4

LEMMA ProcessLease ==
  ASSUME AckedInv, NEW w \in Subscriptions, Process(w)
  PROVE  [Lease!LeaseNext]_Lease!leaseVars
<1>0. TypeOK
  BY DEF AckedInv, OwnershipInv
<1>1. CASE Prepare(w)
  <2>1. pc[w] = "prepare" /\ UNCHANGED <<phase, task, started, acked, overdue>>
    BY <1>1 DEF Prepare, At, LocalStep, redisVars
  <2>2. Goto(w, "ackretry") \/ Goto(w, "beat")
    BY <1>1 DEF Prepare
  <2> QED BY <1>0, <2>1, <2>2, LeaseBegins, LeaseGoesOn DEF Steps
<1>2. CASE Beat(w)
  <2>1. /\ pc[w] = "beat" /\ UNCHANGED <<phase, task, acked, overdue>>
        /\ Goto(w, "execute") \/ Goto(w, "ackretry")
        /\ started' \in {started, started \cup {task[w]}}
    BY <1>2 DEF Beat, At, LocalStep, redisVars
  <2> QED BY <2>1, LeaseBegins
<1>3. CASE Execute(w) \/ Reply(w) \/ Record(w) \/ Finish(w) \/ PublishResult(w)
  <2>1. /\ pc[w] \in {"execute", "reply", "record", "finish", "publish"}
        /\ UNCHANGED <<phase, task, started, acked, overdue>>
    BY <1>3 DEF Execute, Reply, Record, Finish, PublishResult, At, LocalStep,
                redisVars, outcomeVars
  <2>2. \E step \in {"reply", "record", "finish", "publish", "ack", "ackretry"} : Goto(w, step)
    BY <1>3 DEF Execute, Reply, Record, Finish, PublishResult
  <2> QED BY <1>0, <2>1, <2>2, LeaseGoesOn DEF Steps
<1>4. CASE Ack(w)
  <2>1. pc[w] = "ack" /\ UNCHANGED <<phase, started, overdue>> /\ Executing(w)
    BY <1>4 DEF Ack, At, outcomeVars, Executing
  <2>2. \/ acked' = acked \cup {task[w]} /\ (Done(w) \/ (UNCHANGED task /\ Goto(w, "ackretry")))
        \/ UNCHANGED <<acked, task>> /\ Goto(w, "ackretry")
    BY <1>4 DEF Ack, Lost, XAck, redisVars
  <2>3. CASE acked' = acked \cup {task[w]} /\ (Done(w) \/ (UNCHANGED task /\ Goto(w, "ackretry")))
    BY <2>1, <2>3, LeaseSettles
  <2>4. CASE UNCHANGED <<acked, task>> /\ Goto(w, "ackretry")
    BY <1>0, <2>1, <2>4, LeaseGoesOn DEF Steps
  <2> QED BY <2>2, <2>3, <2>4
<1>5. CASE AckRetry(w)
  <2>1. pc[w] = "ackretry" /\ UNCHANGED <<started, overdue>> /\ Executing(w)
    BY <1>5 DEF AckRetry, At, outcomeVars, Executing
  <2>2. \/ acked' = acked \cup {task[w]} /\ phase' = phase /\ (Done(w) \/ UNCHANGED <<pc, task>>)
        \/ UNCHANGED <<phase, acked, pc, task>>
        \/ /\ GoTo(w, "down") /\ Done(w)
           /\ acked' = acked \/ acked' = acked \cup {task[w]}
    BY <1>5 DEF AckRetry, Lost, XAck, redisVars
  <2>3. CASE acked' = acked \cup {task[w]} /\ phase' = phase /\ (Done(w) \/ UNCHANGED <<pc, task>>)
    BY <2>1, <2>3, LeaseSettles
  <2>4. CASE UNCHANGED <<phase, acked, pc, task>>
    <3>1. Up' = Up /\ Doing' = Doing
      BY <2>4 DEF Up, Doing, DoingOf, Executing
    <3> QED BY <2>1, <2>4, <3>1, LeaseUntouched
  <2>5. CASE GoTo(w, "down") /\ Done(w)
             /\ (acked' = acked \/ acked' = acked \cup {task[w]})
    BY <2>1, <2>5, LeaseIsDropped
  <2> QED BY <2>2, <2>3, <2>4, <2>5
<1> QED BY <1>1, <1>2, <1>3, <1>4, <1>5, Zenon DEF Process

LEMMA NextLease ==
  ASSUME AckedInv, [Next]_vars
  PROVE  [Lease!LeaseNext]_Lease!leaseVars
<1>0. TypeOK
  BY DEF AckedInv, OwnershipInv
<1>1. ASSUME NEW w \in Subscriptions, Work(w)
      PROVE  [Lease!LeaseNext]_Lease!leaseVars
  <2>1. CASE Generate(w)
    BY <2>1, GeneratorLease
  <2>2. CASE Process(w)
    BY <2>2, ProcessLease
  <2>3. CASE Take(w)
    <3>1. /\ Goto(w, "prepare") /\ UNCHANGED <<phase, started, acked, overdue>>
          /\ pc[w] = "idle" /\ \E e \in Entries : task' = [task EXCEPT ![w] = e]
      BY <2>3 DEF Take, At, Yield, redisVars, outcomeVars
    <3>2. \A v \in Subscriptions : DoingOf(v)' = DoingOf(v)
      BY <1>0, <3>1 DEF Goto, DoingOf, Executing, TypeOK
    <3> QED BY <3>1, <3>2, LeaseUntouched DEF Up, Doing
  <2>4. CASE Leave(w)
    <3>1. /\ phase[w] = "restart" /\ GoTo(w, "down")
          /\ UNCHANGED <<pc, task, started, acked, overdue>>
      BY <2>4 DEF Leave, redisVars, consumerVars, workerVars, outcomeVars
    <3>2. pc[w] = "idle"
      BY <3>1 DEF AckedInv, Lively
    <3> QED BY <3>1, <3>2, LeaseIsDropped
  <2> QED BY <1>1, <2>1, <2>2, <2>3, <2>4 DEF Work
<1>2. ASSUME NEW a \in Agents, Start(a) \/ Crash(a) \/ Cancel(a)
      PROVE  [Lease!LeaseNext]_Lease!leaseVars
  BY <1>2, LeaseStarts, LeaseEnds
<1>3. ASSUME NEW e \in Entries, Elapse(e)
      PROVE  [Lease!LeaseNext]_Lease!leaseVars
  BY <1>3, LeaseExpires
<1>4. ASSUME \/ UNCHANGED vars
             \/ \E e \in Entries : Publish(e)
             \/ \E s \in Streams : LoseStream(s)
             \/ \E a \in Agents : Stop(a) \/ CloseBus(a)
      PROVE  UNCHANGED Lease!leaseVars
  <2>1. UNCHANGED <<phase, pc, task, started, acked, overdue>>
    BY <1>4 DEF vars, redisVars, busVars, consumerVars, workerVars, outcomeVars,
         Publish, XAdd, LoseStream, DataLoss, Stop, CloseBus, Close
  <2>2. Up' = Up /\ Doing' = Doing
    BY <2>1 DEF Up, Doing, DoingOf, Executing
  <2> QED BY <2>1, <2>2, LeaseUntouched
<1> QED BY <1>1, <1>2, <1>3, <1>4 DEF Next

LEMMA InitLease == Init => Lease!LeaseInit
BY DEF Init, ConsumerInit, BusInit, RedisInit, Lease!LeaseInit, Executing

\* The mesh gives out its tasks as leases, whatever fails and however slow the
\* tasks are: unless it was held for longer than claim_idle_ms, what somebody
\* works on nobody else begins, and what was acknowledged is never begun again;
\* a worker that lives never drops a task it did not acknowledge, and only the
\* end of a worker gives a task up (bus_redis.py, _reclaim_pending;
\* consumer.py, _ack_with_retries).
THEOREM MeshImplementsLease == Spec => ImplementsLease
<1>1. AckedInv /\ [Next]_vars => [Lease!LeaseNext]_Lease!leaseVars
  BY NextLease
<1> QED
  BY <1>1, AckedInit, AckedInvStep, InitLease, PTL
     DEF Spec, ImplementsLease, Lease!LeaseSpec

=============================================================================
