--------------------------- MODULE Ownership_proofs ---------------------------
(***************************************************************************)
(* Who has an entry in memory, and who it is pending to.                   *)
(***************************************************************************)
EXTENDS AgentMesh_proofs

-----------------------------------------------------------------------------
(* An entry is in one place of the server, and a pending entry has a group.*)

PlacesApart ==
  /\ \A e \in unread : owner[e] = NoAgent /\ StreamOf[e] \in group
  /\ \A e \in Entries : owner[e] # NoAgent => e \in sent /\ StreamOf[e] \in group

LEMMA PlacesStep ==
  ASSUME RedisTypeOK, PlacesApart, ServerStep
  PROVE  PlacesApart'
<1> USE DEF RedisTypeOK, PlacesApart
<1>1. ASSUME NEW e \in Entries, XAdd(e) PROVE PlacesApart'
  BY <1>1, EntriesAssumption DEF XAdd
<1>2. ASSUME NEW s \in Streams, CreateGroup(s) PROVE PlacesApart'
  BY <1>2 DEF CreateGroup, XGroupCreate, InStream
<1>3. ASSUME NEW s \in Streams, DataLoss(s) PROVE PlacesApart'
  BY <1>3 DEF DataLoss, InStream
<1>4. ASSUME NEW a \in Agents, NEW s \in Streams, XAutoClaim(a, s)
      PROVE  PlacesApart'
  BY <1>4, TakenEntries DEF XAutoClaim
<1>5. ASSUME NEW a \in Agents, NEW s \in Streams, XReadNew(a, s)
      PROVE  PlacesApart'
  BY <1>5, TakenEntries DEF XReadNew
<1>6. ASSUME \/ UNCHANGED redisVars
             \/ \E e \in Entries : XAck(e) \/ BecomeStale(e)
             \/ \E a \in Agents, s \in Streams : XReadHistory(a, s)
      PROVE  PlacesApart'
  BY <1>6 DEF redisVars, XAck, BecomeStale, XReadHistory
<1> QED
  BY <1>1, <1>2, <1>3, <1>4, <1>5, <1>6 DEF ServerStep

-----------------------------------------------------------------------------
(* What it takes for worker w to have entry e safely: nobody else can get  *)
(* it as a new entry nor, unless it was held for too long, by a reclaim.   *)

Secured(w, e) ==
  /\ e \in sent
  /\ e \notin unread
  /\ StreamOf[e] = StreamIn(w)
  /\ e \in present => StreamOf[e] \in group
  /\ e \notin overdue =>
       /\ owner[e] # NoAgent => owner[e] = AgentOf(w)
       /\ e \in present => e \notin stale

\* Commands leave a secured entry secured; only time can do otherwise, and
\* the entry is overdue then.
LEMMA SecuredStep ==
  ASSUME RedisTypeOK, PlacesApart, ServerStep,
         NEW w \in Subscriptions, NEW e \in Entries,
         Secured(w, e), overdue \subseteq overdue',
         BecomeStale(e) => e \in overdue'
  PROVE  Secured(w, e)'
<1> USE DEF RedisTypeOK, Secured
<1>1. ASSUME NEW d \in Entries, XAdd(d) PROVE Secured(w, e)'
  BY <1>1 DEF XAdd
<1>2. ASSUME NEW s \in Streams, CreateGroup(s) PROVE Secured(w, e)'
  BY <1>2 DEF CreateGroup, XGroupCreate, InStream
<1>3. ASSUME NEW s \in Streams, DataLoss(s) PROVE Secured(w, e)'
  BY <1>3 DEF DataLoss, InStream
<1>4. ASSUME NEW a \in Agents, NEW s \in Streams, XAutoClaim(a, s)
      PROVE  Secured(w, e)'
  BY <1>4, TakenEntries DEF XAutoClaim
<1>5. ASSUME NEW a \in Agents, NEW s \in Streams, XReadNew(a, s)
      PROVE  Secured(w, e)'
  BY <1>5, TakenEntries DEF XReadNew
<1>6. ASSUME NEW d \in Entries, XAck(d) PROVE Secured(w, e)'
  BY <1>6 DEF XAck
<1>7. ASSUME NEW d \in Entries, BecomeStale(d) PROVE Secured(w, e)'
  BY <1>7 DEF BecomeStale
<1>8. ASSUME \/ UNCHANGED redisVars
             \/ \E a \in Agents, s \in Streams : XReadHistory(a, s)
      PROVE  Secured(w, e)'
  BY <1>8 DEF redisVars, XReadHistory
<1> QED
  BY <1>1, <1>2, <1>3, <1>4, <1>5, <1>6, <1>7, <1>8 DEF ServerStep

\* An entry comes into a worker's memory by one of the three commands that
\* fetch, and is then secured and pending to the worker's agent.
LEMMA FetchedSecured ==
  ASSUME TypeOK, PlacesApart, NEW w \in Subscriptions, Generate(w),
         NEW e \in Entries, e \in batch'[w], e \notin batch[w]
  PROVE  Secured(w, e)' /\ owner'[e] = AgentOf(w)
<1> DEFINE a == AgentOf(w)
           s == StreamIn(w)
<1>0. /\ RedisTypeOK
      /\ batch \in [Subscriptions -> SUBSET Entries]
      /\ a \in Agents /\ s \in Streams /\ a # NoAgent
  BY SubscriptionParts, AgentsAssumption DEF TypeOK, BusTypeOK
<1> USE <1>0 DEF RedisTypeOK, PlacesApart, Secured, Fetch, Raise
<1>1. CASE EnsureGroup(w)
  BY <1>1 DEF EnsureGroup
<1>2. CASE ReclaimPending(w)
  <2>1. s \in group /\ XAutoClaim(a, s) /\ e \in Claimable(s) \cap present
    BY <1>2 DEF ReclaimPending
  <2>2. e \in stale /\ StreamOf[e] = s
    BY <2>1, TakenEntries DEF InStream
  <2> QED BY <2>1, <2>2 DEF XAutoClaim
<1>3. CASE ReadOwnPending(w)
  <2>1. s \in group /\ XReadHistory(a, s) /\ e \in History(a, s)
    BY <1>3 DEF ReadOwnPending
  <2>2. owner[e] = a /\ StreamOf[e] = s
    BY <2>1, TakenEntries DEF PendingTo, InStream
  <2> QED BY <2>1, <2>2 DEF XReadHistory
<1>4. CASE ReadNew(w)
  <2>1. s \in group /\ XReadNew(a, s) /\ e \in Fresh(s)
    BY <1>4 DEF ReadNew
  <2>2. e \in unread /\ StreamOf[e] = s
    BY <2>1, TakenEntries DEF InStream
  <2> QED BY <2>1, <2>2 DEF XReadNew
<1>5. CASE ReadFails(w)
  BY <1>5 DEF ReadFails
<1>6. CASE Watchdog(w)
  BY <1>6 DEF Watchdog
<1>7. CASE SkipUnparseable(w)
  BY <1>7 DEF SkipUnparseable
<1> QED
  BY <1>1, <1>2, <1>3, <1>4, <1>5, <1>6, <1>7 DEF Generate, GeneratorStep

\* Nothing else puts an entry into anybody's memory.
LEMMA NewInMemory ==
  ASSUME TypeOK, PlacesApart, [Next]_vars,
         NEW w \in Subscriptions, NEW e \in Entries,
         Holds(w, e)', ~Holds(w, e)
  PROVE  Secured(w, e)' /\ owner'[e] = AgentOf(w)
<1>0. /\ batch \in [Subscriptions -> SUBSET Entries]
      /\ task \in [Subscriptions -> Entries \cup {NoEntry}]
      /\ e # NoEntry
  BY NoEntryAssumption DEF TypeOK, BusTypeOK
<1> USE <1>0 DEF Holds
<1>1. CASE UNCHANGED <<batch, task>>
  BY <1>1
<1>2. ASSUME NEW v \in Subscriptions, Generate(v)
      PROVE  Secured(w, e)' /\ owner'[e] = AgentOf(w)
  <2>1. task' = task /\ (v # w => batch'[w] = batch[w])
    BY <1>2 DEF Generate, consumerVars, workerVars, GeneratorStep, EnsureGroup,
         ReclaimPending, ReadOwnPending, ReadNew, ReadFails, Watchdog,
         SkipUnparseable, Fetch, Raise
  <2> QED BY <1>2, <2>1, FetchedSecured
<1>3. ASSUME NEW v \in Subscriptions, Take(v)
      PROVE  Secured(w, e)' /\ owner'[e] = AgentOf(w)
  BY <1>3 DEF Take, Yield, IsNext
<1>4. ASSUME NEW v \in Subscriptions, Ack(v) \/ AckRetry(v)
      PROVE  Secured(w, e)' /\ owner'[e] = AgentOf(w)
  BY <1>4 DEF Ack, AckRetry, Done, Fetch
<1>5. ASSUME NEW a \in Agents, Halt(a)
      PROVE  Secured(w, e)' /\ owner'[e] = AgentOf(w)
  BY <1>5 DEF Halt, DropGenerators
<1>6. ASSUME NEW v \in Subscriptions,
             \/ Leave(v)
             \/ Prepare(v) \/ Beat(v) \/ Execute(v) \/ Reply(v) \/ Record(v)
             \/ Finish(v) \/ PublishResult(v)
      PROVE  UNCHANGED <<batch, task>>
  BY <1>6 DEF Leave, Prepare, Beat, Execute, Reply, Record, Finish,
              PublishResult, LocalStep, consumerVars, workerVars
<1>7. ASSUME \/ UNCHANGED vars
             \/ \E d \in Entries : Publish(d) \/ Elapse(d)
             \/ \E s \in Streams : LoseStream(s)
             \/ \E a \in Agents : Start(a) \/ Stop(a) \/ CloseBus(a)
      PROVE  UNCHANGED <<batch, task>>
  BY <1>7 DEF vars, busVars, consumerVars, workerVars, Publish, Elapse,
              LoseStream, Start, Stop, CloseBus, Close
<1> QED
  BY <1>1, <1>2, <1>3, <1>4, <1>5, <1>6, <1>7
     DEF Next, Work, Process, Crash, Cancel

-----------------------------------------------------------------------------
(* Mutual exclusion.                                                       *)

\* Entries get stale with time only; every command lets them alone or makes
\* them fresh.
LEMMA AgingIsElapse ==
  ASSUME [Next]_vars, ~\E d \in Entries : Elapse(d)
  PROVE  stale' \subseteq stale
<1>1. ASSUME NEW w \in Subscriptions, Generate(w) PROVE stale' \subseteq stale
  BY <1>1 DEF Generate, GeneratorStep, EnsureGroup, ReclaimPending,
       ReadOwnPending, ReadNew, ReadFails, Watchdog, SkipUnparseable, Lost,
       redisVars, CreateGroup, XGroupCreate, XAutoClaim, XReadHistory, XReadNew, XAck
<1>2. ASSUME NEW w \in Subscriptions, Work(w), ~Generate(w)
      PROVE  stale' \subseteq stale
  BY <1>2 DEF Work, Leave, Take, Yield, Process, Prepare, Beat, Execute, Reply,
       Record, Finish, PublishResult, Ack, AckRetry, LocalStep, Lost, redisVars, XAck
<1>3. ASSUME \/ UNCHANGED vars
             \/ \E e \in Entries : Publish(e)
             \/ \E s \in Streams : LoseStream(s)
             \/ \E a \in Agents : Start(a) \/ Stop(a) \/ Crash(a) \/ Cancel(a)
                                  \/ CloseBus(a)
      PROVE  stale' \subseteq stale
  BY <1>3 DEF vars, redisVars, Publish, XAdd, LoseStream, DataLoss, Start, Stop,
       Crash, Cancel, Halt, CloseBus, Close
<1> QED
  BY <1>1, <1>2, <1>3 DEF Next

\* What was held for too long stays so.
LEMMA OverdueForGood ==
  ASSUME [Next]_vars
  PROVE  overdue \subseteq overdue'
<1>1. ASSUME NEW w \in Subscriptions, Work(w) PROVE overdue' = overdue
  BY <1>1 DEF Work, Leave, Generate, Take, Process, Prepare, Beat, Execute,
       Reply, Record, Finish, PublishResult, Ack, AckRetry, consumerVars,
       outcomeVars
<1>2. ASSUME \/ UNCHANGED vars
             \/ \E e \in Entries : Publish(e)
             \/ \E s \in Streams : LoseStream(s)
             \/ \E a \in Agents : Start(a) \/ Stop(a) \/ Crash(a) \/ Cancel(a)
                                  \/ CloseBus(a)
      PROVE  overdue' = overdue
  BY <1>2 DEF vars, consumerVars, outcomeVars, Publish, LoseStream, Start, Stop,
       Crash, Cancel, Halt, CloseBus
<1>3. ASSUME NEW e \in Entries, Elapse(e) PROVE overdue \subseteq overdue'
  BY <1>3 DEF Elapse
<1> QED
  BY <1>1, <1>2, <1>3 DEF Next

OwnershipInv ==
  /\ TypeOK
  /\ PlacesApart
  /\ \A w \in Subscriptions : \A e \in Entries : Holds(w, e) => Secured(w, e)
  /\ MutualExclusion

LEMMA OwnershipInit == Init => OwnershipInv
<1> SUFFICES ASSUME Init PROVE OwnershipInv
  OBVIOUS
<1>1. TypeOK
  BY TypeInit
<1> QED
  BY <1>1, NoEntryAssumption
     DEF OwnershipInv, PlacesApart, MutualExclusion, Holds, Init, ConsumerInit,
         BusInit, RedisInit

LEMMA OwnershipStep ==
  ASSUME OwnershipInv, [Next]_vars
  PROVE  OwnershipInv'
<1>1. TypeOK' /\ RedisTypeOK /\ ServerStep
  BY TypeStep, StepServer DEF OwnershipInv, TypeOK, BusTypeOK
<1>2. PlacesApart'
  BY <1>1, PlacesStep DEF OwnershipInv
<1>3. ASSUME NEW w \in Subscriptions, NEW e \in Entries, Holds(w, e)
      PROVE  BecomeStale(e) => e \in overdue'
  <2> SUFFICES ASSUME BecomeStale(e), e \notin overdue' PROVE FALSE
    OBVIOUS
  <2>0. e \notin stale /\ stale' = stale \cup {e} /\ owner' = owner
        /\ UNCHANGED <<sent, present, unread, group, acked>>
    BY DEF BecomeStale
  <2>1. CASE \E d \in Entries : Elapse(d)
    <3>1. PICK d \in Entries : Elapse(d)
      BY <2>1
    <3>2. d # e
      BY <1>3, <3>1 DEF Elapse
    <3> QED BY <2>0, <3>1, <3>2 DEF Elapse, BecomeStale
  <2>2. CASE ~\E d \in Entries : Elapse(d)
    <3>1. stale' \subseteq stale
      BY <2>2, AgingIsElapse
    <3> QED BY <2>0, <3>1
  <2> QED BY <2>1, <2>2
<1>4. ASSUME NEW w \in Subscriptions, NEW e \in Entries, Holds(w, e)'
      PROVE  Secured(w, e)'
  BY <1>1, <1>3, <1>4, OverdueForGood, SecuredStep, NewInMemory DEF OwnershipInv
<1>5. MutualExclusion'
  <2> SUFFICES ASSUME NEW v \in Subscriptions, NEW w \in Subscriptions,
                      NEW e \in Entries \ overdue', Holds(v, e)', Holds(w, e)'
               PROVE  v = w
    BY DEF MutualExclusion
  <2>0. e \in Entries \ overdue
    BY OverdueForGood
  <2>1. CASE Holds(v, e) /\ Holds(w, e)
    BY <2>0, <2>1 DEF OwnershipInv, MutualExclusion
  <2>2. CASE ~Holds(v, e) \/ ~Holds(w, e)
    <3>1. owner'[e] = AgentOf(v) \/ owner'[e] = AgentOf(w)
      BY <2>2, NewInMemory DEF OwnershipInv
    <3>2. Secured(v, e)' /\ Secured(w, e)'
      BY <1>4
    <3>3. AgentOf(v) = AgentOf(w) /\ StreamIn(v) = StreamIn(w)
      BY <2>0, <3>1, <3>2, SubscriptionParts, AgentsAssumption
         DEF Secured, AgentOf, StreamIn
    <3> QED BY <3>3, SubscriptionParts
  <2> QED BY <2>1, <2>2
<1> QED
  BY <1>1, <1>2, <1>4, <1>5 DEF OwnershipInv

\* Two workers have the same entry in memory only if it once went idle for
\* claim_idle_ms while a live process had it.  Nothing else does that: no
\* crash, cancellation, restart, lost answer, closed bus or group created
\* again, for any number of agents and faults.
THEOREM OneHolder == Spec => []MutualExclusion
<1>1. OwnershipInv /\ [Next]_vars => OwnershipInv'
  BY OwnershipStep
<1>2. OwnershipInv => MutualExclusion
  BY DEF OwnershipInv
<1> QED
  BY <1>1, <1>2, OwnershipInit, PTL DEF Spec

-----------------------------------------------------------------------------
(* Nothing is stranded.                                                    *)

\* A COUNT that is large enough takes everything.
LEMMA LeastNAll ==
  ASSUME NEW S \in SUBSET Entries, NEW n \in Nat, Cardinality(Entries) <= n
  PROVE  LeastN(S, n) = S
<1> SUFFICES ASSUME NEW e \in S PROVE Cardinality({d \in S : d < e}) < n
  BY DEF LeastN
<1> DEFINE B == {d \in S : d < e}
<1>1. /\ IsFiniteSet(Entries) /\ IsFiniteSet(B)
      /\ Cardinality(B) <= Cardinality(Entries)
      /\ Cardinality(B) = Cardinality(Entries) => B = Entries
  BY EntriesAssumption, FS_Subset, B \subseteq Entries
<1>2. B # Entries
  BY EntriesAssumption
<1>3. Cardinality(B) \in Nat /\ Cardinality(Entries) \in Nat
  BY <1>1, FS_CardinalityType
<1> HIDE DEF B
<1> QED BY <1>1, <1>2, <1>3 DEF B

\* From its own pending entries on, a generator's worker has in memory all
\* that is pending to it, save what came with a read that was given up.
InHand(w) ==
  phase[w] \in {"owned", "reading"} =>
    \A e \in PendingTo(AgentOf(w), StreamIn(w)) : Holds(w, e) \/ e \in abandoned

\* What was given up stays so.
LEMMA AbandonedForGood ==
  ASSUME [Next]_vars
  PROVE  abandoned \subseteq abandoned'
<1>1. ASSUME NEW w \in Subscriptions, Generate(w)
      PROVE  abandoned \subseteq abandoned'
  BY <1>1 DEF Generate, GeneratorStep, EnsureGroup, ReclaimPending,
       ReadOwnPending, ReadNew, ReadFails, Watchdog, SkipUnparseable
<1>2. ASSUME NEW w \in Subscriptions, Work(w), ~Generate(w)
      PROVE  abandoned' = abandoned
  BY <1>2 DEF Work, Leave, Take, Yield, Process, Prepare, Beat, Execute, Reply,
       Record, Finish, PublishResult, Ack, AckRetry, LocalStep
<1>3. ASSUME \/ UNCHANGED vars
             \/ \E e \in Entries : Publish(e) \/ Elapse(e)
             \/ \E s \in Streams : LoseStream(s)
             \/ \E a \in Agents : Start(a) \/ Stop(a) \/ Crash(a) \/ Cancel(a)
                                  \/ CloseBus(a)
      PROVE  abandoned' = abandoned
  BY <1>3 DEF vars, busVars, Publish, Elapse, LoseStream, Start, Stop, Crash,
       Cancel, Halt, CloseBus, Close
<1> QED
  BY <1>1, <1>2, <1>3 DEF Next

\* A generator only makes entries pending to its own worker.
LEMMA OthersPending ==
  ASSUME RedisTypeOK, NEW v \in Subscriptions, Generate(v),
         NEW w \in Subscriptions, v # w
  PROVE  PendingTo(AgentOf(w), StreamIn(w))' \subseteq
           PendingTo(AgentOf(w), StreamIn(w))
<1> DEFINE a == AgentOf(v)
           s == StreamIn(v)
<1>1. AgentOf(w) # a \/ StreamIn(w) # s
  BY SubscriptionParts
<1>2. AgentOf(w) # NoAgent
  BY SubscriptionParts, AgentsAssumption
<1>3. \/ UNCHANGED redisVars
      \/ CreateGroup(s) \/ XAutoClaim(a, s) \/ XReadHistory(a, s)
      \/ XReadNew(a, s) \/ \E e \in Entries : XAck(e)
  BY DEF Generate, GeneratorStep, EnsureGroup, ReclaimPending, ReadOwnPending,
         ReadNew, ReadFails, Watchdog, SkipUnparseable, Lost
<1>4. CASE XAutoClaim(a, s)
  BY <1>1, <1>2, <1>4, TakenEntries
     DEF XAutoClaim, PendingTo, InStream, RedisTypeOK, AgentOf, StreamIn
<1>5. CASE XReadNew(a, s)
  BY <1>1, <1>2, <1>5, TakenEntries
     DEF XReadNew, PendingTo, InStream, RedisTypeOK, AgentOf, StreamIn
<1> QED
  BY <1>2, <1>3, <1>4, <1>5 DEF redisVars, CreateGroup, XGroupCreate, XReadHistory, XAck, PendingTo,
       InStream, RedisTypeOK, AgentOf, StreamIn

LEMMA GeneratorInHand ==
  ASSUME TypeOK, PlacesApart, Cardinality(Entries) <= PelCount,
         NEW w \in Subscriptions, InHand(w), Generate(w)
  PROVE  InHand(w)'
<1> DEFINE a == AgentOf(w)
           s == StreamIn(w)
<1>0. /\ RedisTypeOK
      /\ a \in Agents /\ a # NoAgent /\ s \in Streams
      /\ batch \in [Subscriptions -> SUBSET Entries]
      /\ phase \in [Subscriptions -> Phases]
      /\ task[w] = NoEntry /\ task' = task
  BY SubscriptionParts, AgentsAssumption
     DEF TypeOK, BusTypeOK, Generate, At, consumerVars, workerVars
<1>1. CASE EnsureGroup(w) \/ ReclaimPending(w) \/ ReadFails(w)
  <2>1. phase'[w] \notin {"owned", "reading"}
    BY <1>0, <1>1 DEF EnsureGroup, ReclaimPending, ReadFails, GoTo, Raise
  <2> QED BY <2>1 DEF InHand
<1>2. CASE ReadOwnPending(w)
  <2>1. CASE phase'[w] = "restart"
    BY <2>1 DEF InHand
  <2>2. CASE s \in group /\ XReadHistory(a, s) /\ Fetch(w, History(a, s), History(a, s) \ present)
    <3>1. PendingTo(a, s) \in SUBSET Entries
      BY DEF PendingTo, InStream
    <3>2. History(a, s) = PendingTo(a, s)
      BY <3>1, LeastNAll, LimitsAssumption DEF History
    <3>3. batch'[w] = PendingTo(a, s) /\ owner' = owner
      BY <1>0, <2>2, <3>2 DEF Fetch, XReadHistory
    <3> QED BY <3>3 DEF InHand, Holds, PendingTo, AgentOf, StreamIn
  <2>3. CASE s \notin group /\ UNCHANGED redisVars
    <3>1. PendingTo(a, s)' = {}
      BY <1>0, <2>3 DEF PendingTo, InStream, PlacesApart, redisVars
    <3> QED BY <3>1 DEF InHand, AgentOf, StreamIn
  <2> QED
    BY <1>0, <1>2, <2>1, <2>2, <2>3 DEF ReadOwnPending, Raise, GoTo
<1>3. CASE ReadNew(w) \/ Watchdog(w)
  <2>1. PendingTo(a, s) \subseteq abandoned
    BY <1>0, <1>3, NoEntryAssumption
       DEF ReadNew, Watchdog, InHand, Holds, PendingTo, InStream
  <2>2. CASE /\ XReadNew(a, s)
             /\ \/ batch'[w] = Fresh(s) /\ abandoned' = abandoned
                \/ abandoned' = abandoned \cup Fresh(s)
    <3>1. PendingTo(a, s)' \subseteq Fresh(s) \cup abandoned
      BY <1>0, <2>1, <2>2 DEF XReadNew, PendingTo, InStream
    <3> QED BY <2>2, <3>1 DEF InHand, Holds, AgentOf, StreamIn
  <2>3. CASE UNCHANGED <<redisVars, abandoned>>
    BY <2>1, <2>3 DEF InHand, PendingTo, redisVars, AgentOf, StreamIn
  <2> QED BY <1>0, <1>3, <2>2, <2>3 DEF ReadNew, Watchdog, Fetch
<1>4. CASE SkipUnparseable(w)
  <2>1. CASE phase'[w] = "restart"
    BY <2>1 DEF InHand
  <2>2. ASSUME NEW e \in Entries, XAck(e), Fetch(w, batch[w] \ {e}, hollow[w] \ {e}),
               phase' = phase, abandoned' = abandoned
        PROVE  InHand(w)'
    <3>1. PendingTo(a, s)' \subseteq PendingTo(a, s) \ {e}
      BY <1>0, <2>2 DEF XAck, PendingTo, InStream, RedisTypeOK
    <3> QED
      BY <1>0, <2>2, <3>1 DEF InHand, Holds, Fetch, AgentOf, StreamIn
  <2> QED
    BY <1>0, <1>4, <2>1, <2>2 DEF SkipUnparseable, Raise, GoTo
<1> QED
  BY <1>1, <1>2, <1>3, <1>4 DEF Generate, GeneratorStep

StrandInv ==
  /\ TypeOK
  /\ PlacesApart
  /\ \A w \in Subscriptions : InHand(w)

\* A step that leaves the generator of w where it is, or ends it, and takes
\* nothing from w that is still pending.
LEMMA KeepInHand ==
  ASSUME NEW w \in Subscriptions, InHand(w),
         phase'[w] \in {phase[w], "restart", "down"},
         abandoned \subseteq abandoned',
         PendingTo(AgentOf(w), StreamIn(w))' \subseteq
           PendingTo(AgentOf(w), StreamIn(w)),
         phase'[w] = phase[w] =>
           \A e \in PendingTo(AgentOf(w), StreamIn(w))' :
             Holds(w, e) => Holds(w, e)'
  PROVE  InHand(w)'
BY DEF InHand, AgentOf, StreamIn

LEMMA WorkInHand ==
  ASSUME StrandInv, Cardinality(Entries) <= PelCount,
         NEW v \in Subscriptions, Work(v),
         NEW w \in Subscriptions
  PROVE  InHand(w)'
<1> DEFINE Mine == PendingTo(AgentOf(w), StreamIn(w))
<1>0. /\ RedisTypeOK /\ InHand(w)
      /\ batch \in [Subscriptions -> SUBSET Entries]
      /\ phase \in [Subscriptions -> Phases]
      /\ task \in [Subscriptions -> Entries \cup {NoEntry}]
      /\ pc[v] = "idle" => task[v] = NoEntry
      /\ AgentOf(w) # NoAgent
      /\ Mine \subseteq Entries
      /\ abandoned \subseteq abandoned'
  BY SubscriptionParts, AgentsAssumption, AbandonedForGood
     DEF Next, StrandInv, TypeOK, BusTypeOK, PendingTo, InStream
<1>1. CASE Generate(v)
  <2>1. CASE v = w
    BY <1>0, <1>1, <2>1, GeneratorInHand DEF StrandInv
  <2>2. CASE v # w
    <3>1. phase'[w] = phase[w] /\ batch'[w] = batch[w] /\ task'[w] = task[w]
      BY <1>0, <1>1, <2>2 DEF Generate, consumerVars, workerVars, GeneratorStep,
           EnsureGroup, ReclaimPending, ReadOwnPending, ReadNew, ReadFails,
           Watchdog, SkipUnparseable, Fetch, Raise, GoTo
    <3> QED BY <1>0, <1>1, <2>2, <3>1, OthersPending, KeepInHand DEF Holds
  <2> QED BY <2>1, <2>2
<1>2. CASE Leave(v)
  <2>1. phase'[w] \in {phase[w], "down"} /\ UNCHANGED <<redisVars, batch, task>>
    BY <1>0, <1>2 DEF Leave, GoTo, consumerVars, workerVars
  <2> QED BY <1>0, <2>1, KeepInHand DEF Holds, PendingTo, redisVars
<1>3. CASE Take(v)
  <2>1. UNCHANGED <<redisVars, phase>>
    BY <1>3 DEF Take, Yield
  <2>2. \A e \in Entries : Holds(w, e) => Holds(w, e)'
    BY <1>0, <1>3, NoEntryAssumption DEF Take, Yield, At, Holds
  <2> QED BY <1>0, <2>1, <2>2, KeepInHand DEF PendingTo, redisVars
<1>4. CASE Prepare(v) \/ Beat(v) \/ Execute(v) \/ Reply(v) \/ Record(v)
           \/ Finish(v) \/ PublishResult(v)
  <2>1. UNCHANGED <<redisVars, phase, batch, task>>
    BY <1>4 DEF Prepare, Beat, Execute, Reply, Record, Finish, PublishResult,
                LocalStep
  <2> QED BY <1>0, <2>1, KeepInHand DEF Holds, PendingTo, redisVars
<1>5. CASE Ack(v) \/ AckRetry(v)
  <2>0. task[v] \in Entries
    BY <1>5, TaskInHand DEF StrandInv, Ack, AckRetry, At
  <2>1. Mine' \subseteq Mine /\ (XAck(task[v]) => task[v] \notin Mine')
    BY <1>0, <1>5, <2>0
       DEF Ack, AckRetry, Lost, XAck, PendingTo, InStream, redisVars, RedisTypeOK,
           AgentOf, StreamIn
  <2>2. /\ phase'[w] \in {phase[w], "down"}
        /\ \/ task'[w] = task[w] /\ batch'[w] = batch[w]
           \/ XAck(task[v]) /\ w = v /\ batch'[w] = batch[w]
           \/ w = v /\ phase'[w] = "down"
    BY <1>0, <1>5 DEF Ack, AckRetry, Done, GoTo, Fetch
  <2>3. phase'[w] = phase[w] /\ phase[w] # "down" =>
          \A e \in Mine' : Holds(w, e) => Holds(w, e)'
    BY <2>1, <2>2 DEF Holds
  <2> QED BY <1>0, <2>1, <2>2, <2>3 DEF InHand, AgentOf, StreamIn
<1> QED
  BY <1>1, <1>2, <1>3, <1>4, <1>5 DEF Work, Process

LEMMA StrandStep ==
  ASSUME StrandInv, [Next]_vars, Cardinality(Entries) <= PelCount
  PROVE  StrandInv'
<1>1. TypeOK' /\ RedisTypeOK /\ PlacesApart'
  BY TypeStep, StepServer, PlacesStep DEF StrandInv, TypeOK, BusTypeOK
<1>2. ASSUME NEW w \in Subscriptions PROVE InHand(w)'
  <2> DEFINE Mine == PendingTo(AgentOf(w), StreamIn(w))
  <2>0. /\ InHand(w)
        /\ phase \in [Subscriptions -> Phases]
        /\ AgentOf(w) # NoAgent
        /\ abandoned \subseteq abandoned'
    BY SubscriptionParts, AgentsAssumption, AbandonedForGood
       DEF StrandInv, TypeOK, BusTypeOK
  <2>1. ASSUME NEW v \in Subscriptions, Work(v) PROVE InHand(w)'
    BY <2>1, WorkInHand
  <2>2. ASSUME NEW e \in Entries, Publish(e) \/ Elapse(e) PROVE InHand(w)'
    <3>1. UNCHANGED <<owner, phase, batch, task>>
      BY <2>2 DEF Publish, XAdd, Elapse, BecomeStale, busVars, consumerVars, workerVars
    <3> QED BY <2>0, <3>1, KeepInHand DEF Holds, PendingTo
  <2>3. ASSUME NEW s \in Streams, LoseStream(s) PROVE InHand(w)'
    <3>1. Mine' \subseteq Mine /\ UNCHANGED <<phase, batch, task>>
      BY <2>0, <2>3 DEF LoseStream, DataLoss, PendingTo, InStream, consumerVars,
                  workerVars, AgentOf, StreamIn
    <3> QED BY <2>0, <3>1, KeepInHand DEF Holds
  <2>4. ASSUME NEW a \in Agents,
               Start(a) \/ Stop(a) \/ Crash(a) \/ Cancel(a) \/ CloseBus(a)
        PROVE  InHand(w)'
    <3>1. /\ owner' = owner
          /\ \/ UNCHANGED <<phase, batch, task>>
             \/ phase'[w] \in {"restart", "down"}
             \/ phase'[w] = phase[w] /\ batch'[w] = batch[w] /\ task'[w] = task[w]
      <4>1. CASE Start(a)
        BY <2>0, <4>1 DEF Start, redisVars
      <4>2. CASE Stop(a) \/ CloseBus(a)
        BY <4>2 DEF Stop, CloseBus, Close, redisVars, consumerVars, workerVars
      <4>3. CASE Halt(a)
        <5>1. CASE w \in Workers(a)
          BY <4>3, <5>1 DEF Halt, DropGenerators, Workers, redisVars
        <5>2. CASE w \notin Workers(a)
          BY <4>3, <5>2 DEF Halt, DropGenerators, Workers, redisVars
        <5> QED BY <5>1, <5>2
      <4> QED BY <2>4, <4>1, <4>2, <4>3 DEF Crash, Cancel
    <3> QED BY <2>0, <3>1 DEF InHand, Holds, PendingTo, InStream, AgentOf, StreamIn
  <2>5. CASE UNCHANGED vars
    BY <2>0, <2>5, KeepInHand
       DEF Holds, PendingTo, vars, redisVars, busVars, consumerVars, workerVars
  <2> QED BY <2>1, <2>2, <2>3, <2>4, <2>5 DEF Next
<1> QED BY <1>1, <1>2 DEF StrandInv

\* When one history read returns a consumer's whole pending list, a worker in
\* the read loop has in memory everything that is pending to it, except the
\* entries of a read that was served while the watchdog ended it.
THEOREM NothingStranded ==
  ASSUME Cardinality(Entries) <= PelCount
  PROVE  Spec => []NoStranded
<1>1. Init => StrandInv
  BY TypeInit
     DEF StrandInv, PlacesApart, InHand, Init, ConsumerInit, BusInit, RedisInit
<1>2. StrandInv /\ [Next]_vars => StrandInv'
  BY StrandStep
<1>3. StrandInv => NoStranded
  BY DEF StrandInv, InHand, NoStranded, Stranded
<1> QED
  BY <1>1, <1>2, <1>3, PTL DEF Spec

=============================================================================
