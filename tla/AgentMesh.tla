------------------------------ MODULE AgentMesh ------------------------------
(***************************************************************************)
(* The mesh: dispatchers adding tasks to the streams, the Redis server,    *)
(* and agents that start, work, fail and start again.                      *)
(***************************************************************************)
EXTENDS TaskConsumer

\* The dispatcher publishes a task.
Publish(e) ==
  /\ XAdd(e)
  /\ UNCHANGED <<busVars, consumerVars>>

\* Time passes for a pending entry, which may well be in somebody's hands: a
\* task may take 45 minutes and a batch of ten is worked off one by one, while
\* claim_idle_ms is 30 seconds.
Elapse(e) ==
  /\ BecomeStale(e)
  /\ overdue' = IF \E w \in Subscriptions : Holds(w, e)
                THEN overdue \cup {e} ELSE overdue
  /\ UNCHANGED <<busVars, workerVars>>
  /\ UNCHANGED <<started, attempted, rejected, replied, results>>

LoseStream(s) ==
  /\ Fault("dataloss")
  /\ DataLoss(s)
  /\ UNCHANGED <<grouped, phase, batch, hollow, abandoned, consumerVars>>

CloseBus(a) ==
  /\ Close(a)
  /\ UNCHANGED consumerVars

Work(w) == Leave(w) \/ Generate(w) \/ Take(w) \/ Process(w)

Init == ConsumerInit

Next ==
  \/ \E e \in Entries : Publish(e) \/ Elapse(e)
  \/ \E s \in Streams : LoseStream(s)
  \/ \E a \in Agents : Start(a) \/ Stop(a) \/ Crash(a) \/ Cancel(a) \/ CloseBus(a)
  \/ \E w \in Subscriptions : Work(w)

Spec == Init /\ [][Next]_vars

\* The event loop runs every coroutine that can run, and the supervisor
\* (docker-compose.yml, restart: unless-stopped) starts an agent that is
\* down.  Faults, time and the dispatcher owe nothing.
Fairness ==
  /\ \A w \in Subscriptions : WF_vars(Work(w))
  /\ \A a \in Agents : WF_vars(Start(a))

FairSpec == Spec /\ Fairness

-----------------------------------------------------------------------------
(* Safety.                                                                 *)

\* The consumer group owes an entry: not delivered yet, or pending, or in a
\* stream whose group, created from id 0, will have it to read.
Owed(e) ==
  \/ e \in unread
  \/ owner[e] # NoAgent
  \/ e \in present /\ StreamOf[e] \notin group

\* The mesh implements the queue that owes every task until it is dealt with:
\* an entry stops being owed only after it was executed or rejected (or when
\* it is trimmed, lost with its stream, or unreadable), and an acknowledged
\* entry never comes back, not even when the group is created again.
Queue == INSTANCE AtLeastOnceQueue WITH
  Tasks <- Entries,
  Junk <- {e \in Entries : KindOf[e] = "garbled"},
  owed <- {e \in Entries : Owed(e)},
  attempted <- attempted \cup rejected,
  gone <- sent \ present

ImplementsQueue == Queue!QueueSpec

\* The worker took its task on: it called execute_fn, or will not.
Executing(w) ==
  pc[w] \in {"execute", "reply", "record", "finish", "publish", "ack", "ackretry"}

Lease == INSTANCE TaskLease WITH
  Tasks <- Entries,
  Holders <- Subscriptions,
  NoTask <- NoEntry,
  up <- {w \in Subscriptions : phase[w] # "down"},
  doing <- [w \in Subscriptions |-> IF Executing(w) THEN task[w] ELSE NoEntry],
  done <- acked

\* Pending entries are leases that run out after claim_idle_ms: unless a task
\* was held for longer, nobody begins what somebody works on, nor what was
\* acknowledged.  A coroutine that goes on has acknowledged what it did; one
\* that ends, by a crash, a cancellation or, once stopped, a last XACK that
\* fails (_ack_with_retries), leaves it to be begun again.
ImplementsLease == Lease!LeaseSpec

\* No task is lost between XADD and XACK: while its fields are in the
\* stream, an entry is owed to the group until it is acknowledged, whatever
\* crashes, lost answers and re-created groups come in between
\* (_ensure_group's id="0", reclaim and own-pending reads).
NoTaskLost == \A e \in present : Owed(e) \/ e \in acked

\* A task is acknowledged only after an execution of it came to its end, or
\* _process_task raised before there was one: at an invalid payload, or at the
\* first publishing of the heartbeat (the order of _process_task, and of
\* _consume_stream's handling of its exceptions).
AckAfterAttempt ==
  \A e \in acked \cap present :
    KindOf[e] = "garbled" \/ e \in attempted \/ e \in rejected

\* Two workers have the same entry in memory only if it once went idle for
\* claim_idle_ms in a live process: nothing else, no crash, restart, lost
\* answer or group created again, makes a task run twice at the same time.
MutualExclusion ==
  \A v, w \in Subscriptions : \A e \in Entries \ overdue :
    Holds(v, e) /\ Holds(w, e) => v = w

\* What a worker in the read loop does not have in memory, of what is pending
\* to it, waits for a restart: the loop never reads it again.
Stranded(w) ==
  {e \in PendingTo(AgentOf(w), StreamIn(w)) : phase[w] = "reading" /\ ~Holds(w, e)}

\* Only an entry of a read that the watchdog gave up is ever stranded (the
\* order reclaim, own pending, ">" of subscribe).
NoStranded == \A w \in Subscriptions : Stranded(w) \subseteq abandoned

\* The read loop goes on to read the entries that arrived while it timed out.
ArrivedAreRead == \A w \in Subscriptions : Stranded(w) = {}

\* An agent reports success only if it delivered the reply itself, where there
\* is a room to deliver it to and its channel can send; otherwise success says
\* nothing of a reply.
SuccessMeansReplied ==
  \A a \in Senders : \A e \in Roomed :
    <<a, e, "success">> \in results => <<a, e>> \in replied

\* A task that was acknowledged has a result on the results stream.
AckedHasResult ==
  \A e \in acked \cap present : KindOf[e] = "task" =>
    \E a \in Agents, s \in Statuses : <<a, e, s>> \in results

\* The heartbeat lists exactly the tasks the agent has in hand: none is
\* left listed after its task ended, none runs unlisted.
HeartbeatListsTasks ==
  \A a \in Agents : heartbeat[a] =
    {task[w] : w \in {v \in Workers(a) : InTry(v) \/ At(v, "beat")}}

\* A task is executed at most once ("exactly-once delivery").
AtMostOnce ==
  [][\A w \in Subscriptions :
       At(w, "beat") /\ pc'[w] = "execute" => task[w] \notin started]_vars

\* _ensure_group leaves with the group there.
GroupEnsured ==
  [][\A w \in Subscriptions :
       phase[w] = "restart" /\ phase'[w] = "claim" => StreamIn(w) \in group']_vars

\* A task that was started before is given to execute_fn as a resumed one.
ResumedIfStarted ==
  [][\A w \in Subscriptions :
       At(w, "idle") /\ pc'[w] = "prepare" /\ task'[w] \in started
         => Resumed(w)]_vars

-----------------------------------------------------------------------------
(* Liveness.                                                               *)

\* Every published task is acknowledged in the end, unless it is trimmed or
\* the watchdog gave up the read of it.
EveryTaskDone ==
  \A e \in Entries : e \in sent ~> e \in acked \/ e \notin present \/ e \in abandoned

=============================================================================
