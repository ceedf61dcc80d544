----------------------------- MODULE TaskConsumer -----------------------------
(***************************************************************************)
(* TaskConsumer (consumer.py) on top of the bus: start() runs one          *)
(* coroutine _consume_stream per stream of the agent, and each of them     *)
(* takes envelopes from its generator and runs _process_task on them, one  *)
(* at a time.  A worker is a coroutine, named by its subscription.  Where  *)
(* it is in _process_task:                                                 *)
(*                                                                         *)
(*   "idle"      waiting for the next envelope                             *)
(*   "prepare"   parsing the payload, building the prompt                  *)
(*   "beat"      task listed in the heartbeat, heartbeat being published   *)
(*   "execute"   execute_fn runs under the task timeout                    *)
(*   "reply"     a response to deliver to the channel                      *)
(*   "record"    reply sent: affinity, reactions, session context          *)
(*   "finish"    the finally block: heartbeat                              *)
(*   "publish"   the result goes to the results stream                     *)
(*   "ack"       XACK                                                      *)
(*   "ackretry"  _ack_with_retries, after _process_task raised             *)
(*                                                                         *)
(* Every await between two of these is where other coroutines run and      *)
(* where the process may stop.  Activity updates are left out: they never  *)
(* raise and nothing reads them.                                           *)
(***************************************************************************)
EXTENDS RedisStreamBus

CONSTANTS
  NoEntry,
  Roomed,   \* entries whose payload has a room_id
  Senders   \* agents whose channel has a send method

ASSUME NoEntryAssumption == NoEntry \notin Entries
ASSUME RepliesAssumption == Roomed \subseteq Entries /\ Senders \subseteq Agents

VARIABLES
  running,    \* _running of each agent's consumer
  pc,         \* where each worker is
  task,       \* the entry it was given
  status,     \* status of the TaskResult it is building
  heartbeat,  \* tasks each agent's heartbeat lists (add_task, remove_task)
  started,    \* entries execute_fn was ever called for
  attempted,  \* entries an execution of which came to its end
  rejected,   \* entries the processing of which raised before execute_fn
  replied,    \* <<agent, entry>>: the agent's reply was delivered
  results,    \* <<agent, entry, status>> published to the results stream
  overdue     \* entries that went idle for claim_idle_ms in a live process

workerVars == <<running, pc, task, status, heartbeat>>
outcomeVars == <<started, attempted, rejected, replied, results, overdue>>
consumerVars == <<workerVars, outcomeVars>>
vars == <<redisVars, busVars, consumerVars>>

Steps == {"idle", "prepare", "beat", "execute", "reply", "record", "finish",
          "publish", "ack", "ackretry"}
Statuses == {"success", "failure"}

TypeOK ==
  /\ BusTypeOK
  /\ running \in [Agents -> BOOLEAN]
  /\ pc \in [Subscriptions -> Steps]
  /\ task \in [Subscriptions -> Entries \cup {NoEntry}]
  /\ \A w \in Subscriptions : pc[w] = "idle" <=> task[w] = NoEntry
  /\ status \in [Subscriptions -> Statuses]
  /\ heartbeat \in [Agents -> SUBSET Entries]
  /\ started \subseteq Entries
  /\ attempted \subseteq Entries
  /\ rejected \subseteq Entries
  /\ replied \subseteq Agents \X Entries
  /\ results \subseteq Agents \X Entries \X Statuses
  /\ overdue \subseteq Entries

ConsumerInit ==
  /\ BusInit
  /\ running = [a \in Agents |-> FALSE]
  /\ pc = [w \in Subscriptions |-> "idle"]
  /\ task = [w \in Subscriptions |-> NoEntry]
  /\ status = [w \in Subscriptions |-> "failure"]
  /\ heartbeat = [a \in Agents |-> {}]
  /\ started = {}
  /\ attempted = {}
  /\ rejected = {}
  /\ replied = {}
  /\ results = {}
  /\ overdue = {}

Workers(a) == {w \in Subscriptions : AgentOf(w) = a}

\* What a worker has in memory: the batch of its generator and its task.
Holds(w, e) == e \in batch[w] \/ task[w] = e

At(w, step) == pc[w] = step
Goto(w, step) == pc' = [pc EXCEPT ![w] = step]

\* A step that only talks to things that are not the task streams.
LocalStep == UNCHANGED <<redisVars, grouped, phase, batch, hollow, abandoned>>

-----------------------------------------------------------------------------
(* The coroutine of a stream, _consume_stream.                             *)

\* start(): called when no coroutine of an earlier start() is left.
Start(a) ==
  /\ \A w \in Workers(a) : phase[w] = "down"
  /\ running' = [running EXCEPT ![a] = TRUE]
  /\ phase' = [w \in Subscriptions |->
                 IF w \in Workers(a) THEN "restart" ELSE phase[w]]
  /\ UNCHANGED <<redisVars, grouped, batch, hollow, abandoned, faults>>
  /\ UNCHANGED <<pc, task, status, heartbeat, outcomeVars>>

\* stop() only clears the flag.
Stop(a) ==
  /\ running[a]
  /\ Fault("stop")
  /\ running' = [running EXCEPT ![a] = FALSE]
  /\ UNCHANGED <<redisVars, grouped, phase, batch, hollow, abandoned>>
  /\ UNCHANGED <<pc, task, status, heartbeat, outcomeVars>>

\* The loop of _consume_stream ends instead of subscribing again.
Leave(w) ==
  /\ ~running[AgentOf(w)]
  /\ phase[w] = "restart"
  /\ GoTo(w, "down")
  /\ UNCHANGED <<redisVars, grouped, batch, hollow, abandoned, faults, consumerVars>>

\* A step of the generator the worker is waiting on.  Subscribing again is
\* for running consumers.
Generate(w) ==
  /\ At(w, "idle")
  /\ phase[w] = "restart" => running[AgentOf(w)]
  /\ GeneratorStep(w)
  /\ UNCHANGED consumerVars

\* The next envelope: nothing here looks at running.
Take(w) ==
  /\ At(w, "idle")
  /\ \E e \in Entries :
       /\ Yield(w, e)
       /\ task' = [task EXCEPT ![w] = e]
  /\ Goto(w, "prepare")
  /\ UNCHANGED <<running, status, heartbeat, outcomeVars>>

-----------------------------------------------------------------------------
(* _process_task.                                                          *)

\* A payload that does not validate raises; otherwise the task is listed in
\* the heartbeat.
Prepare(w) ==
  LET a == AgentOf(w) e == task[w] IN
  /\ At(w, "prepare")
  /\ \/ /\ KindOf[e] = "badjson"
        /\ Goto(w, "ackretry")
        /\ rejected' = rejected \cup {e}
        /\ UNCHANGED heartbeat
     \/ /\ KindOf[e] # "badjson"
        /\ Goto(w, "beat")
        /\ heartbeat' = [heartbeat EXCEPT ![a] = @ \cup {e}]
        /\ UNCHANGED rejected
  /\ LocalStep
  /\ UNCHANGED <<faults, running, task, status, started, attempted, replied, results, overdue>>

\* The heartbeat is published outside the try block: if that raises, so does
\* _process_task, before execute_fn is called.
Beat(w) ==
  LET e == task[w] IN
  /\ At(w, "beat")
  /\ \/ /\ Goto(w, "execute")
        /\ started' = started \cup {e}
        /\ UNCHANGED <<faults, rejected>>
     \/ /\ Fault("heartbeat")
        /\ Goto(w, "ackretry")
        /\ rejected' = rejected \cup {e}
        /\ UNCHANGED started
  /\ LocalStep
  /\ UNCHANGED <<running, task, status, heartbeat, attempted, replied, results, overdue>>

\* Defect: what execute_fn raises leaves _process_task.
ExecuteUncaught(w) ==
  /\ At(w, "execute")
  /\ \/ /\ Goto(w, "reply")
        /\ UNCHANGED attempted
     \/ /\ Goto(w, "ackretry")
        /\ attempted' = attempted \cup {task[w]}
  /\ LocalStep
  /\ UNCHANGED <<faults, running, task, status, heartbeat>>
  /\ UNCHANGED <<started, rejected, replied, results, overdue>>

\* execute_fn ends with a response, or with none, an API error, an exception
\* or the timeout: the last four build a failure result.
Execute(w) ==
  /\ At(w, "execute")
  /\ \/ /\ Goto(w, "reply")
        /\ UNCHANGED <<status, attempted>>
     \/ /\ Goto(w, "finish")
        /\ status' = [status EXCEPT ![w] = "failure"]
        /\ attempted' = attempted \cup {task[w]}
  /\ LocalStep
  /\ UNCHANGED <<faults, running, task, heartbeat>>
  /\ UNCHANGED <<started, rejected, replied, results, overdue>>

\* A reply goes to the payload's room, if it has one and the channel can send.
Replies(w) == task[w] \in Roomed /\ AgentOf(w) \in Senders

\* Defect: what the channel raises is ignored.
ReplyUnchecked(w) ==
  /\ At(w, "reply")
  /\ Goto(w, "record")
  /\ \/ /\ Replies(w)
        /\ replied' = replied \cup {<<AgentOf(w), task[w]>>}
        /\ UNCHANGED faults
     \/ /\ ~Replies(w)
        /\ UNCHANGED <<faults, replied>>
     \/ /\ Replies(w)
        /\ Fault("channel")
        /\ UNCHANGED replied
  /\ LocalStep
  /\ UNCHANGED <<running, task, status, heartbeat>>
  /\ UNCHANGED <<started, attempted, rejected, results, overdue>>

\* _deliver_reply, or none to deliver; a channel that raises makes the task a
\* failure, whether or not the message got through.
Reply(w) ==
  LET delivered == replied \cup {<<AgentOf(w), task[w]>>} IN
  /\ At(w, "reply")
  /\ \/ /\ ~Replies(w)
        /\ Goto(w, "record")
        /\ UNCHANGED <<faults, replied, status, attempted>>
     \/ /\ Replies(w)
        /\ Goto(w, "record")
        /\ replied' = delivered
        /\ UNCHANGED <<faults, status, attempted>>
     \/ /\ Replies(w)
        /\ Fault("channel")
        /\ Goto(w, "finish")
        /\ replied' \in {replied, delivered}
        /\ status' = [status EXCEPT ![w] = "failure"]
        /\ attempted' = attempted \cup {task[w]}
  /\ LocalStep
  /\ UNCHANGED <<running, task, heartbeat, started, rejected, results, overdue>>

\* In the same try block, affinity and reactions, for a payload with a room,
\* and the session context, which never raises.
Record(w) ==
  /\ At(w, "record")
  /\ Goto(w, "finish")
  /\ attempted' = attempted \cup {task[w]}
  /\ \/ /\ status' = [status EXCEPT ![w] = "success"]
        /\ UNCHANGED faults
     \/ /\ task[w] \in Roomed
        /\ Fault("channel")
        /\ status' = [status EXCEPT ![w] = "failure"]
  /\ LocalStep
  /\ UNCHANGED <<running, task, heartbeat>>
  /\ UNCHANGED <<started, rejected, replied, results, overdue>>

\* Defect: no finally block.
FinishListed(w) ==
  /\ At(w, "finish")
  /\ Goto(w, "publish")
  /\ LocalStep
  /\ UNCHANGED <<faults, running, task, status, heartbeat, outcomeVars>>

\* finally: the task leaves the heartbeat, which is published; if that
\* raises, the result just built is dropped.
Finish(w) ==
  LET a == AgentOf(w) IN
  /\ At(w, "finish")
  /\ heartbeat' = [heartbeat EXCEPT ![a] = @ \ {task[w]}]
  /\ \/ /\ Goto(w, "publish")
        /\ UNCHANGED faults
     \/ /\ Fault("heartbeat")
        /\ Goto(w, "ackretry")
  /\ LocalStep
  /\ UNCHANGED <<running, task, status, outcomeVars>>

\* The result is published; a failure to do so is logged and ignored.
PublishResult(w) ==
  LET outcome == <<AgentOf(w), task[w], status[w]>> IN
  /\ At(w, "publish")
  /\ \/ /\ results' = results \cup {outcome}
        /\ UNCHANGED faults
     \/ /\ Fault("publish")
        /\ results' \in {results, results \cup {outcome}}
  /\ Goto(w, "ack")
  /\ LocalStep
  /\ UNCHANGED <<running, task, status, heartbeat>>
  /\ UNCHANGED <<started, attempted, rejected, replied, overdue>>

\* Defect: the worker keeps its task.
DoneKeepingTask(w) ==
  /\ Goto(w, "idle")
  /\ status' = [status EXCEPT ![w] = "failure"]
  /\ UNCHANGED task

\* The task is over and the worker waits for its next envelope.
Done(w) ==
  /\ Goto(w, "idle")
  /\ task' = [task EXCEPT ![w] = NoEntry]
  /\ status' = [status EXCEPT ![w] = "failure"]

\* Defect: a failed ack() is left to the next subscription.
AckOrResubscribe(w) ==
  /\ At(w, "ack")
  /\ Done(w)
  /\ \/ /\ XAck(task[w])
        /\ UNCHANGED <<phase, batch, hollow, faults>>
     \/ /\ Fault("ack")
        /\ Lost(XAck(task[w]))
        /\ Raise(w)
  /\ UNCHANGED <<grouped, abandoned, running, heartbeat, outcomeVars>>

\* ack() at the end of _process_task: if it raises, _consume_stream tries
\* again in _ack_with_retries.
Ack(w) ==
  /\ At(w, "ack")
  /\ \/ /\ XAck(task[w])
        /\ Done(w)
        /\ UNCHANGED faults
     \/ /\ Fault("ack")
        /\ Lost(XAck(task[w]))
        /\ Goto(w, "ackretry")
        /\ UNCHANGED <<task, status>>
  /\ UNCHANGED <<grouped, phase, batch, hollow, abandoned>>
  /\ UNCHANGED <<running, heartbeat, outcomeVars>>

\* _ack_with_retries: again and again while running; once the consumer is
\* stopped, one last time, and a failure then ends the coroutine.
AckRetry(w) ==
  /\ At(w, "ackretry")
  /\ \/ /\ XAck(task[w])
        /\ Done(w)
        /\ UNCHANGED <<phase, batch, hollow, faults>>
     \/ /\ running[AgentOf(w)]
        /\ Fault("ack")
        /\ Lost(XAck(task[w]))
        /\ UNCHANGED <<pc, task, status, phase, batch, hollow>>
     \/ /\ ~running[AgentOf(w)]
        /\ Fault("ack")
        /\ Lost(XAck(task[w]))
        /\ Done(w)
        /\ GoTo(w, "down")
        /\ Fetch(w, {}, {})
  /\ UNCHANGED <<grouped, abandoned, running, heartbeat, outcomeVars>>

Process(w) ==
  Prepare(w) \/ Beat(w) \/ Execute(w) \/ Reply(w) \/ Record(w) \/ Finish(w)
  \/ PublishResult(w) \/ Ack(w) \/ AckRetry(w)

-----------------------------------------------------------------------------
(* The end of a process.                                                   *)

Halt(a) ==
  /\ \E w \in Workers(a) : phase[w] # "down"
  /\ DropGenerators(a)
  /\ running' = [running EXCEPT ![a] = FALSE]
  /\ pc' = [w \in Subscriptions |-> IF w \in Workers(a) THEN "idle" ELSE pc[w]]
  /\ task' = [w \in Subscriptions |->
                IF w \in Workers(a) THEN NoEntry ELSE task[w]]
  /\ status' = [w \in Subscriptions |->
                  IF w \in Workers(a) THEN "failure" ELSE status[w]]
  /\ UNCHANGED <<redisVars, abandoned, outcomeVars>>

\* The process dies: its memory goes, the bus object's included.
Crash(a) ==
  /\ Fault("crash")
  /\ Halt(a)
  /\ grouped' = [grouped EXCEPT ![a] = {}]
  /\ heartbeat' = [heartbeat EXCEPT ![a] = {}]

\* Inside the try block: cancelled there, the finally block still runs.
InTry(w) == pc[w] \in {"execute", "reply", "record", "finish"}

\* start() is cancelled and takes every coroutine with it.
Cancel(a) ==
  /\ Fault("cancel")
  /\ Halt(a)
  /\ heartbeat' = [heartbeat EXCEPT
       ![a] = @ \ {task[w] : w \in {v \in Workers(a) : InTry(v)}}]
  /\ UNCHANGED grouped

=============================================================================
