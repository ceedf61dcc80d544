# Verification of cortex-runtime

TLA+ models of the parts of cortex-runtime that keep state and run
concurrently, the TLC configurations that check them on small instances, and
machine-checked proofs of every safety property those configurations check.
Everything is written from the source under `src/src/cortex_runtime`; where a
document or a comment says otherwise the code was followed and the difference
is a finding (last section but one).

## The system

| Part | State | Operations | Talks to |
|------|-------|------------|----------|
| Redis server (external) | streams, one consumer group with its pending list and idle times | XADD, XGROUP CREATE, XREADGROUP, XAUTOCLAIM, XACK | - |
| `RedisStreamBus` (`bus_redis.py`) | connection, `_groups_created`, a generator per subscription | `publish`, `subscribe`, `ack`, `close`, `health` | Redis |
| `TaskConsumer` (`consumer.py`) | `_running`, a coroutine per stream, the task in hand, the heartbeat's task list | `start`, `stop`, `_consume_stream`, `_process_task`, `_ack_with_retries` | bus, execute_fn, reply channel, heartbeat, context runtime |
| `TaskDispatcher` (`dispatch.py`) | none of its own | `dispatch` (target, payload, publish, mark) | channel, agent registry, affinity store, context runtime, bus, response tracker |
| `ContextRuntime` (`context_runtime.py`) | none of its own | `prepare_payload`, `build_prompt`, `record_assistant_response` | session manager, session store |
| `SessionManager` (`session/manager.py`) | a cache of domain contexts | `get_or_create`, `record_message`, `record_response`, `touch`, `close`, `get_context_for_prompt`, `load_domain_memory`, `update_domain_activity`, `invalidate_domain_cache` | session store (a protocol), domain resolver |
| `PluginRegistry` (`plugins/registry.py`) | `_plugins`, `_pending_setup`, `_plugin_info`, `_loading`, the broker | discovery, `load_plugin`, `ensure_ready`, `setup_all_pending`, `execute`, `health_all`, `unload_plugin`, `shutdown` | plugins |
| Tool executor (`providers/tool_executor.py`) | none | `execute_tool_calls` | plugin registry |
| Redis key names (`redis_keys.py`) | none | names of streams and keys, of an org and of the fleet | - |
| Domains (`models.py`) | none | the departments, parsing and coercion | - |
| Memory files, prompt utilities, environment | none | reading and formatting | - |

What is hard in it:

* The mesh is an at-least-once queue built from a server, generators that hold
  a batch in memory, and consumers that can die between any two awaits. A
  command whose answer is lost may have had its effect. Everything depends on
  the order of the three phases of `subscribe` (reclaim, own pending entries,
  new entries) and on when an entry is acknowledged.
* Several agents share a group, and the only thing that keeps XAUTOCLAIM from
  an entry somebody is working on is its idle time, which counts from its
  delivery: 30 seconds by default (`models.py:148`), where a task may take 45
  minutes (`consumer.py:305`) and a batch of ten is worked off one by one.
* `_process_task` calls five things that can raise (heartbeat, execute_fn,
  channel, results stream, acknowledgement), some inside its try block, some in
  `finally`, some outside.
* The registry, the session manager and the context runtime are coroutines of
  one event loop: what they read before an `await` may be stale after it, and
  they may be cancelled there.
* Session objects are written back whole, and domain contexts are cached for
  ever.
* Several orgs use one Redis server, with agents, threads and messages of the
  same names; only the names of keys keep them apart.

`PROJECT.json` lists these hazards one by one at their lines, with the
properties that would catch each going wrong.

## Modules

The mesh, each module extending the one before:

| Module | Models | Correspondence |
|--------|--------|----------------|
| `RedisStream` | the server | one operator per command; `owner` is the pending list, `stale` the entries idle for `claim_idle_ms` |
| `RedisStreamBus` | `subscribe`, `_ensure_group`, `_reclaim_pending`, `_read_own_pending`, `_parse_message`, `close` | a generator per `<<agent, stream>>` with a `phase` and the `batch` it has fetched and not yet yielded |
| `TaskConsumer` | `start`, `stop`, `_consume_stream`, `_process_task`, `_ack_with_retries`, and the end of a process | `pc` is where the worker of a stream awaits; one action between two awaits. `Roomed` are the tasks with a `room_id`, `Senders` the agents whose channel can send; `rejected` are the entries for which `_process_task` raised before `execute_fn` |
| `AgentMesh` | dispatchers that publish, time, data loss, and all of the above together | the specification, its properties and its fairness; `overdue` are the entries that were idle for `claim_idle_ms` while a live process had them |
| `AtLeastOnceQueue` | the abstract queue: tasks are added, owed, attempted and dealt with | refined by `AgentMesh` (`Queue == INSTANCE AtLeastOnceQueue WITH ...`) |
| `TaskLease` | what a worker with a task can rely on: unless the task was held for too long, nobody else begins it meanwhile, or at all once it is done; and a worker that lives drops no task | refined by `AgentMesh` (`Lease == INSTANCE TaskLease WITH ...`); a task is leased to the worker that is executing, reporting or acknowledging it |
| `MCAgentMesh` | - | small meshes |

The registry:

| Module | Models | Correspondence |
|--------|--------|----------------|
| `PluginRegistry` | every operation of `registry.py` that changes state, and `execute_tool_calls()` | coroutines that give way only where a plugin method is awaited, and may be cancelled there (`Cancel`): `baton` is the one that runs between two awaits |
| `PluginLife` | the life the registry gives an instance of the `ServicePlugin` protocol: which method may be called when | refined by `PluginRegistry` (`Life == INSTANCE PluginLife WITH ...`); a call under way is a coroutine that awaits it |
| `MCPluginRegistry` | - | two coroutines, two plugin names, four instances |

Conversations:

| Module | Models | Correspondence |
|--------|--------|----------------|
| `Domains` | the departments, `Domain.parse`, `_coerce_domain`, `_parse_domain` | functions on names |
| `SessionStore` | the session store, from its protocol and its use | one operator per call; `update` replaces the whole object |
| `ContextRuntime` | `prepare_payload`, `build_prompt`, `record_assistant_response`, and the `SessionManager` operations they call, `touch` and `close` | one action per awaited store call; `session`, `held` and `kept` are the copies held meanwhile; `stamped` is the `context_version` of the payload returned, `version` that of a prompt |
| `Conversations` | the payload, publishing and marking of `dispatch()` around it, and agents executing what was published | `disp` is where a dispatch awaits |
| `Dialogue` | the abstract conversation: history, message, task, answer and turn, in the order they may come | refined by `Conversations` (`Talk == INSTANCE Dialogue WITH ...`) |
| `MCConversations` | - | two messages of one thread, with different histories |
| `SessionManager` | `get_or_create` used directly, with its domain resolution and synthetic threads, the cache of domain contexts and what invalidates it | `pc` is the await a caller is at; `Expire` is the hour after which the store forgets a synthetic thread |
| `MCSessionManager` | - | two callers, requests with and without threads, good and bad domains |

Routing:

| Module | Models | Correspondence |
|--------|--------|----------------|
| `Keyspace` | every name of `redis_keys.py`, and the prefix `bus_redis.py` puts before a stream | a name is the sequence of its segments |
| `Routing` | `_resolve_target` (mention, direct message, thread affinity, domain), the stream it is published on, the streams an agent reads, and its claim of the thread | built on `Keyspace`: an affinity or a stream is found under its name, whoever made it |
| `OneOrg` | an org's part of `Routing`: its agents, its messages and the names its keys have | `Routing` by itself, restricted to any one org, is implemented by `Routing` (`Alone == INSTANCE Routing WITH ...`) |
| `MCRouting` | - | the fleet and an org with the same agent, message and thread names |

Proofs: `AgentMesh_proofs`, `Ownership_proofs` and `Outcome_proofs` for the
mesh, `PluginRegistry_proofs`, `Conversations_proofs`, `SessionManager_proofs`,
`Keyspace_proofs` and `Routing_proofs`, each extending the module it is about
(see Proofs).

The mesh does not contain the conversations or the routing: they meet in the
published set. `Conversations` lets an agent execute a payload any number of
times, as `AgentMesh` does with an entry; `Routing` gives each entry to one
reader of its stream, and `AgentMesh` says what becomes of it there.
`ContextRuntime` always passes a thread id to `get_or_create`, so synthetic
threads concern only those who use `SessionManager` by itself, which is why the
two have a specification each.

A definition marked `Defect:` is not part of any specification. It is the form
a definition would have with a plausible bug; substituted for it, the property
named with it in `PROJECT.json` fails. That is how every property was tested.

## Abstractions

* An entry is its id. What it holds is its kind: a task, fields that parse
  with a payload that does not (`badjson`), or fields that do not parse.
* A call to the server, the heartbeat, the channel or the store that fails is a
  fault, taken from `FaultKinds` and counted up to `MaxFaults`. A failed call
  may have had its effect or not. The retries that redis-py makes inside one
  call are not modelled; a retried read whose first answer was lost has the
  effect of the `watchdog` fault.
* `execute_fn` ends with a response or without; an empty response, an error
  text, an exception and the timeout all lead to a failure result.
* A pending entry goes idle for `claim_idle_ms` at any time, whoever has it.
  How long anything takes is not modelled.
* `close()` of a bus in use is counted with the faults, since it breaks the
  calls under way.
* Agent-activity updates are best effort and keep no state: left out. So are
  logging, texts, durations and costs.
* Restart delays are not modelled: a worker in `restart` subscribes when it is
  scheduled.
* In the registry the name of an entry point is the name of its plugin, and an
  instance is of one registry; a second instance, or the same one again, may be
  given to `load_plugin` with a broker of its own. Actions are not told apart;
  an action, a health report and their errors change nothing. While `health_all`
  iterates, only the number of plugins matters (that is what the iterator
  tests), and a name deleted and added again is not visited twice.
* Nobody calls a registry any more once `shutdown()` was called; the calls
  under way go on.
* A tool call is its plugin's name, or `None` when its name has no separator; a
  result is whether it is an error.
* In conversations the tiers of a transcript are one set of lines, and sessions
  are not deleted. A history line is blank, the message itself, or a line.
* A domain context is the set of recent topics it has and whether its read
  succeeded. A topic is updated once.
* The agent registry and the affinity store are given to the dispatcher from
  outside `src/`; registrations change and affinities expire in `Routing` at any
  time and without bound. A task may end there without a reply, and a claim may
  fail; what other failures do to it is in `AgentMesh` and `Conversations`.
* A name is a tuple of segments, so two names are equal when their segments
  are. Segments that themselves contain the separator are left out.

## Runs

| Run | Module | Instance | Checks |
|-----|--------|----------|--------|
| `pair` | `MCAgentMesh` | two agents, one of them without a channel that sends, one stream, three entries (a task in a room, an invalid payload, a garbled entry), MAXLEN 2, any one fault of any kind, and `claim_idle_ms` passing at any time | `TypeOK`, `NoTaskLost`, `AckAfterAttempt`, `MutualExclusion`, `NoStranded`, `SuccessMeansReplied`, and that the mesh implements the abstract queue and gives leases (`ImplementsQueue`, `ImplementsLease`) |
| `progress` | `MCAgentMesh` | one agent with two streams and a task on each, two faults (fetch, watchdog, ack, crash), fairness | `AckedHasResult`, `HeartbeatListsTasks`, `EveryTaskDone` |
| `registry` | `MCPluginRegistry` | two coroutines, four instances of two plugins, one of them given to `load_plugin` and one that cannot list its actions, one batch of three tool calls, all operations; setup and teardown may raise, and a coroutine may be cancelled at any await | `TypeOK`, `LoadingInProgress`, `LoadedHasInfo`, `OneState`, `InfoIsKnown`, `SetupOnce`, `ActionsOnReady`, `ToolResults`, and that the registry gives its instances the life of `PluginLife` (`ImplementsLife`) |
| `conversations` | `MCConversations` | two messages of one thread, two session ids, two lines of history, one execution each, any one call failing, fairness | `TypeOK`, `AnsweredWasRecorded`, `TurnsAreAnswers`, `SeededFirst`, `VersionIsShown`, `MarkedIsPublished`, `NeverBlocked`, and that the conversations implement the dialogue (`ImplementsDialogue`) |
| `sessions` | `MCSessionManager` | two callers, four session ids, six requests, two topics of which one is kept, four calls, one fault or expiry | `TypeOK`, `OwnConversation`, `FewThreads`, `FewSessions`, `FreshCache` |
| `routing` | `MCRouting` | the fleet with one agent and an org with two, four messages, registrations that change and affinities that expire at any time | `TypeOK`, `OwnOrgOnly`, `AffinityAnswered`, `ToReader`, `DirectToAddressee`, and that each org has a server of its own (`RoutesAlone`) |

The runs that find a disagreement (`exactly_once`, `watchdog`, `regroup`,
`resumed`, `registry_health`, `bootstrap`) are described under Findings.

What they show:

* **Nothing is lost** (`NoTaskLost`, `NoStranded`): while the fields of an
  entry are in the stream, the group owes it or it was acknowledged; and an
  agent in its read loop has every entry pending to it in memory, but for those
  of a read that the watchdog gave up when the server had served it (the run
  `watchdog`). The second is what makes the first worth something, because the
  read loop never looks at the pending list.
* **Acknowledged means attempted** (`AckAfterAttempt`), with two exceptions that
  the property names: `_process_task` raised at an invalid payload, or at the
  first publishing of the heartbeat, before `execute_fn` was called. The second
  acknowledges a task nobody executed (`consumer.py:449`). On a mesh without
  heartbeat and result faults an acknowledged task has a result
  (`AckedHasResult`). A failing heartbeat in `finally`, or a failing results
  stream, does lose the result: the code logs it and goes on, so the run leaves
  those two faults out.
* **Only time lets two agents have one task** (`MutualExclusion`): an entry is
  in two memories only if it was idle for `claim_idle_ms` in a live process. No
  crash, restart, lost answer or re-created group does it. That time does it in
  ordinary operation is the finding of `exactly_once`.
* **A task is leased** (`ImplementsLease`): unless it was held for too long, a
  task that somebody executes, reports or acknowledges is begun by nobody else,
  and one that is acknowledged by nobody again. A worker that lives never drops
  a task it has not acknowledged; only the end of its coroutine does: a crash, a
  cancellation, or, after `stop()`, the failing last try of `_ack_with_retries`.
* **A success result means the reply went out** (`SuccessMeansReplied`), by the
  agent that reports it, for a task with a `room_id` and an agent whose channel
  can send. Without either the code reports success with no reply
  (`consumer.py:510`, `:139`). The other way round does not hold: a reply
  followed by a failing reaction is reported as a failure.
* **The heartbeat lists what is in hand** (`HeartbeatListsTasks`), for streams
  worked concurrently. The heartbeat's own first publish, outside the try
  block, breaks it when it raises, and so does a cancellation there.
* **Every task is dealt with in the end** (`EveryTaskDone`), after any of the
  faults of the run, unless the watchdog abandoned it.
* **The registry** sets an instance it discovered up once, and again only after
  a cancellation (`SetupOnce`), never leaves a name marked as loading
  (`LoadingInProgress`), runs actions on set-up instances only
  (`ActionsOnReady`) and keeps its dictionaries consistent at every await
  (`LoadedHasInfo`, `OneState`, `InfoIsKnown`). The last three are about names
  nobody calls `load_plugin` for: when a discovered instance of such a name
  fails its setup it takes the loaded one's `PluginInfo` with it. An instance
  whose `list_actions()` raised has none to begin with.
* **An instance lives as `PluginLife` says** (`ImplementsLife`): no action,
  `health()` or `teardown()` before its `setup()` returned and its
  `list_actions()` was called, and none begun after a `teardown()` returned,
  whatever coroutines do to the registry meanwhile and wherever they are
  cancelled. Methods called before may still be running during `teardown()`,
  and two unloads may call it twice. Where the protocol's order is not kept,
  `PluginLife` says so: a discovered instance lists its actions before its
  `setup()`, a cancelled `setup()` is repeated, and an instance given to
  `load_plugin` twice is set up twice (see Findings).
* **Every tool call has its result** (`ToolResults`), in order, whatever the
  plugins and the other coroutines do.
* **Conversations**: an answer in a session has its question there
  (`AnsweredWasRecorded`), `turn_count` counts no answer that is not there
  although updates can be lost (`TurnsAreAnswers`), a half-seeded session gets
  no message before an answer (`SeededFirst`), a prompt rendered from the
  session shows every turn its version counts, and one that could not be
  rendered goes with the payload's version, which counts no turn the session
  does not have (`VersionIsShown`), `mark_responded` follows the stream
  (`MarkedIsPublished`), and `dispatch()` always gets past `prepare_payload`
  (`NeverBlocked`). `ImplementsDialogue` ties the ends together: the session a
  task carries has the message of the task, an execution answers once, and it
  answers in the session of a task that was published.
* **The session manager** serves nobody a session of another domain, thread or
  sender (`OwnConversation`). Looking up and creating are two awaits, so
  conversations can split; `FewThreads` and `FewSessions` say how far. The
  cached domain context has every recent topic whose update returned, but for
  what a load under way at that time missed (`FreshCache`): that stays missing
  until the next update, because the cache has no expiry.
* **Routing** keeps work in its org (`OwnOrgOnly`) with the same names in use in
  another, gives a thread to an agent that answered in it (`AffinityAnswered`),
  puts a task only where the agent it names reads, unless the registry names one
  for a domain it does not consume (`ToReader`), and lets an agent a message
  addresses answer it, unless that agent left the registry
  (`DirectToAddressee`). What an org sees of the server is a server of its own
  (`RoutesAlone`): no step of another org changes it, and none of its own
  depends on another.

### Bounds

Two agents are enough for every interference over a group: one that holds an
entry and one that takes it over; a third adds no new pair. Three entries make
batches of two with one left, a trimmed prefix and one entry of each kind.
MAXLEN 2 with three entries trims unread, pending and batched entries. COUNT is
2 for new entries, so a read can leave some; the pending list always fits its
COUNT of 3, which is what 100 stands for (an agent with more than 100 pending
entries on a stream does not read them all; `NoStranded` then fails, and the
theorem states the assumption). In `pair` the passing of `claim_idle_ms` is no
fault and may come again and again; one fault beside it makes 1.7 million
states. `progress` has two, a failure during the recovery from another one, for
one agent, which reclaims its own entries after a restart; entries reclaimed
from a colleague are in `pair`, for safety only. Ids, faults, executions and
instances are the only unbounded quantities, and all are bounded
by constants.

In `registry` two coroutines are one that awaits and one that interferes; two
instances of a discovered name are the one that fails or is unloaded and the
one that follows it. In `conversations` one fault and one execution per message
keep two concurrent messages checkable with fairness. In `sessions` four calls
make two conversations that interleave and still an update around a load, and a
limit of one recent topic lets the second topic push the first out. In
`routing` the fleet and one org, with names in common, are the two keyspaces
that can meet; an agent can leave and an affinity expire between lookup and use
and the thread be claimed again, as often as there are messages.

Callers are a symmetry set in the registry runs; the other runs use none, since
their agents differ or they check liveness. What the bounds leave open for the
safety properties, the proofs below settle: they hold for all values of the
constants.

### Fairness

`AgentMesh` assumes weak fairness of each worker's steps, which is the event
loop's scheduling of a coroutine that can run, and of `Start` for each agent:
`docker-compose.yml` restarts a container that ended (`restart:
unless-stopped`). No fairness on faults, time or publishing. `stop` is not a
fault of the `progress` run: a stopped agent may leave one stream, and not be
started again as long as it works on another (below). `Conversations` assumes
weak fairness of `prepare_payload`'s steps only: a store call answers or raises.

### Deadlock

It is checked in all mesh runs, where agents can always start or read. It is
not in the registry runs (after `shutdown()` everything ends), the
conversations and `routing` (all messages answered), and `sessions` (all calls
made).

## Proofs

Every invariant and action property of a passing run, and every refinement, is a
theorem of the specification. `M!T` is theorem `T` of module `M`.

| Theorem | States | Assumes |
|---------|--------|---------|
| `AgentMesh_proofs!Types` | `TypeOK` | - |
| `AgentMesh_proofs!TasksAreKept` | `NoTaskLost` | - |
| `AgentMesh_proofs!AckedAfterAttempt` | `AckAfterAttempt` | - |
| `AgentMesh_proofs!MeshImplementsQueue` | `ImplementsQueue` | - |
| `Ownership_proofs!OneHolder` | `MutualExclusion` | - |
| `Ownership_proofs!NothingStranded` | `NoStranded` | no more entries than the COUNT of the own-pending read |
| `Outcome_proofs!SuccessWasReplied` | `SuccessMeansReplied` | - |
| `Outcome_proofs!AckedAfterResult` | `AckedHasResult` | no heartbeat and no results-stream fault |
| `Outcome_proofs!HeartbeatIsTrue` | `HeartbeatListsTasks` | no heartbeat fault and no cancellation |
| `Outcome_proofs!MeshImplementsLease` | `ImplementsLease` | - |
| `PluginRegistry_proofs!RegistryTypes`, `NeverLoadingForEver`, `LoadedCanExecute`, `NoStaleInfo`, `PendingOrLoaded`, `OneSetup`, `ReadyToAct`, `ResultsInOrder`, `RegistryImplementsLife` | `TypeOK`, `LoadingInProgress`, `LoadedHasInfo`, `InfoIsKnown`, `OneState`, `SetupOnce`, `ActionsOnReady`, `ToolResults`, `ImplementsLife` | - |
| `Conversations_proofs!ConversationTypes`, `AnswersHaveMessages`, `TurnsAreSaid`, `HistoryComesFirst`, `VersionsAreShown`, `PublishedBeforeMarked`, `ConversationsImplementDialogue` | `TypeOK`, `AnsweredWasRecorded`, `TurnsAreAnswers`, `SeededFirst`, `VersionIsShown`, `MarkedIsPublished`, `ImplementsDialogue` | - |
| `Conversations_proofs!DomainsAgree` | `_parse_domain` finds a domain for every name, and `_coerce_domain` the same one | - |
| `SessionManager_proofs!ManagerTypes`, `ConversationsAreOwn`, `ThreadsAreKept`, `SessionsAreFew`, `CacheIsFresh` | `TypeOK`, `OwnConversation`, `FewThreads`, `FewSessions`, `FreshCache` | - |
| `Routing_proofs!RoutingTypes`, `NoCrossOrgWork`, `AffinityIsEarned`, `TasksReachReaders`, `AddresseeAnswers`, `OrgsRouteAlone` | `TypeOK`, `OwnOrgOnly`, `AffinityAnswered`, `ToReader`, `DirectToAddressee`, `RoutesAlone` | - |
| `Keyspace_proofs!HostedOrgsApart` | no key of an org is a key of another | neither is the fleet |
| `Keyspace_proofs!FleetApart` | no key of the fleet is a key of an org | the org's id is not the first segment of that fleet key |
| `Keyspace_proofs!SubsystemApart` | within a subsystem, equal keys have the same org and the same parts | a key does not repeat the subsystem's name |
| `Keyspace_proofs!FleetKeysAreGlobal` | the fleet's `Keyspace` yields the module-level names | - |

They hold for any sets, limits and numbers of faults that satisfy the named
assumptions of the modules. Those say that what stands for nothing is not one
of the things, that names of plugins and callers are finitely many, and, in
`SessionManager`, that `Threads` has every thread a request can come to.

The arguments:

*Types and tasks.* `NoTaskLost` is proved together with the types: no command
takes an entry out of `unread` or off the pending list without delivering,
acknowledging or dropping it, and a group that is created again has everything
present to read. `AckAfterAttempt` is not inductive: an entry is acknowledged
where its worker stands at `ack` or `ackretry`, so the invariant adds that a
worker that got there attempted or rejected its task, that a hollow entry of a
batch is gone from the stream, and that what the generator acknowledges by
itself is unreadable or hollow.

*Refinement.* Every step of the mesh adds a task, attempts it, deals with it or
leaves the abstract variables alone; the proof goes through the actions and
uses the invariants above for the acknowledgements. For the leases it rests on
ownership (below), and on what is true of acknowledged entries (`AckedForGood`):
the server never gives one out again, and unless it is overdue the only worker
that may have it is one whose acknowledgement was lost on the way back. That a
worker on a task has its generator waiting (`Lively`) makes it one of those
that live.

*Ownership.* `MutualExclusion` needs to know why nobody else can fetch what a
worker holds. The invariant says that a held entry is secured: it was sent, it
is not unread, while it is in the stream its group exists (so it cannot be
delivered again), and unless it is overdue it is pending to nobody but its
holder and not stale (so XAUTOCLAIM passes it by). Only time makes it stale, and
it is overdue then, for good (`OverdueForGood`). `NoStranded` adds what a worker
that is in its read loop has in memory, and that a read of the whole pending
list brings it there; what the watchdog abandons is remembered
(`AbandonedForGood`).

*Outcomes.* `SuccessMeansReplied` needs that a worker past the reply with a
success replied, if its task has a room and its channel sends (`RepliedInv`).
`AckedHasResult` needs that a worker on its way to the acknowledgement published
a result of its task (`ResultInv`). `HeartbeatListsTasks` is proved with the
fact that the tasks in the hands of an agent's workers are of different
streams, so that one finishing does not unlist another's.

*Registry.* `RegistryInv` says where the instance of each call under way can be:
one that `ensure_ready` sets up has its name in `_loading`, is set up by no
other coroutine, is pending still (unless `shutdown()` emptied the dictionary)
and not loaded, names given to `load_plugin` apart (`SettingInv`); the setup of
a pending one did not come to its end, other than by a cancellation
(`PendingInv`); a loaded one is ready (`LoadedInv`); a discovered one listed its
actions (`ListedInv`). Its proof classifies a step twice, by what it does to the
dictionaries (`Effect`) and by where it leaves the caller (`Lands`). The
lifecycle adds that no two coroutines are in the `setup()` of one discovered
instance (`SetupApart`), and that a coroutine begins to wait for a method only
between two awaits, of a loaded instance or for its `setup()` (`BeginsToWait`):
then every step begins one call, ends one, cancels one, or changes nothing the
plugins see.

*Conversations.* `ConversationInv` relates every copy of a Session object to
what the transcript had when it was read. `AnsweredWasRecorded` needs that a
payload with a session was recorded there; `TurnsAreAnswers` needs that each
copy counts no more than the transcript, and an update only lines recorded;
`SeededFirst` follows the loop over the history; `VersionIsShown` holds because
the Session object is read before the context, and because the version of a
payload was a `turn_count` of the session it names (`Stamped`). The dialogue
needs one more fact, that an execution works on a task that was published, with
the session published (`Tasked`); a step then adds one line, writes one Session
object, publishes, marks, or changes nothing of the dialogue.

*Session manager.* The types contain the main facts: where each caller's key
comes from, and that synthetic threads are of their sender. `OwnConversation`
needs that the index of a thread is a session of that thread (`Linked`).
`FewThreads` and `FewSessions` count the callers that still can make a thread
or a session (`Setters`, `Creators`); `FreshCache` says of a load in hand what
it says of the cache.

*Routing.* What is queued has a target, and whoever works on it read it from
the stream of its org: `HostedOrgsApart` and `FleetApart` on the names used are
what keeps orgs apart. `DirectToAddressee` follows the mention or direct
message from resolution to answer while its addressee stays registered. For
`RoutesAlone` every variable is restricted to an org's agents, messages and
keys: a step of the org is the same step of the restriction, because whatever
it finds under a name was put there under the org's names, and a step of
another org leaves the restriction alone.

Only model-checked: the liveness properties `EveryTaskDone` and `NeverBlocked`,
since TLAPS does not prove liveness under fairness here. The properties of the
runs that expect a violation are, of course, not theorems.

## Findings

Each is a run with the property a document or comment states, which the code
does not keep.

* `exactly_once`: "Uses Redis consumer groups for exactly-once delivery"
  (`consumer.py:93`, and `bus.py:23`), where `docs/architecture.md:41` says at
  least once. A task that is worked on for longer than `claim_idle_ms` is taken
  over by the next subscription of a colleague and executed a second time; the
  run has no fault at all.
* `watchdog`: "XREADGROUP ">" re-reads entries that arrived"
  (`bus_redis.py:184`). It does not return entries that were delivered to the
  pending list; they wait for the next subscription.
* `regroup`: "Create a consumer group if it doesn't already exist"
  (`bus_redis.py:278`). `_groups_created` survives the group: after the server
  lost it, every subscription of this bus object ends with NOGROUP.
* `resumed`: a reclaimed task is said to carry the `resumed` flag
  (`docs/architecture.md:90`); only own pending entries do.
* `registry_health`: `health_all` iterates over `_plugins` and awaits inside,
  and raises RuntimeError when a plugin is set up or unloaded meanwhile.
* `bootstrap`: a session is seeded while `turn_count` is 0, that is, again with
  every message before the first answer.

Also read in the code, and part of the modelled behaviour without a run of its
own:

* Besides a slow task, a crash or a cancellation after it started and a last
  acknowledgement that fails after `stop()` make a task run twice.
* `stop()` does not end a consumer whose subscription works. Of a stopped agent
  with two streams the coroutine of one ends when its subscription does, and
  that stream is not served, nor the agent started again, while the other
  coroutine goes on.
* The first publishing of the heartbeat is outside the try block
  (`consumer.py:449`): if it raises, the task is acknowledged without having
  been executed, and stays listed.
* A task without `room_id`, or an agent whose channel has no `send`, ends in
  success without a reply.
* `setup()`: "Called once before the first action" (`docs/guides/plugin.md:29`).
  `except Exception` does not catch a cancellation (`registry.py:197`), such as
  that of the task's timeout (`consumer.py:358`); the instance stays pending and
  the next call sets it up again. An instance given to `load_plugin` by two
  coroutines is set up twice, since only `_plugins` is looked at.
* The protocol has `list_actions()` after `setup()` (`protocol.py:31-33`);
  discovery calls it before (`registry.py:169`).
* A prompt that could not be rendered goes out with the version and snapshot id
  of its payload, while it shows nothing of that session
  (`context_runtime.py:136-141`).
* `dispatch.py:166` does not ask whether the primary agent of a domain consumes
  it; a task can wait on a stream that the agent it names never reads.
* XAUTOCLAIM takes over entries of any consumer and not only the agent's own, as
  `docs/architecture.md:66` has it. MAXLEN drops unread tasks.
* `shutdown()` leaves an instance whose setup is under way without teardown;
  `execute()` reports a setup that is under way as failed, and raises KeyError
  for a plugin whose `list_actions()` raised at discovery; two unloads of a
  name can delete an instance loaded in between; loading a name that was also
  discovered can lose its `PluginInfo`.
* "This prevents key collisions" (`redis_keys.py:3`): an agent called `results`
  would have the results stream as its sync stream, and likewise for its fleet
  updates; plans called `all`, `active` or `decision` and a vault called `lock`
  meet other keys of their subsystems.
* A conductor "never collides with another on a shared global key"
  (`redis_keys.py:231`): an org called like a subsystem, `plans` for instance,
  has keys that are the fleet's; the hypothesis of `FleetApart` is what it
  takes.
* "Sessions are scoped by `(channel, domain, thread_id)`"
  (`docs/architecture.md:111`): they are looked up by domain and thread
  (`session/store.py:28`).
* A domain context loaded while an update invalidates the cache stays stale.
  ("never invalidated", `docs/architecture.md:202`, is said of the memory files,
  which are not modelled.)

## Not modelled

* `health()`, `info` and the connection settings of the bus, which only read;
  the retries of redis-py within a call.
* `memory.py`, which reads and formats files; `prompt_utils.py` and the other
  parsing with regular expressions; environment variables (`env.py`).
* The provider protocol, which has no code, and `_loop_driver.py`, a stub.
* The data classes (`models.py`, `dispatch_models.py`, `session/models.py`)
  beyond the fields and the domains the modules use.
* Agent-activity updates, which are best effort and keep no state.
* `examples/`.

What could come next: the restart delays of `_consume_stream`, and a composition
of `Routing` with `AgentMesh`.
