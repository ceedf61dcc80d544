---------------------------- MODULE RedisStreamBus ----------------------------
(***************************************************************************)
(* RedisStreamBus (bus_redis.py): the asynchronous generator subscribe()   *)
(* of each agent and stream.  A subscription is the pair <<agent, stream>> *)
(* and its generator goes through these phases:                            *)
(*                                                                         *)
(*   "down"     no generator, and nobody to open one                       *)
(*   "restart"  no generator; its consumer is about to (re)subscribe       *)
(*   "claim"    the group is ensured, XAUTOCLAIM comes next                *)
(*   "claimed"  yielding what XAUTOCLAIM returned                          *)
(*   "owned"    yielding the consumer's own pending entries, resumed=True  *)
(*   "reading"  the read loop on ">"                                       *)
(*                                                                         *)
(* Envelopes are yielded one by one in id order, and the generator does    *)
(* not move while the consumer works on the one it was given: the steps    *)
(* below are for a generator whose consumer is waiting for an envelope.    *)
(* A call to the server that fails may or may not have had its effect.     *)
(***************************************************************************)
EXTENDS RedisStream

CONSTANTS
  Subscriptions, \* the <<agent, stream>> pairs: domain streams and agent streams
  KindOf,        \* what an entry holds: a "task", "badjson" (fields that parse,
                 \* a payload that is not a TaskPayload) or "garbled" fields
  FaultKinds,    \* the kinds of fault that may happen
  MaxFaults      \* how many faults may happen

ASSUME SubscriptionsAssumption ==
  /\ Subscriptions \subseteq Agents \X Streams
  /\ KindOf \in [Entries -> {"task", "badjson", "garbled"}]
ASSUME FaultsAssumption == MaxFaults \in Nat

VARIABLES
  grouped,  \* _groups_created of each agent's bus object
  phase,    \* where each generator is
  batch,    \* entries fetched by the last command and not yet yielded
  hollow,   \* those of the batch that the server listed without fields
  abandoned,\* entries of a read that was served when the watchdog ended it
  faults    \* how many faults have happened

busVars == <<grouped, phase, batch, hollow, abandoned, faults>>

AgentOf(w) == w[1]
StreamIn(w) == w[2]

Phases == {"down", "restart", "claim", "claimed", "owned", "reading"}

BusTypeOK ==
  /\ RedisTypeOK
  /\ grouped \in [Agents -> SUBSET Streams]
  /\ phase \in [Subscriptions -> Phases]
  /\ batch \in [Subscriptions -> SUBSET Entries]
  /\ hollow \in [Subscriptions -> SUBSET Entries]
  /\ abandoned \subseteq Entries
  /\ faults \in Nat

BusInit ==
  /\ RedisInit
  /\ grouped = [a \in Agents |-> {}]
  /\ phase = [w \in Subscriptions |-> "down"]
  /\ batch = [w \in Subscriptions |-> {}]
  /\ hollow = [w \in Subscriptions |-> {}]
  /\ abandoned = {}
  /\ faults = 0

Fault(kind) ==
  /\ kind \in FaultKinds
  /\ faults < MaxFaults
  /\ faults' = faults + 1

\* A server command whose answer does not come back.
Lost(command) == command \/ UNCHANGED redisVars

GoTo(w, p) == phase' = [phase EXCEPT ![w] = p]

\* The command returned the entries S; no fields came with those in H.
Fetch(w, S, H) ==
  /\ batch' = [batch EXCEPT ![w] = S]
  /\ hollow' = [hollow EXCEPT ![w] = H]

\* Defect: a failed command is logged and the read loop goes on.
CarryOn(w) ==
  /\ GoTo(w, "reading")
  /\ Fetch(w, {}, {})

\* An exception leaves the generator: its batch is gone with it, and
\* _consume_stream subscribes again after a back-off.
Raise(w) ==
  /\ GoTo(w, "restart")
  /\ Fetch(w, {}, {})

IsNext(w, e) == e \in batch[w] /\ \A d \in batch[w] : e <= d

-----------------------------------------------------------------------------

\* Defect: the group starts at the end of the stream.
CreateGroupAtEnd(s) == XGroupCreate(s, "$")

CreateGroup(s) == XGroupCreate(s, "0")

\* _ensure_group: the group is created unless this bus object remembers that
\* it did so (or found it) before.
EnsureGroup(w) ==
  LET a == AgentOf(w) s == StreamIn(w) IN
  /\ phase[w] = "restart"
  /\ \/ /\ s \in grouped[a]
        /\ GoTo(w, "claim")
        /\ UNCHANGED <<redisVars, grouped, faults>>
     \/ /\ s \notin grouped[a]
        /\ CreateGroup(s)
        /\ grouped' = [grouped EXCEPT ![a] = @ \cup {s}]
        /\ GoTo(w, "claim")
        /\ UNCHANGED faults
     \/ /\ s \notin grouped[a]
        /\ Fault("fetch")
        /\ Lost(CreateGroup(s))
        /\ UNCHANGED <<phase, grouped>>
  /\ UNCHANGED <<batch, hollow, abandoned>>

\* _reclaim_pending: one XAUTOCLAIM.  Without the group it is a
\* ResponseError, and the reclaim ends there.
ReclaimPending(w) ==
  LET a == AgentOf(w) s == StreamIn(w) IN
  /\ phase[w] = "claim"
  /\ \/ /\ s \in group
        /\ XAutoClaim(a, s)
        /\ Fetch(w, Claimable(s) \cap present, {})
        /\ GoTo(w, "claimed")
        /\ UNCHANGED faults
     \/ /\ s \notin group
        /\ GoTo(w, "claimed")
        /\ UNCHANGED <<redisVars, batch, hollow, faults>>
     \/ /\ Fault("fetch")
        /\ Lost(s \in group /\ XAutoClaim(a, s))
        /\ Raise(w)
  /\ UNCHANGED <<grouped, abandoned>>

\* Defect: the own pending entries are not read.
SkipOwnPending(w) ==
  /\ phase[w] = "claimed"
  /\ batch[w] = {}
  /\ GoTo(w, "owned")
  /\ UNCHANGED <<redisVars, grouped, batch, hollow, abandoned, faults>>

\* _read_own_pending: one XREADGROUP "0-0", once the claimed entries are
\* dealt with.
ReadOwnPending(w) ==
  LET a == AgentOf(w) s == StreamIn(w) IN
  /\ phase[w] = "claimed"
  /\ batch[w] = {}
  /\ \/ /\ s \in group
        /\ XReadHistory(a, s)
        /\ Fetch(w, History(a, s), History(a, s) \ present)
        /\ GoTo(w, "owned")
        /\ UNCHANGED faults
     \/ /\ s \notin group
        /\ GoTo(w, "owned")
        /\ UNCHANGED <<redisVars, batch, hollow, faults>>
     \/ /\ Fault("fetch")
        /\ Lost(s \in group /\ XReadHistory(a, s))
        /\ Raise(w)
  /\ UNCHANGED <<grouped, abandoned>>

\* One turn of the read loop that gets an answer: entries, or none when the
\* block window ends.
ReadNew(w) ==
  LET a == AgentOf(w) s == StreamIn(w) IN
  /\ phase[w] \in {"owned", "reading"}
  /\ batch[w] = {}
  /\ s \in group
  /\ XReadNew(a, s)
  /\ Fetch(w, Fresh(s), {})
  /\ GoTo(w, "reading")
  /\ UNCHANGED <<grouped, abandoned, faults>>

\* The read loop on a group that does not exist (NOGROUP) or over a broken
\* connection: both leave the generator.
ReadFails(w) ==
  LET a == AgentOf(w) s == StreamIn(w) IN
  /\ phase[w] \in {"owned", "reading"}
  /\ batch[w] = {}
  /\ \/ /\ s \notin group
        /\ UNCHANGED <<redisVars, faults>>
     \/ /\ Fault("fetch")
        /\ Lost(s \in group /\ XReadNew(a, s))
  /\ Raise(w)
  /\ UNCHANGED <<grouped, abandoned>>

\* The client-side watchdog ends an XREADGROUP whose answer never arrives and
\* the loop goes on; the server may have delivered the entries.
Watchdog(w) ==
  LET a == AgentOf(w) s == StreamIn(w) IN
  /\ phase[w] \in {"owned", "reading"}
  /\ batch[w] = {}
  /\ Fault("watchdog")
  /\ \/ /\ s \in group
        /\ XReadNew(a, s)
        /\ abandoned' = abandoned \cup Fresh(s)
     \/ UNCHANGED <<redisVars, abandoned>>
  /\ GoTo(w, "reading")
  /\ UNCHANGED <<grouped, batch, hollow>>

\* Defect: the bus also drops payloads that are not valid tasks.
UnparseablePayload(w, e) == e \in hollow[w] \/ KindOf[e] # "task"

\* An entry the generator deals with itself: fields that do not parse, or an
\* own pending entry that was trimmed.  It is acknowledged and not yielded.
Unparseable(w, e) == e \in hollow[w] \/ KindOf[e] = "garbled"

SkipUnparseable(w) ==
  /\ phase[w] \in {"claimed", "owned", "reading"}
  /\ \E e \in Entries :
       /\ IsNext(w, e)
       /\ Unparseable(w, e)
       /\ \/ /\ XAck(e)
             /\ Fetch(w, batch[w] \ {e}, hollow[w] \ {e})
             /\ UNCHANGED <<phase, faults>>
          \/ /\ Fault("ack")
             /\ Lost(XAck(e))
             /\ Raise(w)
  /\ UNCHANGED <<grouped, abandoned>>

\* Defect: an entry is acknowledged when it is handed out.
YieldAcked(w, e) ==
  /\ phase[w] \in {"claimed", "owned", "reading"}
  /\ IsNext(w, e)
  /\ ~Unparseable(w, e)
  /\ XAck(e)
  /\ batch' = [batch EXCEPT ![w] = @ \ {e}]
  /\ UNCHANGED <<grouped, phase, hollow, abandoned, faults>>

\* yield: the consumer gets the next envelope, resumed or not.
Yield(w, e) ==
  /\ phase[w] \in {"claimed", "owned", "reading"}
  /\ IsNext(w, e)
  /\ ~Unparseable(w, e)
  /\ batch' = [batch EXCEPT ![w] = @ \ {e}]
  /\ UNCHANGED <<redisVars, grouped, phase, hollow, abandoned, faults>>

Resumed(w) == phase[w] = "owned"

\* The steps a generator takes by itself, and those that are faults only.
GeneratorStep(w) ==
  EnsureGroup(w) \/ ReclaimPending(w) \/ ReadOwnPending(w)
  \/ ReadNew(w) \/ ReadFails(w) \/ Watchdog(w) \/ SkipUnparseable(w)

\* close(): the connection pool and what was remembered of groups.  It may be
\* called at any time, and is counted with the faults because it breaks the
\* calls under way; the next call connects again.
Close(a) ==
  /\ Fault("close")
  /\ grouped' = [grouped EXCEPT ![a] = {}]
  /\ UNCHANGED <<redisVars, phase, batch, hollow, abandoned>>

\* Every generator of an agent is gone.
DropGenerators(a) ==
  LET mine == {w \in Subscriptions : AgentOf(w) = a} IN
  /\ phase' = [w \in Subscriptions |-> IF w \in mine THEN "down" ELSE phase[w]]
  /\ batch' = [w \in Subscriptions |-> IF w \in mine THEN {} ELSE batch[w]]
  /\ hollow' = [w \in Subscriptions |-> IF w \in mine THEN {} ELSE hollow[w]]

=============================================================================
