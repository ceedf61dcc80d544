----------------------------- MODULE RedisStream -----------------------------
(***************************************************************************)
(* Redis streams with one consumer group, as bus_redis.py uses them: XADD  *)
(* with an approximate MAXLEN, XGROUP CREATE from id 0, XREADGROUP ">"     *)
(* and "0-0", XAUTOCLAIM and XACK.  The server is outside src/: what each  *)
(* command does is taken from the arguments the bus passes and from how it *)
(* reads the answers (Redis 7, which the documentation requires).          *)
(*                                                                         *)
(* An entry is its id, and ids grow in each stream.  Every command is one  *)
(* atomic step of the server; the callers decide whether the reply of that *)
(* step reaches the process.                                               *)
(***************************************************************************)
EXTENDS Naturals, FiniteSets

CONSTANTS
  Entries,     \* ids of the entries that may be published
  Streams,     \* the task streams
  StreamOf,    \* the stream each entry is published to
  Agents,      \* the agents, each one consumer name of the group
  NoAgent,
  MaxLen,      \* MAXLEN of XADD (maxlen=1000 for tasks)
  ReadCount,   \* COUNT of XREADGROUP ">" (10)
  ClaimCount,  \* COUNT of XAUTOCLAIM (the server's default, 100)
  PelCount     \* COUNT of XREADGROUP "0-0" (100)

ASSUME EntriesAssumption ==
  /\ Entries \subseteq Nat
  /\ IsFiniteSet(Entries)
  /\ StreamOf \in [Entries -> Streams]
ASSUME AgentsAssumption == NoAgent \notin Agents
ASSUME LimitsAssumption ==
  /\ MaxLen \in Nat \ {0}
  /\ ReadCount \in Nat \ {0}
  /\ ClaimCount \in Nat \ {0}
  /\ PelCount \in Nat \ {0}

VARIABLES
  sent,     \* entries ever added (their ids are never used again)
  present,  \* entries whose fields are still in the stream
  unread,   \* entries of an existing group not delivered to any consumer
  owner,    \* the pending entries list: the consumer an entry is pending to
  stale,    \* pending entries idle for at least claim_idle_ms
  group,    \* the streams on which the consumer group exists
  acked     \* entries some process has sent XACK for, and the server got it

redisVars == <<sent, present, unread, owner, stale, group, acked>>

RedisTypeOK ==
  /\ sent \subseteq Entries
  /\ present \subseteq sent
  /\ unread \subseteq present
  /\ owner \in [Entries -> Agents \cup {NoAgent}]
  /\ stale \subseteq {e \in Entries : owner[e] # NoAgent}
  /\ group \subseteq Streams
  /\ acked \subseteq Entries

RedisInit ==
  /\ sent = {}
  /\ present = {}
  /\ unread = {}
  /\ owner = [e \in Entries |-> NoAgent]
  /\ stale = {}
  /\ group = {}
  /\ acked = {}

InStream(s) == {e \in Entries : StreamOf[e] = s}

PendingTo(a, s) == {e \in InStream(s) : owner[e] = a}

\* The n least ids of S: what a command with COUNT n takes.
LeastN(S, n) == {e \in S : Cardinality({d \in S : d < e}) < n}

\* The prefixes of a stream that XADD MAXLEN ~ may drop.  Approximate
\* trimming never leaves fewer than MaxLen entries, but may leave more.
Trimmable(S) ==
  {LeastN(S, n) : n \in {k \in 0 .. Cardinality(S) :
                            k = 0 \/ Cardinality(S) - k >= MaxLen}}

-----------------------------------------------------------------------------

\* XADD: the next id of its stream, trimming the oldest entries.
XAdd(e) ==
  LET s == StreamOf[e] IN
  /\ e \in Entries \ sent
  /\ \A d \in InStream(s) : (d < e => d \in sent) /\ (d \in sent => d < e)
  /\ sent' = sent \cup {e}
  /\ \E dropped \in Trimmable((present \cap InStream(s)) \cup {e}) :
       /\ present' = (present \cup {e}) \ dropped
       /\ unread' = (IF s \in group THEN unread \cup {e} ELSE unread) \ dropped
  /\ UNCHANGED <<owner, stale, group, acked>>

\* XGROUP CREATE: from id "0" the new group has everything in the stream to
\* read, from "$" only what is added later.  On an existing group (BUSYGROUP)
\* nothing changes.
XGroupCreate(s, id) ==
  /\ group' = group \cup {s}
  /\ unread' = IF s \in group \/ id = "$" THEN unread
              ELSE unread \cup (present \cap InStream(s))
  /\ UNCHANGED <<sent, present, owner, stale, acked>>

\* Defect: entries are claimed however short their idle time.
ClaimableAtOnce(s) ==
  LeastN({e \in InStream(s) : owner[e] # NoAgent}, ClaimCount)

\* The pending entries XAUTOCLAIM from 0-0 visits, whoever owns them.
Claimable(s) == LeastN(stale \cap InStream(s), ClaimCount)

\* XAUTOCLAIM: the entries become the caller's and their idle time restarts;
\* those trimmed from the stream leave the pending list instead (Redis 7).
XAutoClaim(a, s) ==
  /\ owner' = [e \in Entries |->
                 IF e \notin Claimable(s) THEN owner[e]
                 ELSE IF e \in present THEN a ELSE NoAgent]
  /\ stale' = stale \ Claimable(s)
  /\ UNCHANGED <<sent, present, unread, group, acked>>

History(a, s) == LeastN(PendingTo(a, s), PelCount)

\* XREADGROUP "0-0": the caller's own pending entries.  Reading them restarts
\* their idle time; a trimmed one is listed without its fields.
XReadHistory(a, s) ==
  /\ stale' = stale \ (History(a, s) \cap present)
  /\ UNCHANGED <<sent, present, unread, owner, group, acked>>

Fresh(s) == LeastN(unread \cap InStream(s), ReadCount)

\* XREADGROUP ">": the next entries become pending to the caller.
XReadNew(a, s) ==
  /\ unread' = unread \ Fresh(s)
  /\ owner' = [e \in Entries |-> IF e \in Fresh(s) THEN a ELSE owner[e]]
  /\ UNCHANGED <<sent, present, stale, group, acked>>

\* XACK: the entry leaves the pending list, whoever owns it.
XAck(e) ==
  /\ owner' = [owner EXCEPT ![e] = NoAgent]
  /\ stale' = stale \ {e}
  /\ acked' = acked \cup {e}
  /\ UNCHANGED <<sent, present, unread, group>>

\* A pending entry reaches claim_idle_ms.
BecomeStale(e) ==
  /\ owner[e] # NoAgent
  /\ e \notin stale
  /\ stale' = stale \cup {e}
  /\ UNCHANGED <<sent, present, unread, owner, group, acked>>

\* The server loses a stream and its group (restart without persistence,
\* eviction, DEL).
DataLoss(s) ==
  /\ present' = present \ InStream(s)
  /\ unread' = unread \ InStream(s)
  /\ owner' = [e \in Entries |-> IF StreamOf[e] = s THEN NoAgent ELSE owner[e]]
  /\ stale' = stale \ InStream(s)
  /\ group' = group \ {s}
  /\ UNCHANGED <<sent, acked>>

=============================================================================
