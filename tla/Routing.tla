-------------------------------- MODULE Routing --------------------------------
(***************************************************************************)
(* Who a message goes to, with several orgs on one Redis server.  A        *)
(* dispatcher resolves a target by mention, direct message, thread         *)
(* affinity or domain (dispatch.py, _resolve_target), the bus prefixes the *)
(* stream with the org's (bus_redis.py, _full_stream), and the agent that  *)
(* reads it (consumer.py, start) replies and claims the thread.  Streams   *)
(* give each entry once here: AgentMesh says what they do with it.         *)
(*                                                                         *)
(* An agent is <<org, name>>: the CORTEX_ORG_ID of its process and its     *)
(* identity.  The agent registry and the affinity store are given to the   *)
(* code from outside.                                                      *)
(***************************************************************************)
EXTENDS Keyspace, Naturals

CONSTANTS
  Agents,     \* the agents that exist, <<org, name>>
  DomainsOf,  \* the domains each of them consumes
  Messages,   \* messages [org, id, thread, domain, mentions, dm]
  NoName,     \* no agent, no thread
  NoMessage

Names == {a[2] : a \in Agents}
OrgOf(x) == OrgId(x)

ASSUME AgentsAssumption == \A a \in Agents : a = <<a[1], a[2]>>
ASSUME DomainsAssumption == DOMAIN DomainsOf = Agents
ASSUME MentionsAssumption ==
  \A m \in Messages : m.mentions \in Seq({m.mentions[i] : i \in DOMAIN m.mentions})
ASSUME NoneAssumption == NoName \notin Names /\ NoMessage \notin Messages

VARIABLES
  registered,  \* agents in the agent registry of their org's dispatcher
  left,        \* agents that were ever missing from it
  affinity,    \* the agent each thread key is mapped to
  disp,        \* where the dispatch of each message is
  found,       \* what the affinity store answered it, until it is looked at
  target,      \* <<logical stream, preferred agent>> of each message, until it
               \* is published
  queued,      \* entries of the streams: <<key, message, preferred agent>>
  pc,          \* where each agent is in _process_task
  work,        \* the message it works on
  answered     \* <<message, agent>>: a reply was delivered

dispatchVars == <<disp, found, target>>
agentVars == <<pc, work, answered>>
routingVars == <<registered, left, affinity, dispatchVars, queued, agentVars>>

ThreadOf(m) == IF m.thread = NoName THEN m.id ELSE m.thread
AffinityKey(m, thread) == Scoped(OrgOf(m.org), ThreadSuffixes(thread).thread_agent_key)
AffinityKeys == {AffinityKey(m, ThreadOf(m)) : m \in Messages}

DomainStream(d) == <<"tasks", d>>
AgentStream(n) == <<"tasks", "agent", n>>
Target(stream, n) == <<stream, n>>
Targets ==
  {Target(AgentStream(n), n) : n \in Names}
  \cup {Target(DomainStream(m.domain), n) : m \in Messages, n \in Names}
NoTarget == <<>>
StreamKeys == {FullStream(OrgOf(m.org), t[1]) : m \in Messages, t \in Targets}

TypeOK ==
  /\ registered \subseteq Agents
  /\ left \subseteq Agents
  /\ affinity \in [AffinityKeys -> Names \cup {NoName}]
  /\ disp \in [Messages -> {"new", "affinity", "choose", "publish", "done", "skipped"}]
  /\ found \in [Messages -> Names \cup {NoName}]
  /\ target \in [Messages -> Targets \cup {NoTarget}]
  /\ queued \subseteq StreamKeys \X Messages \X Names
  /\ pc \in [Agents -> {"idle", "reply", "claim"}]
  /\ work \in [Agents -> Messages \cup {NoMessage}]
  /\ answered \subseteq Messages \X Agents

Init ==
  /\ registered = Agents
  /\ left = {}
  /\ affinity = [k \in AffinityKeys |-> NoName]
  /\ disp = [m \in Messages |-> "new"]
  /\ found = [m \in Messages |-> NoName]
  /\ target = [m \in Messages |-> NoTarget]
  /\ queued = {}
  /\ pc = [a \in Agents |-> "idle"]
  /\ work = [a \in Agents |-> NoMessage]
  /\ answered = {}

-----------------------------------------------------------------------------
(* The dispatcher.                                                         *)

\* Defect: one agent registry for all orgs.
AnyAgents(org) == Agents

\* Agents of the dispatcher's org, and whether its registry has a name.
Colleagues(org) == {a \in Agents : OrgOf(a[1]) = OrgOf(org)}
Registered(m, n) == \E a \in Colleagues(m.org) : a[2] = n /\ a \in registered

DispatchTo(m, step) == disp' = [disp EXCEPT ![m] = step]

Choose(m, t) ==
  /\ target' = [target EXCEPT ![m] = t]
  /\ DispatchTo(m, "publish")

\* The agents a message addresses, first mention first.
Addressed(m) == m.mentions \o (IF m.dm = NoName THEN <<>> ELSE <<m.dm>>)
Addresses(m, n) == \E i \in DOMAIN Addressed(m) : Addressed(m)[i] = n

\* primary_agent(domain) names an agent of the registry, or nobody, and the
\* message is skipped.  Whether that agent consumes the domain is not looked at.
ByDomain(m) ==
  \/ DispatchTo(m, "skipped") /\ UNCHANGED target
  \/ \E a \in Colleagues(m.org) \cap registered :
       Choose(m, Target(DomainStream(m.domain), a[2]))

\* Defect: a thread's agent comes before the one that is mentioned.
ResolveThreadFirst(m) ==
  /\ disp[m] = "new"
  /\ IF m.thread # NoName
     THEN DispatchTo(m, "affinity") /\ UNCHANGED target
     ELSE ByDomain(m)
  /\ UNCHANGED <<registered, left, affinity, found, queued, agentVars>>

\* The first name addressed that the registry has.
IsFirstKnown(m, n) ==
  \E i \in DOMAIN Addressed(m) :
    /\ Addressed(m)[i] = n /\ Registered(m, n)
    /\ \A j \in 1 .. i - 1 : ~Registered(m, Addressed(m)[j])

\* Mentions and direct messages need nothing but the registry.
Resolve(m) ==
  /\ disp[m] = "new"
  /\ \/ \E n \in Names : IsFirstKnown(m, n) /\ Choose(m, Target(AgentStream(n), n))
     \/ /\ ~\E n \in Names : IsFirstKnown(m, n)
        /\ IF m.thread # NoName
           THEN DispatchTo(m, "affinity") /\ UNCHANGED target
           ELSE ByDomain(m)
  /\ UNCHANGED <<registered, left, affinity, found, queued, agentVars>>

\* get_agent(thread_id)
Lookup(m) ==
  /\ disp[m] = "affinity"
  /\ found' = [found EXCEPT ![m] = affinity[AffinityKey(m, m.thread)]]
  /\ DispatchTo(m, "choose")
  /\ UNCHANGED <<registered, left, affinity, target, queued, agentVars>>

\* Defect: what was found is used whether or not it is registered.
ChooseUnchecked(m) ==
  /\ disp[m] = "choose"
  /\ Choose(m, Target(AgentStream(found[m]), found[m]))
  /\ UNCHANGED <<registered, left, affinity, found, queued, agentVars>>

\* What was found counts if it is still registered by now.
ChooseFound(m) ==
  /\ disp[m] = "choose"
  /\ IF Registered(m, found[m])
     THEN Choose(m, Target(AgentStream(found[m]), found[m]))
     ELSE ByDomain(m)
  /\ found' = [found EXCEPT ![m] = NoName]
  /\ UNCHANGED <<registered, left, affinity, queued, agentVars>>

\* The payload names the preferred agent, and the bus the key of the stream.
Publish(m) ==
  /\ disp[m] = "publish"
  /\ queued' = queued \cup {<<FullStream(OrgOf(m.org), target[m][1]), m, target[m][2]>>}
  /\ DispatchTo(m, "done")
  /\ target' = [target EXCEPT ![m] = NoTarget]
  /\ UNCHANGED <<registered, left, affinity, found, agentVars>>

-----------------------------------------------------------------------------
(* The agents.                                                             *)

\* Defect: the domain streams only.
DomainStreamsOf(a) == {FullStream(OrgOf(a[1]), DomainStream(d)) : d \in DomainsOf[a]}

\* The keys start() subscribes to: its domains' streams and its own.
StreamsOf(a) ==
  {FullStream(OrgOf(a[1]), DomainStream(d)) : d \in DomainsOf[a]}
  \cup {FullStream(OrgOf(a[1]), AgentStream(a[2]))}

Take(a) ==
  /\ pc[a] = "idle"
  /\ \E q \in queued :
       /\ q[1] \in StreamsOf(a)
       /\ queued' = queued \ {q}
       /\ work' = [work EXCEPT ![a] = q[2]]
  /\ pc' = [pc EXCEPT ![a] = "reply"]
  /\ UNCHANGED <<registered, left, affinity, dispatchVars, answered>>

AgentIdle(a) ==
  /\ pc' = [pc EXCEPT ![a] = "idle"]
  /\ work' = [work EXCEPT ![a] = NoMessage]

\* _deliver_reply.  There is no reply when the task failed, when the message
\* came from no room, and when the channel raises.
Reply(a) ==
  /\ pc[a] = "reply"
  /\ \/ /\ answered' = answered \cup {<<work[a], a>>}
        /\ pc' = [pc EXCEPT ![a] = "claim"]
        /\ UNCHANGED work
     \/ AgentIdle(a) /\ UNCHANGED answered
  /\ UNCHANGED <<registered, left, affinity, dispatchVars, queued>>

\* set_agent(thread_target, identity): the first agent to claim a thread has
\* it.  Another's claim only refreshes the time it has left.  A store that
\* raises ends the task, and may have set the agent all the same.
Claim(a) ==
  LET key == Scoped(OrgOf(a[1]), ThreadSuffixes(ThreadOf(work[a])).thread_agent_key) IN
  /\ pc[a] = "claim"
  /\ \/ affinity[key] = NoName /\ affinity' = [affinity EXCEPT ![key] = a[2]]
     \/ UNCHANGED affinity
  /\ AgentIdle(a)
  /\ UNCHANGED <<registered, left, dispatchVars, queued, answered>>

-----------------------------------------------------------------------------
(* The registry and the affinity store.                                    *)

\* An affinity's time is up.
Expire(key) ==
  /\ affinity[key] # NoName
  /\ affinity' = [affinity EXCEPT ![key] = NoName]
  /\ UNCHANGED <<registered, left, dispatchVars, queued, agentVars>>

\* Agents leave the registry and come back.
Reregister(a) ==
  /\ \/ registered' = registered \ {a} /\ left' = left \cup {a}
     \/ a \in left /\ registered' = registered \cup {a} /\ UNCHANGED left
  /\ UNCHANGED <<affinity, dispatchVars, queued, agentVars>>

Next ==
  \/ \E m \in Messages : Resolve(m) \/ Lookup(m) \/ ChooseFound(m) \/ Publish(m)
  \/ \E a \in Agents : Take(a) \/ Reply(a) \/ Claim(a) \/ Reregister(a)
  \/ \E key \in AffinityKeys : Expire(key)

Spec == Init /\ [][Next]_routingVars

-----------------------------------------------------------------------------

\* A message is worked on and answered by agents of its own org only, though
\* all orgs' streams are on one server and their agents, threads and messages
\* have the same names (the partition of redis_keys.py and BusConfig).
OwnOrgOnly ==
  /\ \A p \in answered : OrgOf(p[1].org) = OrgOf(p[2][1])
  /\ \A a \in Agents : work[a] # NoMessage => OrgOf(work[a].org) = OrgOf(a[1])

\* A thread is mapped to an agent of its org that answered in it.
AffinityAnswered ==
  \A m \in Messages :
    LET n == affinity[AffinityKey(m, ThreadOf(m))] IN
    n # NoName =>
      \E p \in answered :
        /\ AffinityKey(p[1], ThreadOf(p[1])) = AffinityKey(m, ThreadOf(m))
        /\ OrgOf(p[2][1]) = OrgOf(m.org)
        /\ p[2][2] = n

\* The agent a task is meant for reads the stream the task is on, however
\* the target was found: what _resolve_target returns and what start()
\* subscribes to agree.  Only a registry that names an agent for a domain it
\* does not consume can have a task wait on a stream that agent never reads.
ToReader ==
  \A q \in queued : \E a \in Colleagues(q[2].org) :
    /\ a[2] = q[3]
    /\ \/ q[1] \in StreamsOf(a)
       \/ /\ q[2].domain \notin DomainsOf[a]
          /\ q[1] = FullStream(OrgOf(q[2].org), DomainStream(q[2].domain))

\* A message that addresses an agent that was registered all along is answered
\* by an agent it addresses, whoever has its thread or its domain.
DirectToAddressee ==
  \A p \in answered :
    (\E a \in Colleagues(p[1].org) \ left : Addresses(p[1], a[2]))
      => Addresses(p[1], p[2][2])

=============================================================================
