---------------------------- MODULE Routing_proofs ----------------------------
(***************************************************************************)
(* Tasks and affinities stay in their org, and reach whom they are for.    *)
(***************************************************************************)
EXTENDS OneOrg, Keyspace_proofs, WellFoundedInduction

(***************************************************************************)
(* The keys of tasks and of affinities.                                    *)
(***************************************************************************)

IsTaskStream(s) == \E v : s = DomainStream(v) \/ s = AgentStream(v)

LEMMA TaskStreamShape ==
  ASSUME NEW v, NEW s, s = DomainStream(v) \/ s = AgentStream(v)
  PROVE  LET S == {"tasks", "agent", v} IN
         /\ s \in Seq(S) /\ Len(s) > 1
         /\ s[1] = "tasks"
         /\ Len(s) = 2 \/ s[2] # "tasks"
<1>1. CASE s = DomainStream(v)
  BY <1>1 DEF DomainStream
<1>2. CASE s = AgentStream(v)
  BY <1>2 DEF AgentStream
<1> QED BY <1>1, <1>2

\* No two orgs share a stream of tasks, and no org gives two of its own one key.
LEMMA TaskKeysApart ==
  ASSUME NEW org, NEW other, NEW s, NEW t, IsTaskStream(s), IsTaskStream(t),
         FullStream(org, s) = FullStream(other, t)
  PROVE  org = other /\ s = t
<1>1. PICK v : s = DomainStream(v) \/ s = AgentStream(v)
  BY DEF IsTaskStream
<1>2. PICK w : t = DomainStream(w) \/ t = AgentStream(w)
  BY DEF IsTaskStream
<1> DEFINE S == {"tasks", "agent", v}
           T == {"tasks", "agent", w}
           U == S \cup T
<1>3. /\ s \in Seq(S) /\ Len(s) > 1
      /\ s[1] = "tasks" /\ (Len(s) = 2 \/ s[2] # "tasks")
  BY <1>1, TaskStreamShape
<1>4. /\ t \in Seq(T) /\ Len(t) > 1
      /\ t[1] = "tasks" /\ (Len(t) = 2 \/ t[2] # "tasks")
  BY <1>2, TaskStreamShape
<1>5. s \in Seq(U)
  BY <1>3, SeqMonotonic
<1>6. t \in Seq(U)
  BY <1>4, SeqMonotonic
<1>7. Scoped(org, s) = Scoped(other, t)
  BY FullStreamIsScoped
<1> HIDE DEF S, T, U
<1> QED BY <1>3, <1>4, <1>5, <1>6, <1>7, SubsystemApart

LEMMA AffinityKeysApart ==
  ASSUME NEW org, NEW other, NEW x, NEW y,
         Scoped(org, ThreadSuffixes(x).thread_agent_key)
           = Scoped(other, ThreadSuffixes(y).thread_agent_key)
  PROVE  org = other
<1> DEFINE U == {"thread", "agent", x, y}
           s == <<"thread", "agent", x>>
           t == <<"thread", "agent", y>>
<1>1. s \in Seq(U) /\ t \in Seq(U)
  OBVIOUS
<1>2. Len(s) > 1 /\ Len(t) > 1 /\ s[1] = t[1] /\ s[2] # s[1] /\ t[2] # t[1]
  OBVIOUS
<1>3. Scoped(org, s) = Scoped(other, t)
  BY DEF ThreadSuffixes
<1> HIDE DEF U, s, t
<1> QED BY <1>1, <1>2, <1>3, SubsystemApart

(***************************************************************************)
(* The invariant.                                                          *)
(***************************************************************************)

\* An agent of m's org is called n, and s is its stream or that of m's domain.
Aimed(m, s, n) ==
  \E a \in Colleagues(m.org) :
    /\ a[2] = n
    /\ s = AgentStream(n) \/ s = DomainStream(m.domain)

AffinityInThread == \A m \in Messages : disp[m] = "affinity" => m.thread # NoName

TargetAimed ==
  \A m \in Messages :
    disp[m] = "publish" => target[m] \in Targets /\ Aimed(m, target[m][1], target[m][2])

QueuedAimed ==
  \A q \in queued : \E s :
    q[1] = FullStream(OrgOf(q[2].org), s) /\ Aimed(q[2], s, q[3])

WorkInOrg ==
  \A a \in Agents :
    /\ work[a] = NoMessage <=> pc[a] = "idle"
    /\ work[a] # NoMessage => OrgOf(work[a].org) = OrgOf(a[1])
    /\ pc[a] = "claim" => <<work[a], a>> \in answered

AnsweredInOrg == \A p \in answered : OrgOf(p[1].org) = OrgOf(p[2][1])

RoutingInv ==
  /\ TypeOK
  /\ AffinityInThread
  /\ TargetAimed
  /\ QueuedAimed
  /\ WorkInOrg
  /\ AnsweredInOrg
  /\ AffinityAnswered

LEMMA InitRouting == Init => RoutingInv
<1> SUFFICES ASSUME Init PROVE RoutingInv
  OBVIOUS
<1> USE DEF Init
<1>1. TypeOK
  BY DEF TypeOK, NoTarget
<1>2. AffinityAnswered
  BY DEF AffinityAnswered, AffinityKeys
<1> QED
  BY <1>1, <1>2, NoneAssumption
  DEF RoutingInv, AffinityInThread, TargetAimed, QueuedAimed, WorkInOrg, AnsweredInOrg

LEMMA RegisteredNames ==
  ASSUME NEW m, NEW n, Registered(m, n)
  PROVE  n \in Names /\ Aimed(m, AgentStream(n), n)
BY DEF Registered, Colleagues, Names, Aimed

\* What every step of a dispatch has to show.
LEMMA DispatchStep ==
  ASSUME RoutingInv, NEW m \in Messages,
         NEW step \in {"new", "affinity", "choose", "publish", "done", "skipped"},
         DispatchTo(m, step),
         step = "affinity" => m.thread # NoName,
         target' \in [Messages -> Targets \cup {NoTarget}],
         \A k \in Messages \ {m} : target'[k] = target[k],
         step = "publish" => target'[m] \in Targets /\ Aimed(m, target'[m][1], target'[m][2]),
         found' \in [Messages -> Names \cup {NoName}],
         UNCHANGED <<registered, left, affinity, queued, agentVars>>
  PROVE  RoutingInv'
<1> USE DEF RoutingInv, agentVars
<1>1. /\ disp' \in [Messages -> {"new", "affinity", "choose", "publish", "done", "skipped"}]
      /\ disp'[m] = step
      /\ \A k \in Messages \ {m} : disp'[k] = disp[k]
  BY DEF DispatchTo, TypeOK
<1>2. TypeOK'
  BY <1>1 DEF TypeOK
<1>3. AffinityInThread'
  BY <1>1 DEF AffinityInThread
<1>4. TargetAimed'
  BY <1>1 DEF TargetAimed, Aimed, Colleagues
<1>5. QueuedAimed'
  BY DEF QueuedAimed, Aimed, Colleagues
<1>6. WorkInOrg' /\ AnsweredInOrg'
  BY DEF WorkInOrg, AnsweredInOrg
<1>7. AffinityAnswered'
  BY DEF AffinityAnswered
<1> QED BY <1>2, <1>3, <1>4, <1>5, <1>6, <1>7

LEMMA ChooseStep ==
  ASSUME RoutingInv, NEW m \in Messages, NEW s, NEW n, Choose(m, Target(s, n)),
         Target(s, n) \in Targets, Aimed(m, s, n),
         found' \in [Messages -> Names \cup {NoName}],
         UNCHANGED <<registered, left, affinity, queued, agentVars>>
  PROVE  RoutingInv'
<1>1. /\ target' = [target EXCEPT ![m] = <<s, n>>]
      /\ DispatchTo(m, "publish")
  BY DEF Choose, Target
<1>2. /\ target' \in [Messages -> Targets \cup {NoTarget}]
      /\ target'[m] = <<s, n>>
      /\ \A k \in Messages \ {m} : target'[k] = target[k]
  BY <1>1 DEF RoutingInv, TypeOK, Target
<1>3. target'[m] \in Targets /\ Aimed(m, target'[m][1], target'[m][2])
  BY <1>2 DEF Target
<1> QED BY <1>1, <1>2, <1>3, DispatchStep

LEMMA ByDomainStep ==
  ASSUME RoutingInv, NEW m \in Messages, ByDomain(m),
         found' \in [Messages -> Names \cup {NoName}],
         UNCHANGED <<registered, left, affinity, queued, agentVars>>
  PROVE  RoutingInv'
<1>1. CASE DispatchTo(m, "skipped") /\ UNCHANGED target
  <2>1. target' \in [Messages -> Targets \cup {NoTarget}]
    BY <1>1 DEF RoutingInv, TypeOK
  <2> QED BY <1>1, <2>1, DispatchStep
<1>2. CASE \E a \in Colleagues(m.org) \cap registered :
             Choose(m, Target(DomainStream(m.domain), a[2]))
  <2>1. PICK a \in Colleagues(m.org) : Choose(m, Target(DomainStream(m.domain), a[2]))
    BY <1>2
  <2>2. a[2] \in Names /\ Aimed(m, DomainStream(m.domain), a[2])
    BY <2>1 DEF Colleagues, Names, Aimed
  <2>3. Target(DomainStream(m.domain), a[2]) \in Targets
    BY <2>2 DEF Targets
  <2> QED BY <2>1, <2>2, <2>3, ChooseStep
<1> QED BY <1>1, <1>2 DEF ByDomain

LEMMA ResolveStep ==
  ASSUME RoutingInv, NEW m \in Messages, Resolve(m)
  PROVE  RoutingInv'
<1>f. found' \in [Messages -> Names \cup {NoName}]
  BY DEF RoutingInv, TypeOK, Resolve
<1>1. CASE \E n \in Names : IsFirstKnown(m, n) /\ Choose(m, Target(AgentStream(n), n))
  <2>1. PICK n \in Names : IsFirstKnown(m, n) /\ Choose(m, Target(AgentStream(n), n))
    BY <1>1
  <2>2. Aimed(m, AgentStream(n), n)
    BY <2>1, RegisteredNames DEF IsFirstKnown
  <2>3. Target(AgentStream(n), n) \in Targets
    BY DEF Targets
  <2> QED BY <1>f, <2>1, <2>2, <2>3, ChooseStep DEF Resolve
<1>2. CASE m.thread # NoName /\ DispatchTo(m, "affinity") /\ UNCHANGED target
  <2>1. /\ found' \in [Messages -> Names \cup {NoName}]
        /\ target' \in [Messages -> Targets \cup {NoTarget}]
    BY <1>2 DEF RoutingInv, TypeOK, Resolve
  <2> QED BY <1>2, <2>1, DispatchStep DEF Resolve
<1>3. CASE ByDomain(m)
  BY <1>f, <1>3, ByDomainStep DEF Resolve
<1> QED BY <1>1, <1>2, <1>3 DEF Resolve

LEMMA LookupStep ==
  ASSUME RoutingInv, NEW m \in Messages, Lookup(m)
  PROVE  RoutingInv'
<1>1. AffinityKey(m, m.thread) \in AffinityKeys
  BY DEF Lookup, RoutingInv, AffinityInThread, AffinityKeys, ThreadOf
<1>2. affinity[AffinityKey(m, m.thread)] \in Names \cup {NoName}
  BY <1>1 DEF RoutingInv, TypeOK
<1>3. /\ found' \in [Messages -> Names \cup {NoName}]
      /\ target' \in [Messages -> Targets \cup {NoTarget}]
  BY <1>2 DEF RoutingInv, TypeOK, Lookup
<1> QED BY <1>3, DispatchStep DEF Lookup

LEMMA ChooseFoundStep ==
  ASSUME RoutingInv, NEW m \in Messages, ChooseFound(m)
  PROVE  RoutingInv'
<1>f. found' \in [Messages -> Names \cup {NoName}]
  BY DEF RoutingInv, TypeOK, ChooseFound
<1>1. CASE Registered(m, found[m]) /\ Choose(m, Target(AgentStream(found[m]), found[m]))
  <2>1. PICK n : n = found[m]
    OBVIOUS
  <2>2. n \in Names /\ Aimed(m, AgentStream(n), n)
    BY <1>1, <2>1, RegisteredNames
  <2>3. Target(AgentStream(n), n) \in Targets
    BY <2>2 DEF Targets
  <2>4. Choose(m, Target(AgentStream(n), n))
    BY <1>1, <2>1
  <2> QED BY <1>f, <2>2, <2>3, <2>4, ChooseStep DEF ChooseFound
<1>2. CASE ByDomain(m)
  BY <1>f, <1>2, ByDomainStep DEF ChooseFound
<1> QED BY <1>1, <1>2 DEF ChooseFound

LEMMA AimedStream ==
  ASSUME NEW m, NEW s, NEW n, Aimed(m, s, n)
  PROVE  /\ IsTaskStream(s)
         /\ \E a \in Colleagues(m.org) :
              /\ a[2] = n
              /\ \/ FullStream(OrgOf(m.org), s) \in StreamsOf(a)
                 \/ m.domain \notin DomainsOf[a] /\ s = DomainStream(m.domain)
<1>1. PICK a \in Colleagues(m.org) :
        a[2] = n /\ (s = AgentStream(n) \/ s = DomainStream(m.domain))
  BY DEF Aimed
<1>2. IsTaskStream(s)
  BY <1>1 DEF IsTaskStream
<1>3. OrgOf(a[1]) = OrgOf(m.org)
  BY DEF Colleagues
<1>4. \/ FullStream(OrgOf(m.org), s) \in StreamsOf(a)
      \/ m.domain \notin DomainsOf[a] /\ s = DomainStream(m.domain)
  BY <1>1, <1>3 DEF StreamsOf
<1> QED BY <1>1, <1>2, <1>4

LEMMA ReaderStream ==
  ASSUME NEW a, NEW key \in StreamsOf(a)
  PROVE  \E t : /\ key = FullStream(OrgOf(a[1]), t)
                /\ IsTaskStream(t)
                /\ t = AgentStream(a[2]) \/ \E d \in DomainsOf[a] : t = DomainStream(d)
BY DEF StreamsOf, IsTaskStream

LEMMA PublishStep ==
  ASSUME RoutingInv, NEW m \in Messages, Publish(m)
  PROVE  RoutingInv'
<1> USE DEF RoutingInv
<1> DEFINE q == <<FullStream(OrgOf(m.org), target[m][1]), m, target[m][2]>>
<1>1. /\ disp[m] = "publish" /\ queued' = queued \cup {q} /\ DispatchTo(m, "done")
      /\ target' = [target EXCEPT ![m] = NoTarget]
      /\ UNCHANGED <<registered, left, affinity, found, pc, work, answered>>
  BY DEF Publish, agentVars
<1>2. /\ disp' \in [Messages -> {"new", "affinity", "choose", "publish", "done", "skipped"}]
      /\ disp'[m] = "done"
      /\ \A k \in Messages \ {m} : disp'[k] = disp[k]
  BY <1>1 DEF DispatchTo, TypeOK
<1>3. target[m] \in Targets /\ Aimed(m, target[m][1], target[m][2])
  BY <1>1 DEF TargetAimed
<1>4. TypeOK'
  <2>1. target[m][2] \in Names
    BY <1>3 DEF Aimed, Colleagues, Names
  <2>2. FullStream(OrgOf(m.org), target[m][1]) \in StreamKeys
    BY <1>3 DEF StreamKeys
  <2>4. queued' \subseteq StreamKeys \X Messages \X Names
    BY <1>1, <2>1, <2>2 DEF TypeOK
  <2> QED BY <1>1, <1>2, <2>4 DEF TypeOK
<1>5. AffinityInThread' /\ TargetAimed'
  BY <1>1, <1>2 DEF AffinityInThread, TargetAimed, Aimed, Colleagues
<1>6. QueuedAimed'
  <2>1. q[1] = FullStream(OrgOf(q[2].org), target[m][1]) /\ Aimed(q[2], target[m][1], q[3])
    BY <1>3
  <2>2. \A x \in queued' : \E s : x[1] = FullStream(OrgOf(x[2].org), s) /\ Aimed(x[2], s, x[3])
    BY <1>1, <2>1 DEF QueuedAimed
  <2> QED BY <2>2 DEF QueuedAimed, Aimed, Colleagues
<1>7. WorkInOrg' /\ AnsweredInOrg' /\ AffinityAnswered'
  BY <1>1 DEF WorkInOrg, AnsweredInOrg, AffinityAnswered
<1> QED BY <1>4, <1>5, <1>6, <1>7

\* An agent's streams carry its org's messages only.
LEMMA TakenInOrg ==
  ASSUME RoutingInv, NEW a \in Agents, NEW q \in queued, q[1] \in StreamsOf(a)
  PROVE  OrgOf(q[2].org) = OrgOf(a[1])
<1>1. PICK s : q[1] = FullStream(OrgOf(q[2].org), s) /\ Aimed(q[2], s, q[3])
  BY DEF RoutingInv, QueuedAimed
<1>2. PICK t : q[1] = FullStream(OrgOf(a[1]), t) /\ IsTaskStream(t)
  BY ReaderStream
<1>3. IsTaskStream(s)
  BY <1>1, AimedStream
<1>4. FullStream(OrgOf(q[2].org), s) = FullStream(OrgOf(a[1]), t)
  BY <1>1, <1>2
<1> QED BY <1>2, <1>3, <1>4, TaskKeysApart, Zenon

LEMMA TakeStep ==
  ASSUME RoutingInv, NEW a \in Agents, Take(a)
  PROVE  RoutingInv'
<1> USE DEF RoutingInv
<1>1. PICK q \in queued :
        q[1] \in StreamsOf(a) /\ queued' = queued \ {q} /\ work' = [work EXCEPT ![a] = q[2]]
  BY DEF Take
<1>2. /\ pc' = [pc EXCEPT ![a] = "reply"]
      /\ UNCHANGED <<registered, left, affinity, disp, found, target, answered>>
  BY DEF Take, dispatchVars
<1>3. q[2] \in Messages
  BY DEF TypeOK
<1>4. OrgOf(q[2].org) = OrgOf(a[1])
  BY <1>1, TakenInOrg
<1>5. TypeOK'
  BY <1>1, <1>2, <1>3 DEF TypeOK
<1>6. AffinityInThread' /\ TargetAimed'
  BY <1>2 DEF AffinityInThread, TargetAimed, Aimed, Colleagues
<1>7. QueuedAimed'
  BY <1>1 DEF QueuedAimed, Aimed, Colleagues
<1>8. WorkInOrg'
  BY <1>1, <1>2, <1>3, <1>4, NoneAssumption DEF WorkInOrg, TypeOK
<1>9. AnsweredInOrg' /\ AffinityAnswered'
  BY <1>2 DEF AnsweredInOrg, AffinityAnswered
<1> QED BY <1>5, <1>6, <1>7, <1>8, <1>9

LEMMA ReplyStep ==
  ASSUME RoutingInv, NEW a \in Agents, Reply(a)
  PROVE  RoutingInv'
<1> USE DEF RoutingInv
<1>1. /\ pc[a] = "reply"
      /\ UNCHANGED <<registered, left, affinity, disp, found, target, queued>>
  BY DEF Reply, dispatchVars
<1>2. work[a] \in Messages /\ OrgOf(work[a].org) = OrgOf(a[1])
  BY <1>1 DEF WorkInOrg, TypeOK
<1>3. AffinityInThread' /\ TargetAimed' /\ QueuedAimed'
  BY <1>1 DEF AffinityInThread, TargetAimed, QueuedAimed, Aimed, Colleagues
<1>4. CASE /\ answered' = answered \cup {<<work[a], a>>}
           /\ pc' = [pc EXCEPT ![a] = "claim"]
           /\ UNCHANGED work
  <2>1. TypeOK'
    BY <1>1, <1>2, <1>4 DEF TypeOK
  <2>2. WorkInOrg' /\ AnsweredInOrg'
    BY <1>1, <1>2, <1>4 DEF WorkInOrg, AnsweredInOrg, TypeOK
  <2>3. AffinityAnswered'
    BY <1>1, <1>4 DEF AffinityAnswered
  <2> QED BY <1>3, <2>1, <2>2, <2>3
<1>5. CASE AgentIdle(a) /\ UNCHANGED answered
  <2>1. TypeOK'
    BY <1>1, <1>5 DEF TypeOK, AgentIdle
  <2>2. WorkInOrg' /\ AnsweredInOrg'
    BY <1>1, <1>5 DEF WorkInOrg, AnsweredInOrg, TypeOK, AgentIdle
  <2>3. AffinityAnswered'
    BY <1>1, <1>5 DEF AffinityAnswered
  <2> QED BY <1>3, <2>1, <2>2, <2>3
<1> QED BY <1>4, <1>5 DEF Reply

LEMMA ClaimStep ==
  ASSUME RoutingInv, NEW a \in Agents, Claim(a)
  PROVE  RoutingInv'
<1> USE DEF RoutingInv
<1> DEFINE w == work[a]
           key == AffinityKey(w, ThreadOf(w))
<1>1. /\ pc[a] = "claim" /\ AgentIdle(a)
      /\ UNCHANGED <<registered, left, disp, found, target, queued, answered>>
  BY DEF Claim, dispatchVars
<1>2. w \in Messages /\ OrgOf(w.org) = OrgOf(a[1]) /\ <<w, a>> \in answered
  BY <1>1 DEF WorkInOrg, TypeOK
<1>3. key \in AffinityKeys
  BY <1>2 DEF AffinityKeys
<1>4. affinity' = [affinity EXCEPT ![key] = a[2]] \/ UNCHANGED affinity
  BY <1>2 DEF Claim, AffinityKey
<1>5. a[2] \in Names
  BY DEF Names
<1> HIDE DEF w, key
<1>6. /\ affinity' \in [AffinityKeys -> Names \cup {NoName}]
      /\ affinity'[key] = affinity[key] \/ affinity'[key] = a[2]
      /\ \A k \in AffinityKeys \ {key} : affinity'[k] = affinity[k]
  BY <1>3, <1>4, <1>5 DEF TypeOK
<1>7. TypeOK'
  BY <1>1, <1>6 DEF TypeOK, AgentIdle
<1>8. AffinityInThread' /\ TargetAimed' /\ QueuedAimed'
  BY <1>1 DEF AffinityInThread, TargetAimed, QueuedAimed, Aimed, Colleagues
<1>9. WorkInOrg' /\ AnsweredInOrg'
  BY <1>1 DEF WorkInOrg, AnsweredInOrg, TypeOK, AgentIdle
<1>10. AffinityAnswered'
  <2>1. SUFFICES ASSUME NEW m \in Messages, affinity'[AffinityKey(m, ThreadOf(m))] # NoName
                 PROVE  \E p \in answered :
                          /\ AffinityKey(p[1], ThreadOf(p[1])) = AffinityKey(m, ThreadOf(m))
                          /\ OrgOf(p[2][1]) = OrgOf(m.org)
                          /\ p[2][2] = affinity'[AffinityKey(m, ThreadOf(m))]
    BY <1>1 DEF AffinityAnswered
  <2>2. CASE affinity'[AffinityKey(m, ThreadOf(m))] = affinity[AffinityKey(m, ThreadOf(m))]
    BY <2>1, <2>2 DEF AffinityAnswered
  <2>3. CASE AffinityKey(m, ThreadOf(m)) = key /\ affinity'[key] = a[2]
    <3>1. OrgOf(w.org) = OrgOf(m.org)
      BY <2>3, AffinityKeysApart DEF AffinityKey, key
    <3>2. AffinityKey(w, ThreadOf(w)) = AffinityKey(m, ThreadOf(m))
      BY <2>3 DEF key
    <3> QED BY <1>2, <2>3, <3>1, <3>2
  <2>4. AffinityKey(m, ThreadOf(m)) \in AffinityKeys
    BY DEF AffinityKeys
  <2> QED BY <1>6, <2>2, <2>3, <2>4
<1> QED BY <1>7, <1>8, <1>9, <1>10

LEMMA ExpireStep ==
  ASSUME RoutingInv, NEW key \in AffinityKeys, Expire(key)
  PROVE  RoutingInv'
<1> USE DEF RoutingInv
<1>1. /\ affinity' = [affinity EXCEPT ![key] = NoName]
      /\ UNCHANGED <<registered, left, disp, found, target, queued, pc, work, answered>>
  BY DEF Expire, dispatchVars, agentVars
<1>2. TypeOK'
  BY <1>1 DEF TypeOK
<1>3. AffinityInThread' /\ TargetAimed' /\ QueuedAimed'
  BY <1>1 DEF AffinityInThread, TargetAimed, QueuedAimed, Aimed, Colleagues
<1>4. WorkInOrg' /\ AnsweredInOrg'
  BY <1>1 DEF WorkInOrg, AnsweredInOrg
<1>5. AffinityAnswered'
  <2>1. \A m \in Messages : AffinityKey(m, ThreadOf(m)) \in AffinityKeys
    BY DEF AffinityKeys
  <2>2. \A k \in AffinityKeys : affinity'[k] # NoName => affinity'[k] = affinity[k]
    BY <1>1 DEF TypeOK
  <2> QED BY <1>1, <2>1, <2>2 DEF AffinityAnswered
<1> QED BY <1>2, <1>3, <1>4, <1>5

LEMMA ReregisterStep ==
  ASSUME RoutingInv, NEW a \in Agents, Reregister(a)
  PROVE  RoutingInv'
<1> USE DEF RoutingInv
<1>1. UNCHANGED <<affinity, disp, found, target, queued, pc, work, answered>>
  BY DEF Reregister, dispatchVars, agentVars
<1>2. registered' \subseteq Agents /\ left' \subseteq Agents
  BY DEF Reregister, TypeOK
<1>3. TypeOK'
  BY <1>1, <1>2 DEF TypeOK
<1>4. AffinityInThread' /\ TargetAimed' /\ QueuedAimed'
  BY <1>1 DEF AffinityInThread, TargetAimed, QueuedAimed, Aimed, Colleagues
<1>5. WorkInOrg' /\ AnsweredInOrg' /\ AffinityAnswered'
  BY <1>1 DEF WorkInOrg, AnsweredInOrg, AffinityAnswered
<1> QED BY <1>3, <1>4, <1>5

LEMMA StutterStep ==
  ASSUME RoutingInv, UNCHANGED routingVars
  PROVE  RoutingInv'
BY DEF RoutingInv, routingVars, dispatchVars, agentVars, TypeOK, AffinityInThread, TargetAimed,
       QueuedAimed, WorkInOrg, AnsweredInOrg, AffinityAnswered, Aimed, Colleagues

LEMMA NextRouting == RoutingInv /\ [Next]_routingVars => RoutingInv'
<1> SUFFICES ASSUME RoutingInv, [Next]_routingVars PROVE RoutingInv'
  OBVIOUS
<1>1. CASE \E m \in Messages : Resolve(m) \/ Lookup(m) \/ ChooseFound(m) \/ Publish(m)
  BY <1>1, ResolveStep, LookupStep, ChooseFoundStep, PublishStep
<1>2. CASE \E a \in Agents : Take(a) \/ Reply(a) \/ Claim(a) \/ Reregister(a)
  BY <1>2, TakeStep, ReplyStep, ClaimStep, ReregisterStep
<1>3. CASE \E key \in AffinityKeys : Expire(key)
  BY <1>3, ExpireStep
<1>4. CASE UNCHANGED routingVars
  BY <1>4, StutterStep
<1> QED BY <1>1, <1>2, <1>3, <1>4 DEF Next

THEOREM RoutingInvariant == Spec => []RoutingInv
BY InitRouting, NextRouting, PTL DEF Spec

\* The model's types, for any agents, orgs and messages (Routing.TypeOK).
THEOREM RoutingTypes == Spec => []TypeOK
BY RoutingInvariant, PTL DEF RoutingInv

\* However many orgs share a server, and whatever they, their agents and their
\* domains are called, an agent works on its own org's messages only
\* (redis_keys.py:230-234; bus_redis.py:101).
THEOREM NoCrossOrgWork == Spec => []OwnOrgOnly
<1>1. RoutingInv => OwnOrgOnly
  BY DEF RoutingInv, OwnOrgOnly, WorkInOrg, AnsweredInOrg
<1> QED BY <1>1, RoutingInvariant, PTL

\* A thread's affinity is with an agent of its org that answered in it
\* (consumer.py, _deliver_reply).
THEOREM AffinityIsEarned == Spec => []AffinityAnswered
BY RoutingInvariant, PTL DEF RoutingInv

\* What the dispatcher publishes is read by the agent it is meant for, unless
\* the registry named one for a domain it does not consume (dispatch.py,
\* _resolve_target, and consumer.py, start).
THEOREM TasksReachReaders == Spec => []ToReader
<1>1. RoutingInv => ToReader
  BY AimedStream DEF RoutingInv, QueuedAimed, ToReader
<1> QED BY <1>1, RoutingInvariant, PTL

(***************************************************************************)
(* A message that addresses an agent.                                      *)
(***************************************************************************)

\* One of the agents m addresses was registered all along.
Heeded(m) == \E a \in Colleagues(m.org) \ left : Addresses(m, a[2])

RegisteredUnlessLeft == Agents \ left \subseteq registered

HeededTarget ==
  \A m \in Messages : Heeded(m) =>
    /\ disp[m] \notin {"affinity", "choose"}
    /\ disp[m] = "publish" =>
         Addresses(m, target[m][2]) /\ target[m][1] = AgentStream(target[m][2])

HeededQueued ==
  \A q \in queued : Heeded(q[2]) =>
    Addresses(q[2], q[3]) /\ q[1] = FullStream(OrgOf(q[2].org), AgentStream(q[3]))

HeededWork ==
  \A a \in Agents : work[a] # NoMessage /\ Heeded(work[a]) => Addresses(work[a], a[2])

DirectInv ==
  /\ RegisteredUnlessLeft
  /\ HeededTarget
  /\ HeededQueued
  /\ HeededWork
  /\ DirectToAddressee

LEMMA MinOfNats ==
  ASSUME NEW I, I \subseteq Nat, I # {}
  PROVE  \E i \in I : \A j \in I : ~(j < i)
<1>1. PICK i \in I : \A j \in I : <<j, i>> \notin OpToRel(<, Nat)
  BY NatLessThanWellFounded, WFMin
<1>2. \A j \in I : j < i => <<j, i>> \in OpToRel(<, Nat)
  BY DEF OpToRel
<1> QED BY <1>1, <1>2

\* The loop over the mentions finds a registered one if there is one.
LEMMA FirstKnownExists ==
  ASSUME NEW m \in Messages, NEW a \in Colleagues(m.org), a \in registered, Addresses(m, a[2])
  PROVE  \E n \in Names : IsFirstKnown(m, n)
<1> DEFINE I == {i \in DOMAIN Addressed(m) : Registered(m, Addressed(m)[i])}
           S == {m.mentions[i] : i \in DOMAIN m.mentions} \cup {m.dm}
           t == IF m.dm = NoName THEN <<>> ELSE <<m.dm>>
<1>1. Addressed(m) \in Seq(S)
  <2> DEFINE M == {m.mentions[i] : i \in DOMAIN m.mentions}
  <2>1. m.mentions \in Seq(S)
    <3>1. m.mentions \in Seq(M) /\ M \subseteq S
      BY MentionsAssumption
    <3> HIDE DEF M, S
    <3> QED BY <3>1, SeqMonotonic
  <2>2. t \in Seq(S)
    <3>1. <<>> \in Seq(S) /\ <<m.dm>> \in Seq(S)
      OBVIOUS
    <3> QED BY <3>1
  <2> HIDE DEF S, t
  <2>3. m.mentions \o t \in Seq(S)
    BY <2>1, <2>2, ConcatProperties
  <2> QED BY <2>3 DEF Addressed, t
<1>2. DOMAIN Addressed(m) = 1 .. Len(Addressed(m)) /\ Len(Addressed(m)) \in Nat
  BY <1>1, LenProperties
<1>3. I \subseteq Nat /\ I # {}
  <2>1. Registered(m, a[2])
    BY DEF Registered
  <2> QED BY <1>2, <2>1 DEF Addresses
<1>4. PICK i \in I : \A j \in I : ~(j < i)
  BY <1>3, MinOfNats
<1>5. \A j \in 1 .. i - 1 : ~Registered(m, Addressed(m)[j])
  BY <1>2, <1>4
<1>6. Addressed(m)[i] \in Names
  BY RegisteredNames
<1> QED BY <1>5, <1>6 DEF IsFirstKnown

LEMMA InitDirect == Init => DirectInv
BY DEF Init, DirectInv, RegisteredUnlessLeft, HeededTarget, HeededQueued, HeededWork,
       DirectToAddressee

\* Agents only ever leave, so that fewer and fewer messages are heeded.
LEMMA HeededBefore ==
  ASSUME left \subseteq left'
  PROVE  \A m : Heeded(m)' => Heeded(m)
BY DEF Heeded, Colleagues

LEMMA DirectDispatch ==
  ASSUME RoutingInv, DirectInv, NEW m \in Messages,
         Resolve(m) \/ Lookup(m) \/ ChooseFound(m) \/ Publish(m)
  PROVE  DirectInv'
<1> USE DEF DirectInv
<1>1. UNCHANGED <<registered, left, pc, work, answered>>
  BY DEF Resolve, Lookup, ChooseFound, Publish, agentVars
<1>2. /\ disp \in [Messages -> {"new", "affinity", "choose", "publish", "done", "skipped"}]
      /\ target \in [Messages -> Targets \cup {NoTarget}]
  BY DEF RoutingInv, TypeOK
<1>3. \A k : Heeded(k)' = Heeded(k)
  BY <1>1 DEF Heeded, Colleagues
<1>4. RegisteredUnlessLeft' /\ HeededWork'
  BY <1>1, <1>3 DEF RegisteredUnlessLeft, HeededWork
<1>5. DirectToAddressee'
  BY <1>1 DEF DirectToAddressee, Colleagues
<1>6. \A k \in Messages \ {m} : disp'[k] = disp[k] /\ target'[k] = target[k]
  BY <1>2 DEF Resolve, Lookup, ChooseFound, Publish, ByDomain, Choose, DispatchTo
<1>7. ASSUME Heeded(m)
      PROVE  /\ disp'[m] \notin {"affinity", "choose"}
             /\ disp'[m] = "publish" =>
                  Addresses(m, target'[m][2]) /\ target'[m][1] = AgentStream(target'[m][2])
  <2>1. disp[m] \notin {"affinity", "choose"}
    BY <1>7 DEF HeededTarget
  <2>2. CASE Resolve(m)
    <3>1. \E n \in Names : IsFirstKnown(m, n)
      BY <1>7, FirstKnownExists DEF Heeded, RegisteredUnlessLeft, Colleagues
    <3>2. PICK n \in Names : IsFirstKnown(m, n) /\ Choose(m, Target(AgentStream(n), n))
      BY <2>2, <3>1 DEF Resolve
    <3>3. target'[m] = <<AgentStream(n), n>> /\ disp'[m] = "publish"
      BY <1>2, <3>2 DEF Choose, DispatchTo, Target
    <3>4. Addresses(m, n)
      BY <3>2 DEF IsFirstKnown, Addresses
    <3> QED BY <3>3, <3>4
  <2>3. CASE Publish(m)
    BY <1>2, <2>3 DEF Publish, DispatchTo
  <2> QED BY <2>1, <2>2, <2>3 DEF Lookup, ChooseFound
<1>8. HeededTarget'
  BY <1>3, <1>6, <1>7 DEF HeededTarget
<1>9. HeededQueued'
  <2>1. CASE Publish(m)
    <3> DEFINE q == <<FullStream(OrgOf(m.org), target[m][1]), m, target[m][2]>>
    <3>1. disp[m] = "publish" /\ queued' = queued \cup {q}
      BY <2>1 DEF Publish
    <3>2. Heeded(m) => Addresses(m, target[m][2]) /\ target[m][1] = AgentStream(target[m][2])
      BY <3>1 DEF HeededTarget
    <3>3. Heeded(q[2]) =>
            Addresses(q[2], q[3]) /\ q[1] = FullStream(OrgOf(q[2].org), AgentStream(q[3]))
      BY <3>2
    <3> QED BY <1>3, <3>1, <3>3 DEF HeededQueued
  <2>2. CASE queued' = queued
    BY <1>3, <2>2 DEF HeededQueued
  <2> QED BY <2>1, <2>2 DEF Resolve, Lookup, ChooseFound
<1> QED BY <1>4, <1>5, <1>8, <1>9

LEMMA DirectTake ==
  ASSUME RoutingInv, DirectInv, NEW a \in Agents, Take(a)
  PROVE  DirectInv'
<1> USE DEF DirectInv
<1>1. PICK q \in queued :
        q[1] \in StreamsOf(a) /\ queued' = queued \ {q} /\ work' = [work EXCEPT ![a] = q[2]]
  BY DEF Take
<1>2. UNCHANGED <<registered, left, disp, target, answered>>
  BY DEF Take, dispatchVars
<1>3. \A k : Heeded(k)' = Heeded(k)
  BY <1>2 DEF Heeded, Colleagues
<1>4. RegisteredUnlessLeft' /\ HeededTarget' /\ HeededQueued'
  BY <1>1, <1>2, <1>3 DEF RegisteredUnlessLeft, HeededTarget, HeededQueued
<1>5. DirectToAddressee'
  BY <1>2 DEF DirectToAddressee, Colleagues
<1>6. Heeded(q[2]) => Addresses(q[2], a[2])
  <2>1. SUFFICES ASSUME Heeded(q[2]) PROVE q[3] = a[2]
    BY DEF HeededQueued
  <2>2. PICK s : s = AgentStream(q[3]) /\ q[1] = FullStream(OrgOf(q[2].org), s)
    BY <2>1 DEF HeededQueued
  <2>3. PICK t : /\ q[1] = FullStream(OrgOf(a[1]), t)
                 /\ IsTaskStream(t)
                 /\ t = AgentStream(a[2]) \/ \E d \in DomainsOf[a] : t = DomainStream(d)
    BY <1>1, ReaderStream
  <2>4. IsTaskStream(s) /\ IsTaskStream(t)
    BY <2>2, <2>3 DEF IsTaskStream
  <2>5. FullStream(OrgOf(q[2].org), s) = FullStream(OrgOf(a[1]), t)
    BY <2>2, <2>3
  <2>6. s = t
    <3> DEFINE org == OrgOf(q[2].org)
               other == OrgOf(a[1])
    <3>1. FullStream(org, s) = FullStream(other, t)
      BY <2>5
    <3> HIDE DEF org, other
    <3> QED BY <2>4, <3>1, TaskKeysApart
  <2>7. ~\E d \in DomainsOf[a] : t = DomainStream(d)
    BY <2>2, <2>6 DEF AgentStream, DomainStream
  <2>8. AgentStream(q[3]) = AgentStream(a[2])
    BY <2>2, <2>3, <2>6, <2>7
  <2>9. \A x, y : AgentStream(x) = AgentStream(y) => x = y
    BY DEF AgentStream
  <2> QED BY <2>8, <2>9, Zenon
<1>7. HeededWork'
  BY <1>1, <1>3, <1>6 DEF HeededWork, RoutingInv, TypeOK
<1> QED BY <1>4, <1>5, <1>7

LEMMA DirectReply ==
  ASSUME RoutingInv, DirectInv, NEW a \in Agents, Reply(a)
  PROVE  DirectInv'
<1> USE DEF DirectInv
<1>1. pc[a] = "reply" /\ UNCHANGED <<registered, left, disp, target, queued>>
  BY DEF Reply, dispatchVars
<1>2. work[a] # NoMessage
  BY <1>1 DEF RoutingInv, WorkInOrg
<1>3. \A k : Heeded(k)' = Heeded(k)
  BY <1>1 DEF Heeded, Colleagues
<1>4. RegisteredUnlessLeft' /\ HeededTarget' /\ HeededQueued'
  BY <1>1, <1>3 DEF RegisteredUnlessLeft, HeededTarget, HeededQueued
<1>5. \A b \in Agents : work'[b] = work[b] \/ work'[b] = NoMessage
  BY DEF Reply, AgentIdle, RoutingInv, TypeOK
<1>6. HeededWork'
  BY <1>3, <1>5 DEF HeededWork
<1>7. answered' = answered \/ answered' = answered \cup {<<work[a], a>>}
  BY DEF Reply
<1>8. Heeded(work[a]) => Addresses(work[a], a[2])
  BY <1>2 DEF HeededWork
<1>9. DirectToAddressee'
  <2>1. \A p \in answered' : Heeded(p[1]) => Addresses(p[1], p[2][2])
    BY <1>7, <1>8 DEF DirectToAddressee, Heeded
  <2> QED BY <1>1, <2>1 DEF DirectToAddressee, Heeded, Colleagues
<1> QED BY <1>4, <1>6, <1>9

LEMMA DirectOther ==
  ASSUME RoutingInv, DirectInv,
         \/ \E a \in Agents : Claim(a) \/ Reregister(a)
         \/ \E key \in AffinityKeys : Expire(key)
         \/ UNCHANGED routingVars
  PROVE  DirectInv'
<1> USE DEF DirectInv
<1>1. UNCHANGED <<disp, target, queued, answered>>
  BY DEF Claim, Reregister, Expire, routingVars, dispatchVars, agentVars
<1>2. left \subseteq left' /\ RegisteredUnlessLeft'
  BY DEF Claim, Reregister, Expire, routingVars, RegisteredUnlessLeft
<1>3. \A k : Heeded(k)' => Heeded(k)
  BY <1>2, HeededBefore
<1>4. \A b \in Agents : work'[b] = work[b] \/ work'[b] = NoMessage
  BY DEF Claim, AgentIdle, Reregister, Expire, routingVars, agentVars, RoutingInv, TypeOK
<1>5. HeededTarget' /\ HeededQueued' /\ HeededWork'
  BY <1>1, <1>3, <1>4 DEF HeededTarget, HeededQueued, HeededWork
<1>6. \A p \in answered : Heeded(p[1])' => Addresses(p[1], p[2][2])
  BY <1>3 DEF DirectToAddressee, Heeded
<1>7. DirectToAddressee'
  BY <1>1, <1>6 DEF DirectToAddressee, Heeded
<1> QED BY <1>2, <1>5, <1>7

LEMMA NextDirect == RoutingInv /\ DirectInv /\ [Next]_routingVars => DirectInv'
<1> SUFFICES ASSUME RoutingInv, DirectInv, [Next]_routingVars PROVE DirectInv'
  OBVIOUS
<1> QED BY DirectDispatch, DirectTake, DirectReply, DirectOther DEF Next

\* Whoever has the thread or the domain, a message that addresses an agent is
\* answered by an agent it addresses (dispatch.py, _resolve_target).
THEOREM AddresseeAnswers == Spec => []DirectToAddressee
<1>1. Init => DirectInv
  BY InitDirect
<1>2. RoutingInv /\ DirectInv /\ [Next]_routingVars => DirectInv'
  BY NextDirect
<1>3. DirectInv => DirectToAddressee
  BY DEF DirectInv
<1> QED BY <1>1, <1>2, <1>3, RoutingInvariant, PTL DEF Spec

(***************************************************************************)
(* An org is alone.                                                        *)
(***************************************************************************)

LEMMA OwnSubsets ==
  /\ OwnAgents \subseteq Agents /\ OwnMessages \subseteq Messages /\ OwnKeys \subseteq AffinityKeys
  /\ \A m \in OwnMessages : Colleagues(m.org) = OwnAgents
  /\ \A m \in OwnMessages : AffinityKey(m, ThreadOf(m)) \in OwnKeys
BY DEF OwnAgents, OwnMessages, OwnKeys, AffinityKeys, Colleagues

\* What the org sees of itself is what it would see alone.
LEMMA SameNames ==
  /\ \A m : Alone!ThreadOf(m) = ThreadOf(m)
  /\ \A m, t : Alone!AffinityKey(m, t) = AffinityKey(m, t)
  /\ Alone!AffinityKeys = OwnKeys
  /\ \A o, s : Alone!FullStream(o, s) = FullStream(o, s)
  /\ \A s, n : Alone!Target(s, n) = Target(s, n)
  /\ \A s : Alone!DomainStream(s) = DomainStream(s)
  /\ \A n : Alone!AgentStream(n) = AgentStream(n)
  /\ \A o : Alone!OrgOf(o) = OrgOf(o)
  /\ \A m : Alone!Addressed(m) = Addressed(m)
BY DEF Alone!ThreadOf, ThreadOf, Alone!AffinityKey, AffinityKey, Alone!AffinityKeys, OwnKeys,
       Alone!FullStream, FullStream, Alone!StreamPrefix, StreamPrefix, Alone!Target, Target,
       Alone!DomainStream, DomainStream, Alone!AgentStream, AgentStream, Alone!OrgOf, OrgOf,
       Alone!OrgId, OrgId, Alone!Addressed, Addressed, Alone!Scoped, Scoped,
       Alone!ThreadSuffixes, ThreadSuffixes, Alone!PREFIX, PREFIX, Alone!FLEET_ORG_ID, FLEET_ORG_ID

LEMMA SameRegistry ==
  ASSUME NEW m \in OwnMessages
  PROVE  /\ Alone!Colleagues(m.org) = OwnAgents
         /\ \A n : Alone!Registered(m, n) <=> Registered(m, n)
         /\ \A n : Alone!IsFirstKnown(m, n) <=> IsFirstKnown(m, n)
<1>1. Alone!Colleagues(m.org) = OwnAgents
  BY OwnSubsets, SameNames DEF Alone!Colleagues, OwnAgents, OwnMessages, Colleagues
<1>2. \A n : Alone!Registered(m, n) <=> Registered(m, n)
  BY <1>1, OwnSubsets DEF Alone!Registered, Registered
<1>3. \A n : Alone!IsFirstKnown(m, n) <=> IsFirstKnown(m, n)
  BY <1>2, SameNames DEF Alone!IsFirstKnown, IsFirstKnown
<1> QED BY <1>1, <1>2, <1>3

\* The org's part of a function of which one value is changed.
LEMMA RestrictExcept ==
  ASSUME NEW S, NEW O, O \subseteq S, NEW f, DOMAIN f = S, NEW k \in S, NEW v,
         NEW g, g = [f EXCEPT ![k] = v]
  PROVE  /\ k \in O => [x \in O |-> g[x]] = [[x \in O |-> f[x]] EXCEPT ![k] = v]
         /\ k \notin O => [x \in O |-> g[x]] = [x \in O |-> f[x]]
OBVIOUS

\* The variables of the org.
OwnDispatch ==
  <<[m \in OwnMessages |-> disp[m]], [m \in OwnMessages |-> found[m]],
    [m \in OwnMessages |-> target[m]]>>
OwnWork ==
  <<[a \in OwnAgents |-> pc[a]], [a \in OwnAgents |-> work[a]],
    {p \in answered : p[1] \in OwnMessages}>>
OwnRegistry == <<registered \cap OwnAgents, left \cap OwnAgents>>
OwnAffinity == [k \in OwnKeys |-> affinity[k]]
OwnQueued == {q \in queued : q[2] \in OwnMessages}

LEMMA OwnVars ==
  ASSUME UNCHANGED OwnDispatch, UNCHANGED OwnWork, UNCHANGED OwnRegistry,
         UNCHANGED OwnAffinity, UNCHANGED OwnQueued
  PROVE  UNCHANGED Alone!routingVars
BY DEF OwnDispatch, OwnWork, OwnRegistry, OwnAffinity, OwnQueued,
       Alone!routingVars, Alone!dispatchVars, Alone!agentVars

\* A step of a dispatch that the org has no part in.
LEMMA OthersDispatch ==
  ASSUME RoutingInv, NEW m \in Messages \ OwnMessages,
         Resolve(m) \/ Lookup(m) \/ ChooseFound(m) \/ Publish(m)
  PROVE  UNCHANGED Alone!routingVars
<1>1. /\ DOMAIN disp = Messages /\ DOMAIN target = Messages /\ DOMAIN found = Messages
      /\ OwnMessages \subseteq Messages
  BY OwnSubsets DEF RoutingInv, TypeOK
<1>2. \A k \in OwnMessages : disp'[k] = disp[k] /\ target'[k] = target[k] /\ found'[k] = found[k]
  BY <1>1
  DEF Resolve, Lookup, ChooseFound, Publish, ByDomain, Choose, DispatchTo
<1>3. UNCHANGED OwnDispatch
  BY <1>2 DEF OwnDispatch
<1>4. UNCHANGED <<registered, left, affinity, pc, work, answered>>
  BY DEF Resolve, Lookup, ChooseFound, Publish, agentVars
<1>5. UNCHANGED OwnQueued
  BY DEF OwnQueued, Resolve, Lookup, ChooseFound, Publish
<1> QED BY <1>3, <1>4, <1>5, OwnVars DEF OwnWork, OwnRegistry, OwnAffinity

LEMMA OwnDispatchTo ==
  ASSUME RoutingInv, NEW m \in OwnMessages, NEW step, DispatchTo(m, step)
  PROVE  Alone!DispatchTo(m, step)
<1>1. DOMAIN disp = Messages /\ OwnMessages \subseteq Messages
  BY OwnSubsets DEF RoutingInv, TypeOK
<1> QED BY <1>1, RestrictExcept DEF DispatchTo, Alone!DispatchTo

LEMMA OwnChoose ==
  ASSUME RoutingInv, NEW m \in OwnMessages, NEW t, Choose(m, t)
  PROVE  Alone!Choose(m, t)
<1>1. DOMAIN target = Messages /\ OwnMessages \subseteq Messages
  BY OwnSubsets DEF RoutingInv, TypeOK
<1>2. Alone!DispatchTo(m, "publish")
  BY OwnDispatchTo DEF Choose
<1> QED BY <1>1, <1>2, RestrictExcept DEF Choose, Alone!Choose

LEMMA OwnByDomain ==
  ASSUME RoutingInv, NEW m \in OwnMessages, ByDomain(m)
  PROVE  Alone!ByDomain(m)
<1>1. /\ Colleagues(m.org) = OwnAgents
      /\ Alone!Colleagues(m.org) = OwnAgents
  BY OwnSubsets, SameRegistry
<1>2. CASE DispatchTo(m, "skipped") /\ UNCHANGED target
  <2>1. Alone!DispatchTo(m, "skipped")
    BY <1>2, OwnDispatchTo
  <2> QED BY <1>2, <2>1 DEF Alone!ByDomain
<1>3. CASE \E a \in Colleagues(m.org) \cap registered :
             Choose(m, Target(DomainStream(m.domain), a[2]))
  <2>1. PICK a \in OwnAgents \cap registered : Choose(m, Target(DomainStream(m.domain), a[2]))
    BY <1>1, <1>3
  <2>2. Alone!Choose(m, Alone!Target(Alone!DomainStream(m.domain), a[2]))
    BY <2>1, OwnChoose, SameNames
  <2>3. a \in Alone!Colleagues(m.org) \cap (registered \cap OwnAgents)
    BY <1>1
  <2> QED BY <2>2, <2>3 DEF Alone!ByDomain
<1> QED BY <1>2, <1>3 DEF ByDomain

\* What a step of a dispatch leaves alone, for the org.
LEMMA OwnRest ==
  /\ UNCHANGED registered => UNCHANGED (registered \cap OwnAgents)
  /\ UNCHANGED left => UNCHANGED (left \cap OwnAgents)
  /\ UNCHANGED affinity => UNCHANGED [k \in OwnKeys |-> affinity[k]]
  /\ UNCHANGED disp => UNCHANGED [m \in OwnMessages |-> disp[m]]
  /\ UNCHANGED found => UNCHANGED [m \in OwnMessages |-> found[m]]
  /\ UNCHANGED target => UNCHANGED [m \in OwnMessages |-> target[m]]
  /\ UNCHANGED queued => UNCHANGED {q \in queued : q[2] \in OwnMessages}
  /\ UNCHANGED pc => UNCHANGED [a \in OwnAgents |-> pc[a]]
  /\ UNCHANGED work => UNCHANGED [a \in OwnAgents |-> work[a]]
  /\ UNCHANGED answered => UNCHANGED {p \in answered : p[1] \in OwnMessages}
OBVIOUS

LEMMA OwnResolve ==
  ASSUME RoutingInv, NEW m \in OwnMessages, Resolve(m)
  PROVE  Alone!Resolve(m)
<1>1. disp[m] = "new" /\ UNCHANGED <<registered, left, affinity, found, queued, pc, work, answered>>
  BY DEF Resolve, agentVars
<1>2. \A n : Alone!IsFirstKnown(m, n) <=> IsFirstKnown(m, n)
  BY SameRegistry
<1>3. \A n : IsFirstKnown(m, n) => n \in Names /\ n \in Alone!Names
  BY OwnSubsets DEF IsFirstKnown, Registered, Names, Alone!Names
<1>4. CASE \E n \in Names : IsFirstKnown(m, n) /\ Choose(m, Target(AgentStream(n), n))
  <2>1. PICK n \in Names : IsFirstKnown(m, n) /\ Choose(m, Target(AgentStream(n), n))
    BY <1>4
  <2>2. Alone!Choose(m, Alone!Target(Alone!AgentStream(n), n))
    BY <2>1, OwnChoose, SameNames
  <2>3. \E x \in Alone!Names :
          Alone!IsFirstKnown(m, x) /\ Alone!Choose(m, Alone!Target(Alone!AgentStream(x), x))
    BY <1>2, <1>3, <2>1, <2>2
  <2> QED BY <1>1, <2>3, OwnRest DEF Alone!Resolve, Alone!agentVars
<1>5. CASE ~\E n \in Names : IsFirstKnown(m, n)
  <2>1. ~\E n \in Alone!Names : Alone!IsFirstKnown(m, n)
    BY <1>2, <1>3, <1>5
  <2>2. CASE m.thread # NoName
    <3>1. DispatchTo(m, "affinity") /\ UNCHANGED target
      BY <1>5, <2>2 DEF Resolve
    <3>2. Alone!DispatchTo(m, "affinity")
      BY <3>1, OwnDispatchTo
    <3> QED BY <1>1, <2>1, <2>2, <3>1, <3>2, OwnRest DEF Alone!Resolve, Alone!agentVars
  <2>3. CASE m.thread = NoName
    <3>1. Alone!ByDomain(m)
      BY <1>5, <2>3, OwnByDomain DEF Resolve
    <3> QED BY <1>1, <2>1, <2>3, <3>1, OwnRest DEF Alone!Resolve, Alone!agentVars
  <2> QED BY <2>2, <2>3
<1> QED BY <1>4, <1>5 DEF Resolve

LEMMA OwnLookup ==
  ASSUME RoutingInv, NEW m \in OwnMessages, Lookup(m)
  PROVE  Alone!Lookup(m)
<1>1. /\ disp[m] = "affinity" /\ DispatchTo(m, "choose")
      /\ UNCHANGED <<registered, left, affinity, target, queued, pc, work, answered>>
  BY DEF Lookup, agentVars
<1>2. m.thread # NoName
  BY <1>1, OwnSubsets DEF RoutingInv, AffinityInThread
<1>3. AffinityKey(m, m.thread) \in OwnKeys
  BY <1>2, OwnSubsets DEF ThreadOf
<1>4. Alone!DispatchTo(m, "choose")
  BY <1>1, OwnDispatchTo
<1>5. [k \in OwnMessages |-> found[k]]'
        = [[k \in OwnMessages |-> found[k]] EXCEPT ![m] = affinity[AffinityKey(m, m.thread)]]
  BY OwnSubsets, RestrictExcept DEF Lookup, RoutingInv, TypeOK
<1>6. [k \in OwnMessages |-> found[k]]'
        = [[k \in OwnMessages |-> found[k]]
             EXCEPT ![m] = [k \in OwnKeys |-> affinity[k]][Alone!AffinityKey(m, m.thread)]]
  BY <1>3, <1>5, SameNames
<1> QED BY <1>1, <1>4, <1>6, OwnRest DEF Alone!Lookup, Alone!agentVars

LEMMA OwnChooseFound ==
  ASSUME RoutingInv, NEW m \in OwnMessages, ChooseFound(m)
  PROVE  Alone!ChooseFound(m)
<1>1. /\ disp[m] = "choose"
      /\ UNCHANGED <<registered, left, affinity, queued, pc, work, answered>>
  BY DEF ChooseFound, agentVars
<1>f. [k \in OwnMessages |-> found[k]]' = [[k \in OwnMessages |-> found[k]] EXCEPT ![m] = NoName]
  BY OwnSubsets, RestrictExcept DEF ChooseFound, RoutingInv, TypeOK
<1>2. Alone!Registered(m, found[m]) <=> Registered(m, found[m])
  BY SameRegistry
<1>3. [k \in OwnMessages |-> found[k]][m] = found[m]
  OBVIOUS
<1>4. CASE Registered(m, found[m])
  <2>1. PICK n : n = found[m] /\ Choose(m, Target(AgentStream(n), n))
    BY <1>4 DEF ChooseFound
  <2>2. Alone!Choose(m, Alone!Target(Alone!AgentStream(n), n))
    BY <2>1, OwnChoose, SameNames
  <2>3. [k \in OwnMessages |-> found[k]][m] = n
    BY <2>1
  <2>4. Alone!Registered(m, [k \in OwnMessages |-> found[k]][m])
    BY <1>2, <1>4, <2>1, <2>3, Zenon
  <2> QED BY <1>1, <1>f, <2>2, <2>3, <2>4, OwnRest
          DEF Alone!ChooseFound, Alone!Choose, Alone!Target, Alone!AgentStream, Alone!agentVars
<1>5. CASE ~Registered(m, found[m])
  <2>1. Alone!ByDomain(m)
    BY <1>5, OwnByDomain DEF ChooseFound
  <2> QED BY <1>1, <1>f, <1>2, <1>3, <1>5, <2>1, OwnRest DEF Alone!ChooseFound, Alone!agentVars
<1> QED BY <1>4, <1>5

LEMMA OwnPublish ==
  ASSUME RoutingInv, NEW m \in OwnMessages, Publish(m)
  PROVE  Alone!Publish(m)
<1> DEFINE q == <<FullStream(OrgOf(m.org), target[m][1]), m, target[m][2]>>
<1>1. /\ disp[m] = "publish" /\ DispatchTo(m, "done") /\ queued' = queued \cup {q}
      /\ target' = [target EXCEPT ![m] = NoTarget]
      /\ UNCHANGED <<registered, left, affinity, found, pc, work, answered>>
  BY DEF Publish, agentVars
<1>2. q = <<Alone!FullStream(Alone!OrgOf(m.org), [k \in OwnMessages |-> target[k]][m][1]), m,
            [k \in OwnMessages |-> target[k]][m][2]>>
  BY SameNames
<1>3. q[2] = m
  OBVIOUS
<1> HIDE DEF q
<1>4. {x \in queued : x[2] \in OwnMessages}' = {x \in queued : x[2] \in OwnMessages} \cup {q}
  BY <1>1, <1>3
<1>5. Alone!DispatchTo(m, "done")
  BY <1>1, OwnDispatchTo
<1>6. [k \in OwnMessages |-> disp[k]][m] = "publish"
  BY <1>1
<1>7. [k \in OwnMessages |-> target[k]]' = [[k \in OwnMessages |-> target[k]] EXCEPT ![m] = NoTarget]
  BY <1>1, OwnSubsets, RestrictExcept DEF RoutingInv, TypeOK
<1>8. Alone!NoTarget = NoTarget
  BY DEF Alone!NoTarget, NoTarget
<1> QED BY <1>1, <1>2, <1>4, <1>5, <1>6, <1>7, <1>8, OwnRest DEF Alone!Publish, Alone!agentVars

\* What an agent does, for an org that it is not of.
LEMMA OthersTask ==
  ASSUME RoutingInv, NEW a \in Agents \ OwnAgents,
         Take(a) \/ Reply(a) \/ Claim(a) \/ Reregister(a)
  PROVE  UNCHANGED Alone!routingVars
<1>1. OrgOf(a[1]) # OrgOf(Own)
  BY DEF OwnAgents, Colleagues
<1>2. work[a] \notin OwnMessages
  BY <1>1, NoneAssumption, OwnSubsets DEF RoutingInv, WorkInOrg, OwnMessages
<1>3. DOMAIN pc = Agents /\ DOMAIN work = Agents /\ DOMAIN affinity = AffinityKeys
  BY DEF RoutingInv, TypeOK
<1>4. UNCHANGED OwnDispatch
  BY DEF Take, Reply, Claim, Reregister, dispatchVars, OwnDispatch
<1>5. UNCHANGED OwnRegistry
  BY DEF Take, Reply, Claim, Reregister, OwnRegistry
<1>6. UNCHANGED OwnWork
  <2>1. \A b \in OwnAgents : pc'[b] = pc[b] /\ work'[b] = work[b]
    BY <1>3, OwnSubsets DEF Take, Reply, Claim, Reregister, AgentIdle, agentVars
  <2>2. answered' = answered \/ answered' = answered \cup {<<work[a], a>>}
    BY DEF Take, Reply, Claim, Reregister, agentVars
  <2>3. {p \in answered : p[1] \in OwnMessages}' = {p \in answered : p[1] \in OwnMessages}
    BY <1>2, <2>2
  <2> QED BY <2>1, <2>3 DEF OwnWork
<1>7. UNCHANGED OwnAffinity
  <2> DEFINE key == Scoped(OrgOf(a[1]), ThreadSuffixes(ThreadOf(work[a])).thread_agent_key)
  <2>1. key \notin OwnKeys
    <3>1. SUFFICES ASSUME NEW m \in OwnMessages, key = AffinityKey(m, ThreadOf(m)) PROVE FALSE
      BY DEF OwnKeys
    <3>2. OrgOf(a[1]) = OrgOf(m.org)
      BY <3>1, AffinityKeysApart DEF AffinityKey
    <3> QED BY <1>1, <3>2 DEF OwnMessages
  <2>2. affinity' = affinity \/ affinity' = [affinity EXCEPT ![key] = a[2]]
    BY DEF Take, Reply, Claim, Reregister
  <2> HIDE DEF key
  <2> QED BY <1>3, <2>1, <2>2, OwnSubsets DEF OwnAffinity
<1>8. UNCHANGED OwnQueued
  <2>1. CASE Take(a)
    <3>1. PICK q \in queued : q[1] \in StreamsOf(a) /\ queued' = queued \ {q}
      BY <2>1 DEF Take
    <3>2. q[2] \notin OwnMessages
      BY <1>1, <3>1, TakenInOrg DEF OwnMessages
    <3> QED BY <3>1, <3>2 DEF OwnQueued
  <2>2. CASE UNCHANGED queued
    BY <2>2 DEF OwnQueued
  <2> QED BY <2>1, <2>2 DEF Reply, Claim, Reregister
<1> QED BY <1>4, <1>5, <1>6, <1>7, <1>8, OwnVars

LEMMA OwnStreams ==
  ASSUME NEW a \in OwnAgents
  PROVE  Alone!StreamsOf(a) = StreamsOf(a)
BY SameNames DEF Alone!StreamsOf, StreamsOf

LEMMA OwnTake ==
  ASSUME RoutingInv, NEW a \in OwnAgents, Take(a)
  PROVE  Alone!Take(a)
<1>1. PICK q \in queued :
        q[1] \in StreamsOf(a) /\ queued' = queued \ {q} /\ work' = [work EXCEPT ![a] = q[2]]
  BY DEF Take
<1>2. /\ pc[a] = "idle" /\ pc' = [pc EXCEPT ![a] = "reply"]
      /\ UNCHANGED <<registered, left, affinity, disp, found, target, answered>>
  BY DEF Take, dispatchVars
<1>3. a \in Agents /\ OrgOf(a[1]) = OrgOf(Own) /\ DOMAIN pc = Agents /\ DOMAIN work = Agents
  BY DEF RoutingInv, TypeOK, OwnAgents, Colleagues
<1>4. q[2] \in OwnMessages
  <2>1. OrgOf(q[2].org) = OrgOf(Own)
    BY <1>1, <1>3, TakenInOrg
  <2> QED BY <2>1 DEF OwnMessages, RoutingInv, TypeOK
<1>5. [b \in OwnAgents |-> pc[b]]' = [[b \in OwnAgents |-> pc[b]] EXCEPT ![a] = "reply"]
  BY <1>2, <1>3, OwnSubsets, RestrictExcept
<1>6. [b \in OwnAgents |-> work[b]]' = [[b \in OwnAgents |-> work[b]] EXCEPT ![a] = q[2]]
  BY <1>1, <1>3, OwnSubsets, RestrictExcept
<1>7. /\ q \in {x \in queued : x[2] \in OwnMessages}
      /\ {x \in queued : x[2] \in OwnMessages}' = {x \in queued : x[2] \in OwnMessages} \ {q}
  BY <1>1, <1>4
<1>8. [b \in OwnAgents |-> pc[b]][a] = "idle" /\ q[1] \in Alone!StreamsOf(a)
  BY <1>1, <1>2, OwnStreams
<1> QED BY <1>2, <1>5, <1>6, <1>7, <1>8, OwnRest DEF Alone!Take, Alone!dispatchVars

LEMMA OwnIdle ==
  ASSUME RoutingInv, NEW a \in OwnAgents, AgentIdle(a)
  PROVE  Alone!AgentIdle(a)
<1>1. a \in Agents /\ DOMAIN pc = Agents /\ DOMAIN work = Agents /\ OwnAgents \subseteq Agents
  BY OwnSubsets DEF RoutingInv, TypeOK
<1>2. [b \in OwnAgents |-> pc[b]]' = [[b \in OwnAgents |-> pc[b]] EXCEPT ![a] = "idle"]
  BY <1>1, RestrictExcept DEF AgentIdle
<1>3. [b \in OwnAgents |-> work[b]]' = [[b \in OwnAgents |-> work[b]] EXCEPT ![a] = NoMessage]
  BY <1>1, RestrictExcept DEF AgentIdle
<1> QED BY <1>2, <1>3 DEF Alone!AgentIdle

\* Agents of the org work on its messages.
LEMMA OwnWorkIsOwn ==
  ASSUME RoutingInv, NEW a \in OwnAgents, pc[a] # "idle"
  PROVE  work[a] \in OwnMessages
<1>1. a \in Agents /\ OrgOf(a[1]) = OrgOf(Own)
  BY DEF OwnAgents, Colleagues
<1> QED BY <1>1 DEF RoutingInv, TypeOK, WorkInOrg, OwnMessages

LEMMA OwnReply ==
  ASSUME RoutingInv, NEW a \in OwnAgents, Reply(a)
  PROVE  Alone!Reply(a)
<1>1. pc[a] = "reply" /\ UNCHANGED <<registered, left, affinity, disp, found, target, queued>>
  BY DEF Reply, dispatchVars
<1>2. a \in Agents /\ DOMAIN pc = Agents /\ DOMAIN work = Agents /\ OwnAgents \subseteq Agents
  BY OwnSubsets DEF RoutingInv, TypeOK
<1>3. work[a] \in OwnMessages
  BY <1>1, OwnWorkIsOwn
<1>4. CASE /\ answered' = answered \cup {<<work[a], a>>}
           /\ pc' = [pc EXCEPT ![a] = "claim"] /\ UNCHANGED work
  <2>1. {p \in answered : p[1] \in OwnMessages}'
          = {p \in answered : p[1] \in OwnMessages} \cup {<<[b \in OwnAgents |-> work[b]][a], a>>}
    BY <1>3, <1>4
  <2>2. [b \in OwnAgents |-> pc[b]]' = [[b \in OwnAgents |-> pc[b]] EXCEPT ![a] = "claim"]
    BY <1>2, <1>4, RestrictExcept
  <2> QED BY <1>1, <1>4, <2>1, <2>2, OwnRest DEF Alone!Reply, Alone!dispatchVars
<1>5. CASE AgentIdle(a) /\ UNCHANGED answered
  <2>1. Alone!AgentIdle(a)
    BY <1>5, OwnIdle
  <2> QED BY <1>1, <1>5, <2>1, OwnRest DEF Alone!Reply, Alone!dispatchVars
<1> QED BY <1>4, <1>5 DEF Reply

LEMMA OwnClaim ==
  ASSUME RoutingInv, NEW a \in OwnAgents, Claim(a)
  PROVE  Alone!Claim(a)
<1> DEFINE key == Scoped(OrgOf(a[1]), ThreadSuffixes(ThreadOf(work[a])).thread_agent_key)
<1>1. /\ pc[a] = "claim" /\ AgentIdle(a)
      /\ UNCHANGED <<registered, left, disp, found, target, queued, answered>>
      /\ \/ affinity[key] = NoName /\ affinity' = [affinity EXCEPT ![key] = a[2]]
         \/ UNCHANGED affinity
  BY DEF Claim, dispatchVars
<1>2. Alone!AgentIdle(a)
  BY <1>1, OwnIdle
<1>3. key \in OwnKeys
  <2>1. work[a] \in OwnMessages
    BY <1>1, OwnWorkIsOwn
  <2>2. OrgOf(a[1]) = OrgOf(work[a].org)
    BY <2>1 DEF OwnAgents, OwnMessages, Colleagues
  <2> QED BY <2>1, <2>2, OwnSubsets DEF AffinityKey
<1>4. key = Alone!Scoped(Alone!OrgOf(a[1]),
        Alone!ThreadSuffixes(Alone!ThreadOf([b \in OwnAgents |-> work[b]][a])).thread_agent_key)
  BY SameNames DEF Alone!Scoped, Scoped, Alone!ThreadSuffixes, ThreadSuffixes, Alone!PREFIX, PREFIX
<1>5. DOMAIN affinity = AffinityKeys
  BY DEF RoutingInv, TypeOK
<1> HIDE DEF key
<1>6. \/ /\ [k \in OwnKeys |-> affinity[k]][key] = NoName
         /\ [k \in OwnKeys |-> affinity[k]]' = [[k \in OwnKeys |-> affinity[k]] EXCEPT ![key] = a[2]]
      \/ UNCHANGED [k \in OwnKeys |-> affinity[k]]
  BY <1>1, <1>3, <1>5, OwnSubsets, RestrictExcept
<1>7. [b \in OwnAgents |-> pc[b]][a] = "claim"
  BY <1>1
<1> QED BY <1>1, <1>2, <1>4, <1>6, <1>7, OwnRest DEF Alone!Claim, Alone!dispatchVars

LEMMA OwnReregister ==
  ASSUME RoutingInv, NEW a \in OwnAgents, Reregister(a)
  PROVE  Alone!Reregister(a)
BY OwnRest DEF Reregister, Alone!Reregister, dispatchVars, agentVars, Alone!dispatchVars,
               Alone!agentVars

LEMMA ExpireAlone ==
  ASSUME RoutingInv, NEW key \in OwnKeys, Expire(key)
  PROVE  Alone!Expire(key)
<1>1. /\ affinity[key] # NoName /\ affinity' = [affinity EXCEPT ![key] = NoName]
      /\ UNCHANGED <<registered, left, disp, found, target, queued, pc, work, answered>>
  BY DEF Expire, dispatchVars, agentVars
<1>2. DOMAIN affinity = AffinityKeys /\ OwnKeys \subseteq AffinityKeys
  BY OwnSubsets DEF RoutingInv, TypeOK
<1>3. [k \in OwnKeys |-> affinity[k]]' = [[k \in OwnKeys |-> affinity[k]] EXCEPT ![key] = NoName]
  BY <1>1, <1>2, RestrictExcept
<1>4. [k \in OwnKeys |-> affinity[k]][key] # NoName
  BY <1>1
<1> QED BY <1>1, <1>3, <1>4, OwnRest DEF Alone!Expire, Alone!dispatchVars, Alone!agentVars

LEMMA ExpireOthers ==
  ASSUME RoutingInv, NEW key \in AffinityKeys \ OwnKeys, Expire(key)
  PROVE  UNCHANGED Alone!routingVars
<1>1. /\ affinity' = [affinity EXCEPT ![key] = NoName]
      /\ UNCHANGED <<registered, left, disp, found, target, queued, pc, work, answered>>
  BY DEF Expire, dispatchVars, agentVars
<1>2. UNCHANGED OwnAffinity
  BY <1>1, OwnSubsets DEF OwnAffinity, RoutingInv, TypeOK
<1> QED BY <1>1, <1>2, OwnVars DEF OwnDispatch, OwnWork, OwnRegistry, OwnQueued

LEMMA InitAlone == Init => Alone!Init
<1> SUFFICES ASSUME Init PROVE Alone!Init
  OBVIOUS
<1>1. [k \in OwnKeys |-> affinity[k]] = [k \in Alone!AffinityKeys |-> NoName]
  BY OwnSubsets, SameNames DEF Init
<1> QED BY <1>1, OwnSubsets DEF Init, Alone!Init, NoTarget, Alone!NoTarget

LEMMA NextAlone == RoutingInv /\ [Next]_routingVars => [Alone!Next]_(Alone!routingVars)
<1> SUFFICES ASSUME RoutingInv, [Next]_routingVars
             PROVE  Alone!Next \/ UNCHANGED Alone!routingVars
  OBVIOUS
<1>1. ASSUME NEW m \in Messages, Resolve(m) \/ Lookup(m) \/ ChooseFound(m) \/ Publish(m)
      PROVE  Alone!Next \/ UNCHANGED Alone!routingVars
  <2>1. CASE m \in OwnMessages
    <3>1. Alone!Resolve(m) \/ Alone!Lookup(m) \/ Alone!ChooseFound(m) \/ Alone!Publish(m)
      BY <1>1, <2>1, OwnResolve, OwnLookup, OwnChooseFound, OwnPublish
    <3> QED BY <2>1, <3>1 DEF Alone!Next
  <2>2. CASE m \notin OwnMessages
    BY <1>1, <2>2, OthersDispatch
  <2> QED BY <2>1, <2>2
<1>2. ASSUME NEW a \in Agents, Take(a) \/ Reply(a) \/ Claim(a) \/ Reregister(a)
      PROVE  Alone!Next \/ UNCHANGED Alone!routingVars
  <2>1. CASE a \in OwnAgents
    <3>1. Alone!Take(a) \/ Alone!Reply(a) \/ Alone!Claim(a) \/ Alone!Reregister(a)
      BY <1>2, <2>1, OwnTake, OwnReply, OwnClaim, OwnReregister
    <3> QED BY <2>1, <3>1 DEF Alone!Next
  <2>2. CASE a \notin OwnAgents
    BY <1>2, <2>2, OthersTask
  <2> QED BY <2>1, <2>2
<1>3. ASSUME NEW key \in AffinityKeys, Expire(key)
      PROVE  Alone!Next \/ UNCHANGED Alone!routingVars
  <2>1. CASE key \in OwnKeys
    <3>1. key \in Alone!AffinityKeys
      BY <2>1, SameNames
    <3>2. Alone!Expire(key)
      BY <1>3, <2>1, ExpireAlone
    <3> QED BY <3>1, <3>2 DEF Alone!Next
  <2>2. CASE key \notin OwnKeys
    BY <1>3, <2>2, ExpireOthers
  <2> QED BY <2>1, <2>2
<1>4. CASE UNCHANGED routingVars
  BY <1>4, OwnVars
  DEF routingVars, dispatchVars, agentVars, OwnDispatch, OwnWork, OwnRegistry, OwnAffinity, OwnQueued
<1> QED BY <1>1, <1>2, <1>3, <1>4 DEF Next

\* An org that shares a server, and any names, with others routes its messages
\* as if it were alone: the refinement that the partition of the keys is for
\* (redis_keys.py:226-234; bus_redis.py:101; consumer.py, start).
THEOREM OrgsRouteAlone == Spec => RoutesAlone
<1>1. Init => Alone!Init
  BY InitAlone
<1>2. RoutingInv /\ [Next]_routingVars => [Alone!Next]_(Alone!routingVars)
  BY NextAlone
<1> QED BY <1>1, <1>2, RoutingInvariant, PTL DEF Spec, RoutesAlone, Alone!Spec

=============================================================================
