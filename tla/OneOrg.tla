-------------------------------- MODULE OneOrg --------------------------------
(***************************************************************************)
(* What the partition of redis_keys.py is for: an org that shares the      *)
(* server with others, and names of agents, threads and messages with      *)
(* them, routes its messages as if it were alone.  Nothing that others do  *)
(* is an event for it, and nothing it does depends on them.                *)
(***************************************************************************)
EXTENDS Routing

CONSTANT Own  \* the org

OwnAgents == Colleagues(Own)
OwnMessages == {m \in Messages : OrgOf(m.org) = OrgOf(Own)}
OwnKeys == {AffinityKey(m, ThreadOf(m)) : m \in OwnMessages}

\* The part of the state that is the org's.
Alone == INSTANCE Routing WITH
  Agents <- OwnAgents,
  DomainsOf <- [a \in OwnAgents |-> DomainsOf[a]],
  Messages <- OwnMessages,
  registered <- registered \cap OwnAgents,
  left <- left \cap OwnAgents,
  affinity <- [k \in OwnKeys |-> affinity[k]],
  disp <- [m \in OwnMessages |-> disp[m]],
  found <- [m \in OwnMessages |-> found[m]],
  target <- [m \in OwnMessages |-> target[m]],
  queued <- {q \in queued : q[2] \in OwnMessages},
  pc <- [a \in OwnAgents |-> pc[a]],
  work <- [a \in OwnAgents |-> work[a]],
  answered <- {p \in answered : p[1] \in OwnMessages}

\* The org's part of a server that many share is a server of its own: no key
\* of another org is one of its streams or affinities, and no colleague is
\* taken from another org's registry.
RoutesAlone == Alone!Spec

=============================================================================
