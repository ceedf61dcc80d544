------------------------------ MODULE MCAgentMesh ------------------------------
(***************************************************************************)
(* Small meshes for TLC.                                                   *)
(***************************************************************************)
EXTENDS AgentMesh

CONSTANTS a1, a2

\* Two agents of one domain.
PairAgents == {a1, a2}
PairStreams == {"domain"}
PairSubscriptions == PairAgents \X PairStreams

\* One agent with a domain stream and its own stream.
SoloAgents == {a1}
SoloStreams == {"domain", "agent"}
SoloSubscriptions == SoloAgents \X SoloStreams

TwoEntries == 1 .. 2
ThreeEntries == 1 .. 3

\* Every entry on the domain stream.
OneStream == [e \in Entries |-> "domain"]
\* Entry 1 on the domain stream, 2 on the agent's.
Alternating == [e \in Entries |-> IF e = 2 THEN "agent" ELSE "domain"]

AllTasks == [e \in Entries |-> "task"]
\* One of each kind.
Mixed == [e \in Entries |-> CASE e = 1 -> "task"
                              [] e = 2 -> "badjson"
                              [] OTHER -> "garbled"]
=============================================================================
