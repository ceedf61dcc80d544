------------------------------ MODULE MCRouting ------------------------------
(***************************************************************************)
(* The fleet and one hosted org on one server.  Both have an agent n1, a   *)
(* message and a thread "1"; the fleet's dispatcher and agents spell the   *)
(* org id in different ways.                                               *)
(***************************************************************************)
EXTENDS OneOrg

CONSTANTS n1, n2, d

Message(org, id, thread, mentions, dm) ==
  [org |-> org, id |-> id, thread |-> thread, domain |-> d, mentions |-> mentions, dm |-> dm]

TwoOrgs == {<<"personal", n1>>, <<"acme", n1>>, <<"acme", n2>>}
SharedDomain == [a \in TwoOrgs |-> IF a = <<"acme", n1>> THEN {} ELSE {d}]

\* In the org: a message by domain, one in the thread that follows it and one
\* that mentions an agent nobody knows and then n1.  In the fleet, "1" again,
\* for an agent the fleet does not have.
FourMessages ==
  {Message("acme", "1", NoName, <<>>, NoName),
   Message("acme", "2", "1", <<>>, NoName),
   Message("acme", "3", "1", <<"nobody", n1>>, NoName),
   Message(Fleet, "1", NoName, <<>>, n2)}

\* On the names this instance uses, the fleet's keyspace is the module-level one.
ASSUME FleetKeysAssumption == FleetIsGlobal({ThreadOf(m) : m \in FourMessages} \cup {n1, n2})

=============================================================================
