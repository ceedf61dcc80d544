--------------------------- MODULE MCSessionManager ---------------------------
(* Two callers of one manager; two senders, with and without threads.      *)
EXTENDS SessionManager

CONSTANTS c1, c2, s1, s2, s3, s4, x1, x2, t1, t2

TwoCallers == {c1, c2}
FourSessions == {s1, s2, s3, s4}
TwoTopics == {x1, x2}
NoMessages == {}

Request(channel, thread, sender, name, domain) ==
  [channel |-> channel, thread |-> thread, sender |-> sender, name |-> name,
   room |-> "room", domain |-> domain]

\* A sender without threads whose channel decides on the domain, another one
\* in the same channel, and two requests on a thread: with a domain's alias,
\* and with a name the resolver knows.  The last two raise.
SomeRequests ==
  {Request("imessage", None, "ann", "home", None),
   Request("imessage", None, "bob", "home", None),
   Request("slack", t1, "ann", "home", "dev"),
   Request("slack", t1, "ann", "lab", None),
   Request("slack", t1, "ann", "home", "sales"),
   Request("synapse", t1, "ann", "home", None)}

Lab == [n \in {"lab"} |-> "research"]

SomeThreads ==
  {<<"eng", t1>>, <<"research", t1>>}
  \cup {<<"personal", <<k, n>>>> : k \in {<<"imessage", "ann">>, <<"imessage", "bob">>}, n \in 1 .. MaxCalls}

=============================================================================
