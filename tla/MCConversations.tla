---------------------------- MODULE MCConversations ----------------------------
(***************************************************************************)
(* Small conversations for TLC: a message that starts a thread and one in  *)
(* that thread, each with the history its channel gave it.                  *)
(***************************************************************************)
EXTENDS Conversations

CONSTANTS m1, m2

TwoMessages == {m1, m2}
TwoSessions == {"s1", "s2"}

Payload(id, thread, domain, context) ==
  [id |-> id, thread |-> thread, dm |-> None, room |-> "room", sender |-> "ann",
   source |-> "slack", workflow |-> None, domain |-> domain, context |-> context]

ThreadPayloads ==
  [m \in TwoMessages |->
     IF m = m1 THEN Payload("1", None, "dev", <<"line", "blank", "line", "own">>)
     ELSE Payload("2", "1", "eng", <<"line">>)]

OneThread == {<<"eng", "1">>}

=============================================================================
