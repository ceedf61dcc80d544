------------------------------- MODULE Dialogue -------------------------------
(***************************************************************************)
(* What the two ends of the mesh promise about a conversation: a session   *)
(* gets a message after the history that came with it, unless it already   *)
(* has answers; a task carries a session that has its message, or none; an *)
(* answer is said in the session of a task that was posted, once; and no   *)
(* more turns are counted than answers were said.                          *)
(***************************************************************************)
EXTENDS Naturals, FiniteSets

CONSTANTS
  Sessions,
  Messages,
  NoSession,
  HistoryOf,  \* how many lines of history each message brings
  Executions  \* how often a message may be executed

VARIABLES
  lines,      \* what was said in each session
  counted,    \* the turns counted in each session
  tasks,      \* tasks posted, <<message, session>>
  settled     \* messages that need no other task

dialogueVars == <<lines, counted, tasks, settled>>

Message(m) == <<"user", m, 0>>
Earlier(m, i) == <<"history", m, i>>
Reply(m, k) == <<"bot", m, k>>
Replies(s) == {line \in lines[s] : line[1] = "bot"}

DialogueInit ==
  /\ lines = [s \in Sessions |-> {}]
  /\ counted = [s \in Sessions |-> 0]
  /\ tasks = {}
  /\ settled = {}

Add(s, line) ==
  /\ lines' = [lines EXCEPT ![s] = @ \cup {line}]
  /\ UNCHANGED <<counted, tasks, settled>>

\* The history of a message, from its beginning.
Recall(s, m, i) ==
  /\ \A j \in 1 .. i - 1 : Earlier(m, j) \in lines[s]
  /\ Add(s, Earlier(m, i))

Hear(s, m) ==
  /\ Replies(s) # {} \/ \A i \in 1 .. HistoryOf[m] : Earlier(m, i) \in lines[s]
  /\ Add(s, Message(m))

Post(m, s) ==
  /\ s # NoSession => Message(m) \in lines[s]
  /\ tasks' = tasks \cup {<<m, s>>}
  /\ UNCHANGED <<lines, counted, settled>>

Settle(m) ==
  /\ \E s \in Sessions \cup {NoSession} : <<m, s>> \in tasks
  /\ settled' = settled \cup {m}
  /\ UNCHANGED <<lines, counted, tasks>>

Say(s, m, k) ==
  /\ <<m, s>> \in tasks
  /\ Reply(m, k) \notin lines[s]
  /\ Add(s, Reply(m, k))

\* Turns may be counted late, and counted again from an earlier number.
Count(s) ==
  /\ \E n \in 0 .. Cardinality(Replies(s)) : counted' = [counted EXCEPT ![s] = n]
  /\ UNCHANGED <<lines, tasks, settled>>

DialogueNext ==
  \/ \E m \in Messages, s \in Sessions :
       \/ Hear(s, m)
       \/ \E i \in 1 .. HistoryOf[m] : Recall(s, m, i)
       \/ \E k \in 1 .. Executions : Say(s, m, k)
  \/ \E s \in Sessions : Count(s)
  \/ \E m \in Messages :
       \/ \E s \in Sessions \cup {NoSession} : Post(m, s)
       \/ Settle(m)

DialogueSpec == DialogueInit /\ [][DialogueNext]_dialogueVars

=============================================================================
