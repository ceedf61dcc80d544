--------------------------- MODULE AtLeastOnceQueue ---------------------------
(***************************************************************************)
(* What the task streams promise, whatever fails: once sent, a task is     *)
(* owed until an attempt to process it has come to its end, unless its     *)
(* content is gone first; and a task that is not owed any more never is    *)
(* again.  Nothing is said of how often it is attempted.                   *)
(***************************************************************************)
CONSTANTS
  Tasks,
  Junk   \* tasks that nobody can read

VARIABLES
  sent,       \* tasks sent
  owed,       \* tasks the queue still has to deliver, or to hear about
  attempted,  \* tasks an attempt was made at
  gone        \* tasks whose content the queue dropped

queueVars == <<sent, owed, attempted, gone>>

QueueInit ==
  /\ sent = {}
  /\ owed = {}
  /\ attempted = {}
  /\ gone = {}

\* A queue of bounded length makes room by dropping the content of the tasks
\* T, and forgets those of them it had not delivered.
Send(t) ==
  /\ t \in Tasks \ sent
  /\ sent' = sent \cup {t}
  /\ \E T \in SUBSET sent' :
       /\ gone' = gone \cup T
       /\ \E D \in SUBSET T : owed' = (owed \cup {t}) \ D
  /\ UNCHANGED attempted

\* An attempt at a task ends; it may be a repeated one.
Attempt(t) ==
  /\ t \in sent
  /\ attempted' = attempted \cup {t}
  /\ UNCHANGED <<sent, owed, gone>>

\* Tasks stop being owed.
Discharge ==
  /\ \E D \in SUBSET (owed \cap (attempted \cup gone \cup Junk)) :
       owed' = owed \ D
  /\ UNCHANGED <<sent, attempted, gone>>

\* The queue loses tasks.
Lose ==
  /\ \E T \in SUBSET sent :
       /\ gone' = gone \cup T
       /\ \E D \in SUBSET gone' : owed' = owed \ D
  /\ UNCHANGED <<sent, attempted>>

QueueNext ==
  \/ \E t \in Tasks : Send(t) \/ Attempt(t)
  \/ Discharge
  \/ Lose

QueueSpec == QueueInit /\ [][QueueNext]_queueVars

=============================================================================
