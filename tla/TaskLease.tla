------------------------------ MODULE TaskLease ------------------------------
(***************************************************************************)
(* What a worker that took a task on can rely on.  Unless the task was     *)
(* held for too long, nobody else takes it on meanwhile, and nobody does   *)
(* any more once it is done.  A worker that lives never drops a task that  *)
(* is not done: only the end of the worker gives it up, for somebody to    *)
(* begin again.                                                            *)
(***************************************************************************)
CONSTANTS Tasks, Holders, NoTask

VARIABLES
  up,       \* the workers that live
  doing,    \* the task each worker works on, or NoTask
  started,  \* tasks whose execution was ever started
  done,     \* tasks nobody has to work on any more
  overdue   \* tasks that were once held for too long

leaseVars == <<up, doing, started, done, overdue>>

LeaseInit ==
  /\ up = {}
  /\ doing = [w \in Holders |-> NoTask]
  /\ started = {}
  /\ done = {}
  /\ overdue = {}

Free(t) == t \notin done /\ \A w \in Holders : doing[w] # t

Join ==
  /\ \E W \in SUBSET Holders : up' = up \cup W
  /\ UNCHANGED <<doing, started, done, overdue>>

\* A worker takes a task on, to execute it or to reject it.
Begin(w, t) ==
  /\ w \in up
  /\ doing[w] = NoTask
  /\ Free(t) \/ t \in overdue
  /\ doing' = [doing EXCEPT ![w] = t]
  /\ started' \in {started, started \cup {t}}
  /\ UNCHANGED <<up, done, overdue>>

\* The task is done.  The worker may not know yet, and settle it again.
Settle(w) ==
  /\ doing[w] # NoTask
  /\ done' = done \cup {doing[w]}
  /\ doing' \in {doing, [doing EXCEPT ![w] = NoTask]}
  /\ UNCHANGED <<up, started, overdue>>

\* A task that nobody can work on is done as it is.
Dismiss(t) ==
  /\ Free(t) \/ t \in overdue
  /\ done' = done \cup {t}
  /\ UNCHANGED <<up, doing, started, overdue>>

\* Workers end, and what they had in hand is given up, or just done.
Quit ==
  /\ \E W \in SUBSET Holders :
       /\ up' = up \ W
       /\ doing' = [w \in Holders |-> IF w \in W THEN NoTask ELSE doing[w]]
       /\ \E D \in SUBSET ({doing[w] : w \in W} \ {NoTask}) : done' = done \cup D
  /\ UNCHANGED <<started, overdue>>

\* A task is held for too long.
Expire(t) ==
  /\ overdue' = overdue \cup {t}
  /\ UNCHANGED <<up, doing, started, done>>

LeaseNext ==
  \/ Join \/ Quit
  \/ \E w \in Holders : Settle(w) \/ \E t \in Tasks : Begin(w, t)
  \/ \E t \in Tasks : Dismiss(t) \/ Expire(t)

LeaseSpec == LeaseInit /\ [][LeaseNext]_leaseVars

=============================================================================
