----------------------------- MODULE SessionStore -----------------------------
(***************************************************************************)
(* The session store behind SessionManager.  src/ has only its protocol    *)
(* (session/store.py): a store keeps Session objects, finds one by thread, *)
(* records messages in its transcript and persists the whole object given  *)
(* to update().  A call is one atomic step, and what it returns is a copy. *)
(*                                                                         *)
(* Of a Session its thread, turn_count and state are kept.  The tiers of a *)
(* transcript (hot, warm, cold) are one set of lines; a line is            *)
(*   <<"user", m, 0>>     the incoming message m                           *)
(*   <<"history", m, i>>  line i of the thread history that m brought      *)
(*   <<"bot", m, k>>      the response of the k-th execution of m          *)
(***************************************************************************)
EXTENDS Naturals, FiniteSets

CONSTANTS
  Sessions,    \* session ids
  Threads,     \* conversation threads, <<domain, thread id>>
  Messages,    \* incoming messages
  NoSession,
  MaxHistory,  \* most lines of history a message brings
  Executions   \* how often a message may be executed

ASSUME BoundsAssumption == MaxHistory \in Nat /\ Executions \in Nat

VARIABLES
  saved,      \* the persisted Session objects
  index,      \* the session get_by_thread finds
  transcript  \* the lines recorded in each session

storeVars == <<saved, index, transcript>>

User(m) == <<"user", m, 0>>
History(m, i) == <<"history", m, i>>
Bot(m, k) == <<"bot", m, k>>

Lines ==
  {User(m) : m \in Messages}
  \cup {History(m, i) : m \in Messages, i \in 1 .. MaxHistory}
  \cup {Bot(m, k) : m \in Messages, k \in 1 .. Executions}

States == {"active", "archived"}
SessionObjects ==
  [id : Sessions, thread : Threads, turns : Nat, state : States]

ASSUME SessionsAssumption == NoSession \notin Sessions \cup SessionObjects

StoreTypeOK ==
  /\ saved \in [Sessions -> SessionObjects \cup {NoSession}]
  /\ \A s \in Sessions : saved[s] # NoSession => saved[s].id = s
  /\ index \in [Threads -> Sessions \cup {NoSession}]
  /\ transcript \in [Sessions -> SUBSET Lines]

StoreInit ==
  /\ saved = [s \in Sessions |-> NoSession]
  /\ index = [t \in Threads |-> NoSession]
  /\ transcript = [s \in Sessions |-> {}]

Exists(s) == saved[s] # NoSession

\* create(): a new session, which its thread finds from now on.
StoreCreate(t, s) ==
  /\ ~Exists(s)
  /\ saved' = [saved EXCEPT
       ![s] = [id |-> s, thread |-> t, turns |-> 0, state |-> "active"]]
  /\ index' = [index EXCEPT ![t] = s]
  /\ UNCHANGED transcript

\* add_message(): the transcript grows; the Session returned is saved[s].
StoreAdd(s, line) ==
  /\ transcript' = [transcript EXCEPT ![s] = @ \cup {line}]
  /\ UNCHANGED <<saved, index>>

\* update(): the object given replaces the one saved.
StoreUpdate(object) ==
  /\ saved' = [saved EXCEPT ![object.id] = object]
  /\ UNCHANGED <<index, transcript>>

Bots(s) == {line \in transcript[s] : line[1] = "bot"}

=============================================================================
