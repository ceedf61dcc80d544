---------------------------- MODULE ContextRuntime ----------------------------
(***************************************************************************)
(* ContextRuntime (context_runtime.py) and the SessionManager operations   *)
(* it calls (session/manager.py): prepare_payload() on the dispatching     *)
(* side, build_prompt() and record_assistant_response() on the agent's,    *)
(* and a caller who closes or touches a session.  Each awaits the store    *)
(* several times and keeps a copy of a Session object meanwhile.           *)
(*                                                                         *)
(* The calls of ContextRuntime fail open: whatever the store raises ends   *)
(* them without an error.                                                  *)
(***************************************************************************)
EXTENDS SessionStore, Domains, Sequences

CONSTANTS
  PayloadOf,   \* the payload of each message:
               \* [id, thread, dm, room, sender, source, workflow, domain, context]
  None,        \* what a payload does not have
  FaultKinds,  \* the kinds of fault that may happen
  MaxFaults    \* how many faults may happen

ASSUME FaultsAssumption == MaxFaults \in Nat

-----------------------------------------------------------------------------
(* What a payload says about its conversation.                             *)

\* _session_thread_id(): the thread, or the pair of a direct message, or the
\* thread that the message will start in its room, or its workflow's.
SessionThread(p) ==
  CASE p.thread # None -> p.thread
    [] p.thread = None /\ p.dm # None ->
         <<"dm", IF p.room # None THEN p.room ELSE p.dm, p.sender>>
    [] p.thread = None /\ p.dm = None /\ p.room = None /\ p.workflow # None ->
         <<p.source, p.workflow>>
    [] OTHER -> p.id

ThreadOf(m) == <<ParseDomain(PayloadOf[m].domain), SessionThread(PayloadOf[m])>>

\* _bootstrap_messages(): the lines of thread_context that are not blank, and
\* not the message itself if that comes last ("own").
Bootstrap(context) ==
  LET lines == SelectSeq(context, LAMBDA text : text # "blank") IN
  IF lines # <<>> /\ lines[Len(lines)] = "own"
  THEN SubSeq(lines, 1, Len(lines) - 1) ELSE lines

HistoryLen(m) == Len(Bootstrap(PayloadOf[m].context))

ASSUME ThreadsAssumption == \A m \in Messages : ThreadOf(m) \in Threads
ASSUME HistoryAssumption == \A m \in Messages : HistoryLen(m) \in 0 .. MaxHistory

-----------------------------------------------------------------------------

VARIABLES
  prep,      \* where the prepare_payload of each message is
  session,   \* the session it works in
  line,      \* the next line of history it records
  attached,  \* session_id of the payload it returned
  stamped,   \* context_version of that payload, 0 without a session
  answer,    \* where the execution of each message is
  target,    \* the session_id of its payload
  version,   \* the context version of its payload, then of its prompt
  shown,     \* how many answers its prompt shows of the session, None when
             \* the prompt was not rendered from the session
  held,      \* the Session object it holds
  executed,  \* how often each message was executed
  kept,      \* the Session object some caller of close() or touch() holds
  faults     \* how many faults have happened

prepareVars == <<prep, session, line, attached, stamped>>
promptVars == <<version, shown>>
answerVars == <<answer, target, promptVars, held, executed>>
runtimeVars == <<storeVars, prepareVars, answerVars, kept, faults>>

RuntimeTypeOK ==
  /\ StoreTypeOK
  /\ prep \in [Messages -> {"idle", "lookup", "create", "seed", "record"}]
  /\ session \in [Messages -> Sessions \cup {NoSession}]
  /\ line \in [Messages -> 1 .. MaxHistory + 1]
  /\ attached \in [Messages -> Sessions \cup {NoSession}]
  /\ stamped \in [Messages -> Nat]
  /\ answer \in [Messages -> {"idle", "prompt", "context", "get", "add", "update"}]
  /\ version \in [Messages -> Nat]
  /\ shown \in [Messages -> Nat \cup {None}]
  /\ target \in [Messages -> Sessions \cup {NoSession}]
  /\ held \in [Messages -> SessionObjects \cup {NoSession}]
  /\ executed \in [Messages -> 0 .. Executions]
  /\ kept \in SessionObjects \cup {NoSession}
  /\ faults \in 0 .. MaxFaults

RuntimeInit ==
  /\ StoreInit
  /\ prep = [m \in Messages |-> "idle"]
  /\ session = [m \in Messages |-> NoSession]
  /\ line = [m \in Messages |-> 1]
  /\ attached = [m \in Messages |-> NoSession]
  /\ stamped = [m \in Messages |-> 0]
  /\ answer = [m \in Messages |-> "idle"]
  /\ target = [m \in Messages |-> NoSession]
  /\ version = [m \in Messages |-> 0]
  /\ shown = [m \in Messages |-> None]
  /\ held = [m \in Messages |-> NoSession]
  /\ executed = [m \in Messages |-> 0]
  /\ kept = NoSession
  /\ faults = 0

Fault(kind) ==
  /\ kind \in FaultKinds
  /\ faults < MaxFaults
  /\ faults' = faults + 1

\* A call that raises, before or after it had its effect on the store.
Fails(call) == Fault("store") /\ (call \/ UNCHANGED storeVars)

-----------------------------------------------------------------------------
(* prepare_payload()                                                       *)

PrepareTo(m, step) == prep' = [prep EXCEPT ![m] = step]

BeginPrepare(m) ==
  /\ prep[m] = "idle"
  /\ PrepareTo(m, "lookup")
  /\ session' = [session EXCEPT ![m] = NoSession]
  /\ line' = [line EXCEPT ![m] = 1]
  /\ attached' = [attached EXCEPT ![m] = NoSession]
  /\ stamped' = [stamped EXCEPT ![m] = 0]
  /\ UNCHANGED <<storeVars, answerVars, kept, faults>>

\* It returns a payload with session s and context version v.
PrepareReturns(m, s, v) ==
  /\ PrepareTo(m, "idle")
  /\ attached' = [attached EXCEPT ![m] = s]
  /\ stamped' = [stamped EXCEPT ![m] = v]
  /\ session' = [session EXCEPT ![m] = NoSession]

\* Defect: the session found so far stays in the payload.
GiveUpAttached(m) == PrepareReturns(m, session[m], 0) /\ UNCHANGED line

\* except Exception: the payload goes on as it came.
GiveUp(m) == PrepareReturns(m, NoSession, 0) /\ UNCHANGED line

\* A session nobody has answered in is seeded with the message's history.
WorkIn(m, object) ==
  /\ session' = [session EXCEPT ![m] = object.id]
  /\ PrepareTo(m, IF object.turns = 0 /\ HistoryLen(m) > 0 THEN "seed" ELSE "record")
  /\ UNCHANGED <<line, attached, stamped>>

\* get_or_create(): look the session up, and create it if there is none.
Lookup(m) ==
  LET s == index[ThreadOf(m)] IN
  /\ prep[m] = "lookup"
  /\ \/ /\ s # NoSession
        /\ WorkIn(m, saved[s])
        /\ UNCHANGED <<storeVars, faults>>
     \/ /\ s = NoSession
        /\ PrepareTo(m, "create")
        /\ UNCHANGED <<session, line, attached, stamped, storeVars, faults>>
     \/ Fails(FALSE) /\ GiveUp(m)
  /\ UNCHANGED <<answerVars, kept>>

Create(m) ==
  /\ prep[m] = "create"
  /\ \E s \in Sessions :
       \/ /\ StoreCreate(ThreadOf(m), s)
          /\ WorkIn(m, saved'[s])
          /\ UNCHANGED faults
       \/ Fails(StoreCreate(ThreadOf(m), s)) /\ GiveUp(m)
  /\ UNCHANGED <<answerVars, kept>>

\* Defect: a line that cannot be recorded ends the seeding, not the call.
SeedPartly(m) ==
  /\ prep[m] = "seed"
  /\ \/ /\ StoreAdd(session[m], History(m, line[m]))
        /\ line' = [line EXCEPT ![m] = @ + 1]
        /\ PrepareTo(m, IF line[m] = HistoryLen(m) THEN "record" ELSE "seed")
        /\ UNCHANGED faults
     \/ /\ Fails(FALSE)
        /\ PrepareTo(m, "record")
        /\ UNCHANGED line
  /\ UNCHANGED <<session, attached, stamped, answerVars, kept>>

\* Defect: one line too many.
SeedOneMore(m) ==
  /\ prep[m] = "seed"
  /\ StoreAdd(session[m], History(m, line[m]))
  /\ line' = [line EXCEPT ![m] = @ + 1]
  /\ PrepareTo(m, IF line[m] > HistoryLen(m) THEN "record" ELSE "seed")
  /\ UNCHANGED <<session, attached, stamped, answerVars, kept, faults>>

\* _bootstrap_from_thread_context(): the history, line by line.
Seed(m) ==
  LET added == StoreAdd(session[m], History(m, line[m])) IN
  /\ prep[m] = "seed"
  /\ \/ /\ added
        /\ line' = [line EXCEPT ![m] = @ + 1]
        /\ PrepareTo(m, IF line[m] = HistoryLen(m) THEN "record" ELSE "seed")
        /\ UNCHANGED <<session, attached, stamped, faults>>
     \/ Fails(added) /\ GiveUp(m)
  /\ UNCHANGED <<answerVars, kept>>

\* The payload's version is the turn_count of the Session that the store
\* returns with the message.
Record(m) ==
  LET s == session[m]
      added == StoreAdd(s, User(m)) IN
  /\ prep[m] = "record"
  /\ \/ added /\ PrepareReturns(m, s, saved[s].turns) /\ UNCHANGED <<line, faults>>
     \/ Fails(added) /\ GiveUp(m)
  /\ UNCHANGED <<answerVars, kept>>

Prepare(m) == Lookup(m) \/ Create(m) \/ Seed(m) \/ Record(m)

-----------------------------------------------------------------------------
(* An execution: build_prompt(), execute_fn, record_assistant_response().  *)

\* Called with the session_id and the context_version of the payload executed:
\* without a session there is nothing to do.
BeginAnswer(m, s, v) ==
  /\ answer[m] = "idle"
  /\ executed[m] < Executions
  /\ executed' = [executed EXCEPT ![m] = @ + 1]
  /\ target' = [target EXCEPT ![m] = s]
  /\ version' = [version EXCEPT ![m] = v]
  /\ answer' = [answer EXCEPT ![m] = IF s = NoSession THEN "idle" ELSE "prompt"]
  /\ UNCHANGED <<storeVars, prepareVars, shown, held, kept, faults>>

AnswerTo(m, step) == answer' = [answer EXCEPT ![m] = step]

\* The prompt goes to execute_fn as it came, with the payload's version.
PlainPrompt(m) ==
  /\ Fault("store")
  /\ AnswerTo(m, "get")
  /\ held' = [held EXCEPT ![m] = NoSession]
  /\ UNCHANGED <<version, shown>>

\* Defect: the context is read first and the version after it.
PromptBackwards(m) ==
  /\ \/ /\ answer[m] = "prompt"
        /\ AnswerTo(m, "context")
        /\ shown' = [shown EXCEPT ![m] = Cardinality(Bots(target[m]))]
        /\ UNCHANGED <<version, faults>>
     \/ /\ answer[m] = "context"
        /\ AnswerTo(m, "get")
        /\ version' = [version EXCEPT ![m] = saved[target[m]].turns]
        /\ UNCHANGED <<shown, faults>>
  /\ UNCHANGED <<storeVars, prepareVars, target, held, executed, kept>>

\* build_prompt(): the session is got, then its context is rendered; the
\* version of that prompt is the turn_count of the session got.
Prompt(m) ==
  /\ \/ /\ answer[m] = "prompt"
        /\ Exists(target[m])
        /\ AnswerTo(m, "context")
        /\ held' = [held EXCEPT ![m] = saved[target[m]]]
        /\ UNCHANGED <<version, shown, faults>>
     \/ /\ answer[m] = "context"
        /\ AnswerTo(m, "get")
        /\ version' = [version EXCEPT ![m] = held[m].turns]
        /\ shown' = [shown EXCEPT ![m] = Cardinality(Bots(target[m]))]
        /\ held' = [held EXCEPT ![m] = NoSession]
        /\ UNCHANGED faults
     \/ answer[m] \in {"prompt", "context"} /\ PlainPrompt(m)
  /\ UNCHANGED <<storeVars, prepareVars, target, executed, kept>>

\* It returns, with a new context version or without.
AnswerReturns(m) ==
  /\ AnswerTo(m, "idle")
  /\ target' = [target EXCEPT ![m] = NoSession]
  /\ version' = [version EXCEPT ![m] = 0]
  /\ shown' = [shown EXCEPT ![m] = None]
  /\ held' = [held EXCEPT ![m] = NoSession]

\* The store has no such session, or raises.
AnswerFails(m, call) == Fails(call) /\ AnswerReturns(m)

\* The session is got again, if execute_fn has a response.
GetSession(m) ==
  /\ answer[m] = "get"
  /\ \/ /\ Exists(target[m])
        /\ AnswerTo(m, "add")
        /\ UNCHANGED <<storeVars, target, promptVars, held, faults>>
     \/ AnswerReturns(m) /\ UNCHANGED <<storeVars, faults>>
     \/ AnswerFails(m, FALSE)
  /\ UNCHANGED <<prepareVars, executed, kept>>

\* Defect: the turn is counted even if the line could not be recorded.
AddAnswerUnchecked(m) ==
  /\ answer[m] = "add"
  /\ answer' = [answer EXCEPT ![m] = "update"]
  /\ held' = [held EXCEPT ![m] = saved[target[m]]]
  /\ \/ StoreAdd(target[m], Bot(m, executed[m])) /\ UNCHANGED faults
     \/ Fails(FALSE)
  /\ UNCHANGED <<prepareVars, target, promptVars, executed, kept>>

\* record_response(): the line is recorded, and the Session object returned
\* with that answer is what the turn is counted in.
AddAnswer(m) ==
  LET added == StoreAdd(target[m], Bot(m, executed[m])) IN
  /\ answer[m] = "add"
  /\ \/ /\ added
        /\ answer' = [answer EXCEPT ![m] = "update"]
        /\ held' = [held EXCEPT ![m] = saved[target[m]]]
        /\ UNCHANGED <<target, promptVars, faults>>
     \/ AnswerFails(m, added)
  /\ UNCHANGED <<prepareVars, executed, kept>>

CountTurn(m) ==
  LET updated == StoreUpdate([held[m] EXCEPT !.turns = @ + 1]) IN
  /\ answer[m] = "update"
  /\ \/ updated /\ AnswerReturns(m) /\ UNCHANGED faults
     \/ AnswerFails(m, updated)
  /\ UNCHANGED <<prepareVars, executed, kept>>

Answer(m) == Prompt(m) \/ GetSession(m) \/ AddAnswer(m) \/ CountTurn(m)

-----------------------------------------------------------------------------
(* close() and touch() write back the Session object of their caller.      *)

Keep(s) ==
  /\ kept = NoSession
  /\ Exists(s)
  /\ kept' = saved[s]
  /\ UNCHANGED <<storeVars, prepareVars, answerVars, faults>>

WriteBack ==
  /\ kept # NoSession
  /\ \E state \in {kept.state, "archived"} :
       StoreUpdate([kept EXCEPT !.state = state])
  /\ kept' = NoSession
  /\ UNCHANGED <<prepareVars, answerVars, faults>>

=============================================================================
