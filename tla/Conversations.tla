---------------------------- MODULE Conversations ----------------------------
(***************************************************************************)
(* Conversations: TaskDispatcher.dispatch() (dispatch.py) takes a message, *)
(* has its payload prepared by ContextRuntime, publishes it and marks the  *)
(* message as responded; agents execute what was published, possibly more  *)
(* than once, and record their responses in the payload's session.  The    *)
(* streams are a set here: AgentMesh says what they do with a task.        *)
(***************************************************************************)
EXTENDS ContextRuntime

VARIABLES
  disp,       \* where the dispatch of each message is
  published,  \* payloads added to a stream:
              \* <<message, session_id, context_version>>
  marked      \* messages marked as responded

vars == <<runtimeVars, disp, published, marked>>

DispatchSteps == {"new", "prepare", "announce", "publish", "mark", "done", "raised"}

TypeOK ==
  /\ RuntimeTypeOK
  /\ disp \in [Messages -> DispatchSteps]
  /\ published \subseteq Messages \X (Sessions \cup {NoSession}) \X Nat
  /\ marked \subseteq Messages

Init ==
  /\ RuntimeInit
  /\ disp = [m \in Messages |-> "new"]
  /\ published = {}
  /\ marked = {}

IsPublished(m) == \E p \in published : p[1] = m

DispatchTo(m, step) == disp' = [disp EXCEPT ![m] = step]

-----------------------------------------------------------------------------

\* The reaction, and the choice of a target: no agent for the message ends
\* the dispatch.  A dispatch that raised may be tried again by its caller.
Receive(m) ==
  /\ disp[m] \in {"new", "raised"}
  /\ \/ DispatchTo(m, "prepare") /\ BeginPrepare(m)
     \/ DispatchTo(m, "done") /\ UNCHANGED runtimeVars
     \/ /\ Fault("channel")
        /\ DispatchTo(m, "raised")
        /\ UNCHANGED <<storeVars, prepareVars, answerVars, kept>>
  /\ UNCHANGED <<published, marked>>

\* Defect: a prepare_payload that failed makes the dispatch raise.
PrepareStepRaises(m) ==
  /\ disp[m] = "prepare"
  /\ Prepare(m)
  /\ DispatchTo(m, CASE prep'[m] # "idle" -> "prepare"
                     [] attached'[m] = NoSession -> "raised"
                     [] OTHER -> "announce")
  /\ UNCHANGED <<published, marked>>

\* A step of prepare_payload, and what it returns to.
PrepareStep(m) ==
  /\ disp[m] = "prepare"
  /\ Prepare(m)
  /\ DispatchTo(m, IF prep'[m] = "idle" THEN "announce" ELSE "prepare")
  /\ UNCHANGED <<published, marked>>

\* The reactions that tell the user, outside any try block.
Announce(m) ==
  /\ disp[m] = "announce"
  /\ \/ DispatchTo(m, "publish") /\ UNCHANGED faults
     \/ Fault("channel") /\ DispatchTo(m, "raised")
  /\ UNCHANGED <<storeVars, prepareVars, answerVars, kept, published, marked>>

\* Defect: the message is marked before its task is published.
PublishMarked(m) ==
  /\ disp[m] = "publish"
  /\ marked' = marked \cup {m}
  /\ \/ /\ published' = published \cup {<<m, attached[m], stamped[m]>>}
        /\ DispatchTo(m, "done")
        /\ UNCHANGED faults
     \/ /\ Fault("bus")
        /\ DispatchTo(m, "raised")
        /\ UNCHANGED published
  /\ UNCHANGED <<storeVars, prepareVars, answerVars, kept>>

\* publish(): if it raises, the task may be on the stream or not.
Publish(m) ==
  LET added == published \cup {<<m, attached[m], stamped[m]>>} IN
  /\ disp[m] = "publish"
  /\ \/ /\ published' = added
        /\ DispatchTo(m, "mark")
        /\ UNCHANGED faults
     \/ /\ Fault("bus")
        /\ published' \in {published, added}
        /\ DispatchTo(m, "raised")
  /\ UNCHANGED <<storeVars, prepareVars, answerVars, kept, marked>>

Mark(m) ==
  /\ disp[m] = "mark"
  /\ \/ /\ marked' = marked \cup {m}
        /\ DispatchTo(m, "done")
        /\ UNCHANGED faults
     \/ /\ Fault("tracker")
        /\ marked' \in {marked, marked \cup {m}}
        /\ DispatchTo(m, "raised")
  /\ UNCHANGED <<storeVars, prepareVars, answerVars, kept, published>>

\* An agent executes a published task and has its response recorded.
Execute(m) ==
  /\ \E p \in published : p[1] = m /\ BeginAnswer(m, p[2], p[3])
  /\ UNCHANGED <<disp, published, marked>>

AnswerStep(m) == Answer(m) /\ UNCHANGED <<disp, published, marked>>

Others ==
  /\ WriteBack \/ \E s \in Sessions : Keep(s)
  /\ UNCHANGED <<disp, published, marked>>

Next ==
  \/ \E m \in Messages :
       \/ Receive(m) \/ PrepareStep(m) \/ Announce(m) \/ Publish(m) \/ Mark(m)
       \/ Execute(m) \/ AnswerStep(m)
  \/ Others

Spec == Init /\ [][Next]_vars

\* The store answers or raises, and the event loop resumes the coroutine.
FairSpec == Spec /\ \A m \in Messages : WF_vars(PrepareStep(m))

-----------------------------------------------------------------------------

\* A session has an answer to a message only if it has the message: a
\* payload gets its session_id after the message was recorded, or not at
\* all, however prepare_payload failed.
AnsweredWasRecorded ==
  \A s \in Sessions : \A line_ \in Bots(s) : User(line_[2]) \in transcript[s]

\* turn_count never counts an answer the session does not have, so that a
\* context version stands for no more than was said (record_response adds
\* the line before it counts the turn).
TurnsAreAnswers ==
  \A s \in Sessions : Exists(s) => saved[s].turns <= Cardinality(Bots(s))

\* A session that nobody answered in and that has a message has the whole
\* history the message brought as well: seeding that fails half-way leaves
\* the message out.
SeededFirst ==
  \A s \in Sessions : \A m \in Messages :
    User(m) \in transcript[s] /\ Bots(s) = {} =>
      \A i \in 1 .. HistoryLen(m) : History(m, i) \in transcript[s]

\* The context version of a prompt rendered from the session counts no answer
\* that the prompt does not show, whoever answers between the two reads of
\* build_prompt: its snapshot id never names a later state of the session than
\* the one the provider was given.  When the store raises, the prompt shows
\* nothing of the session and goes with the payload's version, which counts
\* no answer the session does not have.
VersionIsShown ==
  \A m \in Messages : answer[m] = "get" =>
    version[m] <= IF shown[m] = None THEN Cardinality(Bots(target[m])) ELSE shown[m]

\* A message is marked as responded only when its task is on a stream.
MarkedIsPublished == \A m \in marked : IsPublished(m)

\* prepare_payload never blocks a dispatch and never makes it raise: it fails
\* open.
NeverBlocked == \A m \in Messages : disp[m] = "prepare" ~> disp[m] = "announce"

Talk == INSTANCE Dialogue
  WITH HistoryOf <- [m \in Messages |-> HistoryLen(m)],
       lines     <- transcript,
       counted   <- [s \in Sessions |-> IF Exists(s) THEN saved[s].turns ELSE 0],
       tasks     <- {<<p[1], p[2]>> : p \in published},
       settled   <- marked

\* Dispatchers and agents together keep to the dialogue: whichever of their
\* calls fail and however often a message is dispatched and executed, a task
\* carries a session only if the session has its message, after the history
\* of the message or an answer, and an execution answers once, in the session
\* of a task that was published.
ImplementsDialogue == Talk!DialogueSpec

\* A new session is seeded from one message's history: no line twice.
SeededOnce ==
  \A s \in Sessions : \A i \in 1 .. MaxHistory : \A m, n \in Messages :
    History(m, i) \in transcript[s] /\ History(n, i) \in transcript[s] => m = n

=============================================================================
