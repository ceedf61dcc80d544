------------------------- MODULE Conversations_proofs -------------------------
(***************************************************************************)
(* Proofs about Conversations.tla, for any messages, threads, sessions,    *)
(* histories, executions and faults: what a session's transcript says of   *)
(* the messages, answers and turns recorded in it.                         *)
(*                                                                         *)
(* Every step does one thing to the store, or nothing (StoreStep), and the *)
(* store only grows.  The invariants then follow from where each dispatch  *)
(* and each execution is when it does its part.                            *)
(***************************************************************************)
EXTENDS Conversations, FiniteSetTheorems, TLAPS

StoreInv ==
  /\ StoreTypeOK
  /\ \A t \in Threads : index[t] # NoSession => Exists(index[t])

\* What the steps of prepare_payload and of an execution have in hand.
InHand ==
  /\ \A m \in Messages :
       /\ prep[m] \in {"lookup", "create"} => line[m] = 1
       /\ prep[m] = "seed" => line[m] \in 1 .. HistoryLen(m)
       /\ prep[m] \in {"seed", "record"} => session[m] \in Sessions /\ Exists(session[m])
       /\ answer[m] # "idle" => target[m] \in Sessions /\ executed[m] \in 1 .. Executions
       /\ answer[m] = "add" => Exists(target[m])
       /\ answer[m] \in {"context", "update"} => held[m] # NoSession

TypeInv == TypeOK /\ StoreInv /\ InHand

\* What a step does to the store.
StoreStep ==
  \/ UNCHANGED storeVars
  \/ \E m \in Messages, s \in Sessions : StoreCreate(ThreadOf(m), s)
  \/ \E m \in Messages : prep[m] = "seed" /\ StoreAdd(session[m], History(m, line[m]))
  \/ \E m \in Messages : prep[m] = "record" /\ StoreAdd(session[m], User(m))
  \/ \E m \in Messages : answer[m] = "add" /\ StoreAdd(target[m], Bot(m, executed[m]))
  \/ \E m \in Messages : answer[m] = "update" /\ StoreUpdate([held[m] EXCEPT !.turns = @ + 1])
  \/ /\ kept # NoSession
     /\ \E state \in {kept.state, "archived"} : StoreUpdate([kept EXCEPT !.state = state])

\* Nothing the store has is lost.
StoreGrows ==
  /\ \A s \in Sessions : transcript[s] \subseteq transcript'[s]
  /\ \A s \in Sessions : Exists(s) => Exists(s)'

-----------------------------------------------------------------------------

LEMMA PrepareStore ==
  ASSUME NEW m \in Messages, Prepare(m)
  PROVE  StoreStep
BY DEF Prepare, Lookup, Create, Seed, Record, Fails, StoreStep

LEMMA AnswerStore ==
  ASSUME NEW m \in Messages, Answer(m)
  PROVE  StoreStep
<1>1. CASE Prompt(m)
  BY <1>1 DEF Prompt, StoreStep
<1>2. CASE GetSession(m)
  BY <1>2 DEF GetSession, AnswerFails, Fails, StoreStep
<1>3. CASE AddAnswer(m)
  BY <1>3 DEF AddAnswer, AnswerFails, Fails, StoreStep
<1>4. CASE CountTurn(m)
  BY <1>4 DEF CountTurn, AnswerFails, Fails, StoreStep
<1> QED
  BY <1>1, <1>2, <1>3, <1>4 DEF Answer

LEMMA NextStore == [Next]_vars => StoreStep
<1> SUFFICES ASSUME [Next]_vars PROVE StoreStep
  OBVIOUS
<1>1. CASE UNCHANGED vars
  BY <1>1 DEF vars, runtimeVars, StoreStep
<1>2. ASSUME NEW m \in Messages, Receive(m) \/ Announce(m) \/ Publish(m) \/ Mark(m) \/ Execute(m)
      PROVE  StoreStep
  BY <1>2 DEF Receive, Announce, Publish, Mark, Execute, BeginPrepare, BeginAnswer,
              runtimeVars, StoreStep
<1>3. ASSUME NEW m \in Messages, PrepareStep(m) PROVE StoreStep
  BY <1>3, PrepareStore DEF PrepareStep
<1>4. ASSUME NEW m \in Messages, AnswerStep(m) PROVE StoreStep
  BY <1>4, AnswerStore DEF AnswerStep
<1>5. CASE Others
  BY <1>5 DEF Others, WriteBack, Keep, StoreStep
<1> QED
  BY <1>1, <1>2, <1>3, <1>4, <1>5 DEF Next

LEMMA StoreIsKept ==
  ASSUME TypeInv, StoreStep
  PROVE  StoreInv' /\ StoreGrows
<1>1. CASE UNCHANGED storeVars
  BY <1>1 DEF TypeInv, StoreInv, StoreTypeOK, storeVars, Exists, StoreGrows
<1>2. ASSUME NEW m \in Messages, NEW s \in Sessions, StoreCreate(ThreadOf(m), s)
      PROVE  StoreInv' /\ StoreGrows
  <2>1. ThreadOf(m) \in Threads
    BY ThreadsAssumption
  <2> DEFINE t == ThreadOf(m)
             object == [id |-> s, thread |-> t, turns |-> 0, state |-> "active"]
  <2>2. object \in SessionObjects /\ object.id = s
    BY <2>1 DEF SessionObjects, States
  <2>3. object # NoSession
    BY <2>2, SessionsAssumption
  <2> HIDE DEF t
  <2>4. /\ saved' = [saved EXCEPT ![s] = object]
        /\ index' = [index EXCEPT ![t] = s]
        /\ transcript' = transcript
    BY <1>2 DEF StoreCreate, t
  <2>5. t \in Threads
    BY <2>1 DEF t
  <2> HIDE DEF object
  <2> QED
    BY <2>2, <2>3, <2>4, <2>5, SessionsAssumption
    DEF TypeInv, StoreInv, StoreTypeOK, Exists, StoreGrows
<1>3. ASSUME NEW s, NEW l \in Lines, StoreAdd(s, l)
      PROVE  StoreInv' /\ StoreGrows
  BY <1>3 DEF TypeInv, StoreInv, StoreTypeOK, StoreAdd, Exists, StoreGrows
<1>4. ASSUME NEW object \in SessionObjects, StoreUpdate(object)
      PROVE  StoreInv' /\ StoreGrows
  <2>1. object.id \in Sessions /\ object # NoSession
    BY SessionsAssumption DEF SessionObjects
  <2> QED
    BY <1>4, <2>1 DEF TypeInv, StoreInv, StoreTypeOK, StoreUpdate, Exists, StoreGrows
<1>5. ASSUME NEW m \in Messages PROVE User(m) \in Lines
  BY DEF Lines
<1>6. ASSUME NEW m \in Messages, prep[m] = "seed" PROVE History(m, line[m]) \in Lines
  <2>1. line[m] \in 1 .. MaxHistory
    BY <1>6, HistoryAssumption, BoundsAssumption DEF TypeInv, InHand
  <2> QED BY <2>1 DEF Lines
<1>7. ASSUME NEW m \in Messages, answer[m] = "add" PROVE Bot(m, executed[m]) \in Lines
  <2>1. executed[m] \in 1 .. Executions
    BY <1>7 DEF TypeInv, InHand
  <2> QED BY <2>1 DEF Lines
<1>8. ASSUME NEW m \in Messages, answer[m] = "update"
      PROVE  [held[m] EXCEPT !.turns = @ + 1] \in SessionObjects
  <2>1. held[m] \in SessionObjects
    BY <1>8 DEF TypeInv, InHand, TypeOK, RuntimeTypeOK
  <2> QED BY <2>1 DEF SessionObjects
<1>9. ASSUME kept # NoSession, NEW state \in {kept.state, "archived"}
      PROVE  [kept EXCEPT !.state = state] \in SessionObjects
  <2>1. kept \in SessionObjects
    BY <1>9 DEF TypeInv, TypeOK, RuntimeTypeOK
  <2> QED BY <2>1 DEF SessionObjects, States
<1> QED
  BY <1>1, <1>2, <1>3, <1>4, <1>5, <1>6, <1>7, <1>8, <1>9 DEF StoreStep

-----------------------------------------------------------------------------
(* Types.                                                                  *)

RestTypeOK ==
  /\ prep \in [Messages -> {"idle", "lookup", "create", "seed", "record"}]
  /\ session \in [Messages -> Sessions \cup {NoSession}]
  /\ line \in [Messages -> 1 .. MaxHistory + 1]
  /\ attached \in [Messages -> Sessions \cup {NoSession}]
  /\ stamped \in [Messages -> Nat]

AnswerTypeOK ==
  /\ answer \in [Messages -> {"idle", "prompt", "context", "get", "add", "update"}]
  /\ version \in [Messages -> Nat]
  /\ shown \in [Messages -> Nat \cup {None}]
  /\ target \in [Messages -> Sessions \cup {NoSession}]
  /\ held \in [Messages -> SessionObjects \cup {NoSession}]
  /\ executed \in [Messages -> 0 .. Executions]

DispatchTypeOK ==
  /\ kept \in SessionObjects \cup {NoSession}
  /\ faults \in 0 .. MaxFaults
  /\ disp \in [Messages -> DispatchSteps]
  /\ published \subseteq Messages \X (Sessions \cup {NoSession}) \X Nat
  /\ marked \subseteq Messages

PrepareInHand ==
  \A m \in Messages :
    /\ prep[m] \in {"lookup", "create"} => line[m] = 1
    /\ prep[m] = "seed" => line[m] \in 1 .. HistoryLen(m)
    /\ prep[m] \in {"seed", "record"} => session[m] \in Sessions /\ Exists(session[m])

AnswerInHand ==
  \A m \in Messages :
    /\ answer[m] # "idle" => target[m] \in Sessions /\ executed[m] \in 1 .. Executions
    /\ answer[m] = "add" => Exists(target[m])
    /\ answer[m] \in {"context", "update"} => held[m] # NoSession

LEMMA TypeParts ==
  TypeInv <=> StoreInv /\ RestTypeOK /\ AnswerTypeOK /\ DispatchTypeOK
              /\ PrepareInHand /\ AnswerInHand
BY DEF TypeInv, TypeOK, RuntimeTypeOK, StoreInv, RestTypeOK, AnswerTypeOK, DispatchTypeOK,
       InHand, PrepareInHand, AnswerInHand

LEMMA InitTypes == Init => TypeInv
<1> SUFFICES ASSUME Init PROVE TypeInv
  OBVIOUS
<1>1. StoreInv
  BY DEF Init, RuntimeInit, StoreInit, StoreInv, StoreTypeOK
<1>2. RestTypeOK /\ PrepareInHand
  BY BoundsAssumption DEF Init, RuntimeInit, RestTypeOK, PrepareInHand
<1>3. AnswerTypeOK /\ AnswerInHand
  BY BoundsAssumption DEF Init, RuntimeInit, AnswerTypeOK, AnswerInHand
<1>4. DispatchTypeOK
  BY FaultsAssumption DEF Init, RuntimeInit, DispatchTypeOK, DispatchSteps
<1> QED
  BY <1>1, <1>2, <1>3, <1>4, TypeParts

\* The counter of faults.
LEMMA FaultTypes ==
  ASSUME faults \in 0 .. MaxFaults, NEW kind, Fault(kind) \/ UNCHANGED faults
  PROVE  faults' \in 0 .. MaxFaults
BY FaultsAssumption DEF Fault

\* Sessions do not go away.
LEMMA StillExists ==
  ASSUME TypeInv, StoreStep, NEW s \in Sessions, Exists(s)
  PROVE  Exists(s)'
BY StoreIsKept DEF StoreGrows

\* The session a dispatch works in.
LEMMA WorkInTypes ==
  ASSUME TypeInv, StoreStep, NEW m \in Messages, prep[m] \in {"lookup", "create"},
         NEW object \in SessionObjects, Exists(object.id)', WorkIn(m, object)
  PROVE  RestTypeOK' /\ PrepareInHand'
<1>1. line[m] = 1 /\ HistoryLen(m) \in 0 .. MaxHistory /\ object.id \in Sessions
  BY HistoryAssumption DEF TypeInv, InHand, SessionObjects
<1>2. RestTypeOK /\ PrepareInHand
  BY TypeParts
<1>3. RestTypeOK'
  BY <1>1, <1>2 DEF RestTypeOK, WorkIn, PrepareTo
<1>4. HistoryLen(m) > 0 => line[m] \in 1 .. HistoryLen(m)
  BY <1>1
<1>e. \A s \in Sessions : Exists(s) => Exists(s)'
  BY StillExists
<1>5. PICK s \in Sessions : s = object.id
  BY <1>1
<1>6. Exists(s)'
  BY <1>5 DEF Exists
<1>7. PrepareInHand'
  BY <1>1, <1>2, <1>4, <1>5, <1>6, <1>e DEF RestTypeOK, PrepareInHand, WorkIn, PrepareTo, Exists
<1> QED
  BY <1>3, <1>7

\* A dispatch that does not move keeps what it has in hand.
LEMMA PrepareUnmoved ==
  ASSUME TypeInv, StoreStep, UNCHANGED prepareVars
  PROVE  RestTypeOK' /\ PrepareInHand'
<1>1. RestTypeOK /\ PrepareInHand
  BY TypeParts
<1>2. \A s \in Sessions : Exists(s) => Exists(s)'
  BY StillExists
<1> QED
  BY <1>1, <1>2 DEF RestTypeOK, PrepareInHand, prepareVars, Exists

LEMMA PrepareTypes ==
  ASSUME TypeInv, NEW m \in Messages, Prepare(m)
  PROVE  RestTypeOK' /\ PrepareInHand' /\ faults' \in 0 .. MaxFaults
<1>t. RestTypeOK /\ PrepareInHand /\ faults \in 0 .. MaxFaults
  BY TypeParts DEF DispatchTypeOK
<1>f. ASSUME Fault("store") \/ UNCHANGED faults PROVE faults' \in 0 .. MaxFaults
  BY <1>t, <1>f, FaultTypes
<1>s. StoreStep
  BY PrepareStore
<1>e. \A s \in Sessions : Exists(s) => Exists(s)'
  BY <1>s, StillExists
<1>g. ASSUME GiveUp(m) PROVE RestTypeOK' /\ PrepareInHand'
  <2>1. RestTypeOK'
    BY <1>t, <1>g DEF GiveUp, PrepareReturns, PrepareTo, RestTypeOK
  <2>2. PrepareInHand'
    BY <1>t, <1>g, <1>e DEF GiveUp, PrepareReturns, PrepareTo, RestTypeOK, PrepareInHand, Exists
  <2> QED
    BY <2>1, <2>2
<1>1. CASE Lookup(m)
  <2> DEFINE s == index[ThreadOf(m)]
  <2>1. CASE s # NoSession /\ WorkIn(m, saved[s]) /\ UNCHANGED faults
    <3>1. s \in Sessions /\ Exists(s)
      BY <2>1, ThreadsAssumption DEF TypeInv, StoreInv, StoreTypeOK
    <3>2. PICK o \in SessionObjects : o = saved[s] /\ o.id = s
      BY <3>1 DEF TypeInv, StoreInv, StoreTypeOK, Exists
    <3>3. prep[m] \in {"lookup", "create"}
      BY <1>1 DEF Lookup
    <3>4. PICK r \in Sessions : r = s
      BY <3>1
    <3>5. Exists(r)'
      BY <3>1, <3>4, <1>e DEF Exists
    <3>6. Exists(o.id)'
      BY <3>2, <3>4, <3>5 DEF Exists
    <3>7. WorkIn(m, o)
      BY <2>1, <3>2
    <3> QED
      BY <2>1, <3>3, <3>6, <3>7, <1>s, WorkInTypes, <1>f
  <2>2. CASE /\ prep[m] = "lookup"
             /\ PrepareTo(m, "create")
             /\ UNCHANGED <<session, line, attached, stamped, faults>>
    BY <2>2, <1>t, <1>e DEF PrepareTo, RestTypeOK, PrepareInHand, Exists
  <2>3. CASE Fails(FALSE) /\ GiveUp(m)
    BY <2>3, <1>f, <1>g DEF Fails
  <2> QED
    BY <1>1, <2>1, <2>2, <2>3 DEF Lookup
<1>2. CASE Create(m)
  <2>1. PICK s \in Sessions :
          \/ StoreCreate(ThreadOf(m), s) /\ WorkIn(m, saved'[s]) /\ UNCHANGED faults
          \/ Fails(StoreCreate(ThreadOf(m), s)) /\ GiveUp(m)
    BY <1>2 DEF Create
  <2>2. CASE StoreCreate(ThreadOf(m), s) /\ WorkIn(m, saved'[s]) /\ UNCHANGED faults
    <3>1. saved'[s] \in SessionObjects /\ saved'[s].id = s
      BY <2>2, ThreadsAssumption DEF StoreCreate, SessionObjects, States, TypeInv, StoreInv, StoreTypeOK
    <3>2. prep[m] \in {"lookup", "create"}
      BY <1>2 DEF Create
    <3>3. PICK o \in SessionObjects : o = saved'[s]
      BY <3>1
    <3>4. Exists(o.id)'
      BY <3>1, <3>3, SessionsAssumption DEF Exists
    <3>5. WorkIn(m, o)
      BY <2>2, <3>3
    <3> QED
      BY <2>2, <3>2, <3>4, <3>5, <1>s, WorkInTypes, <1>f
  <2> QED
    BY <2>1, <2>2, <1>f, <1>g DEF Fails
<1>3. CASE Seed(m)
  <2>1. CASE /\ prep[m] = "seed"
             /\ line' = [line EXCEPT ![m] = @ + 1]
             /\ PrepareTo(m, IF line[m] = HistoryLen(m) THEN "record" ELSE "seed")
             /\ UNCHANGED <<session, attached, stamped, faults>>
    <3>1. HistoryLen(m) \in 0 .. MaxHistory /\ line[m] \in 1 .. HistoryLen(m)
      BY <2>1, <1>t, HistoryAssumption DEF PrepareInHand
    <3>2. line[m] + 1 \in 1 .. MaxHistory + 1
      BY <3>1, BoundsAssumption
    <3>3. line[m] # HistoryLen(m) => line[m] + 1 \in 1 .. HistoryLen(m)
      BY <3>1, BoundsAssumption
    <3> QED
      BY <2>1, <1>t, <1>e, <3>2, <3>3 DEF PrepareTo, RestTypeOK, PrepareInHand, Exists
  <2> QED
    BY <1>3, <2>1, <1>f, <1>g DEF Seed, Fails
<1>4. CASE Record(m)
  <2>1. CASE /\ prep[m] = "record"
             /\ PrepareReturns(m, session[m], saved[session[m]].turns)
             /\ UNCHANGED <<line, faults>>
    <3>1. session[m] \in Sessions /\ Exists(session[m])
      BY <2>1, <1>t DEF PrepareInHand
    <3>2. saved[session[m]] \in SessionObjects
      BY <3>1 DEF Exists, TypeInv, StoreInv, StoreTypeOK
    <3>3. saved[session[m]].turns \in Nat
      BY <3>2 DEF SessionObjects
    <3>4. RestTypeOK'
      BY <2>1, <1>t, <3>1, <3>3 DEF PrepareReturns, PrepareTo, RestTypeOK
    <3>5. PrepareInHand'
      BY <2>1, <1>t, <1>e DEF PrepareReturns, PrepareTo, RestTypeOK, PrepareInHand, Exists
    <3> QED
      BY <2>1, <3>4, <3>5, <1>f
  <2> QED
    BY <1>4, <2>1, <1>f, <1>g DEF Record, Fails
<1> QED
  BY <1>1, <1>2, <1>3, <1>4 DEF Prepare

\* An execution that does not move keeps what it has in hand.
LEMMA AnswerUnmoved ==
  ASSUME TypeInv, StoreStep, UNCHANGED answerVars
  PROVE  AnswerTypeOK' /\ AnswerInHand'
<1>1. AnswerTypeOK /\ AnswerInHand
  BY TypeParts
<1>2. \A s \in Sessions : Exists(s) => Exists(s)'
  BY StillExists
<1> QED
  BY <1>1, <1>2 DEF AnswerTypeOK, AnswerInHand, answerVars, promptVars

LEMMA ReturnTypes ==
  ASSUME TypeInv, StoreStep, NEW m \in Messages, AnswerReturns(m), executed' = executed
  PROVE  AnswerTypeOK' /\ AnswerInHand'
<1>1. AnswerTypeOK /\ AnswerInHand
  BY TypeParts
<1>2. \A s \in Sessions : Exists(s) => Exists(s)'
  BY StillExists
<1>3. AnswerTypeOK'
  BY <1>1 DEF AnswerTypeOK, AnswerReturns, AnswerTo
<1>4. AnswerInHand'
  BY <1>1, <1>2 DEF AnswerTypeOK, AnswerInHand, AnswerReturns, AnswerTo
<1> QED
  BY <1>3, <1>4

\* A prompt counts the turns and answers of a session.
LEMMA PromptTypes ==
  ASSUME TypeInv, NEW m \in Messages, Prompt(m), \A s \in Sessions : IsFiniteSet(Bots(s))
  PROVE  AnswerTypeOK' /\ AnswerInHand' /\ faults' \in 0 .. MaxFaults
<1>t. AnswerTypeOK /\ AnswerInHand /\ faults \in 0 .. MaxFaults
  BY TypeParts DEF DispatchTypeOK
<1>u. UNCHANGED storeVars /\ UNCHANGED <<target, executed>>
  BY DEF Prompt
<1>1. CASE /\ answer[m] = "prompt"
           /\ Exists(target[m])
           /\ AnswerTo(m, "context")
           /\ held' = [held EXCEPT ![m] = saved[target[m]]]
           /\ UNCHANGED <<version, shown, faults>>
  <2>1. target[m] \in Sessions
    BY <1>1, <1>t DEF AnswerInHand
  <2>2. saved[target[m]] \in SessionObjects /\ saved[target[m]] # NoSession
    BY <1>1, <2>1 DEF TypeInv, StoreInv, StoreTypeOK, Exists
  <2>3. AnswerTypeOK'
    BY <1>1, <1>t, <1>u, <2>2 DEF AnswerTo, AnswerTypeOK
  <2> QED
    BY <1>1, <1>t, <1>u, <2>2, <2>3 DEF AnswerTo, AnswerTypeOK, AnswerInHand, storeVars, Exists
<1>2. CASE /\ answer[m] = "context"
           /\ AnswerTo(m, "get")
           /\ version' = [version EXCEPT ![m] = held[m].turns]
           /\ shown' = [shown EXCEPT ![m] = Cardinality(Bots(target[m]))]
           /\ held' = [held EXCEPT ![m] = NoSession]
           /\ UNCHANGED faults
  <2>1. target[m] \in Sessions
    BY <1>2, <1>t DEF AnswerInHand
  <2>2. Cardinality(Bots(target[m])) \in Nat
    BY <2>1, FS_CardinalityType
  <2>3. held[m].turns \in Nat
    BY <1>2, <1>t DEF AnswerInHand, AnswerTypeOK, SessionObjects
  <2>4. AnswerTypeOK'
    BY <1>2, <1>t, <1>u, <2>2, <2>3 DEF AnswerTo, AnswerTypeOK
  <2> QED
    BY <1>2, <1>t, <1>u, <2>4 DEF AnswerTo, AnswerTypeOK, AnswerInHand, storeVars, Exists
<1>3. CASE answer[m] \in {"prompt", "context"} /\ PlainPrompt(m)
  <2>1. faults' \in 0 .. MaxFaults
    BY <1>3, <1>t, FaultTypes DEF PlainPrompt
  <2>2. AnswerTypeOK'
    BY <1>3, <1>t, <1>u DEF PlainPrompt, AnswerTo, AnswerTypeOK
  <2> QED
    BY <1>3, <1>t, <1>u, <2>1, <2>2 DEF PlainPrompt, AnswerTo, AnswerTypeOK, AnswerInHand, storeVars, Exists
<1> QED
  BY <1>1, <1>2, <1>3 DEF Prompt

LEMMA AnswerTypes ==
  ASSUME TypeInv, NEW m \in Messages, Answer(m), \A s \in Sessions : IsFiniteSet(Bots(s))
  PROVE  AnswerTypeOK' /\ AnswerInHand' /\ faults' \in 0 .. MaxFaults
<1>t. AnswerTypeOK /\ AnswerInHand /\ faults \in 0 .. MaxFaults
  BY TypeParts DEF DispatchTypeOK
<1>s. StoreStep
  BY AnswerStore
<1>e. \A s \in Sessions : Exists(s) => Exists(s)'
  BY <1>s, StillExists
<1>r. ASSUME AnswerReturns(m), executed' = executed, Fault("store") \/ UNCHANGED faults
      PROVE  AnswerTypeOK' /\ AnswerInHand' /\ faults' \in 0 .. MaxFaults
  BY <1>r, <1>s, <1>t, ReturnTypes, FaultTypes
<1>1. CASE Prompt(m)
  BY <1>1, PromptTypes
<1>2. CASE GetSession(m)
  <2>1. CASE /\ answer[m] = "get" /\ Exists(target[m])
             /\ AnswerTo(m, "add")
             /\ UNCHANGED <<storeVars, target, promptVars, held, faults, executed>>
    <3>1. AnswerTypeOK'
      BY <2>1, <1>t DEF AnswerTypeOK, AnswerTo, promptVars
    <3> QED
      BY <2>1, <3>1, <1>t, <1>e DEF AnswerTypeOK, AnswerInHand, AnswerTo
  <2> QED
    BY <1>2, <2>1, <1>r DEF GetSession, AnswerFails, Fails
<1>3. CASE AddAnswer(m)
  <2>1. CASE /\ answer[m] = "add"
             /\ answer' = [answer EXCEPT ![m] = "update"]
             /\ held' = [held EXCEPT ![m] = saved[target[m]]]
             /\ UNCHANGED <<target, promptVars, faults, executed>>
    <3>1. target[m] \in Sessions /\ Exists(target[m])
      BY <2>1, <1>t DEF AnswerInHand
    <3>2. saved[target[m]] \in SessionObjects /\ saved[target[m]] # NoSession
      BY <3>1 DEF TypeInv, StoreInv, StoreTypeOK, Exists
    <3>3. AnswerTypeOK'
      BY <2>1, <3>2, <1>t DEF AnswerTypeOK, promptVars
    <3> QED
      BY <2>1, <3>2, <3>3, <1>t, <1>e DEF AnswerTypeOK, AnswerInHand
  <2> QED
    BY <1>3, <2>1, <1>r DEF AddAnswer, AnswerFails, Fails
<1>4. CASE CountTurn(m)
  BY <1>4, <1>r DEF CountTurn, AnswerFails, Fails
<1> QED
  BY <1>1, <1>2, <1>3, <1>4 DEF Answer

LEMMA TypePartsNext ==
  StoreInv' /\ RestTypeOK' /\ AnswerTypeOK' /\ DispatchTypeOK' /\ PrepareInHand' /\ AnswerInHand'
    => TypeInv'
BY DEF TypeInv, TypeOK, RuntimeTypeOK, StoreInv, RestTypeOK, AnswerTypeOK, DispatchTypeOK,
       InHand, PrepareInHand, AnswerInHand

\* Types, given that the answers in each session are a finite set.
LEMMA StepTypes ==
  ASSUME TypeInv, [Next]_vars, \A s \in Sessions : IsFiniteSet(Bots(s))
  PROVE  TypeInv'
<1>t. /\ RestTypeOK /\ PrepareInHand /\ AnswerTypeOK /\ AnswerInHand /\ DispatchTypeOK
      /\ faults \in 0 .. MaxFaults
  BY TypeParts DEF DispatchTypeOK
<1>s. StoreStep /\ StoreInv'
  BY NextStore, StoreIsKept
<1>p. ASSUME UNCHANGED prepareVars PROVE RestTypeOK' /\ PrepareInHand'
  BY <1>p, <1>s, PrepareUnmoved
<1>a. ASSUME UNCHANGED answerVars PROVE AnswerTypeOK' /\ AnswerInHand'
  BY <1>a, <1>s, AnswerUnmoved
<1>1. CASE UNCHANGED vars
  <2>1. DispatchTypeOK'
    BY <1>1, <1>t DEF vars, runtimeVars, DispatchTypeOK
  <2> QED
    BY <1>1, <1>p, <1>a, <1>s, <2>1, TypePartsNext DEF vars, runtimeVars
<1>2. ASSUME NEW m \in Messages, Receive(m) PROVE TypeInv'
  <2>1. faults' \in 0 .. MaxFaults
    BY <1>2, <1>t, FaultTypes DEF Receive, BeginPrepare, runtimeVars
  <2>2. DispatchTypeOK'
    BY <1>2, <1>t, <2>1 DEF Receive, BeginPrepare, runtimeVars, DispatchTo, DispatchTypeOK, DispatchSteps
  <2>3. UNCHANGED answerVars
    BY <1>2 DEF Receive, BeginPrepare, runtimeVars
  <2>4. CASE BeginPrepare(m)
    <3>1. RestTypeOK' /\ PrepareInHand'
      BY <2>4, <1>t, BoundsAssumption
      DEF BeginPrepare, PrepareTo, RestTypeOK, PrepareInHand, storeVars, Exists
    <3> QED
      BY <3>1, <2>2, <2>3, <1>a, <1>s, TypePartsNext
  <2>5. CASE UNCHANGED prepareVars
    BY <2>5, <2>2, <2>3, <1>p, <1>a, <1>s, TypePartsNext
  <2> QED
    BY <1>2, <2>4, <2>5 DEF Receive, runtimeVars
<1>3. ASSUME NEW m \in Messages, PrepareStep(m) PROVE TypeInv'
  <2>1. RestTypeOK' /\ PrepareInHand' /\ faults' \in 0 .. MaxFaults
    BY <1>3, PrepareTypes DEF PrepareStep
  <2>2. UNCHANGED <<answerVars, kept, published, marked>>
    BY <1>3 DEF PrepareStep, Prepare, Lookup, Create, Seed, Record
  <2>3. DispatchTypeOK'
    BY <1>3, <1>t, <2>1, <2>2 DEF PrepareStep, DispatchTo, DispatchTypeOK, DispatchSteps
  <2> QED
    BY <2>1, <2>2, <2>3, <1>a, <1>s, TypePartsNext
<1>4. ASSUME NEW m \in Messages, Announce(m) \/ Publish(m) \/ Mark(m) PROVE TypeInv'
  <2>1. faults' \in 0 .. MaxFaults
    BY <1>4, <1>t, FaultTypes DEF Announce, Publish, Mark
  <2>2. <<m, attached[m], stamped[m]>> \in Messages \X (Sessions \cup {NoSession}) \X Nat
    BY <1>t DEF RestTypeOK
  <2>3. DispatchTypeOK'
    BY <1>4, <1>t, <2>1, <2>2 DEF Announce, Publish, Mark, DispatchTo, DispatchTypeOK, DispatchSteps
  <2> QED
    BY <1>4, <2>3, <1>p, <1>a, <1>s, TypePartsNext DEF Announce, Publish, Mark
<1>5. ASSUME NEW m \in Messages, Execute(m) PROVE TypeInv'
  <2>1. PICK p \in published : p[1] = m /\ BeginAnswer(m, p[2], p[3])
    BY <1>5 DEF Execute
  <2>2. p[2] \in Sessions \cup {NoSession} /\ p[3] \in Nat
    BY <1>t DEF DispatchTypeOK
  <2>3. executed[m] + 1 \in 1 .. Executions
    BY <2>1, <1>t, BoundsAssumption DEF BeginAnswer, AnswerTypeOK
  <2>4. AnswerTypeOK'
    BY <2>1, <2>2, <2>3, <1>t DEF BeginAnswer, AnswerTypeOK, promptVars
  <2>5. AnswerInHand'
    BY <2>1, <2>2, <2>3, <1>t DEF BeginAnswer, AnswerTypeOK, AnswerInHand, storeVars, Exists
  <2>6. DispatchTypeOK'
    BY <1>5, <2>1, <1>t DEF Execute, BeginAnswer, DispatchTypeOK
  <2> QED
    BY <2>1, <2>4, <2>5, <2>6, <1>p, <1>s, TypePartsNext DEF BeginAnswer
<1>6. ASSUME NEW m \in Messages, AnswerStep(m) PROVE TypeInv'
  <2>1. AnswerTypeOK' /\ AnswerInHand' /\ faults' \in 0 .. MaxFaults
    BY <1>6, AnswerTypes DEF AnswerStep
  <2>2. UNCHANGED <<prepareVars, kept, disp, published, marked>>
    BY <1>6 DEF AnswerStep, Answer, Prompt, GetSession, AddAnswer, CountTurn
  <2>3. DispatchTypeOK'
    BY <2>1, <2>2, <1>t DEF DispatchTypeOK
  <2> QED
    BY <2>1, <2>2, <2>3, <1>p, <1>s, TypePartsNext
<1>7. CASE Others
  <2>1. ASSUME NEW s \in Sessions, Keep(s) PROVE kept' \in SessionObjects \cup {NoSession}
    BY <2>1 DEF Keep, Exists, TypeInv, StoreInv, StoreTypeOK
  <2>2. kept' \in SessionObjects \cup {NoSession}
    BY <1>7, <2>1 DEF Others, WriteBack
  <2>3. UNCHANGED <<prepareVars, answerVars, faults, disp, published, marked>>
    BY <1>7 DEF Others, WriteBack, Keep
  <2>4. DispatchTypeOK'
    BY <2>2, <2>3, <1>t DEF DispatchTypeOK
  <2> QED
    BY <2>3, <2>4, <1>p, <1>a, <1>s, TypePartsNext
<1> QED
  BY <1>1, <1>2, <1>3, <1>4, <1>5, <1>6, <1>7 DEF Next

-----------------------------------------------------------------------------
(* Transcripts.                                                            *)

\* A line is new in a transcript because of one of three steps.
LEMMA NewLine ==
  ASSUME TypeInv, StoreStep, NEW s \in Sessions, NEW l \in transcript'[s], l \notin transcript[s]
  PROVE  \E m \in Messages :
           \/ prep[m] = "seed" /\ StoreAdd(session[m], History(m, line[m]))
              /\ s = session[m] /\ l = History(m, line[m])
           \/ prep[m] = "record" /\ StoreAdd(session[m], User(m))
              /\ s = session[m] /\ l = User(m)
           \/ answer[m] = "add" /\ StoreAdd(target[m], Bot(m, executed[m]))
              /\ s = target[m] /\ l = Bot(m, executed[m])
<1>1. ASSUME NEW r, NEW k, StoreAdd(r, k) PROVE s = r /\ l = k
  BY <1>1 DEF StoreAdd, TypeInv, StoreInv, StoreTypeOK
<1>2. ~UNCHANGED transcript
  OBVIOUS
<1>3. \E m \in Messages :
        \/ prep[m] = "seed" /\ StoreAdd(session[m], History(m, line[m]))
        \/ prep[m] = "record" /\ StoreAdd(session[m], User(m))
        \/ answer[m] = "add" /\ StoreAdd(target[m], Bot(m, executed[m]))
  BY <1>2 DEF StoreStep, storeVars, StoreCreate, StoreUpdate
<1>4. PICK m \in Messages :
        \/ prep[m] = "seed" /\ StoreAdd(session[m], History(m, line[m]))
        \/ prep[m] = "record" /\ StoreAdd(session[m], User(m))
        \/ answer[m] = "add" /\ StoreAdd(target[m], Bot(m, executed[m]))
  BY <1>3
<1> QED
  BY <1>1, <1>4

LEMMA BotsGrow ==
  ASSUME TypeInv, StoreStep, NEW s \in Sessions
  PROVE  Bots(s) \subseteq Bots(s)'
BY StoreIsKept DEF StoreGrows, Bots

\* The answers of a session are still finite, and at least as many.
LEMMA BotsFinite ==
  ASSUME TypeInv, StoreStep, \A s \in Sessions : IsFiniteSet(Bots(s)), NEW s \in Sessions
  PROVE  /\ IsFiniteSet(Bots(s)')
         /\ Cardinality(Bots(s)) \in Nat /\ Cardinality(Bots(s)') \in Nat
         /\ Cardinality(Bots(s)) <= Cardinality(Bots(s)')
<1>1. \E l : Bots(s)' \subseteq Bots(s) \cup {l}
  <2>1. ASSUME NEW r, NEW l, StoreAdd(r, l) PROVE Bots(s)' \subseteq Bots(s) \cup {l}
    BY <2>1 DEF StoreAdd, TypeInv, StoreInv, StoreTypeOK, Bots
  <2>2. CASE transcript' = transcript
    BY <2>2 DEF Bots
  <2> QED
    BY <2>1, <2>2 DEF StoreStep, storeVars, StoreCreate, StoreUpdate
<1>2. IsFiniteSet(Bots(s)')
  BY <1>1, FS_AddElement, FS_Subset
<1> QED
  BY <1>2, BotsGrow, FS_Subset, FS_CardinalityType

Recorded ==
  /\ \A m \in Messages : attached[m] # NoSession => User(m) \in transcript[attached[m]]
  /\ \A p \in published : p[2] # NoSession => User(p[1]) \in transcript[p[2]]
  /\ \A m \in Messages : answer[m] # "idle" => User(m) \in transcript[target[m]]

LEMMA RecordedKept ==
  ASSUME TypeInv, StoreStep, NEW s \in Sessions, NEW l \in transcript[s]
  PROVE  l \in transcript'[s]
BY StoreIsKept DEF StoreGrows

LEMMA StepRecorded ==
  ASSUME TypeInv, [Next]_vars, Recorded
  PROVE  Recorded'
<1>s. StoreStep
  BY NextStore
<1>k. \A s \in Sessions : transcript[s] \subseteq transcript'[s]
  BY <1>s, StoreIsKept DEF StoreGrows
<1>t. RestTypeOK /\ AnswerTypeOK /\ AnswerInHand /\ PrepareInHand /\ DispatchTypeOK
  BY TypeParts
<1>c. transcript \in [Sessions -> SUBSET Lines]
  BY DEF TypeInv, StoreInv, StoreTypeOK
<1>1. \A m \in Messages : attached'[m] # NoSession => User(m) \in transcript'[attached'[m]]
  <2> SUFFICES ASSUME NEW n \in Messages, attached'[n] # NoSession
               PROVE  User(n) \in transcript'[attached'[n]]
    OBVIOUS
  <2>1. CASE attached'[n] = attached[n]
    BY <2>1, <1>k, <1>t DEF RestTypeOK, Recorded
  <2>2. CASE attached'[n] # attached[n]
    <3>1. \E m \in Messages : BeginPrepare(m) \/ Prepare(m)
      BY <2>2 DEF Next, vars, runtimeVars, prepareVars, Receive, PrepareStep, Announce, Publish,
                  Mark, Execute, AnswerStep, Others, BeginAnswer, Answer, Prompt, GetSession,
                  AddAnswer, CountTurn, WriteBack, Keep
    <3>2. PICK m \in Messages : BeginPrepare(m) \/ Prepare(m)
      BY <3>1
    <3>3. ASSUME GiveUp(m) \/ BeginPrepare(m) PROVE FALSE
      BY <3>3, <2>2, <1>t DEF GiveUp, BeginPrepare, PrepareReturns, RestTypeOK
    <3>4. ~Lookup(m) /\ ~Create(m) /\ ~Seed(m)
      BY <3>3, <2>2 DEF Lookup, Create, Seed, WorkIn
    <3>5. Record(m)
      BY <3>2, <3>3, <3>4 DEF Prepare
    <3>6. /\ prep[m] = "record" /\ StoreAdd(session[m], User(m))
          /\ PrepareReturns(m, session[m], saved[session[m]].turns)
      BY <3>3, <3>5 DEF Record
    <3>7. n = m /\ attached'[n] = session[m] /\ session[m] \in Sessions
      BY <3>6, <2>2, <1>t DEF PrepareReturns, RestTypeOK, PrepareInHand
    <3> QED
      BY <3>6, <3>7, <1>c DEF StoreAdd
  <2> QED
    BY <2>1, <2>2
<1>2. \A p \in published' : p[2] # NoSession => User(p[1]) \in transcript'[p[2]]
  <2> SUFFICES ASSUME NEW p \in published', p[2] # NoSession
               PROVE  User(p[1]) \in transcript'[p[2]]
    OBVIOUS
  <2>1. CASE p \in published
    BY <2>1, <1>k, <1>t DEF DispatchTypeOK, Recorded
  <2>2. CASE p \notin published
    <3>1. PICK m \in Messages : Publish(m)
      BY <2>2 DEF Next, vars, Receive, PrepareStep, Announce,
                  Mark, Execute, AnswerStep, Others
    <3>2. p = <<m, attached[m], stamped[m]>>
      BY <2>2, <3>1 DEF Publish
    <3> QED
      BY <3>2, <1>k, <1>t DEF RestTypeOK, Recorded
  <2> QED
    BY <2>1, <2>2
<1>3. \A m \in Messages : answer'[m] # "idle" => User(m) \in transcript'[target'[m]]
  <2> SUFFICES ASSUME NEW n \in Messages, answer'[n] # "idle"
               PROVE  User(n) \in transcript'[target'[n]]
    OBVIOUS
  <2>1. CASE answer[n] # "idle" /\ target'[n] = target[n]
    BY <2>1, <1>k, <1>t DEF AnswerInHand, Recorded
  <2>2. CASE answer[n] = "idle" \/ target'[n] # target[n]
    <3>1. ASSUME NEW m \in Messages, AnswerReturns(m) PROVE FALSE
      BY <3>1, <2>2, <1>t DEF AnswerReturns, AnswerTo, AnswerTypeOK
    <3>2. ASSUME NEW m \in Messages, Answer(m) PROVE FALSE
      BY <3>1, <3>2, <2>2, <1>t
      DEF Answer, Prompt, PlainPrompt, GetSession, AddAnswer, CountTurn, AnswerFails, AnswerTo,
          AnswerTypeOK
    <3>3. \E m \in Messages : Execute(m)
      BY <3>2, <2>2 DEF Next, vars, runtimeVars, answerVars, Receive, PrepareStep, Announce,
             Publish, Mark, AnswerStep, Others, BeginPrepare, Prepare, Lookup, Create, Seed, Record,
             WriteBack, Keep
    <3>4. PICK m \in Messages, p \in published : p[1] = m /\ BeginAnswer(m, p[2], p[3])
      BY <3>3 DEF Execute
    <3>5. n = m /\ p[2] # NoSession /\ target'[n] = p[2] /\ p[2] \in Sessions
      BY <3>4, <2>2, <1>t DEF BeginAnswer, AnswerTypeOK, DispatchTypeOK
    <3> QED
      BY <3>4, <3>5, <1>k, <1>t DEF Recorded
  <2> QED
    BY <2>1, <2>2
<1> QED
  BY <1>1, <1>2, <1>3 DEF Recorded

LEMMA StepAnswered ==
  ASSUME TypeInv, [Next]_vars, Recorded, AnsweredWasRecorded
  PROVE  AnsweredWasRecorded'
<1>s. StoreStep
  BY NextStore
<1>k. \A s \in Sessions : transcript[s] \subseteq transcript'[s]
  BY <1>s, StoreIsKept DEF StoreGrows
<1> SUFFICES ASSUME NEW s \in Sessions, NEW l \in Bots(s)'
             PROVE  User(l[2]) \in transcript'[s]
  BY DEF AnsweredWasRecorded
<1>1. l \in transcript'[s] /\ l[1] = "bot"
  BY DEF Bots
<1>2. CASE l \in transcript[s]
  BY <1>1, <1>2, <1>k DEF Bots, AnsweredWasRecorded
<1>3. CASE l \notin transcript[s]
  <2>1. PICK m \in Messages : answer[m] = "add" /\ s = target[m] /\ l = Bot(m, executed[m])
    <3>1. \A m \in Messages : l # User(m) /\ \A i : l # History(m, i)
      BY <1>1 DEF User, History
    <3> QED
      BY <3>1, <1>1, <1>3, <1>s, NewLine
  <2>2. l[2] = m
    BY <2>1 DEF Bot
  <2> QED
    BY <2>1, <2>2, <1>k DEF Recorded
<1> QED
  BY <1>2, <1>3

-----------------------------------------------------------------------------
(* Turns and answers.                                                      *)

NumBots(s) == Cardinality(Bots(s))

\* Answers are told apart by the execution they come from.
Numbered ==
  \A s \in Sessions : \A m \in Messages : \A k \in 1 .. Executions :
    Bot(m, k) \in transcript[s] =>
      /\ k <= executed[m]
      /\ answer[m] \in {"prompt", "context", "get", "add"} => k # executed[m]

Counting ==
  /\ \A s \in Sessions : IsFiniteSet(Bots(s))
  /\ \A s \in Sessions : Exists(s) => saved[s].turns <= NumBots(s)
  /\ \A m \in Messages : answer[m] = "update" => held[m].turns + 1 <= NumBots(held[m].id)
  /\ kept # NoSession => kept.turns <= NumBots(kept.id)

\* The version of a payload that is prepared or published.
Stamped ==
  /\ \A m \in Messages : attached[m] # NoSession => stamped[m] <= NumBots(attached[m])
  /\ \A p \in published : p[2] # NoSession => p[3] <= NumBots(p[2])

\* The version of an execution's payload, of the Session object it got, and of
\* its prompt.
Shown ==
  \A m \in Messages :
    /\ answer[m] \in {"idle", "prompt", "context"} => shown[m] = None
    /\ answer[m] \in {"prompt", "context"} => version[m] <= NumBots(target[m])
    /\ answer[m] = "context" => held[m].turns <= NumBots(target[m])
    /\ answer[m] = "get" =>
         version[m] <= IF shown[m] = None THEN NumBots(target[m]) ELSE shown[m]

\* A step of an execution changes executed only where it begins.
LEMMA Executed ==
  ASSUME TypeInv, [Next]_vars, NEW n \in Messages
  PROVE  \/ executed'[n] = executed[n]
            /\ (answer'[n] \in {"prompt", "context", "get", "add"}
                  => answer[n] \in {"prompt", "context", "get", "add"})
         \/ executed'[n] = executed[n] + 1
<1>t. AnswerTypeOK
  BY TypeParts
<1>1. CASE UNCHANGED answerVars
  BY <1>1 DEF answerVars
<1>2. ASSUME NEW m \in Messages, Answer(m)
      PROVE  /\ executed' = executed
             /\ answer'[n] \in {"prompt", "context", "get", "add"}
                  => answer[n] \in {"prompt", "context", "get", "add"}
  <2>1. executed' = executed
    BY <1>2 DEF Answer, Prompt, GetSession, AddAnswer, CountTurn
  <2>2. \/ answer' = [answer EXCEPT ![m] = "idle"]
        \/ answer' = [answer EXCEPT ![m] = "update"]
        \/ answer[m] \in {"prompt", "context", "get"}
           /\ \E step \in {"context", "get", "add"} : answer' = [answer EXCEPT ![m] = step]
    BY <1>2 DEF Answer, Prompt, PlainPrompt, GetSession, AddAnswer, CountTurn, AnswerFails,
                AnswerReturns, AnswerTo
  <2> QED
    BY <2>1, <2>2, <1>t DEF AnswerTypeOK
<1>3. ASSUME NEW m \in Messages, NEW s, NEW v, BeginAnswer(m, s, v)
      PROVE  \/ executed'[n] = executed[n] /\ answer'[n] = answer[n]
             \/ executed'[n] = executed[n] + 1
  BY <1>3, <1>t DEF BeginAnswer, AnswerTypeOK
<1>4. \/ UNCHANGED answerVars
      \/ \E m \in Messages : Answer(m)
      \/ \E m \in Messages : \E s, v : BeginAnswer(m, s, v)
  BY DEF Next, vars, runtimeVars, Receive, PrepareStep, Announce, Publish, Mark, Execute,
         AnswerStep, Others, BeginPrepare, Prepare, Lookup, Create, Seed, Record, WriteBack, Keep
<1> QED
  BY <1>1, <1>2, <1>3, <1>4

LEMMA StepNumbered ==
  ASSUME TypeInv, [Next]_vars, Numbered
  PROVE  Numbered'
<1>s. StoreStep
  BY NextStore
<1>t. AnswerTypeOK /\ AnswerInHand
  BY TypeParts
<1> SUFFICES ASSUME NEW s \in Sessions, NEW n \in Messages, NEW k \in 1 .. Executions,
                    Bot(n, k) \in transcript'[s]
             PROVE  /\ k <= executed'[n]
                    /\ answer'[n] \in {"prompt", "context", "get", "add"} => k # executed'[n]
  BY DEF Numbered
<1>e. executed[n] \in 0 .. Executions /\ Executions \in Nat
  BY <1>t, BoundsAssumption DEF AnswerTypeOK
<1>1. CASE Bot(n, k) \in transcript[s]
  <2>1. k <= executed[n] /\ (answer[n] \in {"prompt", "context", "get", "add"} => k # executed[n])
    BY <1>1 DEF Numbered
  <2> QED
    BY <2>1, <1>e, Executed
<1>2. CASE Bot(n, k) \notin transcript[s]
  <2>0. \A m \in Messages : Bot(n, k) # User(m) /\ \A i : Bot(n, k) # History(m, i)
    BY DEF Bot, User, History
  <2>1. PICK m \in Messages :
          /\ answer[m] = "add" /\ StoreAdd(target[m], Bot(m, executed[m]))
          /\ s = target[m] /\ Bot(n, k) = Bot(m, executed[m])
    BY <1>2, <1>s, <2>0, NewLine
  <2>2. n = m /\ k = executed[m]
    BY <2>1 DEF Bot
  <2>3. AddAnswer(m) \/ \E r \in Messages : r # m /\ AddAnswer(r)
    <3>1. ~UNCHANGED transcript
      BY <1>2
    <3>2. \E r \in Messages : AddAnswer(r) \/ Seed(r) \/ Record(r)
      BY <3>1 DEF Next, vars, runtimeVars, storeVars, Receive, PrepareStep, Announce, Publish, Mark,
             Execute, AnswerStep, Others, BeginPrepare, BeginAnswer, Prepare, Lookup, Create, Fails,
             Answer, Prompt, GetSession, AnswerFails, CountTurn, WriteBack, Keep,
             StoreCreate, StoreUpdate
    <3>3. ASSUME NEW r \in Messages, Seed(r) \/ Record(r) PROVE FALSE
      <4>1. \E l : StoreAdd(session[r], l) /\ \A q \in Messages : \A i : l # Bot(q, i)
        <5>1. \A q \in Messages : \A i, j : User(r) # Bot(q, i) /\ History(r, j) # Bot(q, i)
          BY DEF User, History, Bot
        <5> QED
          BY <3>1, <3>3, <5>1 DEF Seed, Record, Fails, storeVars
      <4> QED
        BY <4>1, <1>2 DEF StoreAdd, TypeInv, StoreInv, StoreTypeOK
    <3> QED
      BY <3>2, <3>3
  <2>4. ASSUME NEW r \in Messages, r # m, AddAnswer(r) PROVE FALSE
    <3>1. StoreAdd(target[r], Bot(r, executed[r]))
      <4>1. ~UNCHANGED storeVars
        BY <1>2 DEF storeVars
      <4> QED
        BY <2>4, <4>1 DEF AddAnswer, AnswerFails, Fails
    <3>2. Bot(n, k) # Bot(r, executed[r])
      BY <2>2, <2>4 DEF Bot
    <3> QED
      BY <3>1, <3>2, <1>2 DEF StoreAdd, TypeInv, StoreInv, StoreTypeOK
  <2>5. AddAnswer(m)
    BY <2>3, <2>4
  <2>6. executed' = executed /\ answer'[m] \in {"idle", "update"}
    BY <2>5, <1>t DEF AddAnswer, AnswerFails, AnswerReturns, AnswerTo, AnswerTypeOK
  <2> QED
    BY <2>2, <2>6, <1>e
<1> QED
  BY <1>1, <1>2

\* One answer more than before the execution recorded its own.
LEMMA OneMore ==
  ASSUME TypeInv, Numbered, Counting, NEW m \in Messages, answer[m] = "add",
         NEW s, s = target[m], StoreAdd(s, Bot(m, executed[m]))
  PROVE  NumBots(s)' = NumBots(s) + 1 /\ NumBots(s) \in Nat
<1> DEFINE l == Bot(m, executed[m])
<1>1. s \in Sessions /\ executed[m] \in 1 .. Executions
  BY DEF TypeInv, InHand
<1>2. l \notin transcript[s]
  BY <1>1 DEF Numbered
<1>3. transcript'[s] = transcript[s] \cup {l} /\ l[1] = "bot"
  BY <1>1 DEF StoreAdd, TypeInv, StoreInv, StoreTypeOK, Bot
<1>4. {x \in transcript'[s] : x[1] = "bot"} = Bots(s) \cup {l} /\ l \notin Bots(s)
  BY <1>2, <1>3 DEF Bots
<1>5. IsFiniteSet(Bots(s))
  BY <1>1 DEF Counting
<1>6. Cardinality(Bots(s) \cup {l}) = Cardinality(Bots(s)) + 1 /\ Cardinality(Bots(s)) \in Nat
  BY <1>4, <1>5, FS_AddElement, FS_CardinalityType
<1>7. NumBots(s)' = Cardinality({x \in transcript'[s] : x[1] = "bot"})
  BY DEF NumBots, Bots
<1> QED
  BY <1>4, <1>6, <1>7 DEF NumBots

\* No session has fewer answers than before.
LEMMA NumGrows ==
  ASSUME TypeInv, StoreStep, Counting, NEW s \in Sessions
  PROVE  NumBots(s) \in Nat /\ NumBots(s)' \in Nat /\ NumBots(s) <= NumBots(s)'
BY BotsFinite DEF NumBots, Counting

LEMMA StepCounting ==
  ASSUME TypeInv, TypeInv', [Next]_vars, Numbered, Counting
  PROVE  Counting'
<1>s. StoreStep
  BY NextStore
<1>t. AnswerTypeOK /\ AnswerInHand /\ DispatchTypeOK /\ StoreTypeOK
  BY TypeParts DEF StoreInv
<1>n. \A s \in Sessions : NumBots(s) \in Nat /\ NumBots(s)' \in Nat /\ NumBots(s) <= NumBots(s)'
  BY <1>s, NumGrows
<1>o. \A o \in SessionObjects : o.turns \in Nat /\ o.id \in Sessions /\ o # NoSession
  BY SessionsAssumption DEF SessionObjects
<1>1. \A s \in Sessions : IsFiniteSet(Bots(s)')
  BY <1>s, BotsFinite DEF Counting
<1>2. ASSUME NEW o \in SessionObjects, o.turns <= NumBots(o.id)
      PROVE  o.turns <= NumBots(o.id)'
  <2>1. o.id \in Sessions /\ o.turns \in Nat
    BY <1>o
  <2> HIDE DEF NumBots
  <2>2. NumBots(o.id) \in Nat /\ NumBots(o.id)' \in Nat /\ NumBots(o.id) <= NumBots(o.id)'
    BY <1>n, <2>1
  <2> QED
    BY <1>2, <2>1, <2>2
<1>3. ASSUME NEW s \in Sessions, Exists(s)'
      PROVE  saved'[s].turns <= NumBots(s)'
  <2>1. CASE saved'[s] = saved[s]
    <3>1. saved[s] \in SessionObjects /\ saved[s].id = s /\ saved[s].turns <= NumBots(s)
      BY <1>3, <2>1, <1>t DEF Exists, StoreTypeOK, Counting
    <3> QED
      BY <2>1, <3>1, <1>2
  <2>2. CASE \E o \in SessionObjects : o.turns <= NumBots(o.id) /\ StoreUpdate(o)
    <3>1. PICK o \in SessionObjects : o.turns <= NumBots(o.id) /\ StoreUpdate(o)
      BY <2>2
    <3>2. saved'[s] = saved[s] \/ (o.id = s /\ saved'[s] = o)
      BY <3>1, <1>t DEF StoreUpdate, StoreTypeOK
    <3> QED
      BY <2>1, <3>1, <3>2, <1>2
  <2>3. CASE \E m \in Messages, r \in Sessions : StoreCreate(ThreadOf(m), r)
    <3>1. saved'[s] = saved[s] \/ saved'[s].turns = 0
      BY <2>3, <1>t DEF StoreCreate, StoreTypeOK
    <3> QED
      BY <2>1, <3>1, <1>n
  <2>4. ASSUME NEW m \in Messages, answer[m] = "update"
        PROVE  LET o == [held[m] EXCEPT !.turns = @ + 1]
               IN  o \in SessionObjects /\ o.turns <= NumBots(o.id)
    <3>1. held[m] \in SessionObjects /\ held[m].turns + 1 <= NumBots(held[m].id)
      BY <2>4, <1>t DEF AnswerTypeOK, AnswerInHand, Counting
    <3> QED
      BY <3>1 DEF SessionObjects
  <2>5. ASSUME kept # NoSession, NEW state \in {kept.state, "archived"}
        PROVE  LET o == [kept EXCEPT !.state = state]
               IN  o \in SessionObjects /\ o.turns <= NumBots(o.id)
    <3>1. kept \in SessionObjects /\ kept.turns <= NumBots(kept.id)
      BY <2>5, <1>t DEF DispatchTypeOK, Counting
    <3> QED
      BY <3>1 DEF SessionObjects, States
  <2>6. \/ saved' = saved
        \/ \E m \in Messages, r \in Sessions : StoreCreate(ThreadOf(m), r)
        \/ \E o \in SessionObjects : o.turns <= NumBots(o.id) /\ StoreUpdate(o)
    BY <1>s, <2>4, <2>5 DEF StoreStep, storeVars, StoreAdd
  <2> QED
    BY <2>1, <2>2, <2>3, <2>6
<1>4. ASSUME NEW m \in Messages, (answer[m] = "update")'
      PROVE  (held[m].turns + 1 <= NumBots(held[m].id))'
  <2>1. ASSUME NEW o \in SessionObjects, o.turns <= NumBots(o.id)',
               o.turns = held'[m].turns + 1, o.id = held'[m].id
        PROVE  (held[m].turns + 1 <= NumBots(held[m].id))'
    BY <2>1 DEF NumBots, Bots
  <2>2. CASE answer[m] = "update" /\ held'[m] = held[m]
    <3>1. held[m] \in SessionObjects /\ held[m].turns + 1 <= NumBots(held[m].id)
      BY <2>2, <1>t DEF AnswerTypeOK, AnswerInHand, Counting
    <3>c. [held[m] EXCEPT !.turns = @ + 1] \in SessionObjects
      BY <3>1 DEF SessionObjects
    <3>2. PICK o \in SessionObjects : o = [held[m] EXCEPT !.turns = @ + 1]
      BY <3>c, Zenon
    <3>3. o.turns = held[m].turns + 1 /\ o.id = held[m].id
      BY <3>1, <3>2 DEF SessionObjects
    <3>4. o.turns <= NumBots(o.id)'
      BY <3>1, <3>3, <1>2
    <3> QED
      BY <2>1, <2>2, <3>3, <3>4
  <2>3. CASE ~(answer[m] = "update" /\ held'[m] = held[m])
    <3>1. PICK r \in Messages : Answer(r) \/ \E q, v : BeginAnswer(r, q, v)
      BY <2>3, <1>4 DEF Next, vars, runtimeVars, answerVars, Receive, PrepareStep, Announce,
             Publish, Mark, Execute, AnswerStep, Others, BeginPrepare, Prepare, Lookup, Create, Seed,
             Record, WriteBack, Keep
    <3>2. ~AnswerReturns(r)
      BY <2>3, <1>4, <1>t DEF AnswerReturns, AnswerTo, AnswerTypeOK
    <3>3. ~Prompt(r) /\ ~GetSession(r) /\ ~CountTurn(r) /\ ~\E q, v : BeginAnswer(r, q, v)
      BY <3>2, <2>3, <1>4, <1>t DEF Prompt, PlainPrompt, GetSession, CountTurn, AnswerFails,
             BeginAnswer, AnswerTo, AnswerTypeOK
    <3>4. AddAnswer(r)
      BY <3>1, <3>3 DEF Answer
    <3>5. /\ answer[r] = "add" /\ StoreAdd(target[r], Bot(r, executed[r]))
          /\ answer' = [answer EXCEPT ![r] = "update"]
          /\ held' = [held EXCEPT ![r] = saved[target[r]]]
      BY <3>2, <3>4 DEF AddAnswer, AnswerFails
    <3>6. r = m
      BY <3>5, <2>3, <1>4, <1>t DEF AnswerTypeOK
    <3>7. PICK s \in Sessions : s = target[m] /\ Exists(s)
      BY <3>5, <3>6, <1>t DEF AnswerInHand
    <3>8. saved[s] \in SessionObjects /\ saved[s].id = s /\ saved[s].turns <= NumBots(s)
      BY <3>7, <1>t DEF Exists, StoreTypeOK, Counting
    <3>9. held'[m] = saved[s]
      BY <3>5, <3>6, <3>7, <1>t DEF AnswerTypeOK
    <3>10. NumBots(s)' = NumBots(s) + 1 /\ NumBots(s) \in Nat
      BY <3>5, <3>6, <3>7, OneMore
    <3>c. [saved[s] EXCEPT !.turns = @ + 1] \in SessionObjects
      BY <3>8 DEF SessionObjects
    <3>11. PICK o \in SessionObjects : o = [saved[s] EXCEPT !.turns = @ + 1]
      BY <3>c, Zenon
    <3>12. o.turns = saved[s].turns + 1 /\ o.id = s
      BY <3>8, <3>11 DEF SessionObjects
    <3>13. o.turns <= NumBots(s)'
      BY <3>8, <3>10, <3>12, <1>o
    <3> QED
      BY <2>1, <3>9, <3>12, <3>13, <3>8
  <2> QED
    BY <2>2, <2>3
<1>5. ASSUME (kept # NoSession)'
      PROVE  (kept.turns <= NumBots(kept.id))'
  <2>1. ASSUME NEW o \in SessionObjects, o.turns <= NumBots(o.id), o = kept'
        PROVE  (kept.turns <= NumBots(kept.id))'
    <3>1. o.turns <= NumBots(o.id)'
      BY <2>1, <1>2
    <3> QED
      BY <3>1, <2>1 DEF NumBots, Bots
  <2>2. CASE kept' = kept
    <3>1. kept \in SessionObjects /\ kept.turns <= NumBots(kept.id)
      BY <2>2, <1>5, <1>t DEF DispatchTypeOK, Counting
    <3>2. PICK o \in SessionObjects : o = kept
      BY <3>1
    <3> QED
      BY <2>1, <2>2, <3>1, <3>2
  <2>3. CASE kept' # kept
    <3>1. PICK s \in Sessions : Keep(s)
      BY <2>3, <1>5 DEF Next, vars, runtimeVars, Receive, PrepareStep, Announce, Publish, Mark,
             Execute, AnswerStep, Others, BeginPrepare, BeginAnswer, Prepare, Lookup, Create, Seed,
             Record, Answer, Prompt, GetSession, AddAnswer, CountTurn, WriteBack
    <3>2. PICK o \in SessionObjects : o = saved[s]
      BY <3>1, <1>t DEF Keep, Exists, StoreTypeOK
    <3>3. o.id = s /\ o.turns <= NumBots(s) /\ o = kept'
      BY <3>1, <3>2, <1>t DEF Keep, Exists, StoreTypeOK, Counting
    <3> QED
      BY <2>1, <3>3
  <2> QED
    BY <2>2, <2>3
<1>6. (\A s \in Sessions : Exists(s) => saved[s].turns <= NumBots(s))'
  BY <1>3
<1> QED
  BY <1>1, <1>4, <1>5, <1>6 DEF Counting

\* A payload gets its session and its version together, where it returns.
LEMMA StepStamped ==
  ASSUME TypeInv, TypeInv', [Next]_vars, Counting, Stamped
  PROVE  Stamped'
<1>s. StoreStep
  BY NextStore
<1>n. \A s \in Sessions : NumBots(s) \in Nat /\ NumBots(s)' \in Nat /\ NumBots(s) <= NumBots(s)'
  BY <1>s, NumGrows
<1>t. RestTypeOK /\ PrepareInHand /\ DispatchTypeOK /\ StoreTypeOK
  BY TypeParts DEF StoreInv
<1>k. ASSUME NEW s \in Sessions, NEW v \in Nat, v <= NumBots(s)
      PROVE  v <= NumBots(s)'
  <2> HIDE DEF NumBots
  <2> QED
    BY <1>k, <1>n
<1>1. ASSUME NEW n \in Messages, attached'[n] # NoSession
      PROVE  stamped'[n] <= NumBots(attached[n])'
  <2>1. ASSUME NEW s \in Sessions, attached'[n] = s, stamped'[n] \in Nat, stamped'[n] <= NumBots(s)
        PROVE  stamped'[n] <= NumBots(attached[n])'
    <3>1. NumBots(attached[n])' = NumBots(s)'
      BY <2>1 DEF NumBots, Bots
    <3> QED
      BY <2>1, <3>1, <1>k
  <2>2. CASE attached'[n] = attached[n] /\ stamped'[n] = stamped[n]
    <3>1. PICK s \in Sessions : s = attached[n]
      BY <1>1, <2>2, <1>t DEF RestTypeOK
    <3>2. stamped[n] \in Nat /\ stamped[n] <= NumBots(s)
      BY <1>1, <2>2, <3>1, <1>t DEF Stamped, RestTypeOK
    <3> QED
      BY <2>1, <2>2, <3>1, <3>2
  <2>3. CASE ~(attached'[n] = attached[n] /\ stamped'[n] = stamped[n])
    <3>1. \E m \in Messages : BeginPrepare(m) \/ Prepare(m)
      BY <2>3 DEF Next, vars, runtimeVars, prepareVars, Receive, PrepareStep, Announce, Publish,
                  Mark, Execute, AnswerStep, Others, BeginAnswer, Answer, Prompt, GetSession,
                  AddAnswer, CountTurn, WriteBack, Keep
    <3>2. PICK m \in Messages : BeginPrepare(m) \/ Prepare(m)
      BY <3>1
    <3>3. ~GiveUp(m) /\ ~BeginPrepare(m)
      BY <1>1, <2>3, <1>t DEF GiveUp, BeginPrepare, PrepareReturns, RestTypeOK
    <3>4. ~Lookup(m) /\ ~Create(m) /\ ~Seed(m)
      BY <3>3, <2>3 DEF Lookup, Create, Seed, WorkIn
    <3>5. prep[m] = "record" /\ PrepareReturns(m, session[m], saved[session[m]].turns)
      BY <3>2, <3>3, <3>4 DEF Prepare, Record
    <3>6. PICK s \in Sessions : s = session[m] /\ Exists(s)
      BY <3>5, <1>t DEF PrepareInHand
    <3>7. n = m /\ attached'[n] = s /\ stamped'[n] = saved[s].turns
      BY <3>5, <3>6, <2>3, <1>t DEF PrepareReturns, RestTypeOK
    <3>8. saved[s].turns \in Nat /\ saved[s].turns <= NumBots(s)
      BY <3>6, <1>t DEF Counting, Exists, StoreTypeOK, SessionObjects
    <3> QED
      BY <2>1, <3>7, <3>8
  <2> QED
    BY <2>2, <2>3
<1>2. ASSUME NEW p \in published', p[2] # NoSession
      PROVE  p[3] <= NumBots(p[2])'
  <2>1. PICK s \in Sessions, v \in Nat : s = p[2] /\ v = p[3] /\ v <= NumBots(s)
    <3>1. CASE p \in published
      BY <1>2, <3>1, <1>t DEF Stamped, DispatchTypeOK
    <3>2. CASE p \notin published
      <4>1. PICK m \in Messages : Publish(m)
        BY <3>2 DEF Next, vars, Receive, PrepareStep, Announce,
                    Mark, Execute, AnswerStep, Others
      <4>2. p = <<m, attached[m], stamped[m]>>
        BY <3>2, <4>1 DEF Publish
      <4> QED
        BY <1>2, <4>2, <1>t DEF RestTypeOK, Stamped
    <3> QED
      BY <3>1, <3>2
  <2>2. v <= NumBots(s)'
    BY <2>1, <1>k
  <2>3. NumBots(p[2])' = NumBots(s)'
    BY <2>1 DEF NumBots, Bots
  <2> QED
    BY <2>1, <2>2, <2>3
<1>3. (\A m \in Messages : attached[m] # NoSession => stamped[m] <= NumBots(attached[m]))'
  BY <1>1
<1> QED
  BY <1>2, <1>3 DEF Stamped

\* What brings an execution to build_prompt and through it.
LEMMA PromptMoves ==
  ASSUME TypeInv, [Next]_vars, NEW n \in Messages, answer'[n] \in {"idle", "prompt", "context", "get"}
  PROVE  \/ /\ answer'[n] = answer[n] /\ target'[n] = target[n] /\ held'[n] = held[n]
            /\ version'[n] = version[n] /\ shown'[n] = shown[n]
         \/ answer[n] \in {"prompt", "context"} /\ Prompt(n)
         \/ answer'[n] = "idle" /\ shown'[n] = None
         \/ /\ answer[n] = "idle" /\ answer'[n] \in {"idle", "prompt"} /\ shown'[n] = shown[n]
            /\ answer'[n] = "prompt" =>
                 <<n, target'[n], version'[n]>> \in published /\ target'[n] # NoSession
<1>t. AnswerTypeOK /\ DispatchTypeOK
  BY TypeParts
<1>1. CASE UNCHANGED answerVars
  BY <1>1 DEF answerVars, promptVars
<1>2. ASSUME NEW m \in Messages, AnswerReturns(m), m = n PROVE answer'[n] = "idle" /\ shown'[n] = None
  BY <1>2, <1>t DEF AnswerReturns, AnswerTo, AnswerTypeOK
<1>3. ASSUME NEW m \in Messages, Answer(m), m = n
      PROVE  \/ answer[n] \in {"prompt", "context"} /\ Prompt(n)
             \/ answer'[n] = "idle" /\ shown'[n] = None
  <2>1. CASE GetSession(m) \/ AddAnswer(m) \/ CountTurn(m)
    BY <2>1, <1>2, <1>3, <1>t DEF GetSession, AddAnswer, CountTurn, AnswerFails, AnswerTo, AnswerTypeOK
  <2>2. CASE Prompt(m)
    BY <2>2, <1>3 DEF Prompt
  <2> QED
    BY <1>3, <2>1, <2>2 DEF Answer
<1>4. ASSUME NEW m \in Messages, Answer(m), m # n
      PROVE  /\ answer'[n] = answer[n] /\ target'[n] = target[n] /\ held'[n] = held[n]
             /\ version'[n] = version[n] /\ shown'[n] = shown[n]
  BY <1>4, <1>t
  DEF Answer, Prompt, PlainPrompt, GetSession, AddAnswer, CountTurn, AnswerFails, AnswerReturns,
      AnswerTo, promptVars, AnswerTypeOK
<1>5. ASSUME NEW m \in Messages, NEW p \in published, p[1] = m, BeginAnswer(m, p[2], p[3])
      PROVE  \/ /\ answer'[n] = answer[n] /\ target'[n] = target[n] /\ held'[n] = held[n]
                /\ version'[n] = version[n] /\ shown'[n] = shown[n]
             \/ /\ answer[n] = "idle" /\ answer'[n] \in {"idle", "prompt"} /\ shown'[n] = shown[n]
                /\ answer'[n] = "prompt" =>
                     <<n, target'[n], version'[n]>> \in published /\ target'[n] # NoSession
  <2>1. p = <<p[1], p[2], p[3]>>
    BY <1>t DEF DispatchTypeOK
  <2>2. CASE m = n
    BY <1>5, <2>1, <2>2, <1>t DEF BeginAnswer, AnswerTypeOK
  <2>3. CASE m # n
    BY <1>5, <2>3, <1>t DEF BeginAnswer, AnswerTypeOK
  <2> QED
    BY <2>2, <2>3
<1>6. \/ UNCHANGED answerVars
      \/ \E m \in Messages : Answer(m)
      \/ \E m \in Messages : \E p \in published : p[1] = m /\ BeginAnswer(m, p[2], p[3])
  BY DEF Next, vars, runtimeVars, Receive, PrepareStep, Announce, Publish, Mark, Execute,
         AnswerStep, Others, BeginPrepare, Prepare, Lookup, Create, Seed, Record, WriteBack, Keep
<1> QED
  BY <1>1, <1>3, <1>4, <1>5, <1>6

\* Each way an execution moves keeps its part of Shown.
LEMMA StepShown ==
  ASSUME TypeInv, TypeInv', [Next]_vars, Counting, Stamped, Shown
  PROVE  Shown'
<1>s. StoreStep
  BY NextStore
<1>t. AnswerTypeOK /\ AnswerInHand /\ DispatchTypeOK /\ AnswerTypeOK' /\ AnswerInHand'
  <2>1. TypeInv' => AnswerTypeOK' /\ AnswerInHand'
    BY DEF TypeInv, TypeOK, RuntimeTypeOK, AnswerTypeOK, InHand, AnswerInHand
  <2> QED
    BY <2>1, TypeParts
<1>1. ASSUME NEW n \in Messages, answer'[n] \in {"idle", "prompt", "context"}
      PROVE  shown'[n] = None
  <2>1. ASSUME answer[n] \in {"prompt", "context"}, Prompt(n) PROVE shown'[n] = shown[n]
    BY <2>1, <1>1, <1>t DEF Prompt, PlainPrompt, AnswerTo, AnswerTypeOK
  <2> QED
    BY <1>1, <2>1, PromptMoves DEF Shown
<1>2. ASSUME NEW n \in Messages, answer'[n] \in {"prompt", "context", "get"}
      PROVE  /\ answer'[n] \in {"prompt", "context"} => version'[n] <= NumBots(target[n])'
             /\ answer'[n] = "context" => held'[n].turns <= NumBots(target[n])'
             /\ answer'[n] = "get" =>
                  version'[n] <= IF shown'[n] = None THEN NumBots(target[n])' ELSE shown'[n]
  <2>1. PICK s \in Sessions : s = target'[n]
    BY <1>2, <1>t DEF AnswerInHand
  <2>2. NumBots(target[n])' = NumBots(s)'
    BY <2>1 DEF NumBots, Bots
  <2>3. NumBots(s) \in Nat /\ NumBots(s)' \in Nat /\ NumBots(s) <= NumBots(s)'
    BY <1>s, NumGrows
  <2>4. version'[n] \in Nat /\ (answer'[n] = "context" => held'[n].turns \in Nat)
    BY <1>t DEF AnswerTypeOK, AnswerInHand, SessionObjects
  <2>5. /\ answer'[n] \in {"prompt", "context"} => version'[n] <= NumBots(s)
        /\ answer'[n] = "context" => held'[n].turns <= NumBots(s)
        /\ answer'[n] = "get" =>
             version'[n] <= IF shown'[n] = None THEN NumBots(s) ELSE shown'[n]
    <3>1. CASE /\ answer'[n] = answer[n] /\ target'[n] = target[n] /\ held'[n] = held[n]
               /\ version'[n] = version[n] /\ shown'[n] = shown[n]
      BY <3>1, <2>1 DEF Shown
    <3>2. CASE answer[n] = "prompt" /\ Prompt(n) /\ answer'[n] = "context"
      <4>1. target[n] = s /\ Exists(s) /\ held'[n] = saved[s] /\ version'[n] = version[n]
        BY <3>2, <2>1, <1>t DEF Prompt, PlainPrompt, AnswerTo, AnswerTypeOK
      <4>2. saved[s].turns <= NumBots(s)
        BY <4>1 DEF Counting
      <4> QED
        BY <3>2, <4>1, <4>2 DEF Shown
    <3>3. CASE answer[n] = "context" /\ Prompt(n) /\ ~PlainPrompt(n)
      <4>1. /\ target[n] = s /\ answer'[n] = "get"
            /\ version'[n] = held[n].turns /\ shown'[n] = NumBots(s)
        BY <3>3, <2>1, <1>t DEF Prompt, AnswerTo, AnswerTypeOK, NumBots
      <4>2. held[n].turns <= NumBots(s)
        BY <3>3, <4>1 DEF Shown
      <4> QED
        BY <4>1, <4>2
    <3>4. CASE answer[n] \in {"prompt", "context"} /\ Prompt(n) /\ PlainPrompt(n)
      <4>1. target[n] = s /\ answer'[n] = "get" /\ version'[n] = version[n] /\ shown'[n] = shown[n]
        BY <3>4, <2>1, <1>t DEF Prompt, PlainPrompt, AnswerTo, AnswerTypeOK
      <4>2. version[n] <= NumBots(s) /\ shown[n] = None
        BY <3>4, <4>1 DEF Shown
      <4> QED
        BY <4>1, <4>2
    <3>5. CASE answer'[n] = "prompt" /\ <<n, target'[n], version'[n]>> \in published
      <4>1. PICK p \in published : p = <<n, s, version'[n]>>
        BY <2>1, <3>5
      <4>2. version'[n] <= NumBots(s)
        BY <4>1, SessionsAssumption DEF Stamped
      <4> QED
        BY <3>5, <4>2
    <3>6. ASSUME Prompt(n), answer[n] = "prompt", ~PlainPrompt(n) PROVE answer'[n] = "context"
      BY <3>6, <1>t DEF Prompt, AnswerTo, AnswerTypeOK
    <3> QED
      BY <1>2, <3>1, <3>2, <3>3, <3>4, <3>5, <3>6, PromptMoves
  <2> HIDE DEF NumBots
  <2> QED
    BY <2>2, <2>3, <2>4, <2>5
<1>3. (\A n \in Messages :
         /\ answer[n] \in {"prompt", "context"} => version[n] <= NumBots(target[n])
         /\ answer[n] = "context" => held[n].turns <= NumBots(target[n])
         /\ answer[n] = "get" =>
              version[n] <= IF shown[n] = None THEN NumBots(target[n]) ELSE shown[n])'
  BY <1>2
<1> QED
  BY <1>1, <1>3 DEF Shown

-----------------------------------------------------------------------------
(* Seeding.                                                                *)

\* The lines of history a dispatch has behind it are in its session.
Seeding ==
  \A m \in Messages :
    /\ prep[m] = "seed" =>
         \A i \in 1 .. line[m] - 1 : History(m, i) \in transcript[session[m]]
    /\ prep[m] = "record" =>
         \/ Bots(session[m]) # {}
         \/ \A i \in 1 .. HistoryLen(m) : History(m, i) \in transcript[session[m]]

\* Only prepare_payload brings a dispatch to its seeding and its recording.
LEMMA PrepareMoves ==
  ASSUME TypeInv, [Next]_vars, NEW n \in Messages, prep'[n] \in {"seed", "record"}
  PROVE  \/ prep'[n] = prep[n] /\ session'[n] = session[n] /\ line'[n] = line[n]
         \/ Lookup(n) \/ Create(n) \/ Seed(n)
<1>t. RestTypeOK
  BY TypeParts
<1>1. CASE UNCHANGED prepareVars
  BY <1>1 DEF prepareVars
<1>2. ASSUME NEW m \in Messages, BeginPrepare(m) \/ Prepare(m), m # n
      PROVE  prep'[n] = prep[n] /\ session'[n] = session[n] /\ line'[n] = line[n]
  BY <1>2, <1>t DEF BeginPrepare, Prepare, Lookup, Create, Seed, Record, WorkIn, GiveUp,
                    PrepareReturns, PrepareTo, RestTypeOK
<1>3. ~BeginPrepare(n) /\ ~Record(n)
  BY <1>t DEF BeginPrepare, Record, GiveUp, PrepareReturns, PrepareTo, RestTypeOK
<1>4. UNCHANGED prepareVars \/ \E m \in Messages : BeginPrepare(m) \/ Prepare(m)
  BY DEF Next, vars, runtimeVars, Receive, PrepareStep, Announce, Publish, Mark, Execute,
         AnswerStep, Others, BeginAnswer, Answer, Prompt, GetSession, AddAnswer, CountTurn,
         WriteBack, Keep
<1> QED
  BY <1>1, <1>2, <1>3, <1>4 DEF Prepare

\* A dispatch that begins to work in a session has nothing behind it, and
\* goes past the history only where it has none or somebody answered.
LEMMA WorkInSeeding ==
  ASSUME TypeInv, NEW m \in Messages, prep[m] \in {"lookup", "create"},
         NEW object \in SessionObjects, WorkIn(m, object),
         object.turns # 0 => Bots(object.id)' # {}
  PROVE  /\ session'[m] = object.id
         /\ prep'[m] = "seed" => line'[m] = 1
         /\ prep'[m] = "record" => HistoryLen(m) = 0 \/ Bots(object.id)' # {}
<1>1. line[m] = 1 /\ HistoryLen(m) \in 0 .. MaxHistory /\ RestTypeOK
  BY HistoryAssumption, TypeParts DEF TypeInv, InHand
<1> QED
  BY <1>1 DEF RestTypeOK, WorkIn, PrepareTo

LEMMA StepSeeding ==
  ASSUME TypeInv, TypeInv', [Next]_vars, Counting, Seeding
  PROVE  Seeding'
<1>s. StoreStep
  BY NextStore
<1>k. \A s \in Sessions : transcript[s] \subseteq transcript'[s] /\ Bots(s) \subseteq Bots(s)'
  BY <1>s, StoreIsKept, BotsGrow DEF StoreGrows
<1>t. RestTypeOK /\ PrepareInHand /\ StoreInv
  BY TypeParts
<1>h. \A m \in Messages : HistoryLen(m) \in Nat
  BY HistoryAssumption, BoundsAssumption
<1> SUFFICES ASSUME NEW n \in Messages, prep'[n] \in {"seed", "record"}
             PROVE  /\ prep'[n] = "seed" =>
                         \A i \in 1 .. line'[n] - 1 : History(n, i) \in transcript'[session'[n]]
                    /\ prep'[n] = "record" =>
                         \/ Bots(session[n])' # {}
                         \/ \A i \in 1 .. HistoryLen(n) : History(n, i) \in transcript'[session'[n]]
  BY DEF Seeding
<1>w. ASSUME NEW object \in SessionObjects, WorkIn(n, object), prep[n] \in {"lookup", "create"},
             object.turns # 0 => Bots(object.id)' # {}
      PROVE  /\ prep'[n] = "seed" => line'[n] = 1
             /\ prep'[n] = "record" => HistoryLen(n) = 0 \/ Bots(session[n])' # {}
  <2>1. PICK s \in Sessions : s = object.id
    BY DEF SessionObjects
  <2>2. /\ session'[n] = s
        /\ prep'[n] = "seed" => line'[n] = 1
        /\ prep'[n] = "record" => HistoryLen(n) = 0 \/ Bots(s)' # {}
    <3>1. Bots(object.id)' = Bots(s)'
      BY <2>1 DEF Bots
    <3> QED
      BY <1>w, <2>1, <3>1, WorkInSeeding
  <2>3. Bots(session[n])' = Bots(s)'
    BY <2>2 DEF Bots
  <2> QED
    BY <2>2, <2>3
<1>e. ASSUME prep'[n] = "seed" => line'[n] = 1,
             prep'[n] = "record" => HistoryLen(n) = 0 \/ Bots(session[n])' # {}
      PROVE  /\ prep'[n] = "seed" =>
                  \A i \in 1 .. line'[n] - 1 : History(n, i) \in transcript'[session'[n]]
             /\ prep'[n] = "record" =>
                  \/ Bots(session[n])' # {}
                  \/ \A i \in 1 .. HistoryLen(n) : History(n, i) \in transcript'[session'[n]]
  BY <1>e
<1>1. CASE prep'[n] = prep[n] /\ session'[n] = session[n] /\ line'[n] = line[n]
  <2>1. PICK s \in Sessions : s = session[n]
    BY <1>1, <1>t DEF PrepareInHand
  <2>2. Bots(session[n])' = Bots(s)'
    BY <1>1, <2>1 DEF Bots
  <2> QED
    BY <1>1, <2>1, <2>2, <1>k DEF Seeding
<1>2. CASE Lookup(n)
  <2>1. PICK s : s = index[ThreadOf(n)]
    OBVIOUS
  <2>2. prep[n] = "lookup" /\ s # NoSession /\ WorkIn(n, saved[s]) /\ UNCHANGED storeVars
    BY <1>2, <2>1, <1>t DEF Lookup, GiveUp, PrepareReturns, PrepareTo, RestTypeOK
  <2>3. s \in Sessions /\ Exists(s)
    BY <2>1, <2>2, <1>t, ThreadsAssumption DEF StoreInv, StoreTypeOK
  <2>4. saved[s] \in SessionObjects /\ saved[s].id = s
    BY <2>3, <1>t DEF StoreInv, StoreTypeOK, Exists
  <2>5. PICK o \in SessionObjects : o = saved[s]
    BY <2>4
  <2>6. o.turns # 0 => Bots(s)' # {}
    <3>1. o.turns <= NumBots(s) /\ o.turns \in Nat
      BY <2>3, <2>5 DEF Counting, SessionObjects
    <3>2. Bots(s) = {} => NumBots(s) = 0
      BY FS_EmptySet DEF NumBots
    <3> QED
      BY <3>1, <3>2, <2>3, <1>k
  <2>7. Bots(o.id)' = Bots(s)'
    BY <2>4, <2>5 DEF Bots
  <2>8. o.turns # 0 => Bots(o.id)' # {}
    BY <2>6, <2>7
  <2>9. WorkIn(n, o) /\ prep[n] \in {"lookup", "create"}
    BY <2>2, <2>5
  <2> QED
    BY <2>8, <2>9, <1>w, <1>e
<1>3. CASE Create(n)
  <2>1. PICK s \in Sessions : StoreCreate(ThreadOf(n), s) /\ WorkIn(n, saved'[s])
    BY <1>3, <1>t DEF Create, GiveUp, PrepareReturns, PrepareTo, RestTypeOK
  <2>2. saved'[s] \in SessionObjects /\ saved'[s].turns = 0
    BY <2>1, <1>t, ThreadsAssumption
    DEF StoreCreate, StoreInv, StoreTypeOK, SessionObjects, States
  <2>3. PICK o \in SessionObjects : o = saved'[s]
    BY <2>2
  <2>4. o.turns # 0 => Bots(o.id)' # {}
    BY <2>2, <2>3
  <2>5. WorkIn(n, o) /\ prep[n] \in {"lookup", "create"}
    BY <1>3, <2>1, <2>3 DEF Create
  <2> QED
    BY <2>4, <2>5, <1>w, <1>e
<1>4. CASE Seed(n)
  <2>1. PICK s \in Sessions : s = session[n]
    BY <1>4, <1>t DEF Seed, PrepareInHand
  <2>2. /\ prep[n] = "seed" /\ session'[n] = s
        /\ StoreAdd(s, History(n, line[n]))
        /\ line'[n] = line[n] + 1
        /\ prep'[n] = IF line[n] = HistoryLen(n) THEN "record" ELSE "seed"
    BY <1>4, <2>1, <1>t DEF Seed, GiveUp, PrepareReturns, PrepareTo, RestTypeOK
  <2>3. line[n] \in Nat /\ line[n] <= HistoryLen(n)
    BY <2>2, <1>t, <1>h DEF PrepareInHand
  <2>4. transcript'[s] = transcript[s] \cup {History(n, line[n])}
    BY <2>2, <1>t DEF StoreAdd, StoreInv, StoreTypeOK
  <2>5. \A i \in 1 .. line[n] : History(n, i) \in transcript'[s]
    <3> SUFFICES ASSUME NEW i \in 1 .. line[n] PROVE History(n, i) \in transcript'[s]
      OBVIOUS
    <3>1. CASE i = line[n]
      BY <3>1, <2>4
    <3>2. CASE i \in 1 .. line[n] - 1
      BY <3>2, <2>1, <2>2, <2>4 DEF Seeding
    <3> QED
      BY <3>1, <3>2, <2>3
  <2> QED
    BY <2>2, <2>3, <2>5, <1>h
<1> QED
  BY <1>1, <1>2, <1>3, <1>4, PrepareMoves

LEMMA StepSeeded ==
  ASSUME TypeInv, [Next]_vars, Seeding, SeededFirst
  PROVE  SeededFirst'
<1>s. StoreStep
  BY NextStore
<1>k. \A s \in Sessions : transcript[s] \subseteq transcript'[s] /\ Bots(s) \subseteq Bots(s)'
  BY <1>s, StoreIsKept, BotsGrow DEF StoreGrows
<1> SUFFICES ASSUME NEW s \in Sessions, NEW m \in Messages,
                    User(m) \in transcript'[s], Bots(s)' = {}
             PROVE  \A i \in 1 .. HistoryLen(m) : History(m, i) \in transcript'[s]
  BY DEF SeededFirst
<1>1. Bots(s) = {}
  BY <1>k
<1>2. CASE User(m) \in transcript[s]
  BY <1>1, <1>2, <1>k DEF SeededFirst
<1>3. CASE User(m) \notin transcript[s]
  <2>1. PICK r \in Messages : prep[r] = "record" /\ s = session[r] /\ User(m) = User(r)
    <3>1. \A r \in Messages : \A i : User(m) # History(r, i) /\ User(m) # Bot(r, i)
      BY DEF User, History, Bot
    <3> QED
      BY <3>1, <1>3, <1>s, NewLine
  <2>2. r = m
    BY <2>1 DEF User
  <2> QED
    BY <2>1, <2>2, <1>1, <1>k DEF Seeding
<1> QED
  BY <1>2, <1>3

-----------------------------------------------------------------------------
(* Marking.                                                                *)

PublishedFirst == \A m \in Messages : disp[m] = "mark" => IsPublished(m)

LEMMA StepMarked ==
  ASSUME TypeInv, [Next]_vars, PublishedFirst, MarkedIsPublished
  PROVE  PublishedFirst' /\ MarkedIsPublished'
<1>t. disp \in [Messages -> DispatchSteps] /\ marked \subseteq Messages
  BY DEF TypeInv, TypeOK
<1>1. published \subseteq published'
  BY DEF Next, vars, Receive, PrepareStep, Announce, Publish, Mark, Execute, AnswerStep, Others
<1>2. ASSUME NEW n \in Messages, disp'[n] = "mark"
      PROVE  IsPublished(n)'
  <2>1. CASE disp[n] = "mark"
    BY <2>1, <1>1 DEF PublishedFirst, IsPublished
  <2>2. CASE disp[n] # "mark"
    <3>1. \E m \in Messages : Publish(m) /\ DispatchTo(m, "mark")
      BY <1>2, <2>2, <1>t DEF Next, vars, Receive, PrepareStep, Announce, Publish, Mark, Execute,
             AnswerStep, Others, DispatchTo
    <3>2. PICK m \in Messages : Publish(m) /\ DispatchTo(m, "mark")
      BY <3>1
    <3>3. n = m
      BY <1>2, <2>2, <3>2, <1>t DEF DispatchTo
    <3>4. <<m, attached[m], stamped[m]>> \in published'
      BY <3>2, <3>3, <1>2, <1>t DEF Publish, DispatchTo
    <3> QED
      BY <3>3, <3>4 DEF IsPublished
  <2> QED
    BY <2>1, <2>2
<1>3. ASSUME NEW n \in marked' PROVE IsPublished(n)'
  <2>1. CASE n \in marked
    BY <2>1, <1>1 DEF MarkedIsPublished, IsPublished
  <2>2. CASE n \notin marked
    <3>1. PICK m \in Messages : Mark(m)
      BY <2>2 DEF Next, vars, Receive, PrepareStep, Announce, Publish, Execute, AnswerStep, Others
    <3>2. n = m /\ disp[m] = "mark"
      BY <2>2, <3>1 DEF Mark
    <3> QED
      BY <3>2, <1>1 DEF PublishedFirst, IsPublished
  <2> QED
    BY <2>1, <2>2
<1>4. PublishedFirst'
  BY <1>2 DEF PublishedFirst
<1> QED
  BY <1>3, <1>4 DEF MarkedIsPublished

-----------------------------------------------------------------------------
(* The inductive invariant.                                                *)

ConversationInv ==
  /\ TypeInv
  /\ Recorded /\ AnsweredWasRecorded
  /\ Numbered /\ Counting /\ Stamped /\ Shown
  /\ Seeding /\ SeededFirst
  /\ PublishedFirst /\ MarkedIsPublished

LEMMA InitInv == Init => ConversationInv
<1> SUFFICES ASSUME Init PROVE ConversationInv
  OBVIOUS
<1>1. TypeInv
  BY InitTypes
<1>2. \A s \in Sessions : transcript[s] = {} /\ ~Exists(s)
  BY DEF Init, RuntimeInit, StoreInit, Exists
<1>3. \A s \in Sessions : Bots(s) = {}
  BY <1>2 DEF Bots
<1>4. Recorded /\ AnsweredWasRecorded
  BY <1>3 DEF Init, RuntimeInit, Recorded, AnsweredWasRecorded
<1>5. Numbered /\ SeededFirst
  BY <1>2 DEF Numbered, SeededFirst
<1>6. Counting
  BY <1>2, <1>3, FS_EmptySet DEF Init, RuntimeInit, Counting
<1>7. Stamped /\ Shown /\ Seeding
  BY DEF Init, RuntimeInit, Stamped, Shown, Seeding
<1>8. PublishedFirst /\ MarkedIsPublished
  BY DEF Init, PublishedFirst, MarkedIsPublished
<1> QED
  BY <1>1, <1>4, <1>5, <1>6, <1>7, <1>8 DEF ConversationInv

LEMMA StepInv == ConversationInv /\ [Next]_vars => ConversationInv'
<1> SUFFICES ASSUME ConversationInv, [Next]_vars PROVE ConversationInv'
  OBVIOUS
<1>1. TypeInv'
  BY StepTypes DEF ConversationInv, Counting
<1>2. Recorded' /\ AnsweredWasRecorded'
  BY StepRecorded, StepAnswered DEF ConversationInv
<1>3. Numbered' /\ Counting' /\ Stamped' /\ Shown'
  BY <1>1, StepNumbered, StepCounting, StepStamped, StepShown DEF ConversationInv
<1>4. Seeding' /\ SeededFirst'
  BY <1>1, StepSeeding, StepSeeded DEF ConversationInv
<1>5. PublishedFirst' /\ MarkedIsPublished'
  BY StepMarked DEF ConversationInv
<1> QED
  BY <1>1, <1>2, <1>3, <1>4, <1>5 DEF ConversationInv

LEMMA Invariance == Spec => []ConversationInv
BY InitInv, StepInv, PTL DEF Spec

-----------------------------------------------------------------------------
(* Theorems.                                                               *)

\* The variables keep their types: no step of a dispatch or an execution runs
\* without the session, the line or the Session object it needs.
THEOREM ConversationTypes == Spec => []TypeOK
<1>1. ConversationInv => TypeOK
  BY DEF ConversationInv, TypeInv
<1> QED
  BY <1>1, Invariance, PTL

\* Whatever fails, a session that has an answer has the message answered:
\* prepare_payload attaches a session_id only to a payload it has recorded.
THEOREM AnswersHaveMessages == Spec => []AnsweredWasRecorded
<1>1. ConversationInv => AnsweredWasRecorded
  BY DEF ConversationInv
<1> QED
  BY <1>1, Invariance, PTL

\* However many executions, close() and touch() write their copies of a
\* Session object back in whatever order, its turn_count is never more than
\* the answers in its transcript.
THEOREM TurnsAreSaid == Spec => []TurnsAreAnswers
<1>1. ConversationInv => TurnsAreAnswers
  BY DEF ConversationInv, Counting, NumBots, TurnsAreAnswers
<1> QED
  BY <1>1, Invariance, PTL

\* A session nobody answered in has a message only with the whole history it
\* brought, whoever else is preparing a message for the same thread.
THEOREM HistoryComesFirst == Spec => []SeededFirst
<1>1. ConversationInv => SeededFirst
  BY DEF ConversationInv
<1> QED
  BY <1>1, Invariance, PTL

\* The context version of a prompt never counts an answer that a prompt rendered
\* from the session does not show, because build_prompt gets the turn_count
\* before the context; and of a prompt sent on as it came, none that the session
\* does not have, because the payload's version was a turn_count of the session.
THEOREM VersionsAreShown == Spec => []VersionIsShown
<1>1. ConversationInv => VersionIsShown
  BY DEF ConversationInv, Shown, NumBots, VersionIsShown
<1> QED
  BY <1>1, Invariance, PTL

\* A message is marked as responded only after its task was published.
THEOREM PublishedBeforeMarked == Spec => []MarkedIsPublished
<1>1. ConversationInv => MarkedIsPublished
  BY DEF ConversationInv
<1> QED
  BY <1>1, Invariance, PTL
-----------------------------------------------------------------------------
(* Dispatchers and agents keep to the dialogue.                            *)

\* What is executed is a task that was published.
Tasked ==
  \A m \in Messages : answer[m] # "idle" => \E v \in Nat : <<m, target[m], v>> \in published

LEMMA PublishedKept ==
  ASSUME [Next]_vars
  PROVE  published \subseteq published'
BY DEF Next, vars, Receive, PrepareStep, Announce, Publish, Mark, Execute, AnswerStep, Others

\* An execution keeps its task, from its beginning to its end.
LEMMA TargetMoves ==
  ASSUME TypeInv, [Next]_vars, NEW n \in Messages, answer'[n] # "idle"
  PROVE  \/ answer[n] # "idle" /\ target'[n] = target[n]
         \/ \E v \in Nat : <<n, target'[n], v>> \in published
<1>t. AnswerTypeOK /\ DispatchTypeOK
  BY TypeParts
<1>1. CASE answer[n] # "idle" /\ target'[n] = target[n]
  BY <1>1
<1>2. CASE answer[n] = "idle" \/ target'[n] # target[n]
  <2>1. ASSUME NEW m \in Messages, AnswerReturns(m) PROVE FALSE
    BY <2>1, <1>2, <1>t DEF AnswerReturns, AnswerTo, AnswerTypeOK
  <2>2. ASSUME NEW m \in Messages, Answer(m) PROVE FALSE
    BY <2>1, <2>2, <1>2, <1>t
    DEF Answer, Prompt, PlainPrompt, GetSession, AddAnswer, CountTurn, AnswerFails, AnswerTo,
        AnswerTypeOK
  <2>3. \E m \in Messages : Execute(m)
    BY <2>2, <1>2 DEF Next, vars, runtimeVars, answerVars, Receive, PrepareStep, Announce,
           Publish, Mark, AnswerStep, Others, BeginPrepare, Prepare, Lookup, Create, Seed, Record,
           WriteBack, Keep
  <2>4. PICK m \in Messages, p \in published : p[1] = m /\ BeginAnswer(m, p[2], p[3])
    BY <2>3 DEF Execute
  <2>5. n = m /\ target'[n] = p[2]
    BY <2>4, <1>2, <1>t DEF BeginAnswer, AnswerTypeOK
  <2>6. p = <<p[1], p[2], p[3]>> /\ p[3] \in Nat
    BY <2>4, <1>t DEF DispatchTypeOK
  <2> QED
    BY <2>4, <2>5, <2>6
<1> QED
  BY <1>1, <1>2

LEMMA StepTasked ==
  ASSUME TypeInv, [Next]_vars, Tasked
  PROVE  Tasked'
BY TargetMoves, PublishedKept DEF Tasked

DialogueInv == ConversationInv /\ Tasked

\* A dispatch publishes or marks; everything else leaves that alone.
LEMMA TaskSteps ==
  ASSUME [Next]_vars
  PROVE  \/ UNCHANGED <<published, marked>>
         \/ UNCHANGED storeVars /\ \E m \in Messages : Publish(m) \/ Mark(m)
BY DEF Next, vars, Receive, PrepareStep, Announce, Publish, Mark, Execute, AnswerStep, Others

counted == [s \in Sessions |-> IF Exists(s) THEN saved[s].turns ELSE 0]
tasks == {<<p[1], p[2]>> : p \in published}

LEMMA TasksTalk ==
  ASSUME DialogueInv, UNCHANGED storeVars, NEW m \in Messages, Publish(m) \/ Mark(m)
  PROVE  Talk!DialogueNext \/ UNCHANGED Talk!dialogueVars
<1>0. counted' = counted /\ transcript' = transcript
  BY DEF counted, storeVars, Exists
<1>1. CASE Publish(m)
  <2>1. PICK s \in Sessions \cup {NoSession} : s = attached[m]
    BY TypeParts DEF DialogueInv, ConversationInv, RestTypeOK
  <2>2. s # NoSession => User(m) \in transcript[s]
    BY <2>1 DEF DialogueInv, ConversationInv, Recorded
  <2>3. /\ published' \in {published, published \cup {<<m, s, stamped[m]>>}}
        /\ marked' = marked
    BY <1>1, <2>1 DEF Publish
  <2>4. tasks' \in {tasks, tasks \cup {<<m, s>>}}
    BY <2>3 DEF tasks
  <2>5. tasks' = tasks \/ Talk!Post(m, s)
    BY <1>0, <2>2, <2>3, <2>4 DEF Talk!Post, Talk!Message, User, counted, tasks
  <2> QED
    BY <1>0, <2>3, <2>5 DEF Talk!DialogueNext, Talk!dialogueVars, counted, tasks
<1>2. CASE Mark(m)
  <2>1. IsPublished(m)
    BY <1>2 DEF Mark, DialogueInv, ConversationInv, PublishedFirst
  <2>2. PICK s \in Sessions \cup {NoSession} : <<m, s>> \in tasks
    BY <2>1, TypeParts DEF IsPublished, tasks, DialogueInv, ConversationInv, DispatchTypeOK
  <2>3. marked' \in {marked, marked \cup {m}} /\ published' = published
    BY <1>2 DEF Mark
  <2>4. tasks' = tasks
    BY <2>3 DEF tasks
  <2>5. marked' = marked \/ Talk!Settle(m)
    BY <1>0, <2>2, <2>3, <2>4 DEF Talk!Settle, counted, tasks
  <2> QED
    BY <1>0, <2>3, <2>4, <2>5 DEF Talk!DialogueNext, Talk!dialogueVars, counted, tasks
<1> QED
  BY <1>1, <1>2

\* A line is added to a session.
LEMMA LineTalks ==
  ASSUME NEW s, NEW l, StoreAdd(s, l), UNCHANGED <<published, marked>>
  PROVE  Talk!Add(s, l)
<1>1. counted' = counted /\ tasks' = tasks
  BY DEF counted, tasks, StoreAdd, Exists
<1> QED
  BY <1>1 DEF Talk!Add, StoreAdd, counted, tasks

\* A Session object is written.
LEMMA UpdateTalks ==
  ASSUME TypeInv, NEW object \in SessionObjects, object.turns <= NumBots(object.id),
         IsFiniteSet(Bots(object.id)),
         StoreUpdate(object), UNCHANGED <<published, marked>>
  PROVE  \E s \in Sessions : Talk!Count(s)
<1>1. PICK s \in Sessions, n \in Nat : s = object.id /\ n = object.turns
  BY DEF SessionObjects
<1>2. n \in 0 .. Cardinality(Bots(s))
  BY <1>1, FS_CardinalityType DEF NumBots
<1>3. counted' = [counted EXCEPT ![s] = n]
  <2>1. saved' = [saved EXCEPT ![s] = object] /\ saved \in [Sessions -> SessionObjects \cup {NoSession}]
    BY <1>1 DEF StoreUpdate, TypeInv, StoreInv, StoreTypeOK
  <2>2. object # NoSession
    BY SessionsAssumption
  <2> QED
    BY <1>1, <2>1, <2>2 DEF counted, Exists
<1>4. Talk!Cardinality(Talk!Replies(s)) = Cardinality(Bots(s))
  BY DEF Talk!Replies, Bots, Talk!Cardinality, Cardinality
<1>5. tasks' = tasks
  BY DEF tasks
<1>6. Talk!Count(s)
  BY <1>2, <1>3, <1>4, <1>5 DEF Talk!Count, StoreUpdate, counted, tasks
<1> QED
  BY <1>6

LEMMA StoreTalks ==
  ASSUME DialogueInv, StoreStep, UNCHANGED <<published, marked>>
  PROVE  Talk!DialogueNext \/ UNCHANGED Talk!dialogueVars
<1>i. /\ TypeInv /\ Numbered /\ Counting /\ Seeding
      /\ StoreTypeOK /\ RestTypeOK /\ AnswerTypeOK /\ DispatchTypeOK /\ PrepareInHand /\ AnswerInHand
  BY TypeParts DEF DialogueInv, ConversationInv, StoreInv
<1>r. \A s : Talk!Replies(s) = Bots(s)
  BY DEF Talk!Replies, Bots
<1>k. tasks' = tasks
  BY DEF tasks
<1>1. CASE UNCHANGED storeVars
  <2>1. counted' = counted
    BY <1>1 DEF counted, storeVars, Exists
  <2> QED
    BY <1>1, <1>k, <2>1 DEF storeVars, Talk!dialogueVars, counted, tasks
<1>2. ASSUME NEW m \in Messages, NEW s \in Sessions, StoreCreate(ThreadOf(m), s)
      PROVE  UNCHANGED Talk!dialogueVars
  <2>1. saved \in [Sessions -> SessionObjects \cup {NoSession}] /\ saved[s] = NoSession
    BY <1>2, <1>i DEF StoreCreate, StoreTypeOK, Exists
  <2>2. \A r \in Sessions : saved'[r] = saved[r] \/ (r = s /\ saved'[r].turns = 0)
    BY <1>2, <2>1 DEF StoreCreate
  <2>3. counted' = counted
    BY <2>1, <2>2 DEF counted, Exists
  <2> QED
    BY <1>2, <1>k, <2>3 DEF StoreCreate, Talk!dialogueVars, counted, tasks
<1>3. ASSUME NEW m \in Messages, prep[m] = "seed", StoreAdd(session[m], History(m, line[m]))
      PROVE  Talk!DialogueNext
  <2>1. PICK s \in Sessions, i \in 1 .. HistoryLen(m) : s = session[m] /\ i = line[m]
    BY <1>3, <1>i DEF PrepareInHand
  <2>2. \A j \in 1 .. i - 1 : History(m, j) \in transcript[s]
    BY <1>3, <1>i, <2>1 DEF Seeding
  <2>3. Talk!Add(s, History(m, i))
    BY <1>3, <2>1, LineTalks
  <2>4. Talk!Recall(s, m, i)
    BY <2>2, <2>3 DEF Talk!Recall, Talk!Earlier, History
  <2> QED
    BY <2>4 DEF Talk!DialogueNext
<1>4. ASSUME NEW m \in Messages, prep[m] = "record", StoreAdd(session[m], User(m))
      PROVE  Talk!DialogueNext
  <2>1. PICK s \in Sessions : s = session[m]
    BY <1>4, <1>i DEF PrepareInHand
  <2>2. Bots(s) # {} \/ \A i \in 1 .. HistoryLen(m) : History(m, i) \in transcript[s]
    BY <1>4, <1>i, <2>1 DEF Seeding
  <2>3. Talk!Add(s, User(m))
    BY <1>4, <2>1, LineTalks
  <2>4. Talk!Hear(s, m)
    BY <2>2, <2>3, <1>r DEF Talk!Hear, Talk!Earlier, Talk!Message, History, User
  <2> QED
    BY <2>4 DEF Talk!DialogueNext
<1>5. ASSUME NEW m \in Messages, answer[m] = "add", StoreAdd(target[m], Bot(m, executed[m]))
      PROVE  Talk!DialogueNext
  <2>1. PICK s \in Sessions, k \in 1 .. Executions : s = target[m] /\ k = executed[m]
    BY <1>5, <1>i DEF AnswerInHand
  <2>2. PICK v \in Nat : <<m, s, v>> \in published
    BY <1>5, <2>1 DEF DialogueInv, Tasked
  <2>t. <<m, s>> \in tasks
    BY <2>2 DEF tasks
  <2>3. Bot(m, k) \notin transcript[s]
    BY <1>5, <1>i, <2>1 DEF Numbered
  <2>4. Talk!Add(s, Bot(m, k))
    BY <1>5, <2>1, LineTalks
  <2>5. Talk!Say(s, m, k)
    BY <2>t, <2>3, <2>4 DEF Talk!Say, Talk!Reply, Bot, tasks
  <2> QED
    BY <2>5 DEF Talk!DialogueNext
<1>6. ASSUME NEW o \in SessionObjects, o.turns <= NumBots(o.id), StoreUpdate(o)
      PROVE  Talk!DialogueNext
  <2>1. IsFiniteSet(Bots(o.id))
    BY <1>i DEF Counting, SessionObjects
  <2>2. PICK s \in Sessions : Talk!Count(s)
    BY <1>i, <1>6, <2>1, UpdateTalks
  <2> QED
    BY <2>2 DEF Talk!DialogueNext
<1>7. ASSUME NEW m \in Messages, answer[m] = "update",
             StoreUpdate([held[m] EXCEPT !.turns = @ + 1])
      PROVE  Talk!DialogueNext
  <2>1. held[m] \in SessionObjects /\ held[m].turns + 1 <= NumBots(held[m].id)
    BY <1>7, <1>i DEF AnswerTypeOK, AnswerInHand, Counting
  <2>2. PICK o : o = [held[m] EXCEPT !.turns = @ + 1]
    OBVIOUS
  <2>3. o \in SessionObjects /\ o.turns = held[m].turns + 1 /\ o.id = held[m].id
    BY <2>1, <2>2 DEF SessionObjects
  <2>4. o.turns <= NumBots(o.id) /\ StoreUpdate(o)
    BY <1>7, <2>1, <2>2, <2>3
  <2> QED
    BY <1>6, <2>3, <2>4
<1>8. ASSUME kept # NoSession, NEW state \in {kept.state, "archived"},
             StoreUpdate([kept EXCEPT !.state = state])
      PROVE  Talk!DialogueNext
  <2>1. kept \in SessionObjects /\ kept.turns <= NumBots(kept.id)
    BY <1>8, <1>i DEF DispatchTypeOK, Counting
  <2>2. PICK o : o = [kept EXCEPT !.state = state]
    OBVIOUS
  <2>3. o \in SessionObjects /\ o.turns = kept.turns /\ o.id = kept.id
    BY <2>1, <2>2 DEF SessionObjects, States
  <2>4. o.turns <= NumBots(o.id) /\ StoreUpdate(o)
    BY <1>8, <2>1, <2>2, <2>3
  <2> QED
    BY <1>6, <2>3, <2>4
<1> QED
  BY <1>1, <1>2, <1>3, <1>4, <1>5, <1>7, <1>8 DEF StoreStep

LEMMA DialogueStep ==
  ASSUME DialogueInv, [Next]_vars
  PROVE  [Talk!DialogueNext]_(Talk!dialogueVars)
<1>1. TypeInv
  BY DEF DialogueInv, ConversationInv
<1>2. StoreStep
  BY NextStore
<1> QED
  BY <1>2, TaskSteps, TasksTalk, StoreTalks

\* Dispatchers, agents and the callers of close() and touch() keep to the
\* dialogue: whichever calls fail, however often a message is dispatched and
\* executed, and in whatever order copies of a Session object are written
\* back.
THEOREM ConversationsImplementDialogue == Spec => ImplementsDialogue
<1>1. Init => DialogueInv
  BY InitInv DEF Init, RuntimeInit, DialogueInv, Tasked
<1>2. DialogueInv /\ [Next]_vars => DialogueInv'
  BY StepInv, StepTasked DEF DialogueInv, ConversationInv
<1>3. Init => Talk!DialogueInit
  <2>1. Init => counted = [s \in Sessions |-> 0]
    BY DEF Init, RuntimeInit, StoreInit, counted, Exists
  <2> QED
    BY <2>1 DEF Init, RuntimeInit, StoreInit, Talk!DialogueInit, counted
<1>4. DialogueInv /\ [Next]_vars => [Talk!DialogueNext]_(Talk!dialogueVars)
  BY DialogueStep
<1> QED
  BY <1>1, <1>2, <1>3, <1>4, PTL DEF Spec, ImplementsDialogue, Talk!DialogueSpec

-----------------------------------------------------------------------------
(* Domains.                                                                *)

\* Whatever a payload calls its domain, _parse_domain finds one (it fails
\* open), which _coerce_domain leaves as it is: the session that is looked up
\* for a payload is one that SessionManager's other callers find by that
\* domain, and a name both know means the same to both.
THEOREM DomainsAgree ==
  ASSUME NEW raw
  PROVE  /\ ParseDomain(raw) \in Departments
         /\ Coerce(ParseDomain(raw)) = ParseDomain(raw)
         /\ Coerce(raw) # Raises => ParseDomain(raw) = Coerce(raw)
<1> USE DEF Departments, Raises, Parse, Coerce
<1>1. Coerce(raw) = Raises \/ Coerce(raw) \in Departments
  OBVIOUS
<1>2. \A d \in Departments : Coerce(d) = d
  OBVIOUS
<1>3. "" \notin Departments /\ Coerce("") = Raises
  OBVIOUS
<1>4. ParseDomain(raw) \in Departments
  BY <1>1 DEF ParseDomain
<1> QED
  BY <1>2, <1>3, <1>4 DEF ParseDomain

=============================================================================
