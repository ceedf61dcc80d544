------------------------ MODULE PluginRegistry_proofs ------------------------
(***************************************************************************)
(* Proofs about PluginRegistry.tla, for any plugins, instances, callers    *)
(* and batches of tool calls.                                              *)
(*                                                                         *)
(* What a step does to the registry is one of a few effects (Effect), and  *)
(* the invariants of the registry follow from the effects; the invariant   *)
(* of the calls follows from where each coroutine may go on.               *)
(***************************************************************************)
EXTENDS PluginRegistry, FiniteSetTheorems, SequenceTheorems, TLAPS

\* The setups under way are those of the names being loaded, one for each.
SettingInv ==
  /\ \A c \in Callers : Setting(c) =>
       /\ name[c] \in loading
       /\ obj[c] \in setups \ Given /\ NameOf[obj[c]] = name[c]
       /\ pending[name[c]] = obj[c] \/ (pending[name[c]] = None /\ stopping)
       /\ name[c] \in Loaded => name[c] \in GivenNames
  /\ \A c, d \in Callers : Setting(c) /\ Setting(d) /\ name[c] = name[d] => c = d
  /\ \A n \in loading : \E c \in Callers : Setting(c) /\ name[c] = n

\* An instance whose setup() came to its end is not pending.
PendingInv ==
  \A n \in Pending :
    /\ NameOf[pending[n]] = n /\ pending[n] \in created \ Given
    /\ pending[n] \in setups => n \in loading

\* Those that were discovered listed their actions.
ListedInv == created \ Given \subseteq listed

\* The instances loaded, and those that coroutines wait for.
LoadedInv ==
  /\ \A n \in Loaded : plugins[n] \in ready /\ NameOf[plugins[n]] = n
  /\ \A c \in Callers : obj[c] # None => NameOf[obj[c]] = name[c]
  /\ \A c \in Callers :
       pc[c] = "setup" => obj[c] \in setups /\ (op[c] = "load" => obj[c] \in Given)
  /\ OneState

InfoInv ==
  /\ LoadedHasInfo /\ InfoIsKnown
  /\ \A n \in Pending \ GivenNames : pending[n] \notin Unlistable => info[n] = pending[n]

\* Where each coroutine is, and how far it is with its tool calls.
CallInv ==
  \A c \in Callers :
    /\ pc[c] = "next" => baton = c
    /\ pc[c] = "idle" => op[c] = "none"
    /\ pc[c] = "teardown" => op[c] \in {"unload", "shutdown"}
    /\ op[c] = "shutdown" => stopping
    /\ op[c] \in {"execute", "tools"} => pc[c] \in {"next", "setup", "run"}
    /\ op[c] \in {"execute", "tools"} /\ pc[c] = "next" /\ name[c] # None => name[c] \in Loaded

ToolInv ==
  \A c \in Callers :
    /\ op[c] # "tools" => at[c] = 0 /\ batch[c] = <<>> /\ results[c] = <<>>
    /\ op[c] = "tools" /\ pc[c] = "next" /\ name[c] = None => Len(results[c]) = at[c]
    /\ op[c] = "tools" /\ ~(pc[c] = "next" /\ name[c] = None) =>
         at[c] > 0 /\ Len(results[c]) = at[c] - 1 /\ name[c] = batch[c][at[c]]

-----------------------------------------------------------------------------
(* How coroutines move.                                                    *)

CallTypeOK ==
  /\ op \in [Callers -> Api \cup {"none"}]
  /\ pc \in [Callers -> {"idle", "next", "setup", "run", "health", "teardown"}]
  /\ name \in [Callers -> Names \cup {None}]
  /\ obj \in [Callers -> Objects \cup {None}]

Moved(c, call, step, n, o) ==
  /\ op'[c] = call /\ pc'[c] = step /\ name'[c] = n /\ obj'[c] = o
  /\ \A d \in Callers \ {c} :
       op'[d] = op[d] /\ pc'[d] = pc[d] /\ name'[d] = name[d] /\ obj'[d] = obj[d]

LEMMA WaitMoves ==
  ASSUME CallTypeOK, NEW c \in Callers, NEW call, NEW step, NEW n, NEW o,
         Wait(c, call, step, n, o)
  PROVE  Moved(c, call, step, n, o) /\ baton' = None
BY DEF Wait, CallTypeOK, Moved

LEMMA ContinueMoves ==
  ASSUME CallTypeOK, NEW c \in Callers, NEW call, NEW n, Continue(c, call, n)
  PROVE  Moved(c, call, "next", n, None) /\ baton' = c
BY DEF Continue, CallTypeOK, Moved

LEMMA ReturnMoves ==
  ASSUME CallTypeOK, NEW c \in Callers, Return(c)
  PROVE  Moved(c, "none", "idle", None, None) /\ baton' = None
BY DEF Return, CallTypeOK, Moved

LEMMA FailsMoves ==
  ASSUME CallTypeOK, NEW c \in Callers, NEW call, Fails(c, call)
  PROVE  \/ Moved(c, "none", "idle", None, None) /\ call = "execute" /\ UNCHANGED results
         \/ /\ Moved(c, "tools", "next", None, None) /\ call = "tools"
            /\ results' = [results EXCEPT ![c] = Append(@, FALSE)]
BY ContinueMoves, ReturnMoves DEF Fails

\* A coroutine that is no longer at a setup() and did not begin another.
Elsewhere(c) ==
  \E call, step, n, o :
    /\ Moved(c, call, step, n, o)
    /\ step # "setup"
    /\ o # None => n \in Names /\ o = plugins[n]

LEMMA ReturnElsewhere ==
  ASSUME CallTypeOK, NEW c \in Callers, NEW call, NEW n,
         Return(c) \/ Continue(c, call, n)
  PROVE  Elsewhere(c)
<1>1. CASE Return(c)
  <2>1. Moved(c, "none", "idle", None, None)
    BY <1>1, ReturnMoves
  <2> QED
    BY <2>1 DEF Elsewhere
<1>2. CASE Continue(c, call, n)
  <2>1. Moved(c, call, "next", n, None)
    BY <1>2, ContinueMoves
  <2> QED
    BY <2>1 DEF Elsewhere
<1> QED
  BY <1>1, <1>2

LEMMA WaitElsewhere ==
  ASSUME CallTypeOK, NEW c \in Callers, NEW call, NEW step, step # "setup",
         NEW n \in Names, Wait(c, call, step, n, plugins[n])
  PROVE  Elsewhere(c)
<1>1. Moved(c, call, step, n, plugins[n])
  BY WaitMoves
<1> QED
  BY <1>1 DEF Elsewhere

LEMMA FailsElsewhere ==
  ASSUME CallTypeOK, NEW c \in Callers, NEW call, Fails(c, call)
  PROVE  Elsewhere(c)
BY ReturnElsewhere DEF Fails

LEMMA RunElsewhere ==
  ASSUME CallTypeOK, NEW c \in Callers, NEW call, NEW n \in Names, RunAction(c, call, n)
  PROVE  Elsewhere(c)
BY FailsElsewhere, WaitElsewhere DEF RunAction

LEMMA EnsuredElsewhere ==
  ASSUME CallTypeOK, NEW c \in Callers, NEW done, Ensured(c, done)
  PROVE  Elsewhere(c)
BY ReturnElsewhere, FailsElsewhere DEF Ensured

-----------------------------------------------------------------------------
(* What a step does to the registry.                                       *)

registered == <<plugins, pending, info, loading, created, listed, setups, ready>>

Idle == UNCHANGED <<registered, op, pc, name, obj, stopping>>

Quiet(c) ==
  /\ ~Setting(c)
  /\ Elsewhere(c)
  /\ UNCHANGED registered
  /\ stopping => stopping'

Begins(c, n) ==
  /\ ~Setting(c)
  /\ SetsUp(n)
  /\ \E call \in {"ensure", "setup_all", "execute", "tools"} :
       Moved(c, call, "setup", n, pending[n])
  /\ loading' = loading \cup {n}
  /\ setups' = setups \cup {pending[n]}
  /\ UNCHANGED <<plugins, pending, info, created, listed, ready, stopping>>

Succeeds(c) ==
  LET n == name[c] o == obj[c] IN
  /\ Setting(c)
  /\ n \in Pending
  /\ Elsewhere(c)
  /\ loading' = loading \ {n}
  /\ pending' = [pending EXCEPT ![n] = None]
  /\ plugins' = [plugins EXCEPT ![n] = o]
  /\ ready' = ready \cup {o}
  /\ UNCHANGED <<info, created, listed, setups, stopping>>

GivesUp(c) ==
  LET n == name[c] o == obj[c] IN
  /\ Setting(c)
  /\ Elsewhere(c)
  /\ loading' = loading \ {n}
  /\ pending' = [pending EXCEPT ![n] = None]
  /\ info' = [info EXCEPT ![n] = None]
  /\ ready' \in {ready, ready \cup {o}}
  /\ UNCHANGED <<plugins, created, listed, setups, stopping>>

Cancels(c) ==
  /\ Setting(c)
  /\ Elsewhere(c)
  /\ loading' = loading \ {name[c]}
  /\ setups' = setups \ {obj[c]}
  /\ UNCHANGED <<plugins, pending, info, created, listed, ready, stopping>>

Creates(c, o) ==
  /\ pc[c] = "idle"
  /\ ~Setting(c)
  /\ o \in Given
  /\ Moved(c, "load", "setup", NameOf[o], o)
  /\ created' = created \cup {o}
  /\ setups' = setups \cup {o}
  /\ UNCHANGED <<plugins, pending, info, loading, listed, ready, stopping>>

Loads(c) ==
  LET n == name[c] o == obj[c] IN
  /\ op[c] = "load" /\ pc[c] = "setup"
  /\ Elsewhere(c)
  /\ ready' = ready \cup {o}
  /\ listed' = listed \cup {o}
  /\ plugins' = [plugins EXCEPT ![n] = o]
  /\ info' = IF o \in Unlistable THEN info ELSE [info EXCEPT ![n] = o]
  /\ UNCHANGED <<pending, loading, created, setups, stopping>>

Unloads(c) ==
  LET n == name[c] IN
  /\ pc[c] = "teardown"
  /\ Elsewhere(c)
  /\ ready' = ready \ {obj[c]}
  /\ plugins' = [plugins EXCEPT ![n] = None]
  /\ info' = IF n \in Loaded THEN [info EXCEPT ![n] = None] ELSE info
  /\ UNCHANGED <<pending, loading, created, listed, setups, stopping>>

Forgets(c) ==
  /\ ~Setting(c)
  /\ stopping
  /\ Elsewhere(c)
  /\ ForgetPending
  /\ UNCHANGED <<plugins, loading, created, listed, setups, ready, stopping>>

Effect ==
  \/ Idle
  \/ Discover
  \/ \E c \in Callers :
       \/ Quiet(c) \/ Succeeds(c) \/ GivesUp(c) \/ Cancels(c) \/ Loads(c) \/ Unloads(c)
       \/ Forgets(c)
       \/ \E n \in Names : Begins(c, n)
       \/ \E o \in Objects : Creates(c, o)

LEMMA SetupBegins ==
  ASSUME CallTypeOK, NEW c \in Callers, NEW n \in Names, ~Setting(c),
         NEW call \in {"ensure", "setup_all", "execute", "tools"}, BeginSetup(c, call, n),
         UNCHANGED <<plugins, pending, info, created, listed, ready, stopping>>
  PROVE  Begins(c, n)
BY WaitMoves DEF BeginSetup, Begins

LEMMA ExecuteEffect ==
  ASSUME CallTypeOK, NEW c \in Callers, NEW n \in Names, ~Setting(c),
         NEW call \in {"execute", "tools"}, Executes(c, call, n),
         UNCHANGED <<plugins, pending, info, created, listed, ready, stopping>>
  PROVE  Begins(c, n) \/ Quiet(c)
<1>1. CASE BeginSetup(c, call, n)
  BY <1>1, SetupBegins
<1>2. CASE Elsewhere(c) /\ UNCHANGED <<loading, setups>>
  BY <1>2 DEF Quiet, registered
<1> QED
  BY <1>1, <1>2, RunElsewhere, FailsElsewhere DEF Executes

LEMMA CallEffect ==
  ASSUME CallTypeOK, NEW c \in Callers, pc[c] = "idle",
         \/ SetupAll(c) \/ HealthAll(c) \/ Shutdown(c)
         \/ \E n \in Names : Ensure(c, n) \/ Execute(c, n) \/ Unload(c, n)
         \/ \E o \in Objects : Load(c, o)
         \/ \E b \in Batches : Tools(c, b)
  PROVE  Effect
<1>s. ~Setting(c)
  BY DEF Setting
<1>1. CASE SetupAll(c) \/ HealthAll(c) \/ Shutdown(c) \/ \E b \in Batches : Tools(c, b)
  <2>1. Elsewhere(c)
    BY <1>1, ReturnElsewhere DEF SetupAll, HealthAll, Shutdown, Tools
  <2> QED
    BY <1>1, <1>s, <2>1
    DEF Effect, Quiet, registered, registryVars, pluginVars, SetupAll, HealthAll, Shutdown, Tools
<1>2. ASSUME NEW n \in Names, Ensure(c, n) PROVE Effect
  <2>1. CASE BeginSetup(c, "ensure", n)
    BY <1>2, <2>1, <1>s, SetupBegins DEF Ensure, Effect
  <2>2. CASE Return(c) /\ UNCHANGED <<loading, setups>>
    BY <1>2, <2>2, <1>s, ReturnElsewhere DEF Ensure, Effect, Quiet, registered
  <2> QED
    BY <1>2, <2>1, <2>2 DEF Ensure
<1>3. ASSUME NEW n \in Names, Execute(c, n) PROVE Effect
  BY <1>3, <1>s, ExecuteEffect DEF Execute, Effect
<1>4. ASSUME NEW n \in Names, Unload(c, n) PROVE Effect
  <2>1. Elsewhere(c)
    BY <1>4, ReturnElsewhere, WaitElsewhere DEF Unload
  <2> QED
    BY <1>4, <2>1, <1>s DEF Unload, Effect, Quiet, registered, registryVars, pluginVars
<1>5. ASSUME NEW o \in Objects, Load(c, o) PROVE Effect
  <2>1. CASE Return(c) /\ UNCHANGED <<created, setups>>
    BY <1>5, <2>1, <1>s, ReturnElsewhere DEF Load, Effect, Quiet, registered, registryVars
  <2>2. CASE /\ Wait(c, "load", "setup", NameOf[o], o)
             /\ created' = created \cup {o} /\ setups' = setups \cup {o}
    <3>1. Moved(c, "load", "setup", NameOf[o], o)
      BY <2>2, WaitMoves
    <3> QED
      BY <1>5, <2>2, <3>1, <1>s DEF Load, Effect, Creates, registryVars
  <2> QED
    BY <1>5, <2>1, <2>2 DEF Load
<1> QED
  BY <1>1, <1>2, <1>3, <1>4, <1>5

LEMMA BatchTypes ==
  ASSUME TypeOK, NEW c \in Callers
  PROVE  batch[c] \in Seq(Names \cup {None}) /\ Len(batch[c]) \in Nat
<1>1. batch[c] \in Seq(Names \cup {None})
  <2>1. batch[c] \in Batches \/ batch[c] = <<>>
    BY DEF TypeOK
  <2>2. Batches \subseteq Seq(Names \cup {None})
    BY RegistryAssumption
  <2>3. <<>> \in Seq(Names \cup {None})
    OBVIOUS
  <2> QED
    BY <2>1, <2>2, <2>3
<1> QED
  BY <1>1

\* The tool call a batch has next.
LEMMA NextCall ==
  ASSUME TypeOK, NEW c \in Callers, at[c] < Len(batch[c])
  PROVE  batch[c][at[c] + 1] \in Names \cup {None}
<1>1. batch[c] \in Seq(Names \cup {None})
  BY BatchTypes
<1>2. at[c] \in Nat /\ at[c] + 1 \in 1 .. Len(batch[c])
  BY <1>1 DEF TypeOK
<1> QED
  BY <1>1, <1>2

LEMMA CallTypes == TypeOK => CallTypeOK
BY DEF TypeOK, CallTypeOK

LEMMA GoesEffect ==
  ASSUME TypeOK, CallInv, NEW c \in Callers, Goes(c)
  PROVE  Effect
<1>t. CallTypeOK
  BY CallTypes
<1>1. CASE SetupNext(c)
  <2>s. ~Setting(c)
    BY <1>1 DEF SetupNext, Resumes, Setting
  <2>1. ASSUME NEW n \in todo[c], BeginSetup(c, "setup_all", n) PROVE Effect
    <3>1. n \in Names
      BY DEF TypeOK
    <3> QED
      BY <1>1, <1>t, <2>1, <2>s, <3>1, SetupBegins DEF SetupNext, Effect
  <2>2. CASE (Continue(c, "setup_all", None) \/ Return(c)) /\ UNCHANGED <<loading, setups>>
    BY <1>1, <1>t, <2>2, <2>s, ReturnElsewhere DEF SetupNext, Effect, Quiet, registered
  <2> QED
    BY <1>1, <2>1, <2>2 DEF SetupNext
<1>2. CASE SetupEnds(c)
  <2>1. Setting(c) /\ Elsewhere(c)
    BY <1>2, <1>t, EnsuredElsewhere DEF SetupEnds, Setting
  <2> QED
    BY <1>2, <2>1 DEF SetupEnds, Succeeds, GivesUp, Effect
<1>3. CASE ExecuteReady(c)
  <2>1. name[c] \in Names /\ ~Setting(c)
    BY <1>3, <1>t DEF ExecuteReady, Resumes, CallTypeOK, Setting
  <2>2. Elsewhere(c)
    BY <1>3, <1>t, <2>1, RunElsewhere DEF ExecuteReady
  <2> QED
    BY <1>3, <2>1, <2>2
    DEF ExecuteReady, Effect, Quiet, registered, registryVars, pluginVars
<1>4. CASE ActionEnds(c)
  <2>1. Elsewhere(c) /\ ~Setting(c)
    BY <1>4, <1>t, FailsElsewhere, ReturnElsewhere DEF ActionEnds, Resumes, Setting
  <2> QED
    BY <1>4, <2>1 DEF ActionEnds, Effect, Quiet, registered, registryVars, pluginVars
<1>5. CASE ToolsNext(c)
  <2> DEFINE n == batch[c][at[c] + 1]
  <2>s. ~Setting(c)
    BY <1>5 DEF ToolsNext, Resumes, Setting
  <2>n. n \in Names \cup {None}
    BY <1>5, NextCall DEF ToolsNext
  <2>1. CASE Fails(c, "tools") /\ UNCHANGED <<loading, setups>>
    BY <1>5, <1>t, <2>1, <2>s, FailsElsewhere DEF ToolsNext, Effect, Quiet, registered
  <2>2. CASE n # None /\ Executes(c, "tools", n)
    BY <1>5, <1>t, <2>2, <2>s, <2>n, ExecuteEffect DEF ToolsNext, Effect
  <2> QED
    BY <1>5, <2>1, <2>2 DEF ToolsNext
<1>6. CASE ToolsEnd(c)
  <2>1. Elsewhere(c) /\ ~Setting(c)
    BY <1>6, <1>t, ReturnElsewhere DEF ToolsEnd, Resumes, Setting
  <2> QED
    BY <1>6, <2>1 DEF ToolsEnd, Effect, Quiet, registered, registryVars, pluginVars
<1>7. CASE LoadEnds(c)
  <2>1. Elsewhere(c) /\ ~Setting(c) /\ op[c] = "load" /\ pc[c] = "setup"
    BY <1>7, <1>t, ReturnElsewhere DEF LoadEnds, Resumes, Setting
  <2> QED
    BY <1>7, <2>1 DEF LoadEnds, Effect, Quiet, Loads, registered
<1>8. CASE HealthNext(c)
  <2>1. ~Setting(c)
    BY <1>8 DEF HealthNext, Resumes, Setting
  <2>2. Elsewhere(c)
    BY <1>8, <1>t, ReturnElsewhere, WaitElsewhere DEF HealthNext, Loaded
  <2> QED
    BY <1>8, <2>1, <2>2 DEF HealthNext, Effect, Quiet, registered, registryVars, pluginVars
<1>9. CASE HealthEnds(c)
  <2>1. Elsewhere(c) /\ ~Setting(c)
    BY <1>9, <1>t, ReturnElsewhere DEF HealthEnds, Resumes, Setting
  <2> QED
    BY <1>9, <2>1 DEF HealthEnds, Effect, Quiet, registered, registryVars, pluginVars
<1>10. CASE TeardownEnds(c)
  <2>1. Elsewhere(c) /\ ~Setting(c)
    BY <1>10, <1>t, ReturnElsewhere DEF TeardownEnds, Unloaded, Setting
  <2> QED
    BY <1>10, <2>1 DEF TeardownEnds, Effect, Quiet, Unloads, registered
<1>11. CASE ShutdownNext(c)
  <2>1. ~Setting(c) /\ stopping
    BY <1>11 DEF ShutdownNext, Resumes, Setting, CallInv
  <2>2. Elsewhere(c)
    BY <1>11, <1>t, ReturnElsewhere, WaitElsewhere DEF ShutdownNext, Loaded
  <2> QED
    BY <1>11, <2>1, <2>2
    DEF ShutdownNext, Effect, Quiet, Forgets, registered, registryVars, pluginVars
<1>12. CASE Cancel(c)
  <2>1. Elsewhere(c)
    BY <1>12, <1>t, ReturnElsewhere DEF Cancel
  <2> QED
    BY <1>12, <2>1 DEF Cancel, Effect, Quiet, Cancels, registered
<1> QED
  BY <1>1, <1>2, <1>3, <1>4, <1>5, <1>6, <1>7, <1>8, <1>9, <1>10, <1>11, <1>12 DEF Goes

LEMMA NextEffect ==
  ASSUME TypeOK, CallInv, [Next]_vars
  PROVE  Effect
<1>1. CASE UNCHANGED vars
  BY <1>1 DEF vars, registryVars, pluginVars, callVars, Effect, Idle, registered
<1>2. CASE SetBroker
  BY <1>2 DEF SetBroker, pluginVars, callVars, Effect, Idle, registered
<1>3. CASE Discover
  BY <1>3 DEF Effect
<1>4. ASSUME NEW c \in Callers, Goes(c) PROVE Effect
  BY <1>4, GoesEffect
<1>5. ASSUME NEW c \in Callers,
             \/ SetupAll(c) \/ HealthAll(c) \/ Shutdown(c)
             \/ \E n \in Names : Ensure(c, n) \/ Execute(c, n) \/ Unload(c, n)
             \/ \E o \in Objects : Load(c, o)
             \/ \E b \in Batches : Tools(c, b)
      PROVE  Effect
  <2>1. pc[c] = "idle"
    BY <1>5 DEF SetupAll, HealthAll, Shutdown, Ensure, Execute, Unload, Load, Tools, Calls
  <2> QED
    BY <1>5, <2>1, CallTypes, CallEffect
<1> QED
  BY <1>1, <1>2, <1>3, <1>4, <1>5 DEF Next

-----------------------------------------------------------------------------
(* The registry's invariants, effect by effect.                            *)

RegistryTypeOK ==
  /\ plugins \in Slots
  /\ pending \in Slots
  /\ info \in Slots
  /\ loading \subseteq Names
  /\ ready \subseteq listed /\ listed \subseteq created
  /\ setups \subseteq created /\ created \subseteq Objects

\* The shape of one name's part of the registry once a coroutine is elsewhere.
LEMMA ElsewhereSetting ==
  ASSUME NEW c \in Callers, Elsewhere(c)
  PROVE  /\ \A d \in Callers : Setting(d)' => Setting(d) /\ d # c
         /\ \A d \in Callers : Setting(d) /\ d # c => Setting(d)'
         /\ \A d \in Callers : d # c =>
              op'[d] = op[d] /\ pc'[d] = pc[d] /\ name'[d] = name[d] /\ obj'[d] = obj[d]
         /\ pc'[c] # "setup"
         /\ obj'[c] # None => name'[c] \in Names /\ obj'[c] = plugins[name'[c]]
BY DEF Elsewhere, Moved, Setting

LEMMA SettingStep ==
  ASSUME RegistryTypeOK, CallTypeOK, SettingInv, PendingInv, LoadedInv, Effect
  PROVE  SettingInv'
<1>n. None \notin Objects /\ NameOf \in [Objects -> Names]
  BY RegistryAssumption
<1>1. CASE Idle
  BY <1>1 DEF Idle, registered, SettingInv, Setting, Loaded
<1>2. CASE Discover
  <2>1. \A n \in Pending : pending'[n] = pending[n]
    BY <1>2 DEF Discover, Pending
  <2>2. /\ ~stopping
        /\ UNCHANGED <<stopping, op, pc, name, obj, plugins, loading, setups>>
    BY <1>2 DEF Discover, callVars
  <2>3. \A c \in Callers : Setting(c)' <=> Setting(c)
    BY <2>2 DEF Setting
  <2>4. \A c \in Callers : Setting(c) => name[c] \in Names /\ obj[c] # None
    BY <1>n DEF SettingInv, RegistryTypeOK
  <2> HIDE DEF Setting
  <2> QED
    BY <2>1, <2>2, <2>3, <2>4 DEF SettingInv, Loaded, Pending
<1>3. ASSUME NEW c \in Callers, Quiet(c) PROVE SettingInv'
  BY <1>3, ElsewhereSetting DEF Quiet, registered, SettingInv, Loaded
<1>4. ASSUME NEW c \in Callers, NEW n \in Names, Begins(c, n) PROVE SettingInv'
  <2>1. pending[n] \in created \ Given /\ NameOf[pending[n]] = n /\ pending[n] # None
    BY <1>4 DEF Begins, SetsUp, Pending, PendingInv
  <2>2. /\ Setting(c)' /\ name'[c] = n /\ obj'[c] = pending[n]
        /\ \A d \in Callers \ {c} :
             (Setting(d)' <=> Setting(d)) /\ name'[d] = name[d] /\ obj'[d] = obj[d]
    BY <1>4 DEF Begins, Moved, Setting
  <2>3. /\ loading' = loading \cup {n} /\ setups' = setups \cup {pending[n]}
        /\ pending' = pending /\ plugins' = plugins /\ stopping' = stopping
        /\ n \notin Loaded /\ n \notin loading /\ ~Setting(c)
    BY <1>4 DEF Begins, SetsUp
  <2> HIDE DEF Setting
  <2> QED
    BY <2>1, <2>2, <2>3 DEF SettingInv, Loaded
<1>5. ASSUME NEW c \in Callers, Succeeds(c) \/ GivesUp(c) PROVE SettingInv'
  <2>1. Setting(c) /\ name[c] \in Names
    BY <1>5 DEF Succeeds, GivesUp, SettingInv, RegistryTypeOK
  <2>2. \A d \in Callers : Setting(d)' => Setting(d) /\ d # c /\ name[d] # name[c]
                             /\ name'[d] = name[d] /\ obj'[d] = obj[d]
    BY <1>5, <2>1, ElsewhereSetting DEF Succeeds, GivesUp, SettingInv
  <2>3. \A d \in Callers : Setting(d) /\ d # c => Setting(d)' /\ name'[d] = name[d]
    BY <1>5, ElsewhereSetting DEF Succeeds, GivesUp
  <2>4. /\ loading' = loading \ {name[c]} /\ setups' = setups /\ stopping' = stopping
        /\ \A n \in Names \ {name[c]} : pending'[n] = pending[n] /\ plugins'[n] = plugins[n]
    BY <1>5 DEF Succeeds, GivesUp, RegistryTypeOK, Slots
  <2>5. \A d \in Callers : Setting(d) => name[d] \in Names
    BY DEF SettingInv, RegistryTypeOK
  <2> HIDE DEF Setting
  <2>6. ASSUME NEW d \in Callers, Setting(d)'
        PROVE  /\ name'[d] \in loading'
               /\ obj'[d] \in setups' \ Given /\ NameOf[obj'[d]] = name'[d]
               /\ pending'[name'[d]] = obj'[d] \/ (pending'[name'[d]] = None /\ stopping')
               /\ plugins'[name'[d]] # None => name'[d] \in GivenNames
    BY <2>2, <2>4, <2>5, <2>6 DEF SettingInv, Loaded
  <2>7. ASSUME NEW d \in Callers, NEW e \in Callers, Setting(d)', Setting(e)', name'[d] = name'[e]
        PROVE  d = e
    BY <2>2, <2>7 DEF SettingInv
  <2>8. ASSUME NEW n \in loading' PROVE \E d \in Callers : Setting(d)' /\ name'[d] = n
    BY <2>1, <2>3, <2>4, <2>8 DEF SettingInv
  <2> QED
    BY <2>6, <2>7, <2>8 DEF SettingInv, Loaded
<1>6. ASSUME NEW c \in Callers, NEW o \in Objects, Creates(c, o) PROVE SettingInv'
  <2>1. \A d \in Callers :
          /\ Setting(d)' <=> Setting(d)
          /\ Setting(d) => name'[d] = name[d] /\ obj'[d] = obj[d]
    BY <1>6, ElsewhereSetting DEF Creates, Moved, Setting
  <2> HIDE DEF Setting
  <2> QED
    BY <1>6, <2>1 DEF Creates, SettingInv, Loaded
<1>7. ASSUME NEW c \in Callers, Loads(c) PROVE SettingInv'
  <2>1. name[c] \in GivenNames
    BY <1>7, <1>n DEF Loads, LoadedInv, GivenNames, RegistryTypeOK
  <2>2. ~Setting(c)
    BY <1>7 DEF Loads, Setting
  <2> QED
    BY <1>7, <2>1, <2>2, ElsewhereSetting DEF Loads, SettingInv, Loaded, RegistryTypeOK, Slots
<1>8. ASSUME NEW c \in Callers, Unloads(c) PROVE SettingInv'
  <2>2. ~Setting(c)
    BY <1>8 DEF Unloads, Setting
  <2> QED
    BY <1>8, <2>2, ElsewhereSetting DEF Unloads, SettingInv, Loaded, RegistryTypeOK, Slots
<1>9. ASSUME NEW c \in Callers, Forgets(c) PROVE SettingInv'
  BY <1>9, ElsewhereSetting DEF Forgets, ForgetPending, SettingInv, Loaded, RegistryTypeOK
<1>10. ASSUME NEW c \in Callers, Cancels(c) PROVE SettingInv'
  <2>1. /\ Setting(c) /\ NameOf[obj[c]] = name[c]
        /\ \A d \in Callers : Setting(d) => name[d] \in loading /\ NameOf[obj[d]] = name[d]
        /\ \A d \in Callers \ {c} : Setting(d) => name[d] # name[c]
    BY <1>10 DEF Cancels, SettingInv
  <2>2. \A d \in Callers : Setting(d)' => /\ Setting(d) /\ d # c
                                          /\ name'[d] = name[d] /\ obj'[d] = obj[d]
    BY <1>10, ElsewhereSetting DEF Cancels
  <2>3. \A d \in Callers : Setting(d) /\ d # c => Setting(d)' /\ name'[d] = name[d]
    BY <1>10, ElsewhereSetting DEF Cancels
  <2>4. /\ loading' = loading \ {name[c]} /\ setups' = setups \ {obj[c]}
        /\ stopping' = stopping /\ pending' = pending /\ plugins' = plugins
    BY <1>10 DEF Cancels
  <2> HIDE DEF Setting
  <2>5. ASSUME NEW d \in Callers, Setting(d)'
        PROVE  /\ name'[d] \in loading'
               /\ obj'[d] \in setups' \ Given /\ NameOf[obj'[d]] = name'[d]
               /\ pending'[name'[d]] = obj'[d] \/ (pending'[name'[d]] = None /\ stopping')
               /\ plugins'[name'[d]] # None => name'[d] \in GivenNames
    BY <2>1, <2>2, <2>4, <2>5 DEF SettingInv, Loaded, RegistryTypeOK
  <2>6. ASSUME NEW d \in Callers, NEW e \in Callers, Setting(d)', Setting(e)', name'[d] = name'[e]
        PROVE  d = e
    BY <2>2, <2>6 DEF SettingInv
  <2>7. ASSUME NEW n \in loading' PROVE \E d \in Callers : Setting(d)' /\ name'[d] = n
    BY <2>1, <2>3, <2>4, <2>7 DEF SettingInv
  <2> QED
    BY <2>5, <2>6, <2>7 DEF SettingInv, Loaded
<1> QED
  BY <1>1, <1>2, <1>3, <1>4, <1>5, <1>6, <1>7, <1>8, <1>9, <1>10 DEF Effect

LEMMA ListedStep ==
  ASSUME RegistryTypeOK, ListedInv, Effect
  PROVE  ListedInv'
<1>1. CASE Discover
  BY <1>1 DEF Discover, ListedInv
<1>2. ASSUME NEW c \in Callers, NEW o \in Objects, Creates(c, o) PROVE ListedInv'
  BY <1>2 DEF Creates, ListedInv
<1>3. ASSUME created' = created, listed \subseteq listed' PROVE ListedInv'
  BY <1>3 DEF ListedInv
<1> QED
  BY <1>1, <1>2, <1>3
  DEF Effect, Idle, Quiet, Succeeds, GivesUp, Cancels, Loads, Unloads, Forgets, Begins, registered

LEMMA RegistryTypeStep ==
  ASSUME RegistryTypeOK, CallTypeOK, SettingInv, PendingInv, ListedInv, LoadedInv, Effect
  PROVE  RegistryTypeOK'
<1>n. None \notin Objects /\ NameOf \in [Objects -> Names] /\ Given \subseteq Objects
  BY RegistryAssumption
<1>1. CASE Idle
  BY <1>1 DEF Idle, registered, RegistryTypeOK, Slots
<1>2. CASE Discover
  BY <1>2 DEF Discover, RegistryTypeOK, Slots
<1>3. ASSUME NEW c \in Callers, Quiet(c) PROVE RegistryTypeOK'
  BY <1>3 DEF Quiet, registered, RegistryTypeOK, Slots
<1>4. ASSUME NEW c \in Callers, NEW n \in Names, Begins(c, n) PROVE RegistryTypeOK'
  BY <1>4 DEF Begins, SetsUp, Pending, PendingInv, RegistryTypeOK, Slots
<1>5. ASSUME NEW c \in Callers, Succeeds(c) \/ GivesUp(c) PROVE RegistryTypeOK'
  <2>1. name[c] \in Names /\ obj[c] \in listed /\ obj[c] \in Objects
    BY <1>5 DEF Succeeds, GivesUp, SettingInv, RegistryTypeOK, ListedInv
  <2> QED
    BY <1>5, <2>1 DEF Succeeds, GivesUp, RegistryTypeOK, Slots
<1>6. ASSUME NEW c \in Callers, NEW o \in Objects, Creates(c, o) PROVE RegistryTypeOK'
  BY <1>6 DEF Creates, RegistryTypeOK, Slots
<1>7. ASSUME NEW c \in Callers, Loads(c) PROVE RegistryTypeOK'
  <2>1. obj[c] \in setups /\ obj[c] \in Objects
    BY <1>7 DEF Loads, LoadedInv, RegistryTypeOK
  <2> QED
    BY <1>7, <2>1 DEF Loads, RegistryTypeOK, Slots
<1>8. ASSUME NEW c \in Callers, Unloads(c) PROVE RegistryTypeOK'
  BY <1>8 DEF Unloads, RegistryTypeOK, Slots
<1>9. ASSUME NEW c \in Callers, Forgets(c) PROVE RegistryTypeOK'
  BY <1>9 DEF Forgets, ForgetPending, RegistryTypeOK, Slots
<1>10. ASSUME NEW c \in Callers, Cancels(c) PROVE RegistryTypeOK'
  BY <1>10 DEF Cancels, RegistryTypeOK, Slots
<1> QED
  BY <1>1, <1>2, <1>3, <1>4, <1>5, <1>6, <1>7, <1>8, <1>9, <1>10 DEF Effect

LEMMA PendingStep ==
  ASSUME RegistryTypeOK, CallTypeOK, SettingInv, PendingInv, Effect
  PROVE  PendingInv'
<1>n. None \notin Objects
  BY RegistryAssumption
<1>1. CASE Idle
  BY <1>1 DEF Idle, registered, PendingInv, Pending
<1>2. CASE Discover
  BY <1>2, <1>n DEF Discover, PendingInv, Pending, RegistryTypeOK, Slots
<1>3. ASSUME NEW c \in Callers, Quiet(c) PROVE PendingInv'
  BY <1>3 DEF Quiet, registered, PendingInv, Pending
<1>4. ASSUME NEW c \in Callers, NEW n \in Names, Begins(c, n) PROVE PendingInv'
  BY <1>4 DEF Begins, SetsUp, PendingInv, Pending
<1>5. ASSUME NEW c \in Callers, Succeeds(c) \/ GivesUp(c) PROVE PendingInv'
  BY <1>5 DEF Succeeds, GivesUp, PendingInv, Pending, RegistryTypeOK, Slots
<1>6. ASSUME NEW c \in Callers, NEW o \in Objects, Creates(c, o) PROVE PendingInv'
  BY <1>6 DEF Creates, PendingInv, Pending
<1>7. ASSUME NEW c \in Callers, Loads(c) \/ Unloads(c) PROVE PendingInv'
  BY <1>7 DEF Loads, Unloads, PendingInv, Pending
<1>8. ASSUME NEW c \in Callers, Forgets(c) PROVE PendingInv'
  BY <1>8 DEF Forgets, ForgetPending, PendingInv, Pending
<1>9. ASSUME NEW c \in Callers, Cancels(c) PROVE PendingInv'
  <2>1. \/ pending[name[c]] = obj[c]
        \/ pending[name[c]] = None
    BY <1>9 DEF Cancels, SettingInv
  <2> QED
    BY <1>9, <2>1 DEF Cancels, PendingInv, Pending
<1> QED
  BY <1>1, <1>2, <1>3, <1>4, <1>5, <1>6, <1>7, <1>8, <1>9 DEF Effect

\* What the coroutines wait for, once c is elsewhere.
LEMMA WaitingFor ==
  ASSUME RegistryTypeOK, LoadedInv, NEW c \in Callers, Elsewhere(c), setups' = setups
  PROVE  /\ \A d \in Callers : obj'[d] # None => NameOf[obj'[d]] = name'[d]
         /\ \A d \in Callers :
              pc'[d] = "setup" => obj'[d] \in setups' /\ (op'[d] = "load" => obj'[d] \in Given)
<1>1. obj'[c] # None => NameOf[obj'[c]] = name'[c]
  BY ElsewhereSetting DEF LoadedInv, Loaded
<1> QED
  BY <1>1, ElsewhereSetting DEF LoadedInv

LEMMA LoadedStep ==
  ASSUME RegistryTypeOK, CallTypeOK, SettingInv, PendingInv, LoadedInv, Effect
  PROVE  LoadedInv'
<1>n. None \notin Objects /\ NameOf \in [Objects -> Names] /\ Given \subseteq Objects
  BY RegistryAssumption
<1>1. CASE Idle
  BY <1>1 DEF Idle, registered, LoadedInv, Loaded, OneState, Pending
<1>2. CASE Discover
  <2>1. /\ UNCHANGED <<plugins, setups, ready, op, pc, name, obj>>
        /\ \A n \in Names : pending'[n] # pending[n] => n \notin Loaded
    BY <1>2 DEF Discover, callVars, RegistryTypeOK, Slots
  <2> QED
    BY <2>1 DEF LoadedInv, Loaded, OneState, Pending
<1>3. ASSUME NEW c \in Callers, Quiet(c) PROVE LoadedInv'
  BY <1>3, WaitingFor DEF Quiet, registered, LoadedInv, Loaded, OneState, Pending
<1>4. ASSUME NEW c \in Callers, NEW n \in Names, Begins(c, n) PROVE LoadedInv'
  <2>1. NameOf[pending[n]] = n
    BY <1>4 DEF Begins, SetsUp, PendingInv
  <2> QED
    BY <1>4, <2>1 DEF Begins, Moved, LoadedInv, Loaded, OneState, Pending
<1>5. ASSUME NEW c \in Callers, Succeeds(c) PROVE LoadedInv'
  <2>1. NameOf[obj[c]] = name[c] /\ name[c] \in Names
    BY <1>5 DEF Succeeds, SettingInv, RegistryTypeOK
  <2>2. /\ plugins' = [plugins EXCEPT ![name[c]] = obj[c]]
        /\ pending' = [pending EXCEPT ![name[c]] = None]
        /\ ready' = ready \cup {obj[c]}
        /\ setups' = setups /\ Elsewhere(c)
    BY <1>5 DEF Succeeds
  <2>3. (\A n \in Loaded : plugins[n] \in ready /\ NameOf[plugins[n]] = n)'
    BY <2>1, <2>2 DEF LoadedInv, Loaded, RegistryTypeOK, Slots
  <2>4. OneState'
    BY <2>1, <2>2 DEF LoadedInv, OneState, Loaded, Pending, RegistryTypeOK, Slots
  <2> QED
    BY <2>2, <2>3, <2>4, WaitingFor DEF LoadedInv
<1>6. ASSUME NEW c \in Callers, GivesUp(c) PROVE LoadedInv'
  <2>1. OneState'
    BY <1>6 DEF GivesUp, LoadedInv, OneState, Loaded, Pending, RegistryTypeOK, Slots
  <2> QED
    BY <1>6, <2>1, WaitingFor DEF GivesUp, LoadedInv, Loaded
<1>7. ASSUME NEW c \in Callers, NEW o \in Objects, Creates(c, o) PROVE LoadedInv'
  BY <1>7, <1>n DEF Creates, Moved, LoadedInv, Loaded, OneState, Pending
<1>8. ASSUME NEW c \in Callers, Loads(c) PROVE LoadedInv'
  <2>1. obj[c] \in Given /\ NameOf[obj[c]] = name[c]
    BY <1>8, <1>n DEF Loads, LoadedInv
  <2>2. name[c] \in GivenNames /\ name[c] \in Names
    BY <2>1, <1>n DEF GivenNames
  <2>3. (\A n \in Loaded : plugins[n] \in ready /\ NameOf[plugins[n]] = n)'
    BY <1>8, <2>1, <2>2 DEF Loads, LoadedInv, Loaded, RegistryTypeOK, Slots
  <2>4. OneState'
    BY <1>8, <2>2 DEF Loads, LoadedInv, OneState, Loaded, Pending, RegistryTypeOK, Slots
  <2> QED
    BY <1>8, <2>3, <2>4, WaitingFor DEF Loads, LoadedInv
<1>9. ASSUME NEW c \in Callers, Unloads(c) PROVE LoadedInv'
  <2>1. (\A n \in Loaded : plugins[n] \in ready /\ NameOf[plugins[n]] = n)'
    <3>1. \A n \in Loaded' : n \in Loaded /\ plugins'[n] = plugins[n] /\ n # name[c]
      BY <1>9 DEF Unloads, Loaded, RegistryTypeOK, Slots
    <3> QED
      BY <1>9, <3>1 DEF Unloads, LoadedInv, Loaded
  <2>2. OneState'
    BY <1>9 DEF Unloads, LoadedInv, OneState, Loaded, Pending, RegistryTypeOK, Slots
  <2> QED
    BY <1>9, <2>1, <2>2, WaitingFor DEF Unloads, LoadedInv
<1>10. ASSUME NEW c \in Callers, Forgets(c) PROVE LoadedInv'
  BY <1>10, WaitingFor DEF Forgets, ForgetPending, LoadedInv, Loaded, OneState, Pending
<1>11. ASSUME NEW c \in Callers, Cancels(c) PROVE LoadedInv'
  <2>1. \A d \in Callers : obj'[d] # None => NameOf[obj'[d]] = name'[d]
    BY <1>11, ElsewhereSetting DEF Cancels, LoadedInv, Loaded
  <2>2. ASSUME NEW d \in Callers, pc'[d] = "setup"
        PROVE  obj'[d] \in setups' /\ (op'[d] = "load" => obj'[d] \in Given)
    <3>1. d # c /\ pc[d] = "setup" /\ obj'[d] = obj[d] /\ op'[d] = op[d]
      BY <1>11, <2>2, ElsewhereSetting DEF Cancels
    <3>2. obj[d] \in setups /\ (op[d] = "load" => obj[d] \in Given)
      BY <3>1 DEF LoadedInv
    <3>3. obj[d] # obj[c]
      BY <1>11, <3>1, <3>2 DEF Cancels, SettingInv, Setting
    <3> QED
      BY <1>11, <3>1, <3>2, <3>3 DEF Cancels
  <2> QED
    BY <1>11, <2>1, <2>2 DEF Cancels, LoadedInv, Loaded, OneState, Pending
<1> QED
  BY <1>1, <1>2, <1>3, <1>4, <1>5, <1>6, <1>7, <1>8, <1>9, <1>10, <1>11 DEF Effect

LEMMA InfoStep ==
  ASSUME RegistryTypeOK, CallTypeOK, SettingInv, PendingInv, LoadedInv, InfoInv, Effect
  PROVE  InfoInv'
<1>n. None \notin Objects /\ NameOf \in [Objects -> Names] /\ Given \subseteq Objects
  BY RegistryAssumption
<1> DEFINE InfoAt(n) ==
      /\ plugins[n] # None /\ plugins[n] \notin Unlistable => info[n] = plugins[n]
      /\ info[n] # None => plugins[n] # None \/ pending[n] # None
      /\ pending[n] # None /\ pending[n] \notin Unlistable => info[n] = pending[n]
<1>a. InfoInv <=> \A n \in Names \ GivenNames : InfoAt(n)
  BY DEF InfoInv, LoadedHasInfo, InfoIsKnown, Loaded, Pending
<1>b. (\A n \in Names \ GivenNames : InfoAt(n)') => InfoInv'
  BY DEF InfoInv, LoadedHasInfo, InfoIsKnown, Loaded, Pending
<1> SUFFICES ASSUME NEW n \in Names \ GivenNames, InfoAt(n) PROVE InfoAt(n)'
  BY <1>a, <1>b
<1>o. plugins[n] = None \/ pending[n] = None
  BY DEF LoadedInv, OneState, Loaded, Pending
<1>1. CASE UNCHANGED <<plugins, pending, info>>
  BY <1>1
<1>2. CASE Discover
  BY <1>2, <1>n DEF Discover, Loaded, Pending, RegistryTypeOK, Slots
<1>3. ASSUME NEW c \in Callers, Succeeds(c) PROVE InfoAt(n)'
  <2>1. pending[name[c]] = obj[c] /\ name[c] \in Names
    BY <1>3 DEF Succeeds, SettingInv, Pending, RegistryTypeOK
  <2> QED
    BY <1>3, <2>1 DEF Succeeds, Pending, RegistryTypeOK, Slots
<1>4. ASSUME NEW c \in Callers, GivesUp(c) PROVE InfoAt(n)'
  <2>1. name[c] = n => plugins[n] = None
    BY <1>4 DEF GivesUp, SettingInv, Loaded
  <2> QED
    BY <1>4, <2>1 DEF GivesUp, RegistryTypeOK, Slots
<1>5. ASSUME NEW c \in Callers, Loads(c) PROVE InfoAt(n)'
  <2>1. name[c] \in GivenNames
    BY <1>5, <1>n DEF Loads, LoadedInv, GivenNames
  <2> QED
    BY <1>5, <2>1 DEF Loads, RegistryTypeOK, Slots
<1>6. ASSUME NEW c \in Callers, Unloads(c) PROVE InfoAt(n)'
  BY <1>6, <1>o DEF Unloads, Loaded, RegistryTypeOK, Slots
<1>7. ASSUME NEW c \in Callers, Forgets(c) PROVE InfoAt(n)'
  BY <1>7, <1>o DEF Forgets, ForgetPending, Pending
<1> QED
  BY <1>1, <1>2, <1>3, <1>4, <1>5, <1>6, <1>7
  DEF Effect, Idle, Quiet, Begins, Creates, Cancels, registered

-----------------------------------------------------------------------------
(* The calls.                                                              *)

ToolTypeOK ==
  /\ batch \in [Callers -> Batches \cup {<<>>}]
  /\ at \in [Callers -> Nat] /\ \A c \in Callers : at[c] <= Len(batch[c])
  /\ results \in [Callers -> Seq(BOOLEAN)]

\* A coroutine arrives where it may be, with as many results as it should have.
Lands(c) ==
  \E call, step, n, o :
    /\ Moved(c, call, step, n, o)
    /\ \A d \in Callers \ {c} :
         at'[d] = at[d] /\ batch'[d] = batch[d] /\ results'[d] = results[d]
    /\ stopping => stopping'
    /\ step = "next" => baton' = c
    /\ step = "idle" => call = "none"
    /\ step = "teardown" => call \in {"unload", "shutdown"}
    /\ call = "shutdown" => stopping'
    /\ call \in {"execute", "tools"} => step \in {"next", "setup", "run"}
    /\ call \in {"execute", "tools"} /\ step = "next" /\ n # None => n \in Loaded'
    /\ call # "tools" => at'[c] = 0 /\ batch'[c] = <<>> /\ results'[c] = <<>>
    /\ call = "tools" /\ step = "next" /\ n = None => Len(results'[c]) = at'[c]
    /\ call = "tools" /\ ~(step = "next" /\ n = None) =>
         at'[c] > 0 /\ Len(results'[c]) = at'[c] - 1 /\ n = batch'[c][at'[c]]

LEMMA LandsWell ==
  ASSUME CallInv, ToolInv, NEW c \in Callers, baton \in {None, c}, Lands(c)
  PROVE  CallInv' /\ ToolInv'
<1>n. None \notin Callers
  BY RegistryAssumption
<1>1. ASSUME NEW d \in Callers, d # c, pc[d] = "next" PROVE FALSE
  BY <1>1, <1>n DEF CallInv
<1>2. CallInv'
  BY <1>1 DEF Lands, Moved, CallInv
<1>3. ToolInv'
  BY DEF Lands, Moved, ToolInv
<1> QED
  BY <1>2, <1>3

\* The tool calls of the other coroutines.
OthersAt(c) ==
  \A d \in Callers \ {c} : at'[d] = at[d] /\ batch'[d] = batch[d]

\* A coroutine in a call of execute(), for name n.
InCall(c, call, n) ==
  IF call = "tools"
  THEN at'[c] \in Nat \ {0} /\ Len(results[c]) = at'[c] - 1 /\ n = batch'[c][at'[c]]
  ELSE at'[c] = 0 /\ batch'[c] = <<>> /\ results[c] = <<>>

LEMMA FailsLands ==
  ASSUME CallTypeOK, ToolTypeOK, NEW c \in Callers, NEW call, NEW n,
         OthersAt(c), stopping' = stopping, InCall(c, call, n), Fails(c, call)
  PROVE  Lands(c)
<1>1. CASE call = "execute" /\ Return(c) /\ UNCHANGED results
  <2>1. Moved(c, "none", "idle", None, None)
    BY <1>1, ReturnMoves
  <2> QED
    BY <1>1, <2>1 DEF Lands, OthersAt, InCall
<1>2. CASE call = "tools" /\ Continue(c, call, None)
           /\ results' = [results EXCEPT ![c] = Append(@, FALSE)]
  <2>1. Moved(c, "tools", "next", None, None) /\ baton' = c
    BY <1>2, ContinueMoves
  <2>2. results'[c] = Append(results[c], FALSE) /\ results[c] \in Seq(BOOLEAN)
    BY <1>2 DEF ToolTypeOK
  <2>3. Len(results'[c]) = at'[c]
    BY <1>2, <2>2 DEF InCall
  <2>4. \A d \in Callers \ {c} : results'[d] = results[d]
    BY <1>2 DEF ToolTypeOK
  <2> QED
    BY <2>1, <2>3, <2>4 DEF Lands, OthersAt
<1> QED
  BY <1>1, <1>2 DEF Fails

LEMMA RunLands ==
  ASSUME CallTypeOK, ToolTypeOK, NEW c \in Callers, NEW call \in {"execute", "tools"}, NEW n,
         OthersAt(c), stopping' = stopping, InCall(c, call, n), RunAction(c, call, n)
  PROVE  Lands(c)
<1>1. CASE Wait(c, call, "run", n, plugins[n]) /\ UNCHANGED results
  <2>1. Moved(c, call, "run", n, plugins[n])
    BY <1>1, WaitMoves
  <2> QED
    BY <1>1, <2>1 DEF Lands, OthersAt, InCall
<1> QED
  BY <1>1, FailsLands DEF RunAction

LEMMA ExecutesLands ==
  ASSUME CallTypeOK, ToolTypeOK, NEW c \in Callers, NEW call \in {"execute", "tools"}, NEW n,
         OthersAt(c), stopping' = stopping, InCall(c, call, n), Executes(c, call, n)
  PROVE  Lands(c)
<1>1. CASE BeginSetup(c, call, n) /\ UNCHANGED results
  <2>1. Moved(c, call, "setup", n, pending[n])
    BY <1>1, WaitMoves DEF BeginSetup
  <2> QED
    BY <1>1, <2>1 DEF Lands, OthersAt, InCall
<1> QED
  BY <1>1, FailsLands, RunLands DEF Executes

\* A step that has nothing to do with tool calls.
LEMMA OtherLands ==
  ASSUME CallTypeOK, NEW c \in Callers, UNCHANGED toolVars, stopping => stopping',
         at[c] = 0, batch[c] = <<>>, results[c] = <<>>,
         \/ Return(c)
         \/ \E call \in {"setup_all", "health_all"} : \E n : Continue(c, call, n)
         \/ \E n : Continue(c, "shutdown", n) /\ stopping'
         \/ \E call \in {"ensure", "setup_all", "execute", "load"} : \E n, o : Wait(c, call, "setup", n, o)
         \/ \E n, o : Wait(c, "health_all", "health", n, o)
         \/ \E n, o : Wait(c, "unload", "teardown", n, o)
         \/ \E n, o : Wait(c, "shutdown", "teardown", n, o) /\ stopping'
  PROVE  Lands(c)
<1>u. UNCHANGED <<at, batch, results>>
  BY DEF toolVars
<1>1. CASE Return(c)
  <2>1. Moved(c, "none", "idle", None, None)
    BY <1>1, ReturnMoves
  <2> QED
    BY <2>1, <1>u DEF Lands
<1>2. ASSUME NEW call \in {"setup_all", "health_all", "shutdown"}, NEW n, Continue(c, call, n),
             call = "shutdown" => stopping'
      PROVE  Lands(c)
  <2>1. Moved(c, call, "next", n, None) /\ baton' = c
    BY <1>2, ContinueMoves
  <2> QED
    BY <2>1, <1>2, <1>u DEF Lands
<1>3. ASSUME NEW call \in {"ensure", "setup_all", "execute", "load"}, NEW n, NEW o,
             Wait(c, call, "setup", n, o)
      PROVE  Lands(c)
  <2>1. Moved(c, call, "setup", n, o)
    BY <1>3, WaitMoves
  <2> QED
    BY <2>1, <1>3, <1>u DEF Lands
<1>4. ASSUME NEW n, NEW o, Wait(c, "health_all", "health", n, o) PROVE Lands(c)
  <2>1. Moved(c, "health_all", "health", n, o)
    BY <1>4, WaitMoves
  <2> QED
    BY <2>1, <1>u DEF Lands
<1>5. ASSUME NEW call \in {"unload", "shutdown"}, NEW n, NEW o, Wait(c, call, "teardown", n, o),
             call = "shutdown" => stopping'
      PROVE  Lands(c)
  <2>1. Moved(c, call, "teardown", n, o)
    BY <1>5, WaitMoves
  <2> QED
    BY <2>1, <1>5, <1>u DEF Lands
<1> QED
  BY <1>1, <1>2, <1>3, <1>4, <1>5

LEMMA ToolTypes == TypeOK => ToolTypeOK
BY DEF TypeOK, ToolTypeOK

LEMMA CallLands ==
  ASSUME TypeOK, CallInv, ToolInv, NEW c \in Callers,
         \/ SetupAll(c) \/ HealthAll(c) \/ Shutdown(c)
         \/ \E n \in Names : Ensure(c, n) \/ Execute(c, n) \/ Unload(c, n)
         \/ \E o \in Objects : Load(c, o)
         \/ \E b \in Batches : Tools(c, b)
  PROVE  baton \in {None, c} /\ Lands(c)
<1>t. CallTypeOK /\ ToolTypeOK
  BY CallTypes, ToolTypes
<1>i. pc[c] = "idle" /\ baton = None
  BY DEF SetupAll, HealthAll, Shutdown, Ensure, Execute, Unload, Load, Tools, Calls
<1>z. op[c] = "none" /\ at[c] = 0 /\ batch[c] = <<>> /\ results[c] = <<>>
  BY <1>i DEF CallInv, ToolInv
<1>1. CASE SetupAll(c) \/ HealthAll(c) \/ Shutdown(c)
  BY <1>1, <1>t, <1>i, <1>z, OtherLands DEF SetupAll, HealthAll, Shutdown
<1>2. ASSUME NEW n \in Names, Ensure(c, n) PROVE Lands(c)
  BY <1>2, <1>t, <1>z, OtherLands DEF Ensure, BeginSetup
<1>3. ASSUME NEW n \in Names, Execute(c, n) PROVE Lands(c)
  <2>1. OthersAt(c) /\ InCall(c, "execute", n)
    BY <1>3, <1>z DEF Execute, OthersAt, InCall
  <2> QED
    BY <1>3, <2>1, <1>t, ExecutesLands DEF Execute
<1>4. ASSUME NEW n \in Names, Unload(c, n) PROVE Lands(c)
  BY <1>4, <1>t, <1>z, OtherLands DEF Unload
<1>5. ASSUME NEW o \in Objects, Load(c, o) PROVE Lands(c)
  BY <1>5, <1>t, <1>z, OtherLands DEF Load
<1>6. ASSUME NEW b \in Batches, Tools(c, b) PROVE Lands(c)
  <2>1. Moved(c, "tools", "next", None, None) /\ baton' = c
    BY <1>6, <1>t, ContinueMoves DEF Tools
  <2>2. \A d \in Callers \ {c} :
          at'[d] = at[d] /\ batch'[d] = batch[d] /\ results'[d] = results[d]
    BY <1>6, <1>t DEF Tools, ToolTypeOK
  <2>3. at'[c] = 0 /\ Len(results'[c]) = 0 /\ stopping' = stopping
    BY <1>6, <1>z DEF Tools
  <2> QED
    BY <2>1, <2>2, <2>3 DEF Lands
<1> QED
  BY <1>1, <1>2, <1>3, <1>4, <1>5, <1>6, <1>i

LEMMA GoesLands ==
  ASSUME TypeOK, CallInv, ToolInv, SettingInv, NEW c \in Callers, Goes(c)
  PROVE  baton \in {None, c} /\ Lands(c)
<1>t. CallTypeOK /\ ToolTypeOK
  BY CallTypes, ToolTypes
<1>b. baton \in {None, c}
  BY DEF Goes, SetupNext, SetupEnds, ExecuteReady, ActionEnds, ToolsNext, ToolsEnd, LoadEnds,
         HealthNext, HealthEnds, TeardownEnds, ShutdownNext, Cancel, Resumes
<1>z. op[c] # "tools" => at[c] = 0 /\ batch[c] = <<>> /\ results[c] = <<>>
  BY DEF ToolInv
<1>i. op[c] \in {"execute", "tools"} /\ (pc[c] # "next" \/ name[c] # None)
        /\ UNCHANGED <<at, batch>> => InCall(c, op[c], name[c])
  BY <1>t DEF InCall, ToolInv, ToolTypeOK
<1>1. CASE SetupNext(c)
  <2>1. op[c] # "tools"
    BY <1>1 DEF SetupNext, Resumes
  <2>2. UNCHANGED toolVars /\ stopping' = stopping
    BY <1>1 DEF SetupNext
  <2>3. \/ Return(c) \/ Continue(c, "setup_all", None)
        \/ \E n, o : Wait(c, "setup_all", "setup", n, o)
    BY <1>1 DEF SetupNext, BeginSetup
  <2> QED
    BY <2>1, <2>2, <2>3, <1>b, <1>t, <1>z, OtherLands
<1>2. CASE SetupEnds(c)
  <2>0. UNCHANGED <<at, batch, stopping>> /\ pc[c] = "setup"
    BY <1>2 DEF SetupEnds
  <2>1. CASE op[c] \in {"ensure", "setup_all"} /\ UNCHANGED results
               /\ (Return(c) \/ Continue(c, "setup_all", None))
    BY <1>b, <2>0, <2>1, <1>t, <1>z, OtherLands DEF toolVars
  <2>2. CASE op[c] \in {"execute", "tools"} /\ Continue(c, op[c], name[c]) /\ UNCHANGED results
             /\ Ensured(c, TRUE) /\ plugins' = [plugins EXCEPT ![name[c]] = obj[c]]
    <3>1. Moved(c, op[c], "next", name[c], None) /\ baton' = c
      BY <2>2, <1>t, ContinueMoves
    <3>2. Setting(c)
      BY <2>0, <2>2 DEF Setting
    <3>3. name[c] \in Loaded' /\ name[c] # None
      BY <2>2, <3>2, RegistryAssumption DEF SettingInv, Loaded, TypeOK, Slots
    <3>4. InCall(c, op[c], name[c])
      BY <2>0, <2>2, <1>i
    <3> QED
      BY <1>b, <2>0, <2>2, <3>1, <3>3, <3>4 DEF Lands, InCall
  <2>3. CASE Fails(c, op[c])
    <3>1. op[c] \in {"execute", "tools"}
      BY <2>3 DEF Fails
    <3> QED
      BY <1>b, <2>0, <2>3, <3>1, <1>i, <1>t, FailsLands DEF OthersAt
  <2> QED
    BY <1>2, <1>b, <2>1, <2>2, <2>3 DEF SetupEnds, Ensured
<1>3. CASE ExecuteReady(c) \/ ActionEnds(c)
  <2>1. op[c] \in {"execute", "tools"} /\ InCall(c, op[c], name[c]) /\ OthersAt(c)
          /\ stopping' = stopping
    BY <1>3, <1>i DEF ExecuteReady, ActionEnds, Resumes, OthersAt
  <2>2. CASE RunAction(c, op[c], name[c]) \/ Fails(c, op[c])
    BY <2>1, <2>2, <1>b, <1>t, RunLands, FailsLands
  <2>3. CASE /\ op[c] = "tools"
             /\ results' = [results EXCEPT ![c] = Append(@, TRUE)]
             /\ Continue(c, "tools", None)
    <3>1. Moved(c, "tools", "next", None, None) /\ baton' = c
      BY <2>3, <1>t, ContinueMoves
    <3>2. results'[c] = Append(results[c], TRUE) /\ results[c] \in Seq(BOOLEAN)
      BY <2>3, <1>t DEF ToolTypeOK
    <3>3. Len(results'[c]) = at'[c]
      BY <2>1, <2>3, <3>2 DEF InCall
    <3>4. \A d \in Callers \ {c} : results'[d] = results[d]
      BY <2>3, <1>t DEF ToolTypeOK
    <3> QED
      BY <1>b, <2>1, <3>1, <3>3, <3>4 DEF Lands, OthersAt
  <2> QED
    BY <1>3, <2>2, <2>3 DEF ExecuteReady, ActionEnds
<1>5. CASE ToolsNext(c)
  <2> DEFINE n == batch[c][at[c] + 1]
  <2>1. at'[c] = at[c] + 1 /\ Len(results[c]) = at[c] /\ at[c] \in Nat
    BY <1>5, <1>t DEF ToolsNext, Resumes, ToolInv, ToolTypeOK
  <2>2. OthersAt(c) /\ InCall(c, "tools", n) /\ stopping' = stopping
    BY <1>5, <2>1, <1>t DEF ToolsNext, OthersAt, InCall, ToolTypeOK
  <2>3. Fails(c, "tools") \/ Executes(c, "tools", n)
    BY <1>5 DEF ToolsNext
  <2> HIDE DEF n
  <2> QED
    BY <2>2, <2>3, <1>b, <1>t, FailsLands, ExecutesLands
<1>6. CASE ToolsEnd(c) \/ Cancel(c)
  <2>1. Moved(c, "none", "idle", None, None)
    BY <1>6, <1>t, ReturnMoves DEF ToolsEnd, Cancel
  <2>2. \A d \in Callers \ {c} :
          at'[d] = at[d] /\ batch'[d] = batch[d] /\ results'[d] = results[d]
    BY <1>6, <1>t DEF ToolsEnd, Cancel, ToolTypeOK
  <2>3. at'[c] = 0 /\ batch'[c] = <<>> /\ results'[c] = <<>> /\ stopping' = stopping
    BY <1>6, <1>t DEF ToolsEnd, Cancel, ToolTypeOK
  <2> QED
    BY <1>b, <2>1, <2>2, <2>3 DEF Lands
<1>7. CASE LoadEnds(c) \/ HealthNext(c) \/ HealthEnds(c)
  <2>1. op[c] # "tools"
    BY <1>7 DEF LoadEnds, HealthNext, HealthEnds, Resumes
  <2> QED
    BY <1>7, <2>1, <1>b, <1>t, <1>z, OtherLands DEF LoadEnds, HealthNext, HealthEnds
<1>8. CASE TeardownEnds(c) \/ ShutdownNext(c)
  <2>1. op[c] \in {"unload", "shutdown"} /\ (op[c] = "shutdown" => stopping)
    BY <1>8 DEF TeardownEnds, Unloaded, ShutdownNext, Resumes, CallInv
  <2>2. stopping' = stopping /\ UNCHANGED toolVars
    BY <1>8 DEF TeardownEnds, ShutdownNext
  <2>3. \/ Return(c)
        \/ Continue(c, "shutdown", None) /\ stopping'
        \/ \E n, o : Wait(c, "shutdown", "teardown", n, o) /\ stopping'
    <3>1. op[c] = "shutdown" => stopping'
      BY <2>1, <2>2
    <3> QED
      BY <1>8, <3>1 DEF TeardownEnds, Unloaded, ShutdownNext, Resumes
  <2> QED
    BY <2>1, <2>2, <2>3, <1>b, <1>t, <1>z, OtherLands
<1> QED
  BY <1>1, <1>2, <1>3, <1>5, <1>6, <1>7, <1>8 DEF Goes

LEMMA CallStep ==
  ASSUME TypeOK, CallInv, ToolInv, SettingInv, [Next]_vars
  PROVE  CallInv' /\ ToolInv'
<1>1. CASE UNCHANGED callVars /\ UNCHANGED plugins
  BY <1>1 DEF callVars, toolVars, CallInv, ToolInv, Loaded
<1>2. ASSUME NEW c \in Callers, baton \in {None, c} /\ Lands(c) PROVE CallInv' /\ ToolInv'
  BY <1>2, LandsWell
<1> QED
  BY <1>1, <1>2, CallLands, GoesLands DEF Next, vars, registryVars, SetBroker, Discover

-----------------------------------------------------------------------------
(* Types.                                                                  *)

RestTypeOK ==
  /\ broker \in BOOLEAN
  /\ stopping \in BOOLEAN
  /\ todo \in [Callers -> SUBSET Names]
  /\ size \in [Callers -> Nat]

LEMMA TypeParts ==
  TypeOK <=> RegistryTypeOK /\ CallTypeOK /\ ToolTypeOK /\ RestTypeOK
             /\ baton \in Callers \cup {None}
BY DEF TypeOK, RegistryTypeOK, CallTypeOK, ToolTypeOK, RestTypeOK

LEMMA TypePartsNext ==
  RegistryTypeOK' /\ CallTypeOK' /\ ToolTypeOK' /\ RestTypeOK' /\ baton' \in Callers \cup {None}
    => TypeOK'
BY DEF TypeOK, RegistryTypeOK, CallTypeOK, ToolTypeOK, RestTypeOK, Slots

\* A coroutine's call is of the interface, at a place there is.
CallAt(c) ==
  \/ Return(c)
  \/ \E call \in Api, n \in Names \cup {None} : Continue(c, call, n)
  \/ \E call \in Api, step \in {"setup", "run", "health", "teardown"},
        n \in Names, o \in Objects \cup {None} : Wait(c, call, step, n, o)

LEMMA CallAtTypes ==
  ASSUME CallTypeOK, NEW c \in Callers, CallAt(c)
  PROVE  CallTypeOK' /\ baton' \in Callers \cup {None}
<1>1. CASE Return(c)
  BY <1>1 DEF Return, CallTypeOK
<1>2. ASSUME NEW call \in Api, NEW n \in Names \cup {None}, Continue(c, call, n)
      PROVE  CallTypeOK' /\ baton' \in Callers \cup {None}
  BY <1>2 DEF Continue, CallTypeOK
<1>3. ASSUME NEW call \in Api, NEW step \in {"setup", "run", "health", "teardown"},
             NEW n \in Names, NEW o \in Objects \cup {None}, Wait(c, call, step, n, o)
      PROVE  CallTypeOK' /\ baton' \in Callers \cup {None}
  BY <1>3 DEF Wait, CallTypeOK
<1> QED
  BY <1>1, <1>2, <1>3 DEF CallAt

LEMMA FailsAt ==
  ASSUME ToolTypeOK, NEW c \in Callers, NEW call \in Api, Fails(c, call)
  PROVE  CallAt(c) /\ results' \in [Callers -> Seq(BOOLEAN)]
<1>1. CASE Return(c) /\ UNCHANGED results
  BY <1>1 DEF ToolTypeOK, CallAt
<1>2. CASE Continue(c, call, None) /\ results' = [results EXCEPT ![c] = Append(@, FALSE)]
  BY <1>2 DEF ToolTypeOK, CallAt
<1> QED
  BY <1>1, <1>2 DEF Fails

LEMMA ExecutesAt ==
  ASSUME RegistryTypeOK, ToolTypeOK, NEW c \in Callers, NEW call \in Api, NEW n \in Names,
         Executes(c, call, n) \/ RunAction(c, call, n)
  PROVE  CallAt(c) /\ results' \in [Callers -> Seq(BOOLEAN)]
<1>1. plugins[n] \in Objects \cup {None} /\ pending[n] \in Objects \cup {None}
  BY DEF RegistryTypeOK, Slots
<1>2. CASE (\E step \in {"setup", "run"}, o \in Objects \cup {None} : Wait(c, call, step, n, o))
           /\ UNCHANGED results
  BY <1>2 DEF ToolTypeOK, CallAt
<1> QED
  BY <1>1, <1>2, FailsAt DEF Executes, RunAction, BeginSetup

LEMMA RestTypes ==
  ASSUME TypeOK, [Next]_vars
  PROVE  RestTypeOK'
<1>1. Cardinality(Loaded) \in Nat
  BY FS_Subset, FS_CardinalityType, RegistryAssumption DEF Loaded
<1>2. CASE UNCHANGED <<broker, stopping, todo, size>>
  BY <1>2 DEF TypeOK, RestTypeOK
<1>3. CASE SetBroker
  BY <1>3 DEF SetBroker, callVars, TypeOK, RestTypeOK
<1>4. ASSUME NEW c \in Callers, SetupAll(c) \/ HealthAll(c) \/ Shutdown(c) PROVE RestTypeOK'
  BY <1>1, <1>4
  DEF SetupAll, HealthAll, Shutdown, registryVars, Loaded, Pending, TypeOK, RestTypeOK
<1>5. ASSUME NEW c \in Callers, SetupNext(c) \/ HealthNext(c) \/ ShutdownNext(c) PROVE RestTypeOK'
  <2>1. UNCHANGED <<broker, stopping, size>>
    BY <1>5 DEF SetupNext, HealthNext, ShutdownNext, registryVars
  <2>2. \/ todo' = todo
        \/ \E n \in Names : todo' = [todo EXCEPT ![c] = @ \ {n}]
        \/ \E n \in Names : todo' = [todo EXCEPT ![c] = @ \cup {n}]
    BY <1>5 DEF SetupNext, HealthNext, ShutdownNext, Loaded, TypeOK
  <2>3. todo' \in [Callers -> SUBSET Names]
    <3>1. todo \in [Callers -> SUBSET Names]
      BY DEF TypeOK
    <3>2. ASSUME NEW n \in Names, todo' = [todo EXCEPT ![c] = @ \ {n}]
          PROVE  todo' \in [Callers -> SUBSET Names]
      <4>1. todo[c] \ {n} \in SUBSET Names
        BY <3>1
      <4> QED
        BY <3>1, <3>2, <4>1
    <3>3. ASSUME NEW n \in Names, todo' = [todo EXCEPT ![c] = @ \cup {n}]
          PROVE  todo' \in [Callers -> SUBSET Names]
      <4>1. todo[c] \cup {n} \in SUBSET Names
        BY <3>1
      <4> QED
        BY <3>1, <3>3, <4>1
    <3> QED
      BY <2>2, <3>1, <3>2, <3>3
  <2> QED
    BY <2>1, <2>3 DEF TypeOK, RestTypeOK
<1>6. ASSUME UNCHANGED vars \/ Discover PROVE RestTypeOK'
  BY <1>2, <1>6 DEF vars, registryVars, callVars, Discover
<1>7. ASSUME NEW c \in Callers,
             \/ SetupEnds(c) \/ ExecuteReady(c) \/ ActionEnds(c) \/ ToolsNext(c) \/ ToolsEnd(c)
             \/ LoadEnds(c) \/ HealthEnds(c) \/ TeardownEnds(c) \/ Cancel(c)
      PROVE  RestTypeOK'
  BY <1>2, <1>7 DEF registryVars, SetupEnds, ExecuteReady, ActionEnds, ToolsNext, ToolsEnd,
                    LoadEnds, HealthEnds, TeardownEnds, Cancel
<1>8. ASSUME NEW c \in Callers,
             \/ \E n \in Names : Ensure(c, n) \/ Execute(c, n) \/ Unload(c, n)
             \/ \E o \in Objects : Load(c, o)
             \/ \E b \in Batches : Tools(c, b)
      PROVE  RestTypeOK'
  BY <1>2, <1>8 DEF registryVars, Ensure, Execute, Unload, Load, Tools
<1> QED
  BY <1>3, <1>4, <1>5, <1>6, <1>7, <1>8 DEF Next, Goes

LEMMA CallStepTypes ==
  ASSUME TypeOK, SettingInv, CallInv, ToolInv, [Next]_vars
  PROVE  CallTypeOK' /\ ToolTypeOK' /\ baton' \in Callers \cup {None}
<1>t. RegistryTypeOK /\ CallTypeOK /\ ToolTypeOK /\ baton \in Callers \cup {None}
  BY TypeParts
<1>n. NameOf \in [Objects -> Names]
  BY RegistryAssumption
<1>p. \A n \in Names : plugins[n] \in Objects \cup {None} /\ pending[n] \in Objects \cup {None}
  BY <1>t DEF RegistryTypeOK, Slots
<1>a. ASSUME NEW c \in Callers, CallAt(c), UNCHANGED <<batch, at>>,
             results' \in [Callers -> Seq(BOOLEAN)]
      PROVE  CallTypeOK' /\ ToolTypeOK' /\ baton' \in Callers \cup {None}
  BY <1>a, <1>t, CallAtTypes DEF ToolTypeOK
<1>b. ASSUME NEW c \in Callers, CallAt(c), UNCHANGED toolVars
      PROVE  CallTypeOK' /\ ToolTypeOK' /\ baton' \in Callers \cup {None}
  BY <1>b, <1>t, CallAtTypes DEF ToolTypeOK, toolVars
<1>c. ASSUME NEW c \in Callers, op[c] # "none" PROVE op[c] \in Api
  BY <1>c, <1>t DEF CallTypeOK
<1>1. CASE UNCHANGED callVars
  BY <1>1, <1>t DEF callVars, toolVars, CallTypeOK, ToolTypeOK
<1>2. ASSUME NEW c \in Callers, SetupAll(c) \/ HealthAll(c) \/ Shutdown(c)
      PROVE  CallTypeOK' /\ ToolTypeOK' /\ baton' \in Callers \cup {None}
  BY <1>2, <1>b DEF SetupAll, HealthAll, Shutdown, Calls, CallAt
<1>3. ASSUME NEW c \in Callers, NEW n \in Names, Ensure(c, n) \/ Unload(c, n)
      PROVE  CallTypeOK' /\ ToolTypeOK' /\ baton' \in Callers \cup {None}
  BY <1>3, <1>b, <1>p DEF Ensure, Unload, BeginSetup, Calls, CallAt
<1>4. ASSUME NEW c \in Callers, NEW n \in Names, Execute(c, n)
      PROVE  CallTypeOK' /\ ToolTypeOK' /\ baton' \in Callers \cup {None}
  BY <1>4, <1>a, <1>t, ExecutesAt DEF Execute, Calls
<1>5. ASSUME NEW c \in Callers, NEW o \in Objects, Load(c, o)
      PROVE  CallTypeOK' /\ ToolTypeOK' /\ baton' \in Callers \cup {None}
  BY <1>5, <1>b, <1>n DEF Load, Calls, CallAt
<1>6. ASSUME NEW c \in Callers, NEW b \in Batches, Tools(c, b)
      PROVE  CallTypeOK' /\ ToolTypeOK' /\ baton' \in Callers \cup {None}
  <2>1. CallAt(c)
    BY <1>6 DEF Tools, Calls, CallAt
  <2>2. b \in Seq(Names \cup {None}) /\ Len(b) \in Nat
    BY RegistryAssumption
  <2>3. \A d \in Callers : at[d] <= Len(batch'[d])
    <3>1. at[c] = 0
      BY <1>6 DEF Tools, Calls, CallInv, ToolInv
    <3>2. batch'[c] = b /\ \A d \in Callers \ {c} : batch'[d] = batch[d]
      BY <1>6, <1>t DEF Tools, ToolTypeOK
    <3>3. at[c] <= Len(batch'[c])
      BY <3>1, <3>2, <2>2
    <3>4. ASSUME NEW d \in Callers \ {c} PROVE at[d] <= Len(batch'[d])
      <4>1. batch'[d] = batch[d] /\ at[d] <= Len(batch[d])
        BY <3>2, <1>t DEF ToolTypeOK
      <4> QED
        BY <4>1
    <3> QED
      BY <3>3, <3>4
  <2> QED
    BY <1>6, <1>t, <2>1, <2>2, <2>3, CallAtTypes DEF Tools, ToolTypeOK
<1>7. ASSUME NEW c \in Callers, SetupNext(c) \/ HealthNext(c) \/ HealthEnds(c) \/ ShutdownNext(c)
      PROVE  CallTypeOK' /\ ToolTypeOK' /\ baton' \in Callers \cup {None}
  <2>1. op[c] \in {"setup_all", "health_all", "shutdown"} /\ op[c] \in Api
    BY <1>7, <1>c DEF SetupNext, HealthNext, HealthEnds, ShutdownNext, Resumes
  <2>2. CallAt(c)
    BY <1>7, <2>1, <1>p
    DEF SetupNext, HealthNext, HealthEnds, ShutdownNext, Resumes, BeginSetup, Loaded, CallAt, TypeOK
  <2> QED
    BY <1>7, <2>2, <1>b DEF SetupNext, HealthNext, HealthEnds, ShutdownNext
<1>8. ASSUME NEW c \in Callers, SetupEnds(c)
      PROVE  CallTypeOK' /\ ToolTypeOK' /\ baton' \in Callers \cup {None}
  <2>1. name[c] \in Names
    BY <1>8 DEF SetupEnds, SettingInv, Setting, TypeOK
  <2>2. CASE UNCHANGED results /\ (Return(c) \/ \E n \in Names \cup {None} : Continue(c, op[c], n))
    <3>1. op[c] \in Api
      BY <1>8, <1>c DEF SetupEnds, CallInv, Ensured, Fails
    <3> QED
      BY <1>8, <2>2, <3>1, <1>a, <1>t DEF SetupEnds, CallAt, ToolTypeOK
  <2>3. CASE Fails(c, op[c])
    <3>1. op[c] \in Api
      BY <2>3, <1>c DEF Fails
    <3> QED
      BY <1>8, <2>3, <3>1, <1>a, <1>t, FailsAt DEF SetupEnds
  <2> QED
    BY <1>8, <2>1, <2>2, <2>3 DEF SetupEnds, Ensured
<1>9. ASSUME NEW c \in Callers, ExecuteReady(c) \/ ActionEnds(c)
      PROVE  CallTypeOK' /\ ToolTypeOK' /\ baton' \in Callers \cup {None}
  <2>1. op[c] \in Api
    BY <1>9, <1>c DEF ExecuteReady, ActionEnds
  <2>2. CASE RunAction(c, op[c], name[c]) /\ name[c] \in Names
    BY <1>9, <2>1, <2>2, <1>a, <1>t, ExecutesAt DEF ExecuteReady, ActionEnds
  <2>3. CASE Fails(c, op[c])
    BY <1>9, <2>1, <2>3, <1>a, <1>t, FailsAt DEF ExecuteReady, ActionEnds
  <2>4. CASE op[c] = "tools" /\ Continue(c, "tools", None)
             /\ results' = [results EXCEPT ![c] = Append(@, TRUE)]
    <3>1. results' \in [Callers -> Seq(BOOLEAN)]
      BY <2>4, <1>t DEF ToolTypeOK
    <3>2. CallAt(c)
      BY <2>1, <2>4 DEF CallAt
    <3> QED
      BY <1>9, <3>1, <3>2, <1>a DEF ExecuteReady, ActionEnds
  <2>5. ExecuteReady(c) => name[c] \in Names
    BY <1>t DEF ExecuteReady, CallTypeOK
  <2> QED
    BY <1>9, <2>2, <2>3, <2>4, <2>5 DEF ExecuteReady, ActionEnds
<1>10. ASSUME NEW c \in Callers, ToolsNext(c)
       PROVE  CallTypeOK' /\ ToolTypeOK' /\ baton' \in Callers \cup {None}
  <2>1. "tools" \in Api
    BY <1>10, <1>c DEF ToolsNext, Resumes
  <2>2. batch[c][at[c] + 1] \in Names \cup {None}
    BY <1>10, NextCall DEF ToolsNext
  <2>3. CallAt(c) /\ results' \in [Callers -> Seq(BOOLEAN)]
    BY <1>10, <2>1, <2>2, <1>t, ExecutesAt, FailsAt DEF ToolsNext
  <2>4. Len(batch[c]) \in Nat
    BY BatchTypes
  <2>5. at[c] + 1 <= Len(batch[c])
    BY <1>10, <2>4, <1>t DEF ToolsNext, ToolTypeOK
  <2> QED
    BY <1>10, <2>3, <2>5, <1>t, CallAtTypes DEF ToolsNext, ToolTypeOK
<1>11. ASSUME NEW c \in Callers, ToolsEnd(c) \/ Cancel(c)
       PROVE  CallTypeOK' /\ ToolTypeOK' /\ baton' \in Callers \cup {None}
  <2>1. CallAt(c)
    BY <1>11 DEF ToolsEnd, Cancel, CallAt
  <2>2. Len(<<>>) = 0
    OBVIOUS
  <2>3. /\ batch' = [batch EXCEPT ![c] = <<>>]
        /\ at' = [at EXCEPT ![c] = 0]
        /\ results' = [results EXCEPT ![c] = <<>>]
    BY <1>11 DEF ToolsEnd, Cancel
  <2> QED
    BY <2>1, <2>2, <2>3, <1>t, CallAtTypes DEF ToolTypeOK
<1>12. ASSUME NEW c \in Callers, LoadEnds(c) \/ TeardownEnds(c)
       PROVE  CallTypeOK' /\ ToolTypeOK' /\ baton' \in Callers \cup {None}
  <2>1. CallAt(c)
    BY <1>12, <1>c DEF LoadEnds, TeardownEnds, Unloaded, CallAt
  <2> QED
    BY <1>12, <2>1, <1>b DEF LoadEnds, TeardownEnds
<1> QED
  BY <1>1, <1>2, <1>3, <1>4, <1>5, <1>6, <1>7, <1>8, <1>9, <1>10, <1>11, <1>12
  DEF Next, Goes, SetBroker, Discover, vars

-----------------------------------------------------------------------------
(* The inductive invariant.                                                *)

RegistryInv ==
  /\ TypeOK
  /\ SettingInv /\ PendingInv /\ ListedInv /\ LoadedInv /\ InfoInv
  /\ CallInv /\ ToolInv

LEMMA InitInv == Init => RegistryInv
<1> SUFFICES ASSUME Init PROVE RegistryInv
  OBVIOUS
<1>0. Loaded = {} /\ Pending = {}
  BY DEF Init, Loaded, Pending
<1>1. RegistryTypeOK /\ CallTypeOK /\ RestTypeOK /\ baton \in Callers \cup {None}
  BY DEF Init, RegistryTypeOK, CallTypeOK, RestTypeOK, Slots
<1>2. ToolTypeOK
  <2>1. Len(<<>>) = 0 /\ <<>> \in Seq(BOOLEAN)
    OBVIOUS
  <2> QED
    BY <2>1 DEF Init, ToolTypeOK
<1>3. SettingInv /\ PendingInv /\ ListedInv
  BY <1>0 DEF Init, SettingInv, Setting, PendingInv, ListedInv
<1>4. LoadedInv /\ InfoInv
  BY <1>0 DEF Init, LoadedInv, OneState, InfoInv, LoadedHasInfo, InfoIsKnown
<1>5. CallInv /\ ToolInv
  BY DEF Init, CallInv, ToolInv
<1> QED
  BY <1>1, <1>2, <1>3, <1>4, <1>5, TypeParts DEF RegistryInv

LEMMA StepInv == RegistryInv /\ [Next]_vars => RegistryInv'
<1> SUFFICES ASSUME RegistryInv, [Next]_vars PROVE RegistryInv'
  OBVIOUS
<1>1. /\ TypeOK /\ RegistryTypeOK /\ CallTypeOK
      /\ SettingInv /\ PendingInv /\ ListedInv /\ LoadedInv /\ InfoInv /\ CallInv /\ ToolInv
  BY TypeParts DEF RegistryInv
<1>2. Effect
  BY <1>1, NextEffect
<1>3. RegistryTypeOK' /\ SettingInv' /\ PendingInv' /\ ListedInv' /\ LoadedInv' /\ InfoInv'
  BY <1>1, <1>2, RegistryTypeStep, SettingStep, PendingStep, ListedStep, LoadedStep, InfoStep
<1>4. CallInv' /\ ToolInv'
  BY <1>1, CallStep
<1>5. CallTypeOK' /\ ToolTypeOK' /\ RestTypeOK' /\ baton' \in Callers \cup {None}
  BY <1>1, CallStepTypes, RestTypes
<1>6. TypeOK'
  BY <1>3, <1>5, TypePartsNext
<1> QED
  BY <1>3, <1>4, <1>6 DEF RegistryInv

LEMMA Invariance == Spec => []RegistryInv
BY InitInv, StepInv, PTL DEF Spec

-----------------------------------------------------------------------------
(* Steps.                                                                  *)

LEMMA SetupOnceStep ==
  ASSUME RegistryInv, [Next]_vars, NEW c \in Callers, pc[c] # "setup", pc'[c] = "setup",
         obj'[c] \notin Given
  PROVE  obj'[c] \notin setups
<1>1. Effect
  BY NextEffect DEF RegistryInv
<1>2. ASSUME NEW d \in Callers, Elsewhere(d) PROVE FALSE
  BY <1>2, ElsewhereSetting
<1>3. ASSUME NEW d \in Callers, NEW n \in Names, Begins(d, n) PROVE obj'[c] \notin setups
  <2>1. obj'[c] = pending[n] /\ n \in Pending /\ n \notin loading
    BY <1>3 DEF Begins, Moved, SetsUp
  <2> QED
    BY <2>1 DEF RegistryInv, PendingInv
<1>4. ASSUME NEW d \in Callers, NEW o \in Objects, Creates(d, o) PROVE FALSE
  BY <1>4 DEF Creates, Moved
<1>5. ASSUME Idle \/ Discover PROVE FALSE
  BY <1>5 DEF Idle, Discover, callVars
<1> QED
  BY <1>1, <1>2, <1>3, <1>4, <1>5
  DEF Effect, Quiet, Succeeds, GivesUp, Cancels, Loads, Unloads, Forgets

\* A coroutine that waits for a method after a step waited for it before, or
\* came from between two awaits: to a setup(), or to a method of an instance
\* that is loaded.
LEMMA BeginsToWait ==
  ASSUME TypeOK, CallInv, [Next]_vars, NEW c \in Callers, pc'[c] \in Methods
  PROVE  \/ pc'[c] = pc[c] /\ obj'[c] = obj[c]
         \/ /\ pc[c] \notin Methods
            /\ pc'[c] = "setup" \/ \E n \in Loaded : obj'[c] = plugins[n]
<1> DEFINE Same  == pc'[c] = pc[c] /\ obj'[c] = obj[c]
           Fresh == /\ pc[c] \notin Methods
                    /\ pc'[c] = "setup" \/ \E n \in Loaded : obj'[c] = plugins[n]
<1> SUFFICES Same \/ Fresh
  OBVIOUS
<1>t. CallTypeOK
  BY CallTypes
<1>1. ASSUME NEW d \in Callers, Return(d) \/ \E call, n : Continue(d, call, n)
      PROVE  Same
  <2>1. d # c
    BY <1>1, <1>t DEF Return, Continue, CallTypeOK, Methods
  <2> QED
    BY <1>1, <1>t, <2>1 DEF Return, Continue, CallTypeOK
<1>2. ASSUME NEW d \in Callers, pc[d] \in {"idle", "next"}, NEW call, NEW n, BeginSetup(d, call, n)
      PROVE  Same \/ Fresh
  BY <1>2, <1>t, WaitMoves DEF BeginSetup, Moved, Methods
<1>3. ASSUME NEW d \in Callers, pc[d] \in {"idle", "next"}, NEW call, NEW step, NEW n \in Loaded,
             Wait(d, call, step, n, plugins[n])
      PROVE  Same \/ Fresh
  BY <1>3, <1>t, WaitMoves DEF Moved, Methods
<1>4. ASSUME NEW d \in Callers, NEW call, Fails(d, call)
      PROVE  Same
  BY <1>1, <1>4 DEF Fails
<1>5. ASSUME NEW d \in Callers, pc[d] \in {"idle", "next"}, NEW call, NEW n \in Loaded,
             RunAction(d, call, n)
      PROVE  Same \/ Fresh
  BY <1>3, <1>4, <1>5 DEF RunAction
<1>6. ASSUME NEW d \in Callers, pc[d] \in {"idle", "next"}, NEW call, NEW n, Executes(d, call, n)
      PROVE  Same \/ Fresh
  BY <1>2, <1>4, <1>5, <1>6 DEF Executes
<1>7. ASSUME NEW d \in Callers, NEW done, Ensured(d, done)
      PROVE  Same
  BY <1>1, <1>4, <1>7 DEF Ensured
<1> HIDE DEF Same, Fresh
<1>8. ASSUME NEW d \in Callers, SetupNext(d) \/ \E n \in Names : Ensure(d, n)
      PROVE  Same \/ Fresh
  BY <1>1, <1>2, <1>8 DEF SetupNext, Ensure, Calls, Resumes
<1>9. ASSUME NEW d \in Callers, ExecuteReady(d)
      PROVE  Same \/ Fresh
  <2>1. name[d] \in Loaded /\ RunAction(d, op[d], name[d]) /\ pc[d] = "next"
    BY <1>9 DEF ExecuteReady, Resumes, CallInv
  <2> QED
    BY <1>5, <2>1
<1>10. ASSUME NEW d \in Callers, ToolsNext(d) \/ \E n \in Names : Execute(d, n)
       PROVE  Same \/ Fresh
  BY <1>4, <1>6, <1>10 DEF ToolsNext, Execute, Calls, Resumes
<1>11. ASSUME NEW d \in Callers,
              HealthNext(d) \/ ShutdownNext(d) \/ \E n \in Names : Unload(d, n)
       PROVE  Same \/ Fresh
  BY <1>1, <1>3, <1>11 DEF HealthNext, ShutdownNext, Unload, Calls, Resumes
<1>12. ASSUME NEW d \in Callers, NEW o \in Objects, Load(d, o)
       PROVE  Same \/ Fresh
  <2>1. CASE Return(d)
    BY <1>1, <2>1
  <2>2. CASE Wait(d, "load", "setup", NameOf[o], o)
    <3>1. pc[d] = "idle" /\ Moved(d, "load", "setup", NameOf[o], o)
      BY <1>12, <1>t, <2>2, WaitMoves DEF Load, Calls
    <3> QED
      BY <3>1 DEF Moved, Methods, Same, Fresh
  <2> QED
    BY <1>12, <2>1, <2>2 DEF Load
<1>13. ASSUME NEW d \in Callers,
              \/ SetupEnds(d) \/ ActionEnds(d) \/ ToolsEnd(d) \/ LoadEnds(d) \/ HealthEnds(d)
              \/ TeardownEnds(d) \/ Cancel(d)
       PROVE  Same
  BY <1>1, <1>4, <1>7, <1>13
  DEF SetupEnds, ActionEnds, ToolsEnd, LoadEnds, HealthEnds, TeardownEnds, Unloaded, Cancel
<1>14. ASSUME NEW d \in Callers,
              \/ SetupAll(d) \/ HealthAll(d) \/ Shutdown(d) \/ \E b \in Batches : Tools(d, b)
       PROVE  Same
  BY <1>1, <1>14 DEF SetupAll, HealthAll, Shutdown, Tools
<1>15. CASE SetBroker \/ Discover \/ UNCHANGED vars
  BY <1>15 DEF SetBroker, Discover, vars, callVars, Same
<1> QED
  BY <1>8, <1>9, <1>10, <1>11, <1>12, <1>13, <1>14, <1>15 DEF Next, Goes

\* What a step does to the results of a coroutine.
LEMMA ResultsChange ==
  ASSUME TypeOK, [Next]_vars, NEW c \in Callers
  PROVE  \/ results'[c] = results[c] \/ results'[c] = <<>>
         \/ results'[c] = Append(results[c], FALSE)
         \/ /\ pc[c] = "run" /\ op[c] = "tools"
            /\ results'[c] = Append(results[c], TRUE)
<1> DEFINE Change ==
      \/ results'[c] = results[c] \/ results'[c] = <<>>
      \/ results'[c] = Append(results[c], FALSE)
      \/ pc[c] = "run" /\ op[c] = "tools" /\ results'[c] = Append(results[c], TRUE)
<1>t. results \in [Callers -> Seq(BOOLEAN)]
  BY DEF TypeOK
<1>1. ASSUME UNCHANGED results PROVE Change
  BY <1>1
<1>2. ASSUME NEW d \in Callers, NEW call, Fails(d, call) PROVE Change
  BY <1>2, <1>t DEF Fails
<1>3. ASSUME NEW d \in Callers, NEW call, NEW n, RunAction(d, call, n) PROVE Change
  BY <1>1, <1>2, <1>3 DEF RunAction
<1>4. ASSUME NEW d \in Callers, NEW call, NEW n, Executes(d, call, n) PROVE Change
  BY <1>1, <1>2, <1>3, <1>4 DEF Executes
<1>5. ASSUME NEW d \in Callers, NEW done, Ensured(d, done) PROVE Change
  BY <1>1, <1>2, <1>5 DEF Ensured
<1>6. ASSUME NEW d \in Callers, ActionEnds(d) PROVE Change
  <2>1. CASE op[d] = "tools" /\ results' = [results EXCEPT ![d] = Append(@, TRUE)]
    BY <1>6, <2>1, <1>t DEF ActionEnds, Resumes
  <2> QED
    BY <1>2, <1>6, <2>1 DEF ActionEnds
<1>7. ASSUME NEW d \in Callers, ToolsEnd(d) \/ Cancel(d) PROVE Change
  BY <1>7, <1>t DEF ToolsEnd, Cancel
<1>8. ASSUME NEW d \in Callers,
             SetupEnds(d) \/ ExecuteReady(d) \/ ToolsNext(d) \/ \E n \in Names : Execute(d, n)
      PROVE  Change
  BY <1>2, <1>3, <1>4, <1>5, <1>8 DEF SetupEnds, ExecuteReady, ToolsNext, Execute
<1>9. ASSUME NEW d \in Callers,
             \/ SetupNext(d) \/ LoadEnds(d) \/ HealthNext(d) \/ HealthEnds(d) \/ TeardownEnds(d)
             \/ ShutdownNext(d) \/ SetupAll(d) \/ HealthAll(d) \/ Shutdown(d)
             \/ \E n \in Names : Ensure(d, n) \/ Unload(d, n)
             \/ \E o \in Objects : Load(d, o)
             \/ \E b \in Batches : Tools(d, b)
      PROVE  Change
  BY <1>1, <1>9 DEF SetupNext, LoadEnds, HealthNext, HealthEnds, TeardownEnds, ShutdownNext,
         SetupAll, HealthAll, Shutdown, Ensure, Unload, Load, Tools, toolVars
<1>10. ASSUME SetBroker \/ Discover \/ UNCHANGED vars PROVE Change
  BY <1>1, <1>10 DEF SetBroker, Discover, vars, callVars, toolVars
<1> HIDE DEF Change
<1>11. Change
  BY <1>6, <1>7, <1>8, <1>9, <1>10 DEF Next, Goes
<1> QED
  BY <1>11 DEF Change

\* A success is a result of the action that ran.
LEMMA SuccessRan ==
  ASSUME RegistryInv, [Next]_vars, NEW c \in Callers,
         Len(results'[c]) > Len(results[c]), results'[c][Len(results'[c])]
  PROVE  pc[c] = "run" /\ name[c] = batch[c][Len(results'[c])]
<1>1. results[c] \in Seq(BOOLEAN) /\ Len(results[c]) \in Nat
  <2>1. results[c] \in Seq(BOOLEAN)
    BY DEF RegistryInv, TypeOK
  <2> QED
    BY <2>1
<1>2. \/ results'[c] = results[c] \/ results'[c] = <<>>
      \/ results'[c] = Append(results[c], FALSE)
      \/ pc[c] = "run" /\ op[c] = "tools" /\ results'[c] = Append(results[c], TRUE)
  BY ResultsChange DEF RegistryInv
<1>3. results'[c] # results[c]
  <2>1. ASSUME results'[c] = results[c] PROVE FALSE
    <3>1. Len(results'[c]) = Len(results[c])
      BY <2>1
    <3> QED
      BY <3>1, <1>1
  <2> QED
    BY <2>1
<1>4. results'[c] # <<>>
  <2>1. ASSUME results'[c] = <<>> PROVE FALSE
    <3>1. Len(results'[c]) = 0
      BY <2>1
    <3> QED
      BY <3>1, <1>1
  <2> QED
    BY <2>1
<1>5. results'[c] # Append(results[c], FALSE)
  <2>1. ASSUME results'[c] = Append(results[c], FALSE) PROVE FALSE
    <3>1. results'[c][Len(results'[c])] = FALSE
      BY <1>1, <2>1
    <3> QED
      BY <3>1
  <2> QED
    BY <2>1
<1>6. pc[c] = "run" /\ op[c] = "tools" /\ results'[c] = Append(results[c], TRUE)
  BY <1>2, <1>3, <1>4, <1>5
<1>7. Len(results'[c]) = Len(results[c]) + 1
  BY <1>1, <1>6
<1>8. at[c] \in Nat /\ Len(results[c]) = at[c] - 1 /\ name[c] = batch[c][at[c]]
  BY <1>6 DEF RegistryInv, ToolInv, TypeOK
<1>9. Len(results'[c]) = at[c]
  BY <1>1, <1>7, <1>8
<1> QED
  BY <1>6, <1>8, <1>9

\* A call of execute_tool_calls() that is not cancelled returns in ToolsEnd.
LEMMA ToolsReturn ==
  ASSUME RegistryInv, [Next]_vars, NEW c \in Callers,
         op[c] = "tools", pc[c] = "next", op'[c] = "none"
  PROVE  Len(results[c]) = Len(batch[c])
<1>t. TypeOK /\ CallTypeOK /\ CallInv /\ ToolInv /\ SettingInv
  BY CallTypes DEF RegistryInv
<1>1. ASSUME NEW d \in Callers, Lands(d), d # c PROVE FALSE
  BY <1>1 DEF Lands, Moved
<1>2. ASSUME NEW n, NEW step, NEW o, Continue(c, "tools", n) \/ Wait(c, "tools", step, n, o)
      PROVE  FALSE
  BY <1>2, <1>t DEF Continue, Wait, CallTypeOK
<1>3. ~Fails(c, "tools")
  BY <1>2 DEF Fails
<1>4. ASSUME NEW n, RunAction(c, "tools", n) \/ Executes(c, "tools", n) PROVE FALSE
  BY <1>2, <1>3, <1>4 DEF RunAction, Executes, BeginSetup
<1>5. ~SetupEnds(c) /\ ~ExecuteReady(c) /\ ~ActionEnds(c) /\ ~ToolsNext(c)
  BY <1>2, <1>3, <1>4 DEF SetupEnds, Ensured, ExecuteReady, ActionEnds, ToolsNext
<1>6. ~SetupNext(c) /\ ~LoadEnds(c) /\ ~HealthNext(c) /\ ~HealthEnds(c) /\ ~ShutdownNext(c)
  BY DEF SetupNext, LoadEnds, HealthNext, HealthEnds, ShutdownNext, Resumes
<1>7. ~TeardownEnds(c) /\ ~Cancel(c)
  BY DEF TeardownEnds, Unloaded, Cancel, Calling, Methods
<1>8. pc[c] # "idle"
  OBVIOUS
<1>9. ToolsEnd(c) => Len(results[c]) = Len(batch[c])
  BY <1>t DEF ToolsEnd, Resumes, ToolInv
<1>10. ASSUME NEW d \in Callers,
              \/ SetupAll(d) \/ HealthAll(d) \/ Shutdown(d)
              \/ \E n \in Names : Ensure(d, n) \/ Execute(d, n) \/ Unload(d, n)
              \/ \E o \in Objects : Load(d, o)
              \/ \E b \in Batches : Tools(d, b)
       PROVE  FALSE
  <2>1. d = c
    BY <1>1, <1>10, <1>t, CallLands
  <2> QED
    BY <2>1, <1>8, <1>10
    DEF SetupAll, HealthAll, Shutdown, Ensure, Execute, Unload, Load, Tools, Calls
<1>11. ASSUME NEW d \in Callers, Goes(d) PROVE Len(results[c]) = Len(batch[c])
  <2>1. d = c
    BY <1>1, <1>11, <1>t, GoesLands
  <2> QED
    BY <2>1, <1>5, <1>6, <1>7, <1>9, <1>11 DEF Goes
<1>12. ~SetBroker /\ ~Discover /\ ~UNCHANGED vars
  BY DEF SetBroker, Discover, vars, callVars
<1> QED
  BY <1>10, <1>11, <1>12 DEF Next

-----------------------------------------------------------------------------
(* Theorems.                                                               *)

\* The variables keep their types.
THEOREM RegistryTypes == Spec => []TypeOK
<1>1. RegistryInv => TypeOK
  BY DEF RegistryInv
<1> QED
  BY <1>1, Invariance, PTL

\* A name stays in _loading only as long as some ensure_ready is in its
\* setup(), whatever failed, was unloaded or was shut down in between.
THEOREM NeverLoadingForEver == Spec => []LoadingInProgress
<1>1. RegistryInv => LoadingInProgress
  BY DEF RegistryInv, SettingInv, Setting, LoadingInProgress
<1> QED
  BY <1>1, Invariance, PTL

\* A loaded plugin has the PluginInfo of its own instance, which execute()
\* needs to find its actions: no failed setup or unload deletes another's.
THEOREM LoadedCanExecute == Spec => []LoadedHasInfo
<1>1. RegistryInv => LoadedHasInfo
  BY DEF RegistryInv, InfoInv
<1> QED
  BY <1>1, Invariance, PTL

\* list_plugins() and the tool schemas tell of no plugin that is gone.
THEOREM NoStaleInfo == Spec => []InfoIsKnown
<1>1. RegistryInv => InfoIsKnown
  BY DEF RegistryInv, InfoInv
<1> QED
  BY <1>1, Invariance, PTL

\* A discovered plugin is pending or loaded, not both.
THEOREM PendingOrLoaded == Spec => []OneState
<1>1. RegistryInv => OneState
  BY DEF RegistryInv, LoadedInv
<1> QED
  BY <1>1, Invariance, PTL

\* However many coroutines call ensure_ready, setup_all_pending, execute and
\* execute_tool_calls for a discovered plugin, its setup() runs in one of them
\* at a time, and not again once it returned or raised.
THEOREM OneSetup == Spec => SetupOnce
<1>1. RegistryInv /\ [Next]_vars =>
        [\A c \in Callers :
           pc[c] # "setup" /\ pc'[c] = "setup" /\ obj'[c] \notin Given =>
             obj'[c] \notin setups]_vars
  BY SetupOnceStep
<1> QED
  BY <1>1, Invariance, PTL DEF Spec, SetupOnce

\* No action begins on an instance that is not set up, or was torn down
\* while the coroutine waited for something else.
THEOREM ReadyToAct == Spec => ActionsOnReady
<1>1. RegistryInv /\ [Next]_vars =>
        [\A c \in Callers : pc[c] # "run" /\ pc'[c] = "run" => obj'[c] \in ready]_vars
  <2>1. ASSUME RegistryInv, [Next]_vars, NEW c \in Callers, pc[c] # "run", pc'[c] = "run"
        PROVE  obj'[c] \in ready
    BY <2>1, BeginsToWait DEF RegistryInv, LoadedInv, Methods
  <2> QED
    BY <2>1
<1> QED
  BY <1>1, Invariance, PTL DEF Spec, ActionsOnReady

\* execute_tool_calls() returns one result for each tool call, in order, and
\* a success only for the plugin's own action.
THEOREM ResultsInOrder == Spec => ToolResults
<1>1. RegistryInv /\ [Next]_vars =>
        [\A c \in Callers :
           /\ op[c] = "tools" /\ pc[c] = "next" /\ op'[c] = "none" =>
                Len(results[c]) = Len(batch[c])
           /\ Len(results'[c]) > Len(results[c]) /\ results'[c][Len(results'[c])] =>
                pc[c] = "run" /\ name[c] = batch[c][Len(results'[c])]]_vars
  BY ToolsReturn, SuccessRan
<1> QED
  BY <1>1, Invariance, PTL DEF Spec, ToolResults
-----------------------------------------------------------------------------
(* The registry gives its plugins the life of PluginLife.                  *)

\* The setup() of a discovered instance is under way for one coroutine.
SetupApart ==
  \A c, d \in Callers :
    pc[c] = "setup" /\ pc[d] = "setup" /\ obj[c] = obj[d] => c = d \/ obj[c] \in Given

CallOf(c) == <<obj[c], pc[c]>>

calls == {CallOf(c) : c \in {d \in Callers : Calling(d)}}

\* A step moves one coroutine.
Still(c) == \A d \in Callers \ {c} : pc'[d] = pc[d] /\ obj'[d] = obj[d]

LEMMA MovedStill ==
  ASSUME NEW c, Elsewhere(c) \/ \E call, step, n, o : Moved(c, call, step, n, o)
  PROVE  Still(c)
BY DEF Elsewhere, Moved, Still

LEMMA OneMoves ==
  ASSUME Effect
  PROVE  (UNCHANGED <<pc, obj>>) \/ \E c \in Callers : Still(c)
<1>1. ASSUME NEW c \in Callers,
             \/ Quiet(c) \/ Succeeds(c) \/ GivesUp(c) \/ Cancels(c) \/ Loads(c) \/ Unloads(c)
             \/ Forgets(c)
             \/ \E n \in Names : Begins(c, n)
             \/ \E o \in Objects : Creates(c, o)
      PROVE  Still(c)
  BY <1>1, MovedStill
  DEF Quiet, Succeeds, GivesUp, Cancels, Loads, Unloads, Forgets, Begins, Creates
<1>2. CASE Idle \/ Discover
  BY <1>2 DEF Idle, Discover, callVars
<1> QED
  BY <1>1, <1>2 DEF Effect

LEMMA SetupApartStep ==
  ASSUME RegistryInv, SetupApart, [Next]_vars
  PROVE  SetupApart'
<1>1. Effect
  BY NextEffect DEF RegistryInv
<1>2. ASSUME NEW c \in Callers, Still(c), NEW d \in Callers \ {c},
             pc'[c] = "setup", pc'[d] = "setup", obj'[c] = obj'[d], obj'[c] \notin Given
      PROVE  FALSE
  <2>1. pc[d] = "setup" /\ obj[d] = obj'[c] /\ obj[d] \in setups
    BY <1>2 DEF Still, RegistryInv, LoadedInv
  <2>2. CASE pc[c] = "setup"
    <3>1. obj'[c] = obj[c]
      BY <1>2, <2>2, BeginsToWait DEF RegistryInv, Methods
    <3> QED
      BY <1>2, <2>1, <2>2, <3>1 DEF SetupApart
  <2>3. CASE pc[c] # "setup"
    BY <1>2, <2>1, <2>3, SetupOnceStep
  <2> QED
    BY <2>2, <2>3
<1>3. CASE \E c \in Callers : Still(c)
  BY <1>2, <1>3 DEF SetupApart, Still
<1>4. CASE UNCHANGED <<pc, obj>>
  BY <1>4 DEF SetupApart
<1> QED
  BY <1>1, <1>3, <1>4, OneMoves

\* What becomes of the calls under way when one coroutine moves: its call
\* ends, which others of the same instance and method may go on,
LEMMA CallEnds ==
  ASSUME SetupApart, NEW c \in Callers, Still(c), Calling(c), ~Calling(c)'
  PROVE  /\ CallOf(c) \in calls
         /\ calls' \in {calls, calls \ {CallOf(c)}}
         /\ pc[c] = "setup" /\ obj[c] \notin Given => calls' = calls \ {CallOf(c)}
<1>1. CallOf(c) \in calls
  BY DEF calls
<1>2. \A d \in Callers \ {c} : Calling(d)' = Calling(d) /\ CallOf(d)' = CallOf(d)
  BY DEF Still, Calling, CallOf
<1>3. calls' \subseteq calls /\ calls \ {CallOf(c)} \subseteq calls'
  BY <1>2 DEF calls
<1>4. ASSUME pc[c] = "setup", obj[c] \notin Given PROVE CallOf(c) \notin calls'
  <2>1. SUFFICES ASSUME NEW d \in Callers, Calling(d)', CallOf(d)' = CallOf(c) PROVE FALSE
    BY DEF calls
  <2>2. d # c /\ pc[d] = "setup" /\ obj[d] = obj[c]
    BY <1>4, <2>1 DEF CallOf, Still
  <2> QED
    BY <1>4, <2>2 DEF SetupApart
<1> QED
  BY <1>1, <1>3, <1>4

\* begins,
LEMMA CallBegins ==
  ASSUME NEW c \in Callers, Still(c), ~Calling(c), Calling(c)'
  PROVE  calls' = calls \cup {CallOf(c)'}
<1>1. \A d \in Callers \ {c} : Calling(d)' = Calling(d) /\ CallOf(d)' = CallOf(d)
  BY DEF Still, Calling, CallOf
<1> QED
  BY <1>1 DEF calls

\* or is what it was.
LEMMA CallStays ==
  ASSUME NEW c \in Callers, Still(c), Calling(c)' = Calling(c),
         Calling(c) => CallOf(c)' = CallOf(c)
  PROVE  calls' = calls
<1>1. \A d \in Callers : Calling(d)' = Calling(d) /\ (Calling(d) => CallOf(d)' = CallOf(d))
  BY DEF Still, Calling, CallOf
<1> QED
  BY <1>1 DEF calls

\* An instance is waited for.
CallsObjects == \A c \in Callers : Calling(c) => obj[c] \in Objects

LEMMA CallsObjectsStep ==
  ASSUME RegistryInv, CallsObjects, [Next]_vars
  PROVE  CallsObjects'
<1> SUFFICES ASSUME NEW c \in Callers, pc'[c] \in Methods PROVE obj'[c] \in Objects
  BY DEF CallsObjects, Calling
<1>1. CASE pc'[c] = pc[c] /\ obj'[c] = obj[c]
  BY <1>1 DEF CallsObjects, Calling
<1>2. CASE pc'[c] = "setup"
  <2>1. RegistryInv'
    BY StepInv
  <2>2. obj'[c] \in setups' /\ setups' \subseteq Objects
    BY <1>2, <2>1 DEF RegistryInv, LoadedInv, TypeOK
  <2> QED
    BY <2>2
<1>3. CASE \E n \in Loaded : obj'[c] = plugins[n]
  BY <1>3 DEF RegistryInv, LoadedInv, TypeOK
<1> QED
  BY <1>1, <1>2, <1>3, BeginsToWait DEF RegistryInv

LifeInv == RegistryInv /\ SetupApart /\ CallsObjects

\* Where c's setup() ends,
LEMMA SetupEndsCall ==
  ASSUME LifeInv, [Next]_vars, NEW c \in Callers, pc[c] = "setup", Elsewhere(c)
  PROVE  /\ obj[c] \in Objects
         /\ <<obj[c], "setup">> \in calls
         /\ \/ calls' = calls \ {<<obj[c], "setup">>}
            \/ obj[c] \in Given /\ calls' = calls
<1>1. Still(c) /\ Calling(c) /\ obj[c] \in Objects
  BY MovedStill DEF Calling, Methods, LifeInv, CallsObjects
<1>2. ~Calling(c)'
  <2>1. pc'[c] # "setup"
    BY DEF Elsewhere, Moved
  <2> QED
    BY <1>1, <2>1, BeginsToWait DEF Calling, LifeInv, RegistryInv
<1> QED
  BY <1>1, <1>2, CallEnds DEF LifeInv, CallOf

\* returning or raising,
LEMMA SetupReturnsLife ==
  ASSUME LifeInv, [Next]_vars, NEW c \in Callers, pc[c] = "setup", Elsewhere(c),
         \/ UNCHANGED <<ready, listed>>
         \/ ready' = ready \cup {obj[c]} /\ listed' = listed \cup {obj[c]},
         UNCHANGED <<created, setups>>
  PROVE  Life!LifeNext
<1>1. PICK p \in Objects : p = obj[c]
  BY SetupEndsCall
<1>2. Life!SetupReturns(p)
  BY <1>1, SetupEndsCall DEF Life!SetupReturns, calls, CallOf
<1> QED
  BY <1>2 DEF Life!LifeNext

\* or cancelled.
LEMMA SetupCancelledLife ==
  ASSUME LifeInv, [Next]_vars, NEW c \in Callers, Cancels(c)
  PROVE  Life!LifeNext
<1>1. pc[c] = "setup" /\ Elsewhere(c) /\ obj[c] \notin Given
  BY DEF Cancels, Setting, LifeInv, RegistryInv, SettingInv
<1>2. PICK p \in Objects : p = obj[c]
  BY <1>1, SetupEndsCall
<1>3. Life!SetupCancelled(p)
  BY <1>1, <1>2, SetupEndsCall DEF Cancels, Life!SetupCancelled, calls, CallOf
<1> QED
  BY <1>3 DEF Life!LifeNext

\* At the end of a call of another method, at its beginning, and in between.
LEMMA ElsewhereLife ==
  ASSUME LifeInv, [Next]_vars, NEW c \in Callers, pc[c] # "setup", Elsewhere(c),
         UNCHANGED <<created, listed, setups>>,
         \/ UNCHANGED ready
         \/ pc[c] = "teardown" /\ ready' = ready \ {obj[c]}
  PROVE  Life!LifeNext \/ UNCHANGED Life!lifeVars
<1>1. Still(c) /\ pc'[c] # "setup" /\ (Calling(c) => obj[c] \in Objects)
  BY MovedStill DEF Elsewhere, Moved, LifeInv, CallsObjects
<1>2. CASE Calling(c) /\ ~Calling(c)'
  <2>1. CallOf(c) \in calls /\ calls' \in {calls, calls \ {CallOf(c)}}
    BY <1>1, <1>2, CallEnds DEF LifeInv
  <2>2. PICK m \in {"run", "health", "teardown"} : m = pc[c]
    BY <1>2 DEF Calling, Methods
  <2>3. Life!Returns(obj[c], m)
    BY <2>1, <2>2 DEF Life!Returns, calls, CallOf
  <2> QED
    BY <1>1, <1>2, <2>3 DEF Life!LifeNext
<1>3. CASE ~Calling(c) /\ Calling(c)'
  <2>1. PICK n \in Loaded : obj'[c] = plugins[n]
    BY <1>1, <1>3, BeginsToWait DEF Calling, LifeInv, RegistryInv
  <2>2. PICK p \in Objects : p = obj'[c] /\ p \in ready \cap listed
    BY <2>1 DEF LifeInv, RegistryInv, LoadedInv, TypeOK
  <2>3. PICK m \in {"run", "health", "teardown"} : m = pc'[c]
    BY <1>1, <1>3 DEF Calling, Methods
  <2>4. calls' = calls \cup {<<p, m>>}
    BY <1>1, <1>3, <2>2, <2>3, CallBegins DEF CallOf
  <2>5. UNCHANGED ready
    BY <1>3 DEF Calling, Methods
  <2>6. Life!Use(p, m)
    BY <2>2, <2>4, <2>5 DEF Life!Use, calls, CallOf
  <2> QED
    BY <2>6 DEF Life!LifeNext
<1>4. CASE Calling(c) /\ Calling(c)'
  <2>1. pc'[c] = pc[c] /\ obj'[c] = obj[c]
    BY <1>4, BeginsToWait DEF Calling, LifeInv, RegistryInv
  <2>2. calls' = calls
    BY <1>1, <1>4, <2>1, CallStays DEF CallOf
  <2>3. PICK m \in {"run", "health", "teardown"} : m = pc[c]
    BY <1>1, <1>4, <2>1 DEF Calling, Methods
  <2>4. CallOf(c) \in calls
    BY <1>4 DEF calls
  <2>5. Life!Returns(obj[c], m)
    BY <2>2, <2>3, <2>4 DEF Life!Returns, calls, CallOf
  <2> QED
    BY <1>1, <1>4, <2>5 DEF Life!LifeNext
<1>5. CASE ~Calling(c) /\ ~Calling(c)'
  <2>1. calls' = calls
    BY <1>1, <1>5, CallStays DEF Calling
  <2>2. UNCHANGED ready
    BY <1>5 DEF Calling, Methods
  <2> QED
    BY <2>1, <2>2 DEF Life!lifeVars, calls, CallOf
<1> QED
  BY <1>2, <1>3, <1>4, <1>5

LEMMA LifeStep ==
  ASSUME LifeInv, [Next]_vars
  PROVE  [Life!LifeNext]_(Life!lifeVars)
<1> SUFFICES Life!LifeNext \/ UNCHANGED Life!lifeVars
  OBVIOUS
<1>1. Effect
  BY NextEffect DEF LifeInv, RegistryInv
<1>2. CASE Idle
  BY <1>2 DEF Idle, registered, Life!lifeVars, Calling
<1>3. CASE Discover
  <2>1. PICK P \in SUBSET Objects :
          P \cap (created \cup Given) = {} /\ created' = created \cup P /\ listed' = listed \cup P
    <3>1. PICK S : \E new \in [S -> Objects \ (created \cup Given)] :
                      /\ created' = created \cup {new[n] : n \in S}
                      /\ listed' = listed \cup {new[n] : n \in S}
      BY <1>3 DEF Discover
    <3>2. PICK new \in [S -> Objects \ (created \cup Given)] :
             /\ created' = created \cup {new[n] : n \in S}
             /\ listed' = listed \cup {new[n] : n \in S}
      BY <3>1
    <3>3. {new[n] : n \in S} \in SUBSET Objects /\ {new[n] : n \in S} \cap (created \cup Given) = {}
      BY <3>2
    <3> QED
      BY <3>2, <3>3
  <2>2. Life!Make(P)
    BY <1>3, <2>1 DEF Discover, callVars, Life!Make, Calling
  <2> QED
    BY <2>2 DEF Life!LifeNext
<1>4. ASSUME NEW c \in Callers, Quiet(c) \/ Forgets(c)
      PROVE  Life!LifeNext \/ UNCHANGED Life!lifeVars
  BY <1>4, SetupReturnsLife, ElsewhereLife DEF Quiet, Forgets, registered
<1>5. ASSUME NEW c \in Callers, Succeeds(c) \/ GivesUp(c) \/ Loads(c)
      PROVE  Life!LifeNext
  <2>1. Setting(c) => obj[c] \in listed
    BY DEF LifeInv, RegistryInv, SettingInv, ListedInv, TypeOK
  <2> QED
    BY <1>5, <2>1, SetupReturnsLife DEF Succeeds, GivesUp, Loads, Setting
<1>6. ASSUME NEW c \in Callers, Unloads(c)
      PROVE  Life!LifeNext \/ UNCHANGED Life!lifeVars
  BY <1>6, ElsewhereLife DEF Unloads
<1>7. ASSUME NEW c \in Callers, NEW o \in Objects, o \in Given \/ o \in created \ setups,
             created' = created \cup {o}, setups' = setups \cup {o}, UNCHANGED <<listed, ready>>,
             NEW call, NEW n, Moved(c, call, "setup", n, o), pc[c] # "setup"
      PROVE  Life!LifeNext
  <2>1. Still(c) /\ ~Calling(c) /\ Calling(c)'
    BY <1>7, MovedStill, BeginsToWait DEF Moved, Calling, Methods, LifeInv, RegistryInv
  <2>2. calls' = calls \cup {<<o, "setup">>}
    BY <1>7, <2>1, CallBegins DEF Moved, CallOf
  <2>3. Life!Setup(o)
    BY <1>7, <2>2 DEF Life!Setup, calls, CallOf
  <2> QED
    BY <2>3 DEF Life!LifeNext
<1>8. ASSUME NEW c \in Callers, NEW n \in Names, Begins(c, n)
      PROVE  Life!LifeNext
  <2>1. PICK call \in {"ensure", "setup_all", "execute", "tools"} :
          Moved(c, call, "setup", n, pending[n])
    BY <1>8 DEF Begins
  <2>2. n \in Pending /\ n \notin loading
    BY <1>8 DEF Begins, SetsUp
  <2>3. PICK o \in Objects : o = pending[n] /\ o \in created \ Given /\ o \notin setups
    BY <2>2 DEF LifeInv, RegistryInv, PendingInv, TypeOK
  <2>4. pc[c] # "setup"
    <3>1. SUFFICES ASSUME pc[c] = "setup" PROVE FALSE
      OBVIOUS
    <3>2. obj[c] \in Given
      BY <1>8, <3>1 DEF Begins, Setting, LifeInv, RegistryInv, LoadedInv
    <3>3. obj'[c] = obj[c]
      BY <2>1, <3>1, BeginsToWait DEF Moved, Methods, LifeInv, RegistryInv
    <3> QED
      BY <2>1, <2>3, <3>2, <3>3 DEF Moved
  <2> QED
    BY <1>7, <1>8, <2>1, <2>3, <2>4 DEF Begins
<1>9. ASSUME NEW c \in Callers, NEW o \in Objects, Creates(c, o)
      PROVE  Life!LifeNext
  BY <1>7, <1>9 DEF Creates
<1>10. ASSUME NEW c \in Callers, Cancels(c)
       PROVE  Life!LifeNext
  BY <1>10, SetupCancelledLife
<1> QED
  BY <1>1, <1>2, <1>3, <1>4, <1>5, <1>6, <1>8, <1>9, <1>10 DEF Effect

\* The calls the registry makes of a plugin keep to the lifecycle of
\* PluginLife.tla, however many coroutines discover, load, set up, use, unload
\* and shut down plugins at the same time, whatever setup() and teardown()
\* raise, and wherever a coroutine is cancelled.
THEOREM RegistryImplementsLife == Spec => ImplementsLife
<1>1. Init => LifeInv
  BY InitInv DEF Init, LifeInv, SetupApart, CallsObjects, Calling, Methods
<1>2. LifeInv /\ [Next]_vars => LifeInv'
  BY StepInv, SetupApartStep, CallsObjectsStep DEF LifeInv
<1>3. Init => Life!LifeInit
  BY DEF Init, Life!LifeInit, Calling, Methods
<1>4. LifeInv /\ [Next]_vars => [Life!LifeNext]_(Life!lifeVars)
  BY LifeStep
<1> QED
  BY <1>1, <1>2, <1>3, <1>4, PTL DEF Spec, ImplementsLife, Life!LifeSpec

=============================================================================
