---------------------------- MODULE PluginRegistry ----------------------------
(***************************************************************************)
(* PluginRegistry (plugins/registry.py): plugins are discovered and kept   *)
(* pending, set up on first use, executed, unloaded and shut down, by      *)
(* coroutines of one event loop that call the registry at the same time,   *)
(* among them execute_tool_calls() (providers/tool_executor.py), which     *)
(* executes a model's tool calls one after the other.                      *)
(*                                                                         *)
(* A coroutine gives way only where it awaits the plugin: in setup(),      *)
(* execute_action(), health() and teardown().  Between two awaits it keeps *)
(* the baton, so that a loop over several plugins, or ensure_ready() and   *)
(* the code after it, are not interleaved where they do not wait.  It may  *)
(* be cancelled where it waits, as the timeout of a task does.             *)
(***************************************************************************)
EXTENDS Naturals, FiniteSets, Sequences

CONSTANTS
  Names,      \* plugin names
  Objects,    \* plugin instances
  NameOf,     \* the name of each instance
  Given,      \* instances given to load_plugin, the others are discovered
  Unlistable, \* instances whose list_actions() raises
  Batches,    \* sequences of tool calls, each a plugin's name or None when
              \* the tool's name has no separator
  Callers,    \* coroutines using the registry
  None,
  Api,        \* the operations called
  MayRaise    \* what may raise: "setup", "teardown", or, at any await,
              \* "cancel"

ASSUME RegistryAssumption ==
  /\ NameOf \in [Objects -> Names]
  /\ None \notin Names \cup Objects \cup Callers
  /\ IsFiniteSet(Names)
  /\ Given \subseteq Objects /\ Unlistable \subseteq Objects
  /\ Batches \subseteq Seq(Names \cup {None})
  /\ Api \subseteq {"load", "ensure", "setup_all", "execute", "tools",
                    "health_all", "unload", "shutdown"}
  /\ MayRaise \subseteq {"setup", "teardown", "cancel"}

VARIABLES
  plugins,   \* _plugins: the loaded instance of a name
  pending,   \* _pending_setup: the discovered instance of a name
  info,      \* _plugin_info: the instance a name's PluginInfo was made from
  loading,   \* _loading
  broker,    \* is there a credential broker?
  created,   \* instances discovered, or set up by load_plugin
  listed,    \* instances whose list_actions() was called
  setups,    \* instances whose setup() is under way, returned or raised: not
             \* those it was cancelled for
  ready,     \* instances set up and not torn down
  stopping,  \* shutdown() was called
  baton,     \* the coroutine that runs, None while all of them wait
  op, pc, name, obj, \* each coroutine's call, where it waits, and for whom
  todo,      \* names its loop has left; for health_all, those it has seen
  size,      \* number of plugins when its health_all began
  batch,     \* the tool calls it was given
  at,        \* how many of them it has taken up
  results    \* is_error, negated, of the ToolResults so far

registryVars == <<plugins, pending, info, loading, broker>>
pluginVars == <<created, listed, setups, ready>>
toolVars == <<batch, at, results>>
callVars == <<stopping, baton, op, pc, name, obj, todo, size, toolVars>>
vars == <<registryVars, pluginVars, callVars>>

Slots == [Names -> Objects \cup {None}]

TypeOK ==
  /\ plugins \in Slots
  /\ pending \in Slots
  /\ info \in Slots
  /\ loading \subseteq Names
  /\ broker \in BOOLEAN
  /\ ready \subseteq listed /\ listed \subseteq created
  /\ setups \subseteq created /\ created \subseteq Objects
  /\ stopping \in BOOLEAN
  /\ baton \in Callers \cup {None}
  /\ op \in [Callers -> Api \cup {"none"}]
  /\ pc \in [Callers -> {"idle", "next", "setup", "run", "health", "teardown"}]
  /\ name \in [Callers -> Names \cup {None}]
  /\ obj \in [Callers -> Objects \cup {None}]
  /\ todo \in [Callers -> SUBSET Names]
  /\ size \in [Callers -> Nat]
  /\ batch \in [Callers -> Batches \cup {<<>>}]
  /\ at \in [Callers -> Nat] /\ \A c \in Callers : at[c] <= Len(batch[c])
  /\ results \in [Callers -> Seq(BOOLEAN)]

Init ==
  /\ plugins = [n \in Names |-> None]
  /\ pending = [n \in Names |-> None]
  /\ info = [n \in Names |-> None]
  /\ loading = {}
  /\ broker \in BOOLEAN
  /\ created = {} /\ listed = {} /\ setups = {} /\ ready = {}
  /\ stopping = FALSE
  /\ baton = None
  /\ op = [c \in Callers |-> "none"]
  /\ pc = [c \in Callers |-> "idle"]
  /\ name = [c \in Callers |-> None]
  /\ obj = [c \in Callers |-> None]
  /\ todo = [c \in Callers |-> {}]
  /\ size = [c \in Callers |-> 0]
  /\ batch = [c \in Callers |-> <<>>]
  /\ at = [c \in Callers |-> 0]
  /\ results = [c \in Callers |-> <<>>]

Loaded == {n \in Names : plugins[n] # None}
Pending == {n \in Names : pending[n] # None}

-----------------------------------------------------------------------------
(* How a coroutine goes on.                                                *)

\* It waits for a method of instance o of name n.
Wait(c, call, step, n, o) ==
  /\ op' = [op EXCEPT ![c] = call]
  /\ pc' = [pc EXCEPT ![c] = step]
  /\ name' = [name EXCEPT ![c] = n]
  /\ obj' = [obj EXCEPT ![c] = o]
  /\ baton' = None

\* It goes on without giving way.
Continue(c, call, n) ==
  /\ op' = [op EXCEPT ![c] = call]
  /\ pc' = [pc EXCEPT ![c] = "next"]
  /\ name' = [name EXCEPT ![c] = n]
  /\ obj' = [obj EXCEPT ![c] = None]
  /\ baton' = c

\* The call returns or raises.
Return(c) ==
  /\ op' = [op EXCEPT ![c] = "none"]
  /\ pc' = [pc EXCEPT ![c] = "idle"]
  /\ name' = [name EXCEPT ![c] = None]
  /\ obj' = [obj EXCEPT ![c] = None]
  /\ baton' = None

\* Nobody calls a registry that is being shut down; calls under way go on.
Calls(c, call) ==
  /\ call \in Api
  /\ pc[c] = "idle"
  /\ baton = None
  /\ ~stopping

Resumes(c, call, step) ==
  /\ op[c] = call
  /\ pc[c] = step
  /\ baton = IF step = "next" THEN c ELSE None

Methods == {"setup", "run", "health", "teardown"}

Calling(c) == pc[c] \in Methods

\* It waits for the setup() of a discovered plugin.
Setting(c) == pc[c] = "setup" /\ op[c] # "load"

\* Defect: its name stays marked as being loaded.
CancelMarked(c) ==
  /\ "cancel" \in MayRaise
  /\ Calling(c) /\ baton = None
  /\ batch' = [batch EXCEPT ![c] = <<>>]
  /\ at' = [at EXCEPT ![c] = 0]
  /\ results' = [results EXCEPT ![c] = <<>>]
  /\ Return(c)
  /\ UNCHANGED <<registryVars, pluginVars, stopping, todo, size>>

\* It is cancelled where it waits.  No except clause catches that: of
\* ensure_ready only the finally runs, and the instance stays pending.
Cancel(c) ==
  /\ "cancel" \in MayRaise
  /\ Calling(c) /\ baton = None
  /\ \/ /\ Setting(c)
        /\ loading' = loading \ {name[c]}
        /\ setups' = setups \ {obj[c]}
     \/ ~Setting(c) /\ UNCHANGED <<loading, setups>>
  /\ batch' = [batch EXCEPT ![c] = <<>>]
  /\ at' = [at EXCEPT ![c] = 0]
  /\ results' = [results EXCEPT ![c] = <<>>]
  /\ Return(c)
  /\ UNCHANGED <<plugins, pending, info, broker, created, listed, ready, stopping, todo, size>>

-----------------------------------------------------------------------------
(* Discovery: no await, so it is one step.                                 *)

SetBroker ==
  /\ ~broker
  /\ baton = None
  /\ broker' = TRUE
  /\ UNCHANGED <<plugins, pending, info, loading, pluginVars, callVars>>

\* Defect: only the pending plugins are skipped.
DiscoverLoaded ==
  /\ baton = None
  /\ ~stopping
  /\ \E n \in Names \ Pending, o \in Objects \ (created \cup Given) :
       /\ NameOf[o] = n
       /\ pending' = [pending EXCEPT ![n] = o]
       /\ info' = [info EXCEPT ![n] = o]
       /\ created' = created \cup {o}
       /\ listed' = listed \cup {o}
  /\ UNCHANGED <<plugins, loading, broker, setups, ready, callVars>>

\* discover_and_register(): the entry points whose factory works become
\* pending; list_actions() is called after that, and may raise.
Discover ==
  /\ baton = None
  /\ ~stopping
  /\ \E S \in (SUBSET (Names \ (Loaded \cup Pending))) \ {{}} :
     \E new \in [S -> Objects \ (created \cup Given)] :
       /\ \A n \in S : NameOf[new[n]] = n
       /\ pending' = [n \in Names |-> IF n \in S THEN new[n] ELSE pending[n]]
       /\ info' = [n \in Names |->
                     IF n \in S /\ new[n] \notin Unlistable THEN new[n] ELSE info[n]]
       /\ created' = created \cup {new[n] : n \in S}
       /\ listed' = listed \cup {new[n] : n \in S}
  /\ UNCHANGED <<plugins, loading, broker, setups, ready, callVars>>

-----------------------------------------------------------------------------
(* ensure_ready(), alone, from setup_all_pending() and from execute().     *)

\* Defect: the instance is looked up with get(), and may be None.
SetsUpUnknown(n) == n \notin Loaded /\ broker /\ n \notin loading

\* Defect: no test of _loading.
SetsUpAgain(n) == n \notin Loaded /\ n \in Pending /\ broker

\* ensure_ready gets to the setup() call.
SetsUp(n) == n \notin Loaded /\ n \in Pending /\ broker /\ n \notin loading

BeginSetup(c, call, n) ==
  /\ SetsUp(n)
  /\ loading' = loading \cup {n}
  /\ setups' = setups \cup {pending[n]}
  /\ Wait(c, call, "setup", n, pending[n])

Ensure(c, n) ==
  /\ Calls(c, "ensure")
  /\ \/ BeginSetup(c, "ensure", n)
     \/ ~SetsUp(n) /\ Return(c) /\ UNCHANGED <<loading, setups>>
  /\ UNCHANGED <<plugins, pending, info, broker, created, listed, ready, stopping, todo, size, toolVars>>

\* setup_all_pending(): a loop over the names pending now.
SetupAll(c) ==
  /\ Calls(c, "setup_all")
  /\ todo' = [todo EXCEPT ![c] = Pending]
  /\ Continue(c, "setup_all", None)
  /\ UNCHANGED <<registryVars, pluginVars, stopping, size, toolVars>>

SetupNext(c) ==
  /\ Resumes(c, "setup_all", "next")
  /\ \/ \E n \in todo[c] :
          /\ todo' = [todo EXCEPT ![c] = @ \ {n}]
          /\ \/ BeginSetup(c, "setup_all", n)
             \/ /\ ~SetsUp(n)
                /\ Continue(c, "setup_all", None)
                /\ UNCHANGED <<loading, setups>>
     \/ /\ todo[c] = {}
        /\ Return(c)
        /\ UNCHANGED <<todo, loading, setups>>
  /\ UNCHANGED <<plugins, pending, info, broker, created, listed, ready, stopping, size, toolVars>>

\* Defect: no ToolResult for a call that raises.
FailsSilently(c, call) ==
  \/ call = "execute" /\ Return(c) /\ UNCHANGED results
  \/ call = "tools" /\ Continue(c, call, None) /\ UNCHANGED results

\* execute() raises: to its caller, or to the loop over tool calls, which goes
\* on with an error result.
Fails(c, call) ==
  \/ call = "execute" /\ Return(c) /\ UNCHANGED results
  \/ /\ call = "tools"
     /\ results' = [results EXCEPT ![c] = Append(@, FALSE)]
     /\ Continue(c, call, None)

\* ensure_ready returns to its caller.
Ensured(c, done) ==
  \/ op[c] = "ensure" /\ Return(c) /\ UNCHANGED results
  \/ op[c] = "setup_all" /\ Continue(c, "setup_all", None) /\ UNCHANGED results
  \/ op[c] \in {"execute", "tools"} /\ done /\ Continue(c, op[c], name[c]) /\ UNCHANGED results
  \/ ~done /\ Fails(c, op[c])

\* setup() is over.  If shutdown() emptied _pending_setup meanwhile, the del
\* raises and is taken for a failed setup.
SetupEnds(c) ==
  LET n == name[c] o == obj[c] IN
  /\ pc[c] = "setup" /\ op[c] # "load" /\ baton = None
  /\ loading' = loading \ {n}
  /\ pending' = [pending EXCEPT ![n] = None]
  /\ \/ /\ n \in Pending
        /\ plugins' = [plugins EXCEPT ![n] = o]
        /\ ready' = ready \cup {o}
        /\ Ensured(c, TRUE)
        /\ UNCHANGED info
     \/ /\ \/ n \notin Pending /\ ready' = ready \cup {o}
           \/ "setup" \in MayRaise /\ UNCHANGED ready
        /\ info' = [info EXCEPT ![n] = None]
        /\ Ensured(c, FALSE)
        /\ UNCHANGED plugins
  /\ UNCHANGED <<broker, created, listed, setups, stopping, todo, size, batch, at>>

-----------------------------------------------------------------------------
(* execute()                                                               *)

\* With the plugin loaded: its info is looked up, the action and the
\* parameters are checked, and the action runs.
RunAction(c, call, n) ==
  \/ Fails(c, call)
  \/ info[n] # None /\ Wait(c, call, "run", n, plugins[n]) /\ UNCHANGED results

Executes(c, call, n) ==
  \/ BeginSetup(c, call, n) /\ UNCHANGED results
  \/ /\ ~SetsUp(n)
     /\ IF n \in Loaded THEN RunAction(c, call, n) ELSE Fails(c, call)
     /\ UNCHANGED <<loading, setups>>

Execute(c, n) ==
  /\ Calls(c, "execute")
  /\ Executes(c, "execute", n)
  /\ UNCHANGED <<plugins, pending, info, broker, created, listed, ready, stopping, todo, size, batch, at>>

ExecuteReady(c) ==
  /\ op[c] \in {"execute", "tools"} /\ Resumes(c, op[c], "next")
  /\ name[c] # None
  /\ RunAction(c, op[c], name[c])
  /\ UNCHANGED <<registryVars, pluginVars, stopping, todo, size, batch, at>>

\* execute_action() raises or returns a result, of success or not.
ActionEnds(c) ==
  /\ op[c] \in {"execute", "tools"} /\ Resumes(c, op[c], "run")
  /\ \/ Fails(c, op[c])
     \/ /\ op[c] = "tools"
        /\ results' = [results EXCEPT ![c] = Append(@, TRUE)]
        /\ Continue(c, "tools", None)
  /\ UNCHANGED <<registryVars, pluginVars, stopping, todo, size, batch, at>>

-----------------------------------------------------------------------------
(* execute_tool_calls()                                                    *)

Tools(c, b) ==
  /\ Calls(c, "tools")
  /\ batch' = [batch EXCEPT ![c] = b]
  /\ Continue(c, "tools", None)
  /\ UNCHANGED <<registryVars, pluginVars, stopping, todo, size, at, results>>

\* The next tool call: a name without a separator is an error at once.
ToolsNext(c) ==
  LET n == batch[c][at[c] + 1] IN
  /\ Resumes(c, "tools", "next")
  /\ name[c] = None
  /\ at[c] < Len(batch[c])
  /\ at' = [at EXCEPT ![c] = @ + 1]
  /\ \/ n = None /\ Fails(c, "tools") /\ UNCHANGED <<loading, setups>>
     \/ n # None /\ Executes(c, "tools", n)
  /\ UNCHANGED <<plugins, pending, info, broker, created, listed, ready, stopping, todo, size, batch>>

ToolsEnd(c) ==
  /\ Resumes(c, "tools", "next")
  /\ name[c] = None
  /\ at[c] = Len(batch[c])
  /\ batch' = [batch EXCEPT ![c] = <<>>]
  /\ at' = [at EXCEPT ![c] = 0]
  /\ results' = [results EXCEPT ![c] = <<>>]
  /\ Return(c)
  /\ UNCHANGED <<registryVars, pluginVars, stopping, todo, size>>

-----------------------------------------------------------------------------
(* load_plugin(), with an instance and perhaps a broker of the caller's.    *)

\* Nothing but the loaded plugins is looked at: the instance may be one that
\* another load_plugin is setting up.
Load(c, o) ==
  LET n == NameOf[o] IN
  /\ Calls(c, "load")
  /\ o \in Given
  /\ \/ /\ n \in Loaded \/ ~broker
        /\ Return(c)
        /\ UNCHANGED <<created, setups>>
     \/ /\ n \notin Loaded
        /\ created' = created \cup {o}
        /\ setups' = setups \cup {o}
        /\ Wait(c, "load", "setup", n, o)
  /\ UNCHANGED <<registryVars, listed, ready, stopping, todo, size, toolVars>>

\* list_actions() is called once the plugin is loaded, and may raise.
LoadEnds(c) ==
  LET n == name[c] o == obj[c] IN
  /\ Resumes(c, "load", "setup")
  /\ \/ /\ ready' = ready \cup {o}
        /\ listed' = listed \cup {o}
        /\ plugins' = [plugins EXCEPT ![n] = o]
        /\ info' = IF o \in Unlistable THEN info ELSE [info EXCEPT ![n] = o]
     \/ "setup" \in MayRaise /\ UNCHANGED <<ready, listed, plugins, info>>
  /\ Return(c)
  /\ UNCHANGED <<pending, loading, broker, created, setups, stopping, todo, size, toolVars>>

-----------------------------------------------------------------------------
(* health_all(): iterates over _plugins itself, and awaits in the loop.    *)
(* The iterator raises when the size changed.  A failed health() call is   *)
(* reported and the loop goes on.                                          *)

HealthAll(c) ==
  /\ Calls(c, "health_all")
  /\ todo' = [todo EXCEPT ![c] = {}]
  /\ size' = [size EXCEPT ![c] = Cardinality(Loaded)]
  /\ Continue(c, "health_all", None)
  /\ UNCHANGED <<registryVars, pluginVars, stopping, toolVars>>

HealthNext(c) ==
  /\ Resumes(c, "health_all", "next")
  /\ \/ /\ Cardinality(Loaded) # size[c]
        /\ Return(c)
        /\ UNCHANGED todo
     \/ /\ Cardinality(Loaded) = size[c]
        /\ Loaded \subseteq todo[c]
        /\ Return(c)
        /\ UNCHANGED todo
     \/ /\ Cardinality(Loaded) = size[c]
        /\ \E n \in Loaded \ todo[c] :
             /\ todo' = [todo EXCEPT ![c] = @ \cup {n}]
             /\ Wait(c, "health_all", "health", n, plugins[n])
  /\ UNCHANGED <<registryVars, pluginVars, stopping, size, toolVars>>

HealthEnds(c) ==
  /\ Resumes(c, "health_all", "health")
  /\ Continue(c, "health_all", None)
  /\ UNCHANGED <<registryVars, pluginVars, stopping, todo, size, toolVars>>

-----------------------------------------------------------------------------
(* unload_plugin(), alone and from shutdown().                             *)

\* Defect: the PluginInfo is deleted before teardown() is awaited.
UnloadInfoFirst(c, n) ==
  /\ Calls(c, "unload")
  /\ n \in Loaded
  /\ info' = [info EXCEPT ![n] = None]
  /\ Wait(c, "unload", "teardown", n, plugins[n])
  /\ UNCHANGED <<plugins, pending, loading, broker, pluginVars, stopping, todo, size, toolVars>>

\* Defect: the instance is looked up among the pending ones, too.
UnloadKnown(c, n) ==
  /\ Calls(c, "unload")
  /\ \/ n \in Loaded /\ Wait(c, "unload", "teardown", n, plugins[n])
     \/ n \in Pending \ Loaded /\ Wait(c, "unload", "teardown", n, pending[n])
     \/ n \notin Loaded \cup Pending /\ Return(c)
  /\ UNCHANGED <<registryVars, pluginVars, stopping, todo, size, toolVars>>

Unload(c, n) ==
  /\ Calls(c, "unload")
  /\ \/ n \in Loaded /\ Wait(c, "unload", "teardown", n, plugins[n])
     \/ n \notin Loaded /\ Return(c)
  /\ UNCHANGED <<registryVars, pluginVars, stopping, todo, size, toolVars>>

Unloaded(c) ==
  \/ op[c] = "unload" /\ Return(c)
  \/ op[c] = "shutdown" /\ Continue(c, "shutdown", None)

\* Defect: an instance torn down stays in _plugins.
TeardownEndsKept(c) ==
  /\ pc[c] = "teardown" /\ baton = None
  /\ ready' = ready \ {obj[c]}
  /\ Unloaded(c)
  /\ UNCHANGED <<registryVars, created, listed, setups, stopping, todo, size, toolVars>>

\* teardown() is over: the name is deleted, whatever instance it has by now.
TeardownEnds(c) ==
  LET n == name[c] IN
  /\ pc[c] = "teardown" /\ baton = None
  /\ \/ /\ ready' = ready \ {obj[c]}
        /\ plugins' = [plugins EXCEPT ![n] = None]
        /\ info' = IF n \in Loaded THEN [info EXCEPT ![n] = None] ELSE info
     \/ "teardown" \in MayRaise /\ UNCHANGED <<ready, plugins, info>>
  /\ Unloaded(c)
  /\ UNCHANGED <<pending, loading, broker, created, listed, setups, stopping, todo, size, toolVars>>

Shutdown(c) ==
  /\ Calls(c, "shutdown")
  /\ stopping' = TRUE
  /\ todo' = [todo EXCEPT ![c] = Loaded]
  /\ Continue(c, "shutdown", None)
  /\ UNCHANGED <<registryVars, pluginVars, size, toolVars>>

\* Defect: the pending plugins go, and list_plugins() still tells of them.
ForgetPendingOnly ==
  /\ pending' = [n \in Names |-> None]
  /\ UNCHANGED info

\* The discovered plugins that were never set up.
ForgetPending ==
  /\ info' = [n \in Names |-> IF n \in Pending THEN None ELSE info[n]]
  /\ pending' = [n \in Names |-> None]

ShutdownNext(c) ==
  /\ Resumes(c, "shutdown", "next")
  /\ \/ \E n \in todo[c] :
          /\ todo' = [todo EXCEPT ![c] = @ \ {n}]
          /\ \/ n \in Loaded /\ Wait(c, "shutdown", "teardown", n, plugins[n])
             \/ n \notin Loaded /\ Continue(c, "shutdown", None)
          /\ UNCHANGED <<pending, info>>
     \/ /\ todo[c] = {}
        /\ ForgetPending
        /\ Return(c)
        /\ UNCHANGED todo
  /\ UNCHANGED <<plugins, loading, broker, pluginVars, stopping, size, toolVars>>

-----------------------------------------------------------------------------

Goes(c) ==
  \/ SetupNext(c) \/ SetupEnds(c) \/ ExecuteReady(c) \/ ActionEnds(c)
  \/ ToolsNext(c) \/ ToolsEnd(c) \/ LoadEnds(c) \/ HealthNext(c) \/ HealthEnds(c) \/ TeardownEnds(c)
  \/ ShutdownNext(c) \/ Cancel(c)

Next ==
  \/ SetBroker \/ Discover
  \/ \E c \in Callers :
       \/ Goes(c)
       \/ SetupAll(c) \/ HealthAll(c) \/ Shutdown(c)
       \/ \E n \in Names : Ensure(c, n) \/ Execute(c, n) \/ Unload(c, n)
       \/ \E o \in Objects : Load(c, o)
       \/ \E b \in Batches : Tools(c, b)

Spec == Init /\ [][Next]_vars

-----------------------------------------------------------------------------

Life == INSTANCE PluginLife
  WITH Plugins <- Objects,
       Handed  <- Given,
       made    <- created,
       listed  <- listed,
       begun   <- setups,
       usable  <- ready,
       calls   <- {<<obj[c], pc[c]>> : c \in {d \in Callers : Calling(d)}}

\* Whatever coroutines do to the registry at the same time, each instance
\* lives as PluginLife says: an action, health() or teardown() is called only
\* once setup() returned and list_actions() was called, and none of them once
\* teardown() returned; a discovered instance lists its actions before its
\* setup(), which is called again only if it was cancelled.
ImplementsLife == Life!LifeSpec

\* setup() is never called again, nor a second time meanwhile, on an instance
\* that the registry discovered, however many coroutines need it: _loading
\* keeps the others out, and an instance whose setup raised is dropped.  Only
\* one that was cancelled is repeated, since its instance stays pending.
SetupOnce ==
  [][\A c \in Callers :
       pc[c] # "setup" /\ pc'[c] = "setup" /\ obj'[c] \notin Given =>
         obj'[c] \notin setups]_vars

\* An action starts only on an instance that was set up and not torn down.
ActionsOnReady ==
  [][\A c \in Callers :
       pc[c] # "run" /\ pc'[c] = "run" => obj'[c] \in ready]_vars

\* A name is marked as being loaded only while some coroutine is in its
\* setup(): otherwise ensure_ready would refuse it for ever.
LoadingInProgress ==
  \A n \in loading : \E c \in Callers : Setting(c) /\ name[c] = n

\* Names that load_plugin can be called for, behind the back of discovery.
GivenNames == {NameOf[o] : o \in Given}

\* A loaded plugin has its PluginInfo, which execute() needs, unless its
\* list_actions() raised: however discovery, failed setups and unloading
\* follow one another, no coroutine deletes the info of another's instance.
LoadedHasInfo ==
  \A n \in Loaded \ GivenNames : plugins[n] \notin Unlistable => info[n] = plugins[n]

\* Only known plugins have a PluginInfo, so that list_plugins() and the tool
\* schemas built from it tell of no plugin that is gone.
InfoIsKnown == \A n \in Names \ GivenNames : info[n] # None => n \in Loaded \cup Pending

\* A discovered name is not pending and loaded at once.
OneState == Loaded \cap Pending \subseteq GivenNames

\* execute_tool_calls(), unless it is cancelled, gives back a result for each
\* call, in their order: an error for each that raised, whatever it raised and
\* whatever other coroutines did to the plugin meanwhile, and a success only
\* for an action of that plugin that ran.
ToolResults ==
  [][\A c \in Callers :
       /\ op[c] = "tools" /\ pc[c] = "next" /\ op'[c] = "none" =>
            Len(results[c]) = Len(batch[c])
       /\ Len(results'[c]) > Len(results[c]) /\ results'[c][Len(results'[c])] =>
            pc[c] = "run" /\ name[c] = batch[c][Len(results'[c])]]_vars

\* health_all() reports on everything that is loaded, whatever happens to other
\* plugins meanwhile.
HealthReports ==
  [][\A c \in Callers :
       op[c] = "health_all" /\ pc[c] = "next" /\ op'[c] = "none" =>
         Loaded \subseteq todo[c]]_vars

=============================================================================
