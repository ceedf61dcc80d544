------------------------------ MODULE PluginLife ------------------------------
(***************************************************************************)
(* The life that the registry gives a plugin instance, after the           *)
(* ServicePlugin protocol (plugins/protocol.py): its other methods are     *)
(* called while the instance is ready, after setup() returned and          *)
(* list_actions() was called, and once teardown() returned it is not       *)
(* called again, whatever calls of it are still under way.                 *)
(*                                                                         *)
(* setup() is called once on an instance that was discovered, and again    *)
(* only when it was cancelled; an instance handed to load_plugin is set up *)
(* as often as it is handed over.  The protocol has list_actions() called  *)
(* after setup(): that is so of the instances handed over, while those     *)
(* discovered list their actions when they are made.                       *)
(***************************************************************************)
CONSTANTS
  Plugins,   \* plugin instances
  Handed     \* those that are given to the registry, not discovered by it

VARIABLES
  made,      \* instances discovered or handed over
  listed,    \* instances whose list_actions() was called
  begun,     \* instances whose setup() was called, and not cancelled
  usable,    \* instances that are ready
  calls      \* method calls under way, <<instance, method>>

lifeVars == <<made, listed, begun, usable, calls>>

LifeInit ==
  /\ made = {}
  /\ listed = {}
  /\ begun = {}
  /\ usable = {}
  /\ calls = {}

\* Instances are discovered, and list their actions.
Make(P) ==
  /\ P \cap (made \cup Handed) = {}
  /\ made' = made \cup P
  /\ listed' = listed \cup P
  /\ UNCHANGED <<begun, usable, calls>>

Setup(p) ==
  /\ p \in Handed \/ p \in made \ begun
  /\ made' = made \cup {p}
  /\ begun' = begun \cup {p}
  /\ calls' = calls \cup {<<p, "setup">>}
  /\ UNCHANGED <<listed, usable>>

\* setup() returns or raises; of an instance handed over twice, another may
\* still be under way.
SetupReturns(p) ==
  /\ <<p, "setup">> \in calls
  /\ \/ calls' = calls \ {<<p, "setup">>}
     \/ p \in Handed /\ UNCHANGED calls
  /\ \/ usable' = usable \cup {p} /\ listed' = listed \cup {p}
     \/ UNCHANGED <<usable, listed>>
  /\ UNCHANGED <<made, begun>>

SetupCancelled(p) ==
  /\ <<p, "setup">> \in calls
  /\ p \notin Handed
  /\ calls' = calls \ {<<p, "setup">>}
  /\ begun' = begun \ {p}
  /\ UNCHANGED <<made, listed, usable>>

Use(p, m) ==
  /\ p \in usable \cap listed
  /\ calls' = calls \cup {<<p, m>>}
  /\ UNCHANGED <<made, listed, begun, usable>>

\* One of maybe several calls of the method returns or raises.
Returns(p, m) ==
  /\ <<p, m>> \in calls
  /\ calls' \in {calls, calls \ {<<p, m>>}}
  /\ usable' \in IF m = "teardown" THEN {usable, usable \ {p}} ELSE {usable}
  /\ UNCHANGED <<made, listed, begun>>

LifeNext ==
  \/ \E P \in SUBSET Plugins : Make(P)
  \/ \E p \in Plugins :
       \/ Setup(p) \/ SetupReturns(p) \/ SetupCancelled(p)
       \/ \E m \in {"run", "health", "teardown"} : Use(p, m) \/ Returns(p, m)

LifeSpec == LifeInit /\ [][LifeNext]_lifeVars

=============================================================================
