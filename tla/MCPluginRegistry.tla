--------------------------- MODULE MCPluginRegistry ---------------------------
(***************************************************************************)
(* Small registries for TLC.                                               *)
(***************************************************************************)
EXTENDS PluginRegistry, TLC

CONSTANTS c1, c2

TwoCallers == {c1, c2}
CallerSymmetry == Permutations(TwoCallers)

\* Plugin "p" is discovered, and again after its first instance is gone; the
\* instance of "q" that is discovered cannot list its actions, and another
\* one is given to load_plugin.
FourObjects == {"p1", "p2", "q1", "q2"}
TwoNames == {"p", "q"}
NamesOfFour == [o \in Objects |-> IF o \in {"p1", "p2"} THEN "p" ELSE "q"]
OneGiven == {"q2"}
OneUnlistable == {"q1"}

\* A call without a plugin's name, then one for each plugin.
OneBatch == {<<None, "q", "p">>}
NoBatch == {}

=============================================================================
