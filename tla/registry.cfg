SPECIFICATION Spec
CONSTANTS
  c1 = c1
  c2 = c2
  Callers <- TwoCallers
  Names <- TwoNames
  Objects <- FourObjects
  NameOf <- NamesOfFour
  Given <- OneGiven
  Unlistable <- OneUnlistable
  Batches <- OneBatch
  None = None
  Api = {"load", "ensure", "setup_all", "execute", "tools", "health_all", "unload", "shutdown"}
  MayRaise = {"setup", "teardown", "cancel"}
SYMMETRY CallerSymmetry
INVARIANTS TypeOK LoadingInProgress LoadedHasInfo OneState InfoIsKnown
PROPERTIES SetupOnce ActionsOnReady ToolResults ImplementsLife
CHECK_DEADLOCK FALSE
