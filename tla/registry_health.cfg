SPECIFICATION Spec
CONSTANTS
  c1 = c1
  c2 = c2
  Callers <- TwoCallers
  Names <- TwoNames
  Objects <- FourObjects
  NameOf <- NamesOfFour
  Given <- OneGiven
  Unlistable <- OneUnlistable
  Batches <- NoBatch
  None = None
  Api = {"health_all", "ensure"}
  MayRaise = {}
SYMMETRY CallerSymmetry
PROPERTIES HealthReports
CHECK_DEADLOCK FALSE
