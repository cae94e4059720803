CONSTANTS
  None = None
  Functions = {f1, f2}
  Tracked = {f1}
  Removable = {f2}
  Handlers = {h1, h2}
  Invocations = {i1, i2}
  AutoscalerEnabled = TRUE
SPECIFICATION FairSpec
CHECK_DEADLOCK FALSE
INVARIANTS
  TypeOK
  InFlightExact
  CallGraphAccounted
PROPERTIES
  ColdStartsResolve
