CONSTANTS
  None = None
  Main = main
  Functions = {f1}
  Handlers = {h1, h2}
  IPs = {ip1}
  Deployers = {d1}
  Deleters = {main}
  Callers = {a1}
  Async = {a1}
  Scalers = {s1}
  replicas = 1
  AutoscalerEnabled = TRUE
  Redeploy = TRUE
  Faults = {"start", "stop"}
SPECIFICATION FairShutdown
CHECK_DEADLOCK FALSE
INVARIANTS
  ExitCleansUp
PROPERTIES
  ShutdownEnds
