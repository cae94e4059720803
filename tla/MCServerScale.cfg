CONSTANTS
  None = None
  Functions = {f1}
  Handlers = {h1}
  IPs = {ip1, ip2}
  Deployers = {d1}
  Deleters = {x1, x2}
  Callers = {c1, c2}
  Scalers = {s1}
  replicas = 2
  AutoscalerEnabled = TRUE
  Redeploy = FALSE
  Faults = {"start", "stop", "destroy"}
SPECIFICATION FairSpec
INVARIANTS
  Pickable
  ScalingOwned
  StoppedIdle
PROPERTIES
  ScalingEnds
  DeletesEnd
