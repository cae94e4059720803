CONSTANTS
  None = None
  Functions = {f1}
  Handlers = {h1, h2}
  IPs = {ip1, ip2}
  Deployers = {d1}
  Deleters = {}
  Callers = {c1}
  Scalers = {}
  replicas = 1
  AutoscalerEnabled = TRUE
  Redeploy = TRUE
  Faults = {}
SYMMETRY Interchangeable
SPECIFICATION Spec
INVARIANT RouteServed
CHECK_DEADLOCK FALSE
