CONSTANTS
  None = None
  Functions = {f1, f2}
  Handlers = {h1, h2}
  IPs = {ip1, ip2}
  Deployers = {d1}
  Deleters = {x1}
  Callers = {c1}
  Scalers = {s1}
  replicas = 1
  AutoscalerEnabled = TRUE
  Redeploy = FALSE
  Faults = {"start"}
SYMMETRY Interchangeable
SPECIFICATION Spec
INVARIANTS
  RouteServed
  ReverseOwned
PROPERTY
  ServesFunctions
