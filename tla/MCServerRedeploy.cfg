CONSTANTS
  None = None
  Functions = {f1}
  Handlers = {h1, h2}
  IPs = {ip1, ip2}
  Deployers = {d1}
  Deleters = {x1}
  Callers = {c1, c2}
  Scalers = {s1}
  replicas = 1
  AutoscalerEnabled = TRUE
  Redeploy = TRUE
  Faults = {"start", "stop"}
SYMMETRY Interchangeable
SPECIFICATION Spec
INVARIANTS
  TypeOK
  InFlightNotLeaked
  NoOrphans
  ListedRestartable
