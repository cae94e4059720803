CONSTANTS
  None = None
  Functions = {f1, f2}
  Handlers = {h1, h2}
  Readers = {r1}
  Deleters = {x1}
  Deployers = {d1}
  Scalers = {s1}
  Removable = {f2}
SPECIFICATION FairSpec
INVARIANTS
  NoWaitCycle
  ReadersSeeDeployed
PROPERTIES
  RequestsAnswered
