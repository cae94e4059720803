CONSTANTS
  None = None
  f1 = f1
  f2 = f2
  Functions <- Names
  Entries <- EntryNames
  Removable <- CalleeNames
  Targets <- Predictions
  Handlers = {h1, h2}
  Margin = 1
  Budget = 1
  Scouts = {s1}
  Prewarmers = {p1, p2}
  Callers = {c1}
  Scalers = {i1}
SPECIFICATION FairSpec
INVARIANTS
  TypeOK
  AdmissionBalanced
  OnePrewarmPerTarget
  ScaleUpOwned
  RecordedOnce
PROPERTIES
  MarksReturn
