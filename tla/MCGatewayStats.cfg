SPECIFICATION Spec
CONSTANTS
  Functions = {f}
  Invokers = {i1, i2}
  Deleters = {d1}
  Readers = {r1}
  Statuses = {200, 500}
  MaxRequests = 5
  None = None
SYMMETRY Interchangeable
CHECK_DEADLOCK FALSE
INVARIANTS SummaryAgrees CompletionsCounted ReplyConsistent
