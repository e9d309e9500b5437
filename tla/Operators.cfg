SPECIFICATION Spec
CONSTANTS
  Tasks = {t1}
  NoTask = NoTask
  Workers = {w1, w2}
  NoOwner = NoOwner
  MaintainerId = runtime_maintainer
  Maintainers = {m1}
  Requests = {r1}
  Ops = {"admit", "review", "approve", "retry", "cancel"}
  Clarifying = {}
  MaxRetries = 1
  RetryCap = 2
  MaxGeneration = 1
  FaultKinds = {}
  MaxFaults = 0
  Timely = TRUE
SYMMETRY Symmetry
INVARIANTS NoDoubleExecution HeldIsRecoverable
CHECK_DEADLOCK FALSE
