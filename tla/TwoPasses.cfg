SPECIFICATION Spec
CONSTANTS
  Tasks = {t1}
  NoTask = NoTask
  Workers = {w1, w2}
  NoOwner = NoOwner
  MaintainerId = runtime_maintainer
  Maintainers = {m1, m2}
  Requests = {r1}
  Ops = {"admit"}
  Clarifying = {}
  MaxRetries = 1
  RetryCap = 1
  MaxGeneration = 0
  FaultKinds = {"worker"}
  MaxFaults = 1
  Timely = TRUE
SYMMETRY Symmetry
INVARIANTS NoDoubleExecution HeldIsRecoverable
CHECK_DEADLOCK FALSE
