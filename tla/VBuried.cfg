SPECIFICATION Spec
CONSTANTS
  Tasks = {t1}
  NoTask = NoTask
  Workers = {w1, w2}
  NoOwner = NoOwner
  MaintainerId = runtime_maintainer
  Maintainers = {m1}
  Requests = {r1}
  Ops = {"admit"}
  Clarifying = {}
  MaxRetries = 1
  RetryCap = 2
  MaxGeneration = 0
  FaultKinds = {"worker", "maintainer"}
  MaxFaults = 3
  Timely = TRUE
INVARIANTS DeadLetterKept
CHECK_DEADLOCK FALSE
