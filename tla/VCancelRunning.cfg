SPECIFICATION FairSpec
CONSTANTS
  Tasks = {t1}
  NoTask = NoTask
  Workers = {w1}
  NoOwner = NoOwner
  MaintainerId = runtime_maintainer
  Maintainers = {m1}
  Requests = {r1}
  Ops = {"admit", "cancel"}
  Clarifying = {}
  MaxRetries = 1
  RetryCap = 2
  MaxGeneration = 0
  FaultKinds = {}
  MaxFaults = 0
  Timely = TRUE
PROPERTIES CancelRequestStops
CHECK_DEADLOCK FALSE
