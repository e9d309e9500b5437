SPECIFICATION FairSpec
CONSTANTS
  Tasks = {t1, t2}
  NoTask = NoTask
  Workers = {w1}
  NoOwner = NoOwner
  MaintainerId = runtime_maintainer
  Maintainers = {m1}
  Requests = {r1}
  Ops = {"admit"}
  Clarifying = {t2}
  MaxRetries = 1
  RetryCap = 2
  MaxGeneration = 0
  FaultKinds = {"worker"}
  MaxFaults = 1
  Timely = TRUE
PROPERTIES AdmittedSettles
CHECK_DEADLOCK FALSE
