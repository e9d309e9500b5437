SPECIFICATION Spec
CONSTANTS
  Tasks = {t1}
  NoTask = NoTask
  Workers = {w1, w2}
  NoOwner = NoOwner
  MaintainerId = runtime_maintainer
  Maintainers = {m1}
  Requests = {r1}
  Ops = {"admit"}
  Clarifying = {}
  MaxRetries = 2
  RetryCap = 3
  MaxGeneration = 0
  FaultKinds = {"worker"}
  MaxFaults = 3
  Timely = TRUE
INVARIANTS QueuedHasDelivery OneActiveLease RecoveryFindsPayload DeadLetterKept
PROPERTIES StatusFollowsTable CompletedIsNotRedelivered HealthyWorkIsKept
CHECK_DEADLOCK FALSE
