SPECIFICATION FairSpec
CONSTANTS
    Handlers = {h1, h2}
    Checkouts = {c1}
    Admins = {a1}
    AdminOps = {"suspend"}
    Plans = {"starter", "pro"}
    Ordered = FALSE
    MaxSessions = 2
    MaxEvents = 2
    MaxFaults = 1
INVARIANTS AnsweredIsAccounted DriftHasACause
PROPERTY EventsSettle
CHECK_DEADLOCK FALSE
