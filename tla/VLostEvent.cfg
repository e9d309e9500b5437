SPECIFICATION FairSpec
CONSTANTS
    Handlers = {h1}
    Checkouts = {c1}
    Admins = {}
    AdminOps = {}
    Plans = {"pro"}
    Ordered = TRUE
    MaxSessions = 1
    MaxEvents = 1
    MaxFaults = 1
INVARIANT AckedIsFinal
CHECK_DEADLOCK FALSE
