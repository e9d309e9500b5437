SPECIFICATION FairSpec
CONSTANTS
    Handlers = {h1}
    Checkouts = {c1}
    Admins = {a1, a2}
    AdminOps = {"suspend", "reactivate", "delete"}
    Plans = {"pro"}
    Ordered = FALSE
    MaxSessions = 0
    MaxEvents = 1
    MaxFaults = 0
PROPERTY DeletedIsIrreversible
CHECK_DEADLOCK FALSE
