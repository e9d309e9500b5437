SPECIFICATION FairSpec
CONSTANTS
    Handlers = {h1, h2}
    Checkouts = {c1}
    Admins = {a1}
    AdminOps = {"suspend", "reactivate", "delete"}
    Plans = {"starter", "pro"}
    Ordered = FALSE
    MaxSessions = 1
    MaxEvents = 3
    MaxFaults = 1
INVARIANTS TypeOK AppliedOnce AnsweredIsAccounted DriftHasACause
CHECK_DEADLOCK FALSE
