SPECIFICATION FairSpec
CONSTANTS
    Handlers = {h1, h2}
    Checkouts = {c1}
    Admins = {}
    AdminOps = {}
    Plans = {"starter", "pro"}
    Ordered = TRUE
    MaxSessions = 1
    MaxEvents = 3
    MaxFaults = 0
INVARIANT PlanFollowsSubscription
CHECK_DEADLOCK FALSE
