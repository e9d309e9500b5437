SPECIFICATION FairSpec
CONSTANTS
    Handlers = {h1}
    Checkouts = {c1, c2}
    Admins = {}
    AdminOps = {}
    Plans = {"pro"}
    Ordered = TRUE
    MaxSessions = 2
    MaxEvents = 2
    MaxFaults = 0
INVARIANT PlanFollowsSubscription
CHECK_DEADLOCK FALSE
