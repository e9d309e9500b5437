SPECIFICATION FairSpec
CONSTANTS
    Handlers = {h1}
    Checkouts = {c1}
    Admins = {}
    AdminOps = {}
    Plans = {"starter", "pro"}
    Ordered = FALSE
    MaxSessions = 1
    MaxEvents = 3
    MaxFaults = 0
INVARIANT PlanFollowsSubscription
CHECK_DEADLOCK FALSE
