SPECIFICATION Spec
CONSTANTS
    Clients = {c1, c2}
    Keys = {k1}
    NoKey = NoKey
    Bodies = {b1}
    NoBody = NoBody
    Tokens = {t1, t2, t3}
    NoToken = NoToken
    Limit = 1
    MaxFaults = 0
INVARIANT UsageWithinLimit
