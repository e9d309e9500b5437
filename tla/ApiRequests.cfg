SPECIFICATION FairSpec
CONSTANTS
    Clients = {c1, c2}
    Keys = {k1}
    NoKey = NoKey
    Bodies = {b1, b2}
    NoBody = NoBody
    Tokens = {t1, t2, t3}
    NoToken = NoToken
    Limit = 2
    MaxFaults = 2
INVARIANTS DuplicatesNeedFaults ReplayIsTrue OvershootIsBounded
PROPERTIES ResponseStays ClaimsResolve
