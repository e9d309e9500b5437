SPECIFICATION FairSpec
CONSTANTS
    Meters = {d1, d2}
    Maintainers = {m1, m2}
    Nobody = Nobody
    MaxAttempts = 1
    MaxFaults = 1
INVARIANTS NeverBilledTwice DeliveredIsBilled
PROPERTY UsageIsSettled
CHECK_DEADLOCK FALSE
