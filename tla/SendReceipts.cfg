SPECIFICATION FairSpec
CONSTANTS
    Workers = {w1, w2}
    SmtpKeys = {s1}
    WriteKeys = {o1}
    Tokens = {t1, t2, t3, t4, t5}
    NoToken = NoToken
    NoKey = NoKey
    MaxFaults = 2
INVARIANTS AtMostOneEffect RecordedMeansDone
PROPERTIES VerdictStays ClaimsRecover
