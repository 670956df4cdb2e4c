SPECIFICATION Spec
CONSTANTS
    Workers = {w1, w2}
    Keys = {k1}
    LeaseKeys = {l1, l2}
    LeaseOf <- OneLease
    Hashes = {h1}
    NoHash = NoHash
    Outputs = {o1}
    Absent = Absent
    NoWorker = NoWorker
    Ttl = 1
    Skew <- NoSkew
    AllowBare = FALSE
    AllowForeign = TRUE
    MaxTime = 2
    MaxToken = 3
    MaxAttempt = 3
CHECK_DEADLOCK FALSE
PROPERTIES LiveLeaseExclusive
