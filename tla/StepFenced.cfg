SPECIFICATION Spec
CONSTANTS
    Workers = {w1, w2}
    Keys = {k1}
    LeaseKeys = {l1}
    LeaseOf <- OneLease
    Hashes = {h1, h2}
    NoHash = NoHash
    Outputs = {o1, o2}
    Absent = Absent
    NoWorker = NoWorker
    Ttl = 1
    Skew <- OneAhead
    AllowBare = FALSE
    AllowForeign = FALSE
    MaxTime = 2
    MaxToken = 3
    MaxAttempt = 3
CHECK_DEADLOCK FALSE
INVARIANTS TypeOK FencedCommitIsLatestAttempt
PROPERTIES InputHashBound
