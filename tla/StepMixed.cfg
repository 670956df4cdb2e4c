SPECIFICATION Spec
CONSTANTS
    Workers = {w1, w2}
    Keys = {k1}
    LeaseKeys = {l1}
    LeaseOf <- OneLease
    Hashes = {h1}
    NoHash = NoHash
    Outputs = {o1, o2}
    Absent = Absent
    NoWorker = NoWorker
    Ttl = 1
    Skew <- NoSkew
    AllowBare = TRUE
    AllowForeign = FALSE
    MaxTime = 2
    MaxToken = 2
    MaxAttempt = 3
SYMMETRY Symmetry
CHECK_DEADLOCK FALSE
INVARIANTS OneAnswerPerKey
PROPERTIES TerminalRowsFrozen LiveLeaseExclusive
