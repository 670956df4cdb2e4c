SPECIFICATION Spec
CONSTANTS
    Rows = {r1, r2}
    Workers = {w1, w2}
    Tokens = {t1, t2, t3, t4, t5, t6}
    None = None
    BatchLimit = 2
    MaxAttempts = 2
    MaxCrashes = 1
    MaxSlow = 2
SYMMETRY Symmetry
CHECK_DEADLOCK FALSE
PROPERTIES StaleClaimNeverSends
