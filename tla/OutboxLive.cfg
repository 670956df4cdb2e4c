SPECIFICATION FairSpec
CONSTANTS
    Rows = {r1}
    Workers = {w1, w2}
    Tokens = {t1, t2, t3, t4, t5, t6}
    None = None
    BatchLimit = 2
    MaxAttempts = 2
    MaxCrashes = 2
    MaxSlow = 2
CHECK_DEADLOCK FALSE
PROPERTIES ImplementsFairContract
