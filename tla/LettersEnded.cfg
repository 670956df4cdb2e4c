SPECIFICATION Spec
CONSTANTS
    N = 2
    Letters = {l1, l2}
    Original = Original
    Operators = {o1, o2}
    Refs <- LastRefs
    MaxFailures = 2
    MaxCrashes = 1
CHECK_DEADLOCK FALSE
PROPERTIES EndedRunStays
