SPECIFICATION ToolSpec
CONSTANTS
    Runs = {r1, r2}
    Protected = {r1}
    Limit <- OneEach
    ActualUnits = {1}
    MaxRetries = 1
    MaxFaults = 1
CHECK_DEADLOCK FALSE
INVARIANT ReserveForItsWorkloads
