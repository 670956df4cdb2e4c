SPECIFICATION SupplySpec
CONSTANTS
    Collectors = {x, y}
    Resolvers = {g1}
    GapIds = {1}
    MaxSlot = 3
    MaxToken = 3
    Controllers = {d1, d2}
    ControlToken <- DeposedAndCurrent
    Positions = {1, 2, 3}
    GapLists <- TwoLists
    JobLimits = {3}
    MaximumRange = 2
    MaxAudits = 2
    Callers = {x, y}
    VerificationKinds <- ThreeKinds
    GateKinds = {"ENDPOINT", "SCHEMA"}
    Attempts <- PairsAndFailure
    GivenWindows <- LaterWindow
    VerificationTtl = 1
    MaxNow = 1
    MaxEvents = 3
    MaxRecords = 5
    Sessions = {x, y}
    ActivationEvents = {x, y}
    NoActivation = NoActivation
    ActivationKinds = {"OPPORTUNITY"}
    Targets = {"AVAILABLE", "PROVEN", "ACTIVE"}
    RequiresProven = TRUE
    Histories <- SomeHistories
    EvidenceTtl = 1
    MaxInstant = 1
    MaxRows = 7
    MaxBatches = 2
    MaxContainments = 1
SYMMETRY Symmetry
CHECK_DEADLOCK FALSE
PROPERTIES TerminalStays
