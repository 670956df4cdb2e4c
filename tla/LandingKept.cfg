SPECIFICATION ReleaseSpec
CONSTANTS
    Alerts = {1, 2}
    Sweepers = {x, y}
    Requests <- AllRequests
    Recorded = {"CONFIRMED_OPPORTUNITY", "THESIS_WEAKENING"}
    Views <- SomeViews
    Ttl = 2
    ExpiringWindow = 1
    Cooldown <- PolicyCooldowns
    Budget = 1
    SweepLimit = 1
    MaxClock = 2
    MaxUpdates = 2
    Packages = {x, y}
    PackageStatus = {"PENDING", "RUNNING"}
    MaxTransitions = 2
    MaxMain = 3
    MaxForeign = 0
    MaxFaults = 1
SYMMETRY Symmetry
CHECK_DEADLOCK FALSE
PROPERTIES OtherPackagesKept
