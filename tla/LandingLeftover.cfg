CONSTANTS
  Packages = {a}
  PackageStatus = {"PENDING", "RUNNING"}
  MaxTransitions = 1
  MaxMain = 2
  MaxForeign = 0
  MaxFaults = 1

SPECIFICATION LandingSpec
INVARIANTS MergedIsOnMain
CHECK_DEADLOCK FALSE
