CONSTANTS
  Packages = {a, b}
  PackageStatus = {"PENDING", "RUNNING"}
  MaxTransitions = 1
  MaxMain = 3
  MaxForeign = 1
  MaxFaults = 0

SPECIFICATION LandingFairSpec
PROPERTIES EveryLandingEnds
CHECK_DEADLOCK FALSE
