SPECIFICATION FairCouplerSpec
CONSTANTS
  ApClkSource = "MNGRSET"
  Permanent = {"OTHER"}
  Versions <- MCVersions
  MaxNumReset = 1
  Failures = {"hung"}
  BootsForever = TRUE
  MaxFaults = 1
INVARIANT SettledIsJoined
PROPERTY ServiceReturns StopReturns
CHECK_DEADLOCK FALSE
