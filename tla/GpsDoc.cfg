CONSTANTS
    ApClkSource = "PPS"
    Reports = {"PPS", "INTERNAL"}
    IntSync = {FALSE}
    GpsdConn = TRUE
    MaxTimeToStable = 2
    Day = 5
    AP_BLACKOUT = 3
    AP_BLACKOUT_DURATION = 3
    LEAP_CHECK_TIME = 2
    LeapDay = 1
    StartTimes = {0}
    MaxTime = 1
    MaxBoots = 2
SPECIFICATION FairTimeSpec
CHECK_DEADLOCK FALSE
INVARIANT StartedReads
