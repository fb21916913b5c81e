CONSTANTS
    Apps = {a1}
    AppOps <- NoOps
    BootOps <- NoBoot
    MaxQueue = 2
    High = 4
    Low = 1
    MaxRetries = 1
    MaxBootEvents = 1
    ReconnectSerial = TRUE
    MaxInserts = 0
    Pings = FALSE
    MayAge = FALSE
    MaxJoins = 2
    MaxControl = 1
    MaxLine = 1
    MaxDue = 1
    Rcs = {"OK"}
    Kinds = {"RECEIVE"}
    MaxBoots = 2
    MaxNotifs = 0
    MaxNacks = 0
    MaxFaults = 0
SPECIFICATION SysSpec
INVARIANTS JoinStarted InOrderAtMostOnce
CHECK_DEADLOCK FALSE
