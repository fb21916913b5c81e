CONSTANTS
    Apps = {a1}
    AppOps <- Ops
    BootOps <- NoBoot
    MaxQueue = 2
    High = 2
    Low = 1
    MaxRetries = 2
    MaxBootEvents = 10
    ReconnectSerial = TRUE
    Pings = TRUE
    MayAge = FALSE
    MaxInserts = 1
    MaxJoins = 0
    MaxControl = 0
    MaxLine = 2
    MaxDue = 1
    Rcs = {"OK", "NACK"}
    Kinds = {}
    MaxBoots = 0
    MaxNotifs = 0
    MaxNacks = 1
    MaxFaults = 2
SPECIFICATION FairSpec
PROPERTIES QueueDrains
CHECK_DEADLOCK FALSE
