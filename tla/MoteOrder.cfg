CONSTANTS
    Apps = {a1}
    AppOps <- Ops
    BootOps <- Boot
    MaxQueue = 2
    High = 4
    Low = 1
    MaxRetries = 1
    MaxBootEvents = 10
    ReconnectSerial = FALSE
    MaxInserts = 2
    Pings = FALSE
    MayAge = TRUE
    MaxJoins = 0
    MaxControl = 0
    MaxLine = 2
    MaxDue = 2
    Rcs = {"OK", "NACK", "ERR"}
    Kinds = {"RECEIVE", "EVENT"}
    MaxBoots = 0
    MaxNotifs = 1
    MaxNacks = 1
    MaxFaults = 2
SPECIFICATION SysSpec
INVARIANTS TransportTypeOK InOrderAtMostOnce AnsweredWasHandled QueueIsServed NotifiedOnce PendingHasTimer
CHECK_DEADLOCK FALSE
