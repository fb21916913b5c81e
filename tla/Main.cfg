CONSTANTS
    Asked = {"GPS", "AUTO", "BAD"}
    Confs = {"none", "GPS", "BAD"}
    Cli = "none"
    ClientIdArg = TRUE
    MaxSets = 2
    MaxLogs = 2
    MaxSignals = 1
    MaxCrashes = 1
    MaxStarts = 2
SPECIFICATION FairMainSpec
CHECK_DEADLOCK FALSE
INVARIANTS AcceptedSurvives LogAccounted
PROPERTY StopEnds
