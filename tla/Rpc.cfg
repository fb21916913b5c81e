CONSTANTS
    Services = {"apc"}
    Requests = {r1, r2}
    Commands <- MCCommands
    HEARTBEAT_LIVENESS = 1
    MaxFaults = 1
SPECIFICATION FairRpcSpec
CHECK_DEADLOCK FALSE
INVARIANT WaitingOnce
INVARIANT AnswerIsOwn
PROPERTY RequestAnswered
PROPERTY WorkerComesBack
PROPERTY StopReturns
