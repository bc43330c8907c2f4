CONSTANTS
    t1 = t1
    t2 = t2
    x1 = x1
    x2 = x2
    None = None
    Tasks <- TwoTasks
    Transports <- TwoTransports
    MaxRecoveryAttempts = 1
    Inputs = {"microphone", "text"}
    Turns = {}
    Faults = {}
SPECIFICATION FairSpec
INVARIANT UiFollowsEngine
PROPERTY ResumptionSettles
CHECK_DEADLOCK FALSE
