CONSTANTS
    t1 = t1
    t2 = t2
    x1 = x1
    x2 = x2
    None = None
    Tasks <- TwoTasks
    Transports <- TwoTransports
    MaxRecoveryAttempts = 1
    Inputs = {"microphone", "text"}
    Turns <- AllTurns
    Faults = {"audio", "capture"}
SPECIFICATION Spec
INVARIANT OneListener
INVARIANT NoStaleTimer
PROPERTY AttachedByCurrent
PROPERTY BudgetPerSession
SYMMETRY Interchangeable
CHECK_DEADLOCK FALSE
