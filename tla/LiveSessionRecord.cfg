SPECIFICATION Spec
CONSTANTS
    MaxRows = 2
    MaxSessions = 4
    MaxUpdates = 2
    MaxLeft = 1
    Updaters = {u1}
INVARIANT OwnRecord
INVARIANT OneActiveRow
CHECK_DEADLOCK FALSE
