SPECIFICATION MemorySpec
CONSTANTS
    None = None
    Chats = {c1, c2}
    Turns = {t1, t2}
    Switchers = {w1}
    MaxSwitches = 1
    MaxText = 3
    MaxFailures = 1
SYMMETRY Symmetry
INVARIANT ShownWhereStored
INVARIANT StoredInOrder
INVARIANT StoredOnceEach
INVARIANT Reconciled
CHECK_DEADLOCK FALSE
