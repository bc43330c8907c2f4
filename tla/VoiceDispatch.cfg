SPECIFICATION Spec
CONSTANTS
    Transports = {x1, x2}
    None = None
    Loops = {l1, l2, l3}
    Lanes = {0, 1, 2}
    MaxLane = 2
    MaxChunks = 4
    AudioMaxOutstanding = 2
    MaxConsecutiveFailures = 2
SYMMETRY Symmetry
INVARIANT LaneAccounted
INVARIANT NothingStranded
PROPERTY SentInOrder
CHECK_DEADLOCK FALSE
