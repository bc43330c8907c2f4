SPECIFICATION Spec
CONSTANTS
    None = None
    Captures = {c1, c2}
    Transports = {x1}
    Loops = {l1, l2}
SYMMETRY Symmetry
INVARIANT ShareShown
PROPERTY FramesWanted
CHECK_DEADLOCK FALSE
