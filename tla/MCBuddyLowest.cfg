SPECIFICATION Spec
SYMMETRY Symmetry
CHECK_DEADLOCK FALSE
CONSTANTS
    MAX_ORDER = 5
    Width = 8
    NodeRoom = 10
    Handle = {h1, h2}
    Sizes = {0, 1, 3, 6, 9, 18, 33, 65}
    NoBlock = NoBlock
INVARIANT OnlyLowestGranted
