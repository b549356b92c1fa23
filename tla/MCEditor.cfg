SPECIFICATION Spec
CHECK_DEADLOCK FALSE
CONSTANTS
    Char = {"a", "n"}
    NewLine = "n"
    ROWS = 6
    COLS = 2
    Low = 2
    High = 1
    FileRoom = 5
    Texts <- MCTexts
    MaxTyped = 3
INVARIANTS
    CursorNearText
    RoundTrip
    TypedStays
