SPECIFICATION OneCall
CHECK_DEADLOCK FALSE
CONSTANTS
    Char = {1, 2}
    Size = 2
    RowSize = 2
    ResultRows = 3
    Nibbles = 2
    MaxFormat = 1
    Byte = {1, 255}
    MaxBytes = 2
    Headers = {h1, h2}
    NULL = NULL
INVARIANT
    MapHasSignature
