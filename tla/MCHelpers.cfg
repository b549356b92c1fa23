SPECIFICATION OneCall
CHECK_DEADLOCK FALSE
CONSTANTS
    Char = {1, 2}
    Size = 5
    RowSize = 2
    ResultRows = 3
    Nibbles = 2
    MaxFormat = 5
    Byte = {1, 255}
    MaxBytes = 2
    Headers = {h1, h2}
    NULL = NULL
INVARIANTS
    SplitKeepsText
    PrintsRight
    ScanAnswers
PROPERTIES
    StringsExact
