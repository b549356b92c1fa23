SPECIFICATION Spec
CHECK_DEADLOCK FALSE
CONSTANTS
    Name = {"d", "d.x"}
    Dotted = {"d.x"}
    Longer <- MCLonger
    Garbled = "?"
    ListSize = 2
    FolderSize = 2
    FileSize = 1
    InfoRoom = 5
    DataRoom = 2
    MaxDepth = 2
INVARIANTS
    StorageApart
    NoneLost
    EditsContents
