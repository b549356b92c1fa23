SPECIFICATION FairSpec
CONSTANTS
    Device = {"keyboard"}
    MaxDepth = 3
INVARIANTS
    Resumes
    OnlyLowestWordLost
PROPERTIES
    TimerServed
