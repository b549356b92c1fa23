SPECIFICATION Spec
CONSTANTS
    NR_TASKS = 5
    Priority = 3
    Readings = {TRUE, FALSE}
    NULL = NULL
INVARIANTS
    ChoosesBest
    ScheduleEnds
    NoLeak
    Task0HasSlice
    FullSlices
