SPECIFICATION Spec
CONSTANTS
    NR_TASKS = 5
    Priority = 3
    Readings = {FALSE}
    NULL = NULL
INVARIANTS
    BootFailsWithFork
