CONSTANTS
    UserTask = {a, b}
    timer_task = timer_task
    idle_task = idle_task
    WaitObject = {s}
    NULL = NULL
    ListHead = ListHead
    NUM_PRIORITY = 4
    MaxTimeout = 2
    WAIT_INFINITE = 99
    time_slice_ticks <- NoSlices
    MaxUnits = 2
SPECIFICATION SemSpec
SYMMETRY UserSymmetry
INVARIANTS
    WaitListsMatchStates
PROPERTY
    ImplementsCountingSemaphore
