CONSTANTS
    UserTask = {a, b}
    timer_task = timer_task
    idle_task = idle_task
    WaitObject = {s}
    NULL = NULL
    ListHead = ListHead
    NUM_PRIORITY = 3
    MaxTimeout = 1
    WAIT_INFINITE = 99
    time_slice_ticks <- NoSlices
    MaxUnits = 1
SPECIFICATION SemFairSpec
PROPERTY
    TimedAcquireIsAnswered
