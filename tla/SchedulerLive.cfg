CONSTANTS
    UserTask = {a, b}
    timer_task = timer_task
    idle_task = idle_task
    WaitObject = {}
    NULL = NULL
    ListHead = ListHead
    NUM_PRIORITY = 4
    MaxTimeout = 1
    WAIT_INFINITE = 99
    time_slice_ticks <- SomeSlices
SPECIFICATION FairSpec
PROPERTIES
    SleepersWake
    EqualsShareTheCpu
    ImplementsPriorityScheduler
