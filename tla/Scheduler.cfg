CONSTANTS
    UserTask = {a, b, c}
    timer_task = timer_task
    idle_task = idle_task
    WaitObject = {}
    NULL = NULL
    ListHead = ListHead
    NUM_PRIORITY = 4
    MaxTimeout = 2
    WAIT_INFINITE = 99
    time_slice_ticks <- NoSlices
SPECIFICATION TimingSpec
SYMMETRY UserSymmetry
INVARIANTS
    TypeOK
    ReadyListsMatchStates
    TimersMatchStates
    NextIsFirstReady
    WaitingTaskOnlySwitches
PROPERTIES
    NeverWakesEarly
    EveryTimeoutCountedOnce
