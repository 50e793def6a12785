CONSTANTS
    UserTask = {a, b, c}
    timer_task = timer_task
    idle_task = idle_task
    WaitObject = {m, n}
    NULL = NULL
    ListHead = ListHead
    NUM_PRIORITY = 4
    MaxTimeout = 1
    WAIT_INFINITE = 99
    time_slice_ticks <- NoSlices
SPECIFICATION MutexSpec
SYMMETRY Symmetries
\* A task that starts to wait while masked ends what the model says.
CHECK_DEADLOCK FALSE
INVARIANTS
    LockersMatchQueues
    GrantedMeansLocked
    RaisedOnlyWhileHolding
    HoldersInherit
