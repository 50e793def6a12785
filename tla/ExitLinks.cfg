CONSTANTS
    UserTask = {a, b, c}
    timer_task = timer_task
    idle_task = idle_task
    NULL = NULL
    ListHead = ListHead
    NUM_PRIORITY = 4
    MaxTimeout = 1
    WAIT_INFINITE = 99
    time_slice_ticks <- NoSlices
SPECIFICATION WholeSpec
SYMMETRY UserSymmetry
\* A list head may be dispatched as a task, and the model says no more.
CHECK_DEADLOCK FALSE
 
PROPERTIES
    ImplementsTaskExit
    
