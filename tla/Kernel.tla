------------------------------- MODULE Kernel -------------------------------
(***************************************************************************)
(* The scheduler's data and the C functions that change it (task.c and     *)
(* kernel.c), as operators from one kernel state `k` to the next.  Every   *)
(* function here runs with interrupts masked, so the modules that compose  *)
(* them (Scheduler, TaskExit, ...) decide which calls form one step.       *)
(*                                                                         *)
(* Left out of the TASK structure: the stack, the event and data-queue     *)
(* fields nothing uses, and activate_count, wakeup_count, suspend_count,   *)
(* which are set to 0 and never incremented, so that the branches they     *)
(* guard are dead.                                                         *)
(***************************************************************************)
EXTENDS Integers, FiniteSets, FiniteSetsExt, Lists

CONSTANTS
    UserTask,           \* the TCBs an application owns
    timer_task,         \* the system task of priority 0
    idle_task,          \* the system task of the lowest priority
    WaitObject,         \* objects with a wait_queue (semaphores, mutexes)
    NULL,               \* the null pointer
    ListHead,           \* a list head misread as a TASK (see find_next_task_to_run)
    NUM_PRIORITY,       \* 32 in constants.h
    MaxTimeout,         \* bound: the longest finite timeout a task asks for
    WAIT_INFINITE,      \* 0xFFFFFFFF in constants.h: no timeout
    time_slice_ticks    \* round-robin slice of each priority; 0 is NO_TIME_SLICE

SystemTask == {timer_task, idle_task}
Task == UserTask \cup SystemTask
Priority == 0 .. NUM_PRIORITY - 1
Timeout == 1 .. MaxTimeout

ASSUME TasksAssumption ==
    /\ timer_task # idle_task
    /\ timer_task \notin UserTask
    /\ idle_task \notin UserTask
    /\ NULL \notin Task \cup WaitObject
    /\ ListHead \notin Task

ASSUME SizesAssumption ==
    /\ NUM_PRIORITY \in Nat
    /\ NUM_PRIORITY >= 2
    /\ MaxTimeout \in Nat
    /\ WAIT_INFINITE \notin 0 .. MaxTimeout
    /\ time_slice_ticks \in [Priority -> Nat]

NO_TIME_SLICE == 0

(* task_state; "NONE" is a TCB that create_task has not filled in yet.     *)
TaskState == {"NONE", "DORMANT", "RUNNABLE", "WAIT"}

(* task_wait_reason; "NONE" is the 0 of a task that waits for nothing.     *)
WaitReason == {"NONE", "SLEEP", "SEM", "MUTEX_I", "MUTEX_C"}

(* What a finished wait returns to the task.                               *)
ReturnCode == {"ERR_NO_ERROR", "ERR_TIMEOUT", "ERR_DELETED"}

(* The options of create_task.                                             *)
CreateOption == {"TASK_START_ON_CREATION", "TASK_TIMER", "TASK_IDLE"}

KernelState ==
    [ runnable_tasks_list          : [Priority -> Seq(Task)],
      priority_ready_to_run_bitmap : SUBSET Priority,
      waiting_timeout_tasks_list   : Seq(Task),
      wait_list                    : [WaitObject -> Seq(Task)],
      all_tasks_queue              : SUBSET Task,
      num_tasks                    : Int,
      current_running_task         : Task \cup {NULL, ListHead},
      next_task_to_run             : Task \cup {NULL, ListHead},
      task_state                   : [Task -> TaskState],
      priority                     : [Task -> Priority],
      base_priority                : [Task -> Priority],
      task_wait_reason             : [Task -> WaitReason],
      wait_queue                   : [Task -> WaitObject \cup {NULL}],
      task_wait_return_code        : [Task -> ReturnCode],
      tick_count                   : [Task -> 0 .. MaxTimeout \cup {WAIT_INFINITE}],
      time_slice_count             : [Task -> Nat] ]

-----------------------------------------------------------------------------
(* queue_remove_element(&task->task_queue): the one link a task has in the *)
(* ready lists and the wait lists.                                         *)
queue_remove_element(k, t) ==
    [k EXCEPT
        !.runnable_tasks_list = [p \in Priority |-> Without(@[p], t)],
        !.wait_list           = [o \in WaitObject |-> Without(@[o], t)]]

(* The scan for the lowest set bit falls back on index 0, and the entry    *)
(* found is cast to a TASK even when the list is empty: the head of the    *)
(* list itself.                                                            *)
find_next_task_to_run(k) ==
    LET bitmap == k.priority_ready_to_run_bitmap
        list   == k.runnable_tasks_list[IF bitmap = {} THEN 0 ELSE Min(bitmap)]
    IN  [k EXCEPT !.next_task_to_run =
            IF list = <<>> THEN ListHead ELSE Head(list)]

(* MUTANT: a task that becomes runnable takes the CPU from its equals.     *)
set_task_as_runnable_over_equals(k, t) ==
    LET p == k.priority[t]
    IN  [k EXCEPT
            !.task_state[t]                = "RUNNABLE",
            !.wait_queue[t]                = NULL,
            !.runnable_tasks_list[p]       = InsertLast(@, t),
            !.priority_ready_to_run_bitmap = @ \cup {p},
            !.next_task_to_run             = IF p <= k.priority[@] THEN t ELSE @]

(* Links the task at the tail of its list; it becomes the next task if it  *)
(* outranks the one chosen so far.                                         *)
set_task_as_runnable(k, t) ==
    LET p == k.priority[t]
    IN  [k EXCEPT
            !.task_state[t]                = "RUNNABLE",
            !.wait_queue[t]                = NULL,
            !.runnable_tasks_list[p]       = InsertLast(@, t),
            !.priority_ready_to_run_bitmap = @ \cup {p},
            !.next_task_to_run             = IF p < k.priority[@] THEN t ELSE @]

(* MUTANT: the bit of a list that ran empty stays set.                     *)
task_to_non_runnable_keeps_bit(k, t) ==
    LET unlinked == queue_remove_element(k, t)
        list     == unlinked.runnable_tasks_list[k.priority[t]]
    IN  IF list = <<>>
        THEN find_next_task_to_run(unlinked)
        ELSE [unlinked EXCEPT !.next_task_to_run = IF @ = t THEN Head(list) ELSE @]

(* Unlinks the task; the next task is chosen again if its list ran empty   *)
(* or if it was the next one.                                              *)
task_to_non_runnable(k, t) ==
    LET p        == k.priority[t]
        unlinked == queue_remove_element(k, t)
        list     == unlinked.runnable_tasks_list[p]
    IN  IF list = <<>>
        THEN find_next_task_to_run(
                [unlinked EXCEPT !.priority_ready_to_run_bitmap = @ \ {p}])
        ELSE [unlinked EXCEPT !.next_task_to_run = IF @ = t THEN Head(list) ELSE @]

(* MUTANT: one tick more, for the one that is under way.                   *)
task_curr_to_wait_action_extra_tick(k, que, reason, timeout) ==
    LET t       == k.current_running_task
        stopped == task_to_non_runnable(k, t)
    IN  [stopped EXCEPT
            !.task_state[t]       = "WAIT",
            !.task_wait_reason[t] = reason,
            !.tick_count[t]       = timeout + 1,
            !.wait_queue[t]       = IF que = NULL THEN @ ELSE que,
            !.wait_list = [o \in WaitObject |->
                IF o = que THEN InsertLast(@[o], t) ELSE @[o]],
            !.waiting_timeout_tasks_list =
                IF timeout = WAIT_INFINITE THEN @ ELSE InsertLast(@, t)]

(* MUTANT: the timeout of a wait for an object is not counted.             *)
task_curr_to_wait_action_no_timeout(k, que, reason, timeout) ==
    LET t       == k.current_running_task
        stopped == task_to_non_runnable(k, t)
    IN  [stopped EXCEPT
            !.task_state[t]       = "WAIT",
            !.task_wait_reason[t] = reason,
            !.tick_count[t]       = timeout,
            !.wait_queue[t]       = IF que = NULL THEN @ ELSE que,
            !.wait_list = [o \in WaitObject |->
                IF o = que THEN InsertLast(@[o], t) ELSE @[o]],
            !.waiting_timeout_tasks_list =
                IF timeout = WAIT_INFINITE \/ que # NULL THEN @ ELSE InsertLast(@, t)]

(* The running task starts to wait: for object `que` (NULL: for none), and *)
(* for at most `timeout` ticks.                                            *)
task_curr_to_wait_action(k, que, reason, timeout) ==
    LET t       == k.current_running_task
        stopped == task_to_non_runnable(k, t)
    IN  [stopped EXCEPT
            !.task_state[t]       = "WAIT",
            !.task_wait_reason[t] = reason,
            !.tick_count[t]       = timeout,
            !.wait_queue[t]       = IF que = NULL THEN @ ELSE que,
            !.wait_list = [o \in WaitObject |->
                IF o = que THEN InsertLast(@[o], t) ELSE @[o]],
            !.waiting_timeout_tasks_list =
                IF timeout = WAIT_INFINITE THEN @ ELSE InsertLast(@, t)]

(* MUTANT: the task stays in the list of timeouts.                         *)
task_wait_complete_keeps_timer(k, t) ==
    LET woken == set_task_as_runnable(
                    [k EXCEPT
                        !.tick_count[t]            = WAIT_INFINITE,
                        !.task_wait_return_code[t] = "ERR_NO_ERROR"], t)
    IN  [woken EXCEPT !.task_wait_reason[t] = "NONE"]

(* A wait is over, except for a wait on a mutex, whose holder's priority   *)
(* must be looked at as well.                                              *)
task_wait_complete(k, t) ==
    LET woken == set_task_as_runnable(
                    [k EXCEPT
                        !.waiting_timeout_tasks_list =
                            IF k.tick_count[t] = WAIT_INFINITE THEN @ ELSE Without(@, t),
                        !.tick_count[t]              = WAIT_INFINITE,
                        !.task_wait_return_code[t]   = "ERR_NO_ERROR"], t)
    IN  [woken EXCEPT !.task_wait_reason[t] = "NONE"]

(* The fields of a task that does not run.                                 *)
task_set_dormant_state(k, t) ==
    [k EXCEPT
        !.task_state[t]            = "DORMANT",
        !.priority[t]              = k.base_priority[t],
        !.wait_queue[t]            = NULL,
        !.task_wait_reason[t]      = "NONE",
        !.task_wait_return_code[t] = "ERR_NO_ERROR",
        !.tick_count[t]            = WAIT_INFINITE,
        !.time_slice_count[t]      = 0]

(* The parameter check of create_task: priority 0 is the timer task's and  *)
(* the lowest one the idle task's.                                         *)
create_task_accepts(p, option) ==
    /\ p = 0 => "TASK_TIMER" \in option
    /\ p = NUM_PRIORITY - 1 => "TASK_IDLE" \in option

create_task(k, t, p, option) ==
    LET created == [task_set_dormant_state([k EXCEPT !.base_priority[t] = p], t)
                       EXCEPT !.all_tasks_queue = @ \cup {t},
                              !.num_tasks       = @ + 1]
    IN  IF "TASK_START_ON_CREATION" \in option
        THEN set_task_as_runnable(created, t)
        ELSE created

-----------------------------------------------------------------------------
(* MUTANT: a slice that ends is only started again.                        *)
round_robin_never_turns(k) ==
    LET t     == k.current_running_task
        p     == k.priority[t]
        ticks == k.time_slice_count[t] + 1
    IN  IF time_slice_ticks[p] = NO_TIME_SLICE
        THEN k
        ELSE [k EXCEPT !.time_slice_count[t] =
                 IF ticks <= time_slice_ticks[p] THEN ticks ELSE 0]

(* tick_int_processing, first half: when the running task has used up its  *)
(* slice, the first task of its priority's list goes to the tail.          *)
round_robin(k) ==
    LET t     == k.current_running_task
        p     == k.priority[t]
        ticks == k.time_slice_count[t] + 1
    IN  IF time_slice_ticks[p] = NO_TIME_SLICE
        THEN k
        ELSE IF ticks <= time_slice_ticks[p]
        THEN [k EXCEPT !.time_slice_count[t] = ticks]
        ELSE [k EXCEPT
                !.time_slice_count[t]    = 0,
                !.runnable_tasks_list[p] = IF Len(@) > 1 THEN HeadToTail(@) ELSE @]

(* MUTANT: the timer task is linked but still said to wait.                *)
wake_timer_task_keeps_state(k) ==
    [queue_remove_element(k, timer_task) EXCEPT
        !.task_wait_reason[timer_task]      = "NONE",
        !.wait_queue[timer_task]            = NULL,
        !.task_wait_return_code[timer_task] = "ERR_NO_ERROR",
        !.runnable_tasks_list[0]            = InsertLast(@, timer_task),
        !.priority_ready_to_run_bitmap      = @ \cup {0},
        !.next_task_to_run                  = timer_task]

(* tick_int_processing, second half: the timer task becomes runnable       *)
(* whatever it was doing, and runs next.                                   *)
wake_timer_task(k) ==
    [queue_remove_element(k, timer_task) EXCEPT
        !.task_wait_reason[timer_task]      = "NONE",
        !.task_state[timer_task]            = "RUNNABLE",
        !.wait_queue[timer_task]            = NULL,
        !.task_wait_return_code[timer_task] = "ERR_NO_ERROR",
        !.runnable_tasks_list[0]            = InsertLast(@, timer_task),
        !.priority_ready_to_run_bitmap      = @ \cup {0},
        !.next_task_to_run                  = timer_task]

tick_int_processing(k) == wake_timer_task(round_robin(k))

(* MUTANT: a tick_count that reaches 0 is looked at on the next tick.      *)
timer_visit_tests_first(k, t) ==
    IF k.tick_count[t] = WAIT_INFINITE \/ k.tick_count[t] = 0
    THEN k
    ELSE [k EXCEPT !.tick_count[t] = @ - 1]

(* MUTANT: the wait ends with one tick to go.                              *)
timer_visit_too_early(k, t) ==
    LET ticked == [k EXCEPT !.tick_count[t] = @ - 1]
    IN  IF k.tick_count[t] = WAIT_INFINITE \/ k.tick_count[t] = 0
        THEN k
        ELSE IF k.tick_count[t] > 2
        THEN ticked
        ELSE [task_wait_complete(queue_remove_element(ticked, t), t)
                 EXCEPT !.task_wait_return_code[t] = "ERR_TIMEOUT"]

(* One turn of the timer task's scan: one tick less for task t, and the    *)
(* end of its wait at zero.                                                *)
timer_visit(k, t) ==
    LET ticked == [k EXCEPT !.tick_count[t] = @ - 1]
    IN  IF k.tick_count[t] = WAIT_INFINITE \/ k.tick_count[t] = 0
        THEN k
        ELSE IF k.tick_count[t] > 1
        THEN ticked
        ELSE [task_wait_complete(queue_remove_element(ticked, t), t)
                 EXCEPT !.task_wait_return_code[t] = "ERR_TIMEOUT"]

-----------------------------------------------------------------------------
(* The static data at reset: kernel_main empties every list.               *)
reset_state ==
    [ runnable_tasks_list          |-> [p \in Priority |-> <<>>],
      priority_ready_to_run_bitmap |-> {},
      waiting_timeout_tasks_list   |-> <<>>,
      wait_list                    |-> [o \in WaitObject |-> <<>>],
      all_tasks_queue              |-> {},
      num_tasks                    |-> 0,
      current_running_task         |-> NULL,
      next_task_to_run             |-> NULL,
      task_state                   |-> [t \in Task |-> "NONE"],
      priority                     |-> [t \in Task |-> 0],
      base_priority                |-> [t \in Task |-> 0],
      task_wait_reason             |-> [t \in Task |-> "NONE"],
      wait_queue                   |-> [t \in Task |-> NULL],
      task_wait_return_code        |-> [t \in Task |-> "ERR_NO_ERROR"],
      tick_count                   |-> [t \in Task |-> 0],
      time_slice_count             |-> [t \in Task |-> 0] ]

(* kernel_main up to launch_os: both system tasks are created, then made   *)
(* runnable while the idle task stands in as the next task.                *)
kernel_main ==
    LET timer == create_task(reset_state, timer_task, 0, {"TASK_TIMER"})
        both  == create_task(timer, idle_task, NUM_PRIORITY - 1, {"TASK_IDLE"})
        idle  == set_task_as_runnable([both EXCEPT !.next_task_to_run = idle_task],
                                      idle_task)
    IN  [set_task_as_runnable(idle, timer_task)
            EXCEPT !.current_running_task = idle_task]

-----------------------------------------------------------------------------
(***************************************************************************)
(* What a consistent kernel state looks like between two critical          *)
(* sections.                                                               *)
(***************************************************************************)

(* A task is linked, once, in the ready list of its priority exactly while *)
(* it is RUNNABLE, and the bitmap tells which ready lists are not empty.   *)
ReadyListsConsistent(k) ==
    /\ \A p \in Priority :
        /\ Distinct(k.runnable_tasks_list[p])
        /\ \A t \in Task :
              t \in Range(k.runnable_tasks_list[p]) <=>
                 k.task_state[t] = "RUNNABLE" /\ k.priority[t] = p
        /\ p \in k.priority_ready_to_run_bitmap <=> k.runnable_tasks_list[p] # <<>>

(* A task is linked, once, in the list of timeouts exactly while it waits  *)
(* with a finite timeout, and such a timeout has at least a tick to go.    *)
TimersConsistent(k) ==
    /\ Distinct(k.waiting_timeout_tasks_list)
    /\ \A t \in Task :
          t \in Range(k.waiting_timeout_tasks_list) <=>
             k.task_state[t] = "WAIT" /\ k.tick_count[t] \in Timeout

(* A task is linked, once, in the wait list of an object exactly while it  *)
(* waits for that object.                                                  *)
WaitListsConsistent(k) ==
    \A o \in WaitObject :
        /\ Distinct(k.wait_list[o])
        /\ \A t \in Task :
              t \in Range(k.wait_list[o]) <=>
                 k.task_state[t] = "WAIT" /\ k.wait_queue[t] = o

(* The next task is the first one of the most urgent priority that has a   *)
(* RUNNABLE task.                                                          *)
NextIsMostUrgent(k) ==
    \E p \in Priority :
        /\ k.runnable_tasks_list[p] # <<>>
        /\ k.next_task_to_run = Head(k.runnable_tasks_list[p])
        /\ \A q \in Priority : k.runnable_tasks_list[q] # <<>> => p <= q

(* The system tasks keep the two extreme priorities to themselves.         *)
SystemPriorities(k) ==
    /\ k.priority[timer_task] = 0
    /\ k.priority[idle_task] = NUM_PRIORITY - 1
    /\ \A t \in UserTask :
          k.task_state[t] # "NONE" => k.priority[t] \in 1 .. NUM_PRIORITY - 2
=============================================================================
