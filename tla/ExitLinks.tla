------------------------------ MODULE ExitLinks ------------------------------
(***************************************************************************)
(* TaskExit with the pointers of the ready lists.  exit_task unlinks its   *)
(* task with interrupts enabled, and queue_remove_element is two           *)
(* statements that each load two pointers and store one: between them the  *)
(* list is half unlinked, and a tick may find it so.                       *)
(*                                                                         *)
(* Here runnable_tasks_list is the two link fields of all the cells that   *)
(* are in a ready list: the task_queue of each task, and the head of each  *)
(* list, which is named by its priority.  The other fields of the kernel   *)
(* state, and every step that reads no link, are those of TaskExit (Code). *)
(* No task waits for an object.                                            *)
(***************************************************************************)
EXTENDS Naturals, Sequences, FiniteSets, FiniteSetsExt, Functions

CONSTANTS
    UserTask, timer_task, idle_task, NULL, ListHead,
    NUM_PRIORITY, MaxTimeout, WAIT_INFINITE, time_slice_ticks   \* as in Kernel

VARIABLES
    kernel,     \* the kernel state, k in Scheduler
    at,         \* where each task is in its code, pc in Scheduler
    cursor, primask, pendsv,    \* as in Scheduler
    loaded      \* the pointers the task in exit_task has loaded

vars == <<kernel, at, cursor, primask, pendsv, loaded>>

Code == INSTANCE TaskExit WITH WaitObject <- {}, k <- kernel, pc <- at

Task == UserTask \cup Code!SystemTask
Priority == 0 .. NUM_PRIORITY - 1

(* A QUEUE: the head of a ready list, or the link of a task.               *)
Cell == Task \cup Priority

-----------------------------------------------------------------------------
(* utilities.c, on links q = [next |-> .., previous |-> ..]                *)

reset_queue(q, qu) ==
    [next     |-> [q.next EXCEPT ![qu] = qu],
     previous |-> [q.previous EXCEPT ![qu] = qu]]

is_queue_empty(q, qu) == q.next[qu] = qu /\ q.previous[qu] = qu

queue_insert_before(q, qu, element) ==
    LET last == q.previous[qu]
    IN  [next     |-> [q.next EXCEPT ![element] = qu, ![last] = element],
         previous |-> [q.previous EXCEPT ![element] = last, ![qu] = element]]

(* For a queue that is not empty.                                          *)
queue_remove_next(q, qu) ==
    LET second == q.next[q.next[qu]]
    IN  [next |-> [q.next EXCEPT ![qu] = second],
         previous |-> [q.previous EXCEPT ![second] = qu]]

(* The second statement loads `next` again, after the first one's store.   *)
queue_remove_element(q, element) ==
    LET before == q.previous[element]
        next   == [q.next EXCEPT ![before] = q.next[element]]
    IN  [next     |-> next,
         previous |-> [q.previous EXCEPT ![next[element]] = before]]

-----------------------------------------------------------------------------
(* task.c and kernel.c, as in Kernel                                       *)

(* A cell cast to a TASK.                                                  *)
get_task_in_task_queue(cell) == IF cell \in Task THEN cell ELSE ListHead

first_of(s, p) == get_task_in_task_queue(s.runnable_tasks_list.next[p])

find_next_task_to_run(s) ==
    LET bitmap == s.priority_ready_to_run_bitmap
        p      == IF bitmap = {} THEN 0 ELSE Min(bitmap)
    IN  [s EXCEPT !.next_task_to_run = first_of(s, p)]

set_task_as_runnable(s, t) ==
    LET p == s.priority[t]
    IN  [s EXCEPT
            !.task_state[t]                = "RUNNABLE",
            !.wait_queue[t]                = NULL,
            !.runnable_tasks_list          = queue_insert_before(@, p, t),
            !.priority_ready_to_run_bitmap = @ \cup {p},
            !.next_task_to_run             = IF p < s.priority[@] THEN t ELSE @]

(* MUTANT: the task unlinked stays the next one.                           *)
task_to_non_runnable_stays_next(s, t) ==
    LET p        == s.priority[t]
        unlinked == [s EXCEPT !.runnable_tasks_list = queue_remove_element(@, t)]
    IN  IF is_queue_empty(unlinked.runnable_tasks_list, p)
        THEN find_next_task_to_run(
                [unlinked EXCEPT !.priority_ready_to_run_bitmap = @ \ {p}])
        ELSE unlinked

task_to_non_runnable(s, t) ==
    LET p        == s.priority[t]
        unlinked == [s EXCEPT !.runnable_tasks_list = queue_remove_element(@, t)]
    IN  IF is_queue_empty(unlinked.runnable_tasks_list, p)
        THEN find_next_task_to_run(
                [unlinked EXCEPT !.priority_ready_to_run_bitmap = @ \ {p}])
        ELSE [unlinked EXCEPT
                !.next_task_to_run = IF @ = t THEN first_of(unlinked, p) ELSE @]

(* MUTANT: the link of the waiting task is not reset.                      *)
task_curr_to_wait_action_keeps_link(s, timeout) ==
    LET t == s.current_running_task
    IN  [task_to_non_runnable(s, t) EXCEPT
            !.task_state[t]              = "WAIT",
            !.task_wait_reason[t]        = "SLEEP",
            !.tick_count[t]              = timeout,
            !.waiting_timeout_tasks_list =
                IF timeout = WAIT_INFINITE THEN @ ELSE Append(@, t)]

(* With wait_que = NULL and the reason SLEEP.                              *)
task_curr_to_wait_action(s, timeout) ==
    LET t == s.current_running_task
    IN  [task_to_non_runnable(s, t) EXCEPT
            !.task_state[t]              = "WAIT",
            !.task_wait_reason[t]        = "SLEEP",
            !.tick_count[t]              = timeout,
            !.runnable_tasks_list        = reset_queue(@, t),
            !.waiting_timeout_tasks_list =
                IF timeout = WAIT_INFINITE THEN @ ELSE Append(@, t)]

task_wait_complete(s, t) ==
    LET woken == set_task_as_runnable(
                    [s EXCEPT
                        !.waiting_timeout_tasks_list =
                            IF s.tick_count[t] = WAIT_INFINITE THEN @
                            ELSE SelectSeq(@, LAMBDA u : u # t),
                        !.tick_count[t]              = WAIT_INFINITE,
                        !.task_wait_return_code[t]   = "ERR_NO_ERROR"], t)
    IN  [woken EXCEPT !.task_wait_reason[t] = "NONE"]

task_set_dormant_state(s, t) ==
    [Code!task_set_dormant_state(s, t)
        EXCEPT !.runnable_tasks_list = reset_queue(@, t)]

create_task(s, t, p, option) ==
    LET created == [task_set_dormant_state([s EXCEPT !.base_priority[t] = p], t)
                       EXCEPT !.all_tasks_queue = @ \cup {t},
                              !.num_tasks       = @ + 1]
    IN  IF "TASK_START_ON_CREATION" \in option
        THEN set_task_as_runnable(created, t)
        ELSE created

(* Round robin: the first of two or more tasks goes to the tail.           *)
round_robin(s) ==
    LET t      == s.current_running_task
        p      == s.priority[t]
        ticks  == s.time_slice_count[t] + 1
        q      == s.runnable_tasks_list
        turned == queue_insert_before(queue_remove_next(q, p), p, q.next[p])
    IN  IF time_slice_ticks[p] = 0
        THEN s
        ELSE IF ticks <= time_slice_ticks[p]
        THEN [s EXCEPT !.time_slice_count[t] = ticks]
        ELSE [s EXCEPT
                !.time_slice_count[t]  = 0,
                !.runnable_tasks_list =
                    IF is_queue_empty(q, p) \/ q.next[q.next[p]] = p
                    THEN @
                    ELSE turned]

tick_int_processing(s) ==
    [round_robin(s) EXCEPT
        !.runnable_tasks_list =
            queue_insert_before(queue_remove_element(@, timer_task), 0, timer_task),
        !.task_wait_reason[timer_task]      = "NONE",
        !.task_state[timer_task]            = "RUNNABLE",
        !.wait_queue[timer_task]            = NULL,
        !.task_wait_return_code[timer_task] = "ERR_NO_ERROR",
        !.priority_ready_to_run_bitmap      = @ \cup {0},
        !.next_task_to_run                  = timer_task]

timer_visit(s, t) ==
    LET ticked   == [s EXCEPT !.tick_count[t] = @ - 1]
        unlinked == [ticked EXCEPT !.runnable_tasks_list = queue_remove_element(@, t)]
    IN  IF s.tick_count[t] \in {0, WAIT_INFINITE}
        THEN s
        ELSE IF s.tick_count[t] > 1
        THEN ticked
        ELSE [task_wait_complete(unlinked, t)
                 EXCEPT !.task_wait_return_code[t] = "ERR_TIMEOUT"]

(* The heads are reset; the links of a TCB are null until it is created.   *)
kernel_main ==
    LET heads == [c \in Cell |-> IF c \in Priority THEN c ELSE NULL]
        reset == [Code!reset_state EXCEPT
                     !.runnable_tasks_list = [next |-> heads, previous |-> heads]]
        timer == create_task(reset, timer_task, 0, {"TASK_TIMER"})
        both  == create_task(timer, idle_task, NUM_PRIORITY - 1, {"TASK_IDLE"})
        idle  == set_task_as_runnable([both EXCEPT !.next_task_to_run = idle_task],
                                      idle_task)
    IN  [set_task_as_runnable(idle, timer_task)
            EXCEPT !.current_running_task = idle_task]

-----------------------------------------------------------------------------
(* The interrupts and the tasks, as in Scheduler                           *)

(* Of the pointers loaded, when nobody needs them any more.                *)
NoPointers == [next |-> NULL, previous |-> NULL]

Init ==
    /\ kernel = kernel_main
    /\ at = [t \in Task |-> IF t = timer_task THEN "init" ELSE "run"]
    /\ cursor = 1
    /\ primask = FALSE
    /\ pendsv = TRUE
    /\ loaded = NoPointers

SysTick_Handler ==
    /\ ~primask
    /\ ~pendsv
    /\ kernel' = tick_int_processing(kernel)
    /\ pendsv' = TRUE
    /\ UNCHANGED <<at, cursor, primask>>

sleep(t, time) ==
    /\ Code!Thread(t)
    /\ at[t] = "run"
    /\ kernel' = task_curr_to_wait_action(kernel, time)
    /\ at' = [at EXCEPT ![t] = "switch"]
    /\ UNCHANGED <<cursor, primask, pendsv>>

Create(creator, t, p, option) ==
    /\ Code!Thread(creator)
    /\ at[creator] = IF creator = timer_task THEN "init" ELSE "run"
    /\ kernel.task_state[t] = "NONE"
    /\ Code!create_task_accepts(p, option)
    /\ kernel' = create_task(kernel, t, p, option)
    /\ UNCHANGED <<at, cursor, primask, pendsv>>

TimerScanStep ==
    /\ Code!Thread(timer_task)
    /\ at[timer_task] = "scan"
    /\ cursor <= Len(kernel.waiting_timeout_tasks_list)
    /\ LET t == kernel.waiting_timeout_tasks_list[cursor]
       IN  /\ kernel' = timer_visit(kernel, t)
           /\ cursor' = IF kernel'.task_state[t] = "WAIT" THEN cursor + 1 ELSE cursor
    /\ UNCHANGED <<at, primask, pendsv>>

TimerWait ==
    /\ Code!Thread(timer_task)
    /\ at[timer_task] = "scan"
    /\ cursor > Len(kernel.waiting_timeout_tasks_list)
    /\ kernel' = task_curr_to_wait_action(kernel, WAIT_INFINITE)
    /\ at' = [at EXCEPT ![timer_task] = "switch"]
    /\ primask' = FALSE
    /\ UNCHANGED <<cursor, pendsv>>

KernelNext ==
    /\ \/ SysTick_Handler
       \/ Code!UART0_IRQHandler
       \/ Code!PendSV_Handler
       \/ Code!TimerInitDone
       \/ Code!TimerScanBegin
       \/ TimerScanStep
       \/ TimerWait
       \/ \E t \in Task : Code!switch_context(t)
       \/ \E t \in UserTask, time \in Code!Timeout \cup {WAIT_INFINITE} :
             sleep(t, time)
       \/ \E creator \in UserTask \cup {timer_task}, t \in UserTask, p \in Priority,
             option \in SUBSET {"TASK_START_ON_CREATION"} :
                Create(creator, t, p, option)
    /\ UNCHANGED loaded

-----------------------------------------------------------------------------
(* exit_task                                                               *)

(* Each of the two statements of queue_remove_element loads the pointers   *)
(* it needs ...                                                            *)
ExitLoad(t, from, to) ==
    /\ Code!Goto(t, from, to)
    /\ loaded' = [next     |-> kernel.runnable_tasks_list.next[t],
                  previous |-> kernel.runnable_tasks_list.previous[t]]
    /\ UNCHANGED <<kernel, pendsv>>

(* ... and stores one: element->previous->next = element->next;            *)
ExitStoreNext(t) ==
    /\ Code!Goto(t, "exit_loaded", "exit_half")
    /\ kernel' = [kernel EXCEPT !.runnable_tasks_list.next[loaded.previous] = loaded.next]
    /\ UNCHANGED <<pendsv, loaded>>

(* MUTANT: the successor is left linked to the task.                       *)
ExitStorePrevious_missing(t) ==
    /\ Code!Goto(t, "exit_reloaded", "exit_unlinked")
    /\ loaded' = NoPointers
    /\ UNCHANGED <<kernel, pendsv>>

(* element->next->previous = element->previous;                            *)
ExitStorePrevious(t) ==
    /\ Code!Goto(t, "exit_reloaded", "exit_unlinked")
    /\ kernel' =
          [kernel EXCEPT !.runnable_tasks_list.previous[loaded.next] = loaded.previous]
    /\ loaded' = NoPointers
    /\ UNCHANGED pendsv

ExitClearBit(t) ==
    LET p == kernel.priority[t]
    IN  /\ Code!Goto(t, "exit_unlinked", "exit_bit_cleared")
        /\ is_queue_empty(kernel.runnable_tasks_list, p)
        /\ kernel' = [kernel EXCEPT !.priority_ready_to_run_bitmap = @ \ {p}]
        /\ UNCHANGED <<pendsv, loaded>>

ExitFindNext(t) ==
    /\ Code!Goto(t, "exit_bit_cleared", "exit_next_chosen")
    /\ kernel' = find_next_task_to_run(kernel)
    /\ UNCHANGED <<pendsv, loaded>>

ExitNextOfSamePriority(t) ==
    LET p == kernel.priority[t]
    IN  /\ Code!Goto(t, "exit_unlinked", "exit_next_chosen")
        /\ ~is_queue_empty(kernel.runnable_tasks_list, p)
        /\ kernel' =
              [kernel EXCEPT !.next_task_to_run = IF @ = t THEN first_of(kernel, p) ELSE @]
        /\ UNCHANGED <<pendsv, loaded>>

ExitSetDormant(t) ==
    /\ Code!Goto(t, "exit_next_chosen", "exit_dormant")
    /\ kernel' = task_set_dormant_state(kernel, t)
    /\ UNCHANGED <<pendsv, loaded>>

exit_task(t) ==
    \/ ExitLoad(t, "run", "exit_loaded")
    \/ ExitStoreNext(t)
    \/ ExitLoad(t, "exit_half", "exit_reloaded")
    \/ ExitStorePrevious(t)
    \/ ExitClearBit(t)
    \/ ExitFindNext(t)
    \/ ExitNextOfSamePriority(t)
    \/ ExitSetDormant(t)
    \/ Code!ExitDelete(t) /\ UNCHANGED loaded
    \/ Code!switch_context_exit(t) /\ UNCHANGED loaded

-----------------------------------------------------------------------------
ExitNext == \E t \in UserTask : exit_task(t)

(* Nothing is said of what the core does once a list head is dispatched.   *)
LinksNext == kernel.current_running_task \in Task /\ (KernelNext \/ ExitNext)

(* A task is between the loads and the stores of its unlinking.            *)
Unlinking ==
    \E t \in UserTask : at[t] \in {"exit_loaded", "exit_half", "exit_reloaded"}

(* TaskExit's ASSUMPTION: an unlinking under way is not disturbed.         *)
WholeNext ==
    /\ kernel.current_running_task \in Task
    /\ \/ ExitNext
       \/ KernelNext /\ (Unlinking => UNCHANGED kernel)

(* What the code does, and what it does under that assumption.             *)
LinksSpec == Init /\ [][LinksNext]_vars
WholeSpec == Init /\ [][WholeNext]_vars

-----------------------------------------------------------------------------
(* The cells met from head p along `link`, in as many steps as it takes to *)
(* come back in a list of all tasks.                                       *)
Walk(link, p) ==
    LET cell[i \in 0 .. Cardinality(Task) + 1] ==
            IF i = 0 THEN p ELSE link[cell[i - 1]]
    IN  cell

TasksMet(link, p) == Range(Walk(link, p)) \cap Task

(* The list of head p, along `next`.                                       *)
ReadyList(p) ==
    LET cell == Walk(kernel.runnable_tasks_list.next, p)
        size == Min({i \in DOMAIN cell \ {0} : cell[i] = p}) - 1
    IN  [i \in 1 .. size |-> cell[i]]

(* The state as TaskExit has it.                                           *)
list_kernel ==
    [kernel EXCEPT !.runnable_tasks_list = [p \in Priority |-> ReadyList(p)]]

list_at == [t \in Task |-> IF at[t] = "exit_reloaded" THEN "exit_half" ELSE at[t]]

AsLists == INSTANCE TaskExit WITH WaitObject <- {}, k <- list_kernel, pc <- list_at

(* The pointer operations of the kernel, on links that are reset, left or  *)
(* re-read at various places, do to the lists what TaskExit says: every    *)
(* behaviour whose unlinkings are not disturbed is one of TaskExit.        *)
ImplementsTaskExit == AsLists!ExitSpec

(* A task that has exited is in no list of the kernel, in whichever        *)
(* direction one walks through them.                                       *)
DormantIsNowhere ==
    /\ AsLists!DormantIsNowhere
    /\ \A t \in Task, p \in Priority :
          kernel.task_state[t] = "DORMANT" =>
             t \notin TasksMet(kernel.runnable_tasks_list.previous, p)

(* The CPU is never given to a task that waits, has exited or was never    *)
(* started.                                                                *)
OnlyRunnableIsDispatched ==
    [][\A t \in Task :
          kernel.current_running_task # t /\ kernel'.current_running_task = t
             => kernel.task_state[t] = "RUNNABLE"]_vars

(* kernel.c:24: runnable_tasks_list is the "list/queue of all RUNNABLE     *)
(* tasks": no other task is met in a ready list.                           *)
ListedIsRunnable ==
    \A p \in Priority : \A t \in TasksMet(kernel.runnable_tasks_list.next, p) :
        kernel.task_state[t] = "RUNNABLE"
=============================================================================
