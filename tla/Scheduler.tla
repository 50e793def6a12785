----------------------------- MODULE Scheduler -----------------------------
(***************************************************************************)
(* The running kernel: tasks, the timer task, the SysTick and UART0        *)
(* interrupts and the PendSV context switch, on one Cortex-M3 core.        *)
(*                                                                         *)
(* A code section between disable_interrupt and enable_interrupt is one    *)
(* step, because nothing else runs meanwhile; the timer task's scan, which *)
(* is such a section too, is split into one step per list element.  The    *)
(* window between enable_interrupt and switch_context is a state of its    *)
(* own (pc = "switch"), in which interrupts do arrive.                     *)
(*                                                                         *)
(* SysTick and PendSV have the same, lowest, priority: neither preempts    *)
(* the other, and PendSV, whose exception number is smaller, goes first.   *)
(* UART0's handler may preempt SysTick's but only pends PendSV, which      *)
(* SysTick does as well.                                                   *)
(*                                                                         *)
(* Tasks do not return from their task function here: see TaskExit.        *)
(***************************************************************************)
EXTENDS Kernel

VARIABLES
    k,          \* the kernel state
    pc,         \* where each task is in its code
    cursor,     \* timer task: position of current_queue in the list of timeouts
    primask,    \* PRIMASK: interrupts are masked
    pendsv      \* PendSV is pending

vars == <<k, pc, cursor, primask, pendsv>>

(* Task code runs unless a pending PendSV can be taken.                    *)
Thread(t) ==
    /\ k.current_running_task = t
    /\ pendsv => primask

Init ==
    /\ k = kernel_main
    /\ pc = [t \in Task |-> IF t = timer_task THEN "init" ELSE "run"]
    /\ cursor = 1
    /\ primask = FALSE
    /\ pendsv = TRUE           \* launch_os ends by pending PendSV

-----------------------------------------------------------------------------
(* Interrupts                                                              *)

(* The handler also keeps the load statistics: see Performance, which has  *)
(* those variables, read and written by nothing here, to itself.           *)
SysTick_Handler ==
    /\ ~primask
    /\ ~pendsv
    /\ k' = tick_int_processing(k)
    /\ pendsv' = TRUE          \* int_exit
    /\ UNCHANGED <<pc, cursor, primask>>

UART0_IRQHandler ==
    /\ ~primask
    /\ ~pendsv
    /\ pendsv' = TRUE          \* int_exit
    /\ UNCHANGED <<k, pc, cursor, primask>>

PendSV_Handler ==
    /\ pendsv
    /\ ~primask
    /\ k' = [k EXCEPT !.current_running_task = k.next_task_to_run]
    /\ pendsv' = FALSE
    /\ UNCHANGED <<pc, cursor, primask>>

-----------------------------------------------------------------------------
(* Tasks                                                                   *)

switch_context(t) ==
    /\ Thread(t)
    /\ pc[t] = "switch"
    /\ pc' = [pc EXCEPT ![t] = IF t = timer_task THEN "loop" ELSE "run"]
    /\ pendsv' = TRUE
    /\ UNCHANGED <<k, cursor, primask>>

(* MUTANT: the call of switch_context is missing.                          *)
sleep_without_switch(t, time) ==
    /\ Thread(t)
    /\ pc[t] = "run"
    /\ k' = task_curr_to_wait_action(k, NULL, "SLEEP", time)
    /\ UNCHANGED <<pc, cursor, primask, pendsv>>

sleep(t, time) ==
    /\ Thread(t)
    /\ pc[t] = "run"
    /\ k' = task_curr_to_wait_action(k, NULL, "SLEEP", time)
    /\ pc' = [pc EXCEPT ![t] = "switch"]
    /\ UNCHANGED <<cursor, primask, pendsv>>

(* A user task, or app_init inside the timer task, creates task t on a TCB *)
(* that holds no task yet.  No context switch follows.                     *)
Create(creator, t, p, option) ==
    /\ Thread(creator)
    /\ pc[creator] = IF creator = timer_task THEN "init" ELSE "run"
    /\ k.task_state[t] = "NONE"
    /\ create_task_accepts(p, option)
    /\ k' = create_task(k, t, p, option)
    /\ UNCHANGED <<pc, cursor, primask, pendsv>>

-----------------------------------------------------------------------------
(* timer_task_function                                                     *)

TimerInitDone ==
    /\ Thread(timer_task)
    /\ pc[timer_task] = "init"
    /\ pc' = [pc EXCEPT ![timer_task] = "loop"]
    /\ UNCHANGED <<k, cursor, primask, pendsv>>

TimerScanBegin ==
    /\ Thread(timer_task)
    /\ pc[timer_task] = "loop"
    /\ pc' = [pc EXCEPT ![timer_task] = "scan"]
    /\ primask' = TRUE
    /\ cursor' = 1
    /\ UNCHANGED <<k, pendsv>>

(* MUTANT: the successor of an unlinked element is skipped.                *)
TimerScanStep_skips ==
    /\ Thread(timer_task)
    /\ pc[timer_task] = "scan"
    /\ cursor <= Len(k.waiting_timeout_tasks_list)
    /\ k' = timer_visit(k, k.waiting_timeout_tasks_list[cursor])
    /\ cursor' = cursor + 1
    /\ UNCHANGED <<pc, primask, pendsv>>

(* The element under the cursor keeps its next pointer when it is          *)
(* unlinked: its successor then stands at the same position.               *)
TimerScanStep ==
    /\ Thread(timer_task)
    /\ pc[timer_task] = "scan"
    /\ cursor <= Len(k.waiting_timeout_tasks_list)
    /\ LET t == k.waiting_timeout_tasks_list[cursor]
       IN  /\ k' = timer_visit(k, t)
           /\ cursor' = IF k'.task_state[t] = "WAIT" THEN cursor + 1 ELSE cursor
    /\ UNCHANGED <<pc, primask, pendsv>>

TimerWait ==
    /\ Thread(timer_task)
    /\ pc[timer_task] = "scan"
    /\ cursor > Len(k.waiting_timeout_tasks_list)
    /\ k' = task_curr_to_wait_action(k, NULL, "SLEEP", WAIT_INFINITE)
    /\ pc' = [pc EXCEPT ![timer_task] = "switch"]
    /\ primask' = FALSE
    /\ UNCHANGED <<cursor, pendsv>>

timer_task_function ==
    TimerInitDone \/ TimerScanBegin \/ TimerScanStep \/ TimerWait

-----------------------------------------------------------------------------
Interrupt == SysTick_Handler \/ UART0_IRQHandler \/ PendSV_Handler

user_task_function ==
    \/ \E t \in UserTask, time \in Timeout \cup {WAIT_INFINITE} : sleep(t, time)
    \/ \E creator \in UserTask \cup {timer_task}, t \in UserTask, p \in Priority,
          option \in SUBSET {"TASK_START_ON_CREATION"} : Create(creator, t, p, option)

Next ==
    \/ Interrupt
    \/ timer_task_function
    \/ user_task_function
    \/ \E t \in Task : switch_context(t)

Spec == Init /\ [][Next]_vars

(* A task that blocks gets through the few instructions before its         *)
(* switch_context without a tick in between.                               *)
BlockedTaskSwitches(t) ==
    /\ k.task_state[t] = "WAIT"
    /\ switch_context(t)

(* A pending exception is taken; the 1 ms tick keeps coming and stays      *)
(* pending while it is masked; between two ticks a task that has the CPU   *)
(* executes some 10^5 instructions, so the tick does not hit the same      *)
(* window of a few instructions every time.  Nothing is assumed of the     *)
(* applications.                                                           *)
Fairness ==
    /\ WF_vars(PendSV_Handler)
    /\ SF_vars(SysTick_Handler)
    /\ SF_vars(timer_task_function)
    /\ \A t \in UserTask \cup {timer_task} :
          SF_vars(switch_context(t)) /\ SF_vars(BlockedTaskSwitches(t))

FairSpec == Spec /\ Fairness

-----------------------------------------------------------------------------
TypeOK ==
    /\ k \in KernelState
    /\ pc \in [Task -> {"init", "loop", "scan", "switch", "run"}]
    /\ cursor \in Nat \ {0}
    /\ primask \in BOOLEAN
    /\ pendsv \in BOOLEAN

(* Between critical sections the ready lists hold exactly the RUNNABLE     *)
(* tasks, each under its priority, and the bitmap agrees with them.        *)
ReadyListsMatchStates == ReadyListsConsistent(k)

(* The list of timeouts holds exactly the tasks that wait for one.         *)
TimersMatchStates == TimersConsistent(k)

(* The incremental choices of set_task_as_runnable, task_to_non_runnable   *)
(* and the tick always agree with a search from scratch: the next task is  *)
(* the longest-waiting one of the most urgent priority.                    *)
NextIsFirstReady == NextIsMostUrgent(k)

(* A task that has started to wait executes nothing but the instructions   *)
(* up to its switch_context until it is woken, whatever interrupts come in *)
(* between.                                                                *)
WaitingTaskOnlySwitches ==
    \A t \in Task :
        k.current_running_task = t /\ k.task_state[t] # "RUNNABLE"
            => pc[t] = "switch" \/ pendsv

(* A finite sleep ends: the ticks reach the timer task, and its scan       *)
(* reaches every element of the list of timeouts.                          *)
SleepersWake ==
    \A t \in UserTask :
        k.task_state[t] = "WAIT" /\ k.tick_count[t] \in Timeout
            ~> k.task_state[t] = "RUNNABLE"

(* A RUNNABLE task is not kept from the CPU for ever by tasks of its own   *)
(* priority, when slices are set: it runs again and again unless it blocks *)
(* or a more urgent task is RUNNABLE again and again.                      *)
EqualsShareTheCpu ==
    \A t \in UserTask :
        []<>(\/ k.current_running_task = t
             \/ time_slice_ticks[k.priority[t]] = NO_TIME_SLICE
             \/ k.task_state[t] # "RUNNABLE"
             \/ \E u \in UserTask :
                   k.task_state[u] = "RUNNABLE" /\ k.priority[u] < k.priority[t])

-----------------------------------------------------------------------------
(* The promise the scheduler implements: see PriorityScheduler.            *)
Abstract == INSTANCE PriorityScheduler
    WITH line <- k.runnable_tasks_list, running <- k.current_running_task,
         clock <- timer_task

ImplementsPriorityScheduler == Abstract!FairSpec
=============================================================================
