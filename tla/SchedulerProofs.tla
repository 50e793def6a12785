-------------------------- MODULE SchedulerProofs --------------------------
(***************************************************************************)
(* The safety properties of Scheduler hold for every number of tasks, wait *)
(* objects, priorities and ticks, and with or without slices; so do those  *)
(* of SleepTiming, in the second half of the module.                       *)
(*                                                                         *)
(* None of the first is inductive: the kernel functions keep the lists     *)
(* right only when they are called for the right task, so the invariant    *)
(* relates the kernel state (KInv) to where the running task is in its     *)
(* code.                                                                   *)
(***************************************************************************)
EXTENDS SleepTiming, KernelProofs

(* The places each task's own code has, and that interrupts are masked     *)
(* across steps only in the timer task's scan.                             *)
ProgramCounters ==
    /\ pc[timer_task] \in {"init", "loop", "scan", "switch"}
    /\ pc[idle_task] = "run"
    /\ \A t \in UserTask : pc[t] \in {"run", "switch"}
    /\ primask => /\ k.current_running_task = timer_task
                  /\ k.task_state[timer_task] = "RUNNABLE"
                  /\ pc[timer_task] = "scan"

IInv ==
    /\ TypeOK
    /\ KInv(k)
    /\ ProgramCounters
    /\ WaitingTaskOnlySwitches

(* The task whose code executes is RUNNABLE: nothing but switch_context is  *)
(* left to a task that waits.                                              *)
LEMMA ThreadIsRunnable ==
    ASSUME IInv, NEW t \in Task, Thread(t), pc[t] # "switch"
    PROVE  k.task_state[t] = "RUNNABLE"
BY DEF IInv, ProgramCounters, WaitingTaskOnlySwitches, Thread

(* SysTick: the timer task becomes RUNNABLE and no task leaves its code.   *)
LEMMA TickStep ==
    ASSUME IInv, SysTick_Handler
    PROVE  IInv'
<1>1. /\ KInv(k) /\ k' = tick_int_processing(k)
      /\ pc' = pc /\ cursor' = cursor /\ primask' = primask /\ pendsv' = TRUE
      /\ ~ primask
  BY DEF IInv, SysTick_Handler
<1>2. /\ KInv(k')
      /\ k'.current_running_task = k.current_running_task
  BY <1>1, TickIntProcessing
<1>3. TypeOK'
  BY <1>1, <1>2 DEF IInv, TypeOK, KInv
<1>4. ProgramCounters'
  BY <1>1 DEF IInv, ProgramCounters
<1>5. WaitingTaskOnlySwitches'
  BY <1>1 DEF WaitingTaskOnlySwitches
<1> QED
  BY <1>2, <1>3, <1>4, <1>5 DEF IInv

(* PendSV: the next task is RUNNABLE, whatever it was chosen for.          *)
LEMMA SwitchStep ==
    ASSUME IInv, PendSV_Handler
    PROVE  IInv'
<1>1. /\ KInv(k) /\ k' = [k EXCEPT !.current_running_task = k.next_task_to_run]
      /\ pc' = pc /\ cursor' = cursor /\ primask' = primask /\ pendsv' = FALSE
      /\ ~ primask
  BY DEF IInv, PendSV_Handler
<1>2. /\ KInv(k')
      /\ k'.current_running_task = k.next_task_to_run
      /\ k'.task_state = k.task_state
      /\ k.task_state[k.next_task_to_run] = "RUNNABLE"
  BY <1>1, DispatchNext
<1>3. TypeOK'
  BY <1>1, <1>2 DEF IInv, TypeOK, KInv
<1>4. ProgramCounters'
  BY <1>1 DEF IInv, ProgramCounters
<1>5. WaitingTaskOnlySwitches'
  BY <1>2 DEF WaitingTaskOnlySwitches
<1> QED
  BY <1>2, <1>3, <1>4, <1>5 DEF IInv

(* A task that starts to wait: it can only switch from then on.  The same  *)
(* holds for the timer task at the end of its scan.                        *)
LEMMA WaitStep ==
    ASSUME IInv, NEW t \in UserTask \cup {timer_task}, Thread(t), pc[t] # "switch",
           NEW timeout \in Timeout \cup {WAIT_INFINITE},
           t = timer_task => timeout = WAIT_INFINITE,
           k' = task_curr_to_wait_action(k, NULL, "SLEEP", timeout),
           pc' = [pc EXCEPT ![t] = "switch"],
           cursor' = cursor, primask' = FALSE, pendsv' = pendsv
    PROVE  IInv'
<1>1. /\ KInv(k) /\ t \in Task /\ t # idle_task
      /\ t = k.current_running_task
      /\ NULL \in WaitObject \cup {NULL} /\ "SLEEP" \in WaitReason
      /\ pc \in [Task -> {"init", "loop", "scan", "switch", "run"}]
  BY SystemTasksAreTasks, TasksAssumption DEF IInv, TypeOK, Thread, Task, WaitReason
<1>2. k.task_state[t] = "RUNNABLE"
  BY <1>1, ThreadIsRunnable
<1> DEFINE s == task_curr_to_wait_action(k, NULL, "SLEEP", timeout)
<1>3. /\ KInv(k')
      /\ k'.current_running_task = t
  <2>1. /\ KInv(s)
        /\ s.current_running_task = t
        /\ s.task_state = [k.task_state EXCEPT ![t] = "WAIT"]
    BY <1>1, <1>2, CurrToWait
  <2>2. k' = s
    OBVIOUS
  <2> HIDE DEF s
  <2> QED
    BY <2>1, <2>2
<1>4. TypeOK'
  BY <1>1, <1>3 DEF IInv, TypeOK, KInv
<1>5. ProgramCounters'
  BY <1>1, SystemTasksAreTasks, TasksAssumption DEF IInv, ProgramCounters, Task
<1>6. WaitingTaskOnlySwitches'
  BY <1>1, <1>3 DEF WaitingTaskOnlySwitches
<1> QED
  BY <1>3, <1>4, <1>5, <1>6 DEF IInv

(* Creating a task touches no task that runs.                              *)
LEMMA CreateStep ==
    ASSUME IInv, NEW creator \in UserTask \cup {timer_task}, NEW t \in UserTask,
           NEW p \in Priority, NEW option \in SUBSET {"TASK_START_ON_CREATION"},
           Create(creator, t, p, option)
    PROVE  IInv'
<1>1. /\ KInv(k) /\ k' = create_task(k, t, p, option)
      /\ pc' = pc /\ cursor' = cursor /\ primask' = primask /\ pendsv' = pendsv
      /\ Thread(creator) /\ creator \in Task /\ pc[creator] # "switch"
      /\ k.task_state[t] = "NONE"
      /\ t \in Task /\ t # timer_task
  BY SystemTasksAreTasks, TasksAssumption DEF IInv, Create, Task
<1>2. k.task_state[creator] = "RUNNABLE" /\ creator = k.current_running_task
  BY <1>1, ThreadIsRunnable DEF Thread
<1>3. p \in 1 .. NUM_PRIORITY - 2
  BY SizesAssumption DEF Create, create_task_accepts, Priority
<1>4. option \in SUBSET CreateOption
  BY DEF CreateOption
<1>5. /\ KInv(k')
      /\ k'.current_running_task = k.current_running_task
      /\ \A x \in Task : x # t => k'.task_state[x] = k.task_state[x]
  BY <1>1, <1>3, <1>4, CreateTask
<1>6. k'.task_state[creator] = "RUNNABLE"
  BY <1>1, <1>2, <1>5
<1>7. TypeOK'
  BY <1>1, <1>5 DEF IInv, TypeOK, KInv
<1>8. ProgramCounters'
  BY <1>1, <1>5, SystemTasksAreTasks DEF IInv, ProgramCounters
<1>9. WaitingTaskOnlySwitches'
  BY <1>2, <1>5, <1>6 DEF WaitingTaskOnlySwitches
<1> QED
  BY <1>5, <1>7, <1>8, <1>9 DEF IInv

(* One turn of the scan: the list of timeouts holds no task that runs.     *)
LEMMA ScanStep ==
    ASSUME IInv, TimerScanStep
    PROVE  IInv'
<1> DEFINE t == k.waiting_timeout_tasks_list[cursor]
<1>1. /\ KInv(k) /\ k \in KernelState /\ TimersConsistent(k)
      /\ k' = timer_visit(k, t)
      /\ cursor' = IF k'.task_state[t] = "WAIT" THEN cursor + 1 ELSE cursor
      /\ pc' = pc /\ primask' = primask /\ pendsv' = pendsv
      /\ Thread(timer_task) /\ pc[timer_task] # "switch"
      /\ cursor \in Nat \ {0} /\ cursor <= Len(k.waiting_timeout_tasks_list)
  BY DEF IInv, TypeOK, TimerScanStep, KInv
<1>2. /\ t \in Task
      /\ k.task_state[t] = "WAIT"
      /\ k.tick_count[t] \in Timeout
  <2>1. k.waiting_timeout_tasks_list \in Seq(Task)
    BY <1>1 DEF KernelState
  <2>2. t \in Task /\ t \in Range(k.waiting_timeout_tasks_list)
    BY <1>1, <2>1 DEF Range
  <2> QED
    BY <1>1, <2>2 DEF TimersConsistent
<1>3. k.task_state[timer_task] = "RUNNABLE" /\ timer_task = k.current_running_task
  BY <1>1, SystemTasksAreTasks, ThreadIsRunnable DEF Thread
<1> HIDE DEF t
<1>4. /\ KInv(k')
      /\ k'.current_running_task = k.current_running_task
      /\ \/ k'.task_state = k.task_state
         \/ k'.task_state = [k.task_state EXCEPT ![t] = "RUNNABLE"]
  BY <1>1, <1>2, TimerVisit
<1>5. k'.task_state[timer_task] = "RUNNABLE"
  BY <1>1, <1>2, <1>3, <1>4, SystemTasksAreTasks DEF KernelState
<1>6. TypeOK'
  BY <1>1, <1>4 DEF IInv, TypeOK, KInv
<1>7. ProgramCounters'
  BY <1>1, <1>4, <1>5 DEF IInv, ProgramCounters
<1>8. WaitingTaskOnlySwitches'
  BY <1>3, <1>4, <1>5 DEF WaitingTaskOnlySwitches
<1> QED
  BY <1>4, <1>6, <1>7, <1>8 DEF IInv

LEMMA InitInvariant == Init => IInv
<1> SUFFICES ASSUME Init PROVE IInv
  OBVIOUS
<1>1. /\ KInv(k)
      /\ k.current_running_task = idle_task
      /\ k.task_state[idle_task] = "RUNNABLE"
      /\ k \in KernelState
  <2>1. k = kernel_main
    BY DEF Init
  <2>2. idle_task \in Task /\ idle_task \in SystemTask
    BY SystemTasksAreTasks DEF SystemTask
  <2>3. /\ KInv(k)
        /\ k.current_running_task = idle_task
        /\ k.task_state[idle_task] = "RUNNABLE"
    BY <2>1, <2>2, KernelMain
  <2> QED
    BY <2>3 DEF KInv
<1>2. TypeOK
  <2>1. pc \in [Task -> {"init", "loop", "scan", "switch", "run"}]
    BY DEF Init
  <2>2. cursor \in Nat \ {0}
    BY DEF Init
  <2>3. primask \in BOOLEAN /\ pendsv \in BOOLEAN
    BY DEF Init
  <2> QED
    BY <1>1, <2>1, <2>2, <2>3 DEF TypeOK
<1>3. ProgramCounters
  BY SystemTasksAreTasks, TasksAssumption DEF Init, ProgramCounters, Task
<1>4. WaitingTaskOnlySwitches
  BY <1>1 DEF WaitingTaskOnlySwitches
<1> QED
  BY <1>1, <1>2, <1>3, <1>4 DEF IInv

LEMMA StepInvariant == IInv /\ [Next]_vars => IInv'
<1> SUFFICES ASSUME IInv, [Next]_vars PROVE IInv'
  OBVIOUS
<1>1. CASE SysTick_Handler
  BY <1>1, TickStep
<1>2. CASE UART0_IRQHandler
  BY <1>2 DEF IInv, UART0_IRQHandler, TypeOK, ProgramCounters, WaitingTaskOnlySwitches
<1>3. CASE PendSV_Handler
  BY <1>3, SwitchStep
<1>4. CASE TimerInitDone
  <2>1. /\ pc \in [Task -> {"init", "loop", "scan", "switch", "run"}]
        /\ ~ primask
        /\ k.task_state[timer_task] = "RUNNABLE"
        /\ timer_task = k.current_running_task
    BY <1>4, SystemTasksAreTasks, ThreadIsRunnable
       DEF IInv, TypeOK, ProgramCounters, TimerInitDone, Thread
  <2> QED
    BY <1>4, <2>1, SystemTasksAreTasks, TasksAssumption
       DEF IInv, TimerInitDone, TypeOK, ProgramCounters, WaitingTaskOnlySwitches, Task
<1>5. CASE TimerScanBegin
  <2>1. /\ pc \in [Task -> {"init", "loop", "scan", "switch", "run"}]
        /\ k.task_state[timer_task] = "RUNNABLE"
        /\ timer_task = k.current_running_task
    BY <1>5, SystemTasksAreTasks, ThreadIsRunnable
       DEF IInv, TypeOK, ProgramCounters, TimerScanBegin, Thread
  <2> QED
    BY <1>5, <2>1, SystemTasksAreTasks, TasksAssumption
       DEF IInv, TimerScanBegin, TypeOK, ProgramCounters, WaitingTaskOnlySwitches, Task
<1>6. CASE TimerScanStep
  BY <1>6, ScanStep
<1>7. CASE TimerWait
  BY <1>7, WaitStep, SystemTasksAreTasks DEF TimerWait
<1>8. ASSUME NEW t \in UserTask, NEW time \in Timeout \cup {WAIT_INFINITE}, sleep(t, time)
      PROVE  IInv'
  <2>1. t # timer_task /\ primask = FALSE
    BY <1>8, TasksAssumption DEF IInv, TypeOK, ProgramCounters, sleep, Thread
  <2> QED
    BY <1>8, <2>1, WaitStep DEF sleep
<1>9. ASSUME NEW creator \in UserTask \cup {timer_task}, NEW t \in UserTask,
             NEW p \in Priority, NEW option \in SUBSET {"TASK_START_ON_CREATION"},
             Create(creator, t, p, option)
      PROVE  IInv'
  BY <1>9, CreateStep
<1>10. ASSUME NEW t \in Task, switch_context(t)
       PROVE  IInv'
  <2>1. /\ pc \in [Task -> {"init", "loop", "scan", "switch", "run"}]
        /\ pc[t] = "switch"
        /\ ~ primask
        /\ t # idle_task
    BY <1>10 DEF IInv, TypeOK, ProgramCounters, switch_context, Thread
  <2>2. TypeOK'
    BY <1>10, <2>1 DEF IInv, TypeOK, switch_context
  <2>3. ProgramCounters'
    BY <1>10, <2>1, SystemTasksAreTasks, TasksAssumption
       DEF IInv, ProgramCounters, switch_context, Task
  <2> QED
    BY <1>10, <2>2, <2>3 DEF IInv, switch_context, WaitingTaskOnlySwitches
<1>11. CASE UNCHANGED vars
  BY <1>11 DEF IInv, TypeOK, ProgramCounters, WaitingTaskOnlySwitches, vars
<1> QED
  BY <1>1, <1>2, <1>3, <1>4, <1>5, <1>6, <1>7, <1>8, <1>9, <1>10, <1>11
     DEF Next, Interrupt, timer_task_function, user_task_function

(* The inductive invariant holds in every reachable state.                 *)
THEOREM Invariant == Spec => []IInv
BY InitInvariant, StepInvariant, PTL DEF Spec

(* Every variable keeps its type: in particular the next task is always a  *)
(* value of that type, and every position in a list is a task.             *)
THEOREM TypeCorrect == Spec => []TypeOK
<1>1. IInv => TypeOK
  BY DEF IInv
<1> QED
  BY <1>1, Invariant, PTL

(* runnable_tasks_list and priority_ready_to_run_bitmap agree with the     *)
(* task states, for every interleaving of tasks and interrupts (task.c,    *)
(* tick_int_processing).                                                   *)
THEOREM ReadyListsCorrect == Spec => []ReadyListsMatchStates
<1>1. IInv => ReadyListsMatchStates
  BY KInvImplies DEF IInv, ReadyListsMatchStates
<1> QED
  BY <1>1, Invariant, PTL

(* waiting_timeout_tasks_list holds exactly the tasks with a timeout, even *)
(* in the middle of the timer task's scan.                                 *)
THEOREM TimersCorrect == Spec => []TimersMatchStates
<1>1. IInv => TimersMatchStates
  BY KInvImplies DEF IInv, TimersMatchStates
<1> QED
  BY <1>1, Invariant, PTL

(* next_task_to_run is the first task of the most urgent ready list        *)
(* whenever PendSV may look at it.                                         *)
THEOREM NextIsCorrect == Spec => []NextIsFirstReady
<1>1. IInv => NextIsFirstReady
  BY KInvImplies DEF IInv, NextIsFirstReady
<1> QED
  BY <1>1, Invariant, PTL

(* A task that called sleep runs on to its switch_context only.            *)
THEOREM WaitingTasksSwitch == Spec => []WaitingTaskOnlySwitches
<1>1. IInv => WaitingTaskOnlySwitches
  BY DEF IInv
<1> QED
  BY <1>1, Invariant, PTL

-----------------------------------------------------------------------------
(***************************************************************************)
(* The scheduler keeps the promise of PriorityScheduler: Spec implements   *)
(* its safety part, action by action, under the inductive invariant.       *)
(***************************************************************************)

(* The abstract module's list operators are the ones of Lists.             *)
LEMMA AbstractLists ==
    /\ \A q, e : Abstract!InsertLast(q, e) = InsertLast(q, e)
    /\ \A q, e : Abstract!Without(q, e) = Without(q, e)
    /\ \A q : Abstract!HeadToTail(q) = HeadToTail(q)
    /\ \A q : Abstract!Range(q) = Range(q)
    /\ \A B : Abstract!Min(B) = Min(B)
    /\ \A B : Abstract!Max(B) = Max(B)
<1>1. \A q, e : Abstract!InsertLast(q, e) = InsertLast(q, e)
  BY DEF Abstract!InsertLast, InsertLast
<1>2. \A q : Abstract!Range(q) = Range(q)
  BY DEF Abstract!Range, Range
<1>3. \A q, e : Abstract!Without(q, e) = Without(q, e)
  BY <1>2 DEF Abstract!Without, Without
<1>4. \A q : Abstract!HeadToTail(q) = HeadToTail(q)
  BY DEF Abstract!HeadToTail, HeadToTail
<1>5. \A B : Abstract!Min(B) = Min(B)
  BY DEF Abstract!Min, Min
<1>6. \A B : Abstract!Max(B) = Max(B)
  BY DEF Abstract!Max, Max
<1> QED
  BY <1>1, <1>2, <1>3, <1>4, <1>5, <1>6

(* A task stands in line exactly while it is RUNNABLE, in the line of its  *)
(* priority only.                                                          *)
LEMMA InLineIsRunnable ==
    ASSUME KInv(k), NEW t \in Task
    PROVE  /\ Abstract!InLine(t) <=> k.task_state[t] = "RUNNABLE"
           /\ \A p \in Priority : t \in Range(k.runnable_tasks_list[p])
                 <=> k.task_state[t] = "RUNNABLE" /\ k.priority[t] = p
<1>1. \A p \in Priority : t \in Range(k.runnable_tasks_list[p])
         <=> k.task_state[t] = "RUNNABLE" /\ k.priority[t] = p
  BY KInvImplies DEF ReadyListsConsistent
<1>2. k.priority[t] \in Priority
  BY DEF KInv, KernelState
<1> QED
  BY <1>1, <1>2, AbstractLists DEF Abstract!InLine

(* The next task is the first of the most urgent occupied line.            *)
LEMMA NextIsTheMostUrgent ==
    ASSUME KInv(k)
    PROVE  Abstract!MostUrgent = k.next_task_to_run
<1> DEFINE rl == k.runnable_tasks_list
           occupied == {p \in Priority : rl[p] # <<>>}
<1>1. PICK p \in Priority :
        /\ rl[p] # <<>>
        /\ k.next_task_to_run = Head(rl[p])
        /\ \A q \in Priority : rl[q] # <<>> => p <= q
  BY KInvImplies DEF NextIsMostUrgent
<1>2. /\ occupied \in SUBSET Priority /\ occupied # {}
      /\ p \in occupied
  BY <1>1
<1>3. Min(occupied) \in occupied /\ \A q \in occupied : Min(occupied) <= q
  BY <1>2, LowestBit
<1>4. Min(occupied) = p
  <2>1. p \in Int /\ Min(occupied) \in Int
    BY <1>2, <1>3, SizesAssumption DEF Priority
  <2>2. p <= Min(occupied) /\ Min(occupied) <= p
    BY <1>1, <1>2, <1>3
  <2> HIDE DEF occupied
  <2> QED
    BY <2>1, <2>2
<1>5. Abstract!Occupied = occupied
  BY DEF Abstract!Occupied
<1> QED
  BY <1>1, <1>4, <1>5, AbstractLists DEF Abstract!MostUrgent

(* The task that runs leaves its line when it starts to wait.              *)
LEMMA WaitIsLeave ==
    ASSUME KInv(k), NEW t \in Task, t # idle_task,
           t = k.current_running_task, k.task_state[t] = "RUNNABLE",
           NEW timeout, k' = task_curr_to_wait_action(k, NULL, "SLEEP", timeout)
    PROVE  Abstract!Leave
<1> DEFINE s == task_curr_to_wait_action(k, NULL, "SLEEP", timeout)
<1>1. StartsToWait(s, k, t, NULL, timeout)
  BY CurrToWaitEffect
<1>2. k' = s
  OBVIOUS
<1> HIDE DEF s
<1>3. /\ k'.runnable_tasks_list =
            [p \in Priority |-> Without(k.runnable_tasks_list[p], t)]
      /\ k'.current_running_task = k.current_running_task
  BY <1>1, <1>2 DEF StartsToWait
<1>4. Abstract!InLine(k.current_running_task)
  BY InLineIsRunnable
<1> QED
  BY <1>3, <1>4, AbstractLists DEF Abstract!Leave

(* A tick puts the timer task in line, behind at most one turned line.     *)
LEMMA TickIsTick ==
    ASSUME KInv(k), k' = tick_int_processing(k)
    PROVE  Abstract!Tick({}) \/ \E p \in Priority : Abstract!Tick({p})
<1> DEFINE lists == k.runnable_tasks_list
           s == tick_int_processing(k)
<1>1. s.current_running_task = k.current_running_task
  BY TickIntProcessing
<1>2. PICK rl \in [Priority -> Seq(Task)] :
        /\ Turned(rl, lists)
        /\ s.runnable_tasks_list = [p \in Priority |->
              IF p = 0 THEN InsertLast(Without(rl[0], timer_task), timer_task)
              ELSE rl[p]]
  BY TickEffect
<1>3. k' = s
  OBVIOUS
<1> HIDE DEF s
<1>4. /\ k'.current_running_task = k.current_running_task
      /\ k'.runnable_tasks_list = [p \in Priority |->
              IF p = 0 THEN InsertLast(Without(rl[0], timer_task), timer_task)
              ELSE rl[p]]
      /\ 0 \in Priority
      /\ lists \in [Priority -> Seq(Task)]
  BY <1>1, <1>2, <1>3, SystemTasksAreTasks DEF KInv, KernelState
<1>5. CASE rl = lists
  <2>1. \A p \in Priority : rl[p] = lists[p]
    BY <1>5
  <2> QED
    BY <1>4, <2>1, AbstractLists DEF Abstract!Tick
<1>6. ASSUME NEW p \in Priority, lists[p] # <<>>, rl = [lists EXCEPT ![p] = HeadToTail(@)]
      PROVE  Abstract!Tick({p})
  <2>1. \A q \in Priority : rl[q] =
           IF q \in {p} /\ lists[q] # <<>> THEN HeadToTail(lists[q]) ELSE lists[q]
    BY <1>4, <1>6
  <2> DEFINE turned == [q \in Priority |->
           IF q \in {p} /\ lists[q] # <<>> THEN HeadToTail(lists[q]) ELSE lists[q]]
  <2>2. rl = turned
    BY <2>1
  <2>3. turned = [q \in Priority |->
           IF q \in {p} /\ lists[q] # <<>>
           THEN Abstract!HeadToTail(lists[q]) ELSE lists[q]]
    BY AbstractLists
  <2> QED
    BY <1>4, <2>2, <2>3, AbstractLists DEF Abstract!Tick
<1> QED
  BY <1>2, <1>5, <1>6 DEF Turned

(* The scan puts a task whose timeout ends at the end of its line; on the  *)
(* others it does nothing the abstract scheduler sees.                     *)
LEMMA ScanIsArrive ==
    ASSUME KInv(k), NEW t \in Task, k.task_state[t] = "WAIT",
           k.tick_count[t] \in Timeout, k' = timer_visit(k, t)
    PROVE  \/ \E p \in Priority : Abstract!Arrive(t, p)
           \/ UNCHANGED Abstract!vars
<1> DEFINE s == timer_visit(k, t)
<1>1. IF k.tick_count[t] > 1
      THEN s = [k EXCEPT !.tick_count[t] = @ - 1]
      ELSE EndsItsWait(s, k, t, "ERR_TIMEOUT")
  BY TimerVisitEffect
<1>2. k' = s
  OBVIOUS
<1> HIDE DEF s
<1>3. CASE k.tick_count[t] > 1
  <2>1. k \in KernelState
    BY DEF KInv
  <2>2. k' = [k EXCEPT !.tick_count[t] = @ - 1]
    BY <1>1, <1>2, <1>3
  <2> QED
    BY <2>1, <2>2 DEF KernelState, Abstract!vars
<1>4. CASE ~(k.tick_count[t] > 1)
  <2>1. /\ k'.runnable_tasks_list =
              [k.runnable_tasks_list EXCEPT ![k.priority[t]] = InsertLast(@, t)]
        /\ k'.current_running_task = k.current_running_task
    BY <1>1, <1>2, <1>4 DEF EndsItsWait
  <2>2. ~ Abstract!InLine(t)
    BY InLineIsRunnable
  <2>3. /\ k.priority[t] \in Priority
        /\ k.runnable_tasks_list \in [Priority -> Seq(Task)]
    BY DEF KInv, KernelState
  <2>4. Abstract!Arrive(t, k.priority[t])
    BY <2>1, <2>2, <2>3, AbstractLists DEF Abstract!Arrive
  <2> QED
    BY <2>3, <2>4
<1> QED
  BY <1>3, <1>4

(* A task created to start at once arrives; a dormant one is not seen.     *)
LEMMA CreateIsArrive ==
    ASSUME KInv(k), NEW t \in Task, k.task_state[t] = "NONE",
           NEW p \in Priority, NEW option, k' = create_task(k, t, p, option)
    PROVE  Abstract!Arrive(t, p) \/ UNCHANGED Abstract!vars
<1> DEFINE s == create_task(k, t, p, option)
           start == "TASK_START_ON_CREATION" \in option
<1>0. k \in KernelState
  BY DEF KInv
<1>1. Creates(s, k, t, p, start)
  BY <1>0, CreateTaskEffect
<1>2. k' = s
  OBVIOUS
<1> HIDE DEF s, start
<1>3. ~ Abstract!InLine(t)
  BY InLineIsRunnable
<1>4. k.runnable_tasks_list \in [Priority -> Seq(Task)]
  BY DEF KInv, KernelState
<1>5. CASE start
  <2>1. k'.runnable_tasks_list = [k.runnable_tasks_list EXCEPT ![p] = InsertLast(@, t)]
    BY <1>1, <1>2, <1>5 DEF Creates
  <2> QED
    BY <1>1, <1>2, <1>3, <1>4, <2>1, AbstractLists DEF Abstract!Arrive, Creates
<1>6. CASE ~ start
  BY <1>1, <1>2, <1>6 DEF Abstract!vars, Creates
<1> QED
  BY <1>5, <1>6

(* When the kernel starts, the timer task and the idle task, which runs,   *)
(* are alone in their lines.                                               *)
LEMMA InitIsInit == Init => Abstract!Init
<1> SUFFICES ASSUME Init PROVE Abstract!Init
  OBVIOUS
<1> DEFINE lists == k.runnable_tasks_list
           low == NUM_PRIORITY - 1
<1>1. /\ KInv(k)
      /\ k.current_running_task = idle_task
      /\ \A t \in Task : k.task_state[t] = IF t \in SystemTask THEN "RUNNABLE" ELSE "NONE"
  <2>1. k = kernel_main
    BY DEF Init
  <2> QED
    BY <2>1, KernelMain
<1>2. /\ k.priority[timer_task] = 0
      /\ k.priority[idle_task] = low
      /\ timer_task \in Task /\ idle_task \in Task /\ timer_task # idle_task
      /\ SystemTask = {timer_task, idle_task}
      /\ 0 \in Priority /\ low \in Priority /\ low # 0
  BY <1>1, SystemTasksAreTasks, SizesAssumption DEF KInv, SystemPriorities, SystemTask
<1>2a. lists \in [Priority -> Seq(Task)]
  BY <1>1 DEF KInv, KernelState
<1>2b. ASSUME NEW p \in Priority
       PROVE  /\ Distinct(lists[p])
              /\ \A t \in Task : t \in Range(lists[p])
                    <=> t \in SystemTask /\ k.priority[t] = p
  BY <1>1, KInvImplies DEF ReadyListsConsistent
<1>3. ASSUME NEW p \in Priority
      PROVE  lists[p] = IF p = 0 THEN <<timer_task>>
                        ELSE IF p = low THEN <<idle_task>> ELSE <<>>
  <2> DEFINE q == lists[p]
  <2>1. /\ q \in Seq(Task)
        /\ Distinct(q)
        /\ \A t \in Task : t \in Range(q) <=> t \in SystemTask /\ k.priority[t] = p
    BY <1>2a, <1>2b
  <2> HIDE DEF q, low
  <2>2. Range(q) \subseteq Task
    BY <2>1, ListElements
  <2>3. CASE p # 0 /\ p # low
    <3>1. Range(q) = {}
      BY <1>2, <2>1, <2>2, <2>3
    <3>2. q = <<>>
      BY <2>1, <3>1, EmptyList
    <3> QED
      BY <2>3, <3>2 DEF q
  <2>4. CASE p = 0
    <3>1. Range(q) = {timer_task}
      BY <1>2, <2>1, <2>2, <2>4
    <3>2. q = <<timer_task>>
      BY <2>1, <3>1, ListOfOne
    <3> QED
      BY <2>4, <3>2 DEF q
  <2>5. CASE p # 0 /\ p = low
    <3>1. Range(q) = {idle_task}
      BY <1>2, <2>1, <2>2, <2>5
    <3>2. q = <<idle_task>>
      BY <2>1, <3>1, ListOfOne
    <3> QED
      BY <2>5, <3>2 DEF q
  <2> QED
    BY <2>3, <2>4, <2>5
<1>4. Max(Priority) = low
  <2>1. low \in Priority /\ \A q \in Priority : low >= q
    BY SizesAssumption DEF Priority
  <2>2. \A x \in Priority : (\A q \in Priority : x >= q) => x = low
    BY <2>1, SizesAssumption DEF Priority
  <2> HIDE DEF low
  <2> QED
    BY <2>1, <2>2 DEF Max
<1>5. lists = [p \in Priority |-> IF p = 0 THEN <<timer_task>>
                  ELSE IF p = Max(Priority) THEN <<k.current_running_task>> ELSE <<>>]
  <2> DEFINE f == [p \in Priority |-> IF p = 0 THEN <<timer_task>>
                  ELSE IF p = Max(Priority) THEN <<k.current_running_task>> ELSE <<>>]
  <2>1. \A p \in Priority : lists[p] = f[p]
    BY <1>1, <1>3, <1>4
  <2> QED
    BY <1>2a, <2>1
<1> QED
  BY <1>1, <1>2, <1>5, AbstractLists DEF Abstract!Init

LEMMA StepIsStep == IInv /\ [Next]_vars => [Abstract!Next]_(Abstract!vars)
<1> SUFFICES ASSUME IInv, [Next]_vars
             PROVE  Abstract!Next \/ UNCHANGED Abstract!vars
  BY DEF Abstract!vars
<1>1. KInv(k)
  BY DEF IInv
<1>2. CASE SysTick_Handler
  BY <1>1, <1>2, TickIsTick DEF SysTick_Handler, Abstract!Next
<1>3. CASE PendSV_Handler
  <2>1. /\ k' = [k EXCEPT !.current_running_task = k.next_task_to_run]
        /\ k \in KernelState
    BY <1>1, <1>3 DEF PendSV_Handler, KInv
  <2>2. /\ k'.runnable_tasks_list = k.runnable_tasks_list
        /\ k'.current_running_task = k.next_task_to_run
    BY <2>1 DEF KernelState
  <2> QED
    BY <1>1, <2>2, NextIsTheMostUrgent DEF Abstract!Next, Abstract!Dispatch
<1>4. CASE TimerScanStep
  <2> DEFINE t == k.waiting_timeout_tasks_list[cursor]
  <2>1. /\ cursor \in 1 .. Len(k.waiting_timeout_tasks_list)
        /\ k.waiting_timeout_tasks_list \in Seq(Task)
        /\ TimersConsistent(k)
        /\ k' = timer_visit(k, t)
    BY <1>1, <1>4 DEF IInv, TypeOK, TimerScanStep, KInv, KernelState
  <2>2. t \in Task /\ t \in Range(k.waiting_timeout_tasks_list)
    BY <2>1 DEF Range
  <2>3. k.task_state[t] = "WAIT" /\ k.tick_count[t] \in Timeout
    BY <2>1, <2>2 DEF TimersConsistent
  <2> HIDE DEF t
  <2>4. \/ \E p \in Priority : Abstract!Arrive(t, p)
        \/ UNCHANGED Abstract!vars
    BY <1>1, <2>1, <2>2, <2>3, ScanIsArrive
  <2> QED
    BY <2>2, <2>4 DEF Abstract!Next
<1>5. CASE TimerWait
  <2>1. /\ timer_task \in Task /\ timer_task # idle_task
        /\ timer_task = k.current_running_task
        /\ k.task_state[timer_task] = "RUNNABLE"
    BY <1>5, SystemTasksAreTasks, ThreadIsRunnable DEF TimerWait, Thread
  <2> QED
    BY <1>1, <1>5, <2>1, WaitIsLeave DEF TimerWait, Abstract!Next
<1>6. ASSUME NEW t \in UserTask, NEW time \in Timeout \cup {WAIT_INFINITE}, sleep(t, time)
      PROVE  Abstract!Next
  <2>1. /\ t \in Task /\ t # idle_task /\ t = k.current_running_task
        /\ k.task_state[t] = "RUNNABLE"
    BY <1>6, TasksAssumption, ThreadIsRunnable DEF sleep, Thread, Task
  <2> QED
    BY <1>1, <1>6, <2>1, WaitIsLeave DEF sleep, Abstract!Next
<1>7. ASSUME NEW creator \in UserTask \cup {timer_task}, NEW t \in UserTask,
             NEW p \in Priority, NEW option \in SUBSET {"TASK_START_ON_CREATION"},
             Create(creator, t, p, option)
      PROVE  Abstract!Next \/ UNCHANGED Abstract!vars
  <2>1. t \in Task
    BY DEF Task
  <2>2. k.task_state[t] = "NONE" /\ k' = create_task(k, t, p, option)
    BY <1>7 DEF Create
  <2>3. Abstract!Arrive(t, p) \/ UNCHANGED Abstract!vars
    BY <1>1, <2>1, <2>2, CreateIsArrive
  <2> QED
    BY <2>1, <2>3 DEF Abstract!Next
<1>8. CASE \/ UART0_IRQHandler \/ TimerInitDone \/ TimerScanBegin
           \/ (\E t \in Task : switch_context(t)) \/ UNCHANGED vars
  BY <1>8 DEF UART0_IRQHandler, TimerInitDone, TimerScanBegin, switch_context, vars,
              Abstract!vars
<1> QED
  BY <1>2, <1>3, <1>4, <1>5, <1>6, <1>7, <1>8
     DEF Next, Interrupt, timer_task_function, user_task_function

(* Tasks join the line of their priority at its end, leave it only by      *)
(* giving up the CPU themselves, and the CPU is only ever given to the     *)
(* first of the most urgent line, whatever the ticks and interrupts        *)
(* (task.c, PendSV_Handler): the safety part of the refinement, for every  *)
(* number of tasks and priorities.                                         *)
THEOREM SchedulesByPriority == Spec => Abstract!Spec
BY InitIsInit, Invariant, StepIsStep, PTL DEF Spec, Abstract!Spec

-----------------------------------------------------------------------------
(***************************************************************************)
(* How long a sleep lasts: no sleep ends early, and no scan counts a       *)
(* timeout twice or not at all.                                            *)
(*                                                                         *)
(* Both properties are about one step, but they need to know what every    *)
(* earlier step has counted.  The invariant keeps the books: a sleeping    *)
(* task has been counted down by at most the ticks that came, and by one   *)
(* less while the scan that a tick has asked for has not reached it yet.   *)
(***************************************************************************)

list == k.waiting_timeout_tasks_list

Scanning == pc[timer_task] = "scan"

(* Element u stands in list q at position c or behind it.                  *)
From(q, c, u) == \E i \in DOMAIN q : i >= c /\ q[i] = u

(* A tick that the scan has not taken from task t yet.                     *)
Owed(t) == k.task_state[timer_task] = "RUNNABLE" /\ (Scanning => From(list, cursor, t))

TimingTypes ==
    /\ asked \in [Task -> 0 .. MaxTimeout]
    /\ elapsed \in [Task -> 0 .. MaxTimeout]
    /\ before \in [Task -> 0 .. MaxTimeout]

(* A RUNNABLE timer task has the CPU, or PendSV is about to give it.       *)
TimerGoesFirst ==
    ~ pendsv /\ k.task_state[timer_task] = "RUNNABLE"
        => k.current_running_task = timer_task

TicksCounted ==
    \A t \in UserTask : t \in Listed =>
        /\ asked[t] \in Timeout
        /\ elapsed[t] + k.tick_count[t] >= asked[t]
        /\ Owed(t) => elapsed[t] + k.tick_count[t] > asked[t]

(* What the scan under way has done to the timeouts it found.              *)
VisitedOnce ==
    Scanning => \A t \in UserTask : before[t] > 0 =>
        IF t \in Listed
        THEN k.tick_count[t] = IF From(list, cursor, t) THEN before[t] ELSE before[t] - 1
        ELSE before[t] = 1 /\ k.task_state[t] = "RUNNABLE"

TimingInv ==
    /\ IInv
    /\ TimingTypes
    /\ Scanning => primask
    /\ TimerGoesFirst
    /\ TicksCounted
    /\ VisitedOnce

-----------------------------------------------------------------------------
(* The two ways the scan goes on: past an element, or over the gap of one  *)
(* it has taken out.  Either way the elements ahead of it are the ones     *)
(* that were ahead, without the one it was at.                             *)
LEMMA FromNext ==
    ASSUME NEW S, NEW q \in Seq(S), Distinct(q), NEW c \in 1 .. Len(q), NEW u
    PROVE  From(q, c + 1, u) <=> From(q, c, u) /\ u # q[c]
BY DEF From, Distinct, IsInjective

LEMMA FromWithout ==
    ASSUME NEW S, NEW q \in Seq(S), Distinct(q), NEW c \in 1 .. Len(q), NEW u
    PROVE  From(Without(q, q[c]), c, u) <=> From(q, c, u) /\ u # q[c]
<1> DEFINE r == Without(q, q[c])
<1>1. q[c] \in Range(q)
  BY DEF Range
<1>2. PICK i \in 1 .. Len(q) :
         /\ q[i] = q[c]
         /\ DOMAIN r = 1 .. Len(q) - 1
         /\ \A j \in 1 .. Len(q) - 1 : r[j] = IF j < i THEN q[j] ELSE q[j + 1]
  BY <1>1, WithoutAt
<1>3. i = c /\ Len(q) \in Nat /\ DOMAIN q = 1 .. Len(q)
  BY <1>2 DEF Distinct, IsInjective
<1> HIDE DEF r
<1>4. ASSUME From(r, c, u) PROVE From(q, c, u) /\ u # q[c]
  <2>1. PICK j \in 1 .. Len(q) - 1 : j >= c /\ r[j] = u
    BY <1>2, <1>4 DEF From
  <2>2. j + 1 \in 1 .. Len(q) /\ q[j + 1] = u /\ j + 1 # c
    BY <1>2, <1>3, <2>1
  <2> QED
    BY <1>3, <2>1, <2>2 DEF From, Distinct, IsInjective
<1>5. ASSUME From(q, c, u), u # q[c] PROVE From(r, c, u)
  <2>1. PICK j \in 1 .. Len(q) : j >= c /\ q[j] = u
    BY <1>3, <1>5 DEF From
  <2>2. j - 1 \in 1 .. Len(q) - 1 /\ j - 1 >= c
    BY <1>3, <1>5, <2>1
  <2>3. r[j - 1] = u
    BY <1>2, <1>3, <2>1, <2>2
  <2> QED
    BY <1>2, <2>2, <2>3 DEF From
<1> QED
  BY <1>4, <1>5 DEF r

(* Every listed task is ahead of a scan that begins.                       *)
LEMMA FromStart ==
    ASSUME NEW S, NEW q \in Seq(S), NEW u
    PROVE  From(q, 1, u) <=> u \in Range(q)
BY DEF From, Range

-----------------------------------------------------------------------------
LEMMA TimingStepIsStep == TimingNext => Next
BY DEF TimingNext, TimedTick, TimedSleep, TimedScanBegin, TimedScanStep, TimedWait,
       Untimed, Next, Interrupt, timer_task_function, user_task_function

(* A task in the list of timeouts waits, and has a tick to go.             *)
LEMMA ListedWaits ==
    ASSUME IInv, NEW t \in UserTask
    PROVE  /\ t \in Task /\ t # timer_task /\ t # idle_task
           /\ list \in Seq(Task) /\ Distinct(list)
           /\ t \in Listed <=> k.task_state[t] = "WAIT" /\ k.tick_count[t] \in Timeout
BY TasksAssumption DEF IInv, KInv, KernelState, TimersConsistent, Listed, list, Task

(* While interrupts are masked, nothing but the scan goes on.              *)
LEMMA ScanAlone ==
    ASSUME TimingInv, Scanning, TimingNext
    PROVE  TimedScanStep \/ TimedWait
<1>1. primask /\ k.current_running_task = timer_task /\ timer_task \notin UserTask
  BY TasksAssumption DEF TimingInv, IInv, ProgramCounters
<1> QED
  BY <1>1 DEF TimingNext, TimedTick, TimedSleep, TimedScanBegin, Untimed, Scanning,
              SysTick_Handler, sleep, TimerScanBegin, UART0_IRQHandler, PendSV_Handler,
              TimerInitDone, switch_context, Create, Thread

(* A step that counts no tick and begins no scan.                          *)
LEMMA SameTimes ==
    ASSUME TimingInv, ~ Scanning, ~ Scanning',
           k'.waiting_timeout_tasks_list = k.waiting_timeout_tasks_list,
           \A t \in UserTask : t \in Listed => k'.tick_count[t] = k.tick_count[t],
           k'.task_state[timer_task] = k.task_state[timer_task],
           UNCHANGED timingVars
    PROVE  (TimingTypes /\ (Scanning => primask) /\ TicksCounted /\ VisitedOnce)'
BY DEF TimingInv, TimingTypes, TicksCounted, VisitedOnce, Owed, Listed, list, timingVars

(* A tick: the sleepers' time goes on, and a scan is owed to all of them.  *)
LEMMA TickKeepsTime ==
    ASSUME TimingInv, TimedTick
    PROVE  (TimingTypes /\ (Scanning => primask) /\ TimerGoesFirst
               /\ TicksCounted /\ VisitedOnce)'
<1>1. /\ ~ primask /\ pendsv' = TRUE /\ pc' = pc /\ cursor' = cursor
      /\ k' = tick_int_processing(k)
      /\ asked' = asked /\ before' = before
      /\ elapsed' = [t \in Task |->
            IF asked[t] > 0 /\ elapsed[t] < MaxTimeout THEN elapsed[t] + 1 ELSE elapsed[t]]
      /\ KInv(k)
  BY DEF TimingInv, IInv, TimedTick, SysTick_Handler
<1>2. /\ k'.waiting_timeout_tasks_list = k.waiting_timeout_tasks_list
      /\ k'.tick_count = k.tick_count
  <2> DEFINE s == tick_int_processing(k)
  <2>1. /\ s.waiting_timeout_tasks_list = k.waiting_timeout_tasks_list
        /\ s.tick_count = k.tick_count
    BY <1>1, TickEffect
  <2> HIDE DEF s
  <2> QED
    BY <1>1, <2>1 DEF s
<1>3. ~ Scanning /\ ~ Scanning'
  BY <1>1 DEF TimingInv, Scanning
<1>4. TimingTypes'
  BY <1>1, SizesAssumption DEF TimingInv, TimingTypes
<1>5. TicksCounted'
  <2> SUFFICES ASSUME NEW t \in UserTask, t \in Listed
               PROVE  /\ asked[t] \in Timeout
                      /\ elapsed'[t] + k.tick_count[t] > asked[t]
    BY <1>1, <1>2, SizesAssumption, ListedWaits
       DEF TicksCounted, Listed, TimingInv, TimingTypes, Timeout
  <2>1. /\ t \in Task /\ k.tick_count[t] \in Timeout
        /\ asked[t] \in Timeout
        /\ elapsed[t] \in 0 .. MaxTimeout
        /\ elapsed[t] + k.tick_count[t] >= asked[t]
    BY ListedWaits DEF TimingInv, TicksCounted, TimingTypes
  <2>2. elapsed'[t] = IF elapsed[t] < MaxTimeout THEN elapsed[t] + 1 ELSE elapsed[t]
    BY <1>1, <2>1 DEF Timeout
  <2> QED
    BY <2>1, <2>2, SizesAssumption DEF Timeout
<1> QED
  BY <1>1, <1>3, <1>4, <1>5 DEF TimerGoesFirst, VisitedOnce

(* sleep: the timer task waits, so no scan is owed to the new sleeper.     *)
LEMMA SleepKeepsTime ==
    ASSUME TimingInv, NEW t \in UserTask, NEW time \in Timeout \cup {WAIT_INFINITE},
           TimedSleep(t, time)
    PROVE  (TimingTypes /\ (Scanning => primask) /\ TimerGoesFirst
               /\ TicksCounted /\ VisitedOnce)'
<1>1. /\ t \in Task /\ t # timer_task /\ t # idle_task
      /\ Thread(t) /\ pc[t] = "run"
      /\ k' = task_curr_to_wait_action(k, NULL, "SLEEP", time)
      /\ pc' = [pc EXCEPT ![t] = "switch"]
      /\ cursor' = cursor /\ primask' = primask /\ pendsv' = pendsv
      /\ asked' = [asked EXCEPT ![t] = IF time = WAIT_INFINITE THEN 0 ELSE time]
      /\ elapsed' = [elapsed EXCEPT ![t] = 0]
      /\ before' = before
      /\ KInv(k) /\ pc \in [Task -> {"init", "loop", "scan", "switch", "run"}]
  BY ListedWaits DEF TimingInv, IInv, TypeOK, TimedSleep, sleep
<1>2. /\ k.current_running_task = t
      /\ k.task_state[t] = "RUNNABLE"
      /\ ~ primask /\ ~ pendsv
      /\ ~ Scanning /\ ~ Scanning'
      /\ k.task_state[timer_task] = "WAIT"
  <2>1. k.current_running_task = t /\ ~ primask
    BY <1>1 DEF Thread, TimingInv, IInv, ProgramCounters
  <2>2. ~ pendsv
    BY <1>1, <2>1 DEF Thread
  <2>3. k.task_state[timer_task] = "WAIT"
    BY <1>1, <2>1, <2>2 DEF TimingInv, TimerGoesFirst, KInv, SystemTasks
  <2>4. k.task_state[t] = "RUNNABLE"
    BY <1>1, ThreadIsRunnable DEF TimingInv
  <2>5. ~ Scanning /\ ~ Scanning'
    BY <1>1, <2>1, SystemTasksAreTasks DEF TimingInv, Scanning
  <2> QED
    BY <2>1, <2>2, <2>3, <2>4, <2>5
<1>3. /\ k'.waiting_timeout_tasks_list =
            IF time = WAIT_INFINITE THEN list ELSE InsertLast(list, t)
      /\ k'.task_state = [k.task_state EXCEPT ![t] = "WAIT"]
      /\ k'.tick_count = [k.tick_count EXCEPT ![t] = time]
      /\ k'.current_running_task = t
  <2> DEFINE s == task_curr_to_wait_action(k, NULL, "SLEEP", time)
  <2>1. StartsToWait(s, k, t, NULL, time)
    BY <1>1, <1>2, CurrToWaitEffect
  <2> HIDE DEF s
  <2> QED
    BY <1>1, <1>2, <2>1 DEF s, StartsToWait, list
<1>4. TimingTypes'
  BY <1>1, SizesAssumption DEF TimingInv, TimingTypes, Timeout
<1>5. /\ list \in Seq(Task)
      /\ t \notin Listed
      /\ k.task_state \in [Task -> TaskState]
      /\ DOMAIN k.tick_count = Task
  BY <1>1, <1>2, ListedWaits DEF TimingInv, KInv, KernelState
<1>6. ASSUME NEW u \in UserTask, u \in Listed'
      PROVE  /\ asked'[u] \in Timeout
             /\ elapsed'[u] + k'.tick_count[u] >= asked'[u]
  <2>1. CASE u = t
    <3>1. time \in Timeout
      <4>1. time = WAIT_INFINITE => Listed' = Listed
        BY <1>3 DEF Listed, list
      <4> QED
        BY <1>5, <1>6, <2>1, <4>1
    <3>2. asked'[t] = time /\ elapsed'[t] = 0 /\ k'.tick_count[t] = time
      BY <1>1, <1>3, <1>5, <3>1, SystemTasksAreTasks DEF TimingInv, TimingTypes
    <3> QED
      BY <2>1, <3>1, <3>2, SizesAssumption DEF Timeout
  <2>2. CASE u # t
    <3>1. u \in Listed
      <4>1. Range(InsertLast(list, t)) = Range(list) \cup {t}
        BY <1>1, <1>5, InsertLastFacts
      <4> QED
        BY <1>3, <1>6, <2>2, <4>1 DEF Listed, list
    <3>2. u \in Task
      BY DEF Task
    <3>3. asked'[u] = asked[u] /\ elapsed'[u] = elapsed[u]
          /\ k'.tick_count[u] = k.tick_count[u]
      BY <1>1, <1>3, <1>5, <2>2, <3>2 DEF TimingInv, TimingTypes
    <3> QED
      BY <3>1, <3>3 DEF TimingInv, TicksCounted
  <2> QED
    BY <2>1, <2>2
<1>7. ~ \E u \in UserTask : Owed(u)'
  BY <1>1, <1>2, <1>3, <1>5, SystemTasksAreTasks DEF Owed
<1>8. TicksCounted'
  BY <1>6, <1>7 DEF TicksCounted
<1>9. TimerGoesFirst'
  BY <1>1, <1>2, <1>3, <1>5, SystemTasksAreTasks DEF TimerGoesFirst
<1> QED
  BY <1>2, <1>4, <1>8, <1>9 DEF VisitedOnce

(* The scan begins: it owes each listed task what the tick owed it.        *)
LEMMA BeginKeepsTime ==
    ASSUME TimingInv, TimedScanBegin
    PROVE  (TimingTypes /\ (Scanning => primask) /\ TimerGoesFirst
               /\ TicksCounted /\ VisitedOnce)'
<1>1. /\ k' = k /\ primask' = TRUE /\ cursor' = 1 /\ pendsv' = pendsv
      /\ k.task_state[timer_task] = "RUNNABLE"
      /\ ~ Scanning /\ Scanning'
      /\ asked' = asked /\ elapsed' = elapsed
      /\ before' = [t \in Task |-> IF t \in Listed THEN k.tick_count[t] ELSE 0]
      /\ k \in KernelState /\ TimersConsistent(k)
  BY ThreadIsRunnable, SystemTasksAreTasks
     DEF TimingInv, IInv, TypeOK, TimedScanBegin, TimerScanBegin, Scanning, KInv
<1>2. TimingTypes'
  <2>1. ASSUME NEW t \in Task PROVE before'[t] \in 0 .. MaxTimeout
    BY <1>1, SizesAssumption DEF TimersConsistent, Listed, Timeout
  <2> QED
    BY <1>1, <2>1 DEF TimingInv, TimingTypes
<1>3. TicksCounted'
  BY <1>1 DEF TimingInv, TicksCounted, Owed, Listed, list
<1>4. VisitedOnce'
  <2> SUFFICES ASSUME NEW t \in UserTask, before'[t] > 0
               PROVE  /\ t \in Listed'
                      /\ From(list, cursor, t)'
                      /\ k'.tick_count[t] = before'[t]
    BY DEF VisitedOnce
  <2>1. t \in Listed /\ before'[t] = k.tick_count[t]
    BY <1>1 DEF Task
  <2>2. From(list, 1, t)
    BY <2>1, ListedWaits, FromStart DEF Listed, list, TimingInv
  <2> QED
    BY <1>1, <2>1, <2>2 DEF Listed, list
<1>5. TimerGoesFirst'
  BY <1>1 DEF TimingInv, TimerGoesFirst
<1> QED
  BY <1>1, <1>2, <1>3, <1>4, <1>5

(* A turn of the scan: the task it visits is owed nothing any more, and    *)
(* wakes only if all the ticks it asked for have come.                     *)
LEMMA ScanKeepsTime ==
    ASSUME TimingInv, TimedScanStep
    PROVE  /\ (TimingTypes /\ (Scanning => primask) /\ TimerGoesFirst
                  /\ TicksCounted /\ VisitedOnce)'
           /\ \A t \in UserTask :
                 k.task_state[t] = "WAIT" /\ k'.task_state[t] = "RUNNABLE"
                    => elapsed[t] >= asked[t]
<1> DEFINE v == list[cursor]
           n == Len(list)
<1>1. /\ KInv(k) /\ IInv
      /\ list \in Seq(Task) /\ Distinct(list)
      /\ cursor \in 1 .. n /\ n \in Nat
      /\ k' = timer_visit(k, v)
      /\ cursor' = IF k'.task_state[v] = "WAIT" THEN cursor + 1 ELSE cursor
      /\ pc' = pc /\ primask' = primask /\ pendsv' = pendsv
      /\ Scanning /\ Scanning' /\ primask
      /\ asked' = [t \in Task |-> IF k'.task_state[t] = "RUNNABLE" THEN 0 ELSE asked[t]]
      /\ elapsed' = [t \in Task |-> IF k'.task_state[t] = "RUNNABLE" THEN 0 ELSE elapsed[t]]
      /\ before' = before
  <2>1. /\ KInv(k) /\ IInv /\ k \in KernelState /\ TimersConsistent(k)
        /\ cursor \in Nat \ {0} /\ (Scanning => primask)
    BY DEF TimingInv, IInv, TypeOK, KInv
  <2>2. list \in Seq(Task) /\ Distinct(list)
    BY <2>1 DEF KernelState, TimersConsistent, list
  <2> QED
    BY <2>1, <2>2 DEF TimedScanStep, TimerScanStep, Scanning, list
<1>2. /\ v \in Task /\ v \in Listed
      /\ k.task_state[v] = "WAIT" /\ k.tick_count[v] \in Timeout
      /\ v # timer_task
      /\ k.task_state[timer_task] = "RUNNABLE" /\ k.current_running_task = timer_task
  <2>1. v \in Task /\ v \in Listed
    BY <1>1 DEF Listed, list, Range
  <2>2. k.task_state[v] = "WAIT" /\ k.tick_count[v] \in Timeout
    BY <1>1, <2>1 DEF KInv, TimersConsistent, Listed
  <2> QED
    BY <1>1, <2>1, <2>2 DEF TimingInv, IInv, ProgramCounters
<1>3. IF k.tick_count[v] > 1
      THEN k' = [k EXCEPT !.tick_count[v] = @ - 1]
      ELSE EndsItsWait(k', k, v, "ERR_TIMEOUT")
  <2> DEFINE s == timer_visit(k, v)
  <2>1. IF k.tick_count[v] > 1
        THEN s = [k EXCEPT !.tick_count[v] = @ - 1]
        ELSE EndsItsWait(s, k, v, "ERR_TIMEOUT")
    BY <1>1, <1>2, TimerVisitEffect
  <2> HIDE DEF s
  <2> QED
    BY <1>1, <2>1 DEF s
<1>4. /\ k \in KernelState
      /\ k.task_state \in [Task -> TaskState]
      /\ DOMAIN k.tick_count = Task
      /\ k.tick_count[v] # WAIT_INFINITE
      /\ k.tick_count[v] \in Int /\ k.tick_count[v] >= 1 /\ k.tick_count[v] <= MaxTimeout
      /\ MaxTimeout \in Nat
  <2>1. k \in KernelState
    BY <1>1 DEF KInv
  <2>2. k.task_state \in [Task -> TaskState] /\ DOMAIN k.tick_count = Task
    BY <2>1 DEF KernelState
  <2> DEFINE ticks == k.tick_count[v]
  <2>3. ticks \in Timeout
    BY <1>2
  <2> HIDE DEF ticks
  <2>4. /\ ticks # WAIT_INFINITE /\ ticks \in Int /\ ticks >= 1 /\ ticks <= MaxTimeout
        /\ MaxTimeout \in Nat
    BY <2>3, SystemTasksAreTasks, SizesAssumption DEF Timeout
  <2> QED
    BY <2>1, <2>2, <2>4 DEF ticks
<1> HIDE DEF v, n
<1>5. TimingTypes'
  BY <1>1, <1>4 DEF TimingInv, TimingTypes
<1>6. /\ k'.current_running_task = k.current_running_task
      /\ k'.task_state[timer_task] = "RUNNABLE"
      /\ \A u \in Task : u # v => /\ k'.task_state[u] = k.task_state[u]
                                  /\ k'.tick_count[u] = k.tick_count[u]
      /\ k.tick_count[v] > 1 => /\ k'.task_state[v] = "WAIT"
                                /\ k'.tick_count[v] = k.tick_count[v] - 1
                                /\ k'.waiting_timeout_tasks_list = list
                                /\ cursor' = cursor + 1
      /\ ~(k.tick_count[v] > 1) => /\ k'.task_state[v] = "RUNNABLE"
                                   /\ k'.waiting_timeout_tasks_list = Without(list, v)
                                   /\ cursor' = cursor
  <2>1. CASE k.tick_count[v] > 1
    <3>1. /\ k'.current_running_task = k.current_running_task
          /\ k'.task_state = k.task_state
          /\ k'.tick_count = [k.tick_count EXCEPT ![v] = @ - 1]
          /\ k'.waiting_timeout_tasks_list = list
      BY <1>3, <1>4, <2>1 DEF KernelState, list
    <3> QED
      BY <1>1, <1>2, <1>4, <2>1, <3>1, SystemTasksAreTasks
  <2>2. CASE ~(k.tick_count[v] > 1)
    <3>1. /\ k'.current_running_task = k.current_running_task
          /\ k'.task_state = [k.task_state EXCEPT ![v] = "RUNNABLE"]
          /\ k'.tick_count = [k.tick_count EXCEPT ![v] = WAIT_INFINITE]
          /\ k'.waiting_timeout_tasks_list = Without(list, v)
      BY <1>3, <1>4, <2>2 DEF EndsItsWait, list
    <3> QED
      BY <1>1, <1>2, <1>4, <2>2, <3>1, SystemTasksAreTasks
  <2> QED
    BY <2>1, <2>2
<1>7. /\ \A u : From(list, cursor, u)' <=> From(list, cursor, u) /\ u # v
      /\ \A u : u \in Listed' <=> u \in Listed /\ (u = v => k.tick_count[v] > 1)
      /\ From(list, cursor, v)
  <2>1. From(list, cursor, v)
    BY <1>1 DEF From, v, n
  <2>2. CASE k.tick_count[v] > 1
    <3>1. ASSUME NEW u PROVE From(list, cursor + 1, u) <=> From(list, cursor, u) /\ u # v
      BY <1>1, FromNext DEF v, n
    <3> QED
      BY <1>6, <2>1, <2>2, <3>1 DEF Listed, list
  <2>3. CASE ~(k.tick_count[v] > 1)
    <3>1. ASSUME NEW u
          PROVE  From(Without(list, v), cursor, u) <=> From(list, cursor, u) /\ u # v
      BY <1>1, FromWithout DEF v, n
    <3>2. Range(Without(list, v)) = Range(list) \ {v}
      BY <1>1, <1>2, WithoutFacts
    <3> QED
      BY <1>6, <2>1, <2>3, <3>1, <3>2 DEF Listed, list
  <2> QED
    BY <2>2, <2>3
<1>8. \A t \in UserTask :
         k.task_state[t] = "WAIT" /\ k'.task_state[t] = "RUNNABLE"
            => elapsed[t] >= asked[t]
  <2> SUFFICES ASSUME NEW t \in UserTask,
                      k.task_state[t] = "WAIT", k'.task_state[t] = "RUNNABLE"
               PROVE  elapsed[t] >= asked[t]
    OBVIOUS
  <2>1. t = v /\ k.tick_count[t] = 1
    BY <1>4, <1>6 DEF Task
  <2>2. Owed(t) /\ t \in Listed
    BY <1>2, <1>7, <2>1 DEF Owed
  <2>3. /\ elapsed[t] \in Int /\ asked[t] \in Int
        /\ elapsed[t] + k.tick_count[t] > asked[t]
    BY <1>2, <1>4, <2>1, <2>2 DEF TimingInv, TicksCounted, TimingTypes
  <2> QED
    BY <2>1, <2>3
<1>9. TicksCounted'
  <2> SUFFICES ASSUME NEW t \in UserTask, t \in Listed'
               PROVE  /\ asked'[t] \in Timeout
                      /\ elapsed'[t] + k'.tick_count[t] >= asked'[t]
                      /\ Owed(t)' => elapsed'[t] + k'.tick_count[t] > asked'[t]
    BY DEF TicksCounted
  <2>1. t \in Task /\ t \in Listed /\ (t = v => k.tick_count[v] > 1)
    BY <1>7 DEF Task
  <2>2. k.task_state[t] = "WAIT" /\ k.tick_count[t] \in Timeout
    BY <1>1, <2>1, ListedWaits
  <2>3. k'.task_state[t] = "WAIT"
    BY <1>6, <2>1, <2>2
  <2>4. asked'[t] = asked[t] /\ elapsed'[t] = elapsed[t]
    BY <1>1, <2>1, <2>3
  <2>5. /\ asked[t] \in Timeout /\ elapsed[t] \in Int
        /\ elapsed[t] + k.tick_count[t] >= asked[t]
        /\ Owed(t) => elapsed[t] + k.tick_count[t] > asked[t]
    BY <1>4, <2>1 DEF TimingInv, TicksCounted, TimingTypes
  <2>6. CASE t = v
    <3>1. Owed(t) /\ ~ Owed(t)'
      BY <1>1, <1>2, <1>7, <2>6 DEF Owed
    <3>2. k'.tick_count[t] = k.tick_count[t] - 1
      BY <1>6, <2>1, <2>6
    <3> QED
      BY <2>2, <2>4, <2>5, <3>1, <3>2 DEF Timeout
  <2>7. CASE t # v
    <3>1. Owed(t)' => Owed(t)
      BY <1>1, <1>2, <1>7, <2>7 DEF Owed
    <3>2. k'.tick_count[t] = k.tick_count[t]
      BY <1>6, <2>1, <2>7
    <3> QED
      BY <2>4, <2>5, <3>1, <3>2
  <2> QED
    BY <2>6, <2>7
<1>10. VisitedOnce'
  <2> SUFFICES ASSUME NEW t \in UserTask, before[t] > 0
               PROVE  IF t \in Listed'
                      THEN k'.tick_count[t] =
                              IF From(list, cursor, t)' THEN before[t] ELSE before[t] - 1
                      ELSE before[t] = 1 /\ k'.task_state[t] = "RUNNABLE"
    BY <1>1 DEF VisitedOnce
  <2>1. /\ t \in Task
        /\ before[t] \in Int
        /\ IF t \in Listed
           THEN k.tick_count[t] = IF From(list, cursor, t) THEN before[t] ELSE before[t] - 1
           ELSE before[t] = 1 /\ k.task_state[t] = "RUNNABLE"
    BY <1>1, <1>4 DEF TimingInv, VisitedOnce, TimingTypes, Task
  <2>2. CASE t = v
    BY <1>2, <1>4, <1>6, <1>7, <2>1, <2>2
  <2>3. CASE t # v
    BY <1>6, <1>7, <2>1, <2>3
  <2> QED
    BY <2>2, <2>3
<1>11. TimerGoesFirst'
  BY <1>2, <1>6 DEF TimerGoesFirst
<1> QED
  BY <1>1, <1>5, <1>8, <1>9, <1>10, <1>11

(* The end of the scan: nothing is owed any more, and every timeout found  *)
(* at its beginning has been counted.                                      *)
LEMMA WaitKeepsTime ==
    ASSUME TimingInv, TimedWait
    PROVE  /\ (TimingTypes /\ (Scanning => primask) /\ TimerGoesFirst
                  /\ TicksCounted /\ VisitedOnce)'
           /\ \A t \in Task : k'.task_state[t] = "RUNNABLE" => k.task_state[t] = "RUNNABLE"
           /\ \A t \in UserTask :
                 before[t] > 0 =>
                    IF before[t] = 1
                    THEN k.task_state[t] = "RUNNABLE" /\ t \notin Listed
                    ELSE t \in Listed /\ k.tick_count[t] = before[t] - 1
<1>1. /\ KInv(k) /\ IInv
      /\ Thread(timer_task) /\ pc[timer_task] # "switch" /\ Scanning
      /\ cursor \in Nat /\ cursor > Len(list) /\ list \in Seq(Task)
      /\ k' = task_curr_to_wait_action(k, NULL, "SLEEP", WAIT_INFINITE)
      /\ pc' = [pc EXCEPT ![timer_task] = "switch"]
      /\ pc \in [Task -> {"init", "loop", "scan", "switch", "run"}]
      /\ pendsv' = pendsv
      /\ before' = [t \in Task |-> 0] /\ asked' = asked /\ elapsed' = elapsed
  BY DEF TimingInv, IInv, TypeOK, KInv, KernelState, TimedWait, TimerWait, Scanning, list
<1>2. k.current_running_task = timer_task /\ k.task_state[timer_task] = "RUNNABLE"
  BY <1>1, ThreadIsRunnable, SystemTasksAreTasks DEF Thread
<1>3. /\ k'.waiting_timeout_tasks_list = list
      /\ k'.task_state = [k.task_state EXCEPT ![timer_task] = "WAIT"]
      /\ k'.tick_count = [k.tick_count EXCEPT ![timer_task] = WAIT_INFINITE]
  <2> DEFINE s == task_curr_to_wait_action(k, NULL, "SLEEP", WAIT_INFINITE)
  <2>1. StartsToWait(s, k, timer_task, NULL, WAIT_INFINITE)
    BY <1>1, <1>2, CurrToWaitEffect, SystemTasksAreTasks
  <2> HIDE DEF s
  <2> QED
    BY <1>1, <2>1 DEF s, StartsToWait, list
<1>4. k.task_state \in [Task -> TaskState] /\ DOMAIN k.tick_count = Task
  BY <1>1 DEF KInv, KernelState
<1>5. ~ Scanning' /\ k'.task_state[timer_task] = "WAIT"
  BY <1>1, <1>3, <1>4, SystemTasksAreTasks DEF Scanning
<1>6. TimingTypes'
  BY <1>1, SizesAssumption DEF TimingInv, TimingTypes
<1>7. TicksCounted'
  <2> SUFFICES ASSUME NEW t \in UserTask, t \in Listed
               PROVE  k'.tick_count[t] = k.tick_count[t]
    BY <1>1, <1>3, <1>5 DEF TimingInv, TicksCounted, Owed, Listed, list
  <2> QED
    BY <1>1, <1>3, <1>4, ListedWaits
<1>8. ASSUME NEW t \in UserTask, before[t] > 0
      PROVE  IF before[t] = 1
             THEN k.task_state[t] = "RUNNABLE" /\ t \notin Listed
             ELSE t \in Listed /\ k.tick_count[t] = before[t] - 1
  <2>1. ~ From(list, cursor, t)
    BY <1>1 DEF From
  <2>2. /\ before[t] \in Int
        /\ IF t \in Listed THEN k.tick_count[t] = before[t] - 1
           ELSE before[t] = 1 /\ k.task_state[t] = "RUNNABLE"
    BY <1>1, <1>8, <2>1, SizesAssumption DEF TimingInv, VisitedOnce, TimingTypes, Task
  <2>3. t \in Listed => k.tick_count[t] >= 1
    BY <1>1, ListedWaits, SizesAssumption DEF Timeout
  <2> QED
    BY <2>2, <2>3
<1> QED
  BY <1>3, <1>4, <1>5, <1>6, <1>7, <1>8 DEF TimerGoesFirst, VisitedOnce

(* PendSV: a RUNNABLE timer task is alone in the most urgent line.         *)
LEMMA TimerIsNext ==
    ASSUME KInv(k), k.task_state[timer_task] = "RUNNABLE"
    PROVE  k.next_task_to_run = timer_task
<1>1. PICK p \in Priority :
        /\ k.runnable_tasks_list[p] # <<>>
        /\ k.next_task_to_run = Head(k.runnable_tasks_list[p])
        /\ \A q \in Priority : k.runnable_tasks_list[q] # <<>> => p <= q
  BY KInvImplies DEF NextIsMostUrgent
<1> DEFINE t == k.next_task_to_run
<1>2. \A q \in Priority : k.runnable_tasks_list[q] \in Seq(Task)
  BY DEF KInv, KernelState
<1>3. t \in Task /\ t \in Range(k.runnable_tasks_list[p])
  BY <1>1, <1>2, HeadInList
<1>4. k.task_state[t] = "RUNNABLE" /\ k.priority[t] = p
  BY <1>3, InLineIsRunnable
<1>5. p = 0
  <2>1. timer_task \in Range(k.runnable_tasks_list[0]) /\ 0 \in Priority
    BY InLineIsRunnable, SystemTasksAreTasks DEF KInv, SystemPriorities
  <2>2. k.runnable_tasks_list[0] # <<>>
    BY <1>2, <2>1, EmptyList
  <2>3. p <= 0
    BY <1>1, <2>1, <2>2
  <2> QED
    BY <2>3, SizesAssumption DEF Priority
<1> QED
  BY <1>3, <1>4, <1>5, SizesAssumption DEF KInv, SystemPriorities, Task, SystemTask

LEMMA UntimedKeepsTime ==
    ASSUME TimingInv, ~ Scanning, Untimed
    PROVE  /\ (TimingTypes /\ (Scanning => primask) /\ TimerGoesFirst
                  /\ TicksCounted /\ VisitedOnce)'
           /\ \A t \in UserTask :
                 k.task_state[t] = "WAIT" => k'.task_state[t] # "RUNNABLE"
<1> DEFINE Kept == /\ (TimingTypes /\ (Scanning => primask) /\ TimerGoesFirst
                          /\ TicksCounted /\ VisitedOnce)'
                   /\ \A t \in UserTask :
                         k.task_state[t] = "WAIT" => k'.task_state[t] # "RUNNABLE"
<1>1. KInv(k) /\ k \in KernelState /\ UNCHANGED timingVars
  BY DEF TimingInv, IInv, KInv, Untimed
<1>2. CASE UART0_IRQHandler
  BY <1>1, <1>2, SameTimes DEF UART0_IRQHandler, Scanning, TimerGoesFirst
<1>3. CASE PendSV_Handler
  <2>1. /\ k'.waiting_timeout_tasks_list = k.waiting_timeout_tasks_list
        /\ k'.tick_count = k.tick_count
        /\ k'.task_state = k.task_state
        /\ k'.current_running_task = k.next_task_to_run
        /\ pc' = pc
    BY <1>1, <1>3 DEF PendSV_Handler, KernelState
  <2>2. TimerGoesFirst'
    BY <1>1, <2>1, TimerIsNext DEF TimerGoesFirst
  <2> QED
    BY <1>1, <2>1, <2>2, SameTimes DEF Scanning
<1>4. CASE TimerInitDone
  <2>1. /\ k' = k /\ pendsv' = pendsv /\ pc' = [pc EXCEPT ![timer_task] = "loop"]
        /\ pc \in [Task -> {"init", "loop", "scan", "switch", "run"}]
    BY <1>4 DEF TimerInitDone, TimingInv, IInv, TypeOK
  <2>2. ~ Scanning'
    BY <2>1, SystemTasksAreTasks DEF Scanning
  <2> QED
    BY <1>1, <2>1, <2>2, SameTimes DEF TimingInv, TimerGoesFirst
<1>5. ASSUME NEW t \in Task, switch_context(t)
      PROVE  Kept
  <2>1. /\ k' = k /\ pendsv' = TRUE
        /\ pc' = [pc EXCEPT ![t] = IF t = timer_task THEN "loop" ELSE "run"]
        /\ pc \in [Task -> {"init", "loop", "scan", "switch", "run"}]
    BY <1>5 DEF switch_context, TimingInv, IInv, TypeOK
  <2>2. ~ Scanning'
    BY <2>1, SystemTasksAreTasks DEF Scanning
  <2> QED
    BY <1>1, <2>1, <2>2, SameTimes DEF TimerGoesFirst
<1>6. ASSUME NEW creator \in UserTask \cup {timer_task}, NEW t \in UserTask,
             NEW p \in Priority, NEW option \in SUBSET {"TASK_START_ON_CREATION"},
             Create(creator, t, p, option)
      PROVE  Kept
  <2> DEFINE s == create_task(k, t, p, option)
  <2>1. /\ k' = s /\ pc' = pc /\ pendsv' = pendsv
        /\ k.task_state[t] = "NONE"
        /\ t \in Task /\ t # timer_task
    BY <1>6, ListedWaits DEF Create, TimingInv
  <2>2. Creates(s, k, t, p, "TASK_START_ON_CREATION" \in option)
    BY <1>1, <2>1, CreateTaskEffect
  <2> HIDE DEF s
  <2>3. /\ k'.waiting_timeout_tasks_list = k.waiting_timeout_tasks_list
        /\ k'.current_running_task = k.current_running_task
        /\ \A u \in Task : u # t => /\ k'.task_state[u] = k.task_state[u]
                                    /\ k'.tick_count[u] = k.tick_count[u]
    BY <1>1, <2>1, <2>2 DEF Creates, KernelState
  <2>4. \A u \in UserTask : u \in Listed => u # t /\ u \in Task
    BY <2>1, ListedWaits DEF TimingInv
  <2>5. k'.task_state[timer_task] = k.task_state[timer_task]
    BY <2>1, <2>3, SystemTasksAreTasks
  <2>6. TimerGoesFirst'
    BY <2>1, <2>3, <2>5 DEF TimingInv, TimerGoesFirst
  <2>7. \A u \in UserTask : k.task_state[u] = "WAIT" => k'.task_state[u] # "RUNNABLE"
    BY <2>1, <2>3 DEF Task
  <2>8. ~ Scanning'
    BY <2>1 DEF Scanning
  <2>9. (TimingTypes /\ (Scanning => primask) /\ TicksCounted /\ VisitedOnce)'
    BY <1>1, <2>3, <2>4, <2>5, <2>8, SameTimes
  <2> QED
    BY <2>6, <2>7, <2>9
<1> QED
  BY <1>2, <1>3, <1>4, <1>5, <1>6 DEF Untimed

-----------------------------------------------------------------------------
LEMMA InitTiming == TimingInit => TimingInv
<1> SUFFICES ASSUME TimingInit PROVE TimingInv
  OBVIOUS
<1>1. IInv
  BY InitInvariant DEF TimingInit
<1>2. TimingTypes
  BY SizesAssumption DEF TimingInit, TimingTypes
<1>3. ~ Scanning /\ pendsv = TRUE
  BY SystemTasksAreTasks DEF TimingInit, Init, Scanning
<1>4. TicksCounted
  <2> SUFFICES ASSUME NEW t \in UserTask PROVE t \notin Listed
    BY DEF TicksCounted
  <2>1. /\ t \in Task /\ t # timer_task /\ t # idle_task
        /\ t \in Listed => k.task_state[t] = "WAIT"
    BY <1>1, ListedWaits
  <2>2. k.task_state[t] = IF t \in SystemTask THEN "RUNNABLE" ELSE "NONE"
    BY <2>1, KernelMain DEF TimingInit, Init
  <2> QED
    BY <2>1, <2>2 DEF SystemTask
<1> QED
  BY <1>1, <1>2, <1>3, <1>4 DEF TimingInv, TimerGoesFirst, VisitedOnce

LEMMA StepTiming ==
    TimingInv /\ [TimingNext]_<<vars, timingVars>> => TimingInv'
<1> SUFFICES ASSUME TimingInv, [TimingNext]_<<vars, timingVars>> PROVE TimingInv'
  OBVIOUS
<1>1. IInv'
  BY TimingStepIsStep, StepInvariant DEF TimingInv, vars
<1>2. ASSUME TimingNext
      PROVE  (TimingTypes /\ (Scanning => primask) /\ TimerGoesFirst
                 /\ TicksCounted /\ VisitedOnce)'
  <2>1. CASE Scanning
    BY <1>2, <2>1, ScanAlone, ScanKeepsTime, WaitKeepsTime
  <2>2. CASE ~ Scanning
    BY <1>2, <2>2, TickKeepsTime, SleepKeepsTime, BeginKeepsTime, ScanKeepsTime,
       WaitKeepsTime, UntimedKeepsTime DEF TimingNext
  <2> QED
    BY <2>1, <2>2
<1>3. CASE UNCHANGED <<vars, timingVars>>
  BY <1>1, <1>3 DEF TimingInv, TimingTypes, TimerGoesFirst, TicksCounted, VisitedOnce,
                    Owed, Scanning, Listed, list, vars, timingVars
<1> QED
  BY <1>1, <1>2, <1>3 DEF TimingInv

(* The books are kept in every reachable state.                            *)
THEOREM TimesAreCounted == TimingSpec => []TimingInv
BY InitTiming, StepTiming, PTL DEF TimingSpec

(* sleep(n) never ends before n ticks of SysTick_Handler have come since   *)
(* the call, whatever ticks come while the timer task runs or waits for    *)
(* the CPU, and whatever other timeouts its scan unlinks.                  *)
THEOREM SleepsLastLongEnough == TimingSpec => NeverWakesEarly
<1>1. ASSUME TimingInv, [TimingNext]_<<vars, timingVars>>
      PROVE  [\A t \in UserTask :
                k.task_state[t] = "WAIT" /\ k'.task_state[t] = "RUNNABLE"
                   => elapsed[t] >= asked[t]]_<<vars, timingVars>>
  <2> SUFFICES ASSUME TimingNext, NEW t \in UserTask,
                      k.task_state[t] = "WAIT", k'.task_state[t] = "RUNNABLE"
               PROVE  elapsed[t] >= asked[t]
    BY <1>1
  <2>1. TimingInv /\ t \in Task /\ t # timer_task
    BY <1>1, ListedWaits DEF TimingInv
  <2>2. CASE TimedScanStep
    BY <2>1, <2>2, ScanKeepsTime
  <2>3. CASE TimedWait
    BY <2>1, <2>3, WaitKeepsTime
  <2>4. ~ TimedScanStep /\ ~ TimedWait => ~ Scanning
    BY <2>1, ScanAlone
  <2>5. CASE Untimed /\ ~ Scanning
    BY <2>1, <2>5, UntimedKeepsTime
  <2>6. CASE TimedTick
    <3> DEFINE s == tick_int_processing(k)
    <3>1. s.task_state = [k.task_state EXCEPT ![timer_task] = "RUNNABLE"]
      BY <2>1, TickEffect DEF TimingInv, IInv
    <3>2. k' = s /\ k.task_state \in [Task -> TaskState]
      BY <2>1, <2>6 DEF TimedTick, SysTick_Handler, TimingInv, IInv, KInv, KernelState
    <3> HIDE DEF s
    <3> QED
      BY <2>1, <3>1, <3>2
  <2>7. ASSUME NEW u \in UserTask, NEW time \in Timeout \cup {WAIT_INFINITE},
               TimedSleep(u, time)
        PROVE  FALSE
    <3> DEFINE s == task_curr_to_wait_action(k, NULL, "SLEEP", time)
    <3>1. /\ u \in Task /\ u # idle_task /\ u = k.current_running_task
          /\ k.task_state[u] = "RUNNABLE" /\ k' = s
      BY <2>1, <2>7, ListedWaits, ThreadIsRunnable
         DEF TimedSleep, sleep, Thread, TimingInv
    <3>2. KInv(k) /\ k.task_state \in [Task -> TaskState]
      BY <2>1 DEF TimingInv, IInv, KInv, KernelState
    <3>3. StartsToWait(s, k, u, NULL, time)
      BY <3>1, <3>2, CurrToWaitEffect
    <3> HIDE DEF s
    <3>4. k'.task_state = [k.task_state EXCEPT ![u] = "WAIT"]
      BY <3>1, <3>3 DEF StartsToWait
    <3> QED
      BY <2>1, <3>2, <3>4
  <2>8. CASE TimedScanBegin
    BY <2>8 DEF TimedScanBegin, TimerScanBegin
  <2> QED
    BY <2>2, <2>3, <2>4, <2>5, <2>6, <2>7, <2>8 DEF TimingNext
<1> QED
  BY <1>1, TimesAreCounted, PTL DEF TimingSpec, NeverWakesEarly

(* The timer task's scan visits each element of the list of timeouts once, *)
(* although it unlinks elements as it goes (timer_task_function).          *)
THEOREM ScanCountsOnce == TimingSpec => EveryTimeoutCountedOnce
<1>1. ASSUME TimingInv, [TimingNext]_<<vars, timingVars>>
      PROVE  [TimerWait =>
                \A t \in UserTask :
                   before[t] > 0 =>
                      IF before[t] = 1
                      THEN k.task_state[t] = "RUNNABLE" /\ t \notin Listed
                      ELSE t \in Listed
                           /\ k.tick_count[t] = before[t] - 1]_<<vars, timingVars>>
  <2> SUFFICES ASSUME TimingNext, TimerWait
               PROVE  \A t \in UserTask :
                         before[t] > 0 =>
                            IF before[t] = 1
                            THEN k.task_state[t] = "RUNNABLE" /\ t \notin Listed
                            ELSE t \in Listed /\ k.tick_count[t] = before[t] - 1
    BY <1>1
  <2>1. TimedScanStep \/ TimedWait
    BY <1>1, ScanAlone DEF TimerWait, Scanning
  <2>2. ~ TimedScanStep
    <3>1. cursor \in Nat /\ k \in KernelState
      BY <1>1 DEF TimingInv, IInv, TypeOK
    <3>2. Len(k.waiting_timeout_tasks_list) \in Nat
      BY <3>1 DEF KernelState
    <3> QED
      BY <3>1, <3>2 DEF TimedScanStep, TimerScanStep, TimerWait
  <2> QED
    BY <1>1, <2>1, <2>2, WaitKeepsTime
<1> QED
  BY <1>1, TimesAreCounted, PTL DEF TimingSpec, EveryTimeoutCountedOnce
=============================================================================
