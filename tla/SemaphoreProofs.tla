-------------------------- MODULE SemaphoreProofs --------------------------
(***************************************************************************)
(* The calls of semaphore.c keep the kernel and the wait queues right, for *)
(* any numbers of tasks, semaphores, units, priorities and ticks.          *)
(***************************************************************************)
EXTENDS Semaphores, SchedulerProofs

SemIInv == IInv /\ SemTypeOK

(* A user task executes with interrupts enabled.                           *)
LEMMA UserIsUnmasked ==
    ASSUME IInv, NEW t \in UserTask, Thread(t)
    PROVE  primask = FALSE
BY TasksAssumption DEF IInv, TypeOK, ProgramCounters, Thread

(* A step that makes a task RUNNABLE, or none, and after which the caller, *)
(* if it is a task, may have to switch.                                    *)
LEMMA WakeStep ==
    ASSUME IInv, primask = FALSE,
           KInv(k'), k'.current_running_task = k.current_running_task,
           \A x \in Task : k'.task_state[x] \in {k.task_state[x], "RUNNABLE"},
           \/ pc' = pc
           \/ \E t \in UserTask : pc' = [pc EXCEPT ![t] = "switch"],
           cursor' = cursor, primask' = primask, pendsv' \in {pendsv, TRUE}
    PROVE  IInv'
<1>1. pc \in [Task -> {"init", "loop", "scan", "switch", "run"}]
  BY DEF IInv, TypeOK
<1>2. TypeOK'
  BY <1>1 DEF IInv, TypeOK, KInv
<1>3. ProgramCounters'
  BY <1>1, SystemTasksAreTasks, TasksAssumption DEF IInv, ProgramCounters, Task
<1>4. WaitingTaskOnlySwitches'
  BY <1>1 DEF IInv, TypeOK, WaitingTaskOnlySwitches, Task
<1> QED
  BY <1>2, <1>3, <1>4 DEF IInv

(* The wake-up of release and delete_semaphore.                            *)
LEMMA WakeFirst ==
    ASSUME IInv, NEW s \in WaitObject, k.wait_list[s] # <<>>
    PROVE  LET w == wake_first(s)
           IN  /\ KInv(w)
               /\ w.current_running_task = k.current_running_task
               /\ \A x \in Task : w.task_state[x] \in {k.task_state[x], "RUNNABLE"}
<1> DEFINE h == Head(k.wait_list[s])
           w == task_wait_complete(queue_remove_element(k, h), h)
<1>1. KInv(k) /\ k \in KernelState
  BY DEF IInv, KInv
<1>2. h \in Task /\ k.task_state[h] = "WAIT"
  BY <1>1, FirstWaits
<1> HIDE DEF h
<1>3. /\ KInv(w)
      /\ w.current_running_task = k.current_running_task
      /\ w.task_state = [k.task_state EXCEPT ![h] = "RUNNABLE"]
  BY <1>1, <1>2, WaitComplete
<1>4. wake_first(s) = w
  BY DEF wake_first, h
<1> HIDE DEF w
<1>5. \A x \in Task : w.task_state[x] \in {k.task_state[x], "RUNNABLE"}
  BY <1>1, <1>3 DEF KernelState
<1> QED
  BY <1>3, <1>4, <1>5

Units == [count : 0 .. MaxUnits, max_count : 0 .. MaxUnits]

LEMMA ReleaseEffect ==
    ASSUME IInv, SemTypeOK, NEW s \in WaitObject, release(s)
    PROVE  /\ KInv(k')
           /\ k'.current_running_task = k.current_running_task
           /\ \A x \in Task : k'.task_state[x] \in {k.task_state[x], "RUNNABLE"}
           /\ sem' \in [WaitObject -> Units]
<1>1. sem \in [WaitObject -> Units] /\ KInv(k)
  BY DEF SemTypeOK, Units, IInv
<1>2. CASE k.wait_list[s] # <<>>
  <2>1. k' = wake_first(s) /\ sem' = sem
    BY <1>2 DEF release
  <2> QED
    BY <1>1, <1>2, <2>1, WakeFirst
<1>3. CASE k.wait_list[s] = <<>>
  <2>1. /\ k' = k
        /\ sem' = [sem EXCEPT ![s].count = IF @ < sem[s].max_count THEN @ + 1 ELSE @]
    BY <1>3 DEF release
  <2>2. sem' \in [WaitObject -> Units]
    BY <1>1, <2>1, UnitsAssumption DEF Units
  <2> QED
    BY <1>1, <2>1, <2>2
<1> QED
  BY <1>2, <1>3

(* semaphore_signal and release_semaphore_i.                               *)
LEMMA ReleaseStep ==
    ASSUME SemIInv, NEW s \in WaitObject, Release(s)
    PROVE  SemIInv'
<1>1. IInv /\ SemTypeOK
  BY DEF SemIInv
<1>2. release(s) /\ cursor' = cursor /\ primask' = primask /\ call' = call
  BY DEF Release, semaphore_signal, release_semaphore_i
<1>3. /\ KInv(k')
      /\ k'.current_running_task = k.current_running_task
      /\ \A x \in Task : k'.task_state[x] \in {k.task_state[x], "RUNNABLE"}
      /\ sem' \in [WaitObject -> Units]
  BY <1>1, <1>2, ReleaseEffect
<1>4. ASSUME NEW t \in UserTask, semaphore_signal(t, s)
      PROVE  IInv'
  <2>1. primask = FALSE /\ pendsv' = pendsv
    BY <1>1, <1>4, UserIsUnmasked DEF semaphore_signal, Free
  <2>2. pc' = pc \/ pc' = [pc EXCEPT ![t] = "switch"]
    <3>1. pc \in [Task -> {"init", "loop", "scan", "switch", "run"}] /\ t \in Task
      BY <1>1 DEF IInv, TypeOK, Task
    <3> QED
      BY <1>4, <3>1 DEF semaphore_signal
  <2> QED
    BY <1>1, <1>2, <1>3, <2>1, <2>2, WakeStep
<1>5. ASSUME release_semaphore_i(s) PROVE IInv'
  <2>1. primask = FALSE /\ pendsv' = TRUE /\ pc' = pc
    BY <1>1, <1>5 DEF release_semaphore_i, IInv, TypeOK
  <2> QED
    BY <1>1, <1>2, <1>3, <2>1, WakeStep
<1>6. IInv'
  BY <1>4, <1>5 DEF Release
<1> QED
  BY <1>1, <1>2, <1>3, <1>6 DEF SemIInv, SemTypeOK, Units, IInv

(* acquire_semaphore with nothing in store: the caller can only switch.    *)
LEMMA WaitObjectStep ==
    ASSUME IInv, NEW t \in UserTask, Thread(t), pc[t] # "switch", primask = FALSE,
           NEW s \in WaitObject, NEW timeout \in Timeout \cup {WAIT_INFINITE},
           k' = task_curr_to_wait_action(k, s, "SEM", timeout),
           pc' = [pc EXCEPT ![t] = "switch"],
           cursor' = cursor, primask' = primask, pendsv' = pendsv
    PROVE  IInv'
<1>1. /\ KInv(k) /\ t \in Task /\ t # idle_task /\ t # timer_task
      /\ t = k.current_running_task
      /\ s \in WaitObject \cup {NULL} /\ "SEM" \in WaitReason
      /\ pc \in [Task -> {"init", "loop", "scan", "switch", "run"}]
  BY TasksAssumption DEF IInv, TypeOK, Thread, Task, WaitReason
<1>2. k.task_state[t] = "RUNNABLE"
  BY <1>1, ThreadIsRunnable
<1> DEFINE w == task_curr_to_wait_action(k, s, "SEM", timeout)
<1>3. /\ KInv(k')
      /\ k'.current_running_task = t
  <2>1. /\ KInv(w)
        /\ w.current_running_task = t
        /\ w.task_state = [k.task_state EXCEPT ![t] = "WAIT"]
    BY <1>1, <1>2, CurrToWait
  <2>2. k' = w
    OBVIOUS
  <2> HIDE DEF w
  <2> QED
    BY <2>1, <2>2
<1>4. TypeOK'
  BY <1>1, <1>3 DEF IInv, TypeOK, KInv
<1>5. ProgramCounters'
  BY <1>1, SystemTasksAreTasks, TasksAssumption DEF IInv, ProgramCounters, Task
<1>6. WaitingTaskOnlySwitches'
  BY <1>1, <1>3 DEF WaitingTaskOnlySwitches
<1> QED
  BY <1>3, <1>4, <1>5, <1>6 DEF IInv

(* acquire_semaphore and the polling variants.                             *)
LEMMA AcquireStep ==
    ASSUME SemIInv, NEW s \in WaitObject, Acquire(s)
    PROVE  SemIInv'
<1>1. IInv /\ SemTypeOK /\ sem \in [WaitObject -> Units] /\ call \in [Task -> Calls]
      /\ KInv(k)
  BY DEF SemIInv, SemTypeOK, Units, IInv
<1>2. ASSUME sem[s].count >= 1, sem' = [sem EXCEPT ![s].count = @ - 1], call' = call,
             k' = k, pc' = pc, cursor' = cursor, primask' = primask,
             pendsv' \in {pendsv, TRUE}, primask = FALSE
      PROVE  SemIInv'
  <2>1. IInv'
    BY <1>1, <1>2, WakeStep
  <2>2. sem' \in [WaitObject -> Units]
    BY <1>1, <1>2, UnitsAssumption DEF Units
  <2> QED
    BY <1>1, <1>2, <2>1, <2>2 DEF SemIInv, SemTypeOK, Units, IInv
<1>3. ASSUME NEW t \in UserTask, NEW timeout \in Timeout \cup {WAIT_INFINITE},
             acquire_semaphore(t, s, timeout)
      PROVE  SemIInv'
  <2>1. Thread(t) /\ pc[t] = "run" /\ primask = FALSE
        /\ cursor' = cursor /\ primask' = primask /\ pendsv' = pendsv
    BY <1>1, <1>3, UserIsUnmasked DEF acquire_semaphore, Free
  <2>2. CASE sem[s].count >= 1
    <3>1. sem' = [sem EXCEPT ![s].count = @ - 1] /\ k' = k /\ pc' = pc /\ call' = call
      BY <1>1, <1>3, <2>2 DEF acquire_semaphore, Units
    <3> QED
      BY <1>2, <2>1, <2>2, <3>1
  <2>3. CASE sem[s].count < 1
    <3>1. /\ k' = task_curr_to_wait_action(k, s, "SEM", timeout)
          /\ pc' = [pc EXCEPT ![t] = "switch"]
          /\ call' = [call EXCEPT ![t] = <<"acquire", s>>]
          /\ sem' = sem
      BY <1>1, <1>3, <2>3 DEF acquire_semaphore, Units
    <3>2. IInv'
      BY <1>1, <2>1, <3>1, WaitObjectStep
    <3>3. call' \in [Task -> Calls]
      BY <1>1, <3>1 DEF Calls
    <3> QED
      BY <1>1, <3>1, <3>2, <3>3 DEF SemIInv, SemTypeOK, Units, IInv
  <2> QED
    BY <1>1, <2>2, <2>3 DEF Units
<1>4. ASSUME NEW t \in UserTask, acquire_semaphore_polling(t, s)
      PROVE  SemIInv'
  BY <1>1, <1>2, <1>4, UserIsUnmasked DEF acquire_semaphore_polling, poll, Free, vars
<1>5. CASE acquire_semaphore_polling_i(s)
  BY <1>1, <1>2, <1>5 DEF acquire_semaphore_polling_i, poll, IInv, TypeOK
<1> QED
  BY <1>3, <1>4, <1>5 DEF Acquire

(* One turn of delete_semaphore's loop.                                    *)
LEMMA DeleteStep ==
    ASSUME SemIInv, NEW s \in WaitObject, NEW t \in UserTask, delete_semaphore(t, s)
    PROVE  SemIInv'
<1>1. IInv /\ SemTypeOK /\ call \in [Task -> Calls] /\ KInv(k)
      /\ primask = FALSE
      /\ cursor' = cursor /\ primask' = primask /\ pendsv' = pendsv /\ sem' = sem
  BY UserIsUnmasked DEF SemIInv, SemTypeOK, IInv, delete_semaphore
<1>2. call' \in [Task -> Calls]
  BY <1>1 DEF delete_semaphore, Calls
<1>3. CASE k.wait_list[s] # <<>>
  <2> DEFINE h == Head(k.wait_list[s])
             w == wake_first(s)
  <2>1. /\ k' = [w EXCEPT !.task_wait_return_code[h] = "ERR_DELETED"]
        /\ pc' = [pc EXCEPT ![t] = "switch"]
    BY <1>3 DEF delete_semaphore
  <2>2. h \in Task /\ "ERR_DELETED" \in ReturnCode
    BY <1>1, <1>3, FirstWaits DEF ReturnCode
  <2>3. /\ KInv(w)
        /\ w.current_running_task = k.current_running_task
        /\ \A x \in Task : w.task_state[x] \in {k.task_state[x], "RUNNABLE"}
    BY <1>1, <1>3, WakeFirst
  <2> HIDE DEF h, w
  <2>4. /\ KInv(k')
        /\ k'.current_running_task = w.current_running_task
        /\ k'.task_state = w.task_state
    BY <2>1, <2>2, <2>3, ReturnCodeIsFree
  <2>5. IInv'
    BY <1>1, <2>1, <2>3, <2>4, WakeStep
  <2> QED
    BY <1>1, <1>2, <2>5 DEF SemIInv, SemTypeOK, IInv
<1>4. CASE k.wait_list[s] = <<>>
  <2>1. k' = k /\ pc' = pc
    BY <1>4 DEF delete_semaphore
  <2>2. IInv'
    BY <1>1, <2>1, WakeStep
  <2> QED
    BY <1>1, <1>2, <2>2 DEF SemIInv, SemTypeOK, IInv
<1> QED
  BY <1>3, <1>4

LEMMA SemInitInvariant == SemInit => SemIInv
<1> SUFFICES ASSUME SemInit PROVE SemIInv
  OBVIOUS
<1>1. IInv
  BY InitInvariant DEF SemInit
<1>2. sem \in [WaitObject -> Units] /\ call \in [Task -> Calls]
  BY UnitsAssumption DEF SemInit, Units, Calls
<1> QED
  BY <1>1, <1>2 DEF SemIInv, SemTypeOK, IInv, Units

LEMMA SemStepInvariant == SemIInv /\ [SemNext]_<<vars, semVars>> => SemIInv'
<1> SUFFICES ASSUME SemIInv, [SemNext]_<<vars, semVars>> PROVE SemIInv'
  OBVIOUS
<1>1. IInv /\ SemTypeOK /\ sem \in [WaitObject -> Units] /\ call \in [Task -> Calls]
  BY DEF SemIInv, SemTypeOK, Units
<1>2. ASSUME [Next]_vars, UNCHANGED sem, call' \in [Task -> Calls]
      PROVE  SemIInv'
  BY <1>1, <1>2, StepInvariant DEF SemIInv, SemTypeOK, IInv
<1>3. CASE OtherStep
  BY <1>1, <1>2, <1>3 DEF OtherStep, Next, user_task_function
<1>4. ASSUME NEW t \in UserTask, AcquireReturns(t) PROVE SemIInv'
  BY <1>1, <1>2, <1>4 DEF AcquireReturns, Calls
<1>5. ASSUME NEW s \in WaitObject, NEW t \in UserTask,
             NEW start_value \in 0 .. MaxUnits, NEW max_value \in 1 .. MaxUnits,
             create_semaphore(t, s, start_value, max_value)
      PROVE  SemIInv'
  <2>1. sem' \in [WaitObject -> Units]
    BY <1>1, <1>5, UnitsAssumption DEF create_semaphore, Units
  <2>2. IInv'
    BY <1>1, <1>5, StepInvariant DEF create_semaphore
  <2> QED
    BY <1>1, <1>5, <2>1, <2>2 DEF create_semaphore, SemIInv, SemTypeOK, Units, IInv
<1>6. ASSUME NEW s \in WaitObject, Release(s) PROVE SemIInv'
  BY <1>6, ReleaseStep
<1>7. ASSUME NEW s \in WaitObject, Acquire(s) PROVE SemIInv'
  BY <1>7, AcquireStep
<1>8. ASSUME NEW s \in WaitObject, NEW t \in UserTask, delete_semaphore(t, s)
      PROVE  SemIInv'
  BY <1>8, DeleteStep
<1>9. CASE UNCHANGED <<vars, semVars>>
  BY <1>1, <1>2, <1>9 DEF semVars
<1> QED
  BY <1>3, <1>4, <1>5, <1>6, <1>7, <1>8, <1>9 DEF SemNext

(* In every reachable state a task is in the wait queue of a semaphore     *)
(* exactly while it waits for it, whether its waits end by a signal, a     *)
(* deletion or the timer task's scan; all variables keep their types.      *)
THEOREM WaitListsCorrect == SemSpec => []WaitListsMatchStates
<1>1. SemIInv => WaitListsMatchStates
  BY KInvImplies DEF SemIInv, IInv, WaitListsMatchStates
<1>2. SemInit => SemIInv
  BY SemInitInvariant
<1>3. SemIInv /\ [SemNext]_<<vars, semVars>> => SemIInv'
  BY SemStepInvariant
<1> QED
  BY <1>1, <1>2, <1>3, PTL DEF SemSpec

(* Semaphores leave the scheduler's own lists and next task right.         *)
THEOREM KernelStaysCorrect ==
    SemSpec => [](ReadyListsMatchStates /\ TimersMatchStates /\ NextIsFirstReady)
<1>1. SemIInv => ReadyListsMatchStates /\ TimersMatchStates /\ NextIsFirstReady
  BY KInvImplies DEF SemIInv, IInv, ReadyListsMatchStates, TimersMatchStates,
                     NextIsFirstReady
<1>2. SemInit => SemIInv
  BY SemInitInvariant
<1>3. SemIInv /\ [SemNext]_<<vars, semVars>> => SemIInv'
  BY SemStepInvariant
<1> QED
  BY <1>1, <1>2, <1>3, PTL DEF SemSpec

-----------------------------------------------------------------------------
(***************************************************************************)
(* Scheduler, timer, masking and return codes together keep the promise of *)
(* CountingSemaphore.  SemIInv is too weak for that: a step of the detailed *)
(* specification is only the abstract one if who stands in a wait queue is *)
(* inside acquire_semaphore for that very semaphore, and if who is inside  *)
(* it and does not wait has been told how his wait ended.                  *)
(***************************************************************************)
Acquiring(t) == call[t][1] = "acquire"

CallsMatchWaits ==
    /\ \A t \in Task : call[t] # NoCall => t \in UserTask
    /\ \A s \in WaitObject, t \in Task :
          t \in Range(k.wait_list[s]) => call[t] = <<"acquire", s>>
    /\ \A t \in Task : Acquiring(t) =>
          \/ /\ k.task_state[t] = "WAIT"
             /\ \E s \in WaitObject : t \in Range(k.wait_list[s])
          \/ k.task_state[t] = "RUNNABLE"

SemRInv == SemIInv /\ CallsMatchWaits

(* The calls that count are the same before and after the step.            *)
SameAcquires ==
    \A t \in Task :
        /\ call'[t] # NoCall => t \in UserTask
        /\ Acquiring(t) \/ Acquiring(t)' => call'[t] = call[t]

LEMMA PromiseLists ==
    /\ \A q, e : Promise!InsertLast(q, e) = InsertLast(q, e)
    /\ \A q, e : Promise!Without(q, e) = Without(q, e)
    /\ \A q : Promise!Range(q) = Range(q)
<1>1. \A q, e : Promise!InsertLast(q, e) = InsertLast(q, e)
  BY DEF Promise!InsertLast, InsertLast
<1>2. \A q : Promise!Range(q) = Range(q)
  BY DEF Promise!Range, Range
<1>3. \A q, e : Promise!Without(q, e) = Without(q, e)
  BY <1>2 DEF Promise!Without, Without
<1> QED
  BY <1>1, <1>2, <1>3

LEMMA SemRInvFacts ==
    ASSUME SemRInv
    PROVE  /\ IInv
           /\ KInv(k)
           /\ k.wait_list \in [WaitObject -> Seq(Task)]
           /\ k.task_state \in [Task -> TaskState]
           /\ k.task_wait_return_code \in [Task -> ReturnCode]
           /\ sem \in [WaitObject -> Units]
           /\ call \in [Task -> Calls]
           /\ CallsMatchWaits
           /\ WaitListsConsistent(k)
BY DEF SemRInv, SemIInv, IInv, SemTypeOK, TypeOK, KernelState, KInv, Units

(* A call is of acquire_semaphore, of delete_semaphore, or none.           *)
LEMMA CallFacts ==
    /\ NoCall[1] # "acquire"
    /\ \A s : <<"acquire", s>>[1] = "acquire" /\ <<"acquire", s>> # NoCall
    /\ \A s : <<"delete", s>>[1] # "acquire" /\ <<"delete", s>> # NoCall
BY DEF NoCall

(* A step that moves no task in a wait queue and tells none in the call    *)
(* anything new is one the counting semaphore does not see.                *)
LEMMA Unseen ==
    ASSUME SemRInv, sem' = sem, k'.wait_list = k.wait_list, SameAcquires,
           \A t \in Task : Acquiring(t) =>
              /\ k'.task_state[t] = k.task_state[t]
              /\ k'.task_wait_return_code[t] = k.task_wait_return_code[t]
    PROVE  UNCHANGED Promise!vars
<1>1. \A t \in Task : AnswerOf(t)' = AnswerOf(t)
  BY DEF AnswerOf, SameAcquires, Acquiring
<1>2. [t \in Task |-> AnswerOf(t)]' = [t \in Task |-> AnswerOf(t)]
  BY <1>1
<1> QED
  BY <1>2 DEF Promise!vars

LEMMA UnseenKeeps ==
    ASSUME SemRInv, k'.wait_list = k.wait_list, SameAcquires,
           \A t \in Task : Acquiring(t) => k'.task_state[t] = k.task_state[t]
    PROVE  CallsMatchWaits'
<1>1. CallsMatchWaits
  BY DEF SemRInv
<1>2. ASSUME NEW s \in WaitObject, NEW t \in Task, t \in Range(k'.wait_list[s])
      PROVE  call'[t] = <<"acquire", s>>
  BY <1>1, <1>2, CallFacts DEF CallsMatchWaits, SameAcquires, Acquiring
<1>3. ASSUME NEW t \in Task, Acquiring(t)'
      PROVE  \/ /\ k'.task_state[t] = "WAIT"
                /\ \E s \in WaitObject : t \in Range(k'.wait_list[s])
             \/ k'.task_state[t] = "RUNNABLE"
  BY <1>1, <1>3 DEF CallsMatchWaits, SameAcquires, Acquiring
<1>4. \A t \in Task : call'[t] # NoCall => t \in UserTask
  BY DEF SameAcquires
<1> QED
  BY <1>2, <1>3, <1>4 DEF CallsMatchWaits

(* A task that waits for a semaphore is in one wait queue only.            *)
LEMMA InOneQueue ==
    ASSUME SemRInv, NEW h \in Task, NEW s \in WaitObject, h \in Range(k.wait_list[s])
    PROVE  /\ Acquiring(h)
           /\ k.task_state[h] = "WAIT"
           /\ \A o \in WaitObject : h \in Range(k.wait_list[o]) => o = s
           /\ [o \in WaitObject |-> Without(k.wait_list[o], h)] =
                 [k.wait_list EXCEPT ![s] = Without(@, h)]
<1>1. /\ CallsMatchWaits
      /\ WaitListsConsistent(k)
      /\ k.wait_list \in [WaitObject -> Seq(Task)]
  BY SemRInvFacts
<1>2. call[h] = <<"acquire", s>> /\ Acquiring(h) /\ k.task_state[h] = "WAIT"
      /\ k.wait_queue[h] = s
  BY <1>1, CallFacts DEF CallsMatchWaits, Acquiring, WaitListsConsistent
<1>3. \A o \in WaitObject : h \in Range(k.wait_list[o]) => o = s
  BY <1>1, <1>2 DEF WaitListsConsistent
<1>4. \A o \in WaitObject : o # s => Without(k.wait_list[o], h) = k.wait_list[o]
  BY <1>3 DEF Without
<1>5. [o \in WaitObject |-> Without(k.wait_list[o], h)] =
         [k.wait_list EXCEPT ![s] = Without(@, h)]
  BY <1>1, <1>4
<1> QED
  BY <1>2, <1>3, <1>5

(* The end of the wait of a task in a wait queue, whatever ended it.       *)
EndsAcquire(h, code) ==
    /\ k'.wait_list = [o \in WaitObject |-> Without(k.wait_list[o], h)]
    /\ k'.task_state = [k.task_state EXCEPT ![h] = "RUNNABLE"]
    /\ k'.task_wait_return_code = [k.task_wait_return_code EXCEPT ![h] = code]

LEMMA LeavesTheLine ==
    ASSUME SemRInv, NEW h \in Task, NEW s \in WaitObject, h \in Range(k.wait_list[s]),
           NEW code \in ReturnCode, EndsAcquire(h, code), sem' = sem, SameAcquires
    PROVE  Promise!LeaveLine(h, s, Answered[code])
<1>1. /\ k.task_state \in [Task -> TaskState]
      /\ k.task_wait_return_code \in [Task -> ReturnCode]
  BY SemRInvFacts
<1>2. /\ Acquiring(h)
      /\ k'.wait_list = [k.wait_list EXCEPT ![s] = Without(@, h)]
  BY InOneQueue DEF EndsAcquire
<1>3. /\ k'.task_state[h] = "RUNNABLE"
      /\ k'.task_wait_return_code[h] = code
      /\ \A t \in Task : t # h =>
            /\ k'.task_state[t] = k.task_state[t]
            /\ k'.task_wait_return_code[t] = k.task_wait_return_code[t]
  BY <1>1 DEF EndsAcquire
<1>4. AnswerOf(h)' = Answered[code]
  BY <1>2, <1>3 DEF AnswerOf, SameAcquires, Acquiring
<1>5. \A t \in Task : t # h => AnswerOf(t)' = AnswerOf(t)
  BY <1>3 DEF AnswerOf, SameAcquires, Acquiring
<1>6. [t \in Task |-> AnswerOf(t)]' =
         [[t \in Task |-> AnswerOf(t)] EXCEPT ![h] = Answered[code]]
  BY <1>4, <1>5
<1> QED
  BY <1>2, <1>6, PromiseLists DEF Promise!LeaveLine

LEMMA LeavingKeeps ==
    ASSUME SemRInv, NEW h \in Task, NEW code, EndsAcquire(h, code), SameAcquires
    PROVE  CallsMatchWaits'
<1>1. /\ CallsMatchWaits
      /\ WaitListsConsistent(k)
      /\ k.wait_list \in [WaitObject -> Seq(Task)]
      /\ k.task_state \in [Task -> TaskState]
  BY SemRInvFacts
<1>2. ASSUME NEW o \in WaitObject
      PROVE  Range(k'.wait_list[o]) = Range(k.wait_list[o]) \ {h}
  <2>1. Range(Without(k.wait_list[o], h)) = Range(k.wait_list[o]) \ {h}
    BY <1>1, WithoutFacts DEF WaitListsConsistent
  <2> QED
    BY <2>1 DEF EndsAcquire
<1>3. /\ k'.task_state[h] = "RUNNABLE"
      /\ \A t \in Task : t # h => k'.task_state[t] = k.task_state[t]
  BY <1>1 DEF EndsAcquire
<1>4. ASSUME NEW o \in WaitObject, NEW t \in Task, t \in Range(k'.wait_list[o])
      PROVE  call'[t] = <<"acquire", o>>
  BY <1>1, <1>2, <1>4, CallFacts DEF CallsMatchWaits, SameAcquires, Acquiring
<1>5. ASSUME NEW t \in Task, Acquiring(t)'
      PROVE  \/ /\ k'.task_state[t] = "WAIT"
                /\ \E o \in WaitObject : t \in Range(k'.wait_list[o])
             \/ k'.task_state[t] = "RUNNABLE"
  <2>1. Acquiring(t)
    BY <1>5 DEF SameAcquires, Acquiring
  <2>2. CASE t = h
    BY <1>3, <2>2
  <2>3. CASE t # h
    BY <1>1, <1>2, <1>3, <2>1, <2>3 DEF CallsMatchWaits
  <2> QED
    BY <2>2, <2>3
<1>6. \A t \in Task : call'[t] # NoCall => t \in UserTask
  BY DEF SameAcquires
<1> QED
  BY <1>4, <1>5, <1>6 DEF CallsMatchWaits

(* What every step does: a step of the counting semaphore, or none it      *)
(* sees, after which the calls still match the wait queues.                *)
Simulates ==
    /\ Promise!Next \/ UNCHANGED Promise!vars
    /\ CallsMatchWaits'

LEMMA UnseenStep ==
    ASSUME SemRInv, sem' = sem, k'.wait_list = k.wait_list, SameAcquires,
           \A t \in Task : Acquiring(t) =>
              /\ k'.task_state[t] = k.task_state[t]
              /\ k'.task_wait_return_code[t] = k.task_wait_return_code[t]
    PROVE  Simulates
BY Unseen, UnseenKeeps DEF Simulates

LEMMA SameCalls ==
    ASSUME SemRInv, call' = call
    PROVE  SameAcquires
BY DEF SemRInv, CallsMatchWaits, SameAcquires, Acquiring

LEMMA AcquirersAreUsers ==
    ASSUME SemRInv, NEW t \in Task, Acquiring(t)
    PROVE  /\ t # timer_task
           /\ t # idle_task
           /\ k.task_state[t] # "NONE"
           /\ call[t] # NoCall
BY CallFacts, TasksAssumption DEF SemRInv, CallsMatchWaits, Acquiring

(* The timer task is in no wait queue: a tick is not seen.                 *)
LEMMA TickUnseen ==
    ASSUME SemRInv, SysTick_Handler, sem' = sem, call' = call
    PROVE  Simulates
<1> DEFINE s == tick_int_processing(k)
<1>1. /\ KInv(k) /\ timer_task \in Task
      /\ k.task_state \in [Task -> TaskState]
      /\ k.task_wait_return_code \in [Task -> ReturnCode]
      /\ k.wait_list \in [WaitObject -> Seq(Task)]
      /\ k' = s
  BY SemRInvFacts, SystemTasksAreTasks DEF SysTick_Handler
<1>2. /\ s.wait_list = [o \in WaitObject |-> Without(k.wait_list[o], timer_task)]
      /\ s.task_state = [k.task_state EXCEPT ![timer_task] = "RUNNABLE"]
      /\ s.task_wait_return_code =
            [k.task_wait_return_code EXCEPT ![timer_task] = "ERR_NO_ERROR"]
  BY <1>1, TickEffect
<1> HIDE DEF s
<1>3. ASSUME NEW o \in WaitObject
      PROVE  Without(k.wait_list[o], timer_task) = k.wait_list[o]
  <2>1. timer_task \notin Range(k.wait_list[o])
    BY <1>1, InOneQueue, AcquirersAreUsers
  <2> QED
    BY <2>1 DEF Without
<1>4. k'.wait_list = k.wait_list
  BY <1>1, <1>2, <1>3
<1>5. \A t \in Task : t # timer_task =>
         /\ k'.task_state[t] = k.task_state[t]
         /\ k'.task_wait_return_code[t] = k.task_wait_return_code[t]
  BY <1>1, <1>2
<1>6. SameAcquires
  BY SameCalls
<1> QED
  BY <1>4, <1>5, <1>6, AcquirersAreUsers, UnseenStep

(* The scan: one tick less, the end of a sleep, or a timed-out acquire.    *)
LEMMA ScanTimesOut ==
    ASSUME SemRInv, TimerScanStep, sem' = sem, call' = call
    PROVE  Simulates
<1> DEFINE t == k.waiting_timeout_tasks_list[cursor]
           s == timer_visit(k, t)
<1>1. /\ KInv(k) /\ k \in KernelState
      /\ k.task_state \in [Task -> TaskState]
      /\ k.task_wait_return_code \in [Task -> ReturnCode]
      /\ k.wait_list \in [WaitObject -> Seq(Task)]
      /\ k' = s
      /\ SameAcquires
  BY SemRInvFacts, SameCalls DEF TimerScanStep, KInv
<1>2. t \in Task /\ k.task_state[t] = "WAIT" /\ k.tick_count[t] \in Timeout
  <2>1. /\ cursor \in 1 .. Len(k.waiting_timeout_tasks_list)
        /\ k.waiting_timeout_tasks_list \in Seq(Task)
        /\ TimersConsistent(k)
    BY <1>1, SemRInvFacts DEF IInv, TypeOK, TimerScanStep, KInv, KernelState
  <2>2. t \in Task /\ t \in Range(k.waiting_timeout_tasks_list)
    BY <2>1 DEF Range
  <2> QED
    BY <2>1, <2>2 DEF TimersConsistent
<1> HIDE DEF t
<1>3. IF k.tick_count[t] > 1
      THEN s = [k EXCEPT !.tick_count[t] = @ - 1]
      ELSE EndsItsWait(s, k, t, "ERR_TIMEOUT")
  BY <1>1, <1>2, TimerVisitEffect
<1> HIDE DEF s
<1>4. CASE k.tick_count[t] > 1
  <2>1. k' = [k EXCEPT !.tick_count[t] = @ - 1]
    BY <1>1, <1>3, <1>4
  <2>2. /\ k'.wait_list = k.wait_list
        /\ k'.task_state = k.task_state
        /\ k'.task_wait_return_code = k.task_wait_return_code
    BY <1>1, <2>1 DEF KernelState
  <2> QED
    BY <1>1, <2>2, UnseenStep
<1>5. CASE ~(k.tick_count[t] > 1)
  <2>1. EndsAcquire(t, "ERR_TIMEOUT")
    BY <1>1, <1>3, <1>5 DEF EndsItsWait, EndsAcquire
  <2>2. "ERR_TIMEOUT" \in ReturnCode /\ Answered["ERR_TIMEOUT"] = "timed_out"
    BY DEF ReturnCode, Answered
  <2>3. ASSUME NEW o \in WaitObject, t \in Range(k.wait_list[o])
        PROVE  Simulates
    <3>1. Promise!LeaveLine(t, o, "timed_out")
      BY <1>1, <1>2, <2>1, <2>2, <2>3, LeavesTheLine
    <3> QED
      BY <1>1, <1>2, <2>1, <3>1, LeavingKeeps DEF Simulates, Promise!Next
  <2>4. ASSUME \A o \in WaitObject : t \notin Range(k.wait_list[o])
        PROVE  Simulates
    <3>1. k'.wait_list = k.wait_list
      BY <1>1, <2>1, <2>4 DEF EndsAcquire, Without
    <3>2. ~ Acquiring(t)
      BY <1>2, <2>4 DEF SemRInv, CallsMatchWaits
    <3>3. \A u \in Task : u # t =>
             /\ k'.task_state[u] = k.task_state[u]
             /\ k'.task_wait_return_code[u] = k.task_wait_return_code[u]
      BY <1>1, <2>1 DEF EndsAcquire
    <3> QED
      BY <1>1, <3>1, <3>2, <3>3, UnseenStep
  <2> QED
    BY <2>3, <2>4
<1> QED
  BY <1>4, <1>5

(* A task that starts to wait for no object is in no acquire_semaphore.    *)
LEMMA SleepUnseen ==
    ASSUME SemRInv, NEW t \in Task, t # idle_task, t = k.current_running_task,
           k.task_state[t] = "RUNNABLE", ~ Acquiring(t), NEW timeout,
           k' = task_curr_to_wait_action(k, NULL, "SLEEP", timeout),
           sem' = sem, call' = call
    PROVE  Simulates
<1> DEFINE s == task_curr_to_wait_action(k, NULL, "SLEEP", timeout)
<1>1. /\ KInv(k)
      /\ k.task_state \in [Task -> TaskState]
      /\ k.wait_list \in [WaitObject -> Seq(Task)]
      /\ SameAcquires
  BY SemRInvFacts, SameCalls
<1>2. StartsToWait(s, k, t, NULL, timeout)
  BY <1>1, CurrToWaitEffect
<1>3. k' = s
  OBVIOUS
<1> HIDE DEF s
<1>4. /\ k'.wait_list = [o \in WaitObject |->
            IF o = NULL THEN InsertLast(k.wait_list[o], t) ELSE k.wait_list[o]]
      /\ k'.task_state = [k.task_state EXCEPT ![t] = "WAIT"]
      /\ k'.task_wait_return_code = k.task_wait_return_code
  BY <1>2, <1>3 DEF StartsToWait
<1>5. k'.wait_list = k.wait_list
  BY <1>1, <1>4, SystemTasksAreTasks
<1>6. \A u \in Task : u # t => k'.task_state[u] = k.task_state[u]
  BY <1>1, <1>4
<1> QED
  BY <1>1, <1>4, <1>5, <1>6, UnseenStep

(* A TCB that holds no task yet is in no call.                             *)
LEMMA CreateUnseen ==
    ASSUME SemRInv, NEW t \in Task, k.task_state[t] = "NONE", NEW p \in Priority,
           NEW option, k' = create_task(k, t, p, option), sem' = sem, call' = call
    PROVE  Simulates
<1> DEFINE s == create_task(k, t, p, option)
           start == "TASK_START_ON_CREATION" \in option
<1>1. /\ k \in KernelState
      /\ k.task_state \in [Task -> TaskState]
      /\ k.task_wait_return_code \in [Task -> ReturnCode]
      /\ SameAcquires
  BY SemRInvFacts, SameCalls DEF KInv
<1>2. Creates(s, k, t, p, start)
  BY <1>1, CreateTaskEffect
<1>3. k' = s
  OBVIOUS
<1> HIDE DEF s, start
<1>4. /\ k'.wait_list = k.wait_list
      /\ k'.task_state =
            [k.task_state EXCEPT ![t] = IF start THEN "RUNNABLE" ELSE "DORMANT"]
      /\ k'.task_wait_return_code = [k.task_wait_return_code EXCEPT ![t] = "ERR_NO_ERROR"]
  BY <1>2, <1>3 DEF Creates
<1>5. \A u \in Task : u # t =>
         /\ k'.task_state[u] = k.task_state[u]
         /\ k'.task_wait_return_code[u] = k.task_wait_return_code[u]
  BY <1>1, <1>4
<1>6. ~ Acquiring(t)
  BY AcquirersAreUsers
<1> QED
  BY <1>1, <1>4, <1>5, <1>6, UnseenStep

(* The steps of the rest of the kernel: only the scan can be seen.         *)
LEMMA OtherSimulates ==
    ASSUME SemRInv, OtherStep
    PROVE  Simulates
<1>1. /\ IInv /\ KInv(k) /\ k \in KernelState
      /\ sem' = sem /\ call' = call
      /\ SameAcquires
  BY SemRInvFacts, SameCalls DEF OtherStep, KInv
<1>2. ASSUME k'.wait_list = k.wait_list, k'.task_state = k.task_state,
             k'.task_wait_return_code = k.task_wait_return_code
      PROVE  Simulates
  BY <1>1, <1>2, UnseenStep
<1>3. CASE SysTick_Handler
  BY <1>1, <1>3, TickUnseen
<1>4. CASE PendSV_Handler
  <2>1. k' = [k EXCEPT !.current_running_task = k.next_task_to_run]
    BY <1>4 DEF PendSV_Handler
  <2>2. /\ k'.wait_list = k.wait_list
        /\ k'.task_state = k.task_state
        /\ k'.task_wait_return_code = k.task_wait_return_code
    BY <1>1, <2>1 DEF KernelState
  <2> QED
    BY <1>2, <2>2
<1>5. CASE TimerScanStep
  BY <1>1, <1>5, ScanTimesOut
<1>6. CASE TimerWait
  <2>1. /\ timer_task \in Task /\ timer_task # idle_task
        /\ timer_task = k.current_running_task
        /\ k.task_state[timer_task] = "RUNNABLE"
        /\ ~ Acquiring(timer_task)
    BY <1>1, <1>6, SystemTasksAreTasks, ThreadIsRunnable, AcquirersAreUsers
       DEF TimerWait, Thread
  <2> QED
    BY <1>1, <1>6, <2>1, SleepUnseen DEF TimerWait
<1>7. ASSUME NEW t \in UserTask, NEW time, call[t] = NoCall, sleep(t, time)
      PROVE  Simulates
  <2>1. /\ t \in Task /\ t # idle_task /\ t = k.current_running_task
        /\ k.task_state[t] = "RUNNABLE"
        /\ ~ Acquiring(t)
    BY <1>1, <1>7, TasksAssumption, ThreadIsRunnable, CallFacts
       DEF sleep, Thread, Task, Acquiring
  <2> QED
    BY <1>1, <1>7, <2>1, SleepUnseen DEF sleep
<1>8. ASSUME NEW creator, NEW t \in UserTask, NEW p \in Priority, NEW option,
             Create(creator, t, p, option)
      PROVE  Simulates
  <2>1. t \in Task /\ k.task_state[t] = "NONE" /\ k' = create_task(k, t, p, option)
    BY <1>8 DEF Create, Task
  <2> QED
    BY <1>1, <2>1, CreateUnseen
<1>9. CASE \/ UART0_IRQHandler \/ TimerInitDone \/ TimerScanBegin
           \/ (\E t \in Task : switch_context(t))
  <2>1. k' = k
    BY <1>9 DEF UART0_IRQHandler, TimerInitDone, TimerScanBegin, switch_context
  <2> QED
    BY <1>2, <2>1
<1> QED
  BY <1>3, <1>4, <1>5, <1>6, <1>7, <1>8, <1>9
     DEF OtherStep, Interrupt, timer_task_function

(* What wake_first does to the calls: the first in line leaves it.         *)
LEMMA WakeFirstEffect ==
    ASSUME SemRInv, NEW s \in WaitObject, k.wait_list[s] # <<>>
    PROVE  /\ Head(k.wait_list[s]) \in Task
           /\ Head(k.wait_list[s]) \in Range(k.wait_list[s])
           /\ wake_first(s) \in KernelState
           /\ EndsItsWait(wake_first(s), k, Head(k.wait_list[s]), "ERR_NO_ERROR")
<1> DEFINE h == Head(k.wait_list[s])
           w == task_wait_complete(queue_remove_element(k, h), h)
<1>1. /\ KInv(k) /\ k \in KernelState /\ k.wait_list[s] \in Seq(Task)
  BY SemRInvFacts DEF KInv
<1>2. h \in Task /\ h \in Range(k.wait_list[s]) /\ k.task_state[h] = "WAIT"
  BY <1>1, HeadInList, FirstWaits
<1>3. \A p \in Priority : h \notin Range(k.runnable_tasks_list[p])
  BY <1>1, <1>2 DEF KInv, Linked, ReadyOK, Runnable
<1>4. wake_first(s) = w
  BY DEF wake_first
<1> HIDE DEF h
<1>5. w \in KernelState /\ EndsItsWait(w, k, h, "ERR_NO_ERROR")
  BY <1>1, <1>2, <1>3, WaitCompleteEffect
<1> QED
  BY <1>2, <1>4, <1>5 DEF h

(* A change of one count as the counting semaphore sees it.                *)
LEMMA StoreChanges ==
    ASSUME sem \in [WaitObject -> Units], NEW s \in WaitObject, NEW n,
           sem' = [sem EXCEPT ![s].count = n]
    PROVE  /\ [o \in WaitObject |-> sem'[o].count] =
                 [[o \in WaitObject |-> sem[o].count] EXCEPT ![s] = n]
           /\ [o \in WaitObject |-> sem'[o].max_count] =
                 [o \in WaitObject |-> sem[o].max_count]
<1>1. /\ sem'[s].count = n
      /\ sem'[s].max_count = sem[s].max_count
      /\ \A o \in WaitObject : o # s => sem'[o] = sem[o]
  BY DEF Units
<1> QED
  BY <1>1

(* semaphore_signal and release_semaphore_i release a unit, to the first   *)
(* in line or to the store, or find the store full.                        *)
LEMMA ReleaseSimulates ==
    ASSUME SemRInv, NEW s \in WaitObject, Release(s)
    PROVE  Simulates
<1> DEFINE h == Head(k.wait_list[s])
<1>1. release(s) /\ call' = call
  BY DEF Release, semaphore_signal, release_semaphore_i
<1>2. /\ SameAcquires
      /\ sem \in [WaitObject -> Units]
  BY <1>1, SameCalls, SemRInvFacts
<1>3. CASE k.wait_list[s] # <<>>
  <2>1. /\ h \in Task
        /\ h \in Range(k.wait_list[s])
        /\ EndsItsWait(k', k, h, "ERR_NO_ERROR")
        /\ sem' = sem
    BY <1>1, <1>3, WakeFirstEffect DEF release
  <2>2. EndsAcquire(h, "ERR_NO_ERROR")
    BY <2>1 DEF EndsItsWait, EndsAcquire
  <2>3. "ERR_NO_ERROR" \in ReturnCode /\ Answered["ERR_NO_ERROR"] = "granted"
    BY DEF ReturnCode, Answered
  <2> HIDE DEF h
  <2>4. Promise!LeaveLine(h, s, "granted")
    BY <1>2, <2>1, <2>2, <2>3, LeavesTheLine
  <2>5. Promise!Release(s)
    BY <1>3, <2>4 DEF Promise!Release, h
  <2> QED
    BY <1>2, <2>1, <2>2, <2>5, LeavingKeeps DEF Simulates, Promise!Next
<1>4. CASE k.wait_list[s] = <<>>
  <2>1. /\ k' = k
        /\ sem' = [sem EXCEPT ![s].count = IF @ < sem[s].max_count THEN @ + 1 ELSE @]
    BY <1>1, <1>4 DEF release
  <2>2. CallsMatchWaits'
    BY <1>2, <2>1, UnseenKeeps
  <2>3. CASE sem[s].count < sem[s].max_count
    <3>1. sem' = [sem EXCEPT ![s].count = @ + 1]
      BY <2>1, <2>3
    <3>2. /\ [o \in WaitObject |-> sem'[o].count] =
                [[o \in WaitObject |-> sem[o].count] EXCEPT ![s] = @ + 1]
          /\ [o \in WaitObject |-> sem'[o].max_count] =
                [o \in WaitObject |-> sem[o].max_count]
      BY <1>2, <3>1, StoreChanges
    <3>3. [t \in Task |-> AnswerOf(t)]' = [t \in Task |-> AnswerOf(t)]
      BY <1>1, <2>1 DEF AnswerOf
    <3>4. Promise!Release(s)
      BY <1>4, <2>1, <2>3, <3>2, <3>3 DEF Promise!Release
    <3> QED
      BY <2>2, <3>4 DEF Simulates, Promise!Next
  <2>4. CASE ~(sem[s].count < sem[s].max_count)
    <3>1. sem' = sem
      BY <1>2, <2>1, <2>4 DEF Units
    <3> QED
      BY <1>2, <2>1, <3>1, UnseenStep
  <2> QED
    BY <2>3, <2>4
<1> QED
  BY <1>3, <1>4

(* A unit that is in store is taken without a wait.                        *)
LEMMA TakeSimulates ==
    ASSUME SemRInv, NEW s \in WaitObject, sem[s].count >= 1,
           sem' = [sem EXCEPT ![s].count = @ - 1], k' = k, call' = call
    PROVE  Simulates
<1>1. /\ SameAcquires
      /\ sem \in [WaitObject -> Units]
  BY SameCalls, SemRInvFacts
<1>2. /\ [o \in WaitObject |-> sem'[o].count] =
            [[o \in WaitObject |-> sem[o].count] EXCEPT ![s] = @ - 1]
      /\ [o \in WaitObject |-> sem'[o].max_count] =
            [o \in WaitObject |-> sem[o].max_count]
  BY <1>1, StoreChanges
<1>3. [t \in Task |-> AnswerOf(t)]' = [t \in Task |-> AnswerOf(t)]
  BY DEF AnswerOf
<1>4. sem[s].count > 0
  BY <1>1 DEF Units
<1>5. Promise!Take(s)
  BY <1>2, <1>3, <1>4 DEF Promise!Take
<1>6. CallsMatchWaits'
  BY <1>1, UnseenKeeps
<1> QED
  BY <1>5, <1>6 DEF Simulates, Promise!Next

(* acquire_semaphore with nothing in store: the caller stands in line.     *)
LEMMA WaitSimulates ==
    ASSUME SemRInv, NEW s \in WaitObject, NEW t \in UserTask, Free(t),
           sem[s].count < 1, NEW timeout,
           k' = task_curr_to_wait_action(k, s, "SEM", timeout),
           call' = [call EXCEPT ![t] = <<"acquire", s>>], sem' = sem
    PROVE  Simulates
<1> DEFINE w == task_curr_to_wait_action(k, s, "SEM", timeout)
<1>1. /\ KInv(k) /\ IInv
      /\ t \in Task /\ t # idle_task /\ t = k.current_running_task
      /\ k.task_state \in [Task -> TaskState]
      /\ k.wait_list \in [WaitObject -> Seq(Task)]
      /\ sem \in [WaitObject -> Units]
      /\ call \in [Task -> Calls]
      /\ CallsMatchWaits
  BY SemRInvFacts, TasksAssumption DEF Task, Free, Thread
<1>2. k.task_state[t] = "RUNNABLE" /\ call[t] = NoCall /\ ~ Acquiring(t)
  BY <1>1, ThreadIsRunnable, CallFacts DEF Free, Acquiring
<1>3. StartsToWait(w, k, t, s, timeout)
  BY <1>1, <1>2, CurrToWaitEffect
<1>4. k' = w
  OBVIOUS
<1> HIDE DEF w
<1>5. /\ k'.wait_list = [o \in WaitObject |->
            IF o = s THEN InsertLast(k.wait_list[o], t) ELSE k.wait_list[o]]
      /\ k'.task_state = [k.task_state EXCEPT ![t] = "WAIT"]
      /\ k'.task_wait_return_code = k.task_wait_return_code
  BY <1>3, <1>4 DEF StartsToWait
<1>6. k'.wait_list = [k.wait_list EXCEPT ![s] = InsertLast(@, t)]
  BY <1>1, <1>5
<1>7. /\ k'.task_state[t] = "WAIT" /\ call'[t] = <<"acquire", s>>
      /\ \A u \in Task : u # t => /\ k'.task_state[u] = k.task_state[u]
                                 /\ call'[u] = call[u]
  BY <1>1, <1>5
<1>8. [u \in Task |-> AnswerOf(u)]' =
         [[u \in Task |-> AnswerOf(u)] EXCEPT ![t] = "waiting"]
  <2>1. AnswerOf(t)' = "waiting"
    BY <1>7, CallFacts DEF AnswerOf
  <2>2. \A u \in Task : u # t => AnswerOf(u)' = AnswerOf(u)
    BY <1>5, <1>7 DEF AnswerOf
  <2> QED
    BY <2>1, <2>2
<1>9. AnswerOf(t) = "none" /\ sem[s].count = 0
  BY <1>1, <1>2 DEF AnswerOf, Acquiring, Units
<1>10. Promise!StandInLine(t, s)
  <2>1. [o \in WaitObject |-> sem[o].count]' = [o \in WaitObject |-> sem[o].count]
        /\ [o \in WaitObject |-> sem[o].max_count]' = [o \in WaitObject |-> sem[o].max_count]
    OBVIOUS
  <2> QED
    BY <1>1, <1>6, <1>8, <1>9, <2>1, PromiseLists DEF Promise!StandInLine
<1>11. ASSUME NEW o \in WaitObject
       PROVE  Range(k'.wait_list[o]) =
                 IF o = s THEN Range(k.wait_list[o]) \cup {t} ELSE Range(k.wait_list[o])
  <2>1. k.wait_list[o] \in Seq(Task) /\ t \in Task
    BY <1>1
  <2>2. Range(InsertLast(k.wait_list[o], t)) = Range(k.wait_list[o]) \cup {t}
    BY <2>1, InsertLastFacts
  <2> QED
    BY <1>5, <2>2
<1>12. CallsMatchWaits'
  <2>1. ASSUME NEW o \in WaitObject, NEW u \in Task, u \in Range(k'.wait_list[o])
        PROVE  call'[u] = <<"acquire", o>>
    <3>1. CASE u = t
      <4>1. t \notin Range(k.wait_list[o])
        BY <1>1, <1>2, CallFacts DEF CallsMatchWaits
      <4> QED
        BY <1>7, <1>11, <2>1, <3>1, <4>1
    <3>2. CASE u # t
      <4>1. u \in Range(k.wait_list[o])
        BY <1>11, <2>1, <3>2
      <4> QED
        BY <1>1, <1>7, <3>2, <4>1 DEF CallsMatchWaits
    <3> QED
      BY <3>1, <3>2
  <2>2. ASSUME NEW u \in Task, Acquiring(u)'
        PROVE  \/ /\ k'.task_state[u] = "WAIT"
                  /\ \E o \in WaitObject : u \in Range(k'.wait_list[o])
               \/ k'.task_state[u] = "RUNNABLE"
    <3>1. CASE u = t
      BY <1>7, <1>11, <3>1
    <3>2. CASE u # t
      BY <1>1, <1>7, <1>11, <2>2, <3>2 DEF CallsMatchWaits, Acquiring
    <3> QED
      BY <3>1, <3>2
  <2>3. \A u \in Task : call'[u] # NoCall => u \in UserTask
    BY <1>1, <1>7 DEF CallsMatchWaits
  <2> QED
    BY <2>1, <2>2, <2>3 DEF CallsMatchWaits
<1> QED
  BY <1>1, <1>10, <1>12 DEF Simulates, Promise!Next

(* acquire_semaphore, and the polling variants.                            *)
LEMMA AcquireSimulates ==
    ASSUME SemRInv, NEW s \in WaitObject, Acquire(s)
    PROVE  Simulates
<1>1. ASSUME NEW t \in UserTask, NEW timeout, acquire_semaphore(t, s, timeout)
      PROVE  Simulates
  <2>1. CASE sem[s].count >= 1 /\ sem' = [sem EXCEPT ![s].count = @ - 1]
             /\ k' = k /\ call' = call
    BY <2>1, TakeSimulates
  <2>2. CASE /\ sem[s].count < 1
             /\ k' = task_curr_to_wait_action(k, s, "SEM", timeout)
             /\ call' = [call EXCEPT ![t] = <<"acquire", s>>]
             /\ sem' = sem
    BY <1>1, <2>2, WaitSimulates DEF acquire_semaphore
  <2> QED
    BY <1>1, <2>1, <2>2 DEF acquire_semaphore
<1>2. ASSUME NEW t \in UserTask, acquire_semaphore_polling(t, s)
      PROVE  Simulates
  BY <1>2, TakeSimulates DEF acquire_semaphore_polling, poll, vars
<1>3. CASE acquire_semaphore_polling_i(s)
  BY <1>3, TakeSimulates DEF acquire_semaphore_polling_i, poll
<1> QED
  BY <1>1, <1>2, <1>3 DEF Acquire

(* acquire_semaphore returns: the caller looks at what he was told.        *)
LEMMA ReturnSimulates ==
    ASSUME SemRInv, NEW t \in UserTask, AcquireReturns(t)
    PROVE  Simulates
<1>1. /\ IInv /\ t \in Task
      /\ k.task_wait_return_code \in [Task -> ReturnCode]
      /\ call \in [Task -> Calls]
      /\ CallsMatchWaits
      /\ k' = k /\ sem' = sem /\ call' = [call EXCEPT ![t] = NoCall]
      /\ Thread(t) /\ pc[t] = "run" /\ Acquiring(t)
  BY SemRInvFacts DEF AcquireReturns, vars, Task, Acquiring
<1>2. k.task_state[t] = "RUNNABLE"
  BY <1>1, ThreadIsRunnable
<1>3. AnswerOf(t) \in {"granted", "timed_out", "deleted"}
  BY <1>1, <1>2 DEF AnswerOf, Acquiring, ReturnCode, Answered
<1>4. call'[t] = NoCall /\ \A u \in Task : u # t => call'[u] = call[u]
  BY <1>1
<1>5. [u \in Task |-> AnswerOf(u)]' = [[u \in Task |-> AnswerOf(u)] EXCEPT ![t] = "none"]
  <2>1. AnswerOf(t)' = "none"
    BY <1>4, CallFacts DEF AnswerOf
  <2>2. \A u \in Task : u # t => AnswerOf(u)' = AnswerOf(u)
    BY <1>1, <1>4 DEF AnswerOf
  <2> QED
    BY <2>1, <2>2
<1>6. Promise!Look(t)
  <2>1. [o \in WaitObject |-> sem[o].count]' = [o \in WaitObject |-> sem[o].count]
        /\ [o \in WaitObject |-> sem[o].max_count]' = [o \in WaitObject |-> sem[o].max_count]
    BY <1>1
  <2> QED
    BY <1>1, <1>3, <1>5, <2>1 DEF Promise!Look
<1>7. CallsMatchWaits'
  <2>1. ASSUME NEW o \in WaitObject, NEW u \in Task, u \in Range(k'.wait_list[o])
        PROVE  call'[u] = <<"acquire", o>>
    <3>1. u # t
      BY <1>1, <1>2, <2>1, InOneQueue
    <3> QED
      BY <1>1, <1>4, <2>1, <3>1 DEF CallsMatchWaits
  <2>2. ASSUME NEW u \in Task, Acquiring(u)'
        PROVE  \/ /\ k'.task_state[u] = "WAIT"
                  /\ \E o \in WaitObject : u \in Range(k'.wait_list[o])
               \/ k'.task_state[u] = "RUNNABLE"
    <3>1. u # t
      BY <1>4, <2>2, CallFacts DEF Acquiring
    <3> QED
      BY <1>1, <1>4, <2>2, <3>1 DEF CallsMatchWaits, Acquiring
  <2>3. \A u \in Task : call'[u] # NoCall => u \in UserTask
    BY <1>1, <1>4 DEF CallsMatchWaits
  <2> QED
    BY <2>1, <2>2, <2>3 DEF CallsMatchWaits
<1> QED
  BY <1>1, <1>6, <1>7 DEF Simulates, Promise!Next

(* delete_semaphore tells the first in line, one at a time.                *)
LEMMA DeleteSimulates ==
    ASSUME SemRInv, NEW s \in WaitObject, NEW t \in UserTask, delete_semaphore(t, s)
    PROVE  Simulates
<1> DEFINE h == Head(k.wait_list[s])
           w == wake_first(s)
<1>1. /\ t \in Task
      /\ sem' = sem
      /\ call[t] \in {NoCall, <<"delete", s>>}
      /\ call' = call \/ \E c \in {NoCall, <<"delete", s>>} : call' = [call EXCEPT ![t] = c]
      /\ call \in [Task -> Calls]
      /\ CallsMatchWaits
  BY SemRInvFacts DEF delete_semaphore, Task
<1>2. SameAcquires
  BY <1>1, CallFacts DEF SameAcquires, CallsMatchWaits, Acquiring
<1>3. CASE k.wait_list[s] # <<>>
  <2>1. k' = [w EXCEPT !.task_wait_return_code[h] = "ERR_DELETED"]
    BY <1>3 DEF delete_semaphore
  <2>2. /\ h \in Task
        /\ h \in Range(k.wait_list[s])
        /\ w \in KernelState
        /\ EndsItsWait(w, k, h, "ERR_NO_ERROR")
    BY <1>3, WakeFirstEffect
  <2> HIDE DEF h, w
  <2>3. /\ k'.wait_list = w.wait_list
        /\ k'.task_state = w.task_state
        /\ k'.task_wait_return_code = [w.task_wait_return_code EXCEPT ![h] = "ERR_DELETED"]
    BY <2>1, <2>2 DEF KernelState
  <2>4. EndsAcquire(h, "ERR_DELETED")
    <3>1. k.task_wait_return_code \in [Task -> ReturnCode]
      BY SemRInvFacts
    <3>2. k'.task_wait_return_code = [k.task_wait_return_code EXCEPT ![h] = "ERR_DELETED"]
      BY <2>2, <2>3, <3>1 DEF EndsItsWait
    <3> QED
      BY <2>2, <2>3, <3>2 DEF EndsItsWait, EndsAcquire
  <2>5. "ERR_DELETED" \in ReturnCode /\ Answered["ERR_DELETED"] = "deleted"
    BY DEF ReturnCode, Answered
  <2>6. Promise!LeaveLine(h, s, "deleted")
    BY <1>1, <1>2, <2>2, <2>4, <2>5, LeavesTheLine
  <2>7. Promise!Delete(s)
    BY <1>3, <2>6 DEF Promise!Delete, h
  <2> QED
    BY <1>2, <2>2, <2>4, <2>7, LeavingKeeps DEF Simulates, Promise!Next
<1>4. CASE k.wait_list[s] = <<>>
  <2>1. k' = k
    BY <1>4 DEF delete_semaphore
  <2> QED
    BY <1>1, <1>2, <2>1, UnseenStep
<1> QED
  BY <1>3, <1>4

(* create_semaphore sets up a store that is not in use.                    *)
LEMMA CreateSimulates ==
    ASSUME SemRInv, NEW t \in UserTask, NEW s \in WaitObject,
           NEW start_value \in 0 .. MaxUnits, NEW max_value \in 1 .. MaxUnits,
           create_semaphore(t, s, start_value, max_value)
    PROVE  Simulates
<1>1. /\ sem \in [WaitObject -> Units]
      /\ sem[s].max_count = 0 /\ start_value <= max_value
      /\ sem' = [sem EXCEPT ![s] = [count |-> start_value, max_count |-> max_value]]
      /\ k' = k /\ call' = call
      /\ SameAcquires
  BY SemRInvFacts, SameCalls DEF create_semaphore, Created, vars
<1>2. [u \in Task |-> AnswerOf(u)]' = [u \in Task |-> AnswerOf(u)]
  BY <1>1 DEF AnswerOf
<1>3. /\ sem'[s].count = start_value /\ sem'[s].max_count = max_value
      /\ \A o \in WaitObject : o # s => sem'[o] = sem[o]
      /\ sem' \in [WaitObject -> Units]
  BY <1>1, UnitsAssumption DEF Units
<1>4. Promise!Create(s)
  <2> DEFINE units == [o \in WaitObject |-> sem[o].count]
             capacity == [o \in WaitObject |-> sem[o].max_count]
  <2>1. /\ capacity[s] = 0
        /\ capacity' \in [WaitObject -> Nat]
        /\ units' \in [WaitObject -> Nat]
        /\ units'[s] <= capacity'[s]
        /\ \A o \in WaitObject \ {s} : units'[o] = units[o] /\ capacity'[o] = capacity[o]
    BY <1>1, <1>3 DEF Units
  <2>2. k.wait_list' = k.wait_list
    BY <1>1
  <2> QED
    BY <1>2, <2>1, <2>2 DEF Promise!Create
<1>5. CallsMatchWaits'
  BY <1>1, UnseenKeeps
<1> QED
  BY <1>4, <1>5 DEF Simulates, Promise!Next

LEMMA SemStepSimulates ==
    SemRInv /\ [SemNext]_<<vars, semVars>> => Simulates
<1> SUFFICES ASSUME SemRInv, [SemNext]_<<vars, semVars>> PROVE Simulates
  OBVIOUS
<1>1. CASE UNCHANGED <<vars, semVars>>
  BY <1>1, UnseenStep, SameCalls DEF vars, semVars
<1> QED
  BY <1>1, OtherSimulates, ReturnSimulates, CreateSimulates, ReleaseSimulates,
     AcquireSimulates, DeleteSimulates DEF SemNext

LEMMA SemInitSimulates == SemInit => CallsMatchWaits /\ Promise!Init
<1> SUFFICES ASSUME SemInit PROVE CallsMatchWaits /\ Promise!Init
  OBVIOUS
<1>1. k = kernel_main
  BY DEF SemInit, Init
<1>2. /\ KInv(k)
      /\ k.wait_list \in [WaitObject -> Seq(Task)]
      /\ \A t \in Task : k.task_state[t] # "WAIT"
      /\ \A t \in Task : call[t] = NoCall
      /\ sem = [s \in WaitObject |-> [count |-> 0, max_count |-> 0]]
  BY <1>1, KernelMain DEF SemInit, KInv, KernelState
<1>3. ASSUME NEW s \in WaitObject
      PROVE  k.wait_list[s] = <<>>
  <2>1. Range(k.wait_list[s]) = {}
    <3>1. Range(k.wait_list[s]) \subseteq Task
      BY <1>2, ListElements
    <3> QED
      BY <1>2, <3>1 DEF KInv, WaitListsConsistent
  <2> QED
    BY <1>2, <2>1, EmptyList
<1>4. CallsMatchWaits
  <2>1. \A s \in WaitObject : Range(k.wait_list[s]) = {}
    BY <1>3, NewList
  <2> QED
    BY <1>2, <2>1, CallFacts DEF CallsMatchWaits, Acquiring
<1>5. Promise!Init
  <2>1. \A t \in Task : AnswerOf(t) = "none"
    BY <1>2, CallFacts DEF AnswerOf
  <2>2. k.wait_list = [s \in WaitObject |-> <<>>]
    BY <1>2, <1>3
  <2>3. [t \in Task |-> AnswerOf(t)] = [t \in Task |-> "none"]
    BY <2>1
  <2>4. /\ [s \in WaitObject |-> sem[s].count] = [s \in WaitObject |-> 0]
        /\ [s \in WaitObject |-> sem[s].max_count] = [s \in WaitObject |-> 0]
    BY <1>2
  <2> QED
    BY <2>2, <2>3, <2>4 DEF Promise!Init
<1> QED
  BY <1>4, <1>5

(* Units are given out one by one and none is lost or made up, a released  *)
(* unit goes to the longest waiting task, and a task is told granted,      *)
(* timed out or deleted exactly as its wait ended, and finds that answer   *)
(* when it runs again (semaphore.c with task.c and kernel.c), for any      *)
(* numbers of tasks, semaphores, units and ticks.                          *)
THEOREM SemaphoresKeepTheirPromise == SemSpec => ImplementsCountingSemaphore
<1>1. SemInit => SemRInv /\ Promise!Init
  BY SemInitInvariant, SemInitSimulates DEF SemRInv
<1>2. SemRInv /\ [SemNext]_<<vars, semVars>> => SemRInv'
  BY SemStepInvariant, SemStepSimulates DEF SemRInv, Simulates
<1>3. SemRInv /\ [SemNext]_<<vars, semVars>> => [Promise!Next]_(Promise!vars)
  BY SemStepSimulates DEF Simulates
<1> QED
  BY <1>1, <1>2, <1>3, PTL DEF SemSpec, ImplementsCountingSemaphore, Promise!Spec
=============================================================================
