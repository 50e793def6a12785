------------------------------- MODULE Mutexes -------------------------------
(***************************************************************************)
(* Mutexes with priority inheritance on top of the running kernel          *)
(* (mutex.c, and the half of it that is in task.c).  A call is one step,   *)
(* because it masks interrupts for its whole body; a call that blocks goes *)
(* on to the window before switch_context, and delete_mutex opens that     *)
(* window once per task it wakes.                                          *)
(*                                                                         *)
(* disable_interrupt saves PRIMASK and enable_interrupt restores what was  *)
(* saved.  unlock_mutex returns without restoring: from then on the task   *)
(* runs masked, and every later call restores "masked", until exit_task's  *)
(* switch_context_exit enables interrupts by force.  A task that starts to *)
(* wait while it is masked runs on; nothing is said of what follows.       *)
(*                                                                         *)
(* Names that mutex.c and task.c spell in two ways (holder and locker,     *)
(* rc and return_code, ERR_DLT and ERR_DELETED) are one here.              *)
(***************************************************************************)
EXTENDS Scheduler

Mutex == WaitObject

VARIABLES
    locker,         \* locker[m]: the task that holds m
    mutex_queue,    \* mutex_queue[t]: the mutexes linked in the task's queue
    call,           \* call[t]: the blocking call task t is inside of
    handed          \* history: mutexes whose locker got them from unlock_mutex

mutexVars == <<locker, mutex_queue, call, handed>>

NoCall == <<"none", NULL>>
Calls == {NoCall} \cup {"lock", "delete"} \X Mutex

(* The mutexes are created before they are used, and no task holds one.    *)
MutexInit ==
    /\ Init
    /\ locker = [m \in Mutex |-> NULL]
    /\ mutex_queue = [t \in Task |-> {}]
    /\ call = [t \in Task |-> NoCall]
    /\ handed = {}

(* app_init, inside the timer task, creates the user tasks.                *)
AppInit ==
    \E t \in UserTask, p \in Priority :
        Create(timer_task, t, p, {"TASK_START_ON_CREATION"})

-----------------------------------------------------------------------------
(* Priorities                                                              *)

(* The task goes to the tail of its new ready list.                        *)
change_running_task_priority(s, t, new_priority) ==
    LET p        == s.priority[t]
        unlinked == queue_remove_element(s, t)
    IN  find_next_task_to_run(
            [unlinked EXCEPT
                !.priority[t] = new_priority,
                !.runnable_tasks_list[new_priority] = InsertLast(@, t),
                !.priority_ready_to_run_bitmap =
                    {new_priority} \cup
                    (IF unlinked.runnable_tasks_list[p] = <<>> THEN @ \ {p} ELSE @)])

(* Task u waits for a mutex that task t holds.                             *)
WaitsForHolder(s, lockers, u, t) ==
    /\ s.task_state[u] = "WAIT"
    /\ s.task_wait_reason[u] = "MUTEX_I"
    /\ lockers[s.wait_queue[u]] = t

(* The tasks whose priority the loop of set_current_priority raises: the   *)
(* holder; if that waits for a mutex, the holder of that one; and so on,   *)
(* up to the first that is urgent enough or waits for no mutex.            *)
Raised(s, lockers, holder, priority) ==
    LET less_urgent == {t \in Task : s.priority[t] > priority}
        Reached(t, set) ==
            t = holder \/ \E u \in set : WaitsForHolder(s, lockers, u, t)
        closed == {set \in SUBSET less_urgent :
                      \A t \in less_urgent : Reached(t, set) => t \in set}
    IN  {t \in less_urgent : \A set \in closed : t \in set}

(* MUTANT: the holder alone is raised.                                     *)
set_current_priority_not_transitive(s, lockers, holder, priority) ==
    IF s.priority[holder] <= priority
    THEN s
    ELSE IF s.task_state[holder] = "RUNNABLE"
    THEN change_running_task_priority(s, holder, priority)
    ELSE [s EXCEPT !.priority[holder] = priority]

set_current_priority(s, lockers, holder, priority) ==
    LET raised   == Raised(s, lockers, holder, priority)
        runnable == {t \in raised : s.task_state[t] = "RUNNABLE"}
        waiting  == [s EXCEPT !.priority = [t \in Task |->
                        IF t \in raised \ runnable THEN priority ELSE @[t]]]
    IN  IF runnable = {}
        THEN waiting
        ELSE change_running_task_priority(waiting, CHOOSE t \in runnable : TRUE, priority)

(* find_max_blocked_priority, for a set of mutexes.                        *)
find_max_blocked_priority(s, mutexes, ref_priority) ==
    Min({ref_priority} \cup
        {s.priority[t] : t \in UNION {Range(s.wait_list[m]) : m \in mutexes}})

(* The end of a wait for a mutex, in task_wait_complete: `s` is the state  *)
(* before, `woken` the one in which task t is RUNNABLE again.  Priorities  *)
(* are only raised, so a holder keeps what it inherited from t.            *)
RecalculatedHolder(s, woken, lockers, t) ==
    LET mutex  == s.wait_queue[t]
        holder == lockers[mutex]
        base   == woken.base_priority[holder]
    IN  IF /\ s.task_wait_reason[t] = "MUTEX_I"
           /\ holder # NULL
           /\ woken.priority[holder] # base
           /\ woken.priority[holder] = woken.priority[t]
        THEN set_current_priority(woken, lockers, holder,
                                  find_max_blocked_priority(woken, {mutex}, base))
        ELSE woken

(* The end of the wait of the first task in line for mutex m.              *)
wake_first(s, lockers, m) ==
    LET task == Head(s.wait_list[m])
    IN  RecalculatedHolder(s, task_wait_complete(queue_remove_element(s, task), task),
                           lockers, task)

-----------------------------------------------------------------------------
(* Calls                                                                   *)

(* Task t executes application code and is in no call.                     *)
Free(t) == Thread(t) /\ pc[t] = "run" /\ call[t] = NoCall

TakeFree(t, m) ==
    /\ locker[m] = NULL
    /\ locker' = [locker EXCEPT ![m] = t]
    /\ mutex_queue' = [mutex_queue EXCEPT ![t] = @ \cup {m}]
    /\ UNCHANGED handed

(* A task that already holds m gets ERR_ILLEGAL_USE.                       *)
lock_mutex(t, m, timeout) ==
    /\ Free(t)
    /\ \/ /\ TakeFree(t, m)
          /\ UNCHANGED <<k, pc, call>>
       \/ /\ locker[m] \notin {NULL, t}
          /\ LET holder    == locker[m]
                 inherited == IF k.priority[t] < k.priority[holder]
                              THEN set_current_priority(k, locker, holder, k.priority[t])
                              ELSE k
             IN  k' = task_curr_to_wait_action(inherited, m, "MUTEX_I", timeout)
          /\ pc' = [pc EXCEPT ![t] = "switch"]
          /\ call' = [call EXCEPT ![t] = <<"lock", m>>]
          /\ UNCHANGED <<locker, mutex_queue, handed>>
    /\ UNCHANGED <<cursor, primask, pendsv>>

(* Back from switch_context, lock_mutex returns the return code.           *)
LockReturns(t) ==
    /\ Thread(t)
    /\ pc[t] = "run"
    /\ call[t][1] = "lock"
    /\ call' = [call EXCEPT ![t] = NoCall]
    /\ UNCHANGED <<vars, locker, mutex_queue, handed>>

(* With m locked the call returns an error and changes nothing.            *)
try_lock_mutex(t, m) ==
    /\ Free(t)
    /\ TakeFree(t, m)
    /\ UNCHANGED <<vars, call>>

(* MUTANT: the mutex is not linked in the queue of the task it goes to.    *)
Unlocked_not_linked(t, m) ==
    LET kept     == mutex_queue[t] \ {m}
        priority == find_max_blocked_priority(k, kept, k.base_priority[t])
        restored == IF priority # k.priority[t]
                    THEN change_running_task_priority(k, t, priority)
                    ELSE k
        line     == restored.wait_list[m]
        new      == IF line = <<>> THEN NULL ELSE Head(line)
        lockers  == [locker EXCEPT ![m] = new]
    IN  /\ k' = IF line = <<>> THEN restored ELSE wake_first(restored, lockers, m)
        /\ locker' = lockers
        /\ mutex_queue' = [mutex_queue EXCEPT ![t] = kept]
        /\ handed' = IF line = <<>> THEN handed \ {m} ELSE handed \cup {m}

(* MUTANT: the inherited priority is kept.                                 *)
Unlocked_keeps_priority(t, m) ==
    LET line     == k.wait_list[m]
        new      == IF line = <<>> THEN NULL ELSE Head(line)
        lockers  == [locker EXCEPT ![m] = new]
    IN  /\ k' = IF line = <<>> THEN k ELSE wake_first(k, lockers, m)
        /\ locker' = lockers
        /\ mutex_queue' = [u \in Task |->
               (mutex_queue[u] \ {m}) \cup (IF u = new THEN {m} ELSE {})]
        /\ handed' = IF line = <<>> THEN handed \ {m} ELSE handed \cup {m}

(* MUTANT: the mutex becomes free before the first in line is woken.       *)
Unlocked_frees(t, m) ==
    LET kept     == mutex_queue[t] \ {m}
        priority == find_max_blocked_priority(k, kept, k.base_priority[t])
        restored == IF priority # k.priority[t]
                    THEN change_running_task_priority(k, t, priority)
                    ELSE k
        lockers  == [locker EXCEPT ![m] = NULL]
    IN  /\ k' = IF restored.wait_list[m] = <<>> THEN restored
                ELSE wake_first(restored, lockers, m)
        /\ locker' = lockers
        /\ mutex_queue' = [mutex_queue EXCEPT ![t] = kept]
        /\ UNCHANGED handed

(* do_unlock_mutex, and its copy in unlock_mutex: task t falls back to     *)
(* what the mutexes it keeps require; m goes to the first in line.         *)
Unlocked(t, m) ==
    LET kept     == mutex_queue[t] \ {m}
        priority == find_max_blocked_priority(k, kept, k.base_priority[t])
        restored == IF priority # k.priority[t]
                    THEN change_running_task_priority(k, t, priority)
                    ELSE k
        line     == restored.wait_list[m]
        new      == IF line = <<>> THEN NULL ELSE Head(line)
        lockers  == [locker EXCEPT ![m] = new]
    IN  /\ k' = IF line = <<>> THEN restored ELSE wake_first(restored, lockers, m)
        /\ locker' = lockers
        /\ mutex_queue' = [u \in Task |->
               (mutex_queue[u] \ {m}) \cup (IF u = new THEN {m} ELSE {})]
        /\ handed' = IF line = <<>> THEN handed \ {m} ELSE handed \cup {m}

(* Returns with interrupts masked, and without switch_context.             *)
unlock_mutex(t, m) ==
    /\ Free(t)
    /\ locker[m] = t
    /\ Unlocked(t, m)
    /\ primask' = TRUE
    /\ UNCHANGED <<pc, cursor, pendsv, call>>

(* One turn of the loop: the first in line is told ERR_DELETED, then the   *)
(* CPU is offered.  When nobody is left in line the mutex becomes free;    *)
(* nothing marks it as deleted.                                            *)
delete_mutex(t, m) ==
    /\ Thread(t)
    /\ pc[t] = "run"
    /\ \/ call[t] = NoCall /\ locker[m] = t
       \/ call[t] = <<"delete", m>>
    /\ \/ /\ k.wait_list[m] # <<>>
          /\ k' = [wake_first(k, locker, m) EXCEPT
                      !.task_wait_return_code[Head(k.wait_list[m])] = "ERR_DELETED"]
          /\ pc' = [pc EXCEPT ![t] = "switch"]
          /\ call' = [call EXCEPT ![t] = <<"delete", m>>]
          /\ UNCHANGED <<locker, mutex_queue, handed>>
       \/ /\ k.wait_list[m] = <<>>
          /\ Unlocked(t, m)
          /\ call' = [call EXCEPT ![t] = NoCall]
          /\ UNCHANGED pc
    /\ UNCHANGED <<cursor, primask, pendsv>>

-----------------------------------------------------------------------------
(* Tasks that return while they hold a mutex or run masked.  (The others   *)
(* are in TaskExit.)                                                       *)

(* exit_task, uninterrupted, up to switch_context_exit's cpsie.            *)
exit_task_masked(t) ==
    /\ primask
    /\ Free(t)
    /\ mutex_queue[t] = {}
    /\ \E attribut \in {0, 1} :
          LET dormant == task_set_dormant_state(task_to_non_runnable(k, t), t)
          IN  k' = IF attribut = 1
                   THEN [dormant EXCEPT !.all_tasks_queue = @ \ {t}, !.num_tasks = @ - 1]
                   ELSE dormant
    /\ pc' = [pc EXCEPT ![t] = "gone"]
    /\ primask' = FALSE
    /\ pendsv' = TRUE
    /\ UNCHANGED <<cursor, mutexVars>>

(* An address inside a MUTEX: the mutex, and the link pointed to.          *)
LinkOf(m, link) == <<m, link>>

(* Subtracts the place of the wait_queue link, which is the first field.   *)
get_mutex_in_queue(address) ==
    IF address[2] = "wait_queue" THEN address[1] ELSE address

(* The first turn of exit_task's loop over the mutexes: what it finds is   *)
(* handed to do_unlock_mutex.  If that is no mutex, its fields overlap the *)
(* links and the TASK, and nothing is said of what follows.                *)
exit_task_holding(t) ==
    /\ Free(t)
    /\ \E m \in mutex_queue[t] :
          pc' = [pc EXCEPT ![t] =
                    IF get_mutex_in_queue(LinkOf(m, "mutex_queue")) \in Mutex
                    THEN "exit_unlock" ELSE "exit_wild"]
    /\ UNCHANGED <<k, cursor, primask, pendsv, mutexVars>>

-----------------------------------------------------------------------------
(* The timer task's visit of a task that waits for a mutex.                *)
MutexScanStep ==
    /\ Thread(timer_task)
    /\ pc[timer_task] = "scan"
    /\ cursor <= Len(k.waiting_timeout_tasks_list)
    /\ LET t       == k.waiting_timeout_tasks_list[cursor]
           visited == timer_visit(k, t)
       IN  IF visited.task_state[t] = "WAIT"
           THEN /\ k' = visited
                /\ cursor' = cursor + 1
           ELSE /\ k' = RecalculatedHolder(k, visited, locker, t)
                /\ UNCHANGED cursor
    /\ UNCHANGED <<pc, primask, pendsv>>

(* The rest of the kernel.  UART0's interrupt, which only pends PendSV, is *)
(* left to the other modules, and so are sleeps that nothing ends.         *)
OtherStep ==
    /\ \/ SysTick_Handler
       \/ PendSV_Handler
       \/ AppInit \/ TimerInitDone \/ TimerScanBegin \/ MutexScanStep \/ TimerWait
       \/ \E t \in Task : switch_context(t)
       \/ \E t \in UserTask, time \in Timeout : call[t] = NoCall /\ sleep(t, time)
    /\ UNCHANGED mutexVars

(* A task that waits has come back from a switch_context that was masked.  *)
Runaway ==
    LET t == k.current_running_task
    IN  primask /\ pc[t] = "run" /\ k.task_state[t] # "RUNNABLE"

MutexNext ==
    /\ ~Runaway
    /\ \A t \in UserTask : pc[t] \notin {"exit_unlock", "exit_wild"}
    /\ \/ OtherStep
       \/ \E t \in UserTask :
             LockReturns(t) \/ exit_task_masked(t) \/ exit_task_holding(t)
       \/ \E t \in UserTask, m \in Mutex :
             \/ \E timeout \in Timeout \cup {WAIT_INFINITE} : lock_mutex(t, m, timeout)
             \/ try_lock_mutex(t, m)
             \/ unlock_mutex(t, m)
             \/ delete_mutex(t, m)

MutexSpec == MutexInit /\ [][MutexNext]_<<vars, mutexVars>>

-----------------------------------------------------------------------------
MutexTypeOK ==
    /\ k \in KernelState
    /\ pc \in [Task -> {"init", "loop", "scan", "switch", "run", "gone",
                        "exit_unlock", "exit_wild"}]
    /\ locker \in [Mutex -> Task \cup {NULL}]
    /\ mutex_queue \in [Task -> SUBSET Mutex]
    /\ call \in [Task -> Calls]
    /\ handed \subseteq Mutex

(* Inheritance keeps the ready lists and the next task right, and the      *)
(* three places that say who has a mutex agree: its locker, the queue of   *)
(* mutexes of that task, and the line of the others, which is empty while  *)
(* the mutex is free and never holds the locker, however the waits end.    *)
LockersMatchQueues ==
    /\ MutexTypeOK /\ ReadyListsMatchStates /\ NextIsFirstReady
    /\ \A m \in Mutex :
          /\ \A t \in Task : m \in mutex_queue[t] <=> locker[m] = t
          /\ locker[m] = NULL => k.wait_list[m] = <<>>
          /\ locker[m] \notin Range(k.wait_list[m])

(* lock_mutex, when its wait is over, tells a task ERR_NO_ERROR exactly if *)
(* the task has the mutex: not after a timeout or a delete_mutex.          *)
GrantedMeansLocked ==
    \A t \in UserTask, m \in Mutex :
        call[t] = <<"lock", m>> /\ k.task_state[t] = "RUNNABLE" =>
            (k.task_wait_return_code[t] = "ERR_NO_ERROR" <=> locker[m] = t)

(* A task runs above its own priority only while it holds a mutex, and     *)
(* never below it.                                                         *)
RaisedOnlyWhileHolding ==
    \A t \in Task :
        /\ k.priority[t] <= k.base_priority[t]
        /\ k.priority[t] # k.base_priority[t] => mutex_queue[t] # {}

(* Priority inheritance, through any chain of mutexes: the holder of a     *)
(* mutex it found free is at least as urgent as every task in line for it. *)
HoldersInherit ==
    \A m \in Mutex \ handed :
        \A t \in Range(k.wait_list[m]) : k.priority[locker[m]] <= k.priority[t]

(* mutex.c:119 says "Base priority inheritance protocol": no task in line  *)
(* is more urgent than the locker, also after the mutex was handed to the  *)
(* first in line.  Does not hold: see HoldersInherit.                      *)
NoPriorityInversion ==
    \A m \in Mutex :
        \A t \in Range(k.wait_list[m]) : k.priority[locker[m]] <= k.priority[t]

(* mutex.c:260, below the two returns: "enable_interrupt();                *)
(* switch_context();".  A task whose call is over runs with interrupts     *)
(* enabled.  Does not hold of a call that returns above that line.         *)
CallsRestoreInterrupts ==
    \A t \in UserTask :
        k.current_running_task = t /\ pc[t] = "run" => ~primask

(* task.c:387: "Unlock all mutexes, locked by the task": what exit_task    *)
(* unlocks is one of the mutexes.  Does not hold: the address is wrong.    *)
ExitUnlocksMutexes == \A t \in UserTask : pc[t] # "exit_wild"
=============================================================================
