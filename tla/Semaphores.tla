----------------------------- MODULE Semaphores -----------------------------
(***************************************************************************)
(* Semaphores on top of the running kernel (semaphore.c).  Each function   *)
(* masks interrupts for its whole body, so a call is one step; a call that *)
(* blocks or wakes a task goes on to the window before switch_context, and *)
(* delete_semaphore opens that window once per task it wakes.  The two     *)
(* functions for interrupt handlers are called from a handler that ends    *)
(* with int_exit.                                                          *)
(*                                                                         *)
(* Callers create a semaphore once, before they use it.  Names that        *)
(* semaphore.c spells in two ways (rc and return_code, ERR_DLT and         *)
(* ERR_DELETED, queue_remove_head and queue_remove_next) are one here.     *)
(***************************************************************************)
EXTENDS Scheduler

CONSTANT MaxUnits       \* bound: the largest max_count an application asks for

ASSUME UnitsAssumption == MaxUnits \in Nat \ {0}

VARIABLES
    sem,        \* sem[s]: count and max_count of each SEMAPHORE
    call        \* call[t]: the blocking call task t is inside of

semVars == <<sem, call>>

NoCall == <<"none", NULL>>
Calls == {NoCall} \cup {"acquire", "delete"} \X WaitObject

(* Task t executes application code and is in no call.                     *)
Free(t) == Thread(t) /\ pc[t] = "run" /\ call[t] = NoCall

SemInit ==
    /\ Init
    /\ sem = [s \in WaitObject |-> [count |-> 0, max_count |-> 0]]
    /\ call = [t \in Task |-> NoCall]

Created(s) == sem[s].max_count # 0

(* Masks no interrupts; the others find max_count = 0 until it is done.    *)
create_semaphore(t, s, start_value, max_value) ==
    /\ Free(t)
    /\ ~Created(s)
    /\ start_value <= max_value
    /\ sem' = [sem EXCEPT ![s] = [count |-> start_value, max_count |-> max_value]]
    /\ UNCHANGED <<vars, call>>

-----------------------------------------------------------------------------
(* MUTANT: the task that waits for the shortest time is woken.             *)
wake_last(s) ==
    LET task == k.wait_list[s][Len(k.wait_list[s])]
    IN  task_wait_complete(queue_remove_element(k, task), task)

(* The end of the wait of the first task in the semaphore's wait_queue.    *)
wake_first(s) ==
    LET task == Head(k.wait_list[s])
    IN  task_wait_complete(queue_remove_element(k, task), task)

(* MUTANT: the woken task is left in the wait_queue.                       *)
release_leaves_in_queue(s) ==
    IF k.wait_list[s] # <<>>
    THEN /\ k' = task_wait_complete(k, Head(k.wait_list[s]))
         /\ UNCHANGED sem
    ELSE /\ sem' = [sem EXCEPT ![s].count = IF @ < sem[s].max_count THEN @ + 1 ELSE @]
         /\ UNCHANGED k

(* What semaphore_signal and release_semaphore_i have in common: the unit  *)
(* goes to the first waiting task, else to the count, else nowhere         *)
(* (ERR_OVERFLOW).                                                         *)
release(s) ==
    IF k.wait_list[s] # <<>>
    THEN /\ k' = wake_first(s)
         /\ UNCHANGED sem
    ELSE /\ sem' = [sem EXCEPT ![s].count = IF @ < sem[s].max_count THEN @ + 1 ELSE @]
         /\ UNCHANGED k

semaphore_signal(t, s) ==
    /\ Free(t)
    /\ Created(s)
    /\ release(s)
    /\ pc' = [pc EXCEPT ![t] = IF k.wait_list[s] # <<>> THEN "switch" ELSE @]
    /\ UNCHANGED <<cursor, primask, pendsv, call>>

(* The interrupts that call this have a higher priority than PendSV.       *)
release_semaphore_i(s) ==
    /\ ~primask
    /\ Created(s)
    /\ release(s)
    /\ pendsv' = TRUE          \* int_exit
    /\ UNCHANGED <<pc, cursor, primask, call>>

acquire_semaphore(t, s, timeout) ==
    /\ Free(t)
    /\ Created(s)
    /\ \/ /\ sem[s].count >= 1
          /\ sem' = [sem EXCEPT ![s].count = @ - 1]
          /\ UNCHANGED <<k, pc, call>>
       \/ /\ sem[s].count < 1
          /\ k' = task_curr_to_wait_action(k, s, "SEM", timeout)
          /\ pc' = [pc EXCEPT ![t] = "switch"]
          /\ call' = [call EXCEPT ![t] = <<"acquire", s>>]
          /\ UNCHANGED sem
    /\ UNCHANGED <<cursor, primask, pendsv>>

(* Back from switch_context, acquire_semaphore returns the return code.    *)
AcquireReturns(t) ==
    /\ Thread(t)
    /\ pc[t] = "run"
    /\ call[t][1] = "acquire"
    /\ call' = [call EXCEPT ![t] = NoCall]
    /\ UNCHANGED <<vars, sem>>

(* With nothing in store the call returns ERR_TIMEOUT and changes nothing. *)
poll(s) ==
    /\ Created(s)
    /\ sem[s].count >= 1
    /\ sem' = [sem EXCEPT ![s].count = @ - 1]

acquire_semaphore_polling(t, s) ==
    /\ Free(t)
    /\ poll(s)
    /\ UNCHANGED <<vars, call>>

acquire_semaphore_polling_i(s) ==
    /\ ~primask
    /\ poll(s)
    /\ pendsv' = TRUE          \* int_exit
    /\ UNCHANGED <<k, pc, cursor, primask, call>>

-----------------------------------------------------------------------------
(* One turn of the loop: the first waiting task is told ERR_DELETED; the   *)
(* interrupts are enabled, and the CPU offered, before the next turn.  The *)
(* call returns when the loop finds no waiting task.  count and max_count  *)
(* stay as they are: the semaphore can be used as before.                  *)
delete_semaphore(t, s) ==
    /\ Thread(t)
    /\ pc[t] = "run"
    /\ call[t] \in {NoCall, <<"delete", s>>}
    /\ IF k.wait_list[s] # <<>>
       THEN /\ k' = [wake_first(s) EXCEPT
                        !.task_wait_return_code[Head(k.wait_list[s])] = "ERR_DELETED"]
            /\ pc' = [pc EXCEPT ![t] = "switch"]
            /\ call' = [call EXCEPT ![t] = <<"delete", s>>]
       ELSE /\ call[t] # NoCall
            /\ call' = [call EXCEPT ![t] = NoCall]
            /\ UNCHANGED <<k, pc>>
    /\ UNCHANGED <<cursor, primask, pendsv, sem>>

-----------------------------------------------------------------------------
(* The rest of the kernel.                                                 *)
OtherStep ==
    /\ \/ Interrupt
       \/ timer_task_function
       \/ \E t \in Task : switch_context(t)
       \/ \E t \in UserTask, time \in Timeout \cup {WAIT_INFINITE} :
             call[t] = NoCall /\ sleep(t, time)
       \/ \E creator \in UserTask \cup {timer_task}, t \in UserTask, p \in Priority,
             option \in SUBSET {"TASK_START_ON_CREATION"} :
             call[creator] = NoCall /\ Create(creator, t, p, option)
    /\ UNCHANGED <<sem, call>>

Release(s) ==
    \/ \E t \in UserTask : semaphore_signal(t, s)
    \/ release_semaphore_i(s)

Acquire(s) ==
    \/ \E t \in UserTask, timeout \in Timeout \cup {WAIT_INFINITE} :
          acquire_semaphore(t, s, timeout)
    \/ \E t \in UserTask : acquire_semaphore_polling(t, s)
    \/ acquire_semaphore_polling_i(s)

SemNext ==
    \/ OtherStep
    \/ \E t \in UserTask : AcquireReturns(t)
    \/ \E s \in WaitObject :
          \/ \E t \in UserTask, start_value \in 0 .. MaxUnits, max_value \in 1 .. MaxUnits :
                create_semaphore(t, s, start_value, max_value)
          \/ Release(s)
          \/ Acquire(s)
          \/ \E t \in UserTask : delete_semaphore(t, s)

SemSpec == SemInit /\ [][SemNext]_<<vars, semVars>>

(* The fairness of Scheduler: nothing is assumed of those who call the     *)
(* semaphore functions, in particular nobody has to release a unit.        *)
SemFairSpec == SemSpec /\ Fairness

-----------------------------------------------------------------------------
SemTypeOK ==
    /\ TypeOK
    /\ sem \in [WaitObject -> [count : 0 .. MaxUnits, max_count : 0 .. MaxUnits]]
    /\ call \in [Task -> Calls]

(* Between two critical sections a task is linked, once, in the wait_queue *)
(* of a semaphore exactly while it waits for it, however its wait ended:   *)
(* by a signal, by the timer task's scan or by delete_semaphore.           *)
WaitListsMatchStates == SemTypeOK /\ WaitListsConsistent(k)

(* A task that waits in acquire_semaphore is one that waits; the others in *)
(* that call have been told how their wait ended.                          *)
Answered ==
    [ERR_NO_ERROR |-> "granted", ERR_TIMEOUT |-> "timed_out", ERR_DELETED |-> "deleted"]

AnswerOf(t) ==
    IF call[t][1] # "acquire" THEN "none"
    ELSE IF k.task_state[t] = "WAIT" THEN "waiting"
    ELSE Answered[k.task_wait_return_code[t]]

(* acquire_semaphore with a timeout comes to an end, whether or not a unit *)
(* is ever released, and however often the semaphore is deleted meanwhile. *)
TimedAcquireIsAnswered ==
    \A t \in UserTask :
        AnswerOf(t) = "waiting" /\ k.tick_count[t] \in Timeout ~> AnswerOf(t) # "waiting"

(* Scheduler, timer, masking and the two places a result goes through      *)
(* (task_wait_return_code, and its reading after the context switch) add   *)
(* up to the plain counting semaphore.                                     *)
Promise == INSTANCE CountingSemaphore
    WITH Client <- Task, Semaphore <- WaitObject,
         units <- [s \in WaitObject |-> sem[s].count],
         capacity <- [s \in WaitObject |-> sem[s].max_count],
         line <- k.wait_list,
         answer <- [t \in Task |-> AnswerOf(t)]

ImplementsCountingSemaphore == Promise!Spec
=============================================================================
