------------------------------ MODULE TaskExit ------------------------------
(***************************************************************************)
(* A task function that returns: stack_init left the address of exit_task  *)
(* in its LR, so exit_task runs next, in the task's own context.  It never *)
(* masks interrupts, so an interrupt may come between any two of its       *)
(* steps; here a step is a store that others can see, or the loads before  *)
(* it.  The task holds no mutex: exit_task's loop over them does nothing.  *)
(*                                                                         *)
(* One thing is ASSUMED, and not guaranteed by the code (see ExitNext):    *)
(* no tick and no switch to another task comes between the loads and the   *)
(* stores of queue_remove_element.  A list that is half unlinked is not a  *)
(* list, so nothing could be said of it here: ExitLinks has the pointers,  *)
(* is shown to implement this module under the same assumption, and shows  *)
(* what happens without it.                                                *)
(***************************************************************************)
EXTENDS Scheduler

ExitPc == {"exit_loaded", "exit_half", "exit_unlinked", "exit_bit_cleared",
           "exit_next_chosen", "exit_dormant", "exit_deleted", "gone"}

Goto(t, from, to) ==
    /\ Thread(t)
    /\ pc[t] = from
    /\ pc' = [pc EXCEPT ![t] = to]
    /\ UNCHANGED <<cursor, primask>>

(* task_to_non_runnable: first queue_remove_element, which loads the two   *)
(* pointers of the task ...                                                *)
ExitLoad(t) ==
    /\ Goto(t, "run", "exit_loaded")
    /\ UNCHANGED <<k, pendsv>>

(* ... stores the `next` of its predecessor, after which the task is not   *)
(* met in its list any more ...                                            *)
ExitUnlink(t) ==
    /\ Goto(t, "exit_loaded", "exit_half")
    /\ k' = queue_remove_element(k, t)
    /\ UNCHANGED pendsv

(* ... and the `previous` of its successor ...                             *)
ExitStorePrevious(t) ==
    /\ Goto(t, "exit_half", "exit_unlinked")
    /\ UNCHANGED <<k, pendsv>>

(* ... then the bitmap and the choice of the next task, if the list ran    *)
(* empty ...                                                               *)
ExitClearBit(t) ==
    LET p == k.priority[t]
    IN  /\ Goto(t, "exit_unlinked", "exit_bit_cleared")
        /\ k.runnable_tasks_list[p] = <<>>
        /\ k' = [k EXCEPT !.priority_ready_to_run_bitmap = @ \ {p}]
        /\ UNCHANGED pendsv

ExitFindNext(t) ==
    /\ Goto(t, "exit_bit_cleared", "exit_next_chosen")
    /\ k' = find_next_task_to_run(k)
    /\ UNCHANGED pendsv

(* ... or the next task of the same priority.                              *)
ExitNextOfSamePriority(t) ==
    LET list == k.runnable_tasks_list[k.priority[t]]
    IN  /\ Goto(t, "exit_unlinked", "exit_next_chosen")
        /\ list # <<>>
        /\ k' = [k EXCEPT !.next_task_to_run = IF @ = t THEN Head(list) ELSE @]
        /\ UNCHANGED pendsv

ExitSetDormant(t) ==
    /\ Goto(t, "exit_next_chosen", "exit_dormant")
    /\ k' = task_set_dormant_state(k, t)
    /\ UNCHANGED pendsv

(* The argument `attribut` is whatever the task function left in r0.       *)
ExitDelete(t) ==
    /\ Goto(t, "exit_dormant", "exit_deleted")
    /\ \E attribut \in {0, 1} :
          k' = IF attribut = 1
               THEN [k EXCEPT !.all_tasks_queue = @ \ {t}, !.num_tasks = @ - 1]
               ELSE k
    /\ UNCHANGED pendsv

(* Pends PendSV and loops on the spot; cpsie finds interrupts enabled.     *)
switch_context_exit(t) ==
    /\ Goto(t, "exit_deleted", "gone")
    /\ pendsv' = TRUE
    /\ UNCHANGED k

exit_task(t) ==
    \/ ExitLoad(t)
    \/ ExitUnlink(t)
    \/ ExitStorePrevious(t)
    \/ ExitClearBit(t)
    \/ ExitFindNext(t)
    \/ ExitNextOfSamePriority(t)
    \/ ExitSetDormant(t)
    \/ ExitDelete(t)
    \/ switch_context_exit(t)

(* A task is between the loads and the stores of its unlinking.            *)
Unlinking == \E t \in UserTask : pc[t] \in {"exit_loaded", "exit_half"}

(* ASSUMPTION, in the last conjunct: an unlinking under way is not         *)
(* disturbed.  Nothing is said, either, of what the core does once         *)
(* PendSV_Handler has loaded the registers of a "task" that is a list head.*)
ExitNext ==
    /\ k.current_running_task \in Task
    /\ \/ \E t \in UserTask : exit_task(t)
       \/ Next /\ (Unlinking => UNCHANGED k)

ExitSpec == Init /\ [][ExitNext]_vars

-----------------------------------------------------------------------------
ExitTypeOK ==
    /\ k \in KernelState
    /\ pc \in [Task -> {"init", "loop", "scan", "switch", "run"} \cup ExitPc]

(* A task that has exited is in no list of the kernel, whatever came in    *)
(* between the steps of its exit_task.                                     *)
DormantIsNowhere ==
    ExitTypeOK /\ \A t \in Task :
        k.task_state[t] = "DORMANT" =>
           /\ \A p \in Priority : t \notin Range(k.runnable_tasks_list[p])
           /\ t \notin Range(k.waiting_timeout_tasks_list)

(* The CPU is never given to a task that waits, has exited or was never    *)
(* started.                                                                *)
OnlyRunnableIsDispatched ==
    [][\A t \in Task :
          k.current_running_task # t /\ k'.current_running_task = t
             => k.task_state[t] = "RUNNABLE"]_vars

(* kernel.c:33: current_running_task is "The task that is currently        *)
(* running": a task, and never the head of a list taken for one.           *)
RunningIsTask == k.current_running_task \in Task

(* kernel.c:24: runnable_tasks_list is the "list/queue of all RUNNABLE     *)
(* tasks".  (The running task may be in the middle of leaving it.)         *)
EveryRunnableTaskListed ==
    \A t \in Task \ {k.current_running_task} :
        k.task_state[t] = "RUNNABLE" =>
           t \in Range(k.runnable_tasks_list[k.priority[t]])
=============================================================================
