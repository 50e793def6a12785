---------------------------- MODULE MutexProofs ----------------------------
(***************************************************************************)
(* Mutexes with priority inheritance, for any tasks, mutexes, priorities   *)
(* and timeouts.                                                           *)
(***************************************************************************)
EXTENDS Mutexes, KernelProofs

-----------------------------------------------------------------------------
(* What the kernel functions do to the fields of a task that mutexes       *)
(* depend on.                                                              *)

(* From s to r only task t may have changed, and not its priorities.       *)
SamePriorities(r, s) ==
    /\ r.priority = s.priority
    /\ r.base_priority = s.base_priority
    /\ r.current_running_task = s.current_running_task

StopsFor(r, s, t, que, reason) ==
    /\ SamePriorities(r, s)
    /\ r.task_state = [s.task_state EXCEPT ![t] = "WAIT"]
    /\ r.task_wait_reason = [s.task_wait_reason EXCEPT ![t] = reason]
    /\ r.wait_queue = [s.wait_queue EXCEPT ![t] = IF que = NULL THEN @ ELSE que]
    /\ r.task_wait_return_code = s.task_wait_return_code

IsWoken(r, s, t, code) ==
    /\ SamePriorities(r, s)
    /\ r.task_state = [s.task_state EXCEPT ![t] = "RUNNABLE"]
    /\ r.task_wait_reason = [s.task_wait_reason EXCEPT ![t] = "NONE"]
    /\ r.wait_queue = [s.wait_queue EXCEPT ![t] = NULL]
    /\ r.task_wait_return_code = [s.task_wait_return_code EXCEPT ![t] = code]

LEMMA WaitStops ==
    ASSUME NEW s, KInv(s),
           NEW t \in Task, t = s.current_running_task,
           s.task_state[t] = "RUNNABLE", t # idle_task,
           NEW que, NEW reason, NEW timeout
    PROVE  StopsFor(task_curr_to_wait_action(s, que, reason, timeout), s, t, que, reason)
<1>. DEFINE u == task_to_non_runnable(s, t)
            w == task_curr_to_wait_action(s, que, reason, timeout)
<1>1. /\ u \in KernelState
      /\ SameTasks(u, s)
      /\ u.task_state = s.task_state
      /\ u.wait_queue = s.wait_queue
  BY ToNonRunnable
<1>. HIDE DEF u
<1>2. w = [u EXCEPT
            !.task_state[t]       = "WAIT",
            !.task_wait_reason[t] = reason,
            !.tick_count[t]       = timeout,
            !.wait_queue[t]       = IF que = NULL THEN @ ELSE que,
            !.wait_list = [o \in WaitObject |->
                IF o = que THEN InsertLast(@[o], t) ELSE @[o]],
            !.waiting_timeout_tasks_list =
                IF timeout = WAIT_INFINITE THEN @ ELSE InsertLast(@, t)]
  BY DEF task_curr_to_wait_action, u
<1>. HIDE DEF w
<1>3. /\ w.priority = u.priority
      /\ w.base_priority = u.base_priority
      /\ w.current_running_task = u.current_running_task
      /\ w.task_wait_return_code = u.task_wait_return_code
  BY <1>2
<1>4. /\ w.task_state = [u.task_state EXCEPT ![t] = "WAIT"]
      /\ w.task_wait_reason = [u.task_wait_reason EXCEPT ![t] = reason]
      /\ w.wait_queue = [u.wait_queue EXCEPT ![t] = IF que = NULL THEN @ ELSE que]
  BY <1>1, <1>2 DEF KernelState
<1>5. StopsFor(w, s, t, que, reason)
  BY <1>1, <1>3, <1>4 DEF StopsFor, SamePriorities, SameTasks
<1>. QED  BY <1>5 DEF w

LEMMA CompleteWakes ==
    ASSUME NEW s \in KernelState, NEW t \in Task
    PROVE  IsWoken(task_wait_complete(queue_remove_element(s, t), t), s, t, "ERR_NO_ERROR")
<1>. DEFINE r == queue_remove_element(s, t)
            tl == IF r.tick_count[t] = WAIT_INFINITE THEN r.waiting_timeout_tasks_list
                  ELSE Without(r.waiting_timeout_tasks_list, t)
            ticks == [r.tick_count EXCEPT ![t] = WAIT_INFINITE]
            codes == [s.task_wait_return_code EXCEPT ![t] = "ERR_NO_ERROR"]
            c == [r EXCEPT !.waiting_timeout_tasks_list = tl,
                           !.tick_count = ticks,
                           !.task_wait_return_code = codes]
            state == [s.task_state EXCEPT ![t] = "RUNNABLE"]
            queues == [s.wait_queue EXCEPT ![t] = NULL]
            rl == [c.runnable_tasks_list EXCEPT ![c.priority[t]] = InsertLast(@, t)]
            bm == c.priority_ready_to_run_bitmap \cup {c.priority[t]}
            n == IF c.priority[t] < c.priority[c.next_task_to_run] THEN t
                 ELSE c.next_task_to_run
            w == set_task_as_runnable(c, t)
            z == task_wait_complete(r, t)
<1>1. /\ r \in KernelState
      /\ SameTasks(r, s)
      /\ r.task_state = s.task_state
      /\ r.wait_queue = s.wait_queue
  BY RemoveFacts
<1>. HIDE DEF r
<1>2. c = [r EXCEPT !.waiting_timeout_tasks_list =
                       IF r.tick_count[t] = WAIT_INFINITE THEN @ ELSE Without(@, t),
                    !.tick_count[t] = WAIT_INFINITE,
                    !.task_wait_return_code[t] = "ERR_NO_ERROR"]
  BY <1>1 DEF SameTasks, KernelState
<1>. HIDE DEF tl, ticks, codes
<1>3. /\ c.priority = s.priority
      /\ c.base_priority = s.base_priority
      /\ c.current_running_task = s.current_running_task
      /\ c.task_wait_reason = s.task_wait_reason
      /\ c.task_state = s.task_state
      /\ c.wait_queue = s.wait_queue
      /\ c.task_wait_return_code = codes
  BY <1>1 DEF SameTasks, KernelState
<1>4. z = [w EXCEPT !.task_wait_reason[t] = "NONE"]
  BY <1>2 DEF task_wait_complete
<1>. HIDE DEF c, z
<1>5. w = [c EXCEPT !.task_state[t] = "RUNNABLE", !.wait_queue[t] = NULL,
                    !.runnable_tasks_list = rl,
                    !.priority_ready_to_run_bitmap = bm, !.next_task_to_run = n]
  BY DEF set_task_as_runnable
<1>. HIDE DEF rl, bm, n, w
<1>6. /\ w.priority = s.priority
      /\ w.base_priority = s.base_priority
      /\ w.current_running_task = s.current_running_task
      /\ w.task_wait_reason = s.task_wait_reason
      /\ w.task_state = state
      /\ w.wait_queue = queues
      /\ w.task_wait_return_code = codes
  BY <1>3, <1>5
<1>7. /\ z.priority = w.priority
      /\ z.base_priority = w.base_priority
      /\ z.current_running_task = w.current_running_task
      /\ z.task_wait_reason = [w.task_wait_reason EXCEPT ![t] = "NONE"]
      /\ z.task_state = w.task_state
      /\ z.wait_queue = w.wait_queue
      /\ z.task_wait_return_code = w.task_wait_return_code
  BY <1>4
<1>8. IsWoken(z, s, t, "ERR_NO_ERROR")
  BY <1>6, <1>7 DEF IsWoken, SamePriorities, codes
<1>. QED  BY <1>8 DEF z, r
LEMMA VisitWakes ==
    ASSUME NEW s, KInv(s),
           NEW t \in Task, s.task_state[t] = "WAIT", s.tick_count[t] \in Timeout
    PROVE  LET v == timer_visit(s, t)
           IN  IF s.tick_count[t] > 1
               THEN v = [s EXCEPT !.tick_count[t] = @ - 1]
               ELSE IsWoken(v, s, t, "ERR_TIMEOUT")
<1>1. CASE s.tick_count[t] > 1
  BY <1>1, TimerVisitEffect
<1>2. CASE ~ (s.tick_count[t] > 1)
  <2>. DEFINE ticked == [s EXCEPT !.tick_count[t] = @ - 1]
              w == task_wait_complete(queue_remove_element(ticked, t), t)
              v == timer_visit(s, t)
  <2>1. /\ s \in KernelState
        /\ s.tick_count[t] \in Int
        /\ s.tick_count[t] > 0
        /\ s.tick_count[t] # WAIT_INFINITE
        /\ s.tick_count[t] - 1 \in 0 .. MaxTimeout
    BY SizesAssumption, SystemTasksAreTasks DEF KInv, Timeout
  <2>2. v = [w EXCEPT !.task_wait_return_code[t] = "ERR_TIMEOUT"]
    BY <1>2, <2>1 DEF timer_visit
  <2>3. /\ ticked \in KernelState
        /\ ticked.task_state = s.task_state
        /\ ticked.priority = s.priority
        /\ ticked.base_priority = s.base_priority
        /\ ticked.task_wait_reason = s.task_wait_reason
        /\ ticked.wait_queue = s.wait_queue
        /\ ticked.task_wait_return_code = s.task_wait_return_code
        /\ ticked.current_running_task = s.current_running_task
    BY <2>1 DEF KernelState
  <2>. HIDE DEF ticked
  <2>4. IsWoken(w, ticked, t, "ERR_NO_ERROR")
    BY <2>3, CompleteWakes
  <2>. HIDE DEF w, v
  <2>5. /\ v.priority = w.priority
        /\ v.base_priority = w.base_priority
        /\ v.current_running_task = w.current_running_task
        /\ v.task_wait_reason = w.task_wait_reason
        /\ v.task_state = w.task_state
        /\ v.wait_queue = w.wait_queue
        /\ v.task_wait_return_code = [w.task_wait_return_code EXCEPT ![t] = "ERR_TIMEOUT"]
    BY <2>2
  <2>6. v.task_wait_return_code = [s.task_wait_return_code EXCEPT ![t] = "ERR_TIMEOUT"]
    BY <2>1, <2>3, <2>4, <2>5 DEF IsWoken, KernelState
  <2>7. IsWoken(v, s, t, "ERR_TIMEOUT")
    BY <2>3, <2>4, <2>5, <2>6 DEF IsWoken, SamePriorities
  <2>. QED  BY <1>2, <2>7 DEF v
<1>. QED  BY <1>1, <1>2

(* The six fields, and of the system tasks what no call of a mutex changes. *)
SameFields(r, s, t) ==
    /\ r.task_state[t] = s.task_state[t]
    /\ r.priority[t] = s.priority[t]
    /\ r.base_priority[t] = s.base_priority[t]
    /\ r.task_wait_reason[t] = s.task_wait_reason[t]
    /\ r.wait_queue[t] = s.wait_queue[t]
    /\ r.task_wait_return_code[t] = s.task_wait_return_code[t]

SystemFields(s) ==
    /\ s.task_wait_reason[timer_task] # "MUTEX_I"
    /\ s.wait_queue[timer_task] = NULL
    /\ s.base_priority[timer_task] = 0
    /\ s.base_priority[idle_task] = NUM_PRIORITY - 1

LEMMA TickKeeps ==
    ASSUME NEW s \in KernelState
    PROVE  LET r == tick_int_processing(s)
           IN  /\ \A t \in UserTask : SameFields(r, s, t)
               /\ SystemFields(s) => SystemFields(r)
<1>. DEFINE q == round_robin(s)
            u == queue_remove_element(q, timer_task)
            r == tick_int_processing(s)
<1>1. /\ q.task_state = s.task_state
      /\ q.priority = s.priority
      /\ q.base_priority = s.base_priority
      /\ q.task_wait_reason = s.task_wait_reason
      /\ q.wait_queue = s.wait_queue
      /\ q.task_wait_return_code = s.task_wait_return_code
  BY DEF round_robin
<1>. HIDE DEF q
<1>2. /\ u.task_state = q.task_state
      /\ u.priority = q.priority
      /\ u.base_priority = q.base_priority
      /\ u.task_wait_reason = q.task_wait_reason
      /\ u.wait_queue = q.wait_queue
      /\ u.task_wait_return_code = q.task_wait_return_code
  BY DEF queue_remove_element
<1>3. r = [u EXCEPT
            !.task_wait_reason[timer_task]      = "NONE",
            !.task_state[timer_task]            = "RUNNABLE",
            !.wait_queue[timer_task]            = NULL,
            !.task_wait_return_code[timer_task] = "ERR_NO_ERROR",
            !.runnable_tasks_list[0]            = InsertLast(@, timer_task),
            !.priority_ready_to_run_bitmap      = @ \cup {0},
            !.next_task_to_run                  = timer_task]
  BY DEF tick_int_processing, wake_timer_task, q
<1>. HIDE DEF u, r
<1>4. /\ r.priority = s.priority
      /\ r.base_priority = s.base_priority
      /\ r.task_state = [s.task_state EXCEPT ![timer_task] = "RUNNABLE"]
      /\ r.task_wait_reason = [s.task_wait_reason EXCEPT ![timer_task] = "NONE"]
      /\ r.wait_queue = [s.wait_queue EXCEPT ![timer_task] = NULL]
      /\ r.task_wait_return_code =
            [s.task_wait_return_code EXCEPT ![timer_task] = "ERR_NO_ERROR"]
  BY <1>1, <1>2, <1>3
<1>5. \A t \in UserTask : t # timer_task /\ t \in Task
  BY TasksAssumption DEF Task
<1>6. timer_task \in Task
  BY SystemTasksAreTasks
<1>7. /\ \A t \in UserTask : SameFields(r, s, t)
      /\ SystemFields(s) => SystemFields(r)
  BY <1>4, <1>5, <1>6 DEF SameFields, SystemFields, KernelState
<1>. QED  BY <1>7 DEF r

LEMMA CreateStarts ==
    ASSUME NEW s \in KernelState, NEW t \in UserTask, NEW p \in Priority
    PROVE  LET r == create_task(s, t, p, {"TASK_START_ON_CREATION"})
           IN  /\ r.task_state[t] = "RUNNABLE"
               /\ r.priority[t] = p
               /\ r.base_priority[t] = p
               /\ \A u \in UserTask : u # t => SameFields(r, s, u)
               /\ SystemFields(s) => SystemFields(r)
<1>. DEFINE d == [s EXCEPT !.base_priority[t] = p]
            c == [task_set_dormant_state(d, t)
                     EXCEPT !.all_tasks_queue = @ \cup {t}, !.num_tasks = @ + 1]
            r == create_task(s, t, p, {"TASK_START_ON_CREATION"})
<1>1. t \in Task /\ timer_task \in Task /\ idle_task \in Task
      /\ t # timer_task /\ t # idle_task
  BY TasksAssumption DEF Task, SystemTask
<1>2. d.base_priority[t] = p
  BY <1>1 DEF KernelState
<1>3. /\ c.base_priority = [s.base_priority EXCEPT ![t] = p]
      /\ c.priority = [s.priority EXCEPT ![t] = p]
      /\ c.task_state = [s.task_state EXCEPT ![t] = "DORMANT"]
      /\ c.wait_queue = [s.wait_queue EXCEPT ![t] = NULL]
      /\ c.task_wait_reason = [s.task_wait_reason EXCEPT ![t] = "NONE"]
      /\ c.task_wait_return_code = [s.task_wait_return_code EXCEPT ![t] = "ERR_NO_ERROR"]
  BY <1>2 DEF task_set_dormant_state
<1>. HIDE DEF c
<1>4. r = set_task_as_runnable(c, t)
  BY DEF create_task, c
<1>. HIDE DEF r
<1>5. /\ r.base_priority = c.base_priority
      /\ r.priority = c.priority
      /\ r.task_state = [c.task_state EXCEPT ![t] = "RUNNABLE"]
      /\ r.wait_queue = [c.wait_queue EXCEPT ![t] = NULL]
      /\ r.task_wait_reason = c.task_wait_reason
      /\ r.task_wait_return_code = c.task_wait_return_code
  BY <1>4 DEF set_task_as_runnable
<1>6. /\ r.task_state[t] = "RUNNABLE"
      /\ r.priority[t] = p
      /\ r.base_priority[t] = p
      /\ \A u \in UserTask : u # t => SameFields(r, s, u)
      /\ SystemFields(s) => SystemFields(r)
  BY <1>1, <1>3, <1>5 DEF SameFields, SystemFields, KernelState, Task
<1>. QED  BY <1>6 DEF r

(* exit_task, when nothing comes in between.                               *)
LEMMA ExitLeaves ==
    ASSUME NEW s, KInv(s), NEW t \in UserTask, s.task_state[t] = "RUNNABLE",
           s.base_priority[t] \in 1 .. NUM_PRIORITY - 2
    PROVE  LET r == task_set_dormant_state(task_to_non_runnable(s, t), t)
           IN  /\ KInv(r)
               /\ r.current_running_task = s.current_running_task
               /\ r.task_state = [s.task_state EXCEPT ![t] = "DORMANT"]
               /\ r.priority[t] = s.base_priority[t]
               /\ r.base_priority = s.base_priority
               /\ \A u \in UserTask : u # t => SameFields(r, s, u)
               /\ SystemFields(s) => SystemFields(r)
<1>. DEFINE q == task_to_non_runnable(s, t)
            r == task_set_dormant_state(q, t)
            state == [s.task_state EXCEPT ![t] = "DORMANT"]
            prio == [s.priority EXCEPT ![t] = s.base_priority[t]]
            queues == [s.wait_queue EXCEPT ![t] = NULL]
            reasons == [s.task_wait_reason EXCEPT ![t] = "NONE"]
            codes == [s.task_wait_return_code EXCEPT ![t] = "ERR_NO_ERROR"]
            ticks == [s.tick_count EXCEPT ![t] = WAIT_INFINITE]
            slices == [s.time_slice_count EXCEPT ![t] = 0]
<1>1. /\ t \in Task /\ timer_task \in Task /\ idle_task \in Task
      /\ t # timer_task /\ t # idle_task /\ s \in KernelState
  BY TasksAssumption DEF Task, SystemTask, KInv
<1>2. /\ q \in KernelState
      /\ ReadyOK(q.runnable_tasks_list, q.priority_ready_to_run_bitmap,
                 Runnable(s) \ {t}, s.priority)
      /\ NextOK(q.runnable_tasks_list, q.next_task_to_run)
      /\ SameTasks(q, s)
      /\ q.task_state = s.task_state
      /\ q.wait_queue = s.wait_queue
      /\ q.wait_list = s.wait_list
  BY <1>1, ToNonRunnable
<1>. HIDE DEF q
<1>3. /\ state \in [Task -> TaskState]
      /\ prio \in [Task -> Priority]
      /\ queues \in [Task -> WaitObject \cup {NULL}]
      /\ reasons \in [Task -> WaitReason]
      /\ codes \in [Task -> ReturnCode]
      /\ ticks \in [Task -> 0 .. MaxTimeout \cup {WAIT_INFINITE}]
      /\ slices \in [Task -> Nat]
      /\ state[t] = "DORMANT" /\ prio[t] = s.base_priority[t] /\ queues[t] = NULL
      /\ \A x \in Task : x # t => /\ state[x] = s.task_state[x]
                                  /\ prio[x] = s.priority[x]
                                  /\ queues[x] = s.wait_queue[x]
                                  /\ reasons[x] = s.task_wait_reason[x]
                                  /\ codes[x] = s.task_wait_return_code[x]
                                  /\ ticks[x] = s.tick_count[x]
  BY <1>1 DEF KernelState, TaskState, WaitReason, ReturnCode
<1>4. r = [q EXCEPT !.task_state = state, !.priority = prio, !.wait_queue = queues,
                    !.task_wait_reason = reasons, !.task_wait_return_code = codes,
                    !.tick_count = ticks, !.time_slice_count = slices]
  BY <1>2 DEF task_set_dormant_state, SameTasks
<1>. HIDE DEF r, state, prio, queues, reasons, codes, ticks, slices
<1>5. /\ r \in KernelState
      /\ r.task_state = state
      /\ r.priority = prio
      /\ r.base_priority = s.base_priority
      /\ r.wait_queue = queues
      /\ r.task_wait_reason = reasons
      /\ r.task_wait_return_code = codes
      /\ r.tick_count = ticks
      /\ r.current_running_task = s.current_running_task
      /\ r.wait_list = s.wait_list
      /\ r.waiting_timeout_tasks_list = s.waiting_timeout_tasks_list
      /\ r.runnable_tasks_list = q.runnable_tasks_list
      /\ r.priority_ready_to_run_bitmap = q.priority_ready_to_run_bitmap
      /\ r.next_task_to_run = q.next_task_to_run
  BY <1>2, <1>3, <1>4 DEF KernelState, SameTasks
<1>6. Linked(r)
  <2>1. Runnable(r) = Runnable(s) \ {t}
    BY <1>3, <1>5 DEF Runnable
  <2>2. \A p \in Priority : {x \in Runnable(s) \ {t} : s.priority[x] = p}
                               = {x \in Runnable(r) : r.priority[x] = p}
    BY <1>3, <1>5, <2>1 DEF Runnable
  <2>. QED  BY <1>2, <1>5, <2>2 DEF Linked, ReadyOK
<1>7. TimersConsistent(r)
  BY <1>3, <1>5 DEF KInv, TimersConsistent
<1>8. WaitListsConsistent(r)
  BY <1>3, <1>5 DEF KInv, WaitListsConsistent
<1>9. SystemPriorities(r)
  BY <1>1, <1>3, <1>5 DEF KInv, SystemPriorities, Task
<1>10. SystemTasks(r) /\ WaitFields(r)
  BY <1>1, <1>3, <1>5 DEF KInv, SystemTasks, WaitFields
<1>11. KInv(r)
  BY <1>5, <1>6, <1>7, <1>8, <1>9, <1>10 DEF KInv
<1>12. /\ \A u \in UserTask : u # t => SameFields(r, s, u)
       /\ SystemFields(s) => SystemFields(r)
  BY <1>1, <1>3, <1>5 DEF SameFields, SystemFields, Task
<1>. QED  BY <1>3, <1>5, <1>11, <1>12 DEF r, q, state

-----------------------------------------------------------------------------
(* Priorities that change.                                                 *)

(* From s to r nothing but priorities, and the lists that depend on them,  *)
(* has changed.                                                            *)
OnlyPriorities(r, s) ==
    /\ KInv(r)
    /\ r.base_priority = s.base_priority
    /\ r.current_running_task = s.current_running_task
    /\ r.task_state = s.task_state
    /\ r.task_wait_reason = s.task_wait_reason
    /\ r.wait_queue = s.wait_queue
    /\ r.wait_list = s.wait_list
    /\ r.task_wait_return_code = s.task_wait_return_code

(* A task that is in no ready list may get another priority.               *)
LEMMA WaitingPriorities ==
    ASSUME NEW s, KInv(s), NEW prio \in [Task -> Priority],
           \A t \in Task : prio[t] # s.priority[t] =>
              /\ t \in UserTask
              /\ s.task_state[t] # "RUNNABLE"
              /\ prio[t] \in 1 .. NUM_PRIORITY - 2
    PROVE  LET r == [s EXCEPT !.priority = prio]
           IN  OnlyPriorities(r, s) /\ r.priority = prio
<1>. DEFINE r == [s EXCEPT !.priority = prio]
<1>1. /\ r \in KernelState
      /\ r.priority = prio
      /\ r.runnable_tasks_list = s.runnable_tasks_list
      /\ r.priority_ready_to_run_bitmap = s.priority_ready_to_run_bitmap
      /\ r.waiting_timeout_tasks_list = s.waiting_timeout_tasks_list
      /\ r.wait_list = s.wait_list
      /\ r.current_running_task = s.current_running_task
      /\ r.next_task_to_run = s.next_task_to_run
      /\ r.task_state = s.task_state
      /\ r.base_priority = s.base_priority
      /\ r.task_wait_reason = s.task_wait_reason
      /\ r.wait_queue = s.wait_queue
      /\ r.task_wait_return_code = s.task_wait_return_code
      /\ r.tick_count = s.tick_count
  BY DEF KInv, KernelState
<1>. HIDE DEF r
<1>2. Linked(r)
  <2>1. Runnable(r) = Runnable(s)
    BY <1>1 DEF Runnable
  <2>2. \A p \in Priority : {x \in Runnable(s) : s.priority[x] = p}
                               = {x \in Runnable(r) : r.priority[x] = p}
    BY <1>1, <2>1 DEF Runnable
  <2>. QED  BY <1>1, <2>1, <2>2 DEF KInv, Linked, ReadyOK
<1>3. TimersConsistent(r) /\ WaitListsConsistent(r)
  BY <1>1 DEF KInv, TimersConsistent, WaitListsConsistent
<1>4. SystemPriorities(r)
  <2>1. /\ timer_task \notin UserTask /\ idle_task \notin UserTask
        /\ timer_task \in Task /\ idle_task \in Task /\ UserTask \subseteq Task
    BY TasksAssumption DEF Task, SystemTask
  <2>. QED  BY <1>1, <2>1 DEF KInv, SystemPriorities
<1>5. SystemTasks(r) /\ WaitFields(r)
  BY <1>1 DEF KInv, SystemTasks, WaitFields
<1>6. KInv(r)
  BY <1>1, <1>2, <1>3, <1>4, <1>5 DEF KInv
<1>. QED  BY <1>1, <1>6 DEF OnlyPriorities, r

(* change_running_task_priority links the task in another list.            *)
LEMMA ChangePriority ==
    ASSUME NEW s, KInv(s), NEW t \in UserTask, s.task_state[t] = "RUNNABLE",
           NEW p \in 1 .. NUM_PRIORITY - 2
    PROVE  LET r == change_running_task_priority(s, t, p)
           IN  /\ OnlyPriorities(r, s)
               /\ r.priority = [s.priority EXCEPT ![t] = p]
<1>. DEFINE old == s.priority[t]
            u == queue_remove_element(s, t)
            prio == [s.priority EXCEPT ![t] = p]
            bm0 == IF u.runnable_tasks_list[old] = <<>>
                   THEN s.priority_ready_to_run_bitmap \ {old}
                   ELSE s.priority_ready_to_run_bitmap
            rl == [u.runnable_tasks_list EXCEPT ![p] = InsertLast(@, t)]
            bm == bm0 \cup {p}
            c == [u EXCEPT !.priority = prio, !.runnable_tasks_list = rl,
                           !.priority_ready_to_run_bitmap = bm]
            n == Head(rl[Min(bm)])
            r == change_running_task_priority(s, t, p)
            R == Runnable(s)
<1>1. /\ s \in KernelState /\ t \in Task /\ p \in Priority /\ old \in Priority
      /\ R \in SUBSET Task /\ t \in R
      /\ ReadyOK(s.runnable_tasks_list, s.priority_ready_to_run_bitmap, R, s.priority)
      /\ s.priority \in [Task -> Priority]
      /\ prio \in [Task -> Priority] /\ prio[t] = p
      /\ \A x \in Task : x # t => prio[x] = s.priority[x]
  <2>1. ReadyOK(s.runnable_tasks_list, s.priority_ready_to_run_bitmap, R, s.priority)
    BY DEF KInv, Linked
  <2>2. s \in KernelState /\ t \in Task /\ p \in Priority
    BY SizesAssumption DEF KInv, Task, Priority
  <2>3. R \in SUBSET Task /\ t \in R
    BY <2>2 DEF Runnable
  <2>4. s.priority \in [Task -> Priority]
    BY <2>2 DEF KernelState
  <2>. QED  BY <2>1, <2>2, <2>3, <2>4
<1>2. \A o \in WaitObject : t \notin Range(s.wait_list[o])
  BY <1>1 DEF KInv, WaitListsConsistent
<1>3. /\ u \in KernelState
      /\ u.wait_list = s.wait_list
      /\ u.runnable_tasks_list = [q \in Priority |-> Without(s.runnable_tasks_list[q], t)]
      /\ SameTasks(u, s)
      /\ u.task_state = s.task_state
      /\ u.wait_queue = s.wait_queue
      /\ u.priority_ready_to_run_bitmap = s.priority_ready_to_run_bitmap
  BY <1>1, <1>2, RemoveFacts
<1>4. r = find_next_task_to_run(c)
  <2>1. u.priority = s.priority
    BY <1>3 DEF SameTasks
  <2>2. c = [u EXCEPT
               !.priority[t] = p,
               !.runnable_tasks_list[p] = InsertLast(@, t),
               !.priority_ready_to_run_bitmap =
                   {p} \cup (IF u.runnable_tasks_list[old] = <<>> THEN @ \ {old} ELSE @)]
    BY <1>3, <2>1 DEF KernelState
  <2>. QED  BY <2>2 DEF change_running_task_priority
<1>. HIDE DEF u
<1>5. u.runnable_tasks_list \in [Priority -> Seq(Task)]
  BY <1>3 DEF KernelState
<1>6. ReadyOK(u.runnable_tasks_list, bm0, R \ {t}, s.priority)
  <2>1. \A q \in Priority : u.runnable_tasks_list[q] = Without(s.runnable_tasks_list[q], t)
    BY <1>3
  <2>2. ReadyOK(u.runnable_tasks_list,
                IF u.runnable_tasks_list[s.priority[t]] = <<>>
                THEN s.priority_ready_to_run_bitmap \ {s.priority[t]}
                ELSE s.priority_ready_to_run_bitmap,
                R \ {t}, s.priority)
    <3>. DEFINE new == u.runnable_tasks_list
                before == s.runnable_tasks_list
                bits == s.priority_ready_to_run_bitmap
                prios == s.priority
    <3>1. /\ ReadyOK(before, bits, R, prios) /\ R \in SUBSET Task /\ t \in R
          /\ prios \in [Task -> Priority] /\ new \in [Priority -> Seq(Task)]
          /\ \A q \in Priority : new[q] = Without(before[q], t)
      BY <1>1, <1>5, <2>1
    <3>. HIDE DEF R, new, before, bits, prios
    <3>2. ReadyOK(new, IF new[prios[t]] = <<>> THEN bits \ {prios[t]} ELSE bits,
                  R \ {t}, prios)
      BY <3>1, UnlinkKeepsReady
    <3>. QED  BY <3>2 DEF new, bits, prios
  <2>. QED  BY <2>2
<1>7. ReadyOK(u.runnable_tasks_list, bm0, R \ {t}, prio)
  <2>1. \A q \in Priority : {x \in R \ {t} : s.priority[x] = q}
                               = {x \in R \ {t} : prio[x] = q}
    BY <1>1
  <2>. QED  BY <1>6, <2>1 DEF ReadyOK
<1>. HIDE DEF bm0, prio
<1>8. ReadyOK(rl, bm, R, prio)
  <2>1. ReadyOK([u.runnable_tasks_list EXCEPT ![prio[t]] = InsertLast(@, t)],
                bm0 \cup {prio[t]}, (R \ {t}) \cup {t}, prio)
    BY <1>1, <1>7, LinkKeepsReady
  <2>2. (R \ {t}) \cup {t} = R
    BY <1>1
  <2>. QED  BY <1>1, <2>1, <2>2
<1>9. rl[p] # <<>>
  <2>1. rl[p] = InsertLast(u.runnable_tasks_list[p], t)
    BY <1>1, <1>5
  <2>. QED  BY <1>1, <1>5, <2>1, InsertLastFacts
<1>. HIDE DEF rl, bm
<1>10. /\ bm # {} /\ Min(bm) \in Priority /\ rl[Min(bm)] # <<>> /\ NextOK(rl, n)
  BY <1>1, <1>8, <1>9, LowestBitIsNext
<1>11. n \in Task
  BY <1>1, <1>8, <1>10, NextIsLinked
<1>. HIDE DEF n
<1>12. rl \in [Priority -> Seq(Task)] /\ bm \in SUBSET Priority
  BY <1>8 DEF ReadyOK
<1>13. r = [u EXCEPT !.priority = prio, !.runnable_tasks_list = rl,
                     !.priority_ready_to_run_bitmap = bm, !.next_task_to_run = n]
  <2>1. c.priority_ready_to_run_bitmap = bm /\ c.runnable_tasks_list = rl
    BY <1>3 DEF KernelState
  <2>2. r = [c EXCEPT !.next_task_to_run = n]
    <3>. HIDE DEF c
    <3>. QED  BY <1>4, <1>10, <2>1 DEF find_next_task_to_run, n
  <2>. QED  BY <2>2
<1>. HIDE DEF r, c
<1>14. /\ r \in KernelState
       /\ r.priority = prio
       /\ r.runnable_tasks_list = rl
       /\ r.priority_ready_to_run_bitmap = bm
       /\ r.next_task_to_run = n
       /\ r.waiting_timeout_tasks_list = s.waiting_timeout_tasks_list
       /\ r.wait_list = s.wait_list
       /\ r.current_running_task = s.current_running_task
       /\ r.task_state = s.task_state
       /\ r.base_priority = s.base_priority
       /\ r.task_wait_reason = s.task_wait_reason
       /\ r.wait_queue = s.wait_queue
       /\ r.task_wait_return_code = s.task_wait_return_code
       /\ r.tick_count = s.tick_count
  BY <1>1, <1>3, <1>11, <1>12, <1>13 DEF KernelState, SameTasks, prio
<1>15. Linked(r)
  BY <1>8, <1>10, <1>14 DEF Linked, Runnable
<1>16. TimersConsistent(r) /\ WaitListsConsistent(r)
  BY <1>14 DEF KInv, TimersConsistent, WaitListsConsistent
<1>17. SystemPriorities(r)
  <2>1. /\ timer_task \notin UserTask /\ idle_task \notin UserTask
        /\ timer_task \in Task /\ idle_task \in Task /\ UserTask \subseteq Task
    BY TasksAssumption DEF Task, SystemTask
  <2>. QED  BY <1>1, <1>14, <2>1 DEF KInv, SystemPriorities
<1>18. SystemTasks(r) /\ WaitFields(r)
  BY <1>14 DEF KInv, SystemTasks, WaitFields
<1>19. KInv(r)
  BY <1>14, <1>15, <1>16, <1>17, <1>18 DEF KInv
<1>. QED  BY <1>14, <1>19 DEF OnlyPriorities, r, prio

(* What is raised is the least set with the holder and, with a task that   *)
(* waits for a mutex, the task that has it, as long as they are less       *)
(* urgent.                                                                 *)
LessUrgent(s, p) == {t \in Task : s.priority[t] > p}

LEMMA RaisedIsClosed ==
    ASSUME NEW s, NEW lockers, NEW holder, NEW p
    PROVE  LET R == Raised(s, lockers, holder, p)
           IN  /\ R \subseteq LessUrgent(s, p)
               /\ holder \in LessUrgent(s, p) => holder \in R
               /\ \A u \in R, t \in LessUrgent(s, p) :
                     WaitsForHolder(s, lockers, u, t) => t \in R
BY DEF Raised, LessUrgent

LEMMA RaisedIsLeast ==
    ASSUME NEW s, NEW lockers, NEW holder, NEW p,
           NEW X \in SUBSET LessUrgent(s, p),
           holder \in LessUrgent(s, p) => holder \in X,
           \A u \in X, t \in LessUrgent(s, p) : WaitsForHolder(s, lockers, u, t) => t \in X
    PROVE  Raised(s, lockers, holder, p) \subseteq X
BY DEF Raised, LessUrgent

(* A chain ends with its first RUNNABLE task.                              *)
LEMMA OneIsRunnable ==
    ASSUME NEW s, NEW lockers, NEW holder, NEW p,
           NEW r1 \in Raised(s, lockers, holder, p), s.task_state[r1] = "RUNNABLE",
           NEW r2 \in Raised(s, lockers, holder, p), s.task_state[r2] = "RUNNABLE"
    PROVE  r1 = r2
<1>. DEFINE less == LessUrgent(s, p)
            Chain(u) == Raised(s, lockers, u, p)
            Z == {u \in Chain(holder) : r1 \in Chain(u)}
<1>1. \A u : /\ Chain(u) \subseteq less
             /\ u \in less => u \in Chain(u)
             /\ \A x \in Chain(u), t \in less :
                   WaitsForHolder(s, lockers, x, t) => t \in Chain(u)
  BY RaisedIsClosed
<1>2. ASSUME NEW u \in Z, NEW v \in less, WaitsForHolder(s, lockers, u, v)
      PROVE  v \in Z
  <2>. DEFINE Y == {u} \cup Chain(v)
  <2>1. Y \in SUBSET less /\ u \in less
    BY <1>1
  <2>2. ASSUME NEW x \in Y, NEW t \in less, WaitsForHolder(s, lockers, x, t)
        PROVE  t \in Y
    <3>1. CASE x = u
      BY <1>1, <1>2, <2>2, <3>1 DEF WaitsForHolder
    <3>2. CASE x \in Chain(v)
      BY <1>1, <2>2, <3>2
    <3>. QED  BY <3>1, <3>2
  <2>3. Chain(u) \subseteq Y
    <3>. HIDE DEF Y
    <3>1. u \in less => u \in Y
      BY DEF Y
    <3>. QED  BY <2>1, <2>2, <3>1, RaisedIsLeast
  <2>4. r1 # u
    BY <1>2 DEF WaitsForHolder
  <2>5. r1 \in Chain(v)
    BY <2>3, <2>4
  <2>. QED  BY <1>1, <1>2, <2>5
<1>3. Chain(holder) \subseteq Z
  <2>1. Z \in SUBSET less
    BY <1>1
  <2>2. holder \in less => holder \in Z
    BY <1>1
  <2>. HIDE DEF Z
  <2>. QED  BY <1>2, <2>1, <2>2, RaisedIsLeast
<1>4. Chain(r2) \subseteq {r2}
  <2>. DEFINE Y == {r2}
  <2>1. Y \in SUBSET less /\ r2 \in Y
    BY <1>1
  <2>2. \A x \in Y, t \in less : WaitsForHolder(s, lockers, x, t) => t \in Y
    BY DEF WaitsForHolder
  <2>. HIDE DEF Y
  <2>3. Chain(r2) \subseteq Y
    BY <2>1, <2>2, RaisedIsLeast
  <2>. QED  BY <2>3 DEF Y
<1>. QED  BY <1>3, <1>4

(* Where a chain leads to.                                                 *)
HoldersAreUsers(s, lockers) ==
    \A u \in Task, v \in Task : WaitsForHolder(s, lockers, u, v) => v \in UserTask

LEMMA RaisedAreUsers ==
    ASSUME NEW s, NEW lockers, NEW holder \in UserTask, NEW p, HoldersAreUsers(s, lockers)
    PROVE  Raised(s, lockers, holder, p) \subseteq UserTask
<1>. DEFINE X == LessUrgent(s, p) \cap UserTask
<1>1. /\ X \in SUBSET LessUrgent(s, p)
      /\ holder \in LessUrgent(s, p) => holder \in X
      /\ \A u \in X, t \in LessUrgent(s, p) : WaitsForHolder(s, lockers, u, t) => t \in X
  BY DEF HoldersAreUsers, LessUrgent
<1>. HIDE DEF X
<1>2. Raised(s, lockers, holder, p) \subseteq X
  BY <1>1, RaisedIsLeast
<1>. QED  BY <1>2 DEF X

(* set_current_priority keeps the kernel right, and raises the chain.      *)
LEMMA RaisesTheChain ==
    ASSUME NEW s, KInv(s), NEW lockers, HoldersAreUsers(s, lockers),
           NEW holder \in UserTask, NEW p \in 1 .. NUM_PRIORITY - 2
    PROVE  LET r == set_current_priority(s, lockers, holder, p)
           IN  /\ OnlyPriorities(r, s)
               /\ r.priority = [t \in Task |->
                     IF t \in Raised(s, lockers, holder, p) THEN p ELSE s.priority[t]]
<1>. DEFINE raised == Raised(s, lockers, holder, p)
            runnable == {t \in raised : s.task_state[t] = "RUNNABLE"}
            prio == [t \in Task |-> IF t \in raised \ runnable THEN p ELSE s.priority[t]]
            last == [t \in Task |-> IF t \in raised THEN p ELSE s.priority[t]]
            waiting == [s EXCEPT !.priority = prio]
            r == set_current_priority(s, lockers, holder, p)
<1>1. raised \subseteq UserTask /\ raised \subseteq Task
  BY RaisedAreUsers DEF Task
<1>2. s \in KernelState /\ p \in Priority
  BY SizesAssumption DEF KInv, Priority
<1>3. prio \in [Task -> Priority]
  BY <1>2 DEF KernelState
<1>4. OnlyPriorities(waiting, s) /\ waiting.priority = prio
  <2>1. \A t \in Task : prio[t] # s.priority[t] =>
              /\ t \in UserTask
              /\ s.task_state[t] # "RUNNABLE"
              /\ prio[t] \in 1 .. NUM_PRIORITY - 2
    BY <1>1
  <2>. HIDE DEF prio
  <2>. QED  BY <1>3, <2>1, WaitingPriorities
<1>5. r = IF runnable = {} THEN waiting
          ELSE change_running_task_priority(waiting, CHOOSE t \in runnable : TRUE, p)
  BY <1>2 DEF set_current_priority, KernelState
<1>6. CASE runnable = {}
  BY <1>4, <1>5, <1>6
<1>7. CASE runnable # {}
  <2>. DEFINE t == CHOOSE t \in runnable : TRUE
  <2>1. t \in runnable
    BY <1>7
  <2>. HIDE DEF t, waiting
  <2>2. \A x \in runnable : x = t
    BY <2>1, OneIsRunnable
  <2>3. KInv(waiting) /\ t \in UserTask /\ waiting.task_state[t] = "RUNNABLE"
    BY <1>1, <1>4, <2>1 DEF OnlyPriorities
  <2>4. r = change_running_task_priority(waiting, t, p)
    BY <1>5, <1>7 DEF t
  <2>. HIDE DEF r
  <2>5. OnlyPriorities(r, waiting) /\ r.priority = [prio EXCEPT ![t] = p]
    BY <1>4, <2>3, <2>4, ChangePriority
  <2>6. [prio EXCEPT ![t] = p] = last
    BY <1>1, <2>1, <2>2
  <2>. QED  BY <1>4, <2>5, <2>6 DEF OnlyPriorities, r
<1>. QED  BY <1>6, <1>7

-----------------------------------------------------------------------------
(* What holds of the tasks and the mutexes.                                *)

(* The holder of a mutex may run or waits; a task that waits for a mutex   *)
(* waits for one that another task has.                                    *)
Chains(s, lockers) ==
    /\ \A m \in Mutex : lockers[m] # NULL =>
          lockers[m] \in UserTask /\ s.task_state[lockers[m]] \in {"RUNNABLE", "WAIT"}
    /\ \A t \in UserTask : s.task_state[t] = "WAIT" =>
          /\ s.task_wait_reason[t] = "MUTEX_I" <=> s.wait_queue[t] # NULL
          /\ s.wait_queue[t] # NULL => lockers[s.wait_queue[t]] \notin {NULL, t}

(* The call a task is inside of says what it waits for, or how its wait    *)
(* has ended.                                                              *)
CallsMatch(s, lockers, calls) ==
    /\ \A t \in UserTask : s.task_state[t] = "WAIT" =>
          calls[t] = IF s.wait_queue[t] = NULL THEN NoCall ELSE <<"lock", s.wait_queue[t]>>
    /\ \A t \in UserTask : s.task_state[t] \notin {"RUNNABLE", "WAIT"} => calls[t] = NoCall
    /\ \A t \in UserTask, m \in Mutex : calls[t] = <<"delete", m>> => lockers[m] = t
    /\ \A t \in UserTask, m \in Mutex :
          calls[t] = <<"lock", m>> /\ s.task_state[t] = "RUNNABLE" =>
             (s.task_wait_return_code[t] = "ERR_NO_ERROR" <=> lockers[m] = t)

(* Who is raised, and by whom.                                             *)
Holds(lockers, t) == \E m \in Mutex : lockers[m] = t

Inherited(s, lockers, handedOver) ==
    /\ \A t \in UserTask :
          /\ s.task_state[t] # "NONE" => s.base_priority[t] \in 1 .. NUM_PRIORITY - 2
          /\ s.priority[t] <= s.base_priority[t]
          /\ s.priority[t] # s.base_priority[t] => Holds(lockers, t)
    /\ \A m \in Mutex \ handedOver, t \in UserTask :
          s.task_state[t] = "WAIT" /\ s.wait_queue[t] = m
             => s.priority[lockers[m]] <= s.priority[t]

LEMMA UsersAreTasks ==
    /\ UserTask \subseteq Task
    /\ timer_task \in Task /\ timer_task \notin UserTask
    /\ idle_task \in Task /\ idle_task \notin UserTask
    /\ \A t \in Task : t \in UserTask \/ t = timer_task \/ t = idle_task
    /\ NULL \notin Task
    /\ NULL \notin Mutex
BY TasksAssumption DEF Task, SystemTask, Mutex

LEMMA ChainsLeadToUsers ==
    ASSUME NEW s, KInv(s), SystemFields(s), NEW lockers, Chains(s, lockers)
    PROVE  HoldersAreUsers(s, lockers)
<1>. SUFFICES ASSUME NEW u \in Task, NEW v \in Task, WaitsForHolder(s, lockers, u, v)
              PROVE  v \in UserTask
  BY DEF HoldersAreUsers
<1>1. /\ s.task_state[u] = "WAIT"
      /\ s.task_wait_reason[u] = "MUTEX_I"
      /\ lockers[s.wait_queue[u]] = v
  BY DEF WaitsForHolder
<1>2. u \in UserTask
  BY <1>1, UsersAreTasks DEF KInv, SystemTasks, SystemFields
<1>3. s.wait_queue[u] \in Mutex
  BY <1>1, <1>2 DEF Chains, KInv, KernelState, Mutex
<1>. QED  BY <1>1, <1>3, UsersAreTasks DEF Chains

(* Priorities as numbers.                                                  *)
LEMMA PrioritiesAreNumbers ==
    ASSUME NEW s, KInv(s), NEW t \in Task
    PROVE  /\ s.priority[t] \in Priority /\ s.priority[t] \in Int
           /\ s.base_priority[t] \in Priority /\ s.base_priority[t] \in Int
<1>1. s.priority[t] \in Priority /\ s.base_priority[t] \in Priority
  BY DEF KInv, KernelState
<1>2. \A p \in Priority : p \in Int
  BY SizesAssumption DEF Priority
<1>. QED  BY <1>1, <1>2

(* Raising a holder to p, and the chain with it, keeps all that is.        *)
LEMMA RaisingKeeps ==
    ASSUME NEW s, KInv(s), SystemFields(s), NEW lockers, Chains(s, lockers),
           NEW handedOver, Inherited(s, lockers, handedOver),
           NEW holder \in UserTask, Holds(lockers, holder),
           NEW p \in 1 .. NUM_PRIORITY - 2
    PROVE  LET r == set_current_priority(s, lockers, holder, p)
           IN  /\ OnlyPriorities(r, s)
               /\ Inherited(r, lockers, handedOver)
               /\ r.priority[holder] <= p
               /\ \A t \in Task : s.priority[t] <= p => r.priority[t] = s.priority[t]
<1>. DEFINE R == Raised(s, lockers, holder, p)
            r == set_current_priority(s, lockers, holder, p)
            less == LessUrgent(s, p)
<1>1. HoldersAreUsers(s, lockers)
  BY ChainsLeadToUsers
<1>2. /\ OnlyPriorities(r, s)
      /\ r.priority = [t \in Task |-> IF t \in R THEN p ELSE s.priority[t]]
  BY <1>1, RaisesTheChain
<1>. HIDE DEF r
<1>3. /\ R \subseteq less
      /\ holder \in less => holder \in R
      /\ \A u \in R, t \in less : WaitsForHolder(s, lockers, u, t) => t \in R
  BY RaisedIsClosed
<1>4. R \subseteq UserTask
  BY <1>1, RaisedAreUsers
<1>5. ASSUME NEW t \in R  PROVE  Holds(lockers, t)
  <2>. DEFINE X == {u \in R : Holds(lockers, u)}
  <2>1. X \in SUBSET less /\ (holder \in less => holder \in X)
    BY <1>3
  <2>2. ASSUME NEW u \in X, NEW v \in less, WaitsForHolder(s, lockers, u, v)
        PROVE  v \in X
    <3>1. /\ s.task_state[u] = "WAIT" /\ s.task_wait_reason[u] = "MUTEX_I"
          /\ lockers[s.wait_queue[u]] = v
      BY <2>2 DEF WaitsForHolder
    <3>2. s.wait_queue[u] \in Mutex
      BY <1>4, <3>1, UsersAreTasks DEF Chains, KInv, KernelState, Mutex
    <3>3. v \in R
      BY <1>3, <2>2
    <3>. QED  BY <3>1, <3>2, <3>3 DEF Holds
  <2>. HIDE DEF X
  <2>3. R \subseteq X
    BY <2>1, <2>2, RaisedIsLeast
  <2>. QED  BY <2>3 DEF X
<1>6. p \in Int /\ \A t \in Task : s.priority[t] \in Int /\ s.base_priority[t] \in Int
  BY PrioritiesAreNumbers
<1>7. \A t \in Task : IF t \in R THEN r.priority[t] = p /\ p < s.priority[t]
                      ELSE r.priority[t] = s.priority[t]
  BY <1>2, <1>3, <1>6 DEF LessUrgent
<1>8. \A t \in Task : s.priority[t] <= p => r.priority[t] = s.priority[t]
  BY <1>6, <1>7
<1>9. holder \in Task /\ r.priority[holder] <= p
  BY <1>3, <1>6, <1>7, UsersAreTasks DEF LessUrgent
<1>10. ASSUME NEW t \in UserTask
       PROVE  /\ r.task_state[t] # "NONE" => r.base_priority[t] \in 1 .. NUM_PRIORITY - 2
              /\ r.priority[t] <= r.base_priority[t]
              /\ r.priority[t] # r.base_priority[t] => Holds(lockers, t)
  <2>1. /\ r.base_priority = s.base_priority /\ r.task_state = s.task_state
        /\ t \in Task
    BY <1>2, UsersAreTasks DEF OnlyPriorities
  <2>2. /\ s.task_state[t] # "NONE" => s.base_priority[t] \in 1 .. NUM_PRIORITY - 2
        /\ s.priority[t] <= s.base_priority[t]
        /\ s.priority[t] # s.base_priority[t] => Holds(lockers, t)
    BY DEF Inherited
  <2>. QED  BY <1>5, <1>6, <1>7, <2>1, <2>2
<1>11. ASSUME NEW m \in Mutex \ handedOver, NEW t \in UserTask,
              r.task_state[t] = "WAIT", r.wait_queue[t] = m
       PROVE  r.priority[lockers[m]] <= r.priority[t]
  <2>. DEFINE h == lockers[m]
  <2>1. s.task_state[t] = "WAIT" /\ s.wait_queue[t] = m /\ t \in Task
    BY <1>2, <1>11, UsersAreTasks DEF OnlyPriorities
  <2>2. h \in UserTask /\ h \in Task /\ s.task_wait_reason[t] = "MUTEX_I"
    BY <2>1, UsersAreTasks DEF Chains
  <2>3. s.priority[h] <= s.priority[t]
    BY <2>1 DEF Inherited
  <2>4. WaitsForHolder(s, lockers, t, h)
    BY <2>1, <2>2 DEF WaitsForHolder
  <2>5. CASE t \in R
    <3>1. h \in less => h \in R
      BY <1>3, <2>4, <2>5
    <3>. QED  BY <1>6, <1>7, <2>1, <2>2, <2>5, <3>1 DEF LessUrgent
  <2>6. CASE t \notin R
    BY <1>6, <1>7, <2>1, <2>2, <2>3, <2>6
  <2>. QED  BY <2>5, <2>6
<1>12. Inherited(r, lockers, handedOver)
  BY <1>10, <1>11 DEF Inherited
<1>. QED  BY <1>2, <1>8, <1>9, <1>12 DEF r

(* find_max_blocked_priority is a priority between the timer task's and    *)
(* the idle task's, at most the reference and at most that of any task in  *)
(* line.                                                                   *)
LEMMA MaxBlocked ==
    ASSUME NEW s, KInv(s), SystemFields(s),
           NEW M \in SUBSET Mutex, NEW b \in 1 .. NUM_PRIORITY - 2
    PROVE  LET p == find_max_blocked_priority(s, M, b)
           IN  /\ p \in 1 .. NUM_PRIORITY - 2
               /\ p <= b
               /\ \A m \in M, t \in Task :
                     s.task_state[t] = "WAIT" /\ s.wait_queue[t] = m => p <= s.priority[t]
               /\ p # b => M # {}
<1>. DEFINE inLine == UNION {Range(s.wait_list[m]) : m \in M}
            S == {b} \cup {s.priority[t] : t \in inLine}
            p == find_max_blocked_priority(s, M, b)
<1>1. ASSUME NEW t \in inLine  PROVE  s.priority[t] \in 1 .. NUM_PRIORITY - 2
  <2>1. PICK m \in M : t \in Range(s.wait_list[m])
    OBVIOUS
  <2>2. m \in WaitObject /\ s.wait_list[m] \in Seq(Task)
    BY DEF Mutex, KInv, KernelState
  <2>3. t \in Task
    BY <2>1, <2>2, ListElements
  <2>4. s.task_state[t] = "WAIT" /\ s.wait_queue[t] = m
    BY <2>1, <2>2, <2>3 DEF KInv, WaitListsConsistent
  <2>5. t \in UserTask
    BY <2>2, <2>3, <2>4, UsersAreTasks DEF KInv, SystemTasks, SystemFields, Mutex
  <2>. QED  BY <2>4, <2>5 DEF KInv, SystemPriorities
<1>2. S \in SUBSET (1 .. NUM_PRIORITY - 2) /\ b \in S
  BY <1>1
<1>3. S \in SUBSET Priority /\ S # {}
  <2>1. 1 .. NUM_PRIORITY - 2 \subseteq Priority
    BY SizesAssumption DEF Priority
  <2>. HIDE DEF S
  <2>. QED  BY <1>2, <2>1
<1>4. p = Min(S)
  BY DEF find_max_blocked_priority
<1>. HIDE DEF S, p
<1>5. p \in S /\ \A x \in S : p <= x
  BY <1>3, <1>4, LowestBit
<1>6. ASSUME NEW m \in M, NEW t \in Task, s.task_state[t] = "WAIT", s.wait_queue[t] = m
      PROVE  p <= s.priority[t]
  <2>1. t \in Range(s.wait_list[m])
    BY <1>6 DEF KInv, WaitListsConsistent, Mutex
  <2>2. s.priority[t] \in S
    BY <2>1 DEF S
  <2>. QED  BY <1>5, <2>2
<1>7. p # b => M # {}
  BY <1>5 DEF S
<1>. QED  BY <1>2, <1>5, <1>6, <1>7 DEF p

LEMMA NothingChanged ==
    ASSUME NEW s, KInv(s)
    PROVE  OnlyPriorities(s, s)
BY DEF OnlyPriorities

(* The second half of task_wait_complete, after a wait for a mutex or for  *)
(* nothing: s is the state before it, w the one with the task awake.       *)
LEMMA RecalculationKeeps ==
    ASSUME NEW s, NEW t, s.task_wait_reason[t] = "MUTEX_I" => s.wait_queue[t] \in Mutex,
           NEW w, KInv(w), SystemFields(w), NEW lockers, Chains(w, lockers),
           NEW handedOver, Inherited(w, lockers, handedOver)
    PROVE  LET r == RecalculatedHolder(s, w, lockers, t)
           IN  OnlyPriorities(r, w) /\ Inherited(r, lockers, handedOver)
<1>. DEFINE mutex == s.wait_queue[t]
            holder == lockers[mutex]
            base == w.base_priority[holder]
            p == find_max_blocked_priority(w, {mutex}, base)
            r == RecalculatedHolder(s, w, lockers, t)
            C == /\ s.task_wait_reason[t] = "MUTEX_I"
                 /\ holder # NULL
                 /\ w.priority[holder] # base
                 /\ w.priority[holder] = w.priority[t]
<1>1. r = IF C THEN set_current_priority(w, lockers, holder, p) ELSE w
  BY DEF RecalculatedHolder
<1>2. CASE ~C
  BY <1>1, <1>2, NothingChanged
<1>3. CASE C
  <2>1. mutex \in Mutex /\ holder # NULL
    BY <1>3
  <2>2. holder \in UserTask /\ w.task_state[holder] # "NONE" /\ Holds(lockers, holder)
    BY <2>1 DEF Chains, Holds
  <2>3. base \in 1 .. NUM_PRIORITY - 2
    BY <2>2 DEF Inherited
  <2>4. r = set_current_priority(w, lockers, holder, p)
    BY <1>1, <1>3
  <2>. HIDE DEF base, mutex, holder, r, C
  <2>5. p \in 1 .. NUM_PRIORITY - 2
    BY <2>1, <2>3, MaxBlocked
  <2>. HIDE DEF p
  <2>6. OnlyPriorities(r, w) /\ Inherited(r, lockers, handedOver)
    BY <2>2, <2>4, <2>5, RaisingKeeps
  <2>. QED  BY <2>6 DEF r
<1>. QED  BY <1>2, <1>3

-----------------------------------------------------------------------------
(* Kernel, mutexes and calls agree.                                        *)

Right(s, lockers, calls, handedOver) ==
    /\ KInv(s)
    /\ SystemFields(s)
    /\ Chains(s, lockers)
    /\ CallsMatch(s, lockers, calls)
    /\ Inherited(s, lockers, handedOver)

LEMMA LockIsNoDelete ==
    /\ \A m : NoCall # <<"lock", m>> /\ NoCall # <<"delete", m>>
    /\ \A m, n : <<"lock", m>> # <<"delete", n>>
    /\ \A m, n : <<"lock", m>> = <<"lock", n>> => m = n
    /\ \A m, n : <<"delete", m>> = <<"delete", n>> => m = n
BY DEF NoCall

(* A step that concerns the system tasks alone.                            *)
LEMMA UnseenIsRight ==
    ASSUME NEW s, NEW lockers, NEW calls, NEW handedOver,
           Right(s, lockers, calls, handedOver),
           NEW r, KInv(r), SystemFields(r), \A t \in UserTask : SameFields(r, s, t)
    PROVE  Right(r, lockers, calls, handedOver)
<1>1. Chains(s, lockers) /\ CallsMatch(s, lockers, calls)
      /\ Inherited(s, lockers, handedOver)
  BY DEF Right
<1>2. \A t \in UserTask :
        /\ r.task_state[t] = s.task_state[t]
        /\ r.priority[t] = s.priority[t]
        /\ r.base_priority[t] = s.base_priority[t]
        /\ r.task_wait_reason[t] = s.task_wait_reason[t]
        /\ r.wait_queue[t] = s.wait_queue[t]
        /\ r.task_wait_return_code[t] = s.task_wait_return_code[t]
  BY DEF SameFields
<1>3. Chains(r, lockers)
  BY <1>1, <1>2 DEF Chains
<1>4. CallsMatch(r, lockers, calls)
  BY <1>1, <1>2 DEF CallsMatch
<1>5. Inherited(r, lockers, handedOver)
  <2>1. ASSUME NEW m \in Mutex \ handedOver, NEW t \in UserTask,
               r.task_state[t] = "WAIT", r.wait_queue[t] = m
        PROVE  r.priority[lockers[m]] <= r.priority[t]
    <3>1. s.task_state[t] = "WAIT" /\ s.wait_queue[t] = m
      BY <1>2, <2>1
    <3>2. lockers[m] \in UserTask
      BY <1>1, <3>1, UsersAreTasks DEF Chains
    <3>3. s.priority[lockers[m]] <= s.priority[t]
      BY <1>1, <3>1 DEF Inherited
    <3>. QED  BY <1>2, <3>2, <3>3
  <2>2. \A t \in UserTask :
          /\ r.task_state[t] # "NONE" => r.base_priority[t] \in 1 .. NUM_PRIORITY - 2
          /\ r.priority[t] <= r.base_priority[t]
          /\ r.priority[t] # r.base_priority[t] => Holds(lockers, t)
    BY <1>1, <1>2 DEF Inherited
  <2>. QED  BY <2>1, <2>2 DEF Inherited
<1>. QED  BY <1>3, <1>4, <1>5 DEF Right

(* A task that runs comes back from a call.                                *)
LEMMA ReturnIsRight ==
    ASSUME NEW s, NEW lockers, NEW calls \in [Task -> Calls], NEW handedOver,
           Right(s, lockers, calls, handedOver),
           NEW t \in UserTask, s.task_state[t] = "RUNNABLE"
    PROVE  Right(s, lockers, [calls EXCEPT ![t] = NoCall], handedOver)
<1>. DEFINE now == [calls EXCEPT ![t] = NoCall]
<1>1. now[t] = NoCall /\ \A u \in UserTask : u # t => now[u] = calls[u]
  BY UsersAreTasks
<1>. HIDE DEF now
<1>2. CallsMatch(s, lockers, now)
  <2>1. CallsMatch(s, lockers, calls)
    BY DEF Right
  <2>2. \A u \in UserTask : s.task_state[u] = "WAIT" => u # t
    OBVIOUS
  <2>3. \A u \in UserTask, m \in Mutex : now[u] \in {<<"lock", m>>, <<"delete", m>>}
                                  => u # t /\ now[u] = calls[u]
    BY <1>1, LockIsNoDelete
  <2>4. \A u \in UserTask : s.task_state[u] = "WAIT" =>
          now[u] = IF s.wait_queue[u] = NULL THEN NoCall ELSE <<"lock", s.wait_queue[u]>>
    BY <1>1, <2>1, <2>2 DEF CallsMatch
  <2>5. \A u \in UserTask : s.task_state[u] \notin {"RUNNABLE", "WAIT"} => now[u] = NoCall
    BY <1>1, <2>1 DEF CallsMatch
  <2>6. ASSUME NEW u \in UserTask, NEW m \in Mutex, now[u] = <<"delete", m>>
        PROVE  lockers[m] = u
    <3>1. calls[u] = <<"delete", m>>
      BY <2>3, <2>6
    <3>. QED  BY <2>1, <3>1 DEF CallsMatch
  <2>7. ASSUME NEW u \in UserTask, NEW m \in Mutex,
               now[u] = <<"lock", m>>, s.task_state[u] = "RUNNABLE"
        PROVE  s.task_wait_return_code[u] = "ERR_NO_ERROR" <=> lockers[m] = u
    <3>1. calls[u] = <<"lock", m>>
      BY <2>3, <2>7
    <3>. QED  BY <2>1, <2>7, <3>1 DEF CallsMatch
  <2>. QED  BY <2>4, <2>5, <2>6, <2>7 DEF CallsMatch
<1>. QED  BY <1>2 DEF Right, now

(* A free mutex is taken; nobody stands in line for it.                    *)
LEMMA TakeIsRight ==
    ASSUME NEW s, NEW lockers \in [Mutex -> Task \cup {NULL}], NEW calls, NEW handedOver,
           Right(s, lockers, calls, handedOver),
           NEW t \in UserTask, s.task_state[t] = "RUNNABLE", calls[t] = NoCall,
           NEW m \in Mutex, lockers[m] = NULL
    PROVE  Right(s, [lockers EXCEPT ![m] = t], calls, handedOver)
<1>. DEFINE new == [lockers EXCEPT ![m] = t]
<1>1. new[m] = t /\ \A n \in Mutex : n # m => new[n] = lockers[n]
  OBVIOUS
<1>. HIDE DEF new
<1>2. \A u \in UserTask : s.task_state[u] = "WAIT" => s.wait_queue[u] # m
  BY UsersAreTasks DEF Right, Chains
<1>3. \A u \in UserTask : s.task_state[u] = "WAIT" =>
        s.wait_queue[u] = NULL \/ s.wait_queue[u] \in Mutex
  BY UsersAreTasks DEF Right, KInv, KernelState, Mutex
<1>4. t # NULL
  BY UsersAreTasks
<1>5. Chains(s, new)
  <2>1. \A n \in Mutex : new[n] # NULL =>
          new[n] \in UserTask /\ s.task_state[new[n]] \in {"RUNNABLE", "WAIT"}
    BY <1>1 DEF Right, Chains
  <2>2. \A u \in UserTask : s.task_state[u] = "WAIT" =>
          /\ s.task_wait_reason[u] = "MUTEX_I" <=> s.wait_queue[u] # NULL
          /\ s.wait_queue[u] # NULL => new[s.wait_queue[u]] \notin {NULL, u}
    BY <1>1, <1>2, <1>3 DEF Right, Chains
  <2>. QED  BY <2>1, <2>2 DEF Chains
<1>6. CallsMatch(s, new, calls)
  <2>1. \A u \in UserTask, n \in Mutex : calls[u] = <<"delete", n>> => new[n] = u
    BY <1>1, UsersAreTasks DEF Right, CallsMatch
  <2>2. ASSUME NEW u \in UserTask, NEW n \in Mutex,
               calls[u] = <<"lock", n>>, s.task_state[u] = "RUNNABLE"
        PROVE  s.task_wait_return_code[u] = "ERR_NO_ERROR" <=> new[n] = u
    <3>1. s.task_wait_return_code[u] = "ERR_NO_ERROR" <=> lockers[n] = u
      BY <2>2 DEF Right, CallsMatch
    <3>2. u # t
      BY <2>2, LockIsNoDelete
    <3>. QED  BY <1>1, <3>1, <3>2, UsersAreTasks
  <2>. QED  BY <2>1, <2>2 DEF Right, CallsMatch
<1>7. Inherited(s, new, handedOver)
  <2>1. \A u \in UserTask : Holds(lockers, u) => Holds(new, u)
    BY <1>1, UsersAreTasks DEF Holds
  <2>. QED  BY <1>1, <1>2, <2>1 DEF Right, Inherited
<1>. QED  BY <1>5, <1>6, <1>7 DEF Right, new

(* A task begins, or ends without a mutex.                                 *)
LEMMA StartOrEndIsRight ==
    ASSUME NEW s, NEW lockers, NEW calls, NEW handedOver,
           Right(s, lockers, calls, handedOver),
           NEW r, KInv(r), SystemFields(r),
           NEW t \in UserTask, ~ Holds(lockers, t), calls[t] = NoCall,
           r.task_state[t] \in {"RUNNABLE", "DORMANT"},
           r.priority[t] = r.base_priority[t],
           r.base_priority[t] \in 1 .. NUM_PRIORITY - 2,
           \A u \in UserTask : u # t => SameFields(r, s, u)
    PROVE  Right(r, lockers, calls, handedOver)
<1>1. \A u \in UserTask : u # t =>
        /\ r.task_state[u] = s.task_state[u]
        /\ r.priority[u] = s.priority[u]
        /\ r.base_priority[u] = s.base_priority[u]
        /\ r.task_wait_reason[u] = s.task_wait_reason[u]
        /\ r.wait_queue[u] = s.wait_queue[u]
        /\ r.task_wait_return_code[u] = s.task_wait_return_code[u]
  BY DEF SameFields
<1>2. \A m \in Mutex : lockers[m] # t
  BY DEF Holds
<1>3. Chains(r, lockers)
  BY <1>1, <1>2 DEF Right, Chains
<1>4. CallsMatch(r, lockers, calls)
  <2>1. CallsMatch(s, lockers, calls)
    BY DEF Right
  <2>2. \A m : calls[t] # <<"lock", m>>
    BY LockIsNoDelete
  <2>3. \A u \in UserTask : r.task_state[u] = "WAIT" =>
          calls[u] = IF r.wait_queue[u] = NULL THEN NoCall ELSE <<"lock", r.wait_queue[u]>>
    BY <1>1, <2>1 DEF CallsMatch
  <2>4. \A u \in UserTask : r.task_state[u] \notin {"RUNNABLE", "WAIT"} => calls[u] = NoCall
    BY <1>1, <2>1 DEF CallsMatch
  <2>5. \A u \in UserTask, m \in Mutex : calls[u] = <<"delete", m>> => lockers[m] = u
    BY <2>1 DEF CallsMatch
  <2>6. ASSUME NEW u \in UserTask, NEW m \in Mutex,
               calls[u] = <<"lock", m>>, r.task_state[u] = "RUNNABLE"
        PROVE  r.task_wait_return_code[u] = "ERR_NO_ERROR" <=> lockers[m] = u
    <3>1. u # t
      BY <2>2, <2>6
    <3>. QED  BY <1>1, <2>1, <2>6, <3>1 DEF CallsMatch
  <2>. QED  BY <2>3, <2>4, <2>5, <2>6 DEF CallsMatch
<1>5. Inherited(r, lockers, handedOver)
  <2>1. ASSUME NEW m \in Mutex \ handedOver, NEW u \in UserTask,
               r.task_state[u] = "WAIT", r.wait_queue[u] = m
        PROVE  r.priority[lockers[m]] <= r.priority[u]
    <3>1. u # t /\ s.task_state[u] = "WAIT" /\ s.wait_queue[u] = m
      BY <1>1, <2>1
    <3>2. lockers[m] \in UserTask /\ lockers[m] # t
      BY <1>2, <3>1, UsersAreTasks DEF Right, Chains
    <3>3. s.priority[lockers[m]] <= s.priority[u]
      BY <3>1 DEF Right, Inherited
    <3>. QED  BY <1>1, <3>1, <3>2, <3>3
  <2>2. \A u \in UserTask :
          /\ r.task_state[u] # "NONE" => r.base_priority[u] \in 1 .. NUM_PRIORITY - 2
          /\ r.priority[u] <= r.base_priority[u]
          /\ r.priority[u] # r.base_priority[u] => Holds(lockers, u)
    BY <1>1 DEF Right, Inherited
  <2>. QED  BY <2>1, <2>2 DEF Inherited
<1>. QED  BY <1>3, <1>4, <1>5 DEF Right

(* Priorities have been raised.                                            *)
LEMMA RaisedIsRight ==
    ASSUME NEW s, NEW lockers, NEW calls, NEW handedOver,
           Right(s, lockers, calls, handedOver),
           NEW r, OnlyPriorities(r, s), Inherited(r, lockers, handedOver)
    PROVE  Right(r, lockers, calls, handedOver)
<1>1. SystemFields(r)
  BY DEF Right, OnlyPriorities, SystemFields
<1>2. Chains(r, lockers)
  BY DEF Right, OnlyPriorities, Chains
<1>3. CallsMatch(r, lockers, calls)
  BY DEF Right, OnlyPriorities, CallsMatch
<1>. QED  BY <1>1, <1>2, <1>3 DEF Right, OnlyPriorities

(* The running task starts to wait, for nothing or for a mutex whose       *)
(* holder is at least as urgent.                                           *)
LEMMA StopIsRight ==
    ASSUME NEW s, NEW lockers, NEW calls \in [Task -> Calls], NEW handedOver,
           Right(s, lockers, calls, handedOver),
           NEW t \in UserTask, s.task_state[t] = "RUNNABLE", calls[t] = NoCall,
           NEW que \in Mutex \cup {NULL}, NEW reason,
           reason = "MUTEX_I" <=> que # NULL,
           que # NULL => /\ lockers[que] \notin {NULL, t}
                         /\ s.priority[lockers[que]] <= s.priority[t],
           NEW r, KInv(r), StopsFor(r, s, t, que, reason)
    PROVE  Right(r, lockers,
                 [calls EXCEPT ![t] = IF que = NULL THEN NoCall ELSE <<"lock", que>>],
                 handedOver)
<1>. DEFINE c == IF que = NULL THEN NoCall ELSE <<"lock", que>>
            now == [calls EXCEPT ![t] = c]
<1>1. /\ t \in Task /\ t # timer_task /\ t # idle_task /\ s \in KernelState
      /\ KInv(s) /\ SystemFields(s)
      /\ Chains(s, lockers) /\ CallsMatch(s, lockers, calls)
      /\ Inherited(s, lockers, handedOver)
  BY UsersAreTasks DEF Right, KInv
<1>2. s.wait_queue[t] = NULL
  BY <1>1 DEF KInv, WaitFields
<1>3. /\ r.priority = s.priority /\ r.base_priority = s.base_priority
      /\ r.task_state[t] = "WAIT" /\ r.task_wait_reason[t] = reason
      /\ r.wait_queue[t] = que
      /\ \A u \in Task : u # t => /\ r.task_state[u] = s.task_state[u]
                                  /\ r.task_wait_reason[u] = s.task_wait_reason[u]
                                  /\ r.wait_queue[u] = s.wait_queue[u]
      /\ r.task_wait_return_code = s.task_wait_return_code
  BY <1>1, <1>2 DEF StopsFor, SamePriorities, KernelState
<1>4. now[t] = c /\ \A u \in UserTask : u # t => now[u] = calls[u]
  BY <1>1, UsersAreTasks
<1>. HIDE DEF now
<1>5. SystemFields(r)
  BY <1>1, <1>3, UsersAreTasks DEF SystemFields
<1>6. Chains(r, lockers)
  <2>1. \A m \in Mutex : lockers[m] # NULL =>
          lockers[m] \in UserTask /\ r.task_state[lockers[m]] \in {"RUNNABLE", "WAIT"}
    BY <1>1, <1>3, UsersAreTasks DEF Chains
  <2>2. \A u \in UserTask : r.task_state[u] = "WAIT" =>
          /\ r.task_wait_reason[u] = "MUTEX_I" <=> r.wait_queue[u] # NULL
          /\ r.wait_queue[u] # NULL => lockers[r.wait_queue[u]] \notin {NULL, u}
    BY <1>1, <1>3, UsersAreTasks DEF Chains
  <2>. QED  BY <2>1, <2>2 DEF Chains
<1>7. CallsMatch(r, lockers, now)
  <2>1. \A u \in UserTask : r.task_state[u] = "WAIT" =>
          now[u] = IF r.wait_queue[u] = NULL THEN NoCall ELSE <<"lock", r.wait_queue[u]>>
    BY <1>1, <1>3, <1>4, UsersAreTasks DEF CallsMatch
  <2>2. \A u \in UserTask : r.task_state[u] \notin {"RUNNABLE", "WAIT"} => now[u] = NoCall
    BY <1>1, <1>3, <1>4, UsersAreTasks DEF CallsMatch
  <2>3. ASSUME NEW u \in UserTask, NEW m \in Mutex, now[u] = <<"delete", m>>
        PROVE  lockers[m] = u
    <3>1. u # t
      BY <1>4, <2>3, LockIsNoDelete
    <3>2. calls[u] = <<"delete", m>>
      BY <1>4, <2>3, <3>1
    <3>. QED  BY <1>1, <3>2 DEF CallsMatch
  <2>4. ASSUME NEW u \in UserTask, NEW m \in Mutex,
               now[u] = <<"lock", m>>, r.task_state[u] = "RUNNABLE"
        PROVE  r.task_wait_return_code[u] = "ERR_NO_ERROR" <=> lockers[m] = u
    <3>1. u # t /\ u \in Task
      BY <1>3, <2>4, UsersAreTasks
    <3>2. calls[u] = <<"lock", m>> /\ s.task_state[u] = "RUNNABLE"
      BY <1>3, <1>4, <2>4, <3>1
    <3>. QED  BY <1>1, <1>3, <3>2 DEF CallsMatch
  <2>. QED  BY <2>1, <2>2, <2>3, <2>4 DEF CallsMatch
<1>8. Inherited(r, lockers, handedOver)
  <2>1. ASSUME NEW u \in UserTask
        PROVE  /\ r.task_state[u] # "NONE" => r.base_priority[u] \in 1 .. NUM_PRIORITY - 2
               /\ r.priority[u] <= r.base_priority[u]
               /\ r.priority[u] # r.base_priority[u] => Holds(lockers, u)
    BY <1>1, <1>3, UsersAreTasks DEF Inherited
  <2>2. ASSUME NEW m \in Mutex \ handedOver, NEW u \in UserTask,
               r.task_state[u] = "WAIT", r.wait_queue[u] = m
        PROVE  r.priority[lockers[m]] <= r.priority[u]
    <3>1. CASE u = t
      BY <1>3, <2>2, <3>1, UsersAreTasks
    <3>2. CASE u # t
      BY <1>1, <1>3, <2>2, <3>2, UsersAreTasks DEF Inherited
    <3>. QED  BY <3>1, <3>2
  <2>. QED  BY <2>1, <2>2 DEF Inherited
<1>. QED  BY <1>5, <1>6, <1>7, <1>8 DEF Right, now

(* A task that is woken, and what its holder has inherited, if nobody gets *)
(* the mutex.                                                              *)
LEMMA WakingInherits ==
    ASSUME NEW s, NEW lockers, NEW calls, NEW handedOver,
           Right(s, lockers, calls, handedOver),
           NEW t \in UserTask, s.task_state[t] = "WAIT",
           NEW w, NEW code, IsWoken(w, s, t, code)
    PROVE  SystemFields(w) /\ Chains(w, lockers) /\ Inherited(w, lockers, handedOver)
<1>1. /\ t \in Task /\ t # timer_task /\ t # idle_task /\ s \in KernelState
      /\ SystemFields(s) /\ Chains(s, lockers) /\ Inherited(s, lockers, handedOver)
  BY UsersAreTasks DEF Right, KInv
<1>2. /\ w.priority = s.priority /\ w.base_priority = s.base_priority
      /\ w.task_state[t] = "RUNNABLE" /\ w.wait_queue[t] = NULL
      /\ \A u \in Task : u # t => /\ w.task_state[u] = s.task_state[u]
                                  /\ w.task_wait_reason[u] = s.task_wait_reason[u]
                                  /\ w.wait_queue[u] = s.wait_queue[u]
  BY <1>1 DEF IsWoken, SamePriorities, KernelState
<1>3. SystemFields(w)
  BY <1>1, <1>2, UsersAreTasks DEF SystemFields
<1>4. Chains(w, lockers)
  BY <1>1, <1>2, UsersAreTasks DEF Chains
<1>5. Inherited(w, lockers, handedOver)
  BY <1>1, <1>2, UsersAreTasks DEF Inherited
<1>. QED  BY <1>3, <1>4, <1>5

(* How the end of a wait shows.                                            *)
WakesWith(r, s, t, code) ==
    /\ r.task_state = [s.task_state EXCEPT ![t] = "RUNNABLE"]
    /\ r.wait_queue = [s.wait_queue EXCEPT ![t] = NULL]
    /\ r.task_wait_return_code = [s.task_wait_return_code EXCEPT ![t] = code]

LEMMA FailedWaitIsRight ==
    ASSUME NEW s, NEW lockers, NEW calls, NEW handedOver,
           Right(s, lockers, calls, handedOver),
           NEW t \in UserTask, s.task_state[t] = "WAIT",
           NEW code, code # "ERR_NO_ERROR",
           NEW r, KInv(r), SystemFields(r), Chains(r, lockers),
           Inherited(r, lockers, handedOver),
           WakesWith(r, s, t, code)
    PROVE  Right(r, lockers, calls, handedOver)
<1>1. /\ t \in Task /\ s \in KernelState
      /\ Chains(s, lockers) /\ CallsMatch(s, lockers, calls)
  BY UsersAreTasks DEF Right, KInv
<1>2. /\ r.task_state[t] = "RUNNABLE" /\ r.task_wait_return_code[t] = code
      /\ \A u \in Task : u # t =>
            /\ r.task_state[u] = s.task_state[u]
            /\ r.wait_queue[u] = s.wait_queue[u]
            /\ r.task_wait_return_code[u] = s.task_wait_return_code[u]
  BY <1>1 DEF KernelState, WakesWith
<1>3. \A u \in UserTask : r.task_state[u] = "WAIT" =>
        calls[u] = IF r.wait_queue[u] = NULL THEN NoCall ELSE <<"lock", r.wait_queue[u]>>
  BY <1>1, <1>2, UsersAreTasks DEF CallsMatch
<1>4. \A u \in UserTask : r.task_state[u] \notin {"RUNNABLE", "WAIT"} => calls[u] = NoCall
  BY <1>1, <1>2, UsersAreTasks DEF CallsMatch
<1>5. \A u \in UserTask, m \in Mutex : calls[u] = <<"delete", m>> => lockers[m] = u
  BY <1>1 DEF CallsMatch
<1>6. ASSUME NEW u \in UserTask, NEW m \in Mutex,
             calls[u] = <<"lock", m>>, r.task_state[u] = "RUNNABLE"
      PROVE  r.task_wait_return_code[u] = "ERR_NO_ERROR" <=> lockers[m] = u
  <2>1. CASE u = t
    <3>1. calls[t] = IF s.wait_queue[t] = NULL THEN NoCall ELSE <<"lock", s.wait_queue[t]>>
      BY <1>1 DEF CallsMatch
    <3>2. s.wait_queue[t] = m /\ m # NULL
      BY <1>6, <2>1, <3>1, LockIsNoDelete
    <3>3. lockers[m] # t
      BY <1>1, <3>2 DEF Chains
    <3>. QED  BY <1>2, <2>1, <3>3
  <2>2. CASE u # t
    BY <1>1, <1>2, <1>6, <2>2, UsersAreTasks DEF CallsMatch
  <2>. QED  BY <2>1, <2>2
<1>7. CallsMatch(r, lockers, calls)
  BY <1>3, <1>4, <1>5, <1>6 DEF CallsMatch
<1>. QED  BY <1>7 DEF Right

(* The visit of the timer task's scan.                                     *)
LEMMA VisitIsRight ==
    ASSUME NEW s, NEW lockers, NEW calls, NEW handedOver,
           Right(s, lockers, calls, handedOver),
           NEW t \in UserTask, s.task_state[t] = "WAIT", s.tick_count[t] \in Timeout
    PROVE  LET v == timer_visit(s, t)
               r == RecalculatedHolder(s, v, lockers, t)
           IN  /\ v.task_state[t] = "WAIT" =>
                     /\ Right(v, lockers, calls, handedOver)
                     /\ v.current_running_task = s.current_running_task
                     /\ v.task_state = s.task_state
               /\ v.task_state[t] # "WAIT" =>
                     /\ Right(r, lockers, calls, handedOver)
                     /\ r.current_running_task = s.current_running_task
                     /\ r.task_state = [s.task_state EXCEPT ![t] = "RUNNABLE"]
<1>. DEFINE v == timer_visit(s, t)
            r == RecalculatedHolder(s, v, lockers, t)
<1>1. /\ t \in Task /\ KInv(s) /\ s \in KernelState
      /\ SystemFields(s) /\ Chains(s, lockers)
  BY UsersAreTasks DEF Right, KInv
<1>2. KInv(v)
  BY <1>1, TimerVisit
<1>3. IF s.tick_count[t] > 1 THEN v = [s EXCEPT !.tick_count[t] = @ - 1]
                             ELSE IsWoken(v, s, t, "ERR_TIMEOUT")
  BY <1>1, VisitWakes
<1>. HIDE DEF v
<1>4. CASE s.tick_count[t] > 1
  <2>1. v = [s EXCEPT !.tick_count[t] = @ - 1]
    BY <1>3, <1>4
  <2>2. /\ v.task_state = s.task_state
        /\ v.priority = s.priority
        /\ v.base_priority = s.base_priority
        /\ v.task_wait_reason = s.task_wait_reason
        /\ v.wait_queue = s.wait_queue
        /\ v.task_wait_return_code = s.task_wait_return_code
        /\ v.current_running_task = s.current_running_task
    BY <2>1
  <2>3. SystemFields(v) /\ \A u \in UserTask : SameFields(v, s, u)
    BY <1>1, <2>2 DEF SystemFields, SameFields
  <2>4. Right(v, lockers, calls, handedOver)
    BY <1>2, <2>3, UnseenIsRight
  <2>. QED  BY <2>2, <2>4 DEF v
<1>5. CASE ~ (s.tick_count[t] > 1)
  <2>1. IsWoken(v, s, t, "ERR_TIMEOUT")
    BY <1>3, <1>5
  <2>2. SystemFields(v) /\ Chains(v, lockers) /\ Inherited(v, lockers, handedOver)
    BY <2>1, WakingInherits
  <2>3. s.task_wait_reason[t] = "MUTEX_I" => s.wait_queue[t] \in Mutex
    BY <1>1 DEF Chains, KernelState, Mutex
  <2>4. OnlyPriorities(r, v) /\ Inherited(r, lockers, handedOver)
    BY <1>2, <2>2, <2>3, RecalculationKeeps
  <2>. HIDE DEF r
  <2>5. /\ r.task_state = [s.task_state EXCEPT ![t] = "RUNNABLE"]
        /\ r.wait_queue = [s.wait_queue EXCEPT ![t] = NULL]
        /\ r.task_wait_return_code = [s.task_wait_return_code EXCEPT ![t] = "ERR_TIMEOUT"]
        /\ r.current_running_task = s.current_running_task
        /\ v.task_state[t] = "RUNNABLE"
    BY <1>1, <2>1, <2>4 DEF OnlyPriorities, IsWoken, SamePriorities, KernelState
  <2>6. KInv(r) /\ SystemFields(r) /\ Chains(r, lockers)
    BY <2>2, <2>4 DEF OnlyPriorities, SystemFields, Chains
  <2>7. WakesWith(r, s, t, "ERR_TIMEOUT")
    BY <2>5 DEF WakesWith
  <2>8. Right(r, lockers, calls, handedOver)
    BY <2>4, <2>6, <2>7, FailedWaitIsRight
  <2>. QED  BY <2>5, <2>8 DEF v, r
<1>. QED  BY <1>4, <1>5

(* lock_mutex of a mutex that another task has.                            *)
Inheriting(s, lockers, t, m) ==
    IF s.priority[t] < s.priority[lockers[m]]
    THEN set_current_priority(s, lockers, lockers[m], s.priority[t])
    ELSE s

InsideLock(calls, t, m) == [calls EXCEPT ![t] = <<"lock", m>>]

LEMMA LockWaits ==
    ASSUME NEW s, NEW lockers, NEW calls \in [Task -> Calls], NEW handedOver,
           Right(s, lockers, calls, handedOver),
           NEW t \in UserTask, t = s.current_running_task,
           s.task_state[t] = "RUNNABLE", calls[t] = NoCall,
           NEW m \in Mutex, lockers[m] \notin {NULL, t},
           NEW timeout \in Timeout \cup {WAIT_INFINITE}
    PROVE  LET r == task_curr_to_wait_action(Inheriting(s, lockers, t, m),
                                             m, "MUTEX_I", timeout)
           IN  /\ Right(r, lockers, InsideLock(calls, t, m), handedOver)
               /\ r.current_running_task = t
               /\ r.task_state = [s.task_state EXCEPT ![t] = "WAIT"]
<1>. DEFINE holder == lockers[m]
            p == s.priority[t]
            i == Inheriting(s, lockers, t, m)
            r == task_curr_to_wait_action(i, m, "MUTEX_I", timeout)
<1>1. /\ t \in Task /\ t # timer_task /\ t # idle_task
      /\ KInv(s) /\ SystemFields(s)
      /\ Chains(s, lockers) /\ Inherited(s, lockers, handedOver)
      /\ m \in WaitObject /\ m # NULL
  BY UsersAreTasks DEF Right, Mutex
<1>2. holder \in UserTask /\ holder \in Task /\ Holds(lockers, holder)
  BY <1>1, UsersAreTasks DEF Chains, Holds
<1>3. p \in 1 .. NUM_PRIORITY - 2 /\ p \in Int /\ s.priority[holder] \in Int
  BY <1>1, <1>2, PrioritiesAreNumbers DEF KInv, SystemPriorities
<1>4. /\ OnlyPriorities(i, s)
      /\ Inherited(i, lockers, handedOver)
      /\ i.priority[holder] <= i.priority[t]
  <2>1. CASE p < s.priority[holder]
    <3>. DEFINE j == set_current_priority(s, lockers, holder, p)
    <3>1. i = j
      BY <2>1 DEF Inheriting
    <3>. HIDE DEF holder, p
    <3>2. /\ OnlyPriorities(j, s)
          /\ Inherited(j, lockers, handedOver)
          /\ j.priority[holder] <= p
          /\ \A u \in Task : s.priority[u] <= p => j.priority[u] = s.priority[u]
      BY <1>1, <1>2, <1>3, RaisingKeeps
    <3>3. j.priority[t] = p
      BY <1>1, <1>3, <3>2 DEF p
    <3>. QED  BY <3>1, <3>2, <3>3
  <2>2. CASE ~ (p < s.priority[holder])
    BY <1>1, <1>3, <2>2, NothingChanged DEF Inheriting
  <2>. QED  BY <2>1, <2>2
<1>. HIDE DEF i
<1>5. Right(i, lockers, calls, handedOver)
  BY <1>4, RaisedIsRight
<1>6. /\ KInv(i) /\ t = i.current_running_task
      /\ i.task_state = s.task_state
  BY <1>4 DEF OnlyPriorities
<1>. HIDE DEF holder, p
<1>7. /\ KInv(r)
      /\ r.current_running_task = t
      /\ r.task_state = [i.task_state EXCEPT ![t] = "WAIT"]
  <2>1. /\ KInv(i) /\ t \in Task /\ t = i.current_running_task
        /\ i.task_state[t] = "RUNNABLE" /\ t # idle_task /\ t # timer_task
        /\ m \in WaitObject \cup {NULL} /\ "MUTEX_I" \in WaitReason
    BY <1>1, <1>6 DEF WaitReason
  <2>. QED  BY <2>1, CurrToWait
<1>8. StopsFor(r, i, t, m, "MUTEX_I")
  BY <1>1, <1>6, WaitStops
<1>. HIDE DEF r
<1>9. Right(r, lockers,
            [calls EXCEPT ![t] = IF m = NULL THEN NoCall ELSE <<"lock", m>>], handedOver)
  <2>. DEFINE reason == "MUTEX_I"
  <2>1. /\ m \in Mutex \cup {NULL} /\ (reason = "MUTEX_I" <=> m # NULL)
        /\ m # NULL => /\ lockers[m] \notin {NULL, t}
                       /\ i.priority[lockers[m]] <= i.priority[t]
        /\ KInv(r) /\ StopsFor(r, i, t, m, reason)
        /\ i.task_state[t] = "RUNNABLE"
    BY <1>1, <1>4, <1>6, <1>7, <1>8 DEF holder
  <2>. HIDE DEF reason
  <2>. QED  BY <1>5, <2>1, StopIsRight
<1>10. Right(r, lockers, InsideLock(calls, t, m), handedOver)
  BY <1>1, <1>9 DEF InsideLock
<1>11. r.task_state = [s.task_state EXCEPT ![t] = "WAIT"]
  BY <1>6, <1>8 DEF StopsFor
<1>. QED  BY <1>7, <1>10, <1>11 DEF r, i, holder, p

(* The first in line is a user task.                                       *)
LEMMA FirstIsUser ==
    ASSUME NEW s, KInv(s), SystemFields(s), NEW m \in Mutex, s.wait_list[m] # <<>>
    PROVE  LET h == Head(s.wait_list[m])
           IN  /\ h \in UserTask
               /\ s.task_state[h] = "WAIT"
               /\ s.wait_queue[h] = m
<1>. DEFINE h == Head(s.wait_list[m])
<1>1. m \in WaitObject /\ s.wait_list[m] \in Seq(Task)
  BY DEF Mutex, KInv, KernelState
<1>2. h \in Task /\ h \in Range(s.wait_list[m])
  BY <1>1, HeadInList
<1>. HIDE DEF h
<1>3. s.task_state[h] = "WAIT" /\ s.wait_queue[h] = m
  BY <1>1, <1>2 DEF KInv, WaitListsConsistent
<1>4. h \in UserTask
  BY <1>2, <1>3, UsersAreTasks DEF KInv, SystemTasks, SystemFields
<1>. QED  BY <1>3, <1>4 DEF h

(* delete_mutex tells the first in line that its wait has failed.          *)
LEMMA DeletedWaitIsRight ==
    ASSUME NEW s, NEW lockers, NEW calls, NEW handedOver,
           Right(s, lockers, calls, handedOver),
           NEW m \in Mutex, s.wait_list[m] # <<>>,
           NEW h \in UserTask, h = Head(s.wait_list[m])
    PROVE  LET r == [wake_first(s, lockers, m)
                        EXCEPT !.task_wait_return_code[h] = "ERR_DELETED"]
           IN  /\ Right(r, lockers, calls, handedOver)
               /\ r.current_running_task = s.current_running_task
               /\ r.task_state = [s.task_state EXCEPT ![h] = "RUNNABLE"]
<1>. DEFINE w == task_wait_complete(queue_remove_element(s, h), h)
            q == RecalculatedHolder(s, w, lockers, h)
            r == [q EXCEPT !.task_wait_return_code[h] = "ERR_DELETED"]
<1>1. /\ KInv(s) /\ s \in KernelState /\ SystemFields(s) /\ Chains(s, lockers)
  BY DEF Right, KInv
<1>2. /\ h \in UserTask /\ h \in Task
      /\ s.task_state[h] = "WAIT" /\ s.wait_queue[h] = m
  BY <1>1, FirstIsUser, UsersAreTasks
<1>3. q = wake_first(s, lockers, m)
  BY DEF wake_first
<1>4. KInv(w)
  BY <1>1, <1>2, WaitComplete
<1>5. IsWoken(w, s, h, "ERR_NO_ERROR")
  BY <1>1, <1>2, CompleteWakes
<1>. HIDE DEF w
<1>6. SystemFields(w) /\ Chains(w, lockers) /\ Inherited(w, lockers, handedOver)
  BY <1>2, <1>5, WakingInherits
<1>7. OnlyPriorities(q, w) /\ Inherited(q, lockers, handedOver)
  BY <1>2, <1>4, <1>6, RecalculationKeeps
<1>. HIDE DEF q
<1>8. KInv(q) /\ "ERR_DELETED" \in ReturnCode
  BY <1>7 DEF OnlyPriorities, ReturnCode
<1>9. KInv(r)
  BY <1>2, <1>8, ReturnCodeIsFree
<1>10. /\ r.priority = q.priority
       /\ r.base_priority = q.base_priority
       /\ r.task_state = q.task_state
       /\ r.task_wait_reason = q.task_wait_reason
       /\ r.wait_queue = q.wait_queue
       /\ r.current_running_task = q.current_running_task
       /\ r.task_wait_return_code =
             [q.task_wait_return_code EXCEPT ![h] = "ERR_DELETED"]
  OBVIOUS
<1>. HIDE DEF r
<1>11. /\ r.task_state = [s.task_state EXCEPT ![h] = "RUNNABLE"]
       /\ r.wait_queue = [s.wait_queue EXCEPT ![h] = NULL]
       /\ r.current_running_task = s.current_running_task
  BY <1>5, <1>7, <1>10 DEF OnlyPriorities, IsWoken, SamePriorities
<1>12. r.task_wait_return_code = [s.task_wait_return_code EXCEPT ![h] = "ERR_DELETED"]
  BY <1>1, <1>2, <1>5, <1>7, <1>10 DEF OnlyPriorities, IsWoken, KernelState
<1>13. SystemFields(r) /\ Chains(r, lockers)
  BY <1>6, <1>7, <1>10 DEF OnlyPriorities, SystemFields, Chains
<1>14. Inherited(r, lockers, handedOver)
  BY <1>7, <1>10 DEF Inherited
<1>15. WakesWith(r, s, h, "ERR_DELETED")
  BY <1>11, <1>12 DEF WakesWith
<1>16. Right(r, lockers, calls, handedOver)
  BY <1>2, <1>9, <1>13, <1>14, <1>15, FailedWaitIsRight
<1>. QED  BY <1>3, <1>11, <1>16 DEF r

(* do_unlock_mutex, first half: the task falls back to what the mutexes it *)
(* keeps require of it.                                                    *)
LEMMA FallsBack ==
    ASSUME NEW s, NEW lockers, NEW calls, NEW handedOver,
           Right(s, lockers, calls, handedOver),
           NEW t \in UserTask, s.task_state[t] = "RUNNABLE",
           NEW kept \in SUBSET Mutex
    PROVE  LET p == find_max_blocked_priority(s, kept, s.base_priority[t])
               r == IF p # s.priority[t] THEN change_running_task_priority(s, t, p) ELSE s
           IN  /\ OnlyPriorities(r, s)
               /\ r.priority[t] = p
               /\ \A u \in Task : u # t => r.priority[u] = s.priority[u]
               /\ p <= s.base_priority[t]
               /\ p # s.base_priority[t] => kept # {}
               /\ \A n \in kept, u \in Task :
                     s.task_state[u] = "WAIT" /\ s.wait_queue[u] = n => p <= s.priority[u]
<1>. DEFINE p == find_max_blocked_priority(s, kept, s.base_priority[t])
            r == IF p # s.priority[t] THEN change_running_task_priority(s, t, p) ELSE s
<1>1. /\ t \in Task /\ KInv(s) /\ SystemFields(s)
      /\ s.base_priority[t] \in 1 .. NUM_PRIORITY - 2
      /\ s.priority \in [Task -> Priority]
  BY UsersAreTasks DEF Right, Inherited, KInv, KernelState
<1>2. /\ p \in 1 .. NUM_PRIORITY - 2
      /\ p <= s.base_priority[t]
      /\ \A n \in kept, u \in Task :
            s.task_state[u] = "WAIT" /\ s.wait_queue[u] = n => p <= s.priority[u]
      /\ p # s.base_priority[t] => kept # {}
  BY <1>1, MaxBlocked
<1>. HIDE DEF p
<1>3. /\ OnlyPriorities(r, s)
      /\ r.priority[t] = p
      /\ \A u \in Task : u # t => r.priority[u] = s.priority[u]
  <2>1. CASE p # s.priority[t]
    <3>1. r = change_running_task_priority(s, t, p)
      BY <2>1
    <3>. HIDE DEF r
    <3>2. OnlyPriorities(r, s) /\ r.priority = [s.priority EXCEPT ![t] = p]
      BY <1>1, <1>2, <3>1, ChangePriority
    <3>. QED  BY <1>1, <3>2
  <2>2. CASE ~ (p # s.priority[t])
    BY <1>1, <2>2, NothingChanged
  <2>. QED  BY <2>1, <2>2
<1>. HIDE DEF r
<1>. QED  BY <1>2, <1>3 DEF r, p

(* ... and has nothing more to do with the mutex it gives up.              *)
LEMMA FallingBackInherits ==
    ASSUME NEW s, NEW lockers \in [Mutex -> Task \cup {NULL}], NEW calls, NEW handedOver,
           Right(s, lockers, calls, handedOver),
           NEW t \in UserTask, s.task_state[t] = "RUNNABLE",
           NEW m \in Mutex, lockers[m] = t,
           NEW kept \in SUBSET Mutex,
           \A n \in Mutex : n \in kept <=> lockers[n] = t /\ n # m,
           NEW r, OnlyPriorities(r, s),
           \A u \in Task : u # t => r.priority[u] = s.priority[u],
           r.priority[t] <= s.base_priority[t],
           r.priority[t] # s.base_priority[t] => kept # {},
           \A n \in kept, u \in Task :
              s.task_state[u] = "WAIT" /\ s.wait_queue[u] = n => r.priority[t] <= s.priority[u],
           NEW new, \A n \in Mutex : n # m => new[n] = lockers[n]
    PROVE  Inherited(r, new, handedOver \cup {m})
<1>1. \A n \in Mutex : n # m => new[n] = lockers[n]
  OBVIOUS
<1>2. /\ r.base_priority = s.base_priority /\ r.task_state = s.task_state
      /\ r.wait_queue = s.wait_queue
      /\ Chains(s, lockers) /\ Inherited(s, lockers, handedOver)
  BY DEF OnlyPriorities, Right
<1>3. ASSUME NEW u \in UserTask
      PROVE  /\ r.task_state[u] # "NONE" => r.base_priority[u] \in 1 .. NUM_PRIORITY - 2
             /\ r.priority[u] <= r.base_priority[u]
             /\ r.priority[u] # r.base_priority[u] => Holds(new, u)
  <2>1. CASE u = t
    <3>1. kept # {} => Holds(new, t)
      BY <1>1 DEF Holds
    <3>. QED  BY <1>2, <2>1, <3>1 DEF Inherited
  <2>2. CASE u # t
    <3>1. Holds(lockers, u) => Holds(new, u)
      BY <1>1, <2>2 DEF Holds
    <3>. QED  BY <1>2, <2>2, <3>1, UsersAreTasks DEF Inherited
  <2>. QED  BY <2>1, <2>2
<1>4. ASSUME NEW n \in Mutex \ (handedOver \cup {m}), NEW u \in UserTask,
             r.task_state[u] = "WAIT", r.wait_queue[u] = n
      PROVE  r.priority[new[n]] <= r.priority[u]
  <2>1. /\ s.task_state[u] = "WAIT" /\ s.wait_queue[u] = n /\ u # t /\ u \in Task
        /\ new[n] = lockers[n] /\ r.priority[u] = s.priority[u]
    BY <1>1, <1>2, <1>4, UsersAreTasks
  <2>2. lockers[n] \in Task /\ s.priority[lockers[n]] <= s.priority[u]
    BY <1>2, <1>4, <2>1, UsersAreTasks DEF Chains, Inherited
  <2>3. CASE lockers[n] = t
    BY <1>4, <2>1, <2>3
  <2>4. CASE lockers[n] # t
    BY <2>1, <2>2, <2>4
  <2>. QED  BY <2>3, <2>4
<1>. QED  BY <1>3, <1>4 DEF Inherited

(* Nobody stands in line: the mutex becomes free.                          *)
LEMMA FreeingIsRight ==
    ASSUME NEW s, NEW lockers \in [Mutex -> Task \cup {NULL}],
           NEW calls \in [Task -> Calls], NEW handedOver,
           Right(s, lockers, calls, handedOver),
           NEW t \in UserTask, s.task_state[t] = "RUNNABLE",
           NEW m \in Mutex, lockers[m] = t, s.wait_list[m] = <<>>,
           NEW r, OnlyPriorities(r, s),
           Inherited(r, [lockers EXCEPT ![m] = NULL], handedOver \cup {m})
    PROVE  Right(r, [lockers EXCEPT ![m] = NULL], [calls EXCEPT ![t] = NoCall],
                 handedOver \ {m})
<1>. DEFINE new == [lockers EXCEPT ![m] = NULL]
            now == [calls EXCEPT ![t] = NoCall]
<1>1. new[m] = NULL /\ \A n \in Mutex : n # m => new[n] = lockers[n]
  OBVIOUS
<1>2. now[t] = NoCall /\ \A u \in UserTask : u # t => now[u] = calls[u]
  BY UsersAreTasks
<1>. HIDE DEF new, now
<1>3. /\ r.base_priority = s.base_priority /\ r.task_state = s.task_state
      /\ r.wait_queue = s.wait_queue /\ r.task_wait_reason = s.task_wait_reason
      /\ r.task_wait_return_code = s.task_wait_return_code /\ KInv(r)
      /\ SystemFields(r)
      /\ Chains(s, lockers) /\ CallsMatch(s, lockers, calls)
  BY DEF OnlyPriorities, Right, SystemFields
<1>4. \A u \in Task : s.task_state[u] = "WAIT" => s.wait_queue[u] # m
  <2>1. KInv(s) /\ m \in WaitObject
    BY DEF Right, Mutex
  <2>2. \A u \in Task : u \notin Range(s.wait_list[m])
    <3>1. s.wait_list[m] \in Seq(Task)
      BY <2>1 DEF KInv, KernelState
    <3>2. Range(s.wait_list[m]) = {}
      BY <3>1, EmptyList
    <3>. QED  BY <3>2
  <2>. QED  BY <2>1, <2>2 DEF KInv, WaitListsConsistent
<1>5. \A u \in UserTask : s.task_state[u] = "WAIT" =>
        s.wait_queue[u] = NULL \/ s.wait_queue[u] \in Mutex
  BY UsersAreTasks DEF Right, KInv, KernelState, Mutex
<1>6. Chains(r, new)
  <2>1. \A n \in Mutex : new[n] # NULL =>
          new[n] \in UserTask /\ r.task_state[new[n]] \in {"RUNNABLE", "WAIT"}
    BY <1>1, <1>3 DEF Chains
  <2>2. \A u \in UserTask : r.task_state[u] = "WAIT" =>
          /\ r.task_wait_reason[u] = "MUTEX_I" <=> r.wait_queue[u] # NULL
          /\ r.wait_queue[u] # NULL => new[r.wait_queue[u]] \notin {NULL, u}
    BY <1>1, <1>3, <1>4, <1>5, UsersAreTasks DEF Chains
  <2>. QED  BY <2>1, <2>2 DEF Chains
<1>7. CallsMatch(r, new, now)
  <2>1. \A u \in UserTask : r.task_state[u] = "WAIT" =>
          now[u] = IF r.wait_queue[u] = NULL THEN NoCall ELSE <<"lock", r.wait_queue[u]>>
    BY <1>2, <1>3 DEF CallsMatch
  <2>2. \A u \in UserTask : r.task_state[u] \notin {"RUNNABLE", "WAIT"} => now[u] = NoCall
    BY <1>2, <1>3 DEF CallsMatch
  <2>3. ASSUME NEW u \in UserTask, NEW n \in Mutex, now[u] = <<"delete", n>>
        PROVE  new[n] = u
    <3>1. u # t
      BY <1>2, <2>3, LockIsNoDelete
    <3>2. calls[u] = <<"delete", n>>
      BY <1>2, <2>3, <3>1
    <3>3. lockers[n] = u
      BY <1>3, <3>2 DEF CallsMatch
    <3>. QED  BY <1>1, <3>1, <3>3
  <2>4. ASSUME NEW u \in UserTask, NEW n \in Mutex,
               now[u] = <<"lock", n>>, r.task_state[u] = "RUNNABLE"
        PROVE  r.task_wait_return_code[u] = "ERR_NO_ERROR" <=> new[n] = u
    <3>1. u # t
      BY <1>2, <2>4, LockIsNoDelete
    <3>2. calls[u] = <<"lock", n>> /\ s.task_state[u] = "RUNNABLE"
      BY <1>2, <1>3, <2>4, <3>1
    <3>3. s.task_wait_return_code[u] = "ERR_NO_ERROR" <=> lockers[n] = u
      BY <1>3, <3>2 DEF CallsMatch
    <3>. QED  BY <1>1, <1>3, <3>1, <3>3, UsersAreTasks
  <2>. QED  BY <2>1, <2>2, <2>3, <2>4 DEF CallsMatch
<1>8. Inherited(r, new, handedOver \ {m})
  <2>1. Inherited(r, new, handedOver \cup {m})
    BY DEF new
  <2>2. \A n \in Mutex \ (handedOver \ {m}), u \in UserTask :
          r.task_state[u] = "WAIT" /\ r.wait_queue[u] = n
             => n \in Mutex \ (handedOver \cup {m})
    BY <1>3, <1>4, UsersAreTasks
  <2>3. \A n \in Mutex \ (handedOver \ {m}), u \in UserTask :
          r.task_state[u] = "WAIT" /\ r.wait_queue[u] = n
             => r.priority[new[n]] <= r.priority[u]
    BY <2>1, <2>2 DEF Inherited
  <2>. QED  BY <2>1, <2>3 DEF Inherited
<1>. QED  BY <1>3, <1>6, <1>7, <1>8 DEF Right, new, now

(* The first in line is woken and has the mutex.                           *)
LEMMA HandingOverIsRight ==
    ASSUME NEW s, NEW lockers \in [Mutex -> Task \cup {NULL}],
           NEW calls \in [Task -> Calls], NEW handedOver,
           Right(s, lockers, calls, handedOver),
           NEW t \in UserTask, s.task_state[t] = "RUNNABLE",
           NEW m \in Mutex, lockers[m] = t,
           NEW h \in UserTask, s.task_state[h] = "WAIT", s.wait_queue[h] = m,
           NEW r, OnlyPriorities(r, s),
           Inherited(r, [lockers EXCEPT ![m] = h], handedOver \cup {m}),
           NEW w, KInv(w), IsWoken(w, r, h, "ERR_NO_ERROR")
    PROVE  Right(w, [lockers EXCEPT ![m] = h], [calls EXCEPT ![t] = NoCall],
                 handedOver \cup {m})
<1>. DEFINE new == [lockers EXCEPT ![m] = h]
            now == [calls EXCEPT ![t] = NoCall]
<1>1. new[m] = h /\ \A n \in Mutex : n # m => new[n] = lockers[n]
  OBVIOUS
<1>2. now[t] = NoCall /\ \A u \in UserTask : u # t => now[u] = calls[u]
  BY UsersAreTasks
<1>3. Inherited(r, new, handedOver \cup {m})
  OBVIOUS
<1>. HIDE DEF new, now
<1>4. /\ r.task_state = s.task_state
      /\ r.wait_queue = s.wait_queue /\ r.task_wait_reason = s.task_wait_reason
      /\ r.task_wait_return_code = s.task_wait_return_code
      /\ SystemFields(r) /\ r \in KernelState
      /\ Chains(s, lockers) /\ CallsMatch(s, lockers, calls)
  BY DEF OnlyPriorities, Right, SystemFields, KInv
<1>5. /\ w.priority = r.priority /\ w.base_priority = r.base_priority
      /\ w.task_state[h] = "RUNNABLE"
      /\ w.task_wait_return_code[h] = "ERR_NO_ERROR"
      /\ \A u \in Task : u # h =>
            /\ w.task_state[u] = s.task_state[u]
            /\ w.task_wait_reason[u] = s.task_wait_reason[u]
            /\ w.wait_queue[u] = s.wait_queue[u]
            /\ w.task_wait_return_code[u] = s.task_wait_return_code[u]
  <2>1. /\ r.task_state \in [Task -> TaskState]
        /\ r.task_wait_return_code \in [Task -> ReturnCode]
        /\ r.task_wait_reason \in [Task -> WaitReason]
        /\ r.wait_queue \in [Task -> WaitObject \cup {NULL}]
        /\ h \in Task
    BY <1>4, UsersAreTasks DEF KernelState
  <2>2. /\ w.task_state[h] = "RUNNABLE"
        /\ \A u \in Task : u # h => w.task_state[u] = r.task_state[u]
    BY <2>1 DEF IsWoken
  <2>3. \A u \in Task : u # h => w.task_wait_reason[u] = r.task_wait_reason[u]
    BY <2>1 DEF IsWoken
  <2>4. \A u \in Task : u # h => w.wait_queue[u] = r.wait_queue[u]
    BY <2>1 DEF IsWoken
  <2>5. /\ w.task_wait_return_code[h] = "ERR_NO_ERROR"
        /\ \A u \in Task : u # h => w.task_wait_return_code[u] = r.task_wait_return_code[u]
    BY <2>1 DEF IsWoken
  <2>. QED  BY <1>4, <2>2, <2>3, <2>4, <2>5 DEF IsWoken, SamePriorities
<1>6. h # t /\ h # NULL /\ h \in Task /\ h # timer_task /\ h # idle_task
  BY UsersAreTasks
<1>7. SystemFields(w)
  BY <1>4, <1>5, <1>6, UsersAreTasks DEF IsWoken, SamePriorities, SystemFields
<1>8. \A u \in UserTask : s.task_state[u] = "WAIT" =>
        s.wait_queue[u] = NULL \/ s.wait_queue[u] \in Mutex
  BY UsersAreTasks DEF Right, KInv, KernelState, Mutex
<1>9. Chains(w, new)
  <2>1. \A n \in Mutex : new[n] # NULL =>
          new[n] \in UserTask /\ w.task_state[new[n]] \in {"RUNNABLE", "WAIT"}
    BY <1>1, <1>4, <1>5, UsersAreTasks DEF Chains
  <2>2. ASSUME NEW u \in UserTask, w.task_state[u] = "WAIT"
        PROVE  /\ w.task_wait_reason[u] = "MUTEX_I" <=> w.wait_queue[u] # NULL
               /\ w.wait_queue[u] # NULL => new[w.wait_queue[u]] \notin {NULL, u}
    <3>1. u # h /\ u \in Task /\ s.task_state[u] = "WAIT"
      BY <1>5, <2>2, UsersAreTasks
    <3>. QED  BY <1>1, <1>4, <1>5, <1>6, <1>8, <3>1 DEF Chains
  <2>. QED  BY <2>1, <2>2 DEF Chains
<1>10. CallsMatch(w, new, now)
  <2>1. ASSUME NEW u \in UserTask, w.task_state[u] = "WAIT"
        PROVE  now[u] = IF w.wait_queue[u] = NULL THEN NoCall
                                                  ELSE <<"lock", w.wait_queue[u]>>
    <3>1. u # h /\ u \in Task
      BY <1>5, <2>1, UsersAreTasks
    <3>2. s.task_state[u] = "WAIT" /\ u # t /\ w.wait_queue[u] = s.wait_queue[u]
      BY <1>5, <2>1, <3>1
    <3>. QED  BY <1>2, <1>4, <3>2 DEF CallsMatch
  <2>2. ASSUME NEW u \in UserTask, w.task_state[u] \notin {"RUNNABLE", "WAIT"}
        PROVE  now[u] = NoCall
    <3>1. u # h /\ u \in Task
      BY <1>5, <2>2, UsersAreTasks
    <3>2. s.task_state[u] \notin {"RUNNABLE", "WAIT"}
      BY <1>5, <2>2, <3>1
    <3>. QED  BY <1>2, <1>4, <3>2 DEF CallsMatch
  <2>3. ASSUME NEW u \in UserTask, NEW n \in Mutex, now[u] = <<"delete", n>>
        PROVE  new[n] = u
    <3>1. u # t
      BY <1>2, <2>3, LockIsNoDelete
    <3>2. calls[u] = <<"delete", n>>
      BY <1>2, <2>3, <3>1
    <3>3. lockers[n] = u
      BY <1>4, <3>2 DEF CallsMatch
    <3>. QED  BY <1>1, <3>1, <3>3
  <2>4. ASSUME NEW u \in UserTask, NEW n \in Mutex,
               now[u] = <<"lock", n>>, w.task_state[u] = "RUNNABLE"
        PROVE  w.task_wait_return_code[u] = "ERR_NO_ERROR" <=> new[n] = u
    <3>1. u # t /\ u \in Task
      BY <1>2, <2>4, LockIsNoDelete, UsersAreTasks
    <3>2. calls[u] = <<"lock", n>>
      BY <1>2, <2>4, <3>1
    <3>3. CASE u = h
      <4>1. calls[h] = <<"lock", m>>
        BY <1>4, UsersAreTasks DEF CallsMatch
      <4>2. n = m
        BY <3>2, <3>3, <4>1, LockIsNoDelete
      <4>. QED  BY <1>1, <1>5, <3>3, <4>2
    <3>4. CASE u # h
      <4>1. s.task_state[u] = "RUNNABLE"
        BY <1>5, <2>4, <3>1, <3>4
      <4>2. s.task_wait_return_code[u] = "ERR_NO_ERROR" <=> lockers[n] = u
        BY <1>4, <3>2, <4>1 DEF CallsMatch
      <4>. QED  BY <1>1, <1>5, <3>1, <3>4, <4>2
    <3>. QED  BY <3>3, <3>4
  <2>. QED  BY <2>1, <2>2, <2>3, <2>4 DEF CallsMatch
<1>11. Inherited(w, new, handedOver \cup {m})
  <2>1. /\ \A u \in UserTask : w.task_state[u] # "NONE" => s.task_state[u] # "NONE"
        /\ \A u \in UserTask, n \in Mutex : w.task_state[u] = "WAIT" /\ w.wait_queue[u] = n
              => s.task_state[u] = "WAIT" /\ s.wait_queue[u] = n
    BY <1>5, UsersAreTasks
  <2>2. /\ \A u \in UserTask : w.task_state[u] # "NONE" => r.task_state[u] # "NONE"
        /\ \A u \in UserTask, n \in Mutex : w.task_state[u] = "WAIT" /\ w.wait_queue[u] = n
              => r.task_state[u] = "WAIT" /\ r.wait_queue[u] = n
    BY <1>4, <2>1
  <2>. QED  BY <1>3, <1>5, <2>2 DEF Inherited
<1>. QED  BY <1>7, <1>9, <1>10, <1>11 DEF Right, new, now

-----------------------------------------------------------------------------
(* The invariant of the system.                                            *)

QueuesMatch ==
    \A t \in Task, m \in Mutex : m \in mutex_queue[t] <=> locker[m] = t

(* Interrupts are masked across steps in the timer task's scan and after   *)
(* unlock_mutex, which is a user task's.                                   *)
MutexPlaces ==
    /\ pc[timer_task] \in {"init", "loop", "scan", "switch"}
    /\ pc[idle_task] = "run"
    /\ \A t \in UserTask :
          pc[t] \in {"run", "switch", "gone", "exit_unlock", "exit_wild"}
    /\ primask =>
          \/ k.current_running_task \in UserTask
          \/ /\ k.current_running_task = timer_task
             /\ k.task_state[timer_task] = "RUNNABLE"
             /\ pc[timer_task] = "scan"

MutexTypes ==
    /\ pc \in [Task -> {"init", "loop", "scan", "switch", "run", "gone",
                        "exit_unlock", "exit_wild"}]
    /\ cursor \in Nat \ {0}
    /\ locker \in [Mutex -> Task \cup {NULL}]
    /\ mutex_queue \in [Task -> SUBSET Mutex]
    /\ call \in [Task -> Calls]
    /\ handed \subseteq Mutex

MInv ==
    /\ MutexTypes
    /\ Right(k, locker, call, handed)
    /\ QueuesMatch
    /\ MutexPlaces
    /\ WaitingTaskOnlySwitches

(* What the two halves of do_unlock_mutex do together.                     *)
LEMMA UnlockedIsRight ==
    ASSUME MInv, NEW t \in UserTask, k.task_state[t] = "RUNNABLE",
           NEW m \in Mutex, locker[m] = t, Unlocked(t, m)
    PROVE  /\ Right(k', locker', [call EXCEPT ![t] = NoCall], handed')
           /\ QueuesMatch'
           /\ locker' \in [Mutex -> Task \cup {NULL}]
           /\ mutex_queue' \in [Task -> SUBSET Mutex]
           /\ handed' \subseteq Mutex
           /\ k'.current_running_task = k.current_running_task
           /\ \A u \in Task : k'.task_state[u] \in {k.task_state[u], "RUNNABLE"}
<1>. DEFINE kept == mutex_queue[t] \ {m}
            p == find_max_blocked_priority(k, kept, k.base_priority[t])
            r == IF p # k.priority[t] THEN change_running_task_priority(k, t, p) ELSE k
            line == r.wait_list[m]
            new == IF line = <<>> THEN NULL ELSE Head(line)
            lockers == [locker EXCEPT ![m] = new]
<1>1. /\ Right(k, locker, call, handed) /\ QueuesMatch /\ MutexTypes
      /\ locker \in [Mutex -> Task \cup {NULL}]
      /\ mutex_queue \in [Task -> SUBSET Mutex]
      /\ call \in [Task -> Calls]
      /\ t \in Task /\ t # NULL
      /\ KInv(k) /\ SystemFields(k) /\ k \in KernelState
  BY UsersAreTasks DEF MInv, MutexTypes, Right, KInv
<1>2. /\ k' = IF line = <<>> THEN r ELSE wake_first(r, lockers, m)
      /\ locker' = lockers
      /\ mutex_queue' = [u \in Task |->
             (mutex_queue[u] \ {m}) \cup (IF u = new THEN {m} ELSE {})]
      /\ handed' = IF line = <<>> THEN handed \ {m} ELSE handed \cup {m}
  BY DEF Unlocked
<1>3. kept \in SUBSET Mutex /\ \A n \in Mutex : n \in kept <=> locker[n] = t /\ n # m
  BY <1>1 DEF QueuesMatch
<1>. HIDE DEF kept
<1>4. /\ OnlyPriorities(r, k)
      /\ r.priority[t] = p
      /\ \A u \in Task : u # t => r.priority[u] = k.priority[u]
      /\ p <= k.base_priority[t]
      /\ p # k.base_priority[t] => kept # {}
      /\ \A n \in kept, u \in Task :
            k.task_state[u] = "WAIT" /\ k.wait_queue[u] = n => p <= k.priority[u]
  BY <1>1, <1>3, FallsBack
<1>. HIDE DEF r
<1>5. /\ r.priority[t] <= k.base_priority[t]
      /\ r.priority[t] # k.base_priority[t] => kept # {}
      /\ \A n \in kept, u \in Task :
            k.task_state[u] = "WAIT" /\ k.wait_queue[u] = n => r.priority[t] <= k.priority[u]
  BY <1>4
<1>. HIDE DEF p
<1>6. /\ KInv(r) /\ r \in KernelState /\ SystemFields(r)
      /\ r.task_state = k.task_state /\ r.wait_queue = k.wait_queue
      /\ r.task_wait_reason = k.task_wait_reason
      /\ r.wait_list = k.wait_list
      /\ r.current_running_task = k.current_running_task
  BY <1>1, <1>4 DEF OnlyPriorities, KInv, SystemFields
<1>7. new # t /\ new \in Task \cup {NULL}
  <2>1. CASE line = <<>>
    BY <1>1, <2>1
  <2>2. CASE line # <<>>
    BY <1>6, <2>2, FirstIsUser, UsersAreTasks
  <2>. QED  BY <2>1, <2>2
<1>. HIDE DEF line, new
<1>8. Inherited(r, lockers, handed \cup {m})
  <2>1. \A n \in Mutex : n # m => lockers[n] = locker[n]
    OBVIOUS
  <2>. HIDE DEF lockers
  <2>. QED  BY <1>1, <1>3, <1>4, <1>5, <2>1, FallingBackInherits
<1>9. lockers[m] = new /\ \A n \in Mutex : n # m => lockers[n] = locker[n]
  BY <1>1
<1>10. /\ locker' \in [Mutex -> Task \cup {NULL}]
       /\ mutex_queue' \in [Task -> SUBSET Mutex]
       /\ handed' \subseteq Mutex
  BY <1>1, <1>2, <1>7 DEF MutexTypes
<1>11. QueuesMatch'
  BY <1>1, <1>2, <1>7, <1>9, UsersAreTasks DEF QueuesMatch
<1>12. CASE line = <<>>
  <2>1. new = NULL /\ k.wait_list[m] = <<>>
    BY <1>6, <1>12 DEF new, line
  <2>2. Right(r, [locker EXCEPT ![m] = NULL], [call EXCEPT ![t] = NoCall], handed \ {m})
    BY <1>1, <1>4, <1>8, <2>1, FreeingIsRight
  <2>3. k' = r /\ handed' = handed \ {m} /\ locker' = [locker EXCEPT ![m] = NULL]
    BY <1>2, <1>12, <2>1
  <2>. QED  BY <1>6, <1>10, <1>11, <2>2, <2>3
<1>13. CASE line # <<>>
  <2>. DEFINE h == Head(line)
              w == task_wait_complete(queue_remove_element(r, h), h)
              q == RecalculatedHolder(r, w, lockers, h)
              calls == [call EXCEPT ![t] = NoCall]
  <2>1. /\ h \in UserTask /\ h \in Task
        /\ r.task_state[h] = "WAIT" /\ r.wait_queue[h] = m
    BY <1>6, <1>13, FirstIsUser, UsersAreTasks DEF line
  <2>2. k' = q /\ handed' = handed \cup {m} /\ new = h
    BY <1>2, <1>13 DEF wake_first, new, line
  <2>. HIDE DEF h
  <2>3. KInv(w)
    BY <1>6, <2>1, WaitComplete
  <2>4. IsWoken(w, r, h, "ERR_NO_ERROR")
    BY <1>6, <2>1, CompleteWakes
  <2>. HIDE DEF w
  <2>5. Right(w, lockers, calls, handed \cup {m})
    <3>1. /\ k.task_state[h] = "WAIT" /\ k.wait_queue[h] = m
          /\ Inherited(r, [locker EXCEPT ![m] = h], handed \cup {m})
      BY <1>6, <1>8, <2>1, <2>2
    <3>2. Right(w, [locker EXCEPT ![m] = h], calls, handed \cup {m})
      BY <1>1, <1>4, <2>1, <2>3, <2>4, <3>1, HandingOverIsRight
    <3>. QED  BY <2>2, <3>2
  <2>6. /\ SystemFields(w) /\ Chains(w, lockers) /\ Inherited(w, lockers, handed \cup {m})
        /\ r.task_wait_reason[h] = "MUTEX_I" => r.wait_queue[h] \in Mutex
    BY <2>1, <2>5 DEF Right
  <2>. HIDE DEF lockers
  <2>7. OnlyPriorities(q, w) /\ Inherited(q, lockers, handed \cup {m})
    BY <2>3, <2>6, RecalculationKeeps
  <2>. HIDE DEF q, calls
  <2>8. Right(q, lockers, calls, handed \cup {m})
    BY <2>5, <2>7, RaisedIsRight
  <2>9. /\ q.current_running_task = k.current_running_task
        /\ q.task_state = [k.task_state EXCEPT ![h] = "RUNNABLE"]
    BY <1>6, <2>4, <2>7 DEF OnlyPriorities, IsWoken, SamePriorities
  <2>10. \A u \in Task : q.task_state[u] \in {k.task_state[u], "RUNNABLE"}
    BY <1>1, <2>1, <2>9 DEF KernelState
  <2>11. Right(k', locker', calls, handed')
    BY <1>2, <2>2, <2>8
  <2>. QED  BY <1>10, <1>11, <2>2, <2>9, <2>10, <2>11 DEF calls
<1>. QED  BY <1>12, <1>13

(* A user task that executes its code is RUNNABLE, and so is the timer     *)
(* task.                                                                   *)
LEMMA UserRuns ==
    ASSUME MInv, ~Runaway, NEW t \in UserTask, Thread(t), pc[t] = "run"
    PROVE  k.task_state[t] = "RUNNABLE" /\ t = k.current_running_task /\ t \in Task
<1>1. t = k.current_running_task /\ (pendsv => primask) /\ t \in Task
  BY UsersAreTasks DEF Thread
<1>. QED  BY <1>1 DEF MInv, WaitingTaskOnlySwitches, Runaway

LEMMA TimerRuns ==
    ASSUME MInv, Thread(timer_task), pc[timer_task] # "switch"
    PROVE  k.task_state[timer_task] = "RUNNABLE" /\ timer_task = k.current_running_task
BY UsersAreTasks DEF MInv, WaitingTaskOnlySwitches, MutexPlaces, Thread

(* A step of a user task in a call, after which it runs on or offers the   *)
(* CPU.                                                                    *)
LEMMA CallStep ==
    ASSUME MInv, ~Runaway, NEW t \in UserTask, Thread(t), pc[t] = "run",
           Right(k', locker', call', handed'), QueuesMatch',
           locker' \in [Mutex -> Task \cup {NULL}],
           mutex_queue' \in [Task -> SUBSET Mutex],
           call' \in [Task -> Calls],
           handed' \subseteq Mutex,
           k'.current_running_task = k.current_running_task,
           \/ pc' = pc /\ k'.task_state[t] = "RUNNABLE"
           \/ pc' = [pc EXCEPT ![t] = "switch"],
           cursor' = cursor, primask' \in {primask, TRUE}, pendsv' = pendsv
    PROVE  MInv'
<1>1. /\ t = k.current_running_task /\ t \in Task
      /\ t # timer_task /\ t # idle_task
      /\ MutexTypes /\ MutexPlaces
  BY UserRuns, UsersAreTasks DEF MInv
<1>2. MutexTypes'
  BY <1>1 DEF MutexTypes
<1>3. MutexPlaces'
  BY <1>1, UsersAreTasks DEF MutexPlaces, MutexTypes
<1>4. WaitingTaskOnlySwitches'
  <2>1. CASE pc' = pc /\ k'.task_state[t] = "RUNNABLE"
    BY <1>1, <2>1 DEF WaitingTaskOnlySwitches
  <2>2. CASE pc' = [pc EXCEPT ![t] = "switch"]
    <3>1. pc'[t] = "switch"
      BY <1>1, <2>2 DEF MutexTypes
    <3>. QED  BY <1>1, <3>1 DEF WaitingTaskOnlySwitches
  <2>. QED  BY <2>1, <2>2
<1>. QED  BY <1>2, <1>3, <1>4 DEF MInv

(* Nothing of the mutexes' own changes.                                    *)
LEMMA MutexesUnchanged ==
    ASSUME MInv, UNCHANGED mutexVars
    PROVE  /\ QueuesMatch'
           /\ locker' = locker /\ mutex_queue' = mutex_queue
           /\ call' = call /\ handed' = handed
           /\ locker' \in [Mutex -> Task \cup {NULL}]
           /\ mutex_queue' \in [Task -> SUBSET Mutex]
           /\ call' \in [Task -> Calls]
           /\ handed' \subseteq Mutex
BY DEF MInv, MutexTypes, QueuesMatch, mutexVars

(* The same call, set again.                                               *)
LEMMA CallIsSame ==
    ASSUME NEW calls \in [Task -> Calls], NEW t \in UserTask, calls[t] = NoCall
    PROVE  [calls EXCEPT ![t] = NoCall] = calls
BY UsersAreTasks

LEMMA SleepKeeps ==
    ASSUME MInv, ~Runaway, NEW t \in UserTask, NEW time \in Timeout, call[t] = NoCall,
           sleep(t, time), UNCHANGED mutexVars
    PROVE  MInv'
<1>1. /\ k.task_state[t] = "RUNNABLE" /\ t = k.current_running_task /\ t \in Task
      /\ t # timer_task /\ t # idle_task
      /\ Thread(t) /\ pc[t] = "run"
      /\ k' = task_curr_to_wait_action(k, NULL, "SLEEP", time)
      /\ pc' = [pc EXCEPT ![t] = "switch"]
      /\ cursor' = cursor /\ primask' = primask /\ pendsv' = pendsv
      /\ Right(k, locker, call, handed) /\ KInv(k)
      /\ call \in [Task -> Calls]
  BY UserRuns, UsersAreTasks DEF sleep, MInv, MutexTypes, Right
<1>. DEFINE r == task_curr_to_wait_action(k, NULL, "SLEEP", time)
<1>2. /\ KInv(r)
      /\ r.current_running_task = t
      /\ r.task_state = [k.task_state EXCEPT ![t] = "WAIT"]
  <2>1. NULL \in WaitObject \cup {NULL} /\ "SLEEP" \in WaitReason
    BY DEF WaitReason
  <2>. QED  BY <1>1, <2>1, CurrToWait
<1>3. StopsFor(r, k, t, NULL, "SLEEP")
  BY <1>1, WaitStops
<1>. HIDE DEF r
<1>4. Right(r, locker, [call EXCEPT ![t] = IF NULL = NULL THEN NoCall ELSE <<"lock", NULL>>],
            handed)
  <2>. DEFINE reason == "SLEEP"
              que == NULL
  <2>1. /\ que \in Mutex \cup {NULL} /\ (reason = "MUTEX_I" <=> que # NULL)
        /\ que # NULL => /\ locker[que] \notin {NULL, t}
                         /\ k.priority[locker[que]] <= k.priority[t]
        /\ StopsFor(r, k, t, que, reason)
    BY <1>3
  <2>. HIDE DEF reason, que
  <2>2. Right(r, locker, [call EXCEPT ![t] = IF que = NULL THEN NoCall ELSE <<"lock", que>>],
              handed)
    BY <1>1, <1>2, <2>1, StopIsRight
  <2>. QED  BY <2>2 DEF que
<1>5. Right(r, locker, call, handed)
  BY <1>1, <1>4, CallIsSame
<1>6. Right(k', locker', call', handed') /\ k'.current_running_task = k.current_running_task
  BY <1>1, <1>2, <1>5, MutexesUnchanged DEF r
<1>. QED  BY <1>1, <1>6, MutexesUnchanged, CallStep

LEMMA ReturnKeeps ==
    ASSUME MInv, ~Runaway, NEW t \in UserTask, LockReturns(t)
    PROVE  MInv'
<1>1. /\ Thread(t) /\ pc[t] = "run" /\ k.task_state[t] = "RUNNABLE" /\ t \in Task
      /\ call' = [call EXCEPT ![t] = NoCall]
      /\ k' = k /\ pc' = pc /\ cursor' = cursor /\ primask' = primask /\ pendsv' = pendsv
      /\ locker' = locker /\ mutex_queue' = mutex_queue /\ handed' = handed
      /\ Right(k, locker, call, handed) /\ QueuesMatch /\ MutexTypes
  BY UserRuns DEF LockReturns, MInv, vars
<1>2. Right(k', locker', call', handed')
  BY <1>1, ReturnIsRight DEF MutexTypes
<1>3. call' \in [Task -> Calls]
  BY <1>1 DEF MutexTypes, Calls
<1>. QED  BY <1>1, <1>2, <1>3, CallStep DEF QueuesMatch, MutexTypes

LEMMA TakeKeeps ==
    ASSUME MInv, ~Runaway, NEW t \in UserTask, NEW m \in Mutex,
           Free(t), TakeFree(t, m), UNCHANGED <<vars, call>>
    PROVE  MInv'
<1>1. /\ Thread(t) /\ pc[t] = "run" /\ call[t] = NoCall
      /\ k.task_state[t] = "RUNNABLE" /\ t \in Task
      /\ locker[m] = NULL /\ locker' = [locker EXCEPT ![m] = t]
      /\ mutex_queue' = [mutex_queue EXCEPT ![t] = @ \cup {m}]
      /\ k' = k /\ pc' = pc /\ cursor' = cursor /\ primask' = primask /\ pendsv' = pendsv
      /\ call' = call /\ handed' = handed
      /\ Right(k, locker, call, handed) /\ QueuesMatch /\ MutexTypes
  BY UserRuns DEF Free, TakeFree, MInv, vars
<1>2. Right(k', locker', call', handed')
  BY <1>1, TakeIsRight DEF MutexTypes
<1>3. QueuesMatch'
  BY <1>1, UsersAreTasks DEF QueuesMatch, MutexTypes
<1>4. /\ locker' \in [Mutex -> Task \cup {NULL}]
      /\ mutex_queue' \in [Task -> SUBSET Mutex]
  BY <1>1 DEF MutexTypes
<1>. QED  BY <1>1, <1>2, <1>3, <1>4, CallStep DEF MutexTypes

LEMMA LockKeeps ==
    ASSUME MInv, ~Runaway, NEW t \in UserTask, NEW m \in Mutex,
           NEW timeout \in Timeout \cup {WAIT_INFINITE}, lock_mutex(t, m, timeout)
    PROVE  MInv'
<1>1. CASE TakeFree(t, m) /\ UNCHANGED <<k, pc, call>>
  BY <1>1, TakeKeeps DEF lock_mutex, vars
<1>2. CASE locker[m] \notin {NULL, t} /\ ~ (TakeFree(t, m) /\ UNCHANGED <<k, pc, call>>)
  <2>. DEFINE r == task_curr_to_wait_action(Inheriting(k, locker, t, m),
                                            m, "MUTEX_I", timeout)
  <2>1. /\ Thread(t) /\ pc[t] = "run" /\ call[t] = NoCall
        /\ k' = r
        /\ pc' = [pc EXCEPT ![t] = "switch"]
        /\ call' = InsideLock(call, t, m)
        /\ locker' = locker /\ mutex_queue' = mutex_queue /\ handed' = handed
        /\ cursor' = cursor /\ primask' = primask /\ pendsv' = pendsv
    BY <1>2 DEF lock_mutex, Free, Inheriting, InsideLock
  <2>2. /\ t \in Task /\ t = k.current_running_task /\ k.task_state[t] = "RUNNABLE"
        /\ Right(k, locker, call, handed) /\ QueuesMatch /\ MutexTypes
        /\ call \in [Task -> Calls]
    BY <2>1, UserRuns DEF MInv, MutexTypes
  <2>3. /\ Right(r, locker, InsideLock(call, t, m), handed)
        /\ r.current_running_task = t
        /\ r.task_state = [k.task_state EXCEPT ![t] = "WAIT"]
    <3>1. /\ t = k.current_running_task /\ k.task_state[t] = "RUNNABLE"
          /\ call \in [Task -> Calls] /\ call[t] = NoCall
          /\ locker[m] \notin {NULL, t}
          /\ Right(k, locker, call, handed)
      BY <1>2, <2>1, <2>2
    <3>. QED  BY <3>1, LockWaits
  <2>. HIDE DEF r
  <2>4. Right(k', locker', call', handed') /\ k'.current_running_task = k.current_running_task
    BY <2>1, <2>2, <2>3
  <2>5. call' \in [Task -> Calls]
    BY <2>1, <2>2 DEF Calls, InsideLock
  <2>6. QueuesMatch'
    BY <2>1, <2>2 DEF QueuesMatch
  <2>. QED  BY <2>1, <2>2, <2>4, <2>5, <2>6, CallStep DEF MutexTypes
<1>. QED  BY <1>1, <1>2 DEF lock_mutex

LEMMA UnlockKeeps ==
    ASSUME MInv, ~Runaway, NEW t \in UserTask, NEW m \in Mutex, unlock_mutex(t, m)
    PROVE  MInv'
<1>1. /\ Thread(t) /\ pc[t] = "run" /\ call[t] = NoCall
      /\ locker[m] = t /\ Unlocked(t, m)
      /\ pc' = pc /\ cursor' = cursor /\ pendsv' = pendsv /\ call' = call
      /\ primask' = TRUE
  BY DEF unlock_mutex, Free
<1>2. k.task_state[t] = "RUNNABLE" /\ t \in Task /\ call \in [Task -> Calls]
  BY <1>1, UserRuns DEF MInv, MutexTypes
<1>3. /\ Right(k', locker', [call EXCEPT ![t] = NoCall], handed')
      /\ QueuesMatch'
      /\ locker' \in [Mutex -> Task \cup {NULL}]
      /\ mutex_queue' \in [Task -> SUBSET Mutex]
      /\ handed' \subseteq Mutex
      /\ k'.current_running_task = k.current_running_task
      /\ \A u \in Task : k'.task_state[u] \in {k.task_state[u], "RUNNABLE"}
  BY <1>1, <1>2, UnlockedIsRight
<1>4. Right(k', locker', call', handed')
  BY <1>1, <1>2, <1>3, CallIsSame
<1>5. k'.task_state[t] = "RUNNABLE"
  BY <1>2, <1>3
<1>. QED  BY <1>1, <1>2, <1>3, <1>4, <1>5, CallStep

(* delete_mutex keeps on for a mutex that its caller has.                  *)
LEMMA DeletingIsRight ==
    ASSUME NEW s, NEW lockers, NEW calls \in [Task -> Calls], NEW handedOver,
           Right(s, lockers, calls, handedOver),
           NEW t \in UserTask, s.task_state[t] = "RUNNABLE",
           NEW m \in Mutex, lockers[m] = t
    PROVE  Right(s, lockers, [calls EXCEPT ![t] = <<"delete", m>>], handedOver)
<1>. DEFINE now == [calls EXCEPT ![t] = <<"delete", m>>]
<1>1. now[t] = <<"delete", m>> /\ \A u \in UserTask : u # t => now[u] = calls[u]
  BY UsersAreTasks
<1>. HIDE DEF now
<1>2. CallsMatch(s, lockers, calls)
  BY DEF Right
<1>3. \A u \in UserTask : s.task_state[u] = "WAIT" =>
        now[u] = IF s.wait_queue[u] = NULL THEN NoCall ELSE <<"lock", s.wait_queue[u]>>
  BY <1>1, <1>2 DEF CallsMatch
<1>4. \A u \in UserTask : s.task_state[u] \notin {"RUNNABLE", "WAIT"} => now[u] = NoCall
  BY <1>1, <1>2 DEF CallsMatch
<1>5. ASSUME NEW u \in UserTask, NEW n \in Mutex, now[u] = <<"delete", n>>
      PROVE  lockers[n] = u
  <2>1. CASE u = t
    BY <1>1, <1>5, <2>1, LockIsNoDelete
  <2>2. CASE u # t
    BY <1>1, <1>2, <1>5, <2>2 DEF CallsMatch
  <2>. QED  BY <2>1, <2>2
<1>6. ASSUME NEW u \in UserTask, NEW n \in Mutex,
             now[u] = <<"lock", n>>, s.task_state[u] = "RUNNABLE"
      PROVE  s.task_wait_return_code[u] = "ERR_NO_ERROR" <=> lockers[n] = u
  <2>1. u # t
    BY <1>1, <1>6, LockIsNoDelete
  <2>2. calls[u] = <<"lock", n>>
    BY <1>1, <1>6, <2>1
  <2>. QED  BY <1>2, <1>6, <2>2 DEF CallsMatch
<1>7. CallsMatch(s, lockers, now)
  BY <1>3, <1>4, <1>5, <1>6 DEF CallsMatch
<1>. QED  BY <1>7 DEF Right, now

LEMMA DeleteKeeps ==
    ASSUME MInv, ~Runaway, NEW t \in UserTask, NEW m \in Mutex, delete_mutex(t, m)
    PROVE  MInv'
<1>1. /\ Thread(t) /\ pc[t] = "run"
      /\ (call[t] = NoCall /\ locker[m] = t) \/ call[t] = <<"delete", m>>
      /\ cursor' = cursor /\ pendsv' = pendsv /\ primask' = primask
  BY DEF delete_mutex
<1>2. /\ k.task_state[t] = "RUNNABLE" /\ t \in Task /\ call \in [Task -> Calls]
      /\ Right(k, locker, call, handed) /\ KInv(k) /\ SystemFields(k) /\ k \in KernelState
      /\ QueuesMatch /\ MutexTypes
  BY <1>1, UserRuns DEF MInv, MutexTypes, Right, KInv
<1>3. locker[m] = t
  BY <1>1, <1>2 DEF Right, CallsMatch
<1>4. CASE k.wait_list[m] # <<>>
  <2>1. PICK h \in UserTask : h = Head(k.wait_list[m])
    BY <1>2, <1>4, FirstIsUser
  <2>. DEFINE r == [wake_first(k, locker, m) EXCEPT !.task_wait_return_code[h] = "ERR_DELETED"]
  <2>2. /\ k' = r
        /\ pc' = [pc EXCEPT ![t] = "switch"]
        /\ call' = [call EXCEPT ![t] = <<"delete", m>>]
        /\ locker' = locker /\ mutex_queue' = mutex_queue /\ handed' = handed
    BY <1>4, <2>1 DEF delete_mutex
  <2>3. /\ Right(r, locker, call, handed)
        /\ r.current_running_task = k.current_running_task
        /\ r.task_state = [k.task_state EXCEPT ![h] = "RUNNABLE"]
    BY <1>2, <1>4, <2>1, DeletedWaitIsRight
  <2>. HIDE DEF r
  <2>4. r.task_state[t] = "RUNNABLE"
    BY <1>2, <2>3 DEF KernelState
  <2>5. Right(r, locker, [call EXCEPT ![t] = <<"delete", m>>], handed)
    BY <1>2, <1>3, <2>3, <2>4, DeletingIsRight
  <2>6. Right(k', locker', call', handed') /\ k'.current_running_task = k.current_running_task
    BY <2>2, <2>3, <2>5
  <2>7. call' \in [Task -> Calls]
    BY <1>2, <2>2 DEF Calls
  <2>8. QueuesMatch'
    BY <1>2, <2>2 DEF QueuesMatch
  <2>. QED  BY <1>1, <1>2, <2>2, <2>6, <2>7, <2>8, CallStep DEF MutexTypes
<1>5. CASE k.wait_list[m] = <<>>
  <2>1. Unlocked(t, m) /\ call' = [call EXCEPT ![t] = NoCall] /\ pc' = pc
    BY <1>5 DEF delete_mutex
  <2>2. /\ Right(k', locker', [call EXCEPT ![t] = NoCall], handed')
        /\ QueuesMatch'
        /\ locker' \in [Mutex -> Task \cup {NULL}]
        /\ mutex_queue' \in [Task -> SUBSET Mutex]
        /\ handed' \subseteq Mutex
        /\ k'.current_running_task = k.current_running_task
        /\ \A u \in Task : k'.task_state[u] \in {k.task_state[u], "RUNNABLE"}
    BY <1>2, <1>3, <2>1, UnlockedIsRight
  <2>3. Right(k', locker', call', handed') /\ k'.task_state[t] = "RUNNABLE"
    BY <1>2, <2>1, <2>2
  <2>4. call' \in [Task -> Calls]
    BY <1>2, <2>1 DEF Calls
  <2>. QED  BY <1>1, <1>2, <2>1, <2>2, <2>3, <2>4, CallStep
<1>. QED  BY <1>4, <1>5

(* A step of the kernel alone.                                             *)
LEMMA TickKeepsMutexes ==
    ASSUME MInv, SysTick_Handler, UNCHANGED mutexVars
    PROVE  MInv'
<1>. DEFINE r == tick_int_processing(k)
<1>1. /\ Right(k, locker, call, handed) /\ KInv(k) /\ k \in KernelState /\ SystemFields(k)
      /\ k' = r /\ pc' = pc /\ cursor' = cursor /\ primask' = primask /\ pendsv' = TRUE
      /\ ~ primask
  BY DEF MInv, Right, KInv, SysTick_Handler
<1>2. KInv(r) /\ r.current_running_task = k.current_running_task
  BY <1>1, TickIntProcessing
<1>3. SystemFields(r) /\ \A t \in UserTask : SameFields(r, k, t)
  BY <1>1, TickKeeps
<1>. HIDE DEF r
<1>4. Right(r, locker, call, handed)
  BY <1>1, <1>2, <1>3, UnseenIsRight
<1>5. Right(k', locker', call', handed')
  BY <1>1, <1>4, MutexesUnchanged
<1>6. MutexTypes' /\ MutexPlaces'
  BY <1>1, MutexesUnchanged DEF MInv, MutexTypes, MutexPlaces
<1>7. WaitingTaskOnlySwitches'
  BY <1>1 DEF WaitingTaskOnlySwitches
<1>. QED  BY <1>5, <1>6, <1>7, MutexesUnchanged DEF MInv

LEMMA DispatchKeepsMutexes ==
    ASSUME MInv, PendSV_Handler, UNCHANGED mutexVars
    PROVE  MInv'
<1>. DEFINE r == [k EXCEPT !.current_running_task = k.next_task_to_run]
<1>1. /\ Right(k, locker, call, handed) /\ KInv(k) /\ SystemFields(k)
      /\ k' = r /\ pc' = pc /\ cursor' = cursor /\ primask' = primask /\ pendsv' = FALSE
      /\ ~ primask
  BY DEF MInv, Right, PendSV_Handler
<1>2. /\ KInv(r)
      /\ r.current_running_task = k.next_task_to_run
      /\ r.task_state = k.task_state
      /\ k.task_state[k.next_task_to_run] = "RUNNABLE"
  BY <1>1, DispatchNext
<1>3. SystemFields(r) /\ \A t \in UserTask : SameFields(r, k, t)
  BY <1>1 DEF SystemFields, SameFields
<1>. HIDE DEF r
<1>4. Right(r, locker, call, handed)
  BY <1>1, <1>2, <1>3, UnseenIsRight
<1>5. Right(k', locker', call', handed')
  BY <1>1, <1>4, MutexesUnchanged
<1>6. MutexTypes' /\ MutexPlaces'
  BY <1>1, MutexesUnchanged DEF MInv, MutexTypes, MutexPlaces
<1>7. WaitingTaskOnlySwitches'
  BY <1>1, <1>2 DEF WaitingTaskOnlySwitches
<1>. QED  BY <1>5, <1>6, <1>7, MutexesUnchanged DEF MInv

LEMMA SwitchKeepsMutexes ==
    ASSUME MInv, NEW t \in Task, switch_context(t), UNCHANGED mutexVars
    PROVE  MInv'
<1>1. /\ Right(k, locker, call, handed)
      /\ Thread(t) /\ pc[t] = "switch" /\ t = k.current_running_task
      /\ pc' = [pc EXCEPT ![t] = IF t = timer_task THEN "loop" ELSE "run"]
      /\ pendsv' = TRUE /\ k' = k /\ cursor' = cursor /\ primask' = primask
      /\ MutexTypes /\ MutexPlaces
  BY DEF MInv, switch_context, Thread
<1>2. MutexTypes'
  BY <1>1, MutexesUnchanged DEF MutexTypes
<1>3. MutexPlaces'
  BY <1>1, UsersAreTasks DEF MutexTypes, MutexPlaces
<1>4. WaitingTaskOnlySwitches'
  BY <1>1 DEF WaitingTaskOnlySwitches
<1>5. Right(k', locker', call', handed')
  BY <1>1, MutexesUnchanged
<1>. QED  BY <1>2, <1>3, <1>4, <1>5, MutexesUnchanged DEF MInv

LEMMA TimerInitKeepsMutexes ==
    ASSUME MInv, TimerInitDone, UNCHANGED mutexVars
    PROVE  MInv'
<1>1. /\ Right(k, locker, call, handed)
      /\ Thread(timer_task) /\ pc[timer_task] = "init"
      /\ pc' = [pc EXCEPT ![timer_task] = "loop"]
      /\ k' = k /\ cursor' = cursor /\ primask' = primask /\ pendsv' = pendsv
      /\ MutexTypes /\ MutexPlaces
  BY DEF MInv, TimerInitDone
<1>2. k.task_state[timer_task] = "RUNNABLE" /\ timer_task = k.current_running_task
  BY <1>1, TimerRuns
<1>3. MutexTypes'
  BY <1>1, MutexesUnchanged DEF MutexTypes
<1>4. MutexPlaces'
  BY <1>1, <1>2, UsersAreTasks DEF MutexTypes, MutexPlaces
<1>5. WaitingTaskOnlySwitches'
  BY <1>1, <1>2 DEF WaitingTaskOnlySwitches
<1>6. Right(k', locker', call', handed')
  BY <1>1, MutexesUnchanged
<1>. QED  BY <1>3, <1>4, <1>5, <1>6, MutexesUnchanged DEF MInv

LEMMA ScanBeginKeepsMutexes ==
    ASSUME MInv, TimerScanBegin, UNCHANGED mutexVars
    PROVE  MInv'
<1>1. /\ Right(k, locker, call, handed)
      /\ Thread(timer_task) /\ pc[timer_task] = "loop"
      /\ pc' = [pc EXCEPT ![timer_task] = "scan"]
      /\ k' = k /\ cursor' = 1 /\ primask' = TRUE /\ pendsv' = pendsv
      /\ MutexTypes /\ MutexPlaces
  BY DEF MInv, TimerScanBegin
<1>2. k.task_state[timer_task] = "RUNNABLE" /\ timer_task = k.current_running_task
  BY <1>1, TimerRuns
<1>3. MutexTypes'
  <2>1. pc' \in [Task -> {"init", "loop", "scan", "switch", "run", "gone",
                         "exit_unlock", "exit_wild"}]
    BY <1>1 DEF MutexTypes
  <2>2. cursor' \in Nat \ {0}
    BY <1>1
  <2>. QED  BY <1>1, <2>1, <2>2, MutexesUnchanged DEF MutexTypes
<1>4. MutexPlaces'
  BY <1>1, <1>2, UsersAreTasks DEF MutexTypes, MutexPlaces
<1>5. WaitingTaskOnlySwitches'
  BY <1>1, <1>2 DEF WaitingTaskOnlySwitches
<1>6. Right(k', locker', call', handed')
  BY <1>1, MutexesUnchanged
<1>. QED  BY <1>3, <1>4, <1>5, <1>6, MutexesUnchanged DEF MInv

(* A visit of the scan, which may lower the holder of a mutex back.        *)
LEMMA ScanKeepsMutexes ==
    ASSUME MInv, MutexScanStep, UNCHANGED mutexVars
    PROVE  MInv'
<1>. DEFINE t == k.waiting_timeout_tasks_list[cursor]
            v == timer_visit(k, t)
            r == RecalculatedHolder(k, v, locker, t)
<1>1. /\ Thread(timer_task) /\ pc[timer_task] = "scan"
      /\ cursor <= Len(k.waiting_timeout_tasks_list)
      /\ IF v.task_state[t] = "WAIT"
         THEN k' = v /\ cursor' = cursor + 1
         ELSE k' = r /\ cursor' = cursor
      /\ pc' = pc /\ primask' = primask /\ pendsv' = pendsv
      /\ Right(k, locker, call, handed) /\ KInv(k) /\ k \in KernelState
      /\ MutexTypes /\ MutexPlaces /\ cursor \in Nat \ {0}
  BY DEF MutexScanStep, MInv, Right, KInv, MutexTypes
<1>2. k.task_state[timer_task] = "RUNNABLE" /\ timer_task = k.current_running_task
  BY <1>1, TimerRuns
<1>3. /\ t \in UserTask /\ t \in Task /\ t # timer_task
      /\ k.task_state[t] = "WAIT"
      /\ k.tick_count[t] \in Timeout
  <2>1. k.waiting_timeout_tasks_list \in Seq(Task)
    BY <1>1 DEF KernelState
  <2>2. t \in Task /\ t \in Range(k.waiting_timeout_tasks_list)
    BY <1>1, <2>1 DEF Range
  <2>3. k.task_state[t] = "WAIT" /\ k.tick_count[t] \in Timeout
    BY <1>1, <2>2 DEF KInv, TimersConsistent
  <2>. QED  BY <1>1, <1>2, <2>2, <2>3, UsersAreTasks DEF KInv, SystemTasks
<1>. HIDE DEF t
<1>4. /\ v.task_state[t] = "WAIT" =>
            /\ Right(v, locker, call, handed)
            /\ v.current_running_task = k.current_running_task
            /\ v.task_state = k.task_state
      /\ v.task_state[t] # "WAIT" =>
            /\ Right(r, locker, call, handed)
            /\ r.current_running_task = k.current_running_task
            /\ r.task_state = [k.task_state EXCEPT ![t] = "RUNNABLE"]
  BY <1>1, <1>3, VisitIsRight
<1>. HIDE DEF v, r
<1>5. /\ Right(k', locker, call, handed)
      /\ k'.current_running_task = k.current_running_task
      /\ k'.task_state \in {k.task_state, [k.task_state EXCEPT ![t] = "RUNNABLE"]}
      /\ cursor' \in Nat \ {0}
  <2>1. CASE v.task_state[t] = "WAIT"
    BY <1>1, <1>4, <2>1
  <2>2. CASE v.task_state[t] # "WAIT"
    BY <1>1, <1>4, <2>2
  <2>. QED  BY <2>1, <2>2
<1>6. k'.task_state[timer_task] = "RUNNABLE"
  BY <1>1, <1>2, <1>3, <1>5, UsersAreTasks DEF KernelState
<1>7. Right(k', locker', call', handed')
  BY <1>5, MutexesUnchanged
<1>8. MutexTypes'
  BY <1>1, <1>5, MutexesUnchanged DEF MutexTypes
<1>9. MutexPlaces'
  BY <1>1, <1>2, <1>5, <1>6 DEF MutexPlaces
<1>10. WaitingTaskOnlySwitches'
  BY <1>2, <1>5, <1>6 DEF WaitingTaskOnlySwitches
<1>. QED  BY <1>7, <1>8, <1>9, <1>10, MutexesUnchanged DEF MInv

LEMMA TimerWaitKeepsMutexes ==
    ASSUME MInv, TimerWait, UNCHANGED mutexVars
    PROVE  MInv'
<1>. DEFINE r == task_curr_to_wait_action(k, NULL, "SLEEP", WAIT_INFINITE)
            t == timer_task
<1>1. /\ Thread(t) /\ pc[t] = "scan"
      /\ k' = r /\ pc' = [pc EXCEPT ![t] = "switch"]
      /\ primask' = FALSE /\ cursor' = cursor /\ pendsv' = pendsv
      /\ Right(k, locker, call, handed) /\ KInv(k) /\ SystemFields(k) /\ k \in KernelState
      /\ MutexTypes /\ MutexPlaces
  BY DEF TimerWait, MInv, Right, KInv
<1>2. k.task_state[t] = "RUNNABLE" /\ t = k.current_running_task
  BY <1>1, TimerRuns
<1>3. /\ KInv(r)
      /\ r.current_running_task = t
      /\ r.task_state = [k.task_state EXCEPT ![t] = "WAIT"]
  <2>1. /\ NULL \in WaitObject \cup {NULL} /\ "SLEEP" \in WaitReason
        /\ WAIT_INFINITE \in Timeout \cup {WAIT_INFINITE}
        /\ t \in Task /\ t # idle_task
    BY SystemTasksAreTasks DEF WaitReason
  <2>. HIDE DEF t
  <2>. QED  BY <1>1, <1>2, <2>1, CurrToWait
<1>4. StopsFor(r, k, t, NULL, "SLEEP")
  BY <1>1, <1>2, SystemTasksAreTasks, WaitStops
<1>. HIDE DEF r
<1>5. SystemFields(r) /\ \A u \in UserTask : SameFields(r, k, u)
  <2>1. \A u \in UserTask : u # timer_task /\ u \in Task
    BY UsersAreTasks
  <2>. QED  BY <1>1, <1>4, <2>1, SystemTasksAreTasks
            DEF StopsFor, SamePriorities, SystemFields, SameFields, KernelState
<1>6. Right(r, locker, call, handed)
  BY <1>1, <1>3, <1>5, UnseenIsRight
<1>7. Right(k', locker', call', handed')
  BY <1>1, <1>6, MutexesUnchanged
<1>8. MutexTypes'
  BY <1>1, MutexesUnchanged DEF MutexTypes
<1>9. MutexPlaces'
  BY <1>1, UsersAreTasks, SystemTasksAreTasks DEF MutexPlaces, MutexTypes
<1>10. WaitingTaskOnlySwitches'
  BY <1>1, <1>3, SystemTasksAreTasks DEF WaitingTaskOnlySwitches, MutexTypes
<1>. QED  BY <1>7, <1>8, <1>9, <1>10, MutexesUnchanged DEF MInv

(* app_init creates a task that has no mutex.                              *)
LEMMA AppInitKeepsMutexes ==
    ASSUME MInv, AppInit, UNCHANGED mutexVars
    PROVE  MInv'
<1>1. PICK t \in UserTask, p \in Priority :
         Create(timer_task, t, p, {"TASK_START_ON_CREATION"})
  BY DEF AppInit
<1>. DEFINE option == {"TASK_START_ON_CREATION"}
            r == create_task(k, t, p, option)
<1>2. /\ Thread(timer_task) /\ pc[timer_task] = "init"
      /\ k.task_state[t] = "NONE" /\ create_task_accepts(p, option)
      /\ k' = r /\ pc' = pc /\ cursor' = cursor /\ primask' = primask /\ pendsv' = pendsv
      /\ Right(k, locker, call, handed) /\ KInv(k) /\ SystemFields(k) /\ k \in KernelState
      /\ MutexTypes /\ MutexPlaces
      /\ t \in Task /\ t # timer_task
  BY <1>1, UsersAreTasks DEF Create, MInv, Right, KInv
<1>3. k.task_state[timer_task] = "RUNNABLE" /\ timer_task = k.current_running_task
  BY <1>2, TimerRuns
<1>4. p \in 1 .. NUM_PRIORITY - 2 /\ option \in SUBSET CreateOption
  <2>1. p # 0 /\ p # NUM_PRIORITY - 1
    BY <1>2 DEF create_task_accepts
  <2>. QED  BY <2>1, SizesAssumption DEF Priority, CreateOption
<1>5. /\ KInv(r)
      /\ r.current_running_task = k.current_running_task
      /\ \A x \in Task : x # t => r.task_state[x] = k.task_state[x]
  <2>. HIDE DEF option
  <2>. QED  BY <1>2, <1>4, CreateTask
<1>6. /\ r.task_state[t] = "RUNNABLE"
      /\ r.priority[t] = p
      /\ r.base_priority[t] = p
      /\ \A u \in UserTask : u # t => SameFields(r, k, u)
      /\ SystemFields(r)
  BY <1>2, CreateStarts
<1>7. ~ Holds(locker, t)
  BY <1>2, UsersAreTasks DEF Holds, Right, Chains
<1>8. call[t] = NoCall
  BY <1>2 DEF Right, CallsMatch
<1>. HIDE DEF r
<1>9. Right(r, locker, call, handed)
  <2>1. /\ r.task_state[t] \in {"RUNNABLE", "DORMANT"}
        /\ r.priority[t] = r.base_priority[t]
        /\ r.base_priority[t] \in 1 .. NUM_PRIORITY - 2
    BY <1>4, <1>6
  <2>. QED  BY <1>2, <1>5, <1>6, <1>7, <1>8, <2>1, StartOrEndIsRight
<1>10. Right(k', locker', call', handed')
  BY <1>2, <1>9, MutexesUnchanged
<1>11. MutexTypes'
  BY <1>2, MutexesUnchanged DEF MutexTypes
<1>12. MutexPlaces'
  BY <1>2, <1>3, <1>5, SystemTasksAreTasks DEF MutexPlaces
<1>13. WaitingTaskOnlySwitches'
  BY <1>2, <1>3, <1>5, SystemTasksAreTasks DEF WaitingTaskOnlySwitches
<1>. QED  BY <1>10, <1>11, <1>12, <1>13, MutexesUnchanged DEF MInv

(* A step that only takes a task out of the queue of all tasks.            *)
LEMMA ForgetsTask ==
    ASSUME NEW s, KInv(s), NEW t
    PROVE  LET r == [s EXCEPT !.all_tasks_queue = @ \ {t}, !.num_tasks = @ - 1]
           IN  /\ KInv(r)
               /\ r.current_running_task = s.current_running_task
               /\ r.task_state = s.task_state
               /\ r.priority = s.priority
               /\ r.base_priority = s.base_priority
               /\ \A u \in UserTask : SameFields(r, s, u)
               /\ SystemFields(s) => SystemFields(r)
<1>. DEFINE q == s.all_tasks_queue \ {t}
            n == s.num_tasks - 1
            r == [s EXCEPT !.all_tasks_queue = q, !.num_tasks = n]
<1>1. s \in KernelState /\ q \in SUBSET Task /\ n \in Int
  BY DEF KInv, KernelState
<1>. HIDE DEF q, n
<1>2. r \in KernelState
  BY <1>1 DEF KernelState
<1>3. /\ r.current_running_task = s.current_running_task
      /\ r.runnable_tasks_list = s.runnable_tasks_list
      /\ r.priority_ready_to_run_bitmap = s.priority_ready_to_run_bitmap
      /\ r.waiting_timeout_tasks_list = s.waiting_timeout_tasks_list
      /\ r.wait_list = s.wait_list
      /\ r.next_task_to_run = s.next_task_to_run
      /\ r.task_state = s.task_state
      /\ r.priority = s.priority
      /\ r.base_priority = s.base_priority
      /\ r.task_wait_reason = s.task_wait_reason
      /\ r.wait_queue = s.wait_queue
      /\ r.task_wait_return_code = s.task_wait_return_code
      /\ r.tick_count = s.tick_count
  OBVIOUS
<1>4. r = [s EXCEPT !.all_tasks_queue = @ \ {t}, !.num_tasks = @ - 1]
  BY DEF q, n
<1>. HIDE DEF r
<1>5. KInv(r)
  BY <1>2, <1>3 DEF KInv, Linked, Runnable, TimersConsistent, WaitListsConsistent,
                    SystemPriorities, SystemTasks, WaitFields
<1>6. (\A u \in UserTask : SameFields(r, s, u)) /\ (SystemFields(s) => SystemFields(r))
  BY <1>3 DEF SameFields, SystemFields
<1>. QED  BY <1>3, <1>4, <1>5, <1>6

(* exit_task of a task that runs masked and holds nothing.                 *)
LEMMA ExitMaskedKeepsMutexes ==
    ASSUME MInv, ~Runaway, NEW t \in UserTask, exit_task_masked(t)
    PROVE  MInv'
<1>. DEFINE d == task_set_dormant_state(task_to_non_runnable(k, t), t)
            f == [d EXCEPT !.all_tasks_queue = @ \ {t}, !.num_tasks = @ - 1]
<1>1. /\ Right(k, locker, call, handed) /\ KInv(k) /\ SystemFields(k)
      /\ MutexTypes /\ MutexPlaces /\ QueuesMatch
      /\ primask /\ Free(t) /\ mutex_queue[t] = {}
      /\ k' \in {d, f}
      /\ pc' = [pc EXCEPT ![t] = "gone"]
      /\ primask' = FALSE /\ cursor' = cursor /\ pendsv' = TRUE
      /\ UNCHANGED mutexVars
  BY DEF MInv, Right, exit_task_masked
<1>2. /\ k.task_state[t] = "RUNNABLE" /\ k.current_running_task = t
      /\ call[t] = NoCall /\ t \in Task
      /\ t # timer_task /\ t # idle_task
  BY <1>1, UserRuns, UsersAreTasks DEF Free, Thread
<1>3. k.base_priority[t] \in 1 .. NUM_PRIORITY - 2
  BY <1>1, <1>2 DEF Right, Inherited
<1>4. /\ KInv(d)
      /\ d.current_running_task = k.current_running_task
      /\ d.task_state = [k.task_state EXCEPT ![t] = "DORMANT"]
      /\ d.priority[t] = d.base_priority[t]
      /\ d.base_priority[t] = k.base_priority[t]
      /\ \A u \in UserTask : u # t => SameFields(d, k, u)
      /\ SystemFields(d)
  BY <1>1, <1>2, <1>3, ExitLeaves
<1>5. /\ KInv(f)
      /\ f.current_running_task = d.current_running_task
      /\ f.task_state = d.task_state
      /\ f.priority = d.priority
      /\ f.base_priority = d.base_priority
      /\ \A u \in UserTask : SameFields(f, d, u)
      /\ SystemFields(f)
  <2>. HIDE DEF d
  <2>. QED  BY <1>4, ForgetsTask
<1>. HIDE DEF d, f
<1>6. /\ KInv(k')
      /\ k'.current_running_task = t
      /\ k'.task_state = [k.task_state EXCEPT ![t] = "DORMANT"]
      /\ k'.priority[t] = k'.base_priority[t]
      /\ k'.base_priority[t] \in 1 .. NUM_PRIORITY - 2
      /\ \A u \in UserTask : u # t => SameFields(k', k, u)
      /\ SystemFields(k')
  <2>1. CASE k' = d
    BY <1>2, <1>3, <1>4, <2>1
  <2>2. CASE k' = f
    <3>1. \A u \in UserTask : u # t => SameFields(f, k, u)
      <4>1. \A u \in UserTask : u # t => SameFields(f, d, u) /\ SameFields(d, k, u)
        BY <1>4, <1>5
      <4>. QED  BY <4>1 DEF SameFields
    <3>2. /\ f.current_running_task = t
          /\ f.task_state = [k.task_state EXCEPT ![t] = "DORMANT"]
          /\ f.priority[t] = f.base_priority[t]
          /\ f.base_priority[t] \in 1 .. NUM_PRIORITY - 2
      BY <1>2, <1>3, <1>4, <1>5
    <3>. QED  BY <1>5, <2>2, <3>1, <3>2
  <2>. QED  BY <1>1, <2>1, <2>2
<1>7. ~ Holds(locker, t)
  BY <1>1, <1>2 DEF Holds, QueuesMatch
<1>8. k \in KernelState /\ k'.task_state[t] = "DORMANT"
  BY <1>1, <1>2, <1>6 DEF KInv, KernelState
<1>9. Right(k', locker, call, handed)
  BY <1>1, <1>2, <1>6, <1>7, <1>8, StartOrEndIsRight
<1>10. Right(k', locker', call', handed')
  BY <1>1, <1>9, MutexesUnchanged
<1>11. MutexTypes' /\ QueuesMatch'
  BY <1>1, MutexesUnchanged DEF MutexTypes, QueuesMatch
<1>12. MutexPlaces'
  BY <1>1, <1>2, UsersAreTasks DEF MutexPlaces, MutexTypes
<1>13. WaitingTaskOnlySwitches'
  BY <1>1 DEF WaitingTaskOnlySwitches
<1>. QED  BY <1>10, <1>11, <1>12, <1>13 DEF MInv

(* exit_task of a task that holds a mutex goes wild before it changes      *)
(* anything.                                                               *)
LEMMA ExitHoldingKeepsMutexes ==
    ASSUME MInv, ~Runaway, NEW t \in UserTask, exit_task_holding(t)
    PROVE  MInv'
<1>1. /\ Right(k, locker, call, handed) /\ MutexTypes /\ MutexPlaces /\ QueuesMatch
      /\ Free(t)
      /\ k' = k /\ cursor' = cursor /\ primask' = primask
      /\ UNCHANGED mutexVars
  BY DEF MInv, exit_task_holding
<1>2. PICK where \in {"exit_unlock", "exit_wild"} : pc' = [pc EXCEPT ![t] = where]
  BY DEF exit_task_holding
<1>3. /\ k.task_state[t] = "RUNNABLE" /\ k.current_running_task = t
      /\ t \in Task /\ t # timer_task /\ t # idle_task
  BY <1>1, UserRuns, UsersAreTasks DEF Free, Thread
<1>4. Right(k', locker', call', handed')
  BY <1>1, MutexesUnchanged
<1>5. MutexTypes'
  BY <1>1, <1>2, MutexesUnchanged DEF MutexTypes
<1>6. QueuesMatch'
  BY <1>1, MutexesUnchanged DEF QueuesMatch
<1>7. MutexPlaces'
  BY <1>1, <1>2, <1>3 DEF MutexPlaces, MutexTypes
<1>8. WaitingTaskOnlySwitches'
  BY <1>1, <1>3 DEF WaitingTaskOnlySwitches
<1>. QED  BY <1>4, <1>5, <1>6, <1>7, <1>8 DEF MInv

-----------------------------------------------------------------------------
(* The start, and every step.                                              *)

(* create_task, for a task that is not started.                            *)
CreatesTask(r, s, t, p) ==
    /\ r.priority = [s.priority EXCEPT ![t] = p]
    /\ r.base_priority = [s.base_priority EXCEPT ![t] = p]
    /\ r.task_wait_reason = [s.task_wait_reason EXCEPT ![t] = "NONE"]

LEMMA CreateFields ==
    ASSUME NEW s \in KernelState, NEW t \in Task, NEW p \in Priority,
           NEW option, "TASK_START_ON_CREATION" \notin option
    PROVE  LET r == create_task(s, t, p, option)
           IN  r \in KernelState /\ CreatesTask(r, s, t, p)
<1>. DEFINE r == create_task(s, t, p, option)
            base == [s.base_priority EXCEPT ![t] = p]
            b == [s EXCEPT !.base_priority = base]
            d == task_set_dormant_state(b, t)
<1>1. /\ r \in KernelState
      /\ r.task_state = [s.task_state EXCEPT ![t] = "DORMANT"]
      /\ r.priority = [s.priority EXCEPT ![t] = p]
      /\ r.wait_queue = [s.wait_queue EXCEPT ![t] = NULL]
      /\ r.tick_count = [s.tick_count EXCEPT ![t] = WAIT_INFINITE]
      /\ r.runnable_tasks_list = s.runnable_tasks_list
  BY CreateDormant
<1>2. r = [d EXCEPT !.all_tasks_queue = @ \cup {t}, !.num_tasks = @ + 1]
  BY DEF create_task
<1>. HIDE DEF r
<1>3. b.base_priority = base /\ b.task_wait_reason = s.task_wait_reason
  BY DEF KernelState
<1>. HIDE DEF b, base
<1>4. /\ d.base_priority = b.base_priority
      /\ d.task_wait_reason = [b.task_wait_reason EXCEPT ![t] = "NONE"]
  <2>1. b \in KernelState
    BY DEF b, base, KernelState
  <2>. QED  BY <2>1 DEF task_set_dormant_state, KernelState
<1>. HIDE DEF d
<1>5. r.base_priority = d.base_priority /\ r.task_wait_reason = d.task_wait_reason
  BY <1>2
<1>6. CreatesTask(r, s, t, p)
  BY <1>1, <1>3, <1>4, <1>5 DEF base, CreatesTask
<1>. QED  BY <1>1, <1>6 DEF r

(* set_task_as_runnable changes none of these fields.                      *)
LEMMA StartFields ==
    ASSUME NEW s, NEW t
    PROVE  LET r == set_task_as_runnable(s, t)
           IN  /\ r.priority = s.priority
               /\ r.base_priority = s.base_priority
               /\ r.task_wait_reason = s.task_wait_reason
BY DEF set_task_as_runnable

(* What kernel_main leaves in the fields that mutexes depend on.           *)
LEMMA KernelMainFields ==
    /\ kernel_main.task_wait_reason = [t \in Task |-> "NONE"]
    /\ \A t \in Task : kernel_main.base_priority[t] =
          IF t = idle_task THEN NUM_PRIORITY - 1 ELSE 0
    /\ \A t \in UserTask : kernel_main.priority[t] = 0
<1>. DEFINE low == NUM_PRIORITY - 1
            timer == create_task(reset_state, timer_task, 0, {"TASK_TIMER"})
            both == create_task(timer, idle_task, low, {"TASK_IDLE"})
            b == [both EXCEPT !.next_task_to_run = idle_task]
            i == set_task_as_runnable(b, idle_task)
            m == set_task_as_runnable(i, timer_task)
<1>1. /\ timer_task \in Task /\ idle_task \in Task /\ timer_task # idle_task
      /\ UserTask \subseteq Task /\ timer_task \notin UserTask /\ idle_task \notin UserTask
      /\ 0 \in Priority /\ low \in Priority
      /\ "TASK_START_ON_CREATION" \notin {"TASK_TIMER"}
      /\ "TASK_START_ON_CREATION" \notin {"TASK_IDLE"}
  BY UsersAreTasks, TasksAssumption, SystemTasksAreTasks
<1>2. kernel_main = [m EXCEPT !.current_running_task = idle_task]
  BY DEF kernel_main
<1>3. /\ reset_state \in KernelState
      /\ reset_state.priority = [t \in Task |-> 0]
      /\ reset_state.base_priority = [t \in Task |-> 0]
      /\ reset_state.task_wait_reason = [t \in Task |-> "NONE"]
  BY <1>1, SizesAssumption
     DEF reset_state, KernelState, TaskState, WaitReason, ReturnCode
<1>. HIDE DEF low, m, i, b, both, reset_state
<1>4. timer \in KernelState /\ CreatesTask(timer, reset_state, timer_task, 0)
  BY <1>1, <1>3, CreateFields
<1>. HIDE DEF timer
<1>5. CreatesTask(both, timer, idle_task, low)
  BY <1>1, <1>4, CreateFields DEF both
<1>6. /\ b.priority = both.priority
      /\ b.base_priority = both.base_priority
      /\ b.task_wait_reason = both.task_wait_reason
  BY DEF b
<1>7. /\ i.priority = b.priority
      /\ i.base_priority = b.base_priority
      /\ i.task_wait_reason = b.task_wait_reason
  BY StartFields DEF i
<1>8. /\ m.priority = i.priority
      /\ m.base_priority = i.base_priority
      /\ m.task_wait_reason = i.task_wait_reason
  BY StartFields DEF m
<1>9. /\ kernel_main.priority = both.priority
      /\ kernel_main.base_priority = both.base_priority
      /\ kernel_main.task_wait_reason = both.task_wait_reason
  BY <1>2, <1>6, <1>7, <1>8
<1>10. /\ both.task_wait_reason = [t \in Task |-> "NONE"]
       /\ \A t \in Task : both.base_priority[t] = IF t = idle_task THEN low ELSE 0
       /\ \A t \in UserTask : both.priority[t] = 0
  <2>1. /\ timer.priority = [t \in Task |-> 0]
        /\ timer.base_priority = [t \in Task |-> 0]
        /\ timer.task_wait_reason = [t \in Task |-> "NONE"]
    BY <1>1, <1>3, <1>4 DEF CreatesTask
  <2>2. both.task_wait_reason = [t \in Task |-> "NONE"]
    BY <1>1, <1>5, <2>1 DEF CreatesTask
  <2>3. \A t \in Task : both.base_priority[t] = IF t = idle_task THEN low ELSE 0
    BY <1>1, <1>5, <2>1 DEF CreatesTask
  <2>4. \A t \in UserTask : both.priority[t] = 0
    BY <1>1, <1>5, <2>1 DEF CreatesTask
  <2>. QED  BY <2>2, <2>3, <2>4
<1>. QED  BY <1>9, <1>10 DEF low

LEMMA MutexInitInvariant == MutexInit => MInv
<1>. SUFFICES ASSUME MutexInit PROVE MInv
  OBVIOUS
<1>1. /\ k = kernel_main
      /\ pc = [t \in Task |-> IF t = timer_task THEN "init" ELSE "run"]
      /\ cursor = 1 /\ primask = FALSE /\ pendsv = TRUE
      /\ locker = [m \in Mutex |-> NULL]
      /\ mutex_queue = [t \in Task |-> {}]
      /\ call = [t \in Task |-> NoCall]
      /\ handed = {}
  BY DEF MutexInit, Init
<1>2. /\ KInv(k)
      /\ \A t \in UserTask : k.task_state[t] = "NONE" /\ k.wait_queue[t] = NULL
      /\ k.wait_queue[timer_task] = NULL
  <2>1. /\ KInv(k)
        /\ \A t \in Task : k.task_state[t] = IF t \in SystemTask THEN "RUNNABLE" ELSE "NONE"
    BY <1>1, KernelMain
  <2>2. \A t \in Task : k.task_state[t] # "WAIT"
    BY <2>1
  <2>3. \A t \in UserTask : t \notin SystemTask
    BY UsersAreTasks DEF SystemTask
  <2>. QED  BY <2>1, <2>2, <2>3, UsersAreTasks DEF KInv, WaitFields
<1>3. /\ SystemFields(k)
      /\ \A t \in UserTask : k.priority[t] = 0 /\ k.base_priority[t] = 0
  <2>1. timer_task # idle_task
    BY TasksAssumption
  <2>. QED  BY <1>1, <1>2, <2>1, KernelMainFields, UsersAreTasks DEF SystemFields
<1>4. Chains(k, locker)
  BY <1>1, <1>2 DEF Chains
<1>5. CallsMatch(k, locker, call)
  <2>1. \A t \in UserTask : call[t] = NoCall
    BY <1>1, UsersAreTasks
  <2>2. \A t \in UserTask, m \in Mutex : call[t] # <<"lock", m>> /\ call[t] # <<"delete", m>>
    BY <2>1, LockIsNoDelete
  <2>. QED  BY <1>2, <2>1, <2>2 DEF CallsMatch
<1>6. Inherited(k, locker, handed)
  BY <1>2, <1>3 DEF Inherited
<1>7. MutexTypes
  BY <1>1 DEF MutexTypes, Calls
<1>8. QueuesMatch
  BY <1>1, UsersAreTasks DEF QueuesMatch
<1>9. MutexPlaces
  BY <1>1, UsersAreTasks, TasksAssumption DEF MutexPlaces
<1>10. WaitingTaskOnlySwitches
  BY <1>1 DEF WaitingTaskOnlySwitches
<1>. QED  BY <1>2, <1>3, <1>4, <1>5, <1>6, <1>7, <1>8, <1>9, <1>10 DEF MInv, Right

LEMMA MutexStepInvariant ==
    MInv /\ [MutexNext]_<<vars, mutexVars>> => MInv'
<1>. SUFFICES ASSUME MInv, [MutexNext]_<<vars, mutexVars>> PROVE MInv'
  OBVIOUS
<1>1. CASE UNCHANGED <<vars, mutexVars>>
  <2>1. /\ k' = k /\ pc' = pc /\ cursor' = cursor /\ primask' = primask /\ pendsv' = pendsv
        /\ UNCHANGED mutexVars
    BY <1>1 DEF vars
  <2>2. Right(k', locker', call', handed')
    BY <2>1, MutexesUnchanged DEF MInv
  <2>3. MutexTypes' /\ QueuesMatch'
    BY <2>1, MutexesUnchanged DEF MInv, MutexTypes
  <2>4. MutexPlaces' /\ WaitingTaskOnlySwitches'
    BY <2>1 DEF MInv, MutexPlaces, WaitingTaskOnlySwitches
  <2>. QED  BY <2>2, <2>3, <2>4 DEF MInv
<1>2. CASE ~Runaway /\ OtherStep
  <2>1. UNCHANGED mutexVars
    BY <1>2 DEF OtherStep
  <2>2. CASE SysTick_Handler
    BY <2>1, <2>2, TickKeepsMutexes
  <2>3. CASE PendSV_Handler
    BY <2>1, <2>3, DispatchKeepsMutexes
  <2>4. CASE AppInit
    BY <2>1, <2>4, AppInitKeepsMutexes
  <2>5. CASE TimerInitDone
    BY <2>1, <2>5, TimerInitKeepsMutexes
  <2>6. CASE TimerScanBegin
    BY <2>1, <2>6, ScanBeginKeepsMutexes
  <2>7. CASE MutexScanStep
    BY <2>1, <2>7, ScanKeepsMutexes
  <2>8. CASE TimerWait
    BY <2>1, <2>8, TimerWaitKeepsMutexes
  <2>9. CASE \E t \in Task : switch_context(t)
    BY <2>1, <2>9, SwitchKeepsMutexes
  <2>10. CASE \E t \in UserTask, time \in Timeout : call[t] = NoCall /\ sleep(t, time)
    BY <1>2, <2>1, <2>10, SleepKeeps
  <2>. QED  BY <1>2, <2>2, <2>3, <2>4, <2>5, <2>6, <2>7, <2>8, <2>9, <2>10 DEF OtherStep
<1>3. ASSUME ~Runaway, NEW t \in UserTask,
             LockReturns(t) \/ exit_task_masked(t) \/ exit_task_holding(t)
      PROVE  MInv'
  BY <1>3, ReturnKeeps, ExitMaskedKeepsMutexes, ExitHoldingKeepsMutexes
<1>4. ASSUME ~Runaway, NEW t \in UserTask, NEW m \in Mutex,
             \/ \E timeout \in Timeout \cup {WAIT_INFINITE} : lock_mutex(t, m, timeout)
             \/ try_lock_mutex(t, m)
             \/ unlock_mutex(t, m)
             \/ delete_mutex(t, m)
      PROVE  MInv'
  <2>1. CASE try_lock_mutex(t, m)
    BY <1>4, <2>1, TakeKeeps DEF try_lock_mutex
  <2>. QED  BY <1>4, <2>1, LockKeeps, UnlockKeeps, DeleteKeeps
<1>. QED  BY <1>1, <1>2, <1>3, <1>4 DEF MutexNext

(* The consistency of kernel, mutexes and calls holds in every state, for  *)
(* any number of tasks and mutexes: chains of waits start at a task in     *)
(* lock_mutex and end at a user task, and priorities follow them.          *)
THEOREM MutexInvariant == MutexSpec => []MInv
  BY MutexInitInvariant, MutexStepInvariant, PTL DEF MutexSpec

(* Who is in line for a mutex is a user task that waits for it.            *)
LEMMA InLine ==
    ASSUME MInv, NEW m \in Mutex, NEW t \in Range(k.wait_list[m])
    PROVE  /\ t \in UserTask
           /\ k.task_state[t] = "WAIT"
           /\ k.wait_queue[t] = m
<1>1. KInv(k) /\ SystemFields(k) /\ k \in KernelState
  BY DEF MInv, Right, KInv
<1>2. m \in WaitObject /\ m # NULL /\ k.wait_list[m] \in Seq(Task)
  BY <1>1, UsersAreTasks DEF KernelState, Mutex
<1>3. t \in Task
  BY <1>2 DEF Range
<1>4. k.task_state[t] = "WAIT" /\ k.wait_queue[t] = m
  BY <1>1, <1>2, <1>3 DEF KInv, WaitListsConsistent
<1>5. t # timer_task /\ t # idle_task
  BY <1>1, <1>2, <1>4 DEF SystemFields, KInv, SystemTasks
<1>. QED  BY <1>3, <1>4, <1>5, UsersAreTasks

(* The locker, its queue of mutexes and the line of the others agree, and  *)
(* inheritance keeps the ready lists right, whatever lock_mutex,           *)
(* unlock_mutex, delete_mutex and the timer task do to each other.         *)
THEOREM LockersAgreeWithQueues == MutexSpec => []LockersMatchQueues
<1>1. ASSUME MInv PROVE LockersMatchQueues
  <2>1. /\ KInv(k) /\ Chains(k, locker) /\ QueuesMatch /\ MutexTypes /\ k \in KernelState
        /\ locker \in [Mutex -> Task \cup {NULL}]
    BY <1>1 DEF MInv, Right, KInv, MutexTypes
  <2>2. MutexTypeOK
    BY <2>1 DEF MutexTypeOK, MutexTypes
  <2>3. ReadyListsMatchStates /\ NextIsFirstReady
    BY <2>1, KInvImplies DEF ReadyListsMatchStates, NextIsFirstReady
  <2>4. ASSUME NEW m \in Mutex PROVE locker[m] = NULL => k.wait_list[m] = <<>>
    <3>1. \A t \in Range(k.wait_list[m]) : locker[m] # NULL
      BY <1>1, <2>1, InLine, UsersAreTasks DEF Chains
    <3>2. k.wait_list[m] \in Seq(Task)
      BY <2>1 DEF KernelState, Mutex
    <3>3. k.wait_list[m] # <<>> => Head(k.wait_list[m]) \in Range(k.wait_list[m])
      BY <3>2, HeadInList
    <3>. QED  BY <3>1, <3>3
  <2>5. ASSUME NEW m \in Mutex PROVE locker[m] \notin Range(k.wait_list[m])
    <3>1. \A t \in Range(k.wait_list[m]) : locker[m] # t
      BY <1>1, <2>1, InLine, UsersAreTasks DEF Chains
    <3>. QED  BY <3>1
  <2>. QED  BY <2>1, <2>2, <2>3, <2>4, <2>5 DEF LockersMatchQueues, QueuesMatch
<1>. QED  BY <1>1, MutexInvariant, PTL

(* lock_mutex reports success exactly to the task that has the mutex.      *)
THEOREM GrantIsLock == MutexSpec => []GrantedMeansLocked
<1>1. ASSUME MInv PROVE GrantedMeansLocked
  BY <1>1 DEF MInv, Right, CallsMatch, GrantedMeansLocked
<1>. QED  BY <1>1, MutexInvariant, PTL

(* An inherited priority ends with the last mutex, however the waits for   *)
(* it ended; no task runs below the priority it was created with.          *)
THEOREM InheritanceEnds == MutexSpec => []RaisedOnlyWhileHolding
<1>1. ASSUME MInv PROVE RaisedOnlyWhileHolding
  <2>1. /\ KInv(k) /\ SystemFields(k) /\ Inherited(k, locker, handed) /\ QueuesMatch
    BY <1>1 DEF MInv, Right
  <2>2. ASSUME NEW t \in UserTask
        PROVE  /\ k.priority[t] <= k.base_priority[t]
               /\ k.priority[t] # k.base_priority[t] => mutex_queue[t] # {}
    <3>1. Holds(locker, t) => mutex_queue[t] # {}
      BY <2>1, UsersAreTasks DEF Holds, QueuesMatch
    <3>. QED  BY <2>1, <3>1 DEF Inherited
  <2>3. /\ k.priority[timer_task] = 0 /\ k.base_priority[timer_task] = 0
        /\ k.priority[idle_task] = NUM_PRIORITY - 1
        /\ k.base_priority[idle_task] = NUM_PRIORITY - 1
    BY <2>1 DEF KInv, SystemPriorities, SystemFields
  <2>4. NUM_PRIORITY - 1 <= NUM_PRIORITY - 1
    BY SizesAssumption
  <2>5. ASSUME NEW t \in Task
        PROVE  /\ k.priority[t] <= k.base_priority[t]
               /\ k.priority[t] # k.base_priority[t] => mutex_queue[t] # {}
    BY <2>2, <2>3, <2>4, <2>5, UsersAreTasks
  <2>. QED  BY <2>5 DEF RaisedOnlyWhileHolding
<1>. QED  BY <1>1, MutexInvariant, PTL

(* Priority inheritance through any chain of tasks and mutexes: the holder *)
(* of a mutex that was not handed over is as urgent as all those in line.  *)
THEOREM InheritanceReachesTheHolder == MutexSpec => []HoldersInherit
<1>1. ASSUME MInv PROVE HoldersInherit
  BY <1>1, InLine DEF MInv, Right, Inherited, HoldersInherit
<1>. QED  BY <1>1, MutexInvariant, PTL
============================================================================
