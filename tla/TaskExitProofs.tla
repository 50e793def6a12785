--------------------------- MODULE TaskExitProofs ---------------------------
(***************************************************************************)
(* What holds of the kernel although exit_task does not mask interrupts,   *)
(* for any tasks, priorities, timeouts and slices, as long as no unlinking *)
(* is disturbed half-way (the ASSUMPTION in ExitNext, which the code does  *)
(* not guarantee).  KInv does not: a bit may be set for an empty list, and *)
(* a RUNNABLE task be in none.  Sound is what is left of it.               *)
(***************************************************************************)
EXTENDS TaskExit, KernelProofs

InReadyList(s, t) == \E p \in Priority : t \in Range(s.runnable_tasks_list[p])

(* Who is linked is what the list says, and so is the next task; not every *)
(* task that could be linked is.                                           *)
Sound(s) ==
    /\ s \in KernelState
    /\ \A p \in Priority : Distinct(s.runnable_tasks_list[p])
    /\ \A t \in Task : InReadyList(s, t) => s.task_state[t] = "RUNNABLE"
    /\ Distinct(s.waiting_timeout_tasks_list)
    /\ \A t \in Range(s.waiting_timeout_tasks_list) :
          t # timer_task /\ s.task_state[t] = "WAIT" /\ s.tick_count[t] \in Timeout
    /\ s.next_task_to_run \in Task => s.task_state[s.next_task_to_run] = "RUNNABLE"

(* From r to s task t alone changes its state or its list, and the next    *)
(* task is still the same, or t, or comes from a list.                     *)
MovesOnly(s, r, t) ==
    /\ Sound(s)
    /\ s.current_running_task = r.current_running_task
    /\ \A u \in Task : u # t => s.task_state[u] = r.task_state[u]
    /\ \A u \in Task : u # t /\ InReadyList(s, u) => InReadyList(r, u)
    /\ s.next_task_to_run \in {t, r.next_task_to_run, ListHead}
          \/ InReadyList(r, s.next_task_to_run)

(* The consistent states of the kernel are sound.                          *)
LEMMA KInvIsSound ==
    ASSUME NEW s, KInv(s)
    PROVE  Sound(s)
<1>1. /\ s \in KernelState /\ Linked(s) /\ TimersConsistent(s) /\ SystemTasks(s)
  BY DEF KInv
<1>2. /\ \A p \in Priority : Distinct(s.runnable_tasks_list[p])
      /\ \A p \in Priority : \A t \in Range(s.runnable_tasks_list[p]) :
            s.task_state[t] = "RUNNABLE"
  BY <1>1 DEF Linked, ReadyOK, Runnable
<1>3. s.task_state[s.next_task_to_run] = "RUNNABLE"
  BY DispatchNext
<1>4. Range(s.waiting_timeout_tasks_list) \subseteq Task
  BY <1>1, ListElements DEF KernelState
<1>5. ASSUME NEW t \in Range(s.waiting_timeout_tasks_list)
      PROVE  t # timer_task /\ s.task_state[t] = "WAIT" /\ s.tick_count[t] \in Timeout
  <2>1. s.task_state[t] = "WAIT" /\ s.tick_count[t] \in Timeout
    BY <1>1, <1>4 DEF TimersConsistent
  <2> QED
    BY <1>1, <2>1, SystemTasksAreTasks DEF SystemTasks
<1> QED
  BY <1>1, <1>2, <1>3, <1>5 DEF Sound, InReadyList, TimersConsistent

(* A search for the next task finds a linked one, or the head of a list.   *)
LEMMA FindNext ==
    ASSUME NEW s \in KernelState
    PROVE  \E n \in Task \cup {ListHead} :
              /\ find_next_task_to_run(s) = [s EXCEPT !.next_task_to_run = n]
              /\ n = ListHead \/ InReadyList(s, n)
<1> DEFINE bitmap == s.priority_ready_to_run_bitmap
           p == IF bitmap = {} THEN 0 ELSE Min(bitmap)
           list == s.runnable_tasks_list[p]
           n == IF list = <<>> THEN ListHead ELSE Head(list)
<1>1. bitmap \in SUBSET Priority
  BY DEF KernelState
<1>2. p \in Priority
  BY <1>1, LowestBit, SystemTasksAreTasks
<1>3. list \in Seq(Task)
  BY <1>2 DEF KernelState
<1>4. n \in Task \cup {ListHead} /\ (n = ListHead \/ InReadyList(s, n))
  BY <1>2, <1>3, HeadInList DEF InReadyList
<1>5. find_next_task_to_run(s) = [s EXCEPT !.next_task_to_run = n]
  BY DEF find_next_task_to_run
<1> QED
  BY <1>4, <1>5

(* queue_remove_element unlinks task t alone.                              *)
LEMMA Unlinks ==
    ASSUME NEW s, Sound(s), NEW t \in Task
    PROVE  LET q == queue_remove_element(s, t)
           IN  /\ MovesOnly(q, s, t)
               /\ ~ InReadyList(q, t)
               /\ q.next_task_to_run = s.next_task_to_run
               /\ q.task_state = s.task_state
<1> DEFINE q == queue_remove_element(s, t)
<1>1. /\ q \in KernelState
      /\ q.runnable_tasks_list = [p \in Priority |-> Without(s.runnable_tasks_list[p], t)]
      /\ SameTasks(q, s)
      /\ q.task_state = s.task_state
      /\ q.next_task_to_run = s.next_task_to_run
  BY RemoveFacts DEF Sound
<1> HIDE DEF q
<1>2. ASSUME NEW p \in Priority
      PROVE  /\ Distinct(q.runnable_tasks_list[p])
             /\ Range(q.runnable_tasks_list[p]) = Range(s.runnable_tasks_list[p]) \ {t}
  <2>1. s.runnable_tasks_list[p] \in Seq(Task) /\ Distinct(s.runnable_tasks_list[p])
    BY DEF Sound, KernelState
  <2>2. /\ Range(Without(s.runnable_tasks_list[p], t)) = Range(s.runnable_tasks_list[p]) \ {t}
        /\ Distinct(Without(s.runnable_tasks_list[p], t))
    BY <2>1, WithoutFacts
  <2>. QED
    BY <1>1, <2>2
<1>3. \A u \in Task : InReadyList(q, u) => u # t /\ InReadyList(s, u)
  BY <1>2 DEF InReadyList
<1>4. Sound(q)
  BY <1>1, <1>2, <1>3 DEF Sound, SameTasks
<1> QED
  BY <1>1, <1>3, <1>4 DEF MovesOnly, SameTasks, q

(* task_to_non_runnable, of a task that may be linked or not: it is in no  *)
(* list afterwards, and not the next task.                                 *)
LEMMA LeavesReadyLists ==
    ASSUME NEW s, Sound(s), NEW t \in Task
    PROVE  LET u == task_to_non_runnable(s, t)
           IN  /\ MovesOnly(u, s, t)
               /\ ~ InReadyList(u, t)
               /\ u.next_task_to_run # t
               /\ u.task_state = s.task_state
               /\ u.waiting_timeout_tasks_list = s.waiting_timeout_tasks_list
<1> DEFINE q == queue_remove_element(s, t)
           p == s.priority[t]
           list == q.runnable_tasks_list[p]
           v == [q EXCEPT !.priority_ready_to_run_bitmap = @ \ {p}]
           u == task_to_non_runnable(s, t)
<1>1. /\ MovesOnly(q, s, t) /\ ~ InReadyList(q, t)
      /\ q.next_task_to_run = s.next_task_to_run
      /\ q.task_state = s.task_state
  BY Unlinks
<1>2. /\ q.waiting_timeout_tasks_list = s.waiting_timeout_tasks_list
      /\ q.current_running_task = s.current_running_task
      /\ q.tick_count = s.tick_count
  BY RemoveFacts DEF Sound, SameTasks
<1>3. Sound(q) /\ q \in KernelState /\ p \in Priority /\ list \in Seq(Task)
  BY <1>1 DEF MovesOnly, Sound, KernelState
<1>4. u = IF list = <<>> THEN find_next_task_to_run(v)
          ELSE [q EXCEPT !.next_task_to_run = IF @ = t THEN Head(list) ELSE @]
  BY DEF task_to_non_runnable
<1>5. ASSUME NEW x \in KernelState, NEW n \in Task \cup {NULL, ListHead},
             x.runnable_tasks_list = q.runnable_tasks_list,
             x.task_state = q.task_state,
             x.waiting_timeout_tasks_list = q.waiting_timeout_tasks_list,
             x.tick_count = q.tick_count,
             x.current_running_task = q.current_running_task,
             u = [x EXCEPT !.next_task_to_run = n],
             n = ListHead \/ InReadyList(q, n) \/ (n = s.next_task_to_run /\ n # t)
      PROVE  /\ MovesOnly(u, s, t)
             /\ ~ InReadyList(u, t)
             /\ u.next_task_to_run # t
             /\ u.task_state = s.task_state
             /\ u.waiting_timeout_tasks_list = s.waiting_timeout_tasks_list
  <2>. HIDE DEF q, u
  <2>1. /\ u \in KernelState
        /\ u.runnable_tasks_list = q.runnable_tasks_list
        /\ u.task_state = q.task_state
        /\ u.waiting_timeout_tasks_list = q.waiting_timeout_tasks_list
        /\ u.tick_count = q.tick_count
        /\ u.current_running_task = q.current_running_task
        /\ u.next_task_to_run = n
    BY <1>5 DEF KernelState
  <2>2. n # t
    BY <1>1, <1>5, TasksAssumption
  <2>3. n \in Task => InReadyList(q, n) \/ n = s.next_task_to_run
    BY <1>5, TasksAssumption
  <2>4. n \in Task => u.task_state[n] = "RUNNABLE"
    BY <1>1, <1>3, <2>1, <2>3 DEF Sound
  <2>5. Sound(u)
    BY <1>3, <2>1, <2>4 DEF Sound, InReadyList
  <2>6. \A y \in Task : InReadyList(u, y) => InReadyList(q, y)
    BY <2>1 DEF InReadyList
  <2>7. \A y \in Task : y # t /\ InReadyList(q, y) => InReadyList(s, y)
    BY <1>1 DEF MovesOnly
  <2>8. n \in {t, s.next_task_to_run, ListHead} \/ InReadyList(s, n)
    <3>1. InReadyList(q, n) => n \in Task
      BY <1>3, ListElements DEF InReadyList, KernelState
    <3>. QED  BY <1>5, <2>2, <2>7, <3>1
  <2>. QED
    BY <1>1, <1>2, <2>1, <2>2, <2>5, <2>6, <2>7, <2>8 DEF MovesOnly
<1>6. CASE list = <<>>
  <2>. HIDE DEF q, u, list
  <2>1. /\ v \in KernelState
        /\ v.runnable_tasks_list = q.runnable_tasks_list
        /\ v.task_state = q.task_state
        /\ v.waiting_timeout_tasks_list = q.waiting_timeout_tasks_list
        /\ v.tick_count = q.tick_count
        /\ v.current_running_task = q.current_running_task
    BY <1>3 DEF KernelState
  <2>. HIDE DEF v
  <2>2. PICK n \in Task \cup {ListHead} :
           /\ find_next_task_to_run(v) = [v EXCEPT !.next_task_to_run = n]
           /\ n = ListHead \/ InReadyList(v, n)
    BY <2>1, FindNext
  <2>3. n = ListHead \/ InReadyList(q, n)
    BY <2>1, <2>2 DEF InReadyList
  <2>4. u = [v EXCEPT !.next_task_to_run = n]
    BY <1>4, <1>6, <2>2
  <2>5. /\ MovesOnly(u, s, t)
        /\ ~ InReadyList(u, t)
        /\ u.next_task_to_run # t
        /\ u.task_state = s.task_state
        /\ u.waiting_timeout_tasks_list = s.waiting_timeout_tasks_list
    BY <1>5, <2>1, <2>3, <2>4
  <2>. QED
    BY <2>5 DEF u
<1>7. CASE list # <<>>
  <2>. DEFINE n == IF s.next_task_to_run = t THEN Head(list) ELSE s.next_task_to_run
  <2>1. Head(list) \in Task /\ InReadyList(q, Head(list))
    BY <1>3, <1>7, HeadInList DEF InReadyList
  <2>2. n \in Task \cup {NULL, ListHead}
    BY <2>1 DEF Sound, KernelState
  <2>3. InReadyList(q, n) \/ (n = s.next_task_to_run /\ n # t)
    BY <2>1
  <2>. HIDE DEF q, u, list
  <2>4. u = [q EXCEPT !.next_task_to_run = n]
    BY <1>1, <1>3, <1>4, <1>7 DEF KernelState
  <2>. HIDE DEF n
  <2>5. /\ MovesOnly(u, s, t)
        /\ ~ InReadyList(u, t)
        /\ u.next_task_to_run # t
        /\ u.task_state = s.task_state
        /\ u.waiting_timeout_tasks_list = s.waiting_timeout_tasks_list
    BY <1>3, <1>5, <2>2, <2>3, <2>4
  <2>. QED
    BY <2>5 DEF u
<1> QED
  BY <1>6, <1>7

(* The running task starts to wait, as sleep and the timer task do.        *)
LEMMA StartsToSleep ==
    ASSUME NEW s, Sound(s), NEW t \in Task, s.current_running_task = t,
           s.task_state[t] = "RUNNABLE",
           NEW timeout \in Timeout \cup {WAIT_INFINITE},
           t = timer_task => timeout = WAIT_INFINITE
    PROVE  LET w == task_curr_to_wait_action(s, NULL, "SLEEP", timeout)
           IN  /\ MovesOnly(w, s, t)
               /\ w.task_state[t] = "WAIT"
<1> DEFINE u == task_to_non_runnable(s, t)
           w == task_curr_to_wait_action(s, NULL, "SLEEP", timeout)
           tl == IF timeout = WAIT_INFINITE THEN u.waiting_timeout_tasks_list
                 ELSE InsertLast(u.waiting_timeout_tasks_list, t)
           state == [u.task_state EXCEPT ![t] = "WAIT"]
           reasons == [u.task_wait_reason EXCEPT ![t] = "SLEEP"]
           ticks == [u.tick_count EXCEPT ![t] = timeout]
<1>1. /\ MovesOnly(u, s, t)
      /\ ~ InReadyList(u, t)
      /\ u.next_task_to_run # t
      /\ u.task_state = s.task_state
      /\ u.waiting_timeout_tasks_list = s.waiting_timeout_tasks_list
  BY LeavesReadyLists
<1>2. Sound(u) /\ u \in KernelState
  BY <1>1 DEF MovesOnly, Sound
<1>3. w = [u EXCEPT !.task_state = state, !.task_wait_reason = reasons,
                    !.tick_count = ticks, !.waiting_timeout_tasks_list = tl]
  <2>1. w = [u EXCEPT
            !.task_state[t]       = "WAIT",
            !.task_wait_reason[t] = "SLEEP",
            !.tick_count[t]       = timeout,
            !.wait_queue[t]       = IF NULL = NULL THEN @ ELSE NULL,
            !.wait_list = [o \in WaitObject |->
                IF o = NULL THEN InsertLast(@[o], t) ELSE @[o]],
            !.waiting_timeout_tasks_list =
                IF timeout = WAIT_INFINITE THEN @ ELSE InsertLast(@, t)]
    BY DEF task_curr_to_wait_action
  <2>2. [o \in WaitObject |-> IF o = NULL THEN InsertLast(u.wait_list[o], t)
                               ELSE u.wait_list[o]] = u.wait_list
    BY <1>2, SystemTasksAreTasks DEF KernelState
  <2>3. [u.wait_queue EXCEPT ![t] = IF NULL = NULL THEN @ ELSE NULL] = u.wait_queue
    BY <1>2 DEF KernelState
  <2>. HIDE DEF w, u
  <2>. QED
    BY <1>2, <2>1, <2>2, <2>3 DEF KernelState
<1>4. /\ t \notin Range(u.waiting_timeout_tasks_list)
      /\ u.waiting_timeout_tasks_list \in Seq(Task)
      /\ Distinct(u.waiting_timeout_tasks_list)
      /\ Range(u.waiting_timeout_tasks_list) \subseteq Task
  <2>1. u.waiting_timeout_tasks_list \in Seq(Task)
    BY <1>2 DEF KernelState
  <2>. QED  BY <1>1, <1>2, <2>1, ListElements DEF Sound
<1>. HIDE DEF u, w
<1>5. /\ tl \in Seq(Task) /\ Distinct(tl)
      /\ Range(tl) = Range(u.waiting_timeout_tasks_list)
                       \cup (IF timeout = WAIT_INFINITE THEN {} ELSE {t})
  <2>1. /\ InsertLast(u.waiting_timeout_tasks_list, t) \in Seq(Task)
        /\ Range(InsertLast(u.waiting_timeout_tasks_list, t))
               = Range(u.waiting_timeout_tasks_list) \cup {t}
        /\ Distinct(InsertLast(u.waiting_timeout_tasks_list, t))
    BY <1>4, InsertTask
  <2>. QED  BY <1>4, <2>1
<1>6. /\ state \in [Task -> TaskState]
      /\ reasons \in [Task -> WaitReason]
      /\ ticks \in [Task -> 0 .. MaxTimeout \cup {WAIT_INFINITE}]
      /\ state[t] = "WAIT" /\ ticks[t] = timeout
      /\ \A x \in Task : x # t => state[x] = u.task_state[x] /\ ticks[x] = u.tick_count[x]
  <2>1. timeout \in 0 .. MaxTimeout \cup {WAIT_INFINITE}
    BY SizesAssumption DEF Timeout
  <2>. QED  BY <1>2, <2>1 DEF KernelState, TaskState, WaitReason
<1>. HIDE DEF tl, state, reasons, ticks
<1>7. /\ w \in KernelState
      /\ w.runnable_tasks_list = u.runnable_tasks_list
      /\ w.waiting_timeout_tasks_list = tl
      /\ w.task_state = state
      /\ w.tick_count = ticks
      /\ w.next_task_to_run = u.next_task_to_run
      /\ w.current_running_task = u.current_running_task
  BY <1>2, <1>3, <1>5, <1>6 DEF KernelState
<1>8. \A x \in Task : InReadyList(w, x) <=> InReadyList(u, x)
  BY <1>7 DEF InReadyList
<1>9. Sound(w)
  <2>1. \A p \in Priority : Distinct(w.runnable_tasks_list[p])
    BY <1>2, <1>7 DEF Sound
  <2>2. \A x \in Task : InReadyList(w, x) => w.task_state[x] = "RUNNABLE"
    BY <1>1, <1>2, <1>6, <1>7, <1>8 DEF Sound
  <2>3. \A x \in Range(tl) :
          x # timer_task /\ w.task_state[x] = "WAIT" /\ w.tick_count[x] \in Timeout
    <3>1. ASSUME NEW x \in Range(u.waiting_timeout_tasks_list)
          PROVE  x # timer_task /\ w.task_state[x] = "WAIT" /\ w.tick_count[x] \in Timeout
      BY <1>2, <1>4, <1>6, <1>7 DEF Sound
    <3>2. ASSUME timeout # WAIT_INFINITE
          PROVE  t # timer_task /\ w.task_state[t] = "WAIT" /\ w.tick_count[t] \in Timeout
      BY <1>6, <1>7, <3>2
    <3>. QED  BY <1>5, <3>1, <3>2
  <2>4. w.next_task_to_run \in Task => w.task_state[w.next_task_to_run] = "RUNNABLE"
    BY <1>1, <1>2, <1>6, <1>7 DEF Sound
  <2>. QED  BY <1>5, <1>7, <2>1, <2>2, <2>3, <2>4 DEF Sound
<1> QED
  BY <1>1, <1>6, <1>7, <1>8, <1>9 DEF MovesOnly, w

(* set_task_as_runnable, of a task in no list.                             *)
LEMMA Links ==
    ASSUME NEW s, Sound(s), NEW t \in Task, ~ InReadyList(s, t),
           t \notin Range(s.waiting_timeout_tasks_list)
    PROVE  LET w == set_task_as_runnable(s, t)
           IN  /\ MovesOnly(w, s, t)
               /\ w.task_state[t] = "RUNNABLE"
               /\ w.tick_count = s.tick_count
<1> DEFINE w == set_task_as_runnable(s, t)
           p == s.priority[t]
           rl == [s.runnable_tasks_list EXCEPT ![p] = InsertLast(@, t)]
<1>1. /\ w \in KernelState
      /\ w.runnable_tasks_list = rl
      /\ w.task_state = [s.task_state EXCEPT ![t] = "RUNNABLE"]
      /\ SameTasks(w, s)
  BY SetRunnableEffect DEF Sound
<1>2. w.next_task_to_run \in {t, s.next_task_to_run}
  <2>1. w.next_task_to_run = IF p < s.priority[s.next_task_to_run] THEN t
                             ELSE s.next_task_to_run
    BY DEF set_task_as_runnable, Sound, KernelState
  <2>. QED  BY <2>1
<1>. HIDE DEF w
<1>3. /\ p \in Priority /\ s.runnable_tasks_list \in [Priority -> Seq(Task)]
      /\ s.task_state \in [Task -> TaskState]
  BY DEF Sound, KernelState
<1>4. ASSUME NEW q \in Priority
      PROVE  /\ Distinct(rl[q])
             /\ Range(rl[q]) \subseteq Range(s.runnable_tasks_list[q]) \cup {t}
  <2>1. /\ Distinct(InsertLast(s.runnable_tasks_list[p], t))
        /\ Range(InsertLast(s.runnable_tasks_list[p], t))
              = Range(s.runnable_tasks_list[p]) \cup {t}
    <3>1. /\ s.runnable_tasks_list[p] \in Seq(Task)
          /\ Distinct(s.runnable_tasks_list[p])
          /\ t \notin Range(s.runnable_tasks_list[p])
      BY <1>3 DEF Sound, InReadyList
    <3>. HIDE DEF p
    <3>. QED  BY <3>1, InsertTask
  <2>2. Distinct(s.runnable_tasks_list[q])
    BY DEF Sound
  <2>. QED  BY <1>3, <2>1, <2>2
<1>. HIDE DEF rl
<1>5. \A x \in Task : InReadyList(w, x) => x = t \/ InReadyList(s, x)
  BY <1>1, <1>4 DEF InReadyList
<1>6. /\ \A x \in Task : w.task_state[x] = IF x = t THEN "RUNNABLE" ELSE s.task_state[x]
  BY <1>1, <1>3
<1>7. Sound(w)
  <2>1. \A x \in Range(w.waiting_timeout_tasks_list) :
          x # timer_task /\ w.task_state[x] = "WAIT" /\ w.tick_count[x] \in Timeout
    <3>1. Range(s.waiting_timeout_tasks_list) \subseteq Task
      BY ListElements DEF Sound, KernelState
    <3>. QED  BY <1>1, <1>6, <3>1 DEF Sound, SameTasks
  <2>2. \A x \in Task : InReadyList(w, x) => w.task_state[x] = "RUNNABLE"
    BY <1>5, <1>6 DEF Sound
  <2>3. w.next_task_to_run \in Task => w.task_state[w.next_task_to_run] = "RUNNABLE"
    BY <1>2, <1>6 DEF Sound
  <2>. QED  BY <1>1, <1>4, <2>1, <2>2, <2>3 DEF Sound, SameTasks
<1> QED
  BY <1>1, <1>2, <1>5, <1>6, <1>7 DEF MovesOnly, SameTasks, w

LEMMA MovesOnlyTwice ==
    ASSUME NEW s \in KernelState, NEW t, NEW u, MovesOnly(u, s, t),
           NEW w, MovesOnly(w, u, t)
    PROVE  MovesOnly(w, s, t)
<1>1. \A n : InReadyList(u, n) => n \in Task
  BY ListElements DEF MovesOnly, Sound, KernelState, InReadyList
<1>2. w.next_task_to_run \in {t, s.next_task_to_run, ListHead}
         \/ InReadyList(s, w.next_task_to_run)
  BY <1>1 DEF MovesOnly
<1> QED
  BY <1>2 DEF MovesOnly

(* create_task fills in an unused TCB, and links it if it is to start.     *)
LEMMA CreatesOne ==
    ASSUME NEW s, Sound(s), NEW t \in UserTask, s.task_state[t] = "NONE",
           NEW p \in Priority, NEW option
    PROVE  LET c == create_task(s, t, p, option)
           IN  /\ MovesOnly(c, s, t)
               /\ c.task_state[t] \in {"RUNNABLE", "DORMANT"}
<1> DEFINE c == create_task(s, t, p, option)
           d == create_task(s, t, p, {})
           w == set_task_as_runnable(d, t)
<1>1. t \in Task /\ t # timer_task /\ s \in KernelState
  BY TasksAssumption DEF Task, Sound
<1>2. /\ d \in KernelState
      /\ d.task_state = [s.task_state EXCEPT ![t] = "DORMANT"]
      /\ d.tick_count = [s.tick_count EXCEPT ![t] = WAIT_INFINITE]
      /\ d.runnable_tasks_list = s.runnable_tasks_list
      /\ d.next_task_to_run = s.next_task_to_run
      /\ d.current_running_task = s.current_running_task
      /\ d.waiting_timeout_tasks_list = s.waiting_timeout_tasks_list
  <2>. DEFINE state == [s.task_state EXCEPT ![t] = "DORMANT"]
              prio == [s.priority EXCEPT ![t] = p]
              queues == [s.wait_queue EXCEPT ![t] = NULL]
              ticks == [s.tick_count EXCEPT ![t] = WAIT_INFINITE]
  <2>. HIDE DEF state, prio, queues, ticks
  <2>1. /\ d \in KernelState
        /\ d.task_state = state
        /\ d.priority = prio
        /\ d.wait_queue = queues
        /\ d.tick_count = ticks
        /\ d.runnable_tasks_list = s.runnable_tasks_list
        /\ d.priority_ready_to_run_bitmap = s.priority_ready_to_run_bitmap
        /\ d.next_task_to_run = s.next_task_to_run
        /\ d.current_running_task = s.current_running_task
        /\ d.waiting_timeout_tasks_list = s.waiting_timeout_tasks_list
        /\ d.wait_list = s.wait_list
    BY <1>1, CreateDormant DEF state, prio, queues, ticks
  <2>. QED  BY <2>1 DEF state, ticks
<1>3. ~ InReadyList(s, t) /\ t \notin Range(s.waiting_timeout_tasks_list)
  BY <1>1 DEF Sound
<1>4. c = IF "TASK_START_ON_CREATION" \in option THEN w ELSE d
  BY DEF create_task
<1>. HIDE DEF d, c
<1>5. \A x \in Task :
         /\ d.task_state[x] = IF x = t THEN "DORMANT" ELSE s.task_state[x]
         /\ x # t => d.tick_count[x] = s.tick_count[x]
  BY <1>1, <1>2 DEF KernelState
<1>6. \A x : InReadyList(d, x) <=> InReadyList(s, x)
  BY <1>2 DEF InReadyList
<1>7. MovesOnly(d, s, t)
  <2>1. Range(s.waiting_timeout_tasks_list) \subseteq Task
    BY <1>1, ListElements DEF KernelState
  <2>2. \A x \in Range(d.waiting_timeout_tasks_list) :
          x # timer_task /\ d.task_state[x] = "WAIT" /\ d.tick_count[x] \in Timeout
    BY <1>2, <1>3, <1>5, <2>1 DEF Sound
  <2>3. \A x \in Task : InReadyList(d, x) => d.task_state[x] = "RUNNABLE"
    BY <1>3, <1>5, <1>6 DEF Sound
  <2>4. d.next_task_to_run \in Task => d.task_state[d.next_task_to_run] = "RUNNABLE"
    BY <1>1, <1>2, <1>5 DEF Sound
  <2>5. Sound(d)
    BY <1>2, <2>2, <2>3, <2>4 DEF Sound
  <2>. QED  BY <1>2, <1>5, <1>6, <2>5 DEF MovesOnly
<1>8. /\ MovesOnly(w, d, t)
      /\ w.task_state[t] = "RUNNABLE"
  BY <1>1, <1>2, <1>3, <1>6, <1>7, Links DEF MovesOnly
<1>9. MovesOnly(w, s, t)
  BY <1>1, <1>7, <1>8, MovesOnlyTwice
<1> QED
  BY <1>1, <1>4, <1>5, <1>7, <1>8, <1>9 DEF c

(* The scan visits an element of the list of timeouts.                     *)
LEMMA Visits ==
    ASSUME NEW s, Sound(s), NEW t \in Range(s.waiting_timeout_tasks_list)
    PROVE  MovesOnly(timer_visit(s, t), s, t)
<1> DEFINE v == timer_visit(s, t)
           ticks == [s.tick_count EXCEPT ![t] = @ - 1]
           ticked == [s EXCEPT !.tick_count[t] = @ - 1]
           q == queue_remove_element(ticked, t)
           c == [q EXCEPT
                    !.waiting_timeout_tasks_list =
                        IF q.tick_count[t] = WAIT_INFINITE THEN @ ELSE Without(@, t),
                    !.tick_count[t]              = WAIT_INFINITE,
                    !.task_wait_return_code[t]   = "ERR_NO_ERROR"]
           w == set_task_as_runnable(c, t)
<1>1. /\ s \in KernelState /\ t \in Task /\ t # timer_task
      /\ s.task_state[t] = "WAIT" /\ s.tick_count[t] \in Timeout
      /\ s.waiting_timeout_tasks_list \in Seq(Task)
      /\ Distinct(s.waiting_timeout_tasks_list)
      /\ Range(s.waiting_timeout_tasks_list) \subseteq Task
  <2>1. s.waiting_timeout_tasks_list \in Seq(Task)
    BY DEF Sound, KernelState
  <2>. QED  BY <2>1, ListElements DEF Sound
<1>2. /\ s.tick_count[t] # WAIT_INFINITE /\ s.tick_count[t] # 0
      /\ s.tick_count[t] \in Int
      /\ s.tick_count[t] - 1 \in 0 .. MaxTimeout
      /\ s.tick_count[t] - 1 # WAIT_INFINITE
  BY <1>1, SizesAssumption, SystemTasksAreTasks DEF Timeout
<1>3. /\ ticked = [s EXCEPT !.tick_count = ticks]
      /\ ticked \in KernelState
      /\ ticked.tick_count = ticks
      /\ ticks \in [Task -> 0 .. MaxTimeout \cup {WAIT_INFINITE}]
      /\ ticks[t] = s.tick_count[t] - 1
      /\ \A x \in Task : x # t => ticks[x] = s.tick_count[x]
      /\ ticked.runnable_tasks_list = s.runnable_tasks_list
      /\ ticked.waiting_timeout_tasks_list = s.waiting_timeout_tasks_list
      /\ ticked.task_state = s.task_state
      /\ ticked.current_running_task = s.current_running_task
      /\ ticked.next_task_to_run = s.next_task_to_run
  BY <1>1, <1>2 DEF KernelState
<1>4. v = IF s.tick_count[t] > 1 THEN ticked
          ELSE [task_wait_complete(q, t) EXCEPT !.task_wait_return_code[t] = "ERR_TIMEOUT"]
  BY <1>2 DEF timer_visit
<1>. HIDE DEF ticks, ticked, v
<1>5. CASE s.tick_count[t] > 1
  <2>1. Sound(ticked)
    <3>1. ticks[t] \in Timeout
      BY <1>2, <1>3, <1>5, SizesAssumption DEF Timeout
    <3>2. \A x \in Range(s.waiting_timeout_tasks_list) : ticks[x] \in Timeout
      BY <1>1, <1>3, <3>1 DEF Sound
    <3>. QED  BY <1>3, <3>2 DEF Sound, InReadyList
  <2>. QED
    BY <1>3, <1>4, <1>5, <2>1 DEF MovesOnly, InReadyList, v
<1>6. CASE ~ (s.tick_count[t] > 1)
  <2>1. ~ InReadyList(s, t)
    BY <1>1 DEF Sound
  <2>2. /\ q \in KernelState
        /\ q.runnable_tasks_list = s.runnable_tasks_list
        /\ q.waiting_timeout_tasks_list = s.waiting_timeout_tasks_list
        /\ q.tick_count = ticks
        /\ q.task_state = s.task_state
        /\ q.current_running_task = s.current_running_task
        /\ q.next_task_to_run = s.next_task_to_run
    BY <1>1, <1>3, <2>1, RemoveFacts DEF InReadyList, SameTasks
  <2>. HIDE DEF q
  <2>. DEFINE tl == Without(s.waiting_timeout_tasks_list, t)
              inf == [ticks EXCEPT ![t] = WAIT_INFINITE]
              codes == [q.task_wait_return_code EXCEPT ![t] = "ERR_NO_ERROR"]
  <2>3. /\ tl \in Seq(Task) /\ Distinct(tl)
        /\ Range(tl) = Range(s.waiting_timeout_tasks_list) \ {t}
    BY <1>1, WithoutFacts
  <2>4. c = [q EXCEPT !.waiting_timeout_tasks_list = tl, !.tick_count = inf,
                      !.task_wait_return_code = codes]
    BY <1>2, <1>3, <2>2 DEF KernelState
  <2>5. /\ inf \in [Task -> 0 .. MaxTimeout \cup {WAIT_INFINITE}]
        /\ codes \in [Task -> ReturnCode]
        /\ \A x \in Task : x # t => inf[x] = s.tick_count[x]
    BY <1>3, <2>2 DEF KernelState, ReturnCode
  <2>6. task_wait_complete(q, t) = [w EXCEPT !.task_wait_reason[t] = "NONE"]
    BY DEF task_wait_complete
  <2>. HIDE DEF tl, inf, codes, c
  <2>7. /\ c \in KernelState
        /\ c.runnable_tasks_list = s.runnable_tasks_list
        /\ c.waiting_timeout_tasks_list = tl
        /\ c.tick_count = inf
        /\ c.task_state = s.task_state
        /\ c.current_running_task = s.current_running_task
        /\ c.next_task_to_run = s.next_task_to_run
    BY <2>2, <2>3, <2>4, <2>5 DEF KernelState
  <2>8. MovesOnly(c, s, t)
    <3>1. \A x : InReadyList(c, x) <=> InReadyList(s, x)
      BY <2>7 DEF InReadyList
    <3>2. Sound(c)
      BY <1>1, <2>3, <2>5, <2>7, <3>1 DEF Sound
    <3>. QED  BY <2>7, <3>1, <3>2 DEF MovesOnly
  <2>9. MovesOnly(w, c, t)
    <3>1. ~ InReadyList(c, t) /\ t \notin Range(c.waiting_timeout_tasks_list)
      BY <2>1, <2>3, <2>7 DEF InReadyList
    <3>. QED  BY <1>1, <2>8, <3>1, Links DEF MovesOnly
  <2>10. MovesOnly(w, s, t)
    BY <1>1, <2>8, <2>9, MovesOnlyTwice
  <2>. DEFINE reasons == [w.task_wait_reason EXCEPT ![t] = "NONE"]
              late == [w.task_wait_return_code EXCEPT ![t] = "ERR_TIMEOUT"]
  <2>11. w \in KernelState
    BY <2>10 DEF MovesOnly, Sound
  <2>. HIDE DEF w
  <2>12. v = [w EXCEPT !.task_wait_reason = reasons, !.task_wait_return_code = late]
    BY <1>4, <1>6, <2>6, <2>11 DEF KernelState
  <2>13. reasons \in [Task -> WaitReason] /\ late \in [Task -> ReturnCode]
    BY <2>11 DEF KernelState, WaitReason, ReturnCode
  <2>. HIDE DEF reasons, late
  <2>14. /\ v \in KernelState
         /\ v.runnable_tasks_list = w.runnable_tasks_list
         /\ v.waiting_timeout_tasks_list = w.waiting_timeout_tasks_list
         /\ v.tick_count = w.tick_count
         /\ v.task_state = w.task_state
         /\ v.current_running_task = w.current_running_task
         /\ v.next_task_to_run = w.next_task_to_run
    BY <2>11, <2>12, <2>13 DEF KernelState
  <2>. QED
    BY <2>10, <2>14 DEF MovesOnly, Sound, InReadyList, v
<1> QED
  BY <1>5, <1>6

(* A tick, whatever task it interrupts.                                    *)
LEMMA Ticks ==
    ASSUME NEW s, Sound(s), s.current_running_task \in Task
    PROVE  LET w == tick_int_processing(s)
           IN  /\ MovesOnly(w, s, timer_task)
               /\ w.task_state[timer_task] = "RUNNABLE"
<1> DEFINE r == round_robin(s)
           q == queue_remove_element(r, timer_task)
           w == tick_int_processing(s)
           t == s.current_running_task
           p == s.priority[t]
           ticks == s.time_slice_count[t] + 1
           list == s.runnable_tasks_list[p]
<1>1. /\ s \in KernelState /\ t \in Task /\ p \in Priority /\ list \in Seq(Task)
      /\ s.time_slice_count \in [Task -> Nat]
      /\ Distinct(list)
      /\ timer_task \in Task
      /\ s.runnable_tasks_list \in [Priority -> Seq(Task)]
  BY SystemTasksAreTasks DEF Sound, KernelState
<1>2. \E slices \in [Task -> Nat], rl \in [Priority -> Seq(Task)] :
         /\ r = [s EXCEPT !.time_slice_count = slices, !.runnable_tasks_list = rl]
         /\ \A x \in Priority :
               /\ Distinct(rl[x])
               /\ Range(rl[x]) = Range(s.runnable_tasks_list[x])
  <2>. DEFINE turned == [s.runnable_tasks_list EXCEPT ![p] = HeadToTail(@)]
              counted == [s.time_slice_count EXCEPT ![t] = ticks]
              reset == [s.time_slice_count EXCEPT ![t] = 0]
  <2>1. \A x \in Priority : Distinct(s.runnable_tasks_list[x])
    BY DEF Sound
  <2>2. CASE time_slice_ticks[p] = NO_TIME_SLICE
    <3>1. r = [s EXCEPT !.time_slice_count = s.time_slice_count,
                        !.runnable_tasks_list = s.runnable_tasks_list]
      BY <1>1, <2>2 DEF round_robin, KernelState
    <3>. QED  BY <1>1, <2>1, <3>1
  <2>3. CASE time_slice_ticks[p] # NO_TIME_SLICE /\ ticks <= time_slice_ticks[p]
    <3>1. r = [s EXCEPT !.time_slice_count = counted,
                        !.runnable_tasks_list = s.runnable_tasks_list]
      BY <1>1, <2>3 DEF round_robin, KernelState
    <3>2. counted \in [Task -> Nat]
      BY <1>1
    <3>. QED  BY <1>1, <2>1, <3>1, <3>2
  <2>4. CASE time_slice_ticks[p] # NO_TIME_SLICE /\ ~(ticks <= time_slice_ticks[p])
    <3>1. reset \in [Task -> Nat]
      BY <1>1
    <3>2. CASE ~(Len(list) > 1)
      <4>1. r = [s EXCEPT !.time_slice_count = reset,
                          !.runnable_tasks_list = s.runnable_tasks_list]
        BY <1>1, <2>4, <3>2 DEF round_robin, KernelState
      <4>. QED  BY <1>1, <2>1, <3>1, <4>1
    <3>3. CASE Len(list) > 1
      <4>1. r = [s EXCEPT !.time_slice_count = reset, !.runnable_tasks_list = turned]
        BY <1>1, <2>4, <3>3 DEF round_robin, KernelState
      <4>2. /\ HeadToTail(list) \in Seq(Task)
            /\ Range(HeadToTail(list)) = Range(list)
            /\ Distinct(HeadToTail(list))
        <5>1. list # <<>>
          BY <1>1, <3>3
        <5>. QED  BY <1>1, <5>1, HeadToTailFacts
      <4>3. turned \in [Priority -> Seq(Task)]
        BY <1>1, <4>2
      <4>. QED  BY <1>1, <2>1, <3>1, <4>1, <4>2, <4>3
    <3>. QED  BY <3>2, <3>3
  <2>. QED  BY <2>2, <2>3, <2>4
<1>3. PICK slices \in [Task -> Nat], rl \in [Priority -> Seq(Task)] :
         /\ r = [s EXCEPT !.time_slice_count = slices, !.runnable_tasks_list = rl]
         /\ \A x \in Priority :
               /\ Distinct(rl[x])
               /\ Range(rl[x]) = Range(s.runnable_tasks_list[x])
  BY <1>2
<1>4. w = [q EXCEPT
              !.task_wait_reason[timer_task]      = "NONE",
              !.task_state[timer_task]            = "RUNNABLE",
              !.wait_queue[timer_task]            = NULL,
              !.task_wait_return_code[timer_task] = "ERR_NO_ERROR",
              !.runnable_tasks_list[0]            = InsertLast(@, timer_task),
              !.priority_ready_to_run_bitmap      = @ \cup {0},
              !.next_task_to_run                  = timer_task]
  BY DEF tick_int_processing, wake_timer_task
<1>. HIDE DEF r, w
<1>5. /\ r \in KernelState
      /\ r.runnable_tasks_list = rl
      /\ r.waiting_timeout_tasks_list = s.waiting_timeout_tasks_list
      /\ r.tick_count = s.tick_count
      /\ r.task_state = s.task_state
      /\ r.current_running_task = s.current_running_task
      /\ r.next_task_to_run = s.next_task_to_run
  BY <1>1, <1>3 DEF KernelState
<1>6. \A x : InReadyList(r, x) <=> InReadyList(s, x)
  BY <1>3, <1>5 DEF InReadyList
<1>7. MovesOnly(r, s, timer_task)
  <2>1. Sound(r)
    BY <1>3, <1>5, <1>6 DEF Sound
  <2>. QED  BY <1>5, <1>6, <2>1 DEF MovesOnly
<1>8. /\ MovesOnly(q, r, timer_task)
      /\ ~ InReadyList(q, timer_task)
  BY <1>1, <1>7, Unlinks DEF MovesOnly
<1>9. MovesOnly(q, s, timer_task) /\ q \in KernelState
  <2>1. MovesOnly(q, s, timer_task)
    BY <1>1, <1>7, <1>8, MovesOnlyTwice
  <2>. QED  BY <2>1 DEF MovesOnly, Sound
<1>. HIDE DEF q
<1>. DEFINE ql == q.runnable_tasks_list
            wl == [ql EXCEPT ![0] = InsertLast(@, timer_task)]
            state == [q.task_state EXCEPT ![timer_task] = "RUNNABLE"]
            reasons == [q.task_wait_reason EXCEPT ![timer_task] = "NONE"]
            queues == [q.wait_queue EXCEPT ![timer_task] = NULL]
            codes == [q.task_wait_return_code EXCEPT ![timer_task] = "ERR_NO_ERROR"]
            bits == q.priority_ready_to_run_bitmap \cup {0}
<1>10. w = [q EXCEPT !.task_wait_reason = reasons, !.task_state = state,
                     !.wait_queue = queues, !.task_wait_return_code = codes,
                     !.runnable_tasks_list = wl, !.priority_ready_to_run_bitmap = bits,
                     !.next_task_to_run = timer_task]
  BY <1>4, <1>9 DEF KernelState
<1>11. /\ ql \in [Priority -> Seq(Task)] /\ 0 \in Priority
       /\ \A x \in Priority : Distinct(ql[x]) /\ timer_task \notin Range(ql[x])
  BY <1>8, <1>9, SystemTasksAreTasks DEF MovesOnly, Sound, KernelState, InReadyList
<1>12. /\ wl \in [Priority -> Seq(Task)]
       /\ \A x \in Priority :
             /\ Distinct(wl[x])
             /\ Range(wl[x]) \subseteq Range(ql[x]) \cup {timer_task}
  <2>. DEFINE l0 == ql[0]
  <2>1. l0 \in Seq(Task) /\ Distinct(l0) /\ timer_task \notin Range(l0)
    BY <1>11
  <2>2. /\ InsertLast(l0, timer_task) \in Seq(Task)
        /\ Range(InsertLast(l0, timer_task)) = Range(l0) \cup {timer_task}
        /\ Distinct(InsertLast(l0, timer_task))
    <3>. HIDE DEF l0
    <3>. QED  BY <1>1, <2>1, InsertTask
  <2>. QED  BY <1>11, <2>2
<1>13. /\ state \in [Task -> TaskState]
       /\ reasons \in [Task -> WaitReason]
       /\ queues \in [Task -> WaitObject \cup {NULL}]
       /\ codes \in [Task -> ReturnCode]
       /\ bits \in SUBSET Priority
       /\ \A x \in Task : state[x] = IF x = timer_task THEN "RUNNABLE" ELSE q.task_state[x]
  BY <1>1, <1>9, <1>11 DEF KernelState, TaskState, WaitReason, ReturnCode
<1>. HIDE DEF wl, state, reasons, queues, codes, bits
<1>14. /\ w \in KernelState
       /\ w.runnable_tasks_list = wl
       /\ w.waiting_timeout_tasks_list = q.waiting_timeout_tasks_list
       /\ w.tick_count = q.tick_count
       /\ w.task_state = state
       /\ w.current_running_task = q.current_running_task
       /\ w.next_task_to_run = timer_task
  BY <1>1, <1>9, <1>10, <1>12, <1>13 DEF KernelState
<1>15. \A x \in Task : InReadyList(w, x) => x = timer_task \/ InReadyList(q, x)
  BY <1>12, <1>14 DEF InReadyList
<1>16. Sound(w)
  <2>1. Range(q.waiting_timeout_tasks_list) \subseteq Task
    BY <1>9, ListElements DEF KernelState
  <2>2. \A x \in Range(w.waiting_timeout_tasks_list) :
          x # timer_task /\ w.task_state[x] = "WAIT" /\ w.tick_count[x] \in Timeout
    BY <1>9, <1>13, <1>14, <2>1 DEF Sound, MovesOnly
  <2>3. \A x \in Task : InReadyList(w, x) => w.task_state[x] = "RUNNABLE"
    BY <1>9, <1>13, <1>14, <1>15 DEF Sound, MovesOnly
  <2>4. w.task_state[timer_task] = "RUNNABLE"
    BY <1>1, <1>13, <1>14
  <2>. QED  BY <1>9, <1>12, <1>14, <2>2, <2>3, <2>4 DEF Sound, MovesOnly
<1>17. MovesOnly(w, q, timer_task)
  BY <1>13, <1>14, <1>15, <1>16 DEF MovesOnly
<1>18. MovesOnly(w, s, timer_task)
  BY <1>1, <1>9, <1>17, MovesOnlyTwice
<1> QED
  BY <1>1, <1>13, <1>14, <1>18 DEF w

-----------------------------------------------------------------------------
(* The invariant of TaskExit.                                              *)

(* The places of a task that has left its ready list.                      *)
Left == ExitPc \ {"exit_loaded"}

(* Such a task is in no ready list: a step of its exit_task does not find  *)
(* it there, and once it was given up it is never chosen again.            *)
Exiting ==
    \A t \in UserTask : pc[t] \in Left =>
        /\ ~ InReadyList(k, t)
        /\ k.task_state[t] =
              IF pc[t] \in {"exit_half", "exit_unlinked", "exit_bit_cleared",
                            "exit_next_chosen"}
              THEN "RUNNABLE" ELSE "DORMANT"
        /\ pc[t] = "exit_next_chosen" => k.next_task_to_run # t

Places ==
    /\ pc[timer_task] \in {"init", "loop", "scan", "switch"}
    /\ pc[idle_task] = "run"
    /\ \A t \in UserTask : pc[t] \in {"run", "switch"} \cup ExitPc
    /\ primask => /\ k.current_running_task = timer_task
                  /\ k.task_state[timer_task] = "RUNNABLE"
                  /\ pc[timer_task] = "scan"

(* WaitingTaskOnlySwitches, with the tasks that exit left out.             *)
OthersOnlySwitch ==
    \A t \in Task :
        k.current_running_task = t /\ k.task_state[t] # "RUNNABLE"
            => pc[t] \in {"switch"} \cup Left \/ pendsv

ExitInv ==
    /\ ExitTypeOK
    /\ cursor \in Nat \ {0}
    /\ Sound(k)
    /\ Exiting
    /\ Places
    /\ OthersOnlySwitch

LEMMA ExitInitInv == Init => ExitInv
<1>. SUFFICES ASSUME Init PROVE ExitInv
  OBVIOUS
<1>. DEFINE m == kernel_main
<1>1. /\ KInv(m)
      /\ m.current_running_task = idle_task
      /\ \A t \in Task : m.task_state[t] = IF t \in SystemTask THEN "RUNNABLE" ELSE "NONE"
  BY KernelMain
<1>. HIDE DEF m
<1>2. Sound(m) /\ m \in KernelState
  BY <1>1, KInvIsSound DEF KInv
<1>3. /\ k = m
      /\ pc = [t \in Task |-> IF t = timer_task THEN "init" ELSE "run"]
      /\ cursor = 1 /\ primask = FALSE
  BY DEF Init, m
<1>4. UserTask \subseteq Task /\ timer_task \notin UserTask /\ idle_task \notin UserTask
  BY TasksAssumption DEF Task
<1>5. \A t \in Task : pc[t] = IF t = timer_task THEN "init" ELSE "run"
  BY <1>3
<1>6. ExitTypeOK
  BY <1>2, <1>3 DEF ExitTypeOK
<1>7. Exiting
  BY <1>4, <1>5 DEF Exiting, Left, ExitPc
<1>8. Places
  BY <1>3, <1>4, <1>5, SystemTasksAreTasks DEF Places
<1>9. OthersOnlySwitch
  BY <1>1, <1>3 DEF OthersOnlySwitch, SystemTask
<1> QED
  BY <1>2, <1>3, <1>6, <1>7, <1>8, <1>9 DEF ExitInv

(* The task whose code executes, short of its switch and its exit, is      *)
(* RUNNABLE.                                                               *)
LEMMA ExecutesRunnable ==
    ASSUME ExitInv, NEW t \in Task, Thread(t), pc[t] \notin {"switch"} \cup Left
    PROVE  /\ k.task_state[t] = "RUNNABLE"
           /\ k.current_running_task = t
BY DEF ExitInv, Places, OthersOnlySwitch, Thread

(* A step that moves task t alone disturbs no other task's exit.           *)
LEMMA ExitsGoOn ==
    ASSUME ExitInv, NEW t \in Task, pc[t] \notin Left, MovesOnly(k', k, t),
           \A u \in UserTask : pc'[u] \in Left => pc'[u] = pc[u]
    PROVE  Sound(k') /\ k' \in KernelState /\ Exiting'
<1>1. UserTask \subseteq Task /\ ListHead \notin Task
  BY TasksAssumption DEF Task
<1>2. ASSUME NEW u \in UserTask, pc'[u] \in Left
      PROVE  /\ ~ InReadyList(k', u)
             /\ k'.task_state[u] = k.task_state[u]
             /\ pc'[u] = pc[u]
             /\ pc[u] = "exit_next_chosen" => k'.next_task_to_run # u
  <2>1. pc'[u] = pc[u] /\ u # t /\ u \in Task
    BY <1>1, <1>2
  <2>2. ~ InReadyList(k, u)
    BY <1>2, <2>1 DEF ExitInv, Exiting
  <2>3. pc[u] = "exit_next_chosen" => k.next_task_to_run # u
    BY <1>2, <2>1 DEF ExitInv, Exiting
  <2>4. k'.next_task_to_run = u => u = k.next_task_to_run
    BY <1>1, <2>1, <2>2 DEF MovesOnly
  <2>. QED  BY <2>1, <2>2, <2>3, <2>4 DEF MovesOnly
<1>3. Exiting'
  BY <1>2 DEF ExitInv, Exiting
<1> QED
  BY <1>3 DEF MovesOnly, Sound

(* SysTick and PendSV.                                                     *)
LEMMA ExitTickStep ==
    ASSUME ExitInv, k.current_running_task \in Task, SysTick_Handler
    PROVE  ExitInv' /\ k'.current_running_task = k.current_running_task
<1>1. /\ k' = tick_int_processing(k)
      /\ pc' = pc /\ cursor' = cursor /\ primask' = primask /\ pendsv' = TRUE
      /\ ~ primask
  BY DEF SysTick_Handler
<1>2. MovesOnly(k', k, timer_task)
  BY <1>1, Ticks DEF ExitInv
<1>3. pc[timer_task] \notin Left /\ timer_task \in Task
  BY SystemTasksAreTasks DEF ExitInv, Places, Left, ExitPc
<1>4. Sound(k') /\ k' \in KernelState /\ Exiting'
  BY <1>1, <1>2, <1>3, ExitsGoOn
<1>5. ExitTypeOK' /\ Places' /\ OthersOnlySwitch'
  BY <1>1, <1>4 DEF ExitInv, ExitTypeOK, Places, OthersOnlySwitch
<1> QED
  BY <1>1, <1>2, <1>4, <1>5 DEF ExitInv, MovesOnly

LEMMA ExitSwitchStep ==
    ASSUME ExitInv, PendSV_Handler
    PROVE  ExitInv' /\ k'.current_running_task = k.next_task_to_run
<1>. DEFINE n == k.next_task_to_run
<1>1. /\ k' = [k EXCEPT !.current_running_task = n]
      /\ pc' = pc /\ cursor' = cursor /\ primask' = primask /\ pendsv' = FALSE
      /\ ~ primask /\ Sound(k)
  BY DEF PendSV_Handler, ExitInv
<1>2. /\ k \in KernelState /\ n \in Task \cup {NULL, ListHead}
  BY <1>1 DEF Sound, KernelState
<1>. HIDE DEF n
<1>3. /\ k' \in KernelState
      /\ k'.current_running_task = n
      /\ k'.runnable_tasks_list = k.runnable_tasks_list
      /\ k'.waiting_timeout_tasks_list = k.waiting_timeout_tasks_list
      /\ k'.next_task_to_run = k.next_task_to_run
      /\ k'.task_state = k.task_state
      /\ k'.tick_count = k.tick_count
  BY <1>1, <1>2 DEF KernelState
<1>4. \A x : InReadyList(k', x) <=> InReadyList(k, x)
  BY <1>3 DEF InReadyList
<1>5. Sound(k')
  BY <1>1, <1>3, <1>4 DEF Sound
<1>6. Exiting'
  BY <1>1, <1>3, <1>4 DEF ExitInv, Exiting
<1>7. ExitTypeOK' /\ Places'
  BY <1>1, <1>3 DEF ExitInv, ExitTypeOK, Places
<1>8. OthersOnlySwitch'
  BY <1>1, <1>3 DEF OthersOnlySwitch, Sound, n
<1> QED
  BY <1>1, <1>3, <1>5, <1>6, <1>7, <1>8 DEF ExitInv, n

(* A task that sleeps, and the timer task at the end of its scan.          *)
LEMMA ExitWaitStep ==
    ASSUME ExitInv, NEW t \in UserTask \cup {timer_task}, Thread(t),
           pc[t] \notin {"switch"} \cup Left,
           NEW timeout \in Timeout \cup {WAIT_INFINITE},
           t = timer_task => timeout = WAIT_INFINITE,
           k' = task_curr_to_wait_action(k, NULL, "SLEEP", timeout),
           pc' = [pc EXCEPT ![t] = "switch"],
           cursor' = cursor, ~ primask'
    PROVE  ExitInv' /\ k'.current_running_task = k.current_running_task
<1>1. /\ t \in Task /\ Sound(k)
      /\ k.task_state[t] = "RUNNABLE"
      /\ k.current_running_task = t
  BY ExecutesRunnable, SystemTasksAreTasks DEF Task, ExitInv
<1>2. MovesOnly(k', k, t)
  <2>. DEFINE w == task_curr_to_wait_action(k, NULL, "SLEEP", timeout)
  <2>1. MovesOnly(w, k, t)
    BY <1>1, StartsToSleep
  <2>2. k' = w
    OBVIOUS
  <2>. HIDE DEF w
  <2>. QED  BY <2>1, <2>2
<1>3. /\ pc \in [Task -> {"init", "loop", "scan", "switch", "run"} \cup ExitPc]
      /\ \A u \in Task : pc'[u] = IF u = t THEN "switch" ELSE pc[u]
      /\ UserTask \subseteq Task /\ "switch" \notin Left
  BY <1>1 DEF ExitInv, ExitTypeOK, Left, ExitPc, Task
<1>4. Sound(k') /\ k' \in KernelState /\ Exiting'
  BY <1>1, <1>2, <1>3, ExitsGoOn
<1>5. ExitTypeOK'
  BY <1>3, <1>4 DEF ExitTypeOK
<1>6. Places'
  BY <1>1, <1>3, SystemTasksAreTasks, TasksAssumption DEF ExitInv, Places
<1>7. OthersOnlySwitch'
  BY <1>1, <1>2, <1>3 DEF OthersOnlySwitch, MovesOnly
<1> QED
  BY <1>2, <1>4, <1>5, <1>6, <1>7 DEF ExitInv, MovesOnly

LEMMA ExitCreateStep ==
    ASSUME ExitInv, NEW creator \in UserTask \cup {timer_task}, NEW t \in UserTask,
           NEW p \in Priority, NEW option, Create(creator, t, p, option)
    PROVE  ExitInv' /\ k'.current_running_task = k.current_running_task
<1>1. /\ k' = create_task(k, t, p, option)
      /\ k.task_state[t] = "NONE"
      /\ UNCHANGED <<pc, cursor, primask, pendsv>>
      /\ Sound(k) /\ t \in Task
  BY DEF Create, ExitInv, Task
<1>2. MovesOnly(k', k, t) /\ k'.task_state[t] \in {"RUNNABLE", "DORMANT"}
  <2>. DEFINE c == create_task(k, t, p, option)
  <2>1. MovesOnly(c, k, t) /\ c.task_state[t] \in {"RUNNABLE", "DORMANT"}
    BY <1>1, CreatesOne
  <2>2. k' = c
    BY <1>1
  <2>. HIDE DEF c
  <2>. QED  BY <2>1, <2>2
<1>3. pc[t] \notin Left
  BY <1>1 DEF ExitInv, Exiting
<1>4. Sound(k') /\ k' \in KernelState /\ Exiting'
  BY <1>1, <1>2, <1>3, ExitsGoOn
<1>5. ExitTypeOK'
  BY <1>1, <1>4 DEF ExitInv, ExitTypeOK
<1>6. k.task_state[timer_task] = "RUNNABLE" => k'.task_state[timer_task] = "RUNNABLE"
  BY <1>1, <1>2, SystemTasksAreTasks DEF MovesOnly
<1>7. Places'
  BY <1>1, <1>2, <1>6 DEF ExitInv, Places, MovesOnly
<1>8. OthersOnlySwitch'
  BY <1>1, <1>2 DEF ExitInv, OthersOnlySwitch, MovesOnly
<1> QED
  BY <1>1, <1>2, <1>4, <1>5, <1>7, <1>8 DEF ExitInv, MovesOnly

LEMMA ExitScanStep ==
    ASSUME ExitInv, TimerScanStep
    PROVE  ExitInv' /\ k'.current_running_task = k.current_running_task
<1>. DEFINE t == k.waiting_timeout_tasks_list[cursor]
<1>1. /\ k' = timer_visit(k, t)
      /\ cursor' = IF k'.task_state[t] = "WAIT" THEN cursor + 1 ELSE cursor
      /\ cursor <= Len(k.waiting_timeout_tasks_list)
      /\ UNCHANGED <<pc, primask, pendsv>>
      /\ Sound(k) /\ cursor \in Nat \ {0}
  BY DEF TimerScanStep, ExitInv
<1>2. t \in Range(k.waiting_timeout_tasks_list) /\ t \in Task
  <2>1. k.waiting_timeout_tasks_list \in Seq(Task)
    BY <1>1 DEF Sound, KernelState
  <2>2. cursor \in 1 .. Len(k.waiting_timeout_tasks_list)
    BY <1>1, <2>1
  <2>. QED  BY <2>1, <2>2 DEF Range
<1>. HIDE DEF t
<1>3. MovesOnly(k', k, t)
  <2>. DEFINE v == timer_visit(k, t)
  <2>1. MovesOnly(v, k, t)
    BY <1>1, <1>2, Visits
  <2>2. k' = v
    BY <1>1
  <2>. HIDE DEF v
  <2>. QED  BY <2>1, <2>2
<1>4. k.task_state[t] = "WAIT" /\ t # timer_task
  BY <1>1, <1>2 DEF Sound
<1>5. pc[t] \notin Left
  <2>1. t \in UserTask => (pc[t] \in Left => k.task_state[t] # "WAIT")
    BY DEF ExitInv, Exiting
  <2>2. t \notin UserTask => t = idle_task
    BY <1>2, <1>4 DEF Task, SystemTask
  <2>. QED  BY <1>4, <2>1, <2>2 DEF ExitInv, Places, Left, ExitPc
<1>6. Sound(k') /\ k' \in KernelState /\ Exiting'
  BY <1>1, <1>2, <1>3, <1>5, ExitsGoOn
<1>7. ExitTypeOK' /\ cursor' \in Nat \ {0}
  BY <1>1, <1>6 DEF ExitInv, ExitTypeOK
<1>8. k'.task_state[timer_task] = k.task_state[timer_task]
  BY <1>3, <1>4, SystemTasksAreTasks DEF MovesOnly
<1>9. Places'
  BY <1>1, <1>3, <1>8 DEF ExitInv, Places, MovesOnly
<1>10. OthersOnlySwitch'
  BY <1>1, <1>2, <1>3, <1>4 DEF ExitInv, OthersOnlySwitch, MovesOnly
<1> QED
  BY <1>3, <1>6, <1>7, <1>9, <1>10 DEF ExitInv, MovesOnly

(* What the steps of exit_task share: a RUNNABLE or DORMANT task goes from *)
(* one place to the next one.                                              *)
LEMMA ExitPlaceStep ==
    ASSUME ExitInv, NEW t \in UserTask, NEW from, NEW to \in ExitPc, Goto(t, from, to),
           from = "run" \/ from \in ExitPc
    PROVE  /\ Places' /\ pc' \in [Task -> {"init", "loop", "scan", "switch", "run"} \cup ExitPc]
           /\ cursor' \in Nat \ {0}
           /\ t \in Task /\ k.current_running_task = t /\ pc[t] = from
           /\ \A u \in Task : pc'[u] = IF u = t THEN to ELSE pc[u]
           /\ from \in {"run", "exit_loaded"} => k.task_state[t] = "RUNNABLE"
           /\ ~ primask /\ ~ primask'
<1>1. /\ pc[t] = from /\ pc' = [pc EXCEPT ![t] = to]
      /\ Thread(t) /\ UNCHANGED <<cursor, primask>>
      /\ pc \in [Task -> {"init", "loop", "scan", "switch", "run"} \cup ExitPc]
      /\ t \in Task /\ t # timer_task /\ t # idle_task
      /\ timer_task \in Task /\ idle_task \in Task /\ UserTask \subseteq Task
  BY TasksAssumption, SystemTasksAreTasks DEF Goto, ExitInv, ExitTypeOK, Task
<1>2. \A u \in Task : pc'[u] = IF u = t THEN to ELSE pc[u]
  BY <1>1
<1>3. k.current_running_task = t /\ ~ primask
  BY <1>1 DEF Thread, ExitInv, Places
<1>4. from \in {"run", "exit_loaded"} => k.task_state[t] = "RUNNABLE"
  BY <1>1, <1>3 DEF Thread, ExitInv, OthersOnlySwitch, Left, ExitPc
<1>5. Places'
  BY <1>1, <1>2, <1>3 DEF ExitInv, Places
<1> QED
  BY <1>1, <1>2, <1>3, <1>4, <1>5 DEF ExitInv

(* The exit as a whole: what each step does to the kernel, and to the task *)
(* that exits.                                                             *)
LEMMA ExitTaskStep ==
    ASSUME ExitInv, NEW t \in UserTask, exit_task(t)
    PROVE  ExitInv' /\ k'.current_running_task = k.current_running_task
<1>. DEFINE Early == {"exit_half", "exit_unlinked", "exit_bit_cleared", "exit_next_chosen"}
<1>0. Sound(k) /\ k \in KernelState /\ t \in Task /\ UserTask \subseteq Task
      /\ ListHead \notin Task
  BY TasksAssumption DEF ExitInv, Sound, Task
<1>1. ASSUME NEW from, NEW to \in Left, Goto(t, from, to), from \in ExitPc,
             Sound(k'), k'.current_running_task = k.current_running_task,
             ~ InReadyList(k', t),
             \A u \in Task : u # t => /\ k'.task_state[u] = k.task_state[u]
                                      /\ InReadyList(k', u) => InReadyList(k, u)
                                      /\ k'.next_task_to_run = u =>
                                            k.next_task_to_run = u \/ InReadyList(k, u),
             k'.task_state[t] = IF to \in Early THEN "RUNNABLE" ELSE "DORMANT",
             to = "exit_next_chosen" => k'.next_task_to_run # t
      PROVE  ExitInv' /\ k'.current_running_task = k.current_running_task
  <2>. to \in ExitPc
    BY <1>1 DEF Left
  <2>1. /\ Places' /\ pc' \in [Task -> {"init", "loop", "scan", "switch", "run"} \cup ExitPc]
        /\ cursor' \in Nat \ {0}
        /\ t \in Task /\ k.current_running_task = t /\ pc[t] = from
        /\ \A u \in Task : pc'[u] = IF u = t THEN to ELSE pc[u]
    BY <1>1, ExitPlaceStep
  <2>2. ExitTypeOK'
    BY <1>1, <2>1 DEF ExitTypeOK, Sound
  <2>3. Exiting'
    <3>1. ASSUME NEW u \in UserTask, pc'[u] \in Left, u # t
          PROVE  /\ ~ InReadyList(k', u)
                 /\ k'.task_state[u] = IF pc'[u] \in Early THEN "RUNNABLE" ELSE "DORMANT"
                 /\ pc'[u] = "exit_next_chosen" => k'.next_task_to_run # u
      <4>1. u \in Task /\ pc[u] = pc'[u]
        BY <1>0, <2>1, <3>1
      <4>2. /\ ~ InReadyList(k, u)
            /\ k.task_state[u] = IF pc[u] \in Early THEN "RUNNABLE" ELSE "DORMANT"
            /\ pc[u] = "exit_next_chosen" => k.next_task_to_run # u
        BY <3>1, <4>1 DEF ExitInv, Exiting
      <4>. QED  BY <1>1, <3>1, <4>1, <4>2
    <3>2. pc'[t] = to
      BY <1>0, <2>1
    <3>. QED  BY <1>1, <3>1, <3>2 DEF Exiting
  <2>4. OthersOnlySwitch'
    BY <1>1, <2>1 DEF OthersOnlySwitch
  <2>. QED  BY <1>1, <2>1, <2>2, <2>3, <2>4 DEF ExitInv
<1>2. CASE ExitUnlink(t)
  <2>1. Goto(t, "exit_loaded", "exit_half") /\ k' = queue_remove_element(k, t)
    BY <1>2 DEF ExitUnlink
  <2>2. "exit_half" \in Left /\ {"exit_loaded", "exit_half"} \subseteq ExitPc
    BY DEF Left, ExitPc
  <2>3. k.task_state[t] = "RUNNABLE"
    BY <2>1, <2>2, ExitPlaceStep
  <2>4. /\ MovesOnly(k', k, t) /\ ~ InReadyList(k', t)
        /\ k'.next_task_to_run = k.next_task_to_run
        /\ k'.task_state = k.task_state
    BY <1>0, <2>1, Unlinks
  <2>5. k'.task_state[t] = "RUNNABLE"
    BY <2>3, <2>4
  <2>. QED  BY <1>1, <2>1, <2>2, <2>4, <2>5 DEF MovesOnly
<1>3. CASE ExitClearBit(t)
  <2>. DEFINE p == k.priority[t]
  <2>1. /\ Goto(t, "exit_unlinked", "exit_bit_cleared")
        /\ k' = [k EXCEPT !.priority_ready_to_run_bitmap = @ \ {p}]
        /\ pc[t] = "exit_unlinked"
    BY <1>3 DEF ExitClearBit, Goto
  <2>2. {"exit_unlinked", "exit_bit_cleared"} \subseteq Left /\ "exit_unlinked" \in ExitPc
    BY DEF Left, ExitPc
  <2>3. ~ InReadyList(k, t) /\ k.task_state[t] = "RUNNABLE"
    BY <2>1, <2>2 DEF ExitInv, Exiting
  <2>. HIDE DEF p
  <2>4. /\ k' \in KernelState
        /\ k'.runnable_tasks_list = k.runnable_tasks_list
        /\ k'.waiting_timeout_tasks_list = k.waiting_timeout_tasks_list
        /\ k'.tick_count = k.tick_count
        /\ k'.task_state = k.task_state
        /\ k'.next_task_to_run = k.next_task_to_run
        /\ k'.current_running_task = k.current_running_task
    BY <1>0, <2>1 DEF KernelState
  <2>5. \A x : InReadyList(k', x) <=> InReadyList(k, x)
    BY <2>4 DEF InReadyList
  <2>6. Sound(k')
    BY <1>0, <2>4, <2>5 DEF Sound
  <2>. QED  BY <1>1, <2>1, <2>2, <2>3, <2>4, <2>5, <2>6
<1>4. CASE ExitFindNext(t)
  <2>1. /\ Goto(t, "exit_bit_cleared", "exit_next_chosen")
        /\ k' = find_next_task_to_run(k)
        /\ pc[t] = "exit_bit_cleared"
    BY <1>4 DEF ExitFindNext, Goto
  <2>2. {"exit_bit_cleared", "exit_next_chosen"} \subseteq Left /\ "exit_bit_cleared" \in ExitPc
    BY DEF Left, ExitPc
  <2>3. ~ InReadyList(k, t) /\ k.task_state[t] = "RUNNABLE"
    BY <2>1, <2>2 DEF ExitInv, Exiting
  <2>4. PICK n \in Task \cup {ListHead} :
           /\ k' = [k EXCEPT !.next_task_to_run = n]
           /\ n = ListHead \/ InReadyList(k, n)
    BY <1>0, <2>1, FindNext
  <2>5. /\ k' \in KernelState
        /\ k'.runnable_tasks_list = k.runnable_tasks_list
        /\ k'.waiting_timeout_tasks_list = k.waiting_timeout_tasks_list
        /\ k'.tick_count = k.tick_count
        /\ k'.task_state = k.task_state
        /\ k'.next_task_to_run = n
        /\ k'.current_running_task = k.current_running_task
    BY <1>0, <2>4 DEF KernelState
  <2>6. \A x : InReadyList(k', x) <=> InReadyList(k, x)
    BY <2>5 DEF InReadyList
  <2>7. Sound(k')
    BY <1>0, <2>4, <2>5, <2>6 DEF Sound
  <2>8. n # t /\ \A u \in Task : n = u => InReadyList(k, u)
    BY <1>0, <2>3, <2>4
  <2>. QED  BY <1>1, <2>1, <2>2, <2>3, <2>5, <2>6, <2>7, <2>8
<1>5. CASE ExitNextOfSamePriority(t)
  <2>. DEFINE list == k.runnable_tasks_list[k.priority[t]]
              n == IF k.next_task_to_run = t THEN Head(list) ELSE k.next_task_to_run
  <2>1. /\ Goto(t, "exit_unlinked", "exit_next_chosen")
        /\ list # <<>>
        /\ k' = [k EXCEPT !.next_task_to_run = IF @ = t THEN Head(list) ELSE @]
        /\ pc[t] = "exit_unlinked"
    BY <1>5 DEF ExitNextOfSamePriority, Goto
  <2>2. {"exit_unlinked", "exit_next_chosen"} \subseteq Left /\ "exit_unlinked" \in ExitPc
    BY DEF Left, ExitPc
  <2>3. ~ InReadyList(k, t) /\ k.task_state[t] = "RUNNABLE"
    BY <2>1, <2>2 DEF ExitInv, Exiting
  <2>4. InReadyList(k, Head(list)) /\ Head(list) \in Task
    <3>1. k.priority[t] \in Priority /\ list \in Seq(Task)
      BY <1>0 DEF KernelState
    <3>. QED  BY <2>1, <3>1, HeadInList DEF InReadyList
  <2>5. k' = [k EXCEPT !.next_task_to_run = n]
    BY <1>0, <2>1 DEF KernelState
  <2>6. /\ n \in Task \cup {NULL, ListHead} /\ n # t
        /\ n = k.next_task_to_run \/ InReadyList(k, n)
    BY <1>0, <2>3, <2>4 DEF KernelState
  <2>. HIDE DEF n, list
  <2>7. /\ k' \in KernelState
        /\ k'.runnable_tasks_list = k.runnable_tasks_list
        /\ k'.waiting_timeout_tasks_list = k.waiting_timeout_tasks_list
        /\ k'.tick_count = k.tick_count
        /\ k'.task_state = k.task_state
        /\ k'.next_task_to_run = n
        /\ k'.current_running_task = k.current_running_task
    BY <1>0, <2>5, <2>6 DEF KernelState
  <2>8. \A x : InReadyList(k', x) <=> InReadyList(k, x)
    BY <2>7 DEF InReadyList
  <2>9. Sound(k')
    BY <1>0, <2>6, <2>7, <2>8 DEF Sound
  <2>. QED  BY <1>1, <2>1, <2>2, <2>3, <2>6, <2>7, <2>8, <2>9
<1>6. CASE ExitSetDormant(t)
  <2>1. /\ Goto(t, "exit_next_chosen", "exit_dormant")
        /\ k' = task_set_dormant_state(k, t)
        /\ pc[t] = "exit_next_chosen"
    BY <1>6 DEF ExitSetDormant, Goto
  <2>2. {"exit_next_chosen", "exit_dormant"} \subseteq Left /\ "exit_next_chosen" \in ExitPc
    BY DEF Left, ExitPc
  <2>3. /\ ~ InReadyList(k, t) /\ k.task_state[t] = "RUNNABLE"
        /\ k.next_task_to_run # t
    BY <2>1, <2>2 DEF ExitInv, Exiting
  <2>. DEFINE state == [k.task_state EXCEPT ![t] = "DORMANT"]
              prio == [k.priority EXCEPT ![t] = k.base_priority[t]]
              queues == [k.wait_queue EXCEPT ![t] = NULL]
              reasons == [k.task_wait_reason EXCEPT ![t] = "NONE"]
              codes == [k.task_wait_return_code EXCEPT ![t] = "ERR_NO_ERROR"]
              ticks == [k.tick_count EXCEPT ![t] = WAIT_INFINITE]
              slices == [k.time_slice_count EXCEPT ![t] = 0]
  <2>4. k' = [k EXCEPT !.task_state = state, !.priority = prio, !.wait_queue = queues,
                       !.task_wait_reason = reasons, !.task_wait_return_code = codes,
                       !.tick_count = ticks, !.time_slice_count = slices]
    BY <1>0, <2>1 DEF task_set_dormant_state, KernelState
  <2>5. /\ state \in [Task -> TaskState]
        /\ prio \in [Task -> Priority]
        /\ queues \in [Task -> WaitObject \cup {NULL}]
        /\ reasons \in [Task -> WaitReason]
        /\ codes \in [Task -> ReturnCode]
        /\ ticks \in [Task -> 0 .. MaxTimeout \cup {WAIT_INFINITE}]
        /\ slices \in [Task -> Nat]
        /\ state[t] = "DORMANT"
        /\ \A u \in Task : u # t => state[u] = k.task_state[u] /\ ticks[u] = k.tick_count[u]
    BY <1>0 DEF KernelState, TaskState, WaitReason, ReturnCode
  <2>. HIDE DEF state, prio, queues, reasons, codes, ticks, slices
  <2>6. /\ k' \in KernelState
        /\ k'.runnable_tasks_list = k.runnable_tasks_list
        /\ k'.waiting_timeout_tasks_list = k.waiting_timeout_tasks_list
        /\ k'.tick_count = ticks
        /\ k'.task_state = state
        /\ k'.next_task_to_run = k.next_task_to_run
        /\ k'.current_running_task = k.current_running_task
    BY <1>0, <2>4, <2>5 DEF KernelState
  <2>7. \A x : InReadyList(k', x) <=> InReadyList(k, x)
    BY <2>6 DEF InReadyList
  <2>8. Sound(k')
    <3>1. /\ Range(k.waiting_timeout_tasks_list) \subseteq Task
          /\ t \notin Range(k.waiting_timeout_tasks_list)
      BY <1>0, <2>3, ListElements DEF Sound, KernelState
    <3>2. \A x \in Range(k'.waiting_timeout_tasks_list) :
             /\ x # timer_task
             /\ k'.task_state[x] = "WAIT" /\ k'.tick_count[x] \in Timeout
      BY <1>0, <2>5, <2>6, <3>1 DEF Sound
    <3>3. \A x \in Task : InReadyList(k', x) => k'.task_state[x] = "RUNNABLE"
      BY <1>0, <2>3, <2>5, <2>6, <2>7 DEF Sound
    <3>4. k'.next_task_to_run \in Task => k'.task_state[k'.next_task_to_run] = "RUNNABLE"
      BY <1>0, <2>3, <2>5, <2>6 DEF Sound
    <3>. QED  BY <1>0, <2>6, <3>2, <3>3, <3>4 DEF Sound
  <2>9. "exit_dormant" \notin Early
    OBVIOUS
  <2>. QED  BY <1>1, <2>1, <2>2, <2>3, <2>5, <2>6, <2>7, <2>8, <2>9
<1>7. CASE ExitDelete(t)
  <2>1. /\ Goto(t, "exit_dormant", "exit_deleted")
        /\ \E attribut \in {0, 1} :
              k' = IF attribut = 1
                   THEN [k EXCEPT !.all_tasks_queue = @ \ {t}, !.num_tasks = @ - 1]
                   ELSE k
        /\ pc[t] = "exit_dormant"
    BY <1>7 DEF ExitDelete, Goto
  <2>2. {"exit_dormant", "exit_deleted"} \subseteq Left /\ "exit_dormant" \in ExitPc
    BY DEF Left, ExitPc
  <2>3. ~ InReadyList(k, t) /\ k.task_state[t] = "DORMANT"
    BY <2>1, <2>2 DEF ExitInv, Exiting
  <2>4. /\ k' \in KernelState
        /\ k'.runnable_tasks_list = k.runnable_tasks_list
        /\ k'.waiting_timeout_tasks_list = k.waiting_timeout_tasks_list
        /\ k'.tick_count = k.tick_count
        /\ k'.task_state = k.task_state
        /\ k'.next_task_to_run = k.next_task_to_run
        /\ k'.current_running_task = k.current_running_task
    <3>. DEFINE all == k.all_tasks_queue \ {t}
                num == k.num_tasks - 1
    <3>1. all \in SUBSET Task /\ num \in Int
      BY <1>0 DEF KernelState
    <3>2. k' = k \/ k' = [k EXCEPT !.all_tasks_queue = all, !.num_tasks = num]
      BY <1>0, <2>1 DEF KernelState
    <3>. HIDE DEF all, num
    <3>. QED  BY <1>0, <3>1, <3>2 DEF KernelState
  <2>5. \A x : InReadyList(k', x) <=> InReadyList(k, x)
    BY <2>4 DEF InReadyList
  <2>6. Sound(k')
    BY <1>0, <2>4, <2>5 DEF Sound
  <2>7. "exit_deleted" \notin Early
    OBVIOUS
  <2>. QED  BY <1>1, <2>1, <2>2, <2>3, <2>4, <2>5, <2>6, <2>7
<1>8. CASE switch_context_exit(t)
  <2>1. /\ Goto(t, "exit_deleted", "gone") /\ k' = k
        /\ pc[t] = "exit_deleted"
    BY <1>8 DEF switch_context_exit, Goto
  <2>2. {"exit_deleted", "gone"} \subseteq Left /\ "exit_deleted" \in ExitPc
    BY DEF Left, ExitPc
  <2>3. ~ InReadyList(k, t) /\ k.task_state[t] = "DORMANT"
    BY <2>1, <2>2 DEF ExitInv, Exiting
  <2>4. "gone" \notin Early
    OBVIOUS
  <2>. QED  BY <1>0, <1>1, <2>1, <2>2, <2>3, <2>4
<1>9. CASE ExitLoad(t)
  <2>1. Goto(t, "run", "exit_loaded") /\ k' = k /\ "exit_loaded" \in ExitPc
    BY <1>9 DEF ExitLoad, ExitPc
  <2>2. /\ Places' /\ pc' \in [Task -> {"init", "loop", "scan", "switch", "run"} \cup ExitPc]
        /\ cursor' \in Nat \ {0}
        /\ k.current_running_task = t /\ k.task_state[t] = "RUNNABLE"
        /\ \A u \in Task : pc'[u] = IF u = t THEN "exit_loaded" ELSE pc[u]
    BY <2>1, ExitPlaceStep
  <2>3. \A u \in UserTask : pc'[u] \in Left => pc'[u] = pc[u]
    BY <1>0, <2>2 DEF Left
  <2>4. Exiting'
    BY <2>1, <2>3 DEF ExitInv, Exiting
  <2>5. ExitTypeOK' /\ Sound(k') /\ OthersOnlySwitch'
    BY <1>0, <2>1, <2>2 DEF ExitTypeOK, OthersOnlySwitch
  <2>. QED  BY <2>1, <2>2, <2>4, <2>5 DEF ExitInv
<1>10. CASE ExitStorePrevious(t)
  <2>1. /\ Goto(t, "exit_half", "exit_unlinked") /\ k' = k
        /\ pc[t] = "exit_half"
    BY <1>10 DEF ExitStorePrevious, Goto
  <2>2. {"exit_half", "exit_unlinked"} \subseteq Left /\ "exit_half" \in ExitPc
    BY DEF Left, ExitPc
  <2>3. ~ InReadyList(k, t) /\ k.task_state[t] = "RUNNABLE"
    BY <2>1, <2>2 DEF ExitInv, Exiting
  <2>. QED  BY <1>0, <1>1, <2>1, <2>2, <2>3
<1> QED
  BY <1>2, <1>3, <1>4, <1>5, <1>6, <1>7, <1>8, <1>9, <1>10 DEF exit_task

(* Every step keeps the invariant, and only PendSV gives the CPU away, to  *)
(* the task that was next.                                                 *)
LEMMA ExitStep ==
    ASSUME ExitInv, ExitNext
    PROVE  /\ ExitInv'
           /\ k'.current_running_task \in {k.current_running_task, k.next_task_to_run}
<1>0. /\ k.current_running_task \in Task
      /\ \/ Next
         \/ \E t \in UserTask : exit_task(t)
  BY DEF ExitNext
<1>p. /\ pc \in [Task -> {"init", "loop", "scan", "switch", "run"} \cup ExitPc]
      /\ timer_task \in Task /\ idle_task \in Task /\ timer_task # idle_task
      /\ timer_task \notin UserTask /\ idle_task \notin UserTask
      /\ UserTask \subseteq Task
  BY TasksAssumption, SystemTasksAreTasks DEF ExitInv, ExitTypeOK, Task
<1>1. CASE SysTick_Handler
  BY <1>0, <1>1, ExitTickStep
<1>2. CASE UART0_IRQHandler
  BY <1>2 DEF UART0_IRQHandler, ExitInv, ExitTypeOK, Exiting, Places, OthersOnlySwitch
<1>3. CASE PendSV_Handler
  BY <1>3, ExitSwitchStep
<1>4. CASE TimerInitDone
  <2>1. /\ pc' = [pc EXCEPT ![timer_task] = "loop"] /\ pc[timer_task] = "init"
        /\ UNCHANGED <<k, cursor, primask, pendsv>>
    BY <1>4 DEF TimerInitDone
  <2>2. \A u \in Task : pc'[u] = IF u = timer_task THEN "loop" ELSE pc[u]
    BY <1>p, <2>1
  <2>3. OthersOnlySwitch'
    BY <1>p, <2>1, <2>2 DEF ExitInv, OthersOnlySwitch, Left, ExitPc
  <2>4. Places'
    BY <1>p, <2>1, <2>2 DEF ExitInv, Places
  <2>5. ExitTypeOK' /\ Exiting'
    BY <1>p, <2>1, <2>2 DEF ExitInv, ExitTypeOK, Exiting
  <2>. QED  BY <2>1, <2>3, <2>4, <2>5 DEF ExitInv
<1>5. CASE TimerScanBegin
  <2>1. /\ pc' = [pc EXCEPT ![timer_task] = "scan"] /\ pc[timer_task] = "loop"
        /\ primask' = TRUE /\ cursor' = 1
        /\ UNCHANGED <<k, pendsv>> /\ Thread(timer_task)
    BY <1>5 DEF TimerScanBegin
  <2>2. \A u \in Task : pc'[u] = IF u = timer_task THEN "scan" ELSE pc[u]
    BY <1>p, <2>1
  <2>3. /\ k.task_state[timer_task] = "RUNNABLE"
        /\ k.current_running_task = timer_task
    BY <1>p, <2>1, ExecutesRunnable DEF Left, ExitPc
  <2>4. Places' /\ OthersOnlySwitch'
    BY <1>p, <2>1, <2>2, <2>3 DEF ExitInv, Places, OthersOnlySwitch
  <2>5. ExitTypeOK' /\ Exiting'
    BY <1>p, <2>1, <2>2 DEF ExitInv, ExitTypeOK, Exiting
  <2>. QED  BY <2>1, <2>4, <2>5 DEF ExitInv
<1>6. CASE TimerScanStep
  BY <1>6, ExitScanStep
<1>7. CASE TimerWait
  BY <1>7, ExitWaitStep DEF TimerWait, Left, ExitPc
<1>8. CASE \E t \in UserTask, time \in Timeout \cup {WAIT_INFINITE} : sleep(t, time)
  <2>1. PICK t \in UserTask, time \in Timeout \cup {WAIT_INFINITE} : sleep(t, time)
    BY <1>8
  <2>2. t # timer_task /\ ~ primask
    BY <1>p, <2>1 DEF sleep, Thread, ExitInv, Places
  <2>3. ~ primask'
    BY <2>1, <2>2 DEF sleep
  <2>. QED  BY <2>1, <2>2, <2>3, ExitWaitStep DEF sleep, Left, ExitPc
<1>9. CASE \E creator \in UserTask \cup {timer_task}, t \in UserTask, p \in Priority,
             option \in SUBSET {"TASK_START_ON_CREATION"} : Create(creator, t, p, option)
  BY <1>9, ExitCreateStep
<1>10. CASE \E t \in Task : switch_context(t)
  <2>1. PICK t \in Task : switch_context(t)
    BY <1>10
  <2>2. /\ pc[t] = "switch" /\ Thread(t) /\ pendsv' = TRUE
        /\ pc' = [pc EXCEPT ![t] = IF t = timer_task THEN "loop" ELSE "run"]
        /\ UNCHANGED <<k, cursor, primask>>
    BY <2>1 DEF switch_context
  <2>3. \A u \in Task : pc'[u] = IF u = t THEN IF t = timer_task THEN "loop" ELSE "run"
                                 ELSE pc[u]
    BY <1>p, <2>2
  <2>4. t = timer_task \/ t \in UserTask
    BY <2>2 DEF ExitInv, Places, Task, SystemTask
  <2>5. OthersOnlySwitch'
    BY <2>2 DEF OthersOnlySwitch
  <2>6. Places'
    BY <1>p, <2>2, <2>3, <2>4 DEF ExitInv, Places
  <2>7. ExitTypeOK' /\ Exiting'
    BY <1>p, <2>2, <2>3 DEF ExitInv, ExitTypeOK, Exiting, Left, ExitPc
  <2>. QED  BY <2>2, <2>5, <2>6, <2>7 DEF ExitInv
<1>11. CASE \E t \in UserTask : exit_task(t)
  BY <1>11, ExitTaskStep
<1> QED
  BY <1>0, <1>1, <1>2, <1>3, <1>4, <1>5, <1>6, <1>7, <1>8, <1>9, <1>10, <1>11
     DEF Next, Interrupt, timer_task_function, user_task_function

LEMMA ExitStepOrStutter == ExitInv /\ [ExitNext]_vars => ExitInv'
<1>1. ASSUME ExitInv, UNCHANGED vars PROVE ExitInv'
  BY <1>1 DEF vars, ExitInv, ExitTypeOK, Exiting, Places, OthersOnlySwitch
<1> QED
  BY <1>1, ExitStep

-----------------------------------------------------------------------------
(* The invariant of the kernel with tasks that exit unmasked, a tick or a  *)
(* switch to another task coming between any two steps of exit_task but    *)
(* the loads and the stores of its unlinking.                              *)
THEOREM ExitInvariant == ExitSpec => []ExitInv
<1> QED
  BY ExitInitInv, ExitStepOrStutter, PTL DEF ExitSpec

(* A task that has exited is in no list of the kernel, whatever interrupts *)
(* and tasks came in between the steps of its exit_task, those of its      *)
(* unlinking excepted.                                                     *)
THEOREM ExitedIsNowhere == ExitSpec => []DormantIsNowhere
<1>1. ExitInv => DormantIsNowhere
  <2>. SUFFICES ASSUME ExitInv PROVE DormantIsNowhere
    OBVIOUS
  <2>. QED  BY DEF ExitInv, DormantIsNowhere, Sound, InReadyList
<1> QED
  BY <1>1, ExitInvariant, PTL

(* The CPU is never given to a task that waits, has exited or was never    *)
(* started: it goes to a RUNNABLE task or, when the bitmap was wrong, to   *)
(* the head of a list.  (No unlinking is disturbed half-way.)              *)
THEOREM DispatchedIsRunnable == ExitSpec => OnlyRunnableIsDispatched
<1>. DEFINE A == \A t \in Task :
          k.current_running_task # t /\ k'.current_running_task = t
             => k.task_state[t] = "RUNNABLE"
<1>1. ExitInv /\ [ExitNext]_vars => [A]_vars
  <2>. SUFFICES ASSUME ExitInv, ExitNext PROVE A
    OBVIOUS
  <2>1. k'.current_running_task \in {k.current_running_task, k.next_task_to_run}
    BY ExitStep
  <2>. QED  BY <2>1 DEF ExitInv, Sound
<1>2. ExitSpec => [][A]_vars
  BY <1>1, ExitInvariant, PTL DEF ExitSpec
<1> QED
  BY <1>2 DEF OnlyRunnableIsDispatched
=============================================================================
