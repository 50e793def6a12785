---------------------------- MODULE SleepTiming ----------------------------
(***************************************************************************)
(* How long a sleep lasts.  The scheduler of module Scheduler, with the    *)
(* history that the question needs: the ticks each sleeper asked for, the  *)
(* ticks that came since, and the list of timeouts as the timer task's     *)
(* scan found it.                                                          *)
(***************************************************************************)
EXTENDS Scheduler

VARIABLES
    asked,      \* asked[t]: ticks in t's last sleep (0: none, or for ever)
    elapsed,    \* elapsed[t]: ticks since then, counted up to MaxTimeout
    before      \* before[t]: tick_count when the scan began; 0 if not listed

timingVars == <<asked, elapsed, before>>

Listed == Range(k.waiting_timeout_tasks_list)

TimingInit ==
    /\ Init
    /\ asked = [t \in Task |-> 0]
    /\ elapsed = [t \in Task |-> 0]
    /\ before = [t \in Task |-> 0]

TimedTick ==
    /\ SysTick_Handler
    /\ elapsed' = [t \in Task |->
          IF asked[t] > 0 /\ elapsed[t] < MaxTimeout THEN elapsed[t] + 1 ELSE elapsed[t]]
    /\ UNCHANGED <<asked, before>>

TimedSleep(t, time) ==
    /\ sleep(t, time)
    /\ asked' = [asked EXCEPT ![t] = IF time = WAIT_INFINITE THEN 0 ELSE time]
    /\ elapsed' = [elapsed EXCEPT ![t] = 0]
    /\ UNCHANGED before

TimedScanBegin ==
    /\ TimerScanBegin
    /\ before' = [t \in Task |-> IF t \in Listed THEN k.tick_count[t] ELSE 0]
    /\ UNCHANGED <<asked, elapsed>>

(* A woken task's history is forgotten once it is set running.             *)
TimedScanStep ==
    /\ TimerScanStep
    /\ asked' = [t \in Task |-> IF k'.task_state[t] = "RUNNABLE" THEN 0 ELSE asked[t]]
    /\ elapsed' = [t \in Task |-> IF k'.task_state[t] = "RUNNABLE" THEN 0 ELSE elapsed[t]]
    /\ UNCHANGED before

TimedWait ==
    /\ TimerWait
    /\ before' = [t \in Task |-> 0]
    /\ UNCHANGED <<asked, elapsed>>

Untimed ==
    /\ \/ UART0_IRQHandler
       \/ PendSV_Handler
       \/ TimerInitDone
       \/ \E t \in Task : switch_context(t)
       \/ \E creator \in UserTask \cup {timer_task}, t \in UserTask, p \in Priority,
             option \in SUBSET {"TASK_START_ON_CREATION"} : Create(creator, t, p, option)
    /\ UNCHANGED timingVars

TimingNext ==
    \/ TimedTick
    \/ \E t \in UserTask, time \in Timeout \cup {WAIT_INFINITE} : TimedSleep(t, time)
    \/ TimedScanBegin
    \/ TimedScanStep
    \/ TimedWait
    \/ Untimed

TimingSpec == TimingInit /\ [][TimingNext]_<<vars, timingVars>>

-----------------------------------------------------------------------------
(* sleep(n) never ends before n ticks have come since the call: no tick    *)
(* that came earlier, and no second scan for one tick, is counted.         *)
NeverWakesEarly ==
    [][\A t \in UserTask :
          k.task_state[t] = "WAIT" /\ k'.task_state[t] = "RUNNABLE"
             => elapsed[t] >= asked[t]]_<<vars, timingVars>>

(* A scan that unlinks the elements it walks over still visits each one    *)
(* once: when the timer task goes back to waiting, every task that was     *)
(* listed has one tick less to go, or its time was up and it is RUNNABLE.  *)
EveryTimeoutCountedOnce ==
    [][TimerWait =>
          \A t \in UserTask :
             before[t] > 0 =>
                IF before[t] = 1
                THEN k.task_state[t] = "RUNNABLE" /\ t \notin Listed
                ELSE t \in Listed /\ k.tick_count[t] = before[t] - 1]_<<vars, timingVars>>
=============================================================================
