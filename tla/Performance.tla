---------------------------- MODULE Performance ----------------------------
(***************************************************************************)
(* The CPU load figure: the idle task counts its turns in idle_count, and  *)
(* SysTick_Handler's calc_performance takes the count and clears it every  *)
(* second.  idle_count is volatile, so ++ is a load and a store, and the   *)
(* interrupt may come between them.  Other tasks only delay the idle task. *)
(* Nothing else of the kernel reads or writes these variables.             *)
(***************************************************************************)
EXTENDS Naturals

CONSTANTS
    PERIOD,     \* ticks per sample, 1000 in the code
    MaxCount    \* bound on idle_count, 2^32 - 1 in the code

ASSUME PerformanceAssumption == PERIOD \in Nat \ {0} /\ MaxCount \in Nat

VARIABLES
    idle_count, current_performance,
    cnt,            \* ticks since the last sample
    loaded,         \* the idle task is between its load and its store
    register,       \* what it loaded
    turns,          \* history: turns completed since the last sample
    again           \* history: what the store that was due when the last sample
                    \* came brings back

performanceVars == <<idle_count, current_performance, cnt, loaded, register, turns, again>>

PerformanceInit ==
    /\ idle_count = 0
    /\ current_performance = 0
    /\ cnt = 0
    /\ loaded = FALSE
    /\ register = 0
    /\ turns = 0
    /\ again = 0

IdleLoad ==
    /\ ~loaded /\ idle_count < MaxCount
    /\ register' = idle_count
    /\ loaded' = TRUE
    /\ UNCHANGED <<idle_count, current_performance, cnt, turns, again>>

IdleStore ==
    /\ loaded
    /\ idle_count' = register + 1
    /\ loaded' = FALSE
    /\ turns' = turns + 1
    /\ UNCHANGED <<current_performance, cnt, register, again>>

(* MUTANT: the count is taken and not cleared.                             *)
calc_performance_keeps_count ==
    /\ cnt' = (cnt + 1) % PERIOD
    /\ IF cnt + 1 = PERIOD
       THEN /\ current_performance' = idle_count
            /\ turns' = 0
            /\ again' = IF loaded THEN register ELSE 0
       ELSE UNCHANGED <<current_performance, turns, again>>
    /\ UNCHANGED <<idle_count, loaded, register>>

calc_performance ==
    /\ cnt' = (cnt + 1) % PERIOD
    /\ IF cnt + 1 = PERIOD
       THEN /\ current_performance' = idle_count
            /\ idle_count' = 0
            /\ turns' = 0
            /\ again' = IF loaded THEN register ELSE 0
       ELSE UNCHANGED <<idle_count, current_performance, turns, again>>
    /\ UNCHANGED <<loaded, register>>

PerformanceNext == IdleLoad \/ IdleStore \/ calc_performance

PerformanceSpec == PerformanceInit /\ [][PerformanceNext]_performanceVars

-----------------------------------------------------------------------------
(* What the two unsynchronised writers make of the count: the turns since  *)
(* the last sample; but a sample that falls between the load and the store *)
(* clears nothing, and the turns it reported are reported again.           *)
CountsTurnsOnceOrAgain == idle_count = turns + (IF turns > 0 THEN again ELSE 0)
=============================================================================
