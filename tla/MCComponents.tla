---------------------------- MODULE MCComponents ----------------------------
(***************************************************************************)
(* The components that share no variable with any other, side by side:     *)
(* what one of them does cannot touch another, so each is explored with    *)
(* the others at rest, and `part' says which one it is.                    *)
(***************************************************************************)
EXTENDS Queues, Fifo, Utilities, Uart, Performance, Terminal, KeyboardFrames

CONSTANTS
    ready, waiting, e1, e2, e3,     \* two lists and three elements
    urgent, even, other             \* three tasks that print

VARIABLE part

MCHeads == {ready, waiting}
MCElements == {e1, e2, e3}

PriorityOf == [s \in {urgent, even, other} |-> IF s = urgent THEN 0 ELSE 1]
MCPriority(s) == PriorityOf[s]

(* A FIFO of any size, and any call of itoa and x_strcmp, when it is their *)
(* turn.                                                                   *)
Init ==
    /\ part \in {"queues", "fifo", "utilities", "uart", "performance", "terminal",
                 "keyboard"}
    /\ QueuesInit
    /\ FifoInit /\ (part # "fifo" => size = 0)
    /\ UtilInit /\ (part # "utilities" => stage = "itoa" /\ number = 0)
    /\ UartInit
    /\ PerformanceInit
    /\ TermInit
    /\ FramesInit

Only(name) ==
    /\ part = name /\ part' = part
    /\ name # "queues"      => UNCHANGED queueVars
    /\ name # "fifo"        => UNCHANGED fifoVars
    /\ name # "utilities"   => UNCHANGED utilVars
    /\ name # "uart"        => UNCHANGED uartVars
    /\ name # "performance" => UNCHANGED performanceVars
    /\ name # "terminal"    => UNCHANGED termVars
    /\ name # "keyboard"    => UNCHANGED frameVars

Next ==
    \/ Only("queues")      /\ QueuesNext
    \/ Only("fifo")        /\ FifoNext
    \/ Only("utilities")   /\ UtilNext
    \/ Only("uart")        /\ UartNext
    \/ Only("performance") /\ PerformanceNext
    \/ Only("terminal")    /\ TermNext
    \/ Only("keyboard")    /\ FramesNext

allVars == <<part, queueVars, fifoVars, utilVars, uartVars, performanceVars, termVars,
             frameVars>>

Spec == Init /\ [][Next]_allVars
=============================================================================
