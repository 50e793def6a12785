------------------------- MODULE PriorityScheduler -------------------------
(***************************************************************************)
(* What the scheduler promises.  Tasks ready to run stand in line, one     *)
(* line per priority.  A task joins a line at its end and leaves it only   *)
(* by giving up the CPU itself; the clock may send the first of a line to  *)
(* its end and always puts the clock task in line; and the CPU is only     *)
(* ever given to the first of the most urgent line.  How the kernel        *)
(* knows who that is (bitmap, next_task_to_run), what the waiting tasks    *)
(* wait for, and how a switch is requested (PendSV) is not said.           *)
(***************************************************************************)
EXTENDS Lists, FiniteSets, FiniteSetsExt

CONSTANTS Task, Priority, clock

VARIABLES
    line,       \* line[p]: the tasks of priority p ready to run, in order
    running     \* the task that has the CPU

vars == <<line, running>>

InLine(t) == \E p \in Priority : t \in Range(line[p])

Occupied == {p \in Priority : line[p] # <<>>}

MostUrgent == Head(line[Min(Occupied)])

Init ==
    /\ line = [p \in Priority |->
                  IF p = 0 THEN <<clock>>
                  ELSE IF p = Max(Priority) THEN <<running>> ELSE <<>>]
    /\ running \in Task \ {clock}

Arrive(t, p) ==
    /\ ~InLine(t)
    /\ line' = [line EXCEPT ![p] = InsertLast(@, t)]
    /\ UNCHANGED running

Leave ==
    /\ InLine(running)
    /\ line' = [p \in Priority |-> Without(line[p], running)]
    /\ UNCHANGED running

(* Rotated = {} : no slice has expired.                                    *)
Tick(rotated) ==
    LET turned == [p \in Priority |->
            IF p \in rotated /\ line[p] # <<>> THEN HeadToTail(line[p]) ELSE line[p]]
    IN  /\ line' = [p \in Priority |->
               IF p = 0 THEN InsertLast(Without(turned[0], clock), clock) ELSE turned[p]]
        /\ UNCHANGED running

Dispatch ==
    /\ running' = MostUrgent
    /\ UNCHANGED line

Next ==
    \/ \E t \in Task, p \in Priority : Arrive(t, p)
    \/ Leave
    \/ Tick({})
    \/ \E p \in Priority : Tick({p})
    \/ Dispatch

Spec == Init /\ [][Next]_vars

(* A task that is not the most urgent one loses the CPU.                   *)
FairSpec == Spec /\ WF_vars(Dispatch)
=============================================================================
