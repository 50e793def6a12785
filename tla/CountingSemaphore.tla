-------------------------- MODULE CountingSemaphore --------------------------
(***************************************************************************)
(* What a semaphore promises.  Units are given out one by one; who finds   *)
(* none stands in line, and a unit that is released goes to the first in   *)
(* line or, if there is none, back to the store, which holds at most       *)
(* `capacity` units.  Who stands in line leaves it with a unit, with       *)
(* nothing because the time is up, or because the semaphore is deleted;    *)
(* what he was told stays true until he looks.  No scheduler, no masking   *)
(* of interrupts, no timer is mentioned.                                   *)
(***************************************************************************)
EXTENDS Lists

CONSTANTS Client, Semaphore

VARIABLES
    units,      \* units[s]: units in store
    capacity,   \* capacity[s]: 0 until the semaphore is created
    line,       \* line[s]: the clients that wait for a unit, in order
    answer      \* answer[c]: "none", "waiting", "granted", "timed_out" or "deleted"

vars == <<units, capacity, line, answer>>

Init ==
    /\ units = [s \in Semaphore |-> 0]
    /\ capacity = [s \in Semaphore |-> 0]
    /\ line = [s \in Semaphore |-> <<>>]
    /\ answer = [c \in Client |-> "none"]

Create(s) ==
    /\ capacity[s] = 0
    /\ capacity' \in [Semaphore -> Nat]
    /\ units' \in [Semaphore -> Nat]
    /\ units'[s] <= capacity'[s]
    /\ \A o \in Semaphore \ {s} : units'[o] = units[o] /\ capacity'[o] = capacity[o]
    /\ UNCHANGED <<line, answer>>

(* Taken from the store: the client is not kept waiting.                   *)
Take(s) ==
    /\ units[s] > 0
    /\ units' = [units EXCEPT ![s] = @ - 1]
    /\ UNCHANGED <<capacity, line, answer>>

StandInLine(c, s) ==
    /\ units[s] = 0
    /\ answer[c] = "none"
    /\ line' = [line EXCEPT ![s] = InsertLast(@, c)]
    /\ answer' = [answer EXCEPT ![c] = "waiting"]
    /\ UNCHANGED <<units, capacity>>

LeaveLine(c, s, told) ==
    /\ c \in Range(line[s])
    /\ line' = [line EXCEPT ![s] = Without(@, c)]
    /\ answer' = [answer EXCEPT ![c] = told]
    /\ UNCHANGED <<units, capacity>>

Release(s) ==
    \/ /\ line[s] # <<>>
       /\ LeaveLine(Head(line[s]), s, "granted")
    \/ /\ line[s] = <<>>
       /\ units[s] < capacity[s]
       /\ units' = [units EXCEPT ![s] = @ + 1]
       /\ UNCHANGED <<capacity, line, answer>>

(* One client at a time, the longest waiting first.                        *)
Delete(s) ==
    /\ line[s] # <<>>
    /\ LeaveLine(Head(line[s]), s, "deleted")

Look(c) ==
    /\ answer[c] \in {"granted", "timed_out", "deleted"}
    /\ answer' = [answer EXCEPT ![c] = "none"]
    /\ UNCHANGED <<units, capacity, line>>

Next ==
    \/ \E s \in Semaphore : Create(s) \/ Take(s) \/ Release(s) \/ Delete(s)
    \/ \E s \in Semaphore, c \in Client :
          StandInLine(c, s) \/ LeaveLine(c, s, "timed_out")
    \/ \E c \in Client : Look(c)

Spec == Init /\ [][Next]_vars
=============================================================================
