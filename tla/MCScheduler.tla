---------------------------- MODULE MCScheduler ----------------------------
(***************************************************************************)
(* Instances of Scheduler for TLC: the slices of each priority.            *)
(***************************************************************************)
EXTENDS Scheduler, TLC

(* As kernel_main sets them.                                               *)
NoSlices == [p \in Priority |-> NO_TIME_SLICE]

(* The shortest slice for the first priority of applications, and none for *)
(* the others.                                                             *)
SomeSlices == [p \in Priority |-> IF p = 1 THEN 1 ELSE NO_TIME_SLICE]
=============================================================================
