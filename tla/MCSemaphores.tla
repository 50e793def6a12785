---------------------------- MODULE MCSemaphores ----------------------------
(***************************************************************************)
(* Instances of Semaphores for TLC.                                        *)
(***************************************************************************)
EXTENDS Semaphores, TLC

NoSlices == [p \in Priority |-> NO_TIME_SLICE]

UserSymmetry == Permutations(UserTask)
=============================================================================
