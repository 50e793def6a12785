----------------------------- MODULE MCMutexes -----------------------------
(***************************************************************************)
(* Instances of Mutexes for TLC: no slices, as kernel_main sets them.      *)
(***************************************************************************)
EXTENDS Mutexes, TLC

NoSlices == [p \in Priority |-> NO_TIME_SLICE]

Symmetries == Permutations(UserTask) \cup Permutations(WaitObject)
=============================================================================
