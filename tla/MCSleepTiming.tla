--------------------------- MODULE MCSleepTiming ---------------------------
(***************************************************************************)
(* Instances of SleepTiming for TLC: no slices, as kernel_main sets them.  *)
(***************************************************************************)
EXTENDS SleepTiming, TLC

NoSlices == [p \in Priority |-> NO_TIME_SLICE]

UserSymmetry == Permutations(UserTask)
=============================================================================
