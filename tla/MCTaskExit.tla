----------------------------- MODULE MCTaskExit -----------------------------
(***************************************************************************)
(* Instances of TaskExit for TLC: no slices, as kernel_main sets them.     *)
(***************************************************************************)
EXTENDS TaskExit, TLC

NoSlices == [p \in Priority |-> NO_TIME_SLICE]

UserSymmetry == Permutations(UserTask)
=============================================================================
