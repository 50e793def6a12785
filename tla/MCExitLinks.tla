----------------------------- MODULE MCExitLinks -----------------------------
(***************************************************************************)
(* Instances of ExitLinks for TLC: no slices, as kernel_main sets them.    *)
(***************************************************************************)
EXTENDS ExitLinks, TLC

NoSlices == [p \in Priority |-> 0]

UserSymmetry == Permutations(UserTask)
=============================================================================
