---------------------------- MODULE BoundedFifo ----------------------------
(* A first-in first-out queue of at most `capacity` items that refuses to  *)
(* overflow and to underflow.  A negative capacity stands for no memory.   *)
EXTENDS Integers, Sequences

CONSTANTS Data, NULL

VARIABLES capacity, items, result, datum

vars == <<capacity, items, result, datum>>

Init ==
    /\ capacity \in Int
    /\ items = <<>>
    /\ result = "ERR_NO_ERROR"
    /\ datum = NULL

Refuse(code) == result' = code /\ UNCHANGED <<items, datum>>

Add(d) ==
    IF capacity < 0 THEN Refuse("ERR_OUT_OF_MEMORY")
    ELSE IF Len(items) = capacity THEN Refuse("ERR_OVERFLOW")
    ELSE /\ items' = Append(items, d)
         /\ result' = "ERR_NO_ERROR"
         /\ UNCHANGED datum

Read ==
    IF capacity < 0 THEN Refuse("ERR_OUT_OF_MEMORY")
    ELSE IF items = <<>> THEN Refuse("ERR_UNDERFLOW")
    ELSE /\ items' = Tail(items)
         /\ datum' = items[1]
         /\ result' = "ERR_NO_ERROR"

BadCall == Refuse("ERR_WRONG_PARAMETER")

Next ==
    /\ \/ \E d \in Data : Add(d)
       \/ Read
       \/ BadCall
    /\ UNCHANGED capacity

Spec == Init /\ [][Next]_vars
=============================================================================
