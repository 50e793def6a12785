----------------------------- MODULE QueueLists -----------------------------
(***************************************************************************)
(* What the QUEUEs of utilities.c promise: every list head has a sequence  *)
(* of elements, no element is in two places, and a walk along a list meets *)
(* every element that was in the list when it began, in order, even though *)
(* the walker may unlink the element it stands on.                         *)
(***************************************************************************)
EXTENDS Lists

CONSTANTS QueueHead, Element, NULL

VARIABLES
    list,       \* the elements of each list, first to last
    todo,       \* what the walk under way has still to meet
    answer      \* what the last call returned

vars == <<list, todo, answer>>

Linked(e) == \E h \in QueueHead : e \in Range(list[h])

Init ==
    /\ list = [h \in QueueHead |-> <<>>]
    /\ todo = <<>>
    /\ answer = NULL

InsertFirst(h, e) ==
    /\ todo = <<>> /\ ~Linked(e)
    /\ list' = [list EXCEPT ![h] = <<e>> \o @]
    /\ answer' = NULL
    /\ UNCHANGED todo

Insert(h, e) ==
    /\ todo = <<>> /\ ~Linked(e)
    /\ list' = [list EXCEPT ![h] = InsertLast(@, e)]
    /\ answer' = NULL
    /\ UNCHANGED todo

RemoveFirst(h) ==
    /\ todo = <<>> /\ list[h] # <<>>
    /\ answer' = list[h][1]
    /\ list' = [list EXCEPT ![h] = Tail(@)]
    /\ UNCHANGED todo

RemoveLast(h) ==
    /\ todo = <<>> /\ list[h] # <<>>
    /\ answer' = list[h][Len(list[h])]
    /\ list' = [list EXCEPT ![h] = SubSeq(@, 1, Len(@) - 1)]
    /\ UNCHANGED todo

(* Removing from an empty list returns a null pointer.                     *)
RemoveNone(h) ==
    /\ todo = <<>> /\ list[h] = <<>>
    /\ answer' = NULL
    /\ UNCHANGED <<list, todo>>

Remove(e) ==
    /\ list' = [h \in QueueHead |-> Without(list[h], e)]
    /\ answer' = NULL

WalkBegin(h) ==
    /\ todo = <<>>
    /\ todo' = list[h]
    /\ answer' = NULL
    /\ UNCHANGED list

WalkStep ==
    /\ todo # <<>>
    /\ todo' = Tail(todo)
    /\ UNCHANGED list \/ list' = [h \in QueueHead |-> Without(list[h], todo[1])]
    /\ answer' = todo[1]

Next ==
    \/ \E h \in QueueHead : RemoveFirst(h) \/ RemoveLast(h) \/ RemoveNone(h) \/ WalkBegin(h)
    \/ \E e \in Element : todo = <<>> /\ Remove(e) /\ UNCHANGED todo
    \/ \E h \in QueueHead, e \in Element : InsertFirst(h, e) \/ Insert(h, e)
    \/ WalkStep

Spec == Init /\ [][Next]_vars
=============================================================================
