------------------------------- MODULE Lists -------------------------------
(***************************************************************************)
(* What the kernel's circular doubly linked QUEUEs contain, seen as        *)
(* sequences.  The list head is the cell the code calls `qu`; the sequence *)
(* holds the elements met by following `next` from the head.  Module       *)
(* Queues keeps the pointers and shows that the operations of utilities.c  *)
(* are the operators below.                                                *)
(***************************************************************************)
EXTENDS Naturals, Sequences, Functions

(* queue_insert_before(head, element): element becomes the last one.       *)
InsertLast(q, e) == Append(q, e)

(* queue_remove_element(element), for an element of this list or of none:  *)
(* a list that does not hold e is left alone.                              *)
Without(q, e) ==
    IF e \in Range(q)
    THEN LET i == CHOOSE i \in DOMAIN q : q[i] = e
         IN  SubSeq(q, 1, i - 1) \o SubSeq(q, i + 1, Len(q))
    ELSE q

(* queue_remove_next(head) then queue_insert_before(head, .): the first    *)
(* element becomes the last one.                                           *)
HeadToTail(q) == Append(Tail(q), Head(q))

(* No element is linked twice.                                             *)
Distinct(q) == IsInjective(q)
=============================================================================
