------------------------------- MODULE Queues -------------------------------
(***************************************************************************)
(* The circular doubly linked QUEUEs of utilities.c, pointer by pointer.   *)
(* A cell is a list head or the link of an element (a task's task_queue or *)
(* timer_queue, say).  The kernel calls these functions with interrupts    *)
(* masked (exit_task apart), so each call is one step; the timer task's    *)
(* walk along a list, which unlinks elements on its way, is one step per   *)
(* element.                                                                *)
(*                                                                         *)
(* As the kernel does, a caller inserts only elements that are in no list, *)
(* and unlinks only an element that is in a list or has been reset: the    *)
(* code tests neither, and queue_remove_element leaves stale pointers in   *)
(* the element.                                                            *)
(***************************************************************************)
EXTENDS Naturals, Sequences, SequencesExt, FiniteSetsExt

CONSTANTS QueueHead, Element, NULL

ASSUME LinksAssumption ==
    /\ IsFiniteSet(QueueHead \cup Element)
    /\ QueueHead \cap Element = {}
    /\ NULL \notin QueueHead \cup Element

Link == QueueHead \cup Element

VARIABLES
    next, previous,     \* the two pointers of each cell
    list,               \* head of the list being walked, NULL outside a walk
    current_queue,      \* where the walk stands
    answer              \* what the last call returned

queueVars == <<next, previous, list, current_queue, answer>>

(* The cells met from c on by following `pointer`, up to the head h: what  *)
(* the loops over a list meet.  A walk that misses h is cut off.           *)
Path(pointer, c, h) ==
    LET at[n \in 0 .. Cardinality(Link)] == IF n = 0 THEN c ELSE pointer[at[n - 1]]
        home  == {n \in DOMAIN at : at[n] = h}
    IN  [i \in 1 .. (IF home = {} THEN Cardinality(Link) ELSE Min(home)) |-> at[i - 1]]

Elements(h) == Path(next, next[h], h)

queue_contains_element(h, e) == e \in ToSet(Elements(h))

is_queue_empty(c) == next[c] = c /\ previous[c] = c

InNoList(e) == \A h \in QueueHead : ~queue_contains_element(h, e)

Walking == list # NULL

(* The heads have been reset; the links in a fresh task are zero.          *)
QueuesInit ==
    /\ next = [c \in Link |-> IF c \in QueueHead THEN c ELSE NULL]
    /\ previous = next
    /\ list = NULL
    /\ current_queue = NULL
    /\ answer = NULL

-----------------------------------------------------------------------------
(* Effects on the pointers, in the order of the C statements.              *)

Unlink(e) ==
    /\ next' = [next EXCEPT ![previous[e]] = next[e]]
    /\ previous' = [previous EXCEPT ![next[e]] = previous[e]]

Return(value) == answer' = value /\ UNCHANGED <<list, current_queue>>

-----------------------------------------------------------------------------
reset_queue(c) ==
    /\ ~Walking /\ c \in Element /\ InNoList(c)
    /\ next' = [next EXCEPT ![c] = c]
    /\ previous' = [previous EXCEPT ![c] = c]
    /\ Return(NULL)

queue_insert_after(qu, element) ==
    /\ ~Walking /\ InNoList(element)
    /\ next' = [next EXCEPT ![element] = next[qu], ![qu] = element]
    /\ previous' = [previous EXCEPT ![element] = qu, ![next[qu]] = element]
    /\ Return(NULL)

queue_insert_before(qu, element) ==
    /\ ~Walking /\ InNoList(element)
    /\ next' = [next EXCEPT ![element] = qu, ![previous[qu]] = element]
    /\ previous' = [previous EXCEPT ![element] = previous[qu], ![qu] = element]
    /\ Return(NULL)

queue_remove_next(qu) ==
    /\ ~Walking
    /\ IF next[qu] = qu
       THEN Return(NULL) /\ UNCHANGED <<next, previous>>
       ELSE /\ previous' = [previous EXCEPT ![next[next[qu]]] = qu]
            /\ next' = [next EXCEPT ![qu] = next[next[qu]]]
            /\ Return(next[qu])

queue_remove_previous(qu) ==
    /\ ~Walking
    /\ IF previous[qu] = qu
       THEN Return(NULL) /\ UNCHANGED <<next, previous>>
       ELSE /\ next' = [next EXCEPT ![previous[previous[qu]]] = qu]
            /\ previous' = [previous EXCEPT ![qu] = previous[previous[qu]]]
            /\ Return(previous[qu])

queue_remove_element(element) ==
    /\ ~Walking
    /\ ~InNoList(element) \/ is_queue_empty(element)
    /\ Unlink(element)
    /\ Return(NULL)

-----------------------------------------------------------------------------
(* timer_task_function's walk: the body may unlink the element it stands   *)
(* on, and the walk goes on through that element's next pointer.           *)

WalkBegin(h) ==
    /\ ~Walking
    /\ list' = h
    /\ current_queue' = next[h]
    /\ answer' = NULL
    /\ UNCHANGED <<next, previous>>

(* MUTANT: after an unlinking the walk starts again.                       *)
WalkStep_restarts ==
    /\ Walking /\ current_queue # list
    /\ \/ UNCHANGED <<next, previous>> /\ current_queue' = next[current_queue]
       \/ Unlink(current_queue) /\ current_queue' = next'[list]
    /\ answer' = current_queue
    /\ UNCHANGED list

WalkStep ==
    /\ Walking /\ current_queue # list
    /\ Unlink(current_queue) \/ UNCHANGED <<next, previous>>
    /\ current_queue' = next'[current_queue]
    /\ answer' = current_queue
    /\ UNCHANGED list

WalkEnd ==
    /\ Walking /\ current_queue = list
    /\ list' = NULL
    /\ current_queue' = NULL
    /\ UNCHANGED <<next, previous, answer>>

QueuesNext ==
    \/ \E c \in Element : reset_queue(c) \/ queue_remove_element(c)
    \/ \E h \in QueueHead :
          queue_remove_next(h) \/ queue_remove_previous(h) \/ WalkBegin(h)
    \/ \E h \in QueueHead, e \in Element :
          queue_insert_after(h, e) \/ queue_insert_before(h, e)
    \/ WalkStep
    \/ WalkEnd

QueuesSpec == QueuesInit /\ [][QueuesNext]_queueVars

-----------------------------------------------------------------------------
(* The pointers implement sequences: every call changes the lists and      *)
(* returns what the operators of Lists say, and the walk meets each        *)
(* element once although it unlinks some of them.                          *)
AsLists == INSTANCE QueueLists
    WITH list <- [h \in QueueHead |-> Elements(h)],
         todo <- IF Walking THEN Path(next, current_queue, list) ELSE <<>>

ImplementsLists == AsLists!Spec
=============================================================================
