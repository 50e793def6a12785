-------------------------------- MODULE Fifo --------------------------------
(***************************************************************************)
(* The FIFO of utilities.c: a ring of `size` cells with a read and an      *)
(* insertion index.  Equal indexes mean empty, so one cell is always free  *)
(* and a ring of one cell holds nothing.                                   *)
(***************************************************************************)
EXTENDS Integers

CONSTANTS
    Data,       \* what data pointers point to
    NULL_DATA,
    Size        \* the sizes a FIFO may be given

ASSUME FifoAssumption == Size \subseteq Int

VARIABLES
    size,
    data_fifo,
    index_of_next_read_element,
    index_of_next_inserted_element,
    result,     \* the error code of the last call
    data        \* where fifo_read stores what it reads

fifoVars == <<size, data_fifo, index_of_next_read_element,
          index_of_next_inserted_element, result, data>>

(* No function sets a FIFO up: its owner zeroes the indexes.               *)
FifoInit ==
    /\ size \in Size
    /\ data_fifo = [i \in 0 .. size - 1 |-> NULL_DATA]
    /\ index_of_next_read_element = 0
    /\ index_of_next_inserted_element = 0
    /\ result = "ERR_NO_ERROR"
    /\ data = NULL_DATA

Refuse(code) ==
    /\ result' = code
    /\ UNCHANGED <<data_fifo, index_of_next_read_element,
                   index_of_next_inserted_element, data>>

Advance(index) == IF index + 1 >= size THEN 0 ELSE index + 1

(* MUTANT: the insertion index at the end of the ring is not "just before" *)
(* a read index of 0.                                                      *)
Full_without_wrap ==
    index_of_next_inserted_element = index_of_next_read_element - 1

Full ==
    \/ index_of_next_read_element = 0 /\ index_of_next_inserted_element = size - 1
    \/ index_of_next_inserted_element = index_of_next_read_element - 1

fifo_add(d) ==
    IF size <= 0 THEN Refuse("ERR_OUT_OF_MEMORY")
    ELSE IF Full THEN Refuse("ERR_OVERFLOW")
    ELSE /\ data_fifo' = [data_fifo EXCEPT ![index_of_next_inserted_element] = d]
         /\ index_of_next_inserted_element' = Advance(index_of_next_inserted_element)
         /\ result' = "ERR_NO_ERROR"
         /\ UNCHANGED <<index_of_next_read_element, data>>

fifo_read ==
    IF size <= 0 THEN Refuse("ERR_OUT_OF_MEMORY")
    ELSE IF index_of_next_read_element = index_of_next_inserted_element
    THEN Refuse("ERR_UNDERFLOW")
    ELSE /\ data' = data_fifo[index_of_next_read_element]
         /\ index_of_next_read_element' = Advance(index_of_next_read_element)
         /\ result' = "ERR_NO_ERROR"
         /\ UNCHANGED <<data_fifo, index_of_next_inserted_element>>

(* fifo_read with a null pointer for the FIFO or for the data.             *)
fifo_read_null == Refuse("ERR_WRONG_PARAMETER")

FifoNext ==
    /\ \/ \E d \in Data : fifo_add(d)
       \/ fifo_read
       \/ fifo_read_null
    /\ UNCHANGED size

FifoSpec == FifoInit /\ [][FifoNext]_fifoVars

-----------------------------------------------------------------------------
FifoTypeOK ==
    /\ size \in Size
    /\ data_fifo \in [0 .. size - 1 -> Data \cup {NULL_DATA}]
    /\ size > 0 => /\ index_of_next_read_element \in 0 .. size - 1
                   /\ index_of_next_inserted_element \in 0 .. size - 1
    /\ result \in {"ERR_NO_ERROR", "ERR_WRONG_PARAMETER", "ERR_OUT_OF_MEMORY",
                   "ERR_OVERFLOW", "ERR_UNDERFLOW"}
    /\ data \in Data \cup {NULL_DATA}

(* The number of items in the ring and the items, oldest first.            *)
Count ==
    IF size <= 0 THEN 0
    ELSE (index_of_next_inserted_element - index_of_next_read_element) % size

Items == [i \in 1 .. Count |-> data_fifo[(index_of_next_read_element + i - 1) % size]]

(* The ring implements a queue of size - 1 items: whatever the order of    *)
(* the calls and wherever the indexes stand, items come out in the order   *)
(* they went in, and overflow and underflow are reported exactly when the  *)
(* queue is full or empty.                                                 *)
AsBoundedFifo == INSTANCE BoundedFifo
    WITH capacity <- size - 1, items <- Items, datum <- data, NULL <- NULL_DATA

ImplementsBoundedFifo == AsBoundedFifo!Spec
=============================================================================
