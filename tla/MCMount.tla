------------------------------ MODULE MCMount ------------------------------
EXTENDS Mount

FatRecord == [signature |-> TRUE, fat |-> TRUE, clusters |-> TRUE,
              partition |-> NoPartition]

(* A boot record whose numbers are those of no FAT16 volume, and whose     *)
(* code, read as a partition table, names block 1.                         *)
OtherRecord == [signature |-> TRUE, fat |-> TRUE, clusters |-> FALSE, partition |-> 1]

(* Boot code and a partition table, whose bytes may look like a cluster    *)
(* count.                                                                  *)
Table(partition) == [signature |-> TRUE, fat |-> FALSE, clusters |-> TRUE,
                     partition |-> partition]

(* Three blocks of two bytes: on a card addressed by byte block 2 is taken *)
(* for block 1, and block 1 is no address.                                 *)
Card(b0, b1, b2) == [b \in {0, 1, 2} |-> CASE b = 0 -> b0 [] b = 1 -> b1 [] b = 2 -> b2]

MCContents ==
    { Card(FatRecord, Erased, FatRecord),
      Card(OtherRecord, FatRecord, Erased),
      Card(Table(NoPartition), FatRecord, FatRecord),
      Card(Table(1), Table(1), FatRecord),
      Card(Table(2), Erased, FatRecord),
      Card(Table(2), FatRecord, OtherRecord) }
=============================================================================
