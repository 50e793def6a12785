---------------------------- MODULE MCShellFiles ----------------------------
(***************************************************************************)
(* The shell on its keyboard, and the reading of files: they share no      *)
(* variable, so each is explored with the other at rest, and `part' says   *)
(* which one it is.  (A command of the shell that reads a file only takes  *)
(* time in Shell.)                                                         *)
(***************************************************************************)
EXTENDS Shell, FatFiles, TLC

VARIABLE part

-----------------------------------------------------------------------------
(* Keys: a letter, Return and a key without a character.                   *)

MCKeys == {"A", "ENTER", "F1"}
MCAscii == "A" :> "a" @@ "ENTER" :> "return"

-----------------------------------------------------------------------------
(* Names of one or two characters and an extension of one.                 *)
Entry(name, dir, vol, clust, size) ==
    [name |-> name, dir |-> dir, vol |-> vol, clust |-> clust, size |-> size]
File(name, clust, size) == Entry(name, FALSE, FALSE, clust, size)
Dir(name, clust) == Entry(name, TRUE, FALSE, clust, 0)
Label(name) == Entry(name, FALSE, TRUE, 0, 0)

a_ == <<"a", " ", " ">>
bc == <<"b", "c", " ">>
a_x == <<"a", " ", "x">>
deleted == <<"deleted", "c", " ">>
Parent == <<".", ".", " ">>
EOC == 15                                   \* end of a chain of clusters
Clear(csize) == [i \in 1 .. csize * ENTRIES |-> End]

(* A directory over two clusters, and a file over three that are not in    *)
(* order and look like a directory; sectors and clusters are the same.     *)
Small ==
    [csize |-> 1, n_fatent |-> 8,
     fat   |-> [c \in 2 .. 7 |-> CASE c = 2 -> 6 [] c = 5 -> 3 [] c = 3 -> 7
                                   [] OTHER -> EOC],
     root  |-> <<Label(a_x), File(deleted, 4, 1), Dir(bc, 2), File(a_x, 5, 5)>>,
     table |-> [c \in 2 .. 7 |->
                  CASE c = 2 -> <<Dir(Parent, 0), File(a_x, 4, 1)>>
                    [] c = 6 -> <<File(deleted, 4, 2), File(bc, 5, 6)>>
                    [] OTHER -> <<Dir(a_, 1), File(a_, 9, 9)>>]]

(* Clusters of two sectors, and an empty file.                             *)
Large ==
    [csize |-> 2, n_fatent |-> 6,
     fat   |-> [c \in 2 .. 5 |-> CASE c = 5 -> 2 [] OTHER -> EOC],
     root  |-> <<File(a_, 0, 0), File(bc, 5, 7), Dir(a_x, 3), End>>,
     table |-> [c \in 2 .. 5 |->
                  IF c = 3 THEN <<File(a_, 4, 3), File(deleted, 4, 2), File(bc, 4, 4), End>>
                  ELSE Clear(2)]]

(* Every FAT of two clusters, under a directory and a file, in circles and *)
(* with ends that are none.                                                *)
Broken ==
    {[csize |-> 1, n_fatent |-> 4, fat |-> f,
      root  |-> <<Dir(bc, start), File(a_, start, 5)>>,
      table |-> [c \in 2 .. 3 |-> <<File(a_x, c, 3), File(deleted, 4, 2)>>]] :
        f \in [2 .. 3 -> {0, 1, 2, 3, 4, EOC}], start \in 0 .. 4}

MCVolumes == {Small, Large} \cup Broken

MCPaths ==
    { <<>>, <<"/">>, <<"a">>, <<"b", "c">>, <<"/", "b", "c">>, <<"a", ".", "x">>,
      <<"b", "c", "/", "b", "c">>, <<"/", "b", "c", "/", "a", ".", "x">>,
      <<"a", ".", "x", "/", "b", "c">>, <<"a", "/", "a">>, <<"b", "c", "/">>,
      <<"b", "c", "/", ".", ".", "/", "a", ".", "x">>, <<"b", "c", "x", "b", "c">> }

-----------------------------------------------------------------------------
MCInit ==
    /\ Init /\ FatInit
    /\ \/ part = "shell" /\ volume = Small
       \/ part = "files" /\ \A i \in DOMAIN command_buffer : command_buffer[i] = Nul

Only(name) ==
    /\ part = name /\ part' = part
    /\ name # "shell" => UNCHANGED vars
    /\ name # "files" => UNCHANGED fatVars

MCVars == <<part, vars, fatVars>>

MCNext ==
    \/ Only("shell") /\ Next
    \/ Only("files") /\ FatNext

(* The fairness of FairSpec and of FatSpec.                                *)
MCSpec ==
    /\ MCInit /\ [][MCNext]_MCVars
    /\ WF_MCVars(Only("shell") /\ fooTask1_func)
    /\ WF_MCVars(Only("files") /\ FatStep)
=============================================================================
