-------------------------- MODULE ScrollingWindow --------------------------
(***************************************************************************)
(* What a terminal promises: a window on the last lines of what was        *)
(* printed.  Characters go where the cursor is; a line that is full is     *)
(* continued on the next; at the bottom the window moves down one line,    *)
(* which begins blank, and the line at the top is gone.                    *)
(***************************************************************************)
EXTENDS Naturals

CONSTANTS COLS, ROWS, Printable, Space

VARIABLES window, column, line

Column == 1 .. COLS - 1
Line == 0 .. ROWS - 1
BlankLine == [i \in Column |-> Space]

WindowInit ==
    /\ window = [l \in Line |-> BlankLine]
    /\ column = 1
    /\ line = 0

(* The window with the cursor one line further down.                       *)
Fed == IF line + 1 < ROWS
       THEN window
       ELSE [l \in Line |-> IF l + 1 < ROWS THEN window[l + 1] ELSE BlankLine]
NextLine == IF line + 1 < ROWS THEN line + 1 ELSE line

Write(c) ==
    \/ /\ column < COLS
       /\ window' = [window EXCEPT ![line] = [@ EXCEPT ![column] = c]]
       /\ column' = column + 1
       /\ line' = line
    \/ /\ column = COLS
       /\ window' = [Fed EXCEPT ![NextLine] = [@ EXCEPT ![1] = c]]
       /\ column' = 2
       /\ line' = NextLine

CarriageReturn ==
    /\ column' = 1
    /\ UNCHANGED <<window, line>>

LineFeed ==
    /\ window' = Fed
    /\ line' = NextLine
    /\ UNCHANGED column

WindowNext == (\E c \in Printable : Write(c)) \/ CarriageReturn \/ LineFeed

WindowSpec == WindowInit /\ [][WindowNext]_<<window, column, line>>
=============================================================================
