------------------------------ MODULE Terminal ------------------------------
(***************************************************************************)
(* The terminal (terminal.c): a character at a time to the video           *)
(* coprocessor's picture memory, with a copy of the lines kept in          *)
(* screen_buffer so that the screen can be scrolled by one transfer: the   *)
(* picture cannot be read back.  Line y of the screen is kept at index     *)
(* y - 1 of the buffer, which is thus what the screen has to become when   *)
(* it moves up; line 0 is not kept.                                        *)
(*                                                                         *)
(* A cell's address (y << 6) + x is the pair of its line and column.       *)
(***************************************************************************)
EXTENDS Naturals

CONSTANTS
    COLS,           \* 50: columns 1 .. COLS - 1 are used
    ROWS,           \* 37
    STRIDE,         \* 64: cells of a line in the picture and the buffer
    DEPTH,          \* 64: lines of the picture and the buffer
    Printable,      \* the characters 0x20 .. 127
    Space,
    Nul,            \* 0, which shows nothing
    Other           \* the other characters but '\r' and '\n'

ASSUME TerminalAssumption ==
    /\ COLS \in Nat /\ COLS > 1
    /\ ROWS \in Nat /\ ROWS > 1
    /\ STRIDE \in Nat /\ STRIDE >= COLS
    /\ DEPTH \in Nat /\ DEPTH > ROWS
    /\ Space \in Printable
    /\ Nul \notin Printable

VARIABLES
    cursor_position_x, cursor_position_y,
    screen_buffer,
    picture         \* the coprocessor's RAM_PIC

termVars == <<cursor_position_x, cursor_position_y, screen_buffer, picture>>

Cell == Printable \cup {Nul}
Lines == 0 .. DEPTH - 1
Cells == 0 .. STRIDE - 1
Memory == [Lines -> [Cells -> Cell]]

(* terminal_init: init_ascii ends by filling the picture with spaces.      *)
TermInit ==
    /\ cursor_position_x = 1
    /\ cursor_position_y = 0
    /\ screen_buffer = [y \in Lines |-> [x \in Cells |-> Nul]]
    /\ picture = [y \in Lines |-> [x \in Cells |-> Space]]

Stored(memory, y, x, character) ==
    [memory EXCEPT ![y] = [@ EXCEPT ![x] = character]]

(* MUTANT: the copy on the screen is sent, but not moved up.               *)
ShiftedUp_not(buffer) == buffer

ShiftedUp(buffer) ==
    [y \in Lines |-> IF y + 1 < DEPTH THEN buffer[y + 1] ELSE buffer[y]]

(* The end of terminal_put_char: with the cursor below the screen the      *)
(* whole buffer becomes the picture, then moves up by one line.            *)
ScrollScreen(y, buffer, screen) ==
    IF y >= ROWS
    THEN /\ picture' = buffer
         /\ cursor_position_y' = ROWS - 1
         /\ screen_buffer' = ShiftedUp(buffer)
    ELSE /\ picture' = screen
         /\ cursor_position_y' = y
         /\ screen_buffer' = buffer

(* MUTANT: the line is kept at its own index.                              *)
PutPrintable_same_index(character) ==
    LET full == cursor_position_x = COLS
        x == IF full THEN 1 ELSE cursor_position_x
        y == IF full THEN cursor_position_y + 1 ELSE cursor_position_y
    IN  /\ cursor_position_x' = x + 1
        /\ ScrollScreen(y, Stored(screen_buffer, y, x, character),
                        Stored(picture, y, x, character))

(* A character that does not fit is written below the screen first, if     *)
(* the cursor is at the bottom.                                            *)
PutPrintable(character) ==
    LET full == cursor_position_x = COLS
        x == IF full THEN 1 ELSE cursor_position_x
        y == IF full THEN cursor_position_y + 1 ELSE cursor_position_y
        buffer == IF y # 0 THEN Stored(screen_buffer, y - 1, x, character)
                  ELSE screen_buffer
    IN  /\ cursor_position_x' = x + 1
        /\ ScrollScreen(y, buffer, Stored(picture, y, x, character))

PutReturn ==
    /\ cursor_position_x' = 1
    /\ ScrollScreen(cursor_position_y, screen_buffer, picture)

PutNewline ==
    /\ UNCHANGED cursor_position_x
    /\ ScrollScreen(cursor_position_y + 1, screen_buffer, picture)

PutOther ==
    /\ UNCHANGED cursor_position_x
    /\ ScrollScreen(cursor_position_y, screen_buffer, picture)

terminal_put_char(character) ==
    \/ character \in Printable /\ PutPrintable(character)
    \/ character = "\r" /\ PutReturn
    \/ character = "\n" /\ PutNewline
    \/ character \in Other /\ PutOther

TermNext == \E character \in Printable \cup {"\r", "\n"} \cup Other :
                terminal_put_char(character)

TermSpec == TermInit /\ [][TermNext]_termVars

-----------------------------------------------------------------------------
Shown(cell) == IF cell = Nul THEN Space ELSE cell

TermTypeOK ==
    /\ cursor_position_x \in 1 .. COLS
    /\ cursor_position_y \in 0 .. ROWS - 1
    /\ screen_buffer \in Memory
    /\ picture \in Memory

(* When the screen has to move up, all of what it must show is at hand:    *)
(* the buffer is the picture below line 0, one line higher.                *)
BufferIsPictureMovedUp ==
    \A y \in 0 .. DEPTH - 2, x \in Cells :
        Shown(screen_buffer[y][x]) = Shown(picture[y + 1][x])

(* The screen, columns and lines it has no use for left out, is a window   *)
(* on the last lines of what was printed.                                  *)
Screen == INSTANCE ScrollingWindow WITH
    window <- [y \in 0 .. ROWS - 1 |-> [x \in 1 .. COLS - 1 |-> Shown(picture[y][x])]],
    column <- cursor_position_x,
    line <- cursor_position_y

ShowsTheLastLines == Screen!WindowSpec

(* terminal.c:9: screen_buffer "contains all characters on screen".  Does  *)
(* not hold: line 0 is never stored, nor needed for scrolling.             *)
BufferHasAllCharacters ==
    \A y \in 0 .. ROWS - 1, x \in 1 .. COLS - 1 :
        picture[y][x] \in {Space, Nul}
            \/ \E line \in Lines : screen_buffer[line][x] = picture[y][x]
=============================================================================
