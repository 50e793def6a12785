--------------------------- MODULE KeyboardFrames ---------------------------
(***************************************************************************)
(* The keyboard interrupt edge by edge.  A PS/2 frame is eleven bits, one  *)
(* per falling edge of the clock; the handler counts the edges and takes   *)
(* eight of them for the code.  Nothing but the count tells it where a     *)
(* frame begins: an edge lost, or one too many, shifts every later frame.  *)
(* The table of ps2_to_ascii expects the count to be one ahead of the      *)
(* frame, so that the eight bits are the start bit and the lower seven     *)
(* bits of the code: the code times two, without its highest bit.          *)
(*                                                                         *)
(* Module Keyboard takes over where a frame has been received.             *)
(***************************************************************************)
EXTENDS Integers, FiniteSets

CONSTANTS
    Key,            \* the keys that are pressed and released: their scan codes
    EdgesBefore,    \* edges counted between reset and the first frame
    MaxFaults       \* bound: edges lost or added

RELEASE == 240      \* 0xF0, what a keyboard sends before a released key's code
NUL == "NUL"

(* The codes of one byte that keys have: 131 is F7, every other one fits   *)
(* in seven bits.  112, the 0 of the keypad, is left out: without its      *)
(* highest bit RELEASE is the same code.                                   *)
ScanCode == ((0 .. 127) \ {112}) \cup {131}

ASSUME FramesAssumption ==
    /\ Key \subseteq ScanCode
    /\ EdgesBefore \in 0 .. 10
    /\ MaxFaults \in Nat

VARIABLES
    frame,
    character_entered,
    next_charater_is_released,
    place,      \* edges of the current frame the keyboard has sent
    code,       \* the code in the current frame
    released,   \* the frame before was RELEASE
    added,      \* the character added to the buffer during this frame, or NUL
    slip,       \* history: how far the count is ahead of the frame, modulo 11
    steady,     \* history: frames, up to 2, since slip last changed
    faults      \* history: edges lost and added

decoder == <<frame, character_entered, next_charater_is_released, added>>
keyboard == <<place, code, released>>
frameVars == <<decoder, keyboard, slip, steady, faults>>

FramesInit ==
    /\ frame = EdgesBefore
    /\ character_entered = 0
    /\ next_charater_is_released = FALSE
    /\ place = 11
    /\ code = -1
    /\ released = FALSE
    /\ added = NUL
    /\ slip = EdgesBefore
    /\ steady = 0
    /\ faults = 0

-----------------------------------------------------------------------------
REALEASED_KEY_CODE == 224

ps2_to_ascii(c) ==
    CASE c = 42  -> "a" [] c = 58  -> "z" [] c = 72  -> "e" [] c = 90  -> "r"
      [] c = 88  -> "t" [] c = 106 -> "y" [] c = 120 -> "u" [] c = 134 -> "i"
      [] c = 136 -> "o" [] c = 154 -> "p" [] c = 56  -> "q" [] c = 54  -> "s"
      [] c = 70  -> "d" [] c = 86  -> "f" [] c = 104 -> "g" [] c = 102 -> "h"
      [] c = 118 -> "j" [] c = 132 -> "k" [] c = 150 -> "l" [] c = 152 -> "m"
      [] c = 52  -> "w" [] c = 68  -> "x" [] c = 66  -> "c" [] c = 84  -> "v"
      [] c = 100 -> "b" [] c = 98  -> "n" [] c = 180 -> "Return"
      [] OTHER -> "?"

(* A complete code.                                                        *)
Entered(c) ==
    IF c = REALEASED_KEY_CODE
    THEN /\ next_charater_is_released' = TRUE
         /\ UNCHANGED added
    ELSE /\ next_charater_is_released' = FALSE
         /\ added' = IF next_charater_is_released THEN added ELSE ps2_to_ascii(c)

(* MUTANT: the bits of one code are not cleared for the next.              *)
EINT3_IRQHandler_keeps_bits(bit) ==
    LET entered == IF bit = 1 /\ frame # 0 /\ frame < 9
                      /\ (character_entered \div 2^(frame - 1)) % 2 = 0
                   THEN character_entered + 2^(frame - 1)
                   ELSE character_entered
    IN  /\ character_entered' = entered
        /\ IF frame + 1 = 11
           THEN /\ Entered(entered)
                /\ frame' = 0
           ELSE /\ frame' = frame + 1
                /\ UNCHANGED <<next_charater_is_released, added>>

(* One falling edge, with the level of the data line.  (A bit is or-ed in  *)
(* once between two resets of the code, so it can be added.)               *)
EINT3_IRQHandler(bit) ==
    LET entered == IF bit = 1 /\ frame # 0 /\ frame < 9
                   THEN character_entered + 2^(frame - 1)
                   ELSE character_entered
    IN  IF frame + 1 = 11
        THEN /\ Entered(entered)
             /\ frame' = 0
             /\ character_entered' = 0
        ELSE /\ frame' = frame + 1
             /\ character_entered' = entered
             /\ UNCHANGED <<next_charater_is_released, added>>

-----------------------------------------------------------------------------
(* The keyboard                                                            *)

DataBit(c, i) == (c \div 2^i) % 2

(* Start bit, eight data bits, odd parity, stop bit.                       *)
Bit(c, i) ==
    IF i = 0 THEN 0
    ELSE IF i <= 8 THEN DataBit(c, i - 1)
    ELSE IF i = 9 THEN (Cardinality({b \in 0 .. 7 : DataBit(c, b) = 1}) + 1) % 2
    ELSE 1

(* A key goes down, or is kept down; RELEASE is followed by a key's code.  *)
SendFrame ==
    /\ place = 11
    /\ \E c \in Key \cup (IF code = RELEASE THEN {} ELSE {RELEASE}) :
          code' = c
    /\ released' = (code = RELEASE)
    /\ place' = 0
    /\ added' = NUL
    /\ steady' = IF steady < 2 THEN steady + 1 ELSE 2
    /\ UNCHANGED <<frame, character_entered, next_charater_is_released, slip, faults>>

SendBit ==
    /\ place < 11
    /\ EINT3_IRQHandler(Bit(code, place))
    /\ place' = place + 1
    /\ UNCHANGED <<code, released, slip, steady, faults>>

(* The line's faults: an edge the handler does not see, ...                *)
LoseEdge ==
    /\ faults < MaxFaults
    /\ place < 11
    /\ place' = place + 1
    /\ slip' = (slip - 1) % 11
    /\ steady' = 0
    /\ faults' = faults + 1
    /\ UNCHANGED <<decoder, code, released>>

(* ... and one nobody sent.                                                *)
ExtraEdge ==
    /\ faults < MaxFaults
    /\ \E bit \in {0, 1} : EINT3_IRQHandler(bit)
    /\ slip' = (slip + 1) % 11
    /\ steady' = 0
    /\ faults' = faults + 1
    /\ UNCHANGED keyboard

FramesNext == SendFrame \/ SendBit \/ LoseEdge \/ ExtraEdge

FramesSpec == FramesInit /\ [][FramesNext]_frameVars

-----------------------------------------------------------------------------
FramesTypeOK ==
    /\ frame \in 0 .. 10
    /\ character_entered \in 0 .. 255
    /\ next_charater_is_released \in BOOLEAN
    /\ place \in 0 .. 11
    /\ code \in Key \cup {RELEASE, -1}
    /\ released \in BOOLEAN
    /\ slip \in 0 .. 10
    /\ steady \in 0 .. 2
    /\ faults \in 0 .. MaxFaults

(* The letters of a French keyboard, and Return.                           *)
Layout(c) ==
    CASE c = 21 -> "a" [] c = 29 -> "z" [] c = 36 -> "e" [] c = 45 -> "r"
      [] c = 44 -> "t" [] c = 53 -> "y" [] c = 60 -> "u" [] c = 67 -> "i"
      [] c = 68 -> "o" [] c = 77 -> "p" [] c = 28 -> "q" [] c = 27 -> "s"
      [] c = 35 -> "d" [] c = 43 -> "f" [] c = 52 -> "g" [] c = 51 -> "h"
      [] c = 59 -> "j" [] c = 66 -> "k" [] c = 75 -> "l" [] c = 76 -> "m"
      [] c = 26 -> "w" [] c = 34 -> "x" [] c = 33 -> "c" [] c = 42 -> "v"
      [] c = 50 -> "b" [] c = 49 -> "n" [] c = 90 -> "Return"
      [] OTHER -> "?"

(* What a frame should add to the buffer.                                  *)
Intended ==
    IF code = RELEASE \/ released THEN NUL ELSE Layout(code)

(* However many edges were lost or added before: once the count is one     *)
(* ahead for two whole frames, the second one adds what its key stands     *)
(* for, and a released key adds nothing.                                   *)
InPhaseFramesDecode ==
    /\ FramesTypeOK
    /\ place = 11 /\ slip = 1 /\ steady = 2 => added = Intended

(* keyboard.c:58 says of the frames that are no data "Start bit parity bit *)
(* and stop bit": a frame whose start bit is frame 0 is decoded.  Does not *)
(* hold: ps2_to_ascii has the codes read one edge later.                   *)
FramesFromStartBitDecode ==
    place = 11 /\ slip = 0 /\ steady = 2 => added = Intended
=============================================================================
