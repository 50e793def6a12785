------------------------------ MODULE Keyboard ------------------------------
(***************************************************************************)
(* The PS/2 keyboard: the interrupt that puts characters in a ring buffer, *)
(* and the function by which the shell takes them out, which runs with     *)
(* interrupts enabled, so that characters arrive between its steps.        *)
(*                                                                         *)
(* One interrupt step stands for the eleven clock edges of a PS/2 frame:   *)
(* the first ten only collect bits that nobody else reads.                 *)
(***************************************************************************)
EXTENDS Naturals, Sequences, SequencesExt

CONSTANTS
    Key,            \* the scan codes of keys
    Ascii,          \* the table of ps2_to_ascii: from some of them to characters
    BUFFER_SIZE,    \* 20 in the code
    MaxAhead        \* how far typing may get ahead of reading

REALEASED_KEY_CODE == "REALEASED_KEY_CODE"
Nul == "NUL"                 \* character 0
Character == Range(Ascii) \cup {"?"}

ASSUME KeyboardAssumption ==
    /\ DOMAIN Ascii \subseteq Key
    /\ REALEASED_KEY_CODE \notin Key
    /\ {"?", Nul} \cap Range(Ascii) = {}
    /\ BUFFER_SIZE \in Nat \ {0}
    /\ MaxAhead \in Nat

VARIABLES
    keyboard_buffer,
    place_in_buffer,                \* where the interrupt writes
    last_unread_character,          \* where the reader reads
    next_charater_is_released,
    reader,                         \* where the reader is in its code
    char_to_return,
    unread                          \* history: characters typed and not yet
                                    \* read, oldest first

keyboardVars == <<keyboard_buffer, place_in_buffer, last_unread_character,
                  next_charater_is_released, reader, char_to_return, unread>>

Place == 0 .. BUFFER_SIZE - 1

KeyboardInit ==
    /\ keyboard_buffer = [i \in Place |-> Nul]
    /\ place_in_buffer = 0
    /\ last_unread_character = 0
    /\ next_charater_is_released = FALSE
    /\ reader = "test"
    /\ char_to_return = Nul
    /\ unread = <<>>

LastN(s, n) == SubSeq(s, Len(s) - n + 1, Len(s))

ps2_to_ascii(code) == IF code \in DOMAIN Ascii THEN Ascii[code] ELSE "?"

(* MUTANT: the index moves on before the character is stored.              *)
add_character_in_buffer_index_first(character) ==
    /\ place_in_buffer' = (place_in_buffer + 1) % BUFFER_SIZE
    /\ keyboard_buffer' = [keyboard_buffer EXCEPT ![place_in_buffer'] = character]
    /\ unread' = Append(unread, character)

(* Nothing tells whether the ring is full.                                 *)
add_character_in_buffer(character) ==
    /\ keyboard_buffer' = [keyboard_buffer EXCEPT ![place_in_buffer] = character]
    /\ place_in_buffer' = (place_in_buffer + 1) % BUFFER_SIZE
    /\ unread' = Append(unread, character)

(* The last edge of a frame: a key that goes down (or repeats), the prefix *)
(* of a key that comes up, or the code after that prefix.                  *)
EINT3_IRQHandler(character_entered) ==
    /\ Len(unread) < MaxAhead
    /\ IF character_entered = REALEASED_KEY_CODE
       THEN /\ next_charater_is_released' = TRUE
            /\ UNCHANGED <<keyboard_buffer, place_in_buffer, unread>>
       ELSE /\ IF next_charater_is_released
               THEN UNCHANGED <<keyboard_buffer, place_in_buffer, unread>>
               ELSE add_character_in_buffer(ps2_to_ascii(character_entered))
            /\ next_charater_is_released' = FALSE
    /\ UNCHANGED <<last_unread_character, reader, char_to_return>>

-----------------------------------------------------------------------------
(* read_character_in_buffer, called in a loop until it returns a character *)

ReaderGoto(from, to) ==
    /\ reader = from
    /\ reader' = to
    /\ UNCHANGED <<keyboard_buffer, place_in_buffer, next_charater_is_released>>

(* An empty ring returns 0 and is tested again.                            *)
ReadTest ==
    /\ place_in_buffer # last_unread_character
    /\ ReaderGoto("test", "copy")
    /\ UNCHANGED <<last_unread_character, char_to_return, unread>>

(* The ring shows the newest characters, their number modulo its size: the *)
(* older ones are lost.                                                    *)
ReadCopy ==
    /\ ReaderGoto("copy", "advance")
    /\ char_to_return' = keyboard_buffer[last_unread_character]
    /\ unread' = LastN(unread, 1 + ((Len(unread) - 1) % BUFFER_SIZE))
    /\ UNCHANGED last_unread_character

ReadAdvance ==
    /\ ReaderGoto("advance", "wrap")
    /\ last_unread_character' = last_unread_character + 1
    /\ unread' = Tail(unread)
    /\ UNCHANGED char_to_return

ReadWrap ==
    /\ ReaderGoto("wrap", "return")
    /\ last_unread_character' =
            IF last_unread_character >= BUFFER_SIZE THEN 0 ELSE last_unread_character
    /\ UNCHANGED <<char_to_return, unread>>

read_character_in_buffer == ReadTest \/ ReadCopy \/ ReadAdvance \/ ReadWrap

-----------------------------------------------------------------------------
(* What the reader would read if no more characters came.                  *)
Readable ==
    [i \in 1 .. (place_in_buffer - last_unread_character) % BUFFER_SIZE |->
        keyboard_buffer[(last_unread_character + i - 1) % BUFFER_SIZE]]

(* Whenever and however often the interrupt comes between the reader's     *)
(* steps, the ring holds exactly what was typed and not read, in order, as *)
(* long as that is less than BUFFER_SIZE characters; after that it holds   *)
(* the newest ones, their number modulo BUFFER_SIZE.  The character the    *)
(* reader is about to return is the oldest one the ring still held when it *)
(* was copied, whatever has been written since.                            *)
RingHoldsUnread ==
    /\ Readable = LastN(unread, Len(unread) % BUFFER_SIZE)
    /\ reader = "advance" => char_to_return = Head(unread)
=============================================================================
