-------------------------------- MODULE Shell --------------------------------
(***************************************************************************)
(* The shell (fooTask1_func) on top of the keyboard: it collects a line    *)
(* and, on Return, executes it as a command.  What a command does (print,  *)
(* read the SD card) is not modelled, only that it takes time, in which    *)
(* typing goes on.                                                         *)
(***************************************************************************)
EXTENDS Keyboard

CONSTANTS
    Return,                 \* character 180
    COMMAND_BUFFER_SIZE     \* 40 in the code

ASSUME ShellAssumption ==
    /\ Return \in Range(Ascii)
    /\ COMMAND_BUFFER_SIZE \in Nat \ {0}

VARIABLES
    command_buffer,
    buf_place,
    line        \* history: the characters read since the last Return, as many
                \* as the buffer has room for next to the final '\0'

vars == <<keyboardVars, command_buffer, buf_place, line>>

Init ==
    /\ KeyboardInit
    /\ command_buffer \in [0 .. COMMAND_BUFFER_SIZE - 1 -> Character \cup {Nul}]  \* never set
    /\ buf_place = 0
    /\ line = <<>>

(* MUTANT: the comparison with Return fails, as it would if char were      *)
(* signed.                                                                 *)
StoreCharacter_takes_return ==
    /\ reader = "return"
    /\ command_buffer' = [command_buffer EXCEPT ![buf_place] = char_to_return]
    /\ buf_place' = IF buf_place + 1 = COMMAND_BUFFER_SIZE
                    THEN buf_place ELSE buf_place + 1
    /\ line' = IF Len(line) < COMMAND_BUFFER_SIZE - 1
               THEN Append(line, char_to_return) ELSE line
    /\ reader' = "test"
    /\ UNCHANGED <<keyboard_buffer, place_in_buffer, last_unread_character,
                   next_charater_is_released, char_to_return, unread>>

StoreCharacter ==
    /\ reader = "return" /\ char_to_return # Return
    /\ command_buffer' = [command_buffer EXCEPT ![buf_place] = char_to_return]
    /\ buf_place' = IF buf_place + 1 = COMMAND_BUFFER_SIZE
                    THEN buf_place ELSE buf_place + 1
    /\ line' = IF Len(line) < COMMAND_BUFFER_SIZE - 1
               THEN Append(line, char_to_return) ELSE line
    /\ reader' = "test"
    /\ UNCHANGED <<keyboard_buffer, place_in_buffer, last_unread_character,
                   next_charater_is_released, char_to_return, unread>>

EndLine ==
    /\ reader = "return" /\ char_to_return = Return
    /\ command_buffer' = [command_buffer EXCEPT ![buf_place] = Nul]
    /\ reader' = "execute"
    /\ UNCHANGED <<keyboard_buffer, place_in_buffer, last_unread_character,
                   next_charater_is_released, char_to_return, unread,
                   buf_place, line>>

(* MUTANT: the place is not reset after a command.                         *)
ExecuteCommand_keeps_place ==
    /\ reader = "execute"
    /\ line' = <<>>
    /\ reader' = "test"
    /\ UNCHANGED <<keyboard_buffer, place_in_buffer, last_unread_character,
                   next_charater_is_released, char_to_return, unread,
                   command_buffer, buf_place>>

ExecuteCommand ==
    /\ reader = "execute"
    /\ buf_place' = 0
    /\ line' = <<>>
    /\ reader' = "test"
    /\ UNCHANGED <<keyboard_buffer, place_in_buffer, last_unread_character,
                   next_charater_is_released, char_to_return, unread,
                   command_buffer>>

ReadStep ==
    /\ read_character_in_buffer
    /\ UNCHANGED <<command_buffer, buf_place, line>>

fooTask1_func == ReadStep \/ StoreCharacter \/ EndLine \/ ExecuteCommand

Typing ==
    /\ \E code \in Key \cup {REALEASED_KEY_CODE} : EINT3_IRQHandler(code)
    /\ UNCHANGED <<command_buffer, buf_place, line>>

Next == Typing \/ fooTask1_func

Spec == Init /\ [][Next]_vars

(* The shell polls the ring for ever; nobody has to type.                  *)
FairSpec == Spec /\ WF_vars(fooTask1_func)

-----------------------------------------------------------------------------
TypeOK ==
    /\ keyboard_buffer \in [Place -> Character \cup {Nul}]
    /\ place_in_buffer \in Place
    /\ last_unread_character \in 0 .. BUFFER_SIZE
    /\ next_charater_is_released \in BOOLEAN
    /\ reader \in {"test", "copy", "advance", "wrap", "return", "execute"}
    /\ char_to_return \in Character \cup {Nul}
    /\ unread \in BoundedSeq(Character, MaxAhead)
    /\ command_buffer \in [0 .. COMMAND_BUFFER_SIZE - 1 -> Character \cup {Nul}]
    /\ buf_place \in 0 .. COMMAND_BUFFER_SIZE - 1

(* The string that is compared with the names of the commands is the line  *)
(* typed, cut off where the buffer ends, and nothing of an earlier line.   *)
ExecutesTheLine ==
    /\ TypeOK
    /\ reader = "execute" =>
          /\ command_buffer[buf_place] = Nul
          /\ [i \in 1 .. buf_place |-> command_buffer[i - 1]] = line

(* A line ended with Return is executed, however the interrupt and the     *)
(* reader interleave, if typing never gets BUFFER_SIZE characters ahead.   *)
ReturnIsAnswered ==
    [](Len(unread) < BUFFER_SIZE) =>
        (Return \in ToSet(unread) ~> reader = "execute")
=============================================================================
