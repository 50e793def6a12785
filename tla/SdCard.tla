------------------------------- MODULE SdCard -------------------------------
(***************************************************************************)
(* The SD card driver (sd.c), the card, and the terminal on the same SPI   *)
(* bus.  The shell's task alone uses the bus: it prints, calls sd_reset or *)
(* sd_read_block, and prints again.  The card may be taken out and put in  *)
(* at any moment, and may fail to answer.                                  *)
(*                                                                         *)
(* A command is one step: its bytes, and the polls for an answer, of which *)
(* a card needs at most eight and the driver makes 256.  An R1 answer is   *)
(* the set of its bits; 0xFF, what an empty bus reads, has them all.       *)
(*                                                                         *)
(* The number of the block goes to the card as it is (sd.c:128 would shift *)
(* it, but is a comment).  A card addressed by byte takes it for the place *)
(* of a byte, and sends the block that begins there, if one does.          *)
(***************************************************************************)
EXTENDS Integers

CONSTANTS
    IdleTries,          \* 254 in sd_reset
    InitTries,          \* 20254 in sd_reset
    BlockSizeTries,     \* 10 in sd_reset
    TokenTries,         \* 1600 in sd_read_block
    BLOCK_SIZE,         \* 512, which CMD16 sets
    Block,              \* the blocks the shell or the file system read
    Garbage             \* what a block buffer holds that came from no block

ASSUME SdAssumption ==
    /\ {IdleTries, InitTries, BlockSizeTries, TokenTries} \subseteq Nat
    /\ Block \subseteq Nat
    /\ BLOCK_SIZE \in Nat \ {0}
    /\ 0 \in Block
    /\ \A b \in Block : b % BLOCK_SIZE = 0 => b \div BLOCK_SIZE \in Block
    /\ Garbage \notin Block

R1Bits == {"IDLE", "ILLEGAL", "ADDRESS", "START"}
NoAnswer == R1Bits                      \* 0xFF; no answer has the start bit
R1_READY_STATE == {}
R1_IDLE_STATE == {"IDLE"}

VARIABLES
    card,               \* the card: state, version, addressing, ...
    sd_selected,        \* chip select P0.0 is low
    terminal_selected,  \* chip select P0.16 is low
    pc, retry,
    block,              \* the argument of sd_read_block
    result,             \* what the last call returned; "NONE" before and during it
    last_sd_error_code, sd_type, sd_block_buffer,
    called,             \* history: the driver function called last
    failing,            \* history: the answer that made the last call fail
    swapped             \* history: the card was taken out during the last
                        \* call or since

driver == <<pc, retry, block, result, last_sd_error_code, sd_type, sd_block_buffer,
            called, failing>>
pins == <<sd_selected, terminal_selected>>
sdVars == <<card, pins, driver, swapped>>

Cards == [ state    : {"absent", "native", "idle", "ready"},
           version  : {1, 2},
           bytes    : BOOLEAN,          \* addressed by byte and not by block
           app      : BOOLEAN,          \* the last command was CMD55
           sized    : BOOLEAN,          \* block length set since CMD0
           sending  : Block \cup {Garbage} ]
Answers == (SUBSET {"IDLE", "ILLEGAL", "ADDRESS"}) \cup {NoAnswer}

NoCard == [state |-> "absent", version |-> 1, bytes |-> TRUE, app |-> FALSE,
           sized |-> FALSE, sending |-> Garbage]

SdInit ==
    /\ card = NoCard
    /\ sd_selected = FALSE
    /\ terminal_selected = FALSE
    /\ pc = "shell"
    /\ retry = 0
    /\ block = 0
    /\ result = "NONE"
    /\ last_sd_error_code = {}
    /\ sd_type = 0
    /\ sd_block_buffer = Garbage
    /\ called = "none"
    /\ failing = {}
    /\ swapped = FALSE

-----------------------------------------------------------------------------
(* The card.  Cards of version 1 are addressed by byte.                    *)

Insert ==
    /\ card.state = "absent"
    /\ \E version \in {1, 2}, bytes \in BOOLEAN :
          /\ version = 1 => bytes
          /\ card' = [NoCard EXCEPT !.state = "native", !.version = version,
                                    !.bytes = bytes]
    /\ UNCHANGED <<pins, driver, swapped>>

Remove ==
    /\ card.state # "absent"
    /\ card' = NoCard
    /\ swapped' = TRUE
    /\ UNCHANGED <<pins, driver>>

(* The card after a command it received.                                   *)
After(state) == [card EXCEPT !.state = state, !.app = FALSE, !.sending = Garbage]

(* What the card makes of the number b of a block: the block it would      *)
(* send, and whether it accepts the number.  It does not send blocks that  *)
(* begin inside one of its own.                                            *)
Addressed(b) == IF card.bytes THEN b \div BLOCK_SIZE ELSE b
IsAddress(b) == card.bytes => b % BLOCK_SIZE = 0

(* What the card may answer to a command, and become.                      *)
Answered(cmd, answer) ==
    LET idle == card.state = "idle"
        bits == IF idle THEN {"IDLE"} ELSE {}
    IN  \/ /\ answer = NoAnswer                 \* none, or not received
           /\ card' = [card EXCEPT !.app = FALSE, !.sending = Garbage]
        \/ /\ cmd = "CMD0"
           /\ card.state # "absent"
           /\ answer = {"IDLE"}
           /\ card' = [After("idle") EXCEPT !.sized = FALSE]
        \/ /\ card.state \in {"idle", "ready"}
           /\ \/ /\ cmd = "CMD8"
                 /\ answer = bits \cup (IF card.version = 1 THEN {"ILLEGAL"} ELSE {})
                 /\ card' = After(card.state)
              \/ /\ cmd = "CMD55"
                 /\ answer = bits
                 /\ card' = [After(card.state) EXCEPT !.app = TRUE]
              \/ /\ cmd = "ACMD41"
                 /\ IF card.app
                    THEN \/ answer = bits /\ card' = After(card.state)
                         \/ answer = {} /\ card' = After("ready")
                    ELSE answer = bits \cup {"ILLEGAL"} /\ card' = After(card.state)
              \/ /\ cmd = "CMD16"
                 /\ IF idle
                    THEN answer = bits \cup {"ILLEGAL"} /\ card' = After(card.state)
                    ELSE answer = {} /\ card' = [After("ready") EXCEPT !.sized = TRUE]
              \/ /\ cmd = "CMD17"
                 /\ IF idle
                    THEN answer = bits \cup {"ILLEGAL"} /\ card' = After(card.state)
                    ELSE IF IsAddress(block)
                    THEN /\ answer = {}
                         /\ card' = [After("ready") EXCEPT !.sending = Addressed(block)]
                    ELSE answer = {"ADDRESS"} /\ card' = After("ready")

-----------------------------------------------------------------------------
(* sd_send_command and sd_send_command_no_release                          *)
sd_send_command(cmd, response) ==
    /\ Answered(cmd, response)
    /\ sd_selected' = FALSE
    /\ UNCHANGED <<terminal_selected, swapped>>

sd_send_command_no_release(cmd, response) ==
    /\ Answered(cmd, response)
    /\ sd_selected' = TRUE
    /\ UNCHANGED <<terminal_selected, swapped>>

Return(value) ==
    /\ pc' = "shell"
    /\ result' = value
    /\ retry' = 0                          \* a local variable

(* One turn of a do-while loop of sd_reset that goes on until `expected`   *)
(* is answered, and gives up after `tries` more turns whatever the answer: *)
(* the bound is tested before the answer.                                  *)
Turn(response, expected, tries, error, next) ==
    IF retry + 1 > tries
    THEN /\ Return(error)
         /\ failing' = response
    ELSE /\ IF response = expected
            THEN pc' = next /\ retry' = 0
            ELSE pc' = pc /\ retry' = retry + 1
         /\ UNCHANGED <<result, failing>>

-----------------------------------------------------------------------------
(* sd_reset, called by the shell's "sdinit" and, through disk_initialize,  *)
(* by "mount"                                                              *)

Call(function, to) ==
    /\ pc = "shell"
    /\ ~terminal_selected
    /\ called' = function
    /\ pc' = to
    /\ result' = "NONE"
    /\ failing' = {}
    /\ swapped' = FALSE
    /\ UNCHANGED <<card, pins, retry, last_sd_error_code, sd_type, sd_block_buffer>>

sd_reset == Call("sd_reset", "CMD0") /\ UNCHANGED block

GoIdle ==
    /\ pc = "CMD0"
    /\ \E response \in Answers :
          /\ sd_send_command("CMD0", response)
          /\ Turn(response, R1_IDLE_STATE, IdleTries, "ERROR_RESET_GO_IDLE", "CMD8")
          /\ last_sd_error_code' =
                IF retry + 1 > IdleTries THEN response ELSE last_sd_error_code
    /\ UNCHANGED <<block, sd_type, sd_block_buffer, called>>

FindType ==
    /\ pc = "CMD8"
    /\ \E response \in Answers :
          /\ sd_send_command("CMD8", response)
          /\ sd_type' = IF "ILLEGAL" \in response THEN 1 ELSE 2
    /\ pc' = "CMD55"
    /\ UNCHANGED <<retry, block, result, last_sd_error_code, sd_block_buffer, called,
                   failing>>

(* sd_send_acmd: CMD55, whose answer is not looked at, and the command.    *)
AppCommand ==
    /\ pc = "CMD55"
    /\ \E response \in Answers : sd_send_command("CMD55", response)
    /\ pc' = "ACMD41"
    /\ UNCHANGED <<retry, block, result, last_sd_error_code, sd_type, sd_block_buffer,
                   called, failing>>

Initialise ==
    /\ pc = "ACMD41"
    /\ \E response \in Answers :
          /\ sd_send_command("ACMD41", response)
          /\ IF retry + 1 > InitTries
             THEN /\ Return("ERROR_INIT")
                  /\ failing' = response
                  /\ last_sd_error_code' = response
             ELSE /\ IF response = R1_READY_STATE
                     THEN pc' = "CMD16" /\ retry' = 0
                     ELSE pc' = "CMD55" /\ retry' = retry + 1
                  /\ UNCHANGED <<result, failing, last_sd_error_code>>
    /\ UNCHANGED <<block, sd_type, sd_block_buffer, called>>

(* The statement that would set last_sd_error_code stands below `return`.  *)
SetBlockSize ==
    /\ pc = "CMD16"
    /\ \E response \in Answers :
          /\ sd_send_command("CMD16", response)
          /\ IF retry + 1 > BlockSizeTries
             THEN /\ Return("ERROR_SET_BLOCK_SIZE")
                  /\ failing' = response
             ELSE /\ IF response = R1_READY_STATE
                     THEN Return("SD_NO_ERROR")
                     ELSE pc' = pc /\ retry' = retry + 1 /\ UNCHANGED result
                  /\ UNCHANGED failing
    /\ UNCHANGED <<block, last_sd_error_code, sd_type, sd_block_buffer, called>>

-----------------------------------------------------------------------------
(* sd_read_block, called by "readsd" and, through disk_readp, by the file  *)
(* system                                                                  *)

sd_read_block(b) == Call("sd_read_block", "CMD17") /\ block' = b

(* MUTANT: an error answer is not kept.                                    *)
ReadCommand_keeps_code ==
    /\ pc = "CMD17"
    /\ \E response \in Answers :
          IF response # R1_READY_STATE
          THEN /\ sd_send_command("CMD17", response)
               /\ Return("SD_CARD_ERROR_CMD17")
               /\ failing' = response
          ELSE /\ sd_send_command_no_release("CMD17", response)
               /\ pc' = "token"
               /\ UNCHANGED <<retry, result, failing>>
    /\ UNCHANGED <<last_sd_error_code, block, sd_type, sd_block_buffer, called>>

(* MUTANT: an error answer leaves the card selected.                       *)
ReadCommand_keeps_selected ==
    /\ pc = "CMD17"
    /\ \E response \in Answers :
          /\ sd_send_command_no_release("CMD17", response)
          /\ last_sd_error_code' = response
          /\ IF response # R1_READY_STATE
             THEN /\ Return("SD_CARD_ERROR_CMD17")
                  /\ failing' = response
             ELSE /\ pc' = "token"
                  /\ UNCHANGED <<retry, result, failing>>
    /\ UNCHANGED <<block, sd_type, sd_block_buffer, called>>

ReadCommand ==
    /\ pc = "CMD17"
    /\ \E response \in Answers :
          /\ last_sd_error_code' = response
          /\ IF response # R1_READY_STATE
             THEN /\ sd_send_command("CMD17", response)
                  /\ Return("SD_CARD_ERROR_CMD17")
                  /\ failing' = response
             ELSE /\ sd_send_command_no_release("CMD17", response)
                  /\ pc' = "token"
                  /\ UNCHANGED <<retry, result, failing>>
    /\ UNCHANGED <<block, sd_type, sd_block_buffer, called>>

(* MUTANT: any byte but 0xFF is taken for the token.                       *)
AwaitToken_any ==
    /\ pc = "token"
    /\ \/ /\ card.sending # Garbage            \* data, or an error token
          /\ card' \in {card, [card EXCEPT !.sending = Garbage]}
          /\ pc' = "data"
          /\ retry' = 0
          /\ UNCHANGED <<result, last_sd_error_code, failing>>
       \/ /\ card' = card
          /\ retry > TokenTries
          /\ Return("SD_CARD_TOKEN_TIME_OUT")
          /\ last_sd_error_code' = NoAnswer
          /\ failing' = NoAnswer
       \/ /\ card' = card
          /\ retry <= TokenTries
          /\ retry' = retry + 1
          /\ UNCHANGED <<pc, result, last_sd_error_code, failing>>
    /\ UNCHANGED <<pins, block, sd_type, sd_block_buffer, called, swapped>>

(* One byte: the start token, or something else (0xFF, or an error token,  *)
(* which is waited out as well).  On the time-out the card stays selected. *)
AwaitToken ==
    /\ pc = "token"
    /\ \/ /\ card.sending # Garbage
          /\ pc' = "data"
          /\ retry' = 0
          /\ UNCHANGED <<result, last_sd_error_code, failing>>
       \/ /\ retry > TokenTries
          /\ Return("SD_CARD_TOKEN_TIME_OUT")
          /\ last_sd_error_code' = NoAnswer
          /\ failing' = NoAnswer
       \/ /\ retry <= TokenTries
          /\ retry' = retry + 1
          /\ UNCHANGED <<pc, result, last_sd_error_code, failing>>
    /\ UNCHANGED <<card, pins, block, sd_type, sd_block_buffer, called, swapped>>

(* 512 bytes, and a CRC that is not looked at.                             *)
ReadData ==
    /\ pc = "data"
    /\ sd_block_buffer' = card.sending
    /\ card' = [card EXCEPT !.sending = Garbage]
    /\ Return("SD_NO_ERROR")
    /\ sd_selected' = FALSE
    /\ UNCHANGED <<terminal_selected, block, last_sd_error_code, sd_type, called,
                   failing, swapped>>

-----------------------------------------------------------------------------
(* The shell prints: __start ... __end.  A card that is still selected     *)
(* gets the bytes as well: whatever it was sending ends.                   *)

__start ==
    /\ pc = "shell"
    /\ ~terminal_selected
    /\ terminal_selected' = TRUE
    /\ card' = IF sd_selected THEN [card EXCEPT !.sending = Garbage, !.app = FALSE]
               ELSE card
    /\ UNCHANGED <<sd_selected, driver, swapped>>

__end ==
    /\ terminal_selected
    /\ terminal_selected' = FALSE
    /\ UNCHANGED <<card, sd_selected, driver, swapped>>

DriverStep ==
    \/ GoIdle \/ FindType \/ AppCommand \/ Initialise \/ SetBlockSize
    \/ ReadCommand \/ AwaitToken \/ ReadData

SdNext ==
    \/ Insert \/ Remove
    \/ __start \/ __end
    \/ sd_reset
    \/ \E b \in Block : sd_read_block(b)
    \/ DriverStep

(* The driver runs when it is called: nothing is assumed of the card.      *)
SdSpec == SdInit /\ [][SdNext]_sdVars /\ WF_sdVars(DriverStep)

-----------------------------------------------------------------------------
Results == {"NONE", "SD_NO_ERROR", "ERROR_RESET_GO_IDLE", "ERROR_INIT",
            "ERROR_SET_BLOCK_SIZE", "SD_CARD_ERROR_CMD17", "SD_CARD_TOKEN_TIME_OUT"}

(* The most turns the loop at pc can have made: each loop has its own.     *)
Tries ==
    CASE pc = "CMD0"              -> IdleTries
      [] pc \in {"CMD55", "ACMD41"} -> InitTries
      [] pc = "CMD16"             -> BlockSizeTries
      [] pc = "token"             -> TokenTries + 1
      [] OTHER                    -> 0

(* Types, and a retry count that every loop of the driver starts at zero.  *)
SdTypeOK ==
    /\ card \in Cards
    /\ pc \in {"shell", "CMD0", "CMD8", "CMD55", "ACMD41", "CMD16",
               "CMD17", "token", "data"}
    /\ retry \in 0 .. Tries
    /\ block \in Block
    /\ result \in Results
    /\ last_sd_error_code \in Answers
    /\ sd_type \in 0 .. 2
    /\ sd_block_buffer \in Block \cup {Garbage}

(* "Success!": unless it was taken out meanwhile, the card that answered   *)
(* is initialised and its blocks have 512 bytes: a card put in between two *)
(* of the commands is not taken for one that had them all.                 *)
SuccessMeansReady ==
    pc = "shell" /\ called = "sd_reset" /\ result = "SD_NO_ERROR" /\ ~swapped =>
        card.state = "ready" /\ card.sized

(* "SD_NO_ERROR": unless the card was taken out meanwhile, the buffer has  *)
(* the whole of the block that was asked for, if the card is addressed by  *)
(* block.  If it is addressed by byte, the buffer has the block that       *)
(* begins at the byte of that number, which is another one for any number  *)
(* but 0, and only a number at which a block begins is read.               *)
ReadsTheBlock ==
    pc = "shell" /\ called = "sd_read_block" /\ result = "SD_NO_ERROR" /\ ~swapped =>
        IF card.bytes
        THEN sd_block_buffer \in Block /\ sd_block_buffer * BLOCK_SIZE = block
        ELSE sd_block_buffer = block

(* Outside the driver the card is deselected, so that what the shell       *)
(* prints goes to the terminal alone: except after a time-out, until the   *)
(* next call.                                                              *)
BusIsTheTerminals ==
    pc = "shell" /\ sd_selected => result = "SD_CARD_TOKEN_TIME_OUT"

(* main.c prints "Error code : " and sd_get_error_code() after an error:   *)
(* the code is the answer that made this call fail and not a former one,   *)
(* whatever was called between.  (Not so after ERROR_SET_BLOCK_SIZE, see   *)
(* README: sd.c:115 is below its `return'.)                                *)
ErrorCodeIsOfThisCall ==
    pc = "shell" /\ result \notin {"NONE", "SD_NO_ERROR", "ERROR_SET_BLOCK_SIZE"} =>
        last_sd_error_code = failing
=============================================================================
