------------------------------ MODULE SdProofs ------------------------------
(***************************************************************************)
(* What the answers of the SD driver and of pf_mount mean, for any numbers *)
(* of retries, any blocks, anything that may be on a card, and a card that *)
(* is exchanged or silent at any moment.                                   *)
(***************************************************************************)
EXTENDS Mount, TLAPS

(* While a block is awaited from the card that accepted the command, that  *)
(* card is sending what it made of the block's number; and it is still     *)
(* there when the block has been read.                                     *)
SendsTheBlock ==
    ~swapped =>
        /\ pc \in {"token", "data"} => /\ card.state = "ready"
                                      /\ card.sending = Addressed(block)
                                      /\ IsAddress(block)
        /\ pc = "shell" /\ called = "sd_read_block" /\ result = "SD_NO_ERROR" =>
              card.state = "ready"

(* The code of a function is executed by its calls.                        *)
Resetting == {"CMD0", "CMD8", "CMD55", "ACMD41", "CMD16"}
CodeIsCalled ==
    /\ pc \in Resetting => called = "sd_reset"
    /\ pc \in {"CMD17", "token", "data"} => called = "sd_read_block"

(* The inductive invariant.                                                *)
SdInv ==
    /\ SdTypeOK
    /\ SuccessMeansReady
    /\ ReadsTheBlock
    /\ BusIsTheTerminals
    /\ SendsTheBlock
    /\ CodeIsCalled

LEMMA SdInitInv == SdInit => SdInv
BY SdAssumption
   DEF SdInit, SdInv, SdTypeOK, SuccessMeansReady, ReadsTheBlock, BusIsTheTerminals,
       SendsTheBlock, CodeIsCalled, Resetting, Cards, NoCard, Answers, Results, Tries

-----------------------------------------------------------------------------
(* A number that a card accepts is made a block, and 0 always block 0.     *)
LEMMA AddressedIs ==
    ASSUME NEW b \in Block
    PROVE  /\ IsAddress(b) => Addressed(b) \in Block /\ Addressed(b) \in Nat
           /\ IsAddress(b) => IF card.bytes THEN Addressed(b) * BLOCK_SIZE = b
                                           ELSE Addressed(b) = b
           /\ IsAddress(0) /\ Addressed(0) = 0
<1>1. b \in Nat /\ BLOCK_SIZE \in Nat \ {0} /\ Block \subseteq Nat
  BY SdAssumption
<1>2. b % BLOCK_SIZE = 0 => b \div BLOCK_SIZE \in Block /\ (b \div BLOCK_SIZE) * BLOCK_SIZE = b
  BY <1>1, SdAssumption
<1>3. 0 % BLOCK_SIZE = 0 /\ 0 \div BLOCK_SIZE = 0
  BY <1>1
<1>. QED  BY <1>1, <1>2, <1>3 DEF Addressed, IsAddress

(* What is known of the card after a command.                              *)
LEMMA AnsweredIs ==
    ASSUME SdTypeOK, NEW cmd, NEW answer, Answered(cmd, answer)
    PROVE  /\ card' \in Cards
           /\ card'.bytes = card.bytes
           /\ cmd = "CMD16" /\ answer = {} => card'.state = "ready" /\ card'.sized
           /\ cmd = "CMD17" /\ answer = {} => /\ card'.state = "ready"
                                              /\ card'.sending = Addressed(block)
                                              /\ IsAddress(block)
<1>0. card \in Cards /\ block \in Block
  BY DEF SdTypeOK
<1>1. ASSUME NEW state \in {"native", "idle", "ready"}
      PROVE  /\ After(state) \in Cards
             /\ After(state).state = state
             /\ After(state).bytes = card.bytes
  BY <1>0 DEF After, Cards
<1>2. CASE answer = NoAnswer /\ card' = [card EXCEPT !.app = FALSE, !.sending = Garbage]
  BY <1>0, <1>2 DEF Cards, NoAnswer, R1Bits
<1>3. CASE cmd = "CMD0" /\ card' = [After("idle") EXCEPT !.sized = FALSE]
  BY <1>1, <1>3 DEF Cards
<1>4. CASE /\ cmd \in {"CMD8", "CMD55", "ACMD41"}
           /\ card' \in {After(card.state), [After(card.state) EXCEPT !.app = TRUE],
                         After("ready")}
           /\ card.state \in {"idle", "ready"}
  BY <1>1, <1>4 DEF Cards
<1>5. CASE /\ cmd \in {"CMD16", "CMD17"}
           /\ card.state \in {"idle", "ready"}
           /\ answer # {} /\ card' \in {After(card.state), After("ready")}
  BY <1>1, <1>5
<1>6. CASE cmd = "CMD16" /\ card' = [After("ready") EXCEPT !.sized = TRUE]
  BY <1>1, <1>6 DEF Cards
<1>7. CASE /\ cmd = "CMD17"
           /\ IsAddress(block)
           /\ card' = [After("ready") EXCEPT !.sending = Addressed(block)]
  <2>1. Addressed(block) \in Block
    BY <1>0, <1>7, AddressedIs
  <2>2. /\ [After("ready") EXCEPT !.sending = Addressed(block)] \in Cards
        /\ [After("ready") EXCEPT !.sending = Addressed(block)].state = "ready"
        /\ [After("ready") EXCEPT !.sending = Addressed(block)].bytes = card.bytes
        /\ [After("ready") EXCEPT !.sending = Addressed(block)].sending = Addressed(block)
    BY <1>1, <2>1 DEF Cards
  <2>. QED  BY <1>7, <2>2
<1>. QED
  BY <1>2, <1>3, <1>4, <1>5, <1>6, <1>7 DEF Answered

-----------------------------------------------------------------------------
(* What every command does to what the invariant speaks of.                *)
LEMMA CommandIs ==
    ASSUME SdTypeOK, NEW cmd, NEW response, sd_send_command(cmd, response)
    PROVE  /\ card' \in Cards
           /\ card'.bytes = card.bytes
           /\ sd_selected' = FALSE
           /\ swapped' = swapped
           /\ cmd = "CMD16" /\ response = {} => card'.state = "ready" /\ card'.sized
BY AnsweredIs DEF sd_send_command

(* A step of sd_reset inside a loop, or out of one with an error.          *)
LEMMA ResetStep ==
    ASSUME SdInv, card' \in Cards, sd_selected' = FALSE, swapped' = swapped,
           UNCHANGED <<block, sd_block_buffer, called>>,
           last_sd_error_code' \in Answers, sd_type' \in 0 .. 2,
           \/ /\ pc \in Resetting
              /\ pc' \in Resetting
              /\ result' = result
           \/ /\ pc' = "shell"
              /\ result' \in {"ERROR_RESET_GO_IDLE", "ERROR_INIT",
                              "ERROR_SET_BLOCK_SIZE", "SD_CARD_ERROR_CMD17"},
           retry' \in 0 .. Tries'
    PROVE  SdInv'
<1>1. SdTypeOK'
  BY DEF SdInv, SdTypeOK, Results, Resetting
<1>2. SuccessMeansReady' /\ ReadsTheBlock' /\ BusIsTheTerminals' /\ SendsTheBlock'
  BY DEF Resetting, SuccessMeansReady, ReadsTheBlock, BusIsTheTerminals, SendsTheBlock
<1>3. CodeIsCalled'
  BY DEF Resetting, SdInv, CodeIsCalled
<1>. QED  BY <1>1, <1>2, <1>3 DEF SdInv

LEMMA Bounds ==
    ASSUME SdInv
    PROVE  /\ retry \in 0 .. Tries
           /\ \A n \in {IdleTries, InitTries, BlockSizeTries, TokenTries} : n \in Nat
           /\ Tries \in Nat
BY SdAssumption DEF SdInv, SdTypeOK, Tries

LEMMA GoIdleInv == SdInv /\ GoIdle => SdInv'
<1>. SUFFICES ASSUME SdInv, GoIdle PROVE SdInv'
  OBVIOUS
<1>1. PICK response \in Answers :
          /\ sd_send_command("CMD0", response)
          /\ Turn(response, R1_IDLE_STATE, IdleTries, "ERROR_RESET_GO_IDLE", "CMD8")
          /\ last_sd_error_code' =
                IF retry + 1 > IdleTries THEN response ELSE last_sd_error_code
  BY DEF GoIdle
<1>2. /\ card' \in Cards
      /\ sd_selected' = FALSE
      /\ swapped' = swapped
      /\ UNCHANGED <<block, sd_block_buffer, called>>
      /\ last_sd_error_code' \in Answers
      /\ sd_type' \in 0 .. 2
  BY <1>1, CommandIs DEF SdInv, SdTypeOK, GoIdle
<1>3. /\ \/ pc \in Resetting /\ pc' \in Resetting /\ result' = result
         \/ pc' = "shell" /\ result' = "ERROR_RESET_GO_IDLE"
      /\ retry' \in 0 .. Tries'
  BY <1>1, Bounds DEF Turn, Return, GoIdle, Tries, Resetting
<1>. QED  BY <1>2, <1>3, ResetStep

LEMMA FindTypeInv == SdInv /\ FindType => SdInv'
<1>. SUFFICES ASSUME SdInv, FindType PROVE SdInv'
  OBVIOUS
<1>1. PICK response \in Answers :
          /\ sd_send_command("CMD8", response)
          /\ sd_type' = IF "ILLEGAL" \in response THEN 1 ELSE 2
  BY DEF FindType
<1>2. card' \in Cards /\ sd_selected' = FALSE /\ swapped' = swapped
  BY <1>1, CommandIs DEF SdInv
<1>3. /\ pc \in Resetting /\ pc' \in Resetting /\ result' = result
      /\ retry' \in 0 .. Tries'
  BY Bounds DEF FindType, Tries, Resetting
<1>4. /\ UNCHANGED <<block, sd_block_buffer, called>>
      /\ last_sd_error_code' \in Answers
      /\ sd_type' \in 0 .. 2
  BY <1>1 DEF FindType, SdInv, SdTypeOK
<1>. QED  BY <1>2, <1>3, <1>4, ResetStep

LEMMA AppCommandInv == SdInv /\ AppCommand => SdInv'
<1>. SUFFICES ASSUME SdInv, AppCommand PROVE SdInv'
  OBVIOUS
<1>1. card' \in Cards /\ sd_selected' = FALSE /\ swapped' = swapped
  BY CommandIs DEF SdInv, AppCommand
<1>2. /\ pc \in Resetting /\ pc' \in Resetting /\ result' = result
      /\ retry' \in 0 .. Tries'
  BY Bounds DEF AppCommand, Tries, Resetting
<1>. QED  BY <1>1, <1>2, ResetStep DEF AppCommand, SdInv, SdTypeOK

LEMMA InitialiseInv == SdInv /\ Initialise => SdInv'
<1>. SUFFICES ASSUME SdInv, Initialise PROVE SdInv'
  OBVIOUS
<1>1. /\ card' \in Cards
      /\ sd_selected' = FALSE
      /\ swapped' = swapped
      /\ last_sd_error_code' \in Answers
      /\ \/ pc \in Resetting /\ pc' \in Resetting /\ result' = result
         \/ pc' = "shell" /\ result' = "ERROR_INIT"
      /\ retry' \in 0 .. Tries'
  <2>1. PICK response \in Answers :
            /\ sd_send_command("ACMD41", response)
            /\ IF retry + 1 > InitTries
               THEN /\ Return("ERROR_INIT")
                    /\ last_sd_error_code' = response
               ELSE /\ IF response = R1_READY_STATE
                       THEN pc' = "CMD16" /\ retry' = 0
                       ELSE pc' = "CMD55" /\ retry' = retry + 1
                    /\ UNCHANGED <<result, last_sd_error_code>>
    BY DEF Initialise
  <2>2. card' \in Cards /\ sd_selected' = FALSE /\ swapped' = swapped
    BY <2>1, CommandIs DEF SdInv
  <2>3. /\ \/ pc \in Resetting /\ pc' \in Resetting /\ result' = result
           \/ pc' = "shell" /\ result' = "ERROR_INIT"
        /\ retry' \in 0 .. Tries'
    BY <2>1, Bounds DEF Return, Initialise, Tries, Resetting
  <2>4. last_sd_error_code' \in Answers
    BY <2>1 DEF SdInv, SdTypeOK
  <2>. QED  BY <2>2, <2>3, <2>4
<1>. QED  BY <1>1, ResetStep DEF Initialise, SdInv, SdTypeOK

LEMMA SetBlockSizeInv == SdInv /\ SetBlockSize => SdInv'
<1>. SUFFICES ASSUME SdInv, SetBlockSize PROVE SdInv'
  OBVIOUS
<1>1. PICK response \in Answers :
          /\ sd_send_command("CMD16", response)
          /\ IF retry + 1 > BlockSizeTries
             THEN Return("ERROR_SET_BLOCK_SIZE")
             ELSE IF response = R1_READY_STATE
                  THEN Return("SD_NO_ERROR")
                  ELSE pc' = pc /\ retry' = retry + 1 /\ UNCHANGED result
  BY DEF SetBlockSize
<1>2. /\ card' \in Cards
      /\ sd_selected' = FALSE
      /\ swapped' = swapped
      /\ response = {} => card'.state = "ready" /\ card'.sized
  BY <1>1, CommandIs DEF SdInv
<1>3. retry' \in 0 .. Tries'
  BY <1>1, Bounds DEF Return, SetBlockSize, Tries
<1>4. CASE result' = "SD_NO_ERROR" /\ pc' = "shell" /\ response = {}
  <2>1. SdTypeOK'
    BY <1>2, <1>3, <1>4 DEF SdInv, SdTypeOK, SetBlockSize, Results
  <2>. QED
    BY <1>2, <1>4, <2>1 DEF SdInv, SuccessMeansReady, ReadsTheBlock, BusIsTheTerminals,
       SendsTheBlock, SetBlockSize, CodeIsCalled, Resetting
<1>5. CASE \/ pc \in Resetting /\ pc' \in Resetting /\ result' = result
           \/ pc' = "shell" /\ result' = "ERROR_SET_BLOCK_SIZE"
  BY <1>2, <1>3, <1>5, ResetStep DEF SetBlockSize, SdInv, SdTypeOK
<1>. QED  BY <1>1, <1>4, <1>5 DEF Return, R1_READY_STATE, SetBlockSize, Resetting

-----------------------------------------------------------------------------
LEMMA CallInv ==
    ASSUME SdInv, NEW function, NEW to, Call(function, to), block' \in Block,
           \/ function = "sd_reset" /\ to = "CMD0"
           \/ function = "sd_read_block" /\ to = "CMD17"
    PROVE  SdInv'
<1>1. SdTypeOK'
  BY Bounds DEF Call, pins, SdInv, SdTypeOK, Results, Tries
<1>2. /\ SuccessMeansReady' /\ ReadsTheBlock' /\ BusIsTheTerminals' /\ SendsTheBlock'
      /\ CodeIsCalled'
  BY DEF Call, SuccessMeansReady, ReadsTheBlock, BusIsTheTerminals, SendsTheBlock,
         CodeIsCalled, Resetting
<1>. QED  BY <1>1, <1>2 DEF SdInv

LEMMA ReadCommandInv == SdInv /\ ReadCommand => SdInv'
<1>. SUFFICES ASSUME SdInv, ReadCommand PROVE SdInv'
  OBVIOUS
<1>1. PICK response \in Answers :
          /\ last_sd_error_code' = response
          /\ IF response # R1_READY_STATE
             THEN /\ sd_send_command("CMD17", response)
                  /\ Return("SD_CARD_ERROR_CMD17")
             ELSE /\ sd_send_command_no_release("CMD17", response)
                  /\ pc' = "token"
                  /\ UNCHANGED <<retry, result>>
  BY DEF ReadCommand
<1>2. CASE response # R1_READY_STATE
  <2>1. card' \in Cards /\ sd_selected' = FALSE /\ swapped' = swapped
    BY <1>1, <1>2, CommandIs DEF SdInv
  <2>2. pc' = "shell" /\ result' = "SD_CARD_ERROR_CMD17" /\ retry' \in 0 .. Tries'
    BY <1>1, <1>2 DEF Return, Tries
  <2>3. /\ UNCHANGED <<block, sd_block_buffer, called>>
        /\ last_sd_error_code' \in Answers
        /\ sd_type' \in 0 .. 2
    BY <1>1 DEF ReadCommand, SdInv, SdTypeOK
  <2>. QED  BY <2>1, <2>2, <2>3, ResetStep
<1>3. CASE response = R1_READY_STATE
  <2>1. /\ pc' = "token" /\ retry' = retry /\ result' = result
        /\ card' \in Cards /\ card'.state = "ready" /\ card'.bytes = card.bytes
        /\ card'.sending = Addressed(block) /\ IsAddress(block)
        /\ UNCHANGED <<block, sd_type, sd_block_buffer, called>>
    BY <1>1, <1>3, AnsweredIs
       DEF sd_send_command_no_release, R1_READY_STATE, SdInv, ReadCommand
  <2>2. SdTypeOK'
    BY <1>1, <2>1, Bounds DEF SdInv, SdTypeOK, Tries, ReadCommand
  <2>3. /\ SuccessMeansReady' /\ ReadsTheBlock' /\ BusIsTheTerminals' /\ SendsTheBlock'
        /\ CodeIsCalled'
    BY <2>1 DEF SuccessMeansReady, ReadsTheBlock, BusIsTheTerminals, SendsTheBlock,
            SdInv, CodeIsCalled, Resetting, ReadCommand, Addressed, IsAddress
  <2>. QED  BY <2>2, <2>3 DEF SdInv
<1>. QED  BY <1>2, <1>3

LEMMA AwaitTokenInv == SdInv /\ AwaitToken => SdInv'
<1>. SUFFICES ASSUME SdInv, AwaitToken PROVE SdInv'
  OBVIOUS
<1>0. /\ pc = "token" /\ called = "sd_read_block"
      /\ UNCHANGED <<card, sd_selected, block, sd_type, sd_block_buffer, called, swapped>>
  BY DEF AwaitToken, pins, SdInv, CodeIsCalled
<1>1. CASE pc' = "data" /\ retry' = 0 /\ UNCHANGED <<result, last_sd_error_code>>
  BY <1>0, <1>1 DEF SdInv, SdTypeOK, Tries, SuccessMeansReady, ReadsTheBlock,
     BusIsTheTerminals, SendsTheBlock, CodeIsCalled, Resetting, Addressed, IsAddress
<1>2. CASE Return("SD_CARD_TOKEN_TIME_OUT") /\ last_sd_error_code' = NoAnswer
  <2>1. pc' = "shell" /\ result' = "SD_CARD_TOKEN_TIME_OUT" /\ retry' = 0
    BY <1>2 DEF Return
  <2>2. last_sd_error_code' \in Answers
    BY <1>2 DEF Answers
  <2>3. SdTypeOK'
    BY <1>0, <2>1, <2>2 DEF SdInv, SdTypeOK, Tries, Results
  <2>4. /\ SuccessMeansReady' /\ ReadsTheBlock' /\ BusIsTheTerminals' /\ SendsTheBlock'
        /\ CodeIsCalled'
    BY <2>1 DEF SuccessMeansReady, ReadsTheBlock, BusIsTheTerminals, SendsTheBlock,
       CodeIsCalled, Resetting
  <2>. QED  BY <2>3, <2>4 DEF SdInv
<1>3. CASE /\ retry <= TokenTries /\ retry' = retry + 1
           /\ UNCHANGED <<pc, result, last_sd_error_code>>
  BY <1>0, <1>3, Bounds DEF SdInv, SdTypeOK, Tries, SuccessMeansReady, ReadsTheBlock,
     BusIsTheTerminals, SendsTheBlock, CodeIsCalled, Resetting, Addressed, IsAddress
<1>. QED  BY <1>1, <1>2, <1>3 DEF AwaitToken

LEMMA ReadDataInv == SdInv /\ ReadData => SdInv'
<1>. SUFFICES ASSUME SdInv, ReadData PROVE SdInv'
  OBVIOUS
<1>1. /\ pc = "data" /\ called = "sd_read_block"
      /\ pc' = "shell" /\ result' = "SD_NO_ERROR" /\ retry' = 0
      /\ sd_block_buffer' = card.sending
      /\ card' \in Cards
      /\ card'.bytes = card.bytes /\ card'.state = card.state
      /\ card.sending \in Block \cup {Garbage}
      /\ block \in Block
      /\ sd_selected' = FALSE
      /\ UNCHANGED <<block, last_sd_error_code, sd_type, called, swapped>>
  BY DEF ReadData, Return, SdInv, CodeIsCalled, SdTypeOK, Cards
<1>2. SdTypeOK'
  BY <1>1 DEF SdInv, SdTypeOK, Tries, Results
<1>3. ReadsTheBlock'
  <2>. SUFFICES ASSUME ~swapped
                PROVE  IF card.bytes
                       THEN card.sending \in Block /\ card.sending * BLOCK_SIZE = block
                       ELSE card.sending = block
    BY <1>1 DEF ReadsTheBlock
  <2>1. card.sending = Addressed(block) /\ IsAddress(block)
    BY <1>1 DEF SdInv, SendsTheBlock
  <2>. QED  BY <1>1, <2>1, AddressedIs
<1>4. SuccessMeansReady' /\ BusIsTheTerminals' /\ SendsTheBlock' /\ CodeIsCalled'
  BY <1>1 DEF SdInv, SuccessMeansReady, BusIsTheTerminals, SendsTheBlock, CodeIsCalled,
     Resetting
<1>. QED  BY <1>2, <1>3, <1>4 DEF SdInv

-----------------------------------------------------------------------------
(* The driver does nothing: the card comes or goes, or the shell prints.   *)
LEMMA OthersInv ==
    SdInv /\ (Insert \/ Remove \/ __start \/ __end \/ UNCHANGED sdVars) => SdInv'
<1>. SUFFICES ASSUME SdInv, Insert \/ Remove \/ __start \/ __end \/ UNCHANGED sdVars
              PROVE  SdInv'
  OBVIOUS
<1>1. UNCHANGED <<driver, sd_selected>>
  BY DEF Insert, Remove, __start, __end, sdVars, pins, driver
<1>2. card \in Cards
  BY DEF SdInv, SdTypeOK
<1>3. card' \in Cards
  <2>1. NoCard \in Cards
    BY DEF NoCard, Cards
  <2>2. CASE Insert
    <3>1. PICK version \in {1, 2}, bytes \in BOOLEAN :
              card' = [NoCard EXCEPT !.state = "native", !.version = version,
                                     !.bytes = bytes]
      BY <2>2 DEF Insert
    <3>. QED  BY <3>1, <2>1 DEF Cards
  <2>3. CASE Remove
    BY <2>3, <2>1 DEF Remove
  <2>4. CASE __start
    BY <2>4, <1>2 DEF __start, Cards
  <2>5. CASE __end \/ UNCHANGED sdVars
    BY <2>5, <1>2 DEF __end, sdVars
  <2>. QED  BY <2>2, <2>3, <2>4, <2>5
<1>4. \/ swapped'
      \/ card.state = "absent" /\ swapped' = swapped
      \/ /\ swapped' = swapped
         /\ card'.state = card.state
         /\ card'.sized = card.sized
         /\ card'.bytes = card.bytes
         /\ pc # "shell" => card' = card
  BY <1>2 DEF Insert, Remove, __start, __end, sdVars, Cards
<1>5. SdTypeOK'
  BY <1>1, <1>3 DEF driver, SdInv, SdTypeOK, Tries
<1>6. /\ SuccessMeansReady' /\ ReadsTheBlock' /\ BusIsTheTerminals' /\ SendsTheBlock'
      /\ CodeIsCalled'
  BY <1>1, <1>4 DEF driver, SdInv, SuccessMeansReady, ReadsTheBlock, BusIsTheTerminals,
     SendsTheBlock, CodeIsCalled, Addressed, IsAddress
<1>. QED  BY <1>5, <1>6 DEF SdInv

LEMMA SdStepInv == SdInv /\ [SdNext]_sdVars => SdInv'
<1>. SUFFICES ASSUME SdInv, [SdNext]_sdVars PROVE SdInv'
  OBVIOUS
<1>1. CASE sd_reset
  <2>1. block' \in Block
    BY <1>1 DEF sd_reset, SdInv, SdTypeOK
  <2>. QED  BY <1>1, <2>1, CallInv DEF sd_reset
<1>2. ASSUME NEW b \in Block, sd_read_block(b) PROVE SdInv'
  BY <1>2, CallInv DEF sd_read_block
<1>3. CASE DriverStep
  BY <1>3, GoIdleInv, FindTypeInv, AppCommandInv, InitialiseInv, SetBlockSizeInv,
     ReadCommandInv, AwaitTokenInv, ReadDataInv DEF DriverStep
<1>. QED  BY <1>1, <1>2, <1>3, OthersInv DEF SdNext

LEMMA SdInvariant == SdSpec => []SdInv
BY SdInitInv, SdStepInv, PTL DEF SdSpec

(* Every state of driver and card is well typed, and each loop counts its  *)
(* turns from zero up to its own bound.                                    *)
THEOREM SdTypes == SdSpec => []SdTypeOK
<1>1. SdInv => SdTypeOK
  BY DEF SdInv
<1>. QED  BY <1>1, SdInvariant, PTL

(* "Success!" is only said of a card that went through the whole of the    *)
(* initialisation, or of one that was taken out since.                     *)
THEOREM SuccessIsReady == SdSpec => []SuccessMeansReady
<1>1. SdInv => SuccessMeansReady
  BY DEF SdInv
<1>. QED  BY <1>1, SdInvariant, PTL

(* A read that succeeds, while the card stays in, leaves in the buffer the *)
(* block that was asked for if the card is addressed by block, and the one *)
(* that begins at the byte of that number if it is addressed by byte.      *)
THEOREM ReadIsTheBlock == SdSpec => []ReadsTheBlock
<1>1. SdInv => ReadsTheBlock
  BY DEF SdInv
<1>. QED  BY <1>1, SdInvariant, PTL

(* Only a time-out leaves the card selected behind the driver's back.      *)
THEOREM BusIsReleased == SdSpec => []BusIsTheTerminals
<1>1. SdInv => BusIsTheTerminals
  BY DEF SdInv
<1>. QED  BY <1>1, SdInvariant, PTL

(* The error code that is printed after a call that failed is the answer   *)
(* that made it fail: every return with an error sets both, but one.       *)
LEMMA SdStepCode ==
    SdInv /\ ErrorCodeIsOfThisCall /\ [SdNext]_sdVars => ErrorCodeIsOfThisCall'
<1>. SUFFICES ASSUME SdInv, ErrorCodeIsOfThisCall, [SdNext]_sdVars
              PROVE  ErrorCodeIsOfThisCall'
  OBVIOUS
<1>1. CASE Insert \/ Remove \/ __start \/ __end \/ UNCHANGED sdVars
  BY <1>1 DEF Insert, Remove, __start, __end, sdVars, driver, ErrorCodeIsOfThisCall
<1>2. ASSUME NEW function, NEW to, Call(function, to)
      PROVE  ErrorCodeIsOfThisCall'
  BY <1>2 DEF Call, ErrorCodeIsOfThisCall
<1>3. CASE GoIdle
  BY <1>3 DEF GoIdle, Turn, Return, ErrorCodeIsOfThisCall
<1>4. CASE FindType \/ AppCommand
  BY <1>4 DEF FindType, AppCommand, ErrorCodeIsOfThisCall
<1>5. CASE Initialise
  BY <1>5 DEF Initialise, Return, ErrorCodeIsOfThisCall
<1>6. CASE SetBlockSize
  BY <1>6 DEF SetBlockSize, Return, ErrorCodeIsOfThisCall
<1>7. CASE ReadCommand \/ AwaitToken \/ ReadData
  BY <1>7 DEF ReadCommand, AwaitToken, ReadData, Return, ErrorCodeIsOfThisCall
<1>. QED
  BY <1>1, <1>2, <1>3, <1>4, <1>5, <1>6, <1>7 DEF SdNext, DriverStep, sd_reset, sd_read_block

(* What main.c prints as the error code is the answer that made the last   *)
(* call fail, whatever was called, printed or exchanged in between.        *)
THEOREM ErrorCodeIsCurrent == SdSpec => []ErrorCodeIsOfThisCall
<1>1. SdInit => ErrorCodeIsOfThisCall
  BY DEF SdInit, ErrorCodeIsOfThisCall
<1>. QED  BY <1>1, SdStepCode, SdInvariant, PTL DEF SdSpec

-----------------------------------------------------------------------------
(* What pf_mount knows of the card while it reads, and from which read.    *)

Reading == mpc \in {"signature", "type", "table", "parameters"}

(* Between two reads the block of the last one is at bsect, which is       *)
(* sector 0 as long as the partition table has not been used.              *)
MountCalls ==
    /\ mpc = "initialize" => called = "sd_reset" /\ whole
    /\ Reading => called = "sd_read_block" /\ block = bsect
    /\ mpc = "table" => whole
    /\ whole => bsect = 0
    /\ mpc = "out" /\ mount_result # "NONE" => pc = "shell"

(* A card that has been initialised and not been taken out stays ready.    *)
CardStays ==
    ~exchanged =>
        /\ ~swapped
        /\ Reading \/ (mpc = "out" /\ mount_result \in {"FR_OK", "FR_NO_FILESYSTEM"})
              => card.state = "ready"

(* What was read before is still in the buffer, and is what the card has.  *)
SectorIsRead ==
    ~exchanged /\ Reading /\ pc = "shell" /\ result = "SD_NO_ERROR" =>
        IsAddress(block) /\ sector = content[Addressed(block)]

NoVolumeAtZero == content[0].signature /\ (misread \/ ~content[0].fat)

(* What the reads so far have found.                                       *)
FoundSoFar ==
    ~exchanged =>
        /\ mpc \in {"type", "parameters"} => /\ IsAddress(bsect)
                                             /\ content[Addressed(bsect)].signature
        /\ mpc = "parameters" => content[Addressed(bsect)].fat
        /\ mpc = "table" => NoVolumeAtZero
        /\ Reading /\ ~whole => /\ NoVolumeAtZero
                                /\ content[0].partition = bsect
                                /\ bsect # NoPartition

(* The inductive invariant of the mount.                                   *)
MountInv ==
    /\ SdInv
    /\ MountAnswersTruly
    /\ MountCalls
    /\ CardStays
    /\ SectorIsRead
    /\ FoundSoFar

LEMMA MountInitInv == MountInit => MountInv
<1>. SUFFICES ASSUME MountInit PROVE MountInv
  OBVIOUS
<1>1. SdInv
  BY SdInitInv DEF MountInit
<1>2. MountAnswersTruly
  <2>1. Erased \in Sectors
    BY DEF Erased, Sectors
  <2>. QED  BY <1>1, <2>1, SdAssumption
            DEF MountInit, MountAnswersTruly, MountTypeOK, MountedIsAVolume,
                NoFilesystemMeansNone, SdInv
<1>. QED
  BY <1>1, <1>2 DEF MountInit, SdInit, MountInv, MountCalls, CardStays, SectorIsRead,
                    FoundSoFar, Reading

(* A step of sd_read_block keeps a card ready that was, and succeeds only  *)
(* after the data.                                                         *)
LEMMA ReadingSteps ==
    ASSUME SdInv, DriverStep
    PROVE  /\ pc # "shell"
           /\ UNCHANGED <<called, block, swapped>>
           /\ card'.bytes = card.bytes
           /\ called = "sd_read_block" =>
                /\ card.state = "ready" => card'.state = "ready"
                /\ pc' = "shell" /\ result' = "SD_NO_ERROR" => pc = "data"
<1>0. card \in Cards /\ SdTypeOK
  BY DEF SdInv, SdTypeOK
<1>1. CASE GoIdle \/ FindType \/ AppCommand \/ Initialise \/ SetBlockSize
  <2>1. PICK cmd, response : sd_send_command(cmd, response)
    BY <1>1 DEF GoIdle, FindType, AppCommand, Initialise, SetBlockSize
  <2>2. card'.bytes = card.bytes
    BY <1>0, <2>1, CommandIs
  <2>. QED  BY <1>1, <2>2 DEF GoIdle, FindType, AppCommand, Initialise, SetBlockSize,
                 sd_send_command, SdInv, CodeIsCalled, Resetting
<1>2. CASE ReadCommand
  <2>1. PICK response \in Answers : /\ Answered("CMD17", response)
                                    /\ response # R1_READY_STATE =>
                                           Return("SD_CARD_ERROR_CMD17")
                                    /\ response = R1_READY_STATE => pc' = "token"
    BY <1>2 DEF ReadCommand, sd_send_command, sd_send_command_no_release
  <2>2. card'.bytes = card.bytes
    BY <1>0, <2>1, AnsweredIs
  <2>3. card.state = "ready" => card'.state = "ready"
    BY <1>0, <2>1 DEF Answered, After, Cards
  <2>4. ~(pc' = "shell" /\ result' = "SD_NO_ERROR")
    BY <2>1 DEF Return
  <2>. QED  BY <1>2, <2>2, <2>3, <2>4 DEF ReadCommand, sd_send_command, sd_send_command_no_release
<1>3. CASE AwaitToken
  BY <1>3 DEF AwaitToken, Return
<1>4. CASE ReadData
  <2>1. card'.state = card.state /\ card'.bytes = card.bytes
    BY <1>0, <1>4 DEF ReadData, Cards
  <2>. QED  BY <1>4, <2>1 DEF ReadData, SdInv, CodeIsCalled
<1>. QED  BY <1>1, <1>2, <1>3, <1>4 DEF DriverStep

LEMMA DriveInv == MountInv /\ Drive => MountInv'
<1>. SUFFICES ASSUME MountInv, Drive PROVE MountInv'
  OBVIOUS
<1>1. SdInv'
  BY SdStepInv DEF MountInv, Drive, SdNext
<1>2. /\ pc # "shell"
      /\ UNCHANGED <<called, block, swapped, content, pf_vars, exchanged, misread>>
      /\ card'.bytes = card.bytes
      /\ called = "sd_read_block" =>
           /\ card.state = "ready" => card'.state = "ready"
           /\ pc' = "shell" /\ result' = "SD_NO_ERROR" => pc = "data"
  BY ReadingSteps DEF MountInv, Drive
<1>3. mpc = "out" => mount_result = "NONE"
  BY <1>2 DEF MountInv, MountCalls
<1>4. content \in [Block -> Sectors]
  BY MountAssumption DEF MountInv, MountAnswersTruly, MountTypeOK
<1>5. sector' \in Sectors
  <2>1. Erased \in Sectors
    BY DEF Erased, Sectors
  <2>2. card.sending \in Block \cup {Garbage}
    BY DEF MountInv, SdInv, SdTypeOK, Cards
  <2>3. sector \in Sectors
    BY DEF MountInv, MountAnswersTruly, MountTypeOK
  <2>. QED  BY <1>4, <2>1, <2>2, <2>3 DEF Drive
<1>6. MountAnswersTruly'
  <2>1. MountTypeOK'
    BY <1>1, <1>2, <1>5 DEF pf_vars, SdInv, MountInv, MountAnswersTruly, MountTypeOK
  <2>. QED  BY <1>2, <1>3, <2>1
            DEF pf_vars, MountAnswersTruly, MountedIsAVolume, NoFilesystemMeansNone
<1>7. MountCalls' /\ CardStays' /\ FoundSoFar'
  BY <1>2, <1>3 DEF pf_vars, MountInv, MountCalls, CardStays, FoundSoFar, Reading,
                    NoVolumeAtZero, Addressed, IsAddress
<1>8. SectorIsRead'
  <2>. SUFFICES ASSUME ~exchanged, Reading, pc' = "shell", result' = "SD_NO_ERROR"
                PROVE  IsAddress(block) /\ sector' = content[Addressed(block)]
    BY <1>2 DEF pf_vars, SectorIsRead, Reading, Addressed, IsAddress
  <2>1. called = "sd_read_block" /\ ~swapped
    BY DEF MountInv, MountCalls, CardStays
  <2>2. pc = "data"
    BY <1>2, <2>1
  <2>3. card.sending = Addressed(block) /\ IsAddress(block)
    BY <2>1, <2>2 DEF MountInv, SdInv, SendsTheBlock
  <2>4. Addressed(block) # Garbage
    <3>1. block \in Block
      BY DEF MountInv, SdInv, SdTypeOK
    <3>. QED  BY <2>3, <3>1, AddressedIs, SdAssumption
  <2>. QED  BY <2>2, <2>3, <2>4 DEF Drive
<1>. QED  BY <1>1, <1>6, <1>7, <1>8 DEF MountInv

(* The card comes, when nothing is claimed of it, or it goes.              *)
LEMMA InsertCardInv == MountInv /\ InsertCard => MountInv'
<1>. SUFFICES ASSUME MountInv, InsertCard PROVE MountInv'
  OBVIOUS
<1>1. SdInv'
  BY SdStepInv DEF MountInv, InsertCard, SdNext
<1>2. /\ UNCHANGED <<pins, driver, swapped, sector, pf_vars, exchanged, misread>>
      /\ card.state = "absent" /\ content' \in Contents
  BY DEF InsertCard, Insert
<1>3. ~exchanged => ~Reading /\ (mpc = "out" =>
                        mount_result \notin {"FR_OK", "FR_NO_FILESYSTEM"})
  BY <1>2 DEF MountInv, CardStays
<1>4. MountAnswersTruly'
  BY <1>1, <1>2, <1>3 DEF pf_vars, SdInv, MountInv, MountAnswersTruly, MountTypeOK,
                          MountedIsAVolume, NoFilesystemMeansNone
<1>5. MountCalls' /\ CardStays' /\ FoundSoFar' /\ SectorIsRead'
  BY <1>2, <1>3 DEF pf_vars, driver, MountInv, MountCalls, CardStays, FoundSoFar,
                    SectorIsRead, Reading
<1>. QED  BY <1>1, <1>4, <1>5 DEF MountInv

LEMMA RemoveCardInv == MountInv /\ RemoveCard => MountInv'
<1>. SUFFICES ASSUME MountInv, RemoveCard PROVE MountInv'
  OBVIOUS
<1>1. SdInv'
  BY SdStepInv DEF MountInv, RemoveCard, SdNext
<1>2. /\ UNCHANGED <<driver, content, sector, pf_vars, misread>>
      /\ exchanged'
  BY DEF RemoveCard, Remove
<1>. QED
  BY <1>1, <1>2 DEF pf_vars, driver, SdInv, MountInv, MountAnswersTruly, MountTypeOK,
     MountedIsAVolume, NoFilesystemMeansNone, MountCalls, CardStays, FoundSoFar,
     SectorIsRead, Reading

LEMMA OutputInv == MountInv /\ Output => MountInv'
<1>. SUFFICES ASSUME MountInv, Output PROVE MountInv'
  OBVIOUS
<1>1. SdInv'
  BY SdStepInv DEF MountInv, Output, SdNext
<1>2. /\ UNCHANGED <<driver, swapped, mountVars>>
      /\ mpc = "out"
  BY DEF Output, __start, __end
<1>3. card'.state = card.state /\ card'.bytes = card.bytes
  BY DEF Output, __start, __end, MountInv, SdInv, SdTypeOK, Cards
<1>. QED
  BY <1>1, <1>2, <1>3
  DEF mountVars, driver, SdInv, MountInv, MountAnswersTruly, MountTypeOK, Volume,
      VolumeAt, HasVolume, MountedIsAVolume, NoFilesystemMeansNone, MountCalls, CardStays,
      FoundSoFar, SectorIsRead, Reading, Addressed, IsAddress

LEMMA CallDriverInv == MountInv /\ CallDriver => MountInv'
<1>. SUFFICES ASSUME MountInv, CallDriver PROVE MountInv'
  OBVIOUS
<1>1. SdInv'
  BY SdStepInv DEF MountInv, CallDriver, SdNext
<1>2. /\ mount_result' = "NONE" /\ exchanged' /\ whole' /\ bsect' = 0
      /\ mpc' = "out"
      /\ UNCHANGED <<content, sector>>
  BY DEF CallDriver
<1>3. MountAnswersTruly'
  BY <1>1, <1>2, SdAssumption
  DEF SdInv, MountInv, MountAnswersTruly, MountTypeOK, MountedIsAVolume,
      NoFilesystemMeansNone
<1>. QED
  BY <1>1, <1>2, <1>3 DEF MountInv, MountCalls, CardStays, FoundSoFar, SectorIsRead, Reading

LEMMA PfMountInv == MountInv /\ pf_mount => MountInv'
<1>. SUFFICES ASSUME MountInv, pf_mount PROVE MountInv'
  OBVIOUS
<1>1. SdInv'
  BY SdStepInv DEF MountInv, pf_mount, disk_initialize, SdNext
<1>2. /\ mount_result' = "NONE" /\ whole' /\ bsect' = 0
      /\ mpc' = "initialize"
      /\ called' = "sd_reset" /\ swapped' = FALSE
      /\ UNCHANGED <<content, sector>>
  BY DEF pf_mount, disk_initialize, sd_reset, Call
<1>3. MountAnswersTruly'
  BY <1>1, <1>2, SdAssumption
  DEF SdInv, MountInv, MountAnswersTruly, MountTypeOK, MountedIsAVolume,
      NoFilesystemMeansNone
<1>. QED
  BY <1>1, <1>2, <1>3 DEF MountInv, MountCalls, CardStays, FoundSoFar, SectorIsRead, Reading

-----------------------------------------------------------------------------
BsectIsRead == IsAddress(bsect) /\ sector = content[Addressed(bsect)]

(* Sector 0 is sector 0, however it is addressed.                          *)
LEMMA ZeroIsZero == IsAddress(0) /\ Addressed(0) = 0
BY AddressedIs, SdAssumption

(* What a step of the mount after a read or the initialisation has: the    *)
(* answer of the driver and, if it was not a failure, the card.            *)
LEMMA AfterReturn ==
    ASSUME MountInv, NEW at \in {"initialize", "signature", "type", "table", "parameters"},
           Returned(at)
    PROVE  /\ ~exchanged /\ at = "initialize" /\ ~Failed => card.state = "ready"
           /\ ~exchanged /\ at # "initialize" => card.state = "ready"
           /\ ~exchanged /\ at # "initialize" /\ ~Failed => BsectIsRead
BY DEF Returned, Failed, MountInv, MountCalls, CardStays, SectorIsRead, SdInv,
       SuccessMeansReady, Reading, BsectIsRead

(* The mount is over.                                                      *)
LEMMA GiveInv ==
    ASSUME MountInv, NEW value, Give(value), pc = "shell",
           value \in {"FR_OK", "FR_NOT_READY", "FR_DISK_ERR", "FR_NO_FILESYSTEM"},
           UNCHANGED <<content, sector, exchanged>>,
           ~exchanged /\ value = "FR_OK" => VolumeAt(bsect) /\ (HasVolume \/ misread'),
           ~exchanged /\ value = "FR_NO_FILESYSTEM" /\ ~misread' => ~HasVolume,
           ~exchanged /\ value \in {"FR_OK", "FR_NO_FILESYSTEM"} => card.state = "ready"
    PROVE  MountInv'
<1>1. /\ UNCHANGED <<sdVars, whole, bsect>>
      /\ mpc' = "out" /\ mount_result' = value
  BY DEF Give
<1>2. SdInv'
  BY <1>1, SdStepInv DEF MountInv
<1>3. (~exchanged => ~swapped)
  BY DEF MountInv, CardStays
<1>4. MountAnswersTruly'
  BY <1>1, <1>2 DEF SdInv, MountInv, MountAnswersTruly, MountTypeOK, MountedIsAVolume,
     NoFilesystemMeansNone, Volume, VolumeAt, HasVolume, sdVars, Addressed, IsAddress
<1>. QED
  BY <1>1, <1>2, <1>3, <1>4 DEF sdVars, driver, MountInv, MountCalls, CardStays, FoundSoFar,
     SectorIsRead, Reading

(* The mount reads on.                                                     *)
LEMMA ReadOnInv ==
    ASSUME MountInv, NEW b \in Block, NEW then \in {"signature", "type", "table", "parameters"},
           disk_readp(b, then), mpc # "out",
           bsect' = b, UNCHANGED <<content, sector, exchanged>>,
           whole' => b = 0,
           then = "table" => whole',
           ~exchanged => card.state = "ready",
           FoundSoFar'
    PROVE  MountInv'
<1>1. SdInv'
  BY SdStepInv DEF MountInv, disk_readp, SdNext
<1>2. /\ called' = "sd_read_block" /\ block' = b /\ swapped' = FALSE
      /\ mpc' = then /\ pc' = "CMD17" /\ card' = card
  BY DEF disk_readp, sd_read_block, Call
<1>3. MountAnswersTruly'
  BY <1>1, <1>2 DEF disk_readp, SdInv, MountInv, MountAnswersTruly, MountTypeOK,
     MountedIsAVolume, NoFilesystemMeansNone
<1>. QED
  BY <1>1, <1>2, <1>3 DEF MountInv, MountCalls, CardStays, SectorIsRead, Reading

LEMMA CardIsKept ==
    ASSUME NEW b, NEW then, disk_readp(b, then)
    PROVE  Addressed(bsect)' = Addressed(bsect') /\ IsAddress(bsect)' = IsAddress(bsect')
BY DEF disk_readp, sd_read_block, Call, Addressed, IsAddress

LEMMA BsectIsABlock == MountInv => bsect \in Block
BY DEF MountInv, MountAnswersTruly, MountTypeOK

LEMMA InitializedInv == MountInv /\ Initialized => MountInv'
<1>. SUFFICES ASSUME MountInv, Initialized PROVE MountInv'
  OBVIOUS
<1>1. Returned("initialize") /\ UNCHANGED <<content, sector, exchanged, misread>>
  BY DEF Initialized
<1>2. CASE Failed
  BY <1>1, <1>2, GiveInv DEF Initialized, Returned
<1>3. CASE ~Failed
  <2>1. disk_readp(bsect, "signature") /\ UNCHANGED <<whole, bsect>>
    BY <1>3 DEF Initialized
  <2>2. mpc = "initialize" /\ mpc' = "signature" /\ whole /\ bsect = 0
    BY <1>1, <2>1 DEF Returned, disk_readp, MountInv, MountCalls
  <2>3. FoundSoFar'
    BY <2>1, <2>2 DEF FoundSoFar, Reading
  <2>4. ~exchanged => card.state = "ready"
    BY <1>1, <1>3, AfterReturn
  <2>. QED  BY <1>1, <2>1, <2>2, <2>3, <2>4, ReadOnInv, BsectIsABlock
<1>. QED  BY <1>2, <1>3

LEMMA CheckSignatureInv == MountInv /\ CheckSignature => MountInv'
<1>. SUFFICES ASSUME MountInv, CheckSignature PROVE MountInv'
  OBVIOUS
<1>1. Returned("signature") /\ UNCHANGED <<content, sector, exchanged, misread>>
  BY DEF CheckSignature
<1>2. /\ ~exchanged => card.state = "ready"
      /\ ~exchanged /\ ~Failed => BsectIsRead
  BY <1>1, AfterReturn
<1>3. mpc = "signature" /\ pc = "shell" /\ (whole => bsect = 0)
  BY <1>1 DEF Returned, MountInv, MountCalls
<1>4. CASE Failed
  BY <1>1, <1>4, GiveInv DEF CheckSignature, Returned
<1>5. CASE ~Failed /\ ~sector.signature
  <2>1. Give("FR_NO_FILESYSTEM")
    BY <1>5 DEF CheckSignature
  <2>2. ~exchanged /\ ~misread => ~HasVolume
    <3>. SUFFICES ASSUME ~exchanged, ~misread PROVE ~HasVolume
      OBVIOUS
    <3>1. ~content[Addressed(bsect)].signature
      BY <1>2, <1>5 DEF BsectIsRead
    <3>2. CASE whole
      BY <1>3, <3>1, <3>2, ZeroIsZero DEF HasVolume, VolumeAt, Volume
    <3>3. CASE ~whole
      BY <1>3, <3>1, <3>3, ZeroIsZero
         DEF HasVolume, VolumeAt, Volume, MountInv, FoundSoFar, Reading, NoVolumeAtZero
    <3>. QED  BY <3>2, <3>3
  <2>. QED  BY <1>1, <1>2, <1>3, <2>1, <2>2, GiveInv
<1>6. CASE ~Failed /\ sector.signature
  <2>1. disk_readp(bsect, "type") /\ UNCHANGED <<whole, bsect>>
    BY <1>6 DEF CheckSignature
  <2>2. FoundSoFar'
    BY <1>1, <1>2, <1>3, <1>6, <2>1, CardIsKept
       DEF disk_readp, MountInv, FoundSoFar, Reading, NoVolumeAtZero, BsectIsRead
  <2>. QED  BY <1>1, <1>2, <1>3, <2>1, <2>2, ReadOnInv, BsectIsABlock
<1>. QED  BY <1>4, <1>5, <1>6

LEMMA CheckTypeInv == MountInv /\ CheckType => MountInv'
<1>. SUFFICES ASSUME MountInv, CheckType PROVE MountInv'
  OBVIOUS
<1>1. /\ Returned("type") /\ UNCHANGED <<content, sector, exchanged>>
      /\ misread' = (misread \/ Failed)
  BY DEF CheckType
<1>2. /\ ~exchanged => card.state = "ready"
      /\ ~exchanged /\ ~Failed => BsectIsRead
  BY <1>1, AfterReturn
<1>3. mpc = "type" /\ pc = "shell" /\ (whole => bsect = 0)
  BY <1>1 DEF Returned, MountInv, MountCalls
<1>4. ~exchanged => IsAddress(bsect) /\ content[Addressed(bsect)].signature
  BY <1>3 DEF MountInv, FoundSoFar
<1>5. CASE ~Failed /\ sector.fat
  <2>1. disk_readp(bsect, "parameters") /\ UNCHANGED <<whole, bsect>>
    BY <1>5 DEF CheckType
  <2>2. misread' <=> misread
    BY <1>1, <1>5 DEF Failed
  <2>3. FoundSoFar'
    BY <1>1, <1>2, <1>3, <1>4, <1>5, <2>1, <2>2, CardIsKept
       DEF disk_readp, MountInv, FoundSoFar, Reading, NoVolumeAtZero, BsectIsRead
  <2>. QED  BY <1>1, <1>2, <1>3, <2>1, <2>3, ReadOnInv, BsectIsABlock
<1>6. CASE ~(~Failed /\ sector.fat) /\ whole
  <2>1. disk_readp(bsect, "table") /\ UNCHANGED <<whole, bsect>>
    BY <1>6 DEF CheckType
  <2>2. FoundSoFar'
    BY <1>1, <1>2, <1>3, <1>4, <1>6, <2>1, ZeroIsZero
       DEF disk_readp, MountInv, FoundSoFar, Reading, NoVolumeAtZero, BsectIsRead
  <2>. QED  BY <1>1, <1>2, <1>3, <1>6, <2>1, <2>2, ReadOnInv, BsectIsABlock
<1>7. CASE ~(~Failed /\ sector.fat) /\ ~whole
  <2>1. Give("FR_NO_FILESYSTEM")
    BY <1>7 DEF CheckType
  <2>2. ~exchanged /\ ~misread' => ~HasVolume
    BY <1>1, <1>2, <1>3, <1>7, ZeroIsZero
       DEF HasVolume, VolumeAt, Volume, MountInv, FoundSoFar, Reading, NoVolumeAtZero,
           BsectIsRead
  <2>. QED  BY <1>1, <1>2, <1>3, <2>1, <2>2, GiveInv
<1>. QED  BY <1>5, <1>6, <1>7

LEMMA FirstPartitionInv == MountInv /\ FirstPartition => MountInv'
<1>. SUFFICES ASSUME MountInv, FirstPartition PROVE MountInv'
  OBVIOUS
<1>1. Returned("table") /\ UNCHANGED <<content, sector, exchanged, misread>>
  BY DEF FirstPartition
<1>2. /\ ~exchanged => card.state = "ready"
      /\ ~exchanged /\ ~Failed => BsectIsRead
  BY <1>1, AfterReturn
<1>3. mpc = "table" /\ pc = "shell" /\ bsect = 0
  BY <1>1 DEF Returned, MountInv, MountCalls
<1>4. ~exchanged => NoVolumeAtZero
  BY <1>3 DEF MountInv, FoundSoFar
<1>5. CASE Failed
  BY <1>1, <1>3, <1>5, GiveInv DEF FirstPartition
<1>6. CASE ~Failed /\ sector.partition = NoPartition
  <2>1. Give("FR_NO_FILESYSTEM")
    BY <1>6 DEF FirstPartition
  <2>2. ~exchanged /\ ~misread => ~HasVolume
    BY <1>2, <1>3, <1>4, <1>6, ZeroIsZero
       DEF HasVolume, VolumeAt, Volume, NoVolumeAtZero, BsectIsRead
  <2>. QED  BY <1>1, <1>2, <1>3, <2>1, <2>2, GiveInv
<1>7. CASE ~Failed /\ sector.partition # NoPartition
  <2>1. /\ disk_readp(sector.partition, "signature")
        /\ bsect' = sector.partition
        /\ whole' = FALSE
    BY <1>7 DEF FirstPartition
  <2>2. sector.partition \in Block
    BY <1>7 DEF MountInv, MountAnswersTruly, MountTypeOK, Sectors
  <2>3. FoundSoFar'
    BY <1>1, <1>2, <1>3, <1>4, <1>7, <2>1, ZeroIsZero
       DEF disk_readp, FoundSoFar, Reading, NoVolumeAtZero, BsectIsRead
  <2>. QED  BY <1>1, <1>2, <1>3, <2>1, <2>2, <2>3, ReadOnInv
<1>. QED  BY <1>5, <1>6, <1>7

LEMMA ReadParametersInv == MountInv /\ ReadParameters => MountInv'
<1>. SUFFICES ASSUME MountInv, ReadParameters PROVE MountInv'
  OBVIOUS
<1>1. Returned("parameters") /\ UNCHANGED <<content, sector, exchanged, misread>>
  BY DEF ReadParameters
<1>2. /\ ~exchanged => card.state = "ready"
      /\ ~exchanged /\ ~Failed => BsectIsRead
  BY <1>1, AfterReturn
<1>3. /\ pc = "shell"
      /\ whole => bsect = 0
      /\ ~exchanged => /\ IsAddress(bsect)
                       /\ content[Addressed(bsect)].signature
                       /\ content[Addressed(bsect)].fat
                       /\ ~whole => /\ NoVolumeAtZero
                                    /\ content[0].partition = bsect
                                    /\ bsect # NoPartition
  BY <1>1 DEF Returned, MountInv, MountCalls, FoundSoFar, Reading
<1>4. CASE Failed
  BY <1>1, <1>3, <1>4, GiveInv DEF ReadParameters
<1>5. CASE ~Failed /\ ~sector.clusters
  <2>1. Give("FR_NO_FILESYSTEM")
    BY <1>5 DEF ReadParameters
  <2>2. ~exchanged /\ ~misread => ~HasVolume
    BY <1>2, <1>3, <1>5, ZeroIsZero
       DEF HasVolume, VolumeAt, Volume, NoVolumeAtZero, BsectIsRead
  <2>. QED  BY <1>1, <1>2, <1>3, <2>1, <2>2, GiveInv
<1>6. CASE ~Failed /\ sector.clusters
  <2>1. Give("FR_OK")
    BY <1>6 DEF ReadParameters
  <2>2. ~exchanged => VolumeAt(bsect) /\ (HasVolume \/ misread)
    BY <1>2, <1>3, <1>6, ZeroIsZero
       DEF HasVolume, VolumeAt, Volume, NoVolumeAtZero, BsectIsRead
  <2>. QED  BY <1>1, <1>2, <1>3, <2>1, <2>2, GiveInv
<1>. QED  BY <1>4, <1>5, <1>6

LEMMA MountStepInv == MountInv /\ [MountNext]_allVars => MountInv'
<1>. SUFFICES ASSUME MountInv, [MountNext]_allVars PROVE MountInv'
  OBVIOUS
<1>1. CASE UNCHANGED allVars
  <2>1. SdInv'
    BY <1>1, SdStepInv DEF allVars, MountInv
  <2>. QED
    BY <1>1, <2>1 DEF allVars, sdVars, driver, mountVars, SdInv, MountInv,
       MountAnswersTruly, MountTypeOK, Volume, VolumeAt, HasVolume, MountedIsAVolume,
       NoFilesystemMeansNone, MountCalls, CardStays, FoundSoFar, SectorIsRead, Reading,
       NoVolumeAtZero, Addressed, IsAddress
<1>. QED
  BY <1>1, InsertCardInv, RemoveCardInv, DriveInv, OutputInv, CallDriverInv, PfMountInv,
     InitializedInv, CheckSignatureInv, CheckTypeInv, FirstPartitionInv, ReadParametersInv
     DEF MountNext, MountStep

(* "Disk mounted" and "No filesystem" are true of what is on the card at   *)
(* the places the driver reads (not those of the blocks it means if the    *)
(* card is addressed by byte), whichever of the reads failed and however   *)
(* often the driver retried, as long as the card stays in; but for a       *)
(* second read of check_fs that failed.                                    *)
THEOREM MountIsTruthful == MountSpec => []MountAnswersTruly
<1>1. MountInv => MountAnswersTruly
  BY DEF MountInv
<1>. QED  BY <1>1, MountInitInv, MountStepInv, PTL DEF MountSpec
=============================================================================
