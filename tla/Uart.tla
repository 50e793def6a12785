-------------------------------- MODULE Uart --------------------------------
(***************************************************************************)
(* Output on the serial line (uart.c): send_data_uart0 fills the transmit  *)
(* FIFO of UART0, waits until it is empty (THRE), and fills it again.      *)
(* There is no lock: a task of higher priority, or one of the same in the  *)
(* next time slice, may send in between.                                   *)
(*                                                                         *)
(* A text is a number of bytes; byte b of the n-th text sent is <<n, b>>.  *)
(***************************************************************************)
EXTENDS Naturals, Sequences, FiniteSets, SequencesExt

CONSTANTS
    UART_FIFO_SIZE,     \* 16
    Sender,             \* the tasks that print
    Priority(_),        \* smaller is more urgent
    MaxLength,          \* bound: bytes of a text
    MaxTexts            \* bound: texts sent in all

ASSUME UartAssumption ==
    /\ UART_FIFO_SIZE \in Nat \ {0}
    /\ MaxLength \in Nat
    /\ MaxTexts \in Nat

VARIABLES
    pc,             \* per sender: "out", "here", "fill", "thre"
    nbytes,         \* per sender: bytes of the text not yet in a portion
    tx_bytes,       \* per sender: bytes of the portion not yet written
    ptr,            \* per sender: the next byte
    fifo,           \* UART0's transmit FIFO
    line,           \* history: the bytes sent on the line
    texts           \* history: sender and length of the texts passed so far

uartVars == <<pc, nbytes, tx_bytes, ptr, fifo, line, texts>>

UartInit ==
    /\ pc = [s \in Sender |-> "out"]
    /\ nbytes = [s \in Sender |-> 0]
    /\ tx_bytes = [s \in Sender |-> 0]
    /\ ptr = [s \in Sender |-> <<0, 1>>]
    /\ fifo = <<>>
    /\ line = <<>>
    /\ texts = <<>>

(* The kernel runs a task only while none of higher priority is ready, and *)
(* a sender never waits otherwise than in a loop.                          *)
Runs(s) == \A t \in Sender : pc[t] # "out" => Priority(s) <= Priority(t)

(* send_data_uart0_str, with string_length.  An empty text is not sent.    *)
send_data_uart0_str(s) ==
    /\ Runs(s)
    /\ pc[s] = "out"
    /\ Len(texts) < MaxTexts
    /\ \E length \in 0 .. MaxLength :
          /\ texts' = Append(texts, <<s, length>>)
          /\ nbytes' = [nbytes EXCEPT ![s] = length]
          /\ ptr' = [ptr EXCEPT ![s] = <<Len(texts) + 1, 1>>]
          /\ pc' = [pc EXCEPT ![s] = IF length = 0 THEN "out" ELSE "here"]
    /\ UNCHANGED <<tx_bytes, fifo, line>>

NextPortion(s) ==
    /\ Runs(s)
    /\ pc[s] = "here"
    /\ LET portion == IF nbytes[s] > UART_FIFO_SIZE THEN UART_FIFO_SIZE ELSE nbytes[s]
       IN  /\ nbytes' = [nbytes EXCEPT ![s] = @ - portion]
           /\ tx_bytes' = [tx_bytes EXCEPT ![s] = portion]
    /\ pc' = [pc EXCEPT ![s] = "fill"]
    /\ UNCHANGED <<ptr, fifo, line, texts>>

(* The FIFO after a write to U0THR: a byte it has no room for is lost.     *)
Written(byte) == IF Len(fifo) < UART_FIFO_SIZE THEN Append(fifo, byte) ELSE fifo

(* `while(tx_bytes--) rU0THR = *ptr++'                                     *)
Fill(s) ==
    /\ Runs(s)
    /\ pc[s] = "fill"
    /\ IF tx_bytes[s] > 0
       THEN /\ fifo' = Written(ptr[s])
            /\ ptr' = [ptr EXCEPT ![s] = <<@[1], @[2] + 1>>]
            /\ tx_bytes' = [tx_bytes EXCEPT ![s] = @ - 1]
            /\ pc' = pc
       ELSE /\ pc' = [pc EXCEPT ![s] = "thre"]
            /\ UNCHANGED <<fifo, ptr, tx_bytes>>
    /\ UNCHANGED <<nbytes, line, texts>>

(* MUTANT: the bit is tested before the FIFO is filled and not after.      *)
AwaitEmpty_not(s) ==
    /\ Runs(s)
    /\ pc[s] = "thre"
    /\ pc' = [pc EXCEPT ![s] = IF nbytes[s] = 0 THEN "out" ELSE "here"]
    /\ UNCHANGED <<nbytes, tx_bytes, ptr, fifo, line, texts>>

(* `while (!(rU0LSR & 0x20))', and `while(nbytes)'.                        *)
AwaitEmpty(s) ==
    /\ Runs(s)
    /\ pc[s] = "thre"
    /\ fifo = <<>>
    /\ pc' = [pc EXCEPT ![s] = IF nbytes[s] = 0 THEN "out" ELSE "here"]
    /\ UNCHANGED <<nbytes, tx_bytes, ptr, fifo, line, texts>>

Transmit ==
    /\ fifo # <<>>
    /\ line' = Append(line, Head(fifo))
    /\ fifo' = Tail(fifo)
    /\ UNCHANGED <<pc, nbytes, tx_bytes, ptr, texts>>

Sends(s) == NextPortion(s) \/ Fill(s) \/ AwaitEmpty(s)

UartNext ==
    \/ \E s \in Sender : send_data_uart0_str(s) \/ Sends(s)
    \/ Transmit

UartSpec == UartInit /\ [][UartNext]_uartVars

-----------------------------------------------------------------------------
UartTypeOK ==
    /\ pc \in [Sender -> {"out", "here", "fill", "thre"}]
    /\ nbytes \in [Sender -> 0 .. MaxLength]
    /\ tx_bytes \in [Sender -> 0 .. UART_FIFO_SIZE]
    /\ Len(fifo) <= UART_FIFO_SIZE

(* The n-th text, and the texts up to the n-th.                            *)
Text(n) == [b \in 1 .. texts[n][2] |-> <<n, b>>]
AllTexts == FlattenSeq([n \in 1 .. Len(texts) |-> Text(n)])

(* The bytes of a text reach the line in order, each at most once, however *)
(* many tasks send.                                                        *)
NoneOvertakes ==
    \A i, j \in 1 .. Len(line) :
        i < j /\ line[i][1] = line[j][1] => line[i][2] < line[j][2]

(* As long as one task alone sends, what went out, what is in the FIFO and *)
(* what is still to be written make up the texts: no byte is lost, doubled *)
(* or overtaken; and with many that send none of a text overtakes another. *)
NothingIsLost ==
    /\ UartTypeOK /\ NoneOvertakes
    /\ \A s \in Sender :
          (\A n \in 1 .. Len(texts) : texts[n][1] = s) =>
              LET rest == nbytes[s] + tx_bytes[s]
                  toCome == [b \in 1 .. rest |-> <<ptr[s][1], ptr[s][2] + b - 1>>]
              IN  line \o fifo \o toCome = AllTexts

(* uart.c:42: "here - UART Tx FIFO is empty".  Does not hold: another task *)
(* may have filled it.                                                     *)
HereFifoIsEmpty ==
    \A s \in Sender : pc[s] = "here" /\ Runs(s) => fifo = <<>>
=============================================================================
