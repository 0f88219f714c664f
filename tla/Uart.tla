-------------------------------- MODULE Uart --------------------------------
(***************************************************************************)
(* UART_numeric_print (Drivers/uart.c): the number is formatted into a     *)
(* static buffer that all tasks share and then put into the transmit FIFO  *)
(* character by character, waiting while the FIFO is full.  A printed      *)
(* number is three characters: the last one ends the line.                 *)
(***************************************************************************)
EXTENDS Integers, Sequences

CONSTANTS
  Printers,  \* who may print
  Numbers,   \* what may be printed
  FIFO_DEPTH \* characters in the transmit FIFO

ASSUME UartAssumption == FIFO_DEPTH \in Nat \ {0} /\ Numbers # {}

VARIABLES
  printf_buffer, \* the text in the static buffer
  ptr,           \* for each printer the character it puts next, 0 outside a call
  fifo,          \* the transmit FIFO
  line           \* what has left the UART since the last line ended

uartVars == <<printf_buffer, ptr, fifo, line>>

Text(number) == [k \in 1 .. 3 |-> [of |-> number, position |-> k]]

UartInit ==
  /\ printf_buffer = <<>>
  /\ ptr = [t \in Printers |-> 0]
  /\ fifo = <<>> /\ line = <<>>

\* sprintf into the buffer.
Format(t) ==
  /\ ptr[t] = 0
  /\ \E number \in Numbers : printf_buffer' = Text(number)
  /\ ptr' = [ptr EXCEPT ![t] = 1]
  /\ UNCHANGED <<fifo, line>>

\* Mutant: the FIFO takes what it has room for.
UART_OutCharUnchecked(char) ==
  fifo' = IF Len(fifo) < FIFO_DEPTH THEN Append(fifo, char) ELSE fifo

\* The wait for TXFF is over: nothing happens before.
UART_OutChar(char) ==
  /\ Len(fifo) < FIFO_DEPTH
  /\ fifo' = Append(fifo, char)

\* The loop of UART_printf: it reads the shared buffer as it is now.
Put(t) ==
  /\ ptr[t] \in DOMAIN printf_buffer
  /\ UART_OutChar(printf_buffer[ptr[t]])
  /\ ptr' = [ptr EXCEPT ![t] = @ + 1]
  /\ UNCHANGED <<printf_buffer, line>>

\* The terminating zero is reached.
PrintReturns(t) ==
  /\ ptr[t] = Len(printf_buffer) + 1 /\ ptr[t] > 1
  /\ ptr' = [ptr EXCEPT ![t] = 0]
  /\ UNCHANGED <<printf_buffer, fifo, line>>

\* The UART sends the oldest character.
Transmit ==
  /\ fifo # <<>>
  /\ line' = Append(IF line = <<>> \/ line[Len(line)].position < 3 THEN line ELSE <<>>,
                    Head(fifo))
  /\ fifo' = Tail(fifo)
  /\ UNCHANGED <<printf_buffer, ptr>>

-----------------------------------------------------------------------------
\* What has been sent of a line is the beginning of one number: no character
\* is lost, doubled or taken from another print.
LinesWhole == \E number \in Numbers : line = SubSeq(Text(number), 1, Len(line))

-----------------------------------------------------------------------------
(* The inductive invariant behind it (AppProofs.tla), as long as one       *)
(* printer at a time is inside a call.                                     *)

Characters == [of : Numbers, position : 1 .. 3]

\* d may come right after c on the wire.
Follows(c, d) ==
  IF c.position = 3 THEN d.position = 1
  ELSE d.of = c.of /\ d.position = c.position + 1

\* The character that was put before waiting[k + 1], when what is in sent has
\* left the UART.  Before the first one of all comes the end of some line.
Before(sent, waiting, k) ==
  IF k > 0 THEN waiting[k]
  ELSE IF sent # <<>> THEN sent[Len(sent)]
  ELSE [position |-> 3]

UartTypeOK ==
  /\ printf_buffer = <<>> \/ \E number \in Numbers : printf_buffer = Text(number)
  /\ ptr \in [Printers -> 0 .. 4]
  /\ fifo \in Seq(Characters)
  /\ line \in Seq(Characters)

\* The FIFO continues the line, and a printer inside a call continues the FIFO:
\* between two calls everything put so far ends a line.
UartInv ==
  /\ UartTypeOK /\ LinesWhole /\ Len(line) <= 3
  /\ \A k \in 0 .. Len(fifo) - 1 : Follows(Before(line, fifo, k), fifo[k + 1])
  /\ \A t \in Printers :
       /\ ptr[t] > 0 => printf_buffer # <<>>
       /\ ptr[t] > 1 => Before(line, fifo, Len(fifo)) = printf_buffer[ptr[t] - 1]
  /\ (\A t \in Printers : ptr[t] <= 1) => Before(line, fifo, Len(fifo)).position = 3
=============================================================================
