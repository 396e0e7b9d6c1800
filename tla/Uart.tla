-------------------------------- MODULE Uart --------------------------------
(***************************************************************************)
(* bus/uart.rs: the serial device.  Characters are opaque values; of lcr   *)
(* only the DLAB bit acts, of lsr only DR ever varies (THRE and TEMT stay  *)
(* set), and the divisor latches are data nothing reads.  Sizes other than *)
(* 1 stop the program (unimplemented!()) and are not inputs.               *)
(***************************************************************************)
EXTENDS Integers, Sequences

CONSTANT NoChar   \* an empty rbr, and "no message" from try_recv

VARIABLES
  dlab,                \* lcr >> 7 == 1
  ier,                 \* set of the bits of ier
  dr,                  \* LSR_DR
  rbr,
  iir,                 \* "NIP", "THRE" or "RDA"
  is_interrupting,
  is_taken_interrupt,
  input_buf            \* Vec<char>, popped from its END

uartIrq  == <<iir, is_interrupting, is_taken_interrupt>>
uartVars == <<dlab, ier, dr, rbr, uartIrq, input_buf>>

\* Bits of ier: IER_ERBFI, IER_ETBEI, and the 0x4 of is_ready_for_recieving.
ERBFI == 0
ETBEI == 1
ELSI  == 2
IerBits == 0..3

\* Uart::new.
UartInit ==
  /\ dlab = FALSE
  /\ ier = {}
  /\ dr = FALSE
  /\ rbr = NoChar
  /\ iir = "NIP"
  /\ is_interrupting = FALSE
  /\ is_taken_interrupt = FALSE
  /\ input_buf = <<>>

-----------------------------------------------------------------------------
RaiseInterrupt(id) ==
  /\ is_interrupting' = TRUE
  /\ is_taken_interrupt' = FALSE
  /\ iir' = id

\* Mutant: lsr is left as it is.
LowerInterruptKeepsDr ==
  /\ is_interrupting' = FALSE
  /\ iir' = "NIP"
  /\ UNCHANGED <<dr, is_taken_interrupt>>

\* lower_interrupt rewrites lsr as a whole, DR with it.
LowerInterrupt ==
  /\ is_interrupting' = FALSE
  /\ iir' = "NIP"
  /\ dr' = FALSE
  /\ UNCHANGED is_taken_interrupt

TakeInterrupt ==
  /\ is_taken_interrupt' = TRUE
  /\ UNCHANGED <<dlab, ier, dr, rbr, iir, is_interrupting, input_buf>>

\* Mutant: the gate forgets the interrupt that is not yet served.
IsReadyForReceivingAlways == ELSI \in ier

IsReadyForReceiving == iir = "NIP" /\ ELSI \in ier

\* DeviceTrait::tick with the message try_recv (or handle_incoming) brought.
\* At most one character moves from the END of input_buf to rbr.
\* (Mutants: an empty channel yields a character too; only a tick that
\* receives a character delivers one.)
TickBufferNoMsg(msg) == Append(input_buf, msg)
TickBuffer(msg) == IF msg = NoChar THEN input_buf ELSE Append(input_buf, msg)
TickPushesOnArrival(msg) == msg # NoChar /\ IsReadyForReceiving
TickPushes(msg) == TickBuffer(msg) # <<>> /\ IsReadyForReceiving

\* Mutant: the character is read off the buffer and not removed.
TickPeeks(msg) ==
  LET buf == TickBuffer(msg) IN
  /\ IF TickPushes(msg)
       THEN rbr' = buf[Len(buf)] /\ dr' = TRUE /\ RaiseInterrupt("RDA")
       ELSE UNCHANGED <<rbr, dr, uartIrq>>
  /\ input_buf' = buf
  /\ UNCHANGED <<dlab, ier>>

Tick(msg) ==
  LET buf == TickBuffer(msg) IN
  /\ IF TickPushes(msg)
       THEN /\ rbr' = buf[Len(buf)]
            /\ input_buf' = SubSeq(buf, 1, Len(buf) - 1)
            /\ dr' = TRUE
            /\ RaiseInterrupt("RDA")
       ELSE /\ input_buf' = buf
            /\ UNCHANGED <<rbr, dr, uartIrq>>
  /\ UNCHANGED <<dlab, ier>>

-----------------------------------------------------------------------------
\* Mutant: DR survives the read.
ReadRbrKeepsDr ==
  /\ ~dlab
  /\ rbr' = NoChar
  /\ is_interrupting' = FALSE /\ iir' = "NIP"
  /\ UNCHANGED <<dlab, ier, dr, is_taken_interrupt, input_buf>>

\* read(0) with DLAB clear: the receive buffer.
ReadRbr ==
  /\ ~dlab
  /\ rbr' = NoChar
  /\ IF is_interrupting THEN LowerInterrupt
                        ELSE dr' = FALSE /\ UNCHANGED uartIrq
  /\ UNCHANGED <<dlab, ier, input_buf>>

\* Mutant: identifying acknowledges whatever was taken.
ReadIirAcksAll ==
  /\ IF is_taken_interrupt THEN LowerInterrupt ELSE UNCHANGED <<dr, uartIrq>>
  /\ UNCHANGED <<dlab, ier, rbr, input_buf>>

\* read(2): identifying a transmit interrupt that was taken acknowledges it.
ReadIir ==
  /\ IF is_taken_interrupt /\ iir = "THRE" THEN LowerInterrupt
                                           ELSE UNCHANGED <<dr, uartIrq>>
  /\ UNCHANGED <<dlab, ier, rbr, input_buf>>

\* Every other read (divisor latches, IER, LCR, LSR), and writes to the
\* divisor latches and to offsets without a register.
OtherAccess == UNCHANGED uartVars

\* write(0) with DLAB clear: the character is printed at once.
WriteThr ==
  /\ ~dlab
  /\ IF ETBEI \in ier THEN RaiseInterrupt("THRE") ELSE UNCHANGED uartIrq
  /\ UNCHANGED <<dlab, ier, dr, rbr, input_buf>>

\* write(1) with DLAB clear.
WriteIer(value) ==
  LET changed == (ETBEI \in ier) # (ETBEI \in value) IN
  /\ ~dlab
  /\ ier' = value
  /\ \/ ~changed /\ UNCHANGED <<dr, uartIrq>>
     \/ changed /\ ETBEI \in value /\ RaiseInterrupt("THRE") /\ UNCHANGED dr
     \/ changed /\ ETBEI \notin value /\ LowerInterrupt
  /\ UNCHANGED <<dlab, rbr, input_buf>>

WriteLcr(value) ==
  /\ dlab' = value
  /\ UNCHANGED <<ier, dr, rbr, uartIrq, input_buf>>
=============================================================================
