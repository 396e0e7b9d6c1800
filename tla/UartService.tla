---------------------------- MODULE UartService ----------------------------
(***************************************************************************)
(* The serial device between a host that types and a guest that accesses   *)
(* its registers in any order.  The characters typed are numbered, so that *)
(* ghosts can say what became of each one.                                 *)
(***************************************************************************)
EXTENDS Uart, FiniteSets

CONSTANTS
  MaxTyped,   \* bound: characters the host types in one behaviour
  IerValues   \* the values the guest writes to IER, as sets of bits

ASSUME MaxTypedAssumption  == MaxTyped \in Nat
ASSUME IerValuesAssumption == IerValues \subseteq SUBSET IerBits
ASSUME NoCharAssumption    == NoChar = 0

VARIABLES
  typed,   \* ghost: how many characters the device took from the host
  got,     \* ghost: characters the guest read from a full receive buffer
  held     \* ghost: the character in rbr while DR says so, or NoChar

vars == <<uartVars, typed, got, held>>

Init == UartInit /\ typed = 0 /\ got = {} /\ held = NoChar

\* One call of tick: with a character of the host or without.
Receive(msg) ==
  /\ Tick(msg)
  /\ typed' = IF msg = NoChar THEN typed ELSE msg
  /\ held' = IF TickPushes(msg) THEN rbr' ELSE held
  /\ UNCHANGED got

DeviceTick ==
  \/ Receive(NoChar)
  \/ typed < MaxTyped /\ Receive(typed + 1)

\* The simulator tells the device that its interrupt was taken; that happens
\* for any irq latched in the PLIC, also after the device lowered its own.
Taken == TakeInterrupt /\ UNCHANGED <<typed, got, held>>

\* The guest reads rbr; it takes the value for a character if LSR said DR.
GuestReadRbr ==
  /\ ReadRbr
  /\ got' = IF dr THEN got \cup {rbr} ELSE got
  /\ held' = NoChar
  /\ UNCHANGED typed

\* The other accesses: a character whose DR goes away is gone.
GuestAccess ==
  /\ \/ ReadIir
     \/ WriteThr
     \/ \E value \in IerValues : WriteIer(value)
     \/ \E value \in BOOLEAN : WriteLcr(value)
  /\ held' = IF dr' THEN held ELSE NoChar
  /\ UNCHANGED <<typed, got>>

Next == DeviceTick \/ Taken \/ GuestReadRbr \/ GuestAccess

Spec == Init /\ [][Next]_vars

-----------------------------------------------------------------------------
Buffered == {input_buf[k] : k \in 1..Len(input_buf)}

TypeOK ==
  /\ dlab \in BOOLEAN
  /\ ier \subseteq IerBits
  /\ dr \in BOOLEAN
  /\ rbr \in 0..MaxTyped
  /\ iir \in {"NIP", "THRE", "RDA"}
  /\ is_interrupting \in BOOLEAN
  /\ is_taken_interrupt \in BOOLEAN
  /\ input_buf \in Seq(1..MaxTyped)
  /\ typed \in 0..MaxTyped
  /\ got \subseteq 1..MaxTyped
  /\ held \in 0..MaxTyped

\* The gate of the receive path (iir, line 264) and the level the bus sees
\* (is_interrupting) never disagree, and a full receive buffer keeps the
\* gate shut: the next character cannot overwrite one that waits.
NoOverrun ==
  /\ is_interrupting <=> iir # "NIP"
  /\ dr => iir # "NIP" /\ rbr # NoChar /\ held = rbr

\* No character is delivered twice or kept in two places, in spite of the
\* rbr that stays readable when DR was dropped.
NoDuplicate ==
  /\ Cardinality(Buffered) = Len(input_buf)
  /\ Buffered \cap got = {}
  /\ held # NoChar => held \notin Buffered \cup got

\* Characters that are buffered, wait in rbr, or were read.
Kept == Buffered \cup got \cup ({held} \ {NoChar})

\* A character the device took is kept: it is lost only from rbr, and only
\* when the guest acknowledges or disables a TRANSMIT interrupt while the
\* character waits there (uart.rs 89, 160, 259).
LossOnlyByTransmit ==
  [][/\ typed' # typed => typed' \in Kept'
     /\ Kept \subseteq Kept'
        \/ /\ Kept \ Kept' = {held}
           /\ iir = "THRE" \/ (ETBEI \in ier /\ ETBEI \notin ier')
           /\ iir' = "NIP"]_vars
=============================================================================
