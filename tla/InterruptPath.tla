--------------------------- MODULE InterruptPath ---------------------------
(***************************************************************************)
(* The way of an external interrupt through the simulator, from the host's *)
(* keyboard and network to the guest's handler and back:                   *)
(*                                                                         *)
(*   host -> Uart / VirtioNet -> Bus.irqs_to_raise -> Plic -> mip.SEIP     *)
(*        -> resolve_pending -> handle_trap -> handler -> claim, service,  *)
(*           completion -> sret                                            *)
(*                                                                         *)
(* One iteration of Simulator::run is three steps: "tick" (Bus::tick),     *)
(* "check" (check_local_intrrupt_active and handle_trap) and "step" (the   *)
(* instruction; only those that touch this path are modelled, the others   *)
(* are Compute).  The guest is a kernel in S and U mode whose firmware     *)
(* delegated the supervisor external interrupt; it is not part of the      *)
(* repository.  Its handler is the usual one: claim, serve the device,     *)
(* complete, claim again until the claim reads 0, sret.  GuestOps says     *)
(* what its threads may do besides.                                        *)
(***************************************************************************)
EXTENDS Plic, Uart

CONSTANTS
  GuestOps,    \* what guest threads do: a subset of AllOps
  MaxTyped,    \* bound: characters the host types
  MaxPackets,  \* bound: completions of the network device
  MaxTx,       \* bound: characters the guest prints
  MaxQueue     \* bound: no thread accesses a device with more irqs queued

UART == 10
NET  == 1
AllOps == {"irqoff", "user", "ier", "print", "poll", "notify", "mask", "plic",
           "plic0"}

ASSUME PathIrqsAssumption == Irqs = {UART, NET}
ASSUME PathOpsAssumption  == GuestOps \subseteq AllOps
ASSUME PathContextsAssumption ==
  1 \in Contexts /\ ("plic0" \in GuestOps => 0 \in Contexts)
ASSUME PathBounds ==
  {MaxTyped, MaxPackets, MaxTx, MaxQueue} \subseteq Nat /\ NoChar = 0

VARIABLES
  irqs_to_raise,  \* Bus.irqs_to_raise
  prv, mstatus, mie,
  phase,          \* "tick", "check", "step"
  h,              \* where the guest's handler is, "none" outside of it
  serving,        \* the irq the handler claimed, NoIrq when none
  unseen,         \* the network device completed a buffer the driver has not seen
  typed, packets, printed,  \* counters for the bounds
  got,            \* ghost: characters the handler read from a full rbr
  masked,         \* ghost: a thread changed sie.SEIE or the PLIC's registers
  both            \* ghost: a thread enabled an irq for context 0

busVars   == <<irqs_to_raise>>
hartVars  == <<prv, mstatus, mie>>
guestVars == <<h, serving>>
netVars   == <<unseen, packets>>
ghostVars == <<typed, printed, got, masked, both>>
vars == <<plicVars, uartVars, busVars, hartVars, phase, guestVars, netVars,
          ghostVars>>

\* The firmware's delegation (mideleg), fixed before the kernel starts.
Mideleg == {SEIP}

\* After the kernel probed its drivers: both devices enabled for context 1,
\* reception on, interrupts on.
Init ==
  /\ priorities = [i \in Irqs |-> 1]
  /\ pending = {}
  /\ enables = [c \in {0, 1} |-> IF c = 1 THEN Irqs ELSE {}]
  /\ threasholds = [c \in {0, 1} |-> 0]
  /\ interrupting_irq = NoIrq /\ interrupting_ctx = NoCtx
  /\ mip = {} /\ panic = "none"
  /\ dlab = FALSE /\ ier = {ERBFI, ELSI} /\ dr = FALSE /\ rbr = NoChar
  /\ iir = "NIP" /\ is_interrupting = FALSE /\ is_taken_interrupt = FALSE
  /\ input_buf = <<>>
  /\ irqs_to_raise = <<>>
  /\ prv = Supervisor /\ mstatus = [StatusInit EXCEPT !.sie = TRUE]
  /\ mie = {SEIP}
  /\ phase = "tick"
  /\ h = "none" /\ serving = NoIrq
  /\ unseen = FALSE /\ packets = 0
  /\ typed = 0 /\ printed = 0 /\ got = {}
  /\ masked = FALSE /\ both = FALSE

-----------------------------------------------------------------------------
(* Bus::tick *)

TickClosed ==
  /\ ~CanExternalInterrupt(prv, mstatus, Mideleg)
  /\ UNCHANGED <<plicVars, uartVars, busVars, netVars, typed>>

\* The devices' own ticks, in the order add_device gave them (uart, net):
\* the irqs they push behind those already queued.
DeviceTicks(pushed) ==
  \E char \in {NoChar} \cup (IF typed < MaxTyped THEN {typed + 1} ELSE {}),
     packet \in {FALSE} \cup (IF packets < MaxPackets THEN {TRUE} ELSE {}) :
    /\ Tick(char)
    /\ typed' = IF char = NoChar THEN typed ELSE char
    /\ unseen' = (unseen \/ packet)
    /\ packets' = IF packet THEN packets + 1 ELSE packets
    /\ pushed = (IF TickPushes(char) THEN <<UART>> ELSE <<>>)
                \o (IF packet THEN <<NET>> ELSE <<>>)

\* One queued irq per tick, or SEIP is dropped.
TickOpen ==
  /\ CanExternalInterrupt(prv, mstatus, Mideleg)
  /\ \E pushed \in {<<>>, <<UART>>, <<NET>>, <<UART, NET>>} :
       LET queue == irqs_to_raise \o pushed IN
       /\ DeviceTicks(pushed)
       /\ \/ queue # <<>> /\ RaiseIrq(Head(queue)) /\ irqs_to_raise' = Tail(queue)
          \/ queue = <<>> /\ ClearSeip /\ irqs_to_raise' = queue

BusTick ==
  /\ phase = "tick" /\ panic = "none"
  /\ TickClosed \/ TickOpen
  /\ phase' = "check"
  /\ UNCHANGED <<hartVars, guestVars, printed, got, masked, both>>

-----------------------------------------------------------------------------
(* check_local_intrrupt_active, handle_trap and prepare_interrupt *)

TrapPanic ==
  /\ interrupting_irq = NoIrq
  /\ panic' = "bus: external interrupt with nothing latched"
  /\ UNCHANGED <<plicRegs, pending, plicLatch, mip, uartVars, hartVars, guestVars>>

TakeExternal ==
  /\ interrupting_irq # NoIrq
  /\ IF interrupting_irq = UART THEN TakeInterrupt ELSE UNCHANGED uartVars
  /\ mstatus' = SupervisorEntry(mstatus, prv)
  /\ prv' = Supervisor
  /\ h' = "claim"
  /\ UNCHANGED <<plicVars, mie, serving>>

CheckInterrupt ==
  /\ phase = "check" /\ panic = "none"
  /\ \/ /\ Open(prv, mstatus, Mideleg, mip \cap mie)
        /\ TrapPanic \/ TakeExternal
     \/ /\ ~Open(prv, mstatus, Mideleg, mip \cap mie)
        /\ UNCHANGED <<plicVars, uartVars, hartVars, guestVars>>
  /\ phase' = "step"
  /\ UNCHANGED <<busVars, netVars, ghostVars>>

-----------------------------------------------------------------------------
(* The guest's instructions.  Bus::read and Bus::write queue the irq of a  *)
(* device that answers is_interrupting, after the access.                  *)

Step == phase = "step" /\ panic = "none" /\ phase' = "tick"

\* Mutant: the bus asks the device before the access.
UartAccessAsksFirst(access) ==
  /\ access
  /\ irqs_to_raise' = IF is_interrupting THEN Append(irqs_to_raise, UART)
                                         ELSE irqs_to_raise

UartAccess(access) ==
  /\ access
  /\ irqs_to_raise' = IF is_interrupting' THEN Append(irqs_to_raise, UART)
                                          ELSE irqs_to_raise

OnPlic(access) ==
  /\ access
  /\ UNCHANGED <<uartVars, busVars>>

\* The handler.
HClaim ==
  /\ Step /\ h = "claim"
  /\ OnPlic(Claim)
  /\ serving' = ClaimValue
  /\ h' = CASE ClaimValue = NoIrq -> "sret"
            [] ClaimValue = UART  -> "iir"
            [] OTHER              -> "ack"
  /\ UNCHANGED <<hartVars, netVars, ghostVars>>

HReadIir ==
  /\ Step /\ h = "iir"
  /\ UartAccess(ReadIir)
  /\ h' = IF iir = "NIP" THEN "complete" ELSE "lsr"
  /\ UNCHANGED <<plicVars, hartVars, serving, netVars, ghostVars>>

HReadLsr ==
  /\ Step /\ h = "lsr"
  /\ UartAccess(OtherAccess)
  /\ h' = IF dr THEN "rbr"
          ELSE IF ETBEI \in ier THEN "tx" ELSE "complete"
  /\ UNCHANGED <<plicVars, hartVars, serving, netVars, ghostVars>>

HReadRbr ==
  /\ Step /\ h = "rbr"
  /\ UartAccess(ReadRbr)
  /\ got' = IF dr THEN got \cup {rbr} ELSE got
  /\ h' = "lsr"
  /\ UNCHANGED <<plicVars, hartVars, serving, netVars, typed, printed, masked, both>>

\* More to print, or the transmit interrupt is switched off.
HTransmit ==
  /\ Step /\ h = "tx"
  /\ \/ /\ printed < MaxTx
        /\ UartAccess(WriteThr)
        /\ printed' = printed + 1
     \/ /\ UartAccess(WriteIer(ier \ {ETBEI}))
        /\ UNCHANGED printed
  /\ h' = "complete"
  /\ UNCHANGED <<plicVars, hartVars, serving, netVars, typed, got, masked, both>>

\* The network handler acknowledges (virtio_mmio answers is_interrupting =
\* false) and walks the used ring.
HAck ==
  /\ Step /\ h = "ack"
  /\ unseen' = FALSE
  /\ h' = "complete"
  /\ UNCHANGED <<plicVars, uartVars, busVars, hartVars, serving, packets, ghostVars>>

HComplete ==
  /\ Step /\ h = "complete"
  /\ OnPlic(Complete(serving))
  /\ serving' = NoIrq
  /\ h' = "claim"
  /\ UNCHANGED <<hartVars, netVars, ghostVars>>

HSret ==
  /\ Step /\ h = "sret"
  /\ mstatus' = SretStatus(mstatus)
  /\ prv' = mstatus.spp
  /\ h' = "none"
  /\ UNCHANGED <<plicVars, uartVars, busVars, mie, serving, netVars, ghostVars>>

\* A thread of the guest, outside the handler, in kernel mode.
Thread(op) == Step /\ h = "none" /\ op \in GuestOps
Kernel(op) == Thread(op) /\ prv = Supervisor

\* Any instruction off this path.
Compute ==
  /\ Step /\ h = "none"
  /\ UNCHANGED <<plicVars, uartVars, busVars, hartVars, guestVars, netVars, ghostVars>>

\* csrc / csrs sstatus.SIE around a critical section.
ToggleSie ==
  /\ Kernel("irqoff")
  /\ mstatus' = [mstatus EXCEPT !.sie = ~@]
  /\ UNCHANGED <<plicVars, uartVars, busVars, prv, mie, guestVars, netVars, ghostVars>>

\* The kernel returns to a user process, its context restored from memory.
ToUser ==
  /\ Kernel("user")
  /\ mstatus' = SretStatus([mstatus EXCEPT !.spp = User, !.spie = TRUE])
  /\ prv' = User
  /\ UNCHANGED <<plicVars, uartVars, busVars, mie, guestVars, netVars, ghostVars>>

Ecall ==
  /\ Thread("user") /\ prv = User
  /\ mstatus' = SupervisorEntry(mstatus, prv)
  /\ prv' = Supervisor
  /\ UNCHANGED <<plicVars, uartVars, busVars, mie, guestVars, netVars, ghostVars>>

Roomy == Len(irqs_to_raise) < MaxQueue

\* The serial driver starts or stops transmission.
SetIer ==
  /\ Kernel("ier") /\ Roomy
  /\ \E on \in BOOLEAN :
       UartAccess(WriteIer({ERBFI, ELSI} \cup (IF on THEN {ETBEI} ELSE {})))
  /\ UNCHANGED <<plicVars, hartVars, guestVars, netVars, ghostVars>>

PrintChar ==
  /\ Kernel("print") /\ Roomy /\ printed < MaxTx
  /\ UartAccess(WriteThr)
  /\ printed' = printed + 1
  /\ UNCHANGED <<plicVars, hartVars, guestVars, netVars, typed, got, masked, both>>

\* The console waits for THRE.
PollLsr ==
  /\ Kernel("poll") /\ Roomy
  /\ UartAccess(OtherAccess)
  /\ UNCHANGED <<plicVars, hartVars, guestVars, netVars, ghostVars>>

\* Mutant: the used buffers are not announced.
NotifyQuietly ==
  /\ Kernel("notify") /\ Roomy /\ packets < MaxPackets
  /\ unseen' = TRUE
  /\ packets' = packets + 1
  /\ UNCHANGED <<plicVars, uartVars, irqs_to_raise, hartVars, guestVars, ghostVars>>

\* QueueNotify of the transmit queue: the buffers are used when it returns.
Notify ==
  /\ Kernel("notify") /\ Roomy /\ packets < MaxPackets
  /\ unseen' = TRUE
  /\ packets' = packets + 1
  /\ irqs_to_raise' = Append(irqs_to_raise, NET)
  /\ UNCHANGED <<plicVars, uartVars, hartVars, guestVars, ghostVars>>

\* sie.SEIE.
ToggleSeie ==
  /\ Kernel("mask")
  /\ mie' = IF SEIP \in mie THEN mie \ {SEIP} ELSE mie \cup {SEIP}
  /\ masked' = TRUE
  /\ UNCHANGED <<plicVars, uartVars, busVars, prv, mstatus, guestVars, netVars,
                 typed, printed, got, both>>

\* disable_irq and enable_irq of a driver, and the threshold.  (Priorities
\* act through the same comparison; PlicService writes them too.)
Reconfigure ==
  /\ Kernel("plic")
  /\ OnPlic(\/ \E on \in SUBSET Irqs : WriteEnable(1, on)
            \/ \E v \in Priorities : WriteThreashold(1, v))
  /\ masked' = TRUE
  /\ UNCHANGED <<hartVars, guestVars, netVars, typed, printed, got, both>>

\* The registers of context 0 are there for S mode too.
EnableMachine ==
  /\ Kernel("plic0")
  /\ OnPlic(WriteEnable(0, {NET}))
  /\ both' = TRUE
  /\ UNCHANGED <<hartVars, guestVars, netVars, typed, printed, got, masked>>

Handler == \/ HClaim \/ HReadIir \/ HReadLsr \/ HReadRbr \/ HTransmit \/ HAck
           \/ HComplete \/ HSret
Threads == \/ Compute \/ ToggleSie \/ ToUser \/ Ecall \/ SetIer \/ PrintChar
           \/ PollLsr \/ Notify \/ ToggleSeie \/ Reconfigure \/ EnableMachine

Next == BusTick \/ CheckInterrupt \/ Handler \/ Threads

Spec == Init /\ [][Next]_vars

\* The run loop never pauses; nothing is assumed of the guest's threads.
FairSpec == Spec /\ WF_vars(Next)

-----------------------------------------------------------------------------
Queued(irq) == \E k \in 1..Len(irqs_to_raise) : irqs_to_raise[k] = irq
Buffered    == {input_buf[k] : k \in 1..Len(input_buf)}

TypeOK ==
  /\ PlicTypeOK
  /\ mip \subseteq InterruptBits /\ mie \subseteq InterruptBits
  /\ irqs_to_raise \in Seq(Irqs)
  /\ prv \in {User, Supervisor} /\ mstatus \in Status
  /\ phase \in {"tick", "check", "step"}
  /\ h \in {"none", "claim", "iir", "lsr", "rbr", "tx", "ack", "complete", "sret"}
  /\ serving \in Irqs \cup {NoIrq}
  /\ dr => rbr # NoChar

\* While context 0 is not enabled the unwraps of the path never fail: when
\* the supervisor external interrupt is taken an irq is latched (bus.rs 219),
\* and when the handler completes it still is (plic.rs 116), whatever the
\* threads mask and reconfigure.
NoPanic == ~both => panic = "none"

\* Nothing comes between a claim and its completion: the latch still holds
\* the claimed irq, although the bus may queue more of them meanwhile.
ServiceKeepsLatch ==
  serving # NoIrq => /\ interrupting_irq = serving
                     /\ serving \notin pending
                     /\ h \in {"iir", "lsr", "rbr", "tx", "ack", "complete"}

\* A device that needs service is never forgotten: outside a handler its irq
\* is queued at the bus or pending at the PLIC, whatever the guest masked, and
\* if nothing ever was, it is queued or on its way to the handler.  (If the
\* handler gave up on it, only an access or a later tick would queue it.)
Remembered ==
  h = "none" =>
    /\ is_interrupting => Queued(UART) \/ UART \in pending
    /\ unseen => Queued(NET) \/ NET \in pending
    /\ ~masked /\ ~both =>
         /\ is_interrupting => Queued(UART) \/ (interrupting_irq = UART /\ SEIP \in mip)
         /\ unseen => Queued(NET) \/ (interrupting_irq = NET /\ SEIP \in mip)

\* The line is up from the tick that raises it to the completion, not longer:
\* a guest that returned from its handler is not interrupted by a stale line.
LineOnlyDuringService ==
  (~masked /\ ~both /\ SEIP \in mip) =>
     phase = "check" \/ h \notin {"none", "sret"}

\* What the host typed is in the buffer, in rbr, or read: with transmission
\* off, no interleaving of ticks, traps and handler loses a character.
NothingLost ==
  1..typed = Buffered \cup got \cup (IF dr THEN {rbr} ELSE {})

\* The comment at plic.rs 203-204: when the conditions of an irq come to hold
\* the external interrupt is raised.  (Looked at after a tick that was open.)
DeliverableIsRaised ==
  (phase = "check" /\ CanExternalInterrupt(prv, mstatus, Mideleg)
    /\ Eligible(pending) # {}) => SEIP \in mip

\* The gate of Bus::tick is open at infinitely many ticks: true of a guest
\* that does not keep its interrupts off for ever.
GateOpensOften ==
  []<>(phase = "tick" /\ CanExternalInterrupt(prv, mstatus, Mideleg))

\* Every character the host typed is read, and every completion of the
\* network device is seen, by a guest that keeps opening its interrupts,
\* whether the device buffers a character or pushes it in the tick it comes.
EveryCharRead ==
  GateOpensOften => \A c \in 1..MaxTyped : (typed >= c) ~> (c \in got)
EveryCompletionSeen == GateOpensOften => (unseen ~> ~unseen)
=============================================================================
