------------------------ MODULE InterruptPathProofs ------------------------
(***************************************************************************)
(* Proofs about InterruptPath, for any bounds and any threads of the       *)
(* guest.  The layers build on each other: the shape of the state; what a  *)
(* handler may rely on while it runs; what the latch says of the line; and *)
(* where an interrupt is on its way while nothing was masked.              *)
(***************************************************************************)
EXTENDS InterruptPath, SequenceTheorems, TLAPS

UartShape ==
  /\ dr \in BOOLEAN /\ rbr \in Nat /\ (dr => rbr # NoChar)
  /\ ier \subseteq IerBits
  /\ iir \in {"NIP", "THRE", "RDA"}
  /\ is_interrupting \in BOOLEAN
  /\ input_buf \in Seq(Nat \ {0})

PlicShape ==
  /\ PlicTypeOK
  /\ \A c \in {0, 1} \ Contexts : enables[c] = {}
  /\ mip \subseteq {SEIP, MEIP}

HartShape == prv \in {User, Supervisor} /\ mstatus \in Status /\ mie \subseteq {SEIP}

GuestShape ==
  /\ phase \in {"tick", "check", "step"}
  /\ h \in {"none", "claim", "iir", "lsr", "rbr", "tx", "ack", "complete", "sret"}
  /\ serving \in Irqs \cup {NoIrq}

CountShape ==
  typed \in Nat /\ unseen \in BOOLEAN /\ masked \in BOOLEAN /\ both \in BOOLEAN

Shape == /\ PlicShape /\ UartShape /\ irqs_to_raise \in Seq(Irqs)
         /\ HartShape /\ GuestShape /\ CountShape

\* The steps of the handler between a claim and its completion.
ServiceSteps == {"iir", "lsr", "rbr", "tx", "ack", "complete"}

\* The handler runs with the gate of the bus closed, so that the latch cannot
\* change under it.
HandlerInv ==
  /\ h # "none" => prv = Supervisor /\ ~mstatus.sie
  /\ h \in ServiceSteps <=> serving # NoIrq
  /\ ServiceKeepsLatch

\* Without context 0 the line is SEIP, and the latch is full while it is up.
LatchInv ==
  /\ interrupting_irq = NoIrq <=> interrupting_ctx = NoCtx
  /\ ~both => /\ enables[0] = {}
              /\ interrupting_ctx # 0
              /\ mip \subseteq {SEIP}
              /\ SEIP \in mip => interrupting_irq # NoIrq

\* While nothing was masked there is at most one interrupt between the bus and
\* the claim: it is pending, latched and its line is up.
Unmasked == ~masked /\ ~both

OneOnItsWay ==
  interrupting_irq # NoIrq /\ pending = {interrupting_irq} /\ SEIP \in mip

NoneOnItsWay ==
  interrupting_irq = NoIrq /\ pending = {} /\ SEIP \notin mip

WayInv ==
  Unmasked =>
    /\ mie = {SEIP}
    /\ enables[1] = Irqs /\ threasholds[1] = 0
    /\ h = "none" =>
         \/ NoneOnItsWay
         \/ OneOnItsWay /\ phase = "check" /\ CanExternalInterrupt(prv, mstatus, Mideleg)
    /\ h = "claim" => NoneOnItsWay \/ OneOnItsWay
    /\ h = "sret" => NoneOnItsWay
    /\ h \in ServiceSteps => pending = {} /\ SEIP \in mip

\* A device that wants service is queued, or the handler has yet to look at it.
DeviceInv ==
  Unmasked =>
    /\ is_interrupting =>
         \/ Queued(UART)
         \/ interrupting_irq = UART /\ h \in {"none", "claim", "iir"}
    /\ unseen =>
         \/ Queued(NET)
         \/ interrupting_irq = NET /\ h \in {"none", "claim", "ack"}

\* Masked or not, its irq is queued or pending, or its handler was told.
KeptInv ==
  /\ is_interrupting => Queued(UART) \/ UART \in pending \/ h = "iir"
  /\ unseen => Queued(NET) \/ NET \in pending \/ h = "ack"

PrioritiesOne == priorities = [i \in Irqs |-> 1]

\* With transmission off the receive buffer is emptied by reads of it only.
ReceiveInv ==
  /\ ETBEI \notin ier
  /\ h # "tx"
  /\ iir # "THRE"
  /\ dr => iir = "RDA"
  /\ NothingLost

-----------------------------------------------------------------------------
(* What the operations do. *)

\* The two external lines are different bits.
LEMMA Lines ==
  /\ Line(1) = SEIP /\ Line(0) = MEIP /\ SEIP # MEIP
  /\ {SEIP, MEIP} \subseteq InterruptBits
BY SMT DEF Line, SEIP, MEIP, InterruptBits

\* The devices' numbers are not the one that stands for an empty latch.
LEMMA Numbers ==
  /\ UART \in Irqs /\ NET \in Irqs /\ UART # NET
  /\ \A i \in Irqs : i # NoIrq
  /\ 0 # NoCtx /\ 1 # NoCtx
BY PathIrqsAssumption, SMT DEF UART, NET, NoIrq, NoCtx

\* Traps and returns keep mstatus a status; a trap clears SIE.
LEMMA StatusMoves ==
  ASSUME NEW st \in Status, NEW from
  PROVE  /\ SupervisorEntry(st, from) \in Status /\ ~SupervisorEntry(st, from).sie
         /\ SretStatus(st) \in Status
         /\ SretStatus([st EXCEPT !.spp = User, !.spie = TRUE]) \in Status
         /\ [st EXCEPT !.sie = ~st.sie] \in Status
         /\ st.sie \in BOOLEAN /\ st.spp \in {User, Supervisor}
BY DEF SupervisorEntry, SretStatus, Status

\* In S mode with SIE clear neither gate lets a supervisor external interrupt by.
LEMMA ClosedGates ==
  ASSUME prv = Supervisor, ~mstatus.sie, NEW active \in SUBSET {SEIP}
  PROVE  /\ ~CanExternalInterrupt(prv, mstatus, Mideleg)
         /\ ~Open(prv, mstatus, Mideleg, active)
BY DEF CanExternalInterrupt, Open, Mideleg

\* When one gate is open for a delegated SEIP, so is the other.
LEMMA SameGates ==
  ASSUME prv \in {User, Supervisor}, CanExternalInterrupt(prv, mstatus, Mideleg)
  PROVE  Open(prv, mstatus, Mideleg, {SEIP})
BY DEF CanExternalInterrupt, Open, Mideleg

\* A raise makes the irq pending and latches, if any, an enabled pair.
LEMMA RaiseEffect ==
  ASSUME Shape, NEW irq \in Irqs, RaiseIrq(irq)
  PROVE  /\ pending' = pending \cup {irq} /\ panic = "none"
         /\ UNCHANGED <<priorities, enables, threasholds, panic>>
         /\ \/ UNCHANGED <<interrupting_irq, interrupting_ctx, mip>>
            \/ /\ interrupting_irq' \in Irqs /\ interrupting_irq' \in pending'
               /\ interrupting_ctx' \in {0, 1}
               /\ interrupting_irq' \in enables[interrupting_ctx']
               /\ mip' = mip \cup {Line(interrupting_ctx')}
<1>1. /\ pending' = pending \cup {irq} /\ panic = "none"
      /\ UNCHANGED <<priorities, enables, threasholds, panic>>
  BY DEF RaiseIrq, plicRegs
<1>2. \/ UNCHANGED <<interrupting_irq, interrupting_ctx, mip>>
      \/ \E p \in Eligible(pending \cup {irq}) :
           /\ interrupting_irq' = p[1] /\ interrupting_ctx' = p[2]
           /\ mip' = mip \cup {Line(p[2])}
  BY DEF RaiseIrq, plicLatch
<1>3. ASSUME NEW p \in Eligible(pending \cup {irq})
      PROVE  /\ p[1] \in pending \cup {irq} /\ p[1] \in Irqs
             /\ p[2] \in {0, 1} /\ p[1] \in enables[p[2]]
  BY DEF Eligible, Shape, PlicShape, PlicTypeOK
<1> QED
  BY <1>1, <1>2, <1>3

\* With nothing pending and every irq enabled for S mode alone, the irq raised
\* is the one that is latched.
LEMMA RaiseAlone ==
  ASSUME Shape, PrioritiesOne, pending = {}, NEW irq \in Irqs, RaiseIrq(irq),
         enables[0] = {}, enables[1] = Irqs, threasholds[1] = 0
  PROVE  /\ pending' = {irq}
         /\ interrupting_irq' = irq /\ interrupting_ctx' = 1
         /\ mip' = mip \cup {SEIP}
<1>1. priorities[irq] > threasholds[1]
  BY SMT DEF PrioritiesOne
<1>2. <<irq, 1>> \in Eligible(pending \cup {irq})
  BY <1>1 DEF Eligible
<1>3. \A p \in Eligible(pending \cup {irq}) : p[1] = irq /\ p[2] = 1
  BY DEF Eligible
<1>4. PICK p \in Eligible(pending \cup {irq}) :
        /\ interrupting_irq' = p[1] /\ interrupting_ctx' = p[2]
        /\ mip' = mip \cup {Line(p[2])}
  BY <1>2 DEF RaiseIrq
<1> QED
  BY <1>3, <1>4, Lines DEF RaiseIrq

-----------------------------------------------------------------------------
(* The shape of the state. *)

\* A tick of the serial device keeps its registers and its buffer well formed.
LEMMA TickShape ==
  ASSUME UartShape, NEW char \in Nat, Tick(char)
  PROVE  UartShape'
<1> DEFINE buf == TickBuffer(char)
<1>0. NoChar = 0
  BY PathBounds
<1>1. buf \in Seq(Nat \ {0})
  <2>1. CASE char = NoChar
    BY <2>1 DEF TickBuffer, UartShape
  <2>2. CASE char # NoChar
    BY <2>2, <1>0, AppendProperties DEF TickBuffer, UartShape
  <2> QED
    BY <2>1, <2>2
<1>2. CASE TickPushes(char)
  <2>1. Len(buf) \in Nat /\ Len(buf) > 0
    BY <1>1, <1>2, EmptySeq, SMT DEF TickPushes
  <2>2. buf[Len(buf)] \in Nat \ {0}
    BY <1>1, <2>1, ElementOfSeq, SMT
  <2>3. SubSeq(buf, 1, Len(buf) - 1) \in Seq(Nat \ {0})
    <3>1. \A i \in 1..(Len(buf) - 1) : buf[i] \in Nat \ {0}
      BY <1>1, <2>1, ElementOfSeq, SMT
    <3> HIDE DEF buf
    <3> QED
      BY <2>1, <3>1, SubSeqProperties, SMT
  <2>4. /\ rbr' = buf[Len(buf)] /\ input_buf' = SubSeq(buf, 1, Len(buf) - 1)
        /\ dr' = TRUE /\ iir' = "RDA" /\ is_interrupting' = TRUE /\ ier' = ier
    BY <1>2 DEF Tick, RaiseInterrupt
  <2> QED
    BY <1>0, <2>2, <2>3, <2>4 DEF UartShape
<1>3. CASE ~TickPushes(char)
  <2>1. input_buf' = buf /\ UNCHANGED <<rbr, dr, ier, iir, is_interrupting>>
    BY <1>3 DEF Tick, uartIrq
  <2> QED
    BY <1>1, <2>1 DEF UartShape
<1> QED
  BY <1>2, <1>3

\* So does every access of the guest.
LEMMA AccessShape ==
  ASSUME UartShape,
         \/ ReadIir \/ ReadRbr \/ WriteThr \/ OtherAccess \/ TakeInterrupt
         \/ \E value \in SUBSET IerBits : WriteIer(value)
  PROVE  UartShape'
<1>0. NoChar \in Nat
  BY PathBounds
<1>1. CASE ReadIir
  BY <1>1 DEF ReadIir, LowerInterrupt, UartShape, uartIrq
<1>2. CASE ReadRbr
  BY <1>0, <1>2 DEF ReadRbr, LowerInterrupt, UartShape, uartIrq
<1>3. CASE WriteThr
  BY <1>3 DEF WriteThr, RaiseInterrupt, UartShape, uartIrq
<1>4. CASE OtherAccess \/ TakeInterrupt
  BY <1>4 DEF OtherAccess, TakeInterrupt, UartShape, uartVars, uartIrq
<1>5. ASSUME NEW value \in SUBSET IerBits, WriteIer(value) PROVE UartShape'
  <2>1. ier' = value /\ UNCHANGED <<rbr, input_buf>>
    BY <1>5 DEF WriteIer
  <2>2. \/ UNCHANGED <<dr, iir, is_interrupting>>
        \/ iir' = "THRE" /\ is_interrupting' = TRUE /\ UNCHANGED dr
        \/ iir' = "NIP" /\ is_interrupting' = FALSE /\ dr' = FALSE
    BY <1>5, Zenon DEF WriteIer, RaiseInterrupt, LowerInterrupt, uartIrq
  <2>3. CASE UNCHANGED <<dr, iir, is_interrupting>>
    BY <2>1, <2>3 DEF UartShape
  <2>4. CASE iir' = "THRE" /\ is_interrupting' = TRUE /\ UNCHANGED dr
    BY <2>1, <2>4 DEF UartShape
  <2>5. CASE iir' = "NIP" /\ is_interrupting' = FALSE /\ dr' = FALSE
    BY <2>1, <2>5 DEF UartShape
  <2> QED
    BY <2>2, <2>3, <2>4, <2>5
<1> QED
  BY <1>1, <1>2, <1>3, <1>4, <1>5

\* An access to the serial device keeps the queue of the bus well formed.
LEMMA QueueShape ==
  ASSUME irqs_to_raise \in Seq(Irqs), NEW ACTION access, UartAccess(access)
  PROVE  irqs_to_raise' \in Seq(Irqs)
BY AppendProperties, Numbers DEF UartAccess

\* Whoever leaves a component alone keeps its shape.
LEMMA PlicFrame ==
  ASSUME PlicShape, UNCHANGED plicVars
  PROVE  PlicShape'
BY DEF PlicShape, PlicTypeOK, plicVars, plicRegs, plicLatch

LEMMA UartFrame ==
  ASSUME UartShape, UNCHANGED uartVars
  PROVE  UartShape'
BY AccessShape DEF OtherAccess

LEMMA HartFrame ==
  ASSUME HartShape, UNCHANGED hartVars
  PROVE  HartShape'
BY DEF HartShape, hartVars

LEMMA CountFrame ==
  ASSUME CountShape, UNCHANGED <<typed, unseen, masked, both>>
  PROVE  CountShape'
BY DEF CountShape

LEMMA ShapeIsType ==
  ASSUME Shape
  PROVE  TypeOK
BY Lines DEF Shape, PlicShape, UartShape, HartShape, GuestShape, TypeOK

\* A raise keeps the shape of the PLIC.
LEMMA RaiseShape ==
  ASSUME Shape, NEW irq \in Irqs, RaiseIrq(irq)
  PROVE  PlicShape'
<1>1. pending' \subseteq Irqs /\ UNCHANGED <<priorities, enables, threasholds>>
  BY RaiseEffect DEF Shape, PlicShape, PlicTypeOK
<1>2. CASE UNCHANGED <<interrupting_irq, interrupting_ctx, mip>>
  BY <1>1, <1>2 DEF Shape, PlicShape, PlicTypeOK
<1>3. CASE /\ interrupting_irq' \in Irqs
           /\ interrupting_ctx' \in {0, 1}
           /\ interrupting_irq' \in enables[interrupting_ctx']
           /\ mip' = mip \cup {Line(interrupting_ctx')}
  <2>1. interrupting_ctx' \in Contexts
    BY <1>3 DEF Shape, PlicShape
  <2> QED
    BY <1>1, <1>3, <2>1, Lines DEF Shape, PlicShape, PlicTypeOK
<1> QED
  BY <1>2, <1>3, RaiseEffect

\* What the devices push in a tick is a queue of irqs.
LEMMA PushedInSeq ==
  \A pushed \in {<<>>, <<UART>>, <<NET>>, <<UART, NET>>} : pushed \in Seq(Irqs)
<1>1. /\ <<>> \in Seq(Irqs) /\ <<UART>> \in Seq(Irqs) /\ <<NET>> \in Seq(Irqs)
      /\ <<UART, NET>> \in Seq(Irqs)
  BY Numbers
<1> QED
  BY <1>1

\* A tick of the bus.
LEMMA BusTickShape ==
  ASSUME Shape, BusTick
  PROVE  Shape'
<1>1. /\ HartShape' /\ GuestShape'
      /\ masked' \in BOOLEAN /\ both' \in BOOLEAN
  BY HartFrame DEF BusTick, Shape, GuestShape, CountShape, guestVars
<1>2. CASE TickClosed
  BY <1>1, <1>2, PlicFrame, UartFrame DEF TickClosed, Shape, busVars, netVars, CountShape
<1>3. CASE TickOpen
  <2>1. PICK pushed \in {<<>>, <<UART>>, <<NET>>, <<UART, NET>>} :
          /\ DeviceTicks(pushed)
          /\ \/ /\ irqs_to_raise \o pushed # <<>>
                /\ RaiseIrq(Head(irqs_to_raise \o pushed))
                /\ irqs_to_raise' = Tail(irqs_to_raise \o pushed)
             \/ ClearSeip /\ irqs_to_raise' = irqs_to_raise \o pushed
    BY <1>3 DEF TickOpen
  <2> DEFINE queue == irqs_to_raise \o pushed
  <2>2. queue \in Seq(Irqs)
    BY PushedInSeq, ConcatProperties DEF Shape
  <2>3. UartShape' /\ typed' \in Nat /\ unseen' \in BOOLEAN
    <3>1. PICK char \in {NoChar} \cup (IF typed < MaxTyped THEN {typed + 1} ELSE {}),
               packet \in {FALSE} \cup (IF packets < MaxPackets THEN {TRUE} ELSE {}) :
            /\ Tick(char)
            /\ typed' = IF char = NoChar THEN typed ELSE char
            /\ unseen' = (unseen \/ packet)
      BY <2>1 DEF DeviceTicks
    <3>2. char \in Nat
      BY PathBounds, SMT DEF Shape, CountShape
    <3> QED
      BY <3>1, <3>2, TickShape DEF Shape, CountShape
  <2>4. irqs_to_raise' \in Seq(Irqs) /\ (queue # <<>> => Head(queue) \in Irqs)
    BY <2>1, <2>2, HeadTailProperties
  <2>5. PlicShape'
    <3>1. CASE ClearSeip
      BY <3>1 DEF ClearSeip, Shape, PlicShape, PlicTypeOK, plicRegs, plicLatch
    <3> QED
      BY <2>1, <2>4, <3>1, RaiseShape
  <2> QED
    BY <1>1, <2>3, <2>4, <2>5 DEF Shape, CountShape
<1> QED
  BY <1>2, <1>3 DEF BusTick

\* Taking the interrupt, or not.
LEMMA CheckShape ==
  ASSUME Shape, CheckInterrupt
  PROVE  Shape'
<1>1. /\ phase' = "step" /\ irqs_to_raise' \in Seq(Irqs)
      /\ CountShape'
  BY CountFrame DEF CheckInterrupt, busVars, netVars, ghostVars, Shape
<1>2. CASE TrapPanic
  BY <1>1, <1>2, UartFrame, HartFrame DEF TrapPanic, Shape, PlicShape, PlicTypeOK,
     plicRegs, plicLatch, guestVars, GuestShape
<1>3. CASE TakeExternal
  <2>1. UartShape'
    BY <1>3, AccessShape, UartFrame DEF TakeExternal, Shape
  <2>2. HartShape'
    BY <1>3, StatusMoves DEF TakeExternal, Shape, HartShape
  <2> QED
    BY <1>1, <1>3, <2>1, <2>2, PlicFrame DEF TakeExternal, Shape, GuestShape
<1>4. CASE UNCHANGED <<plicVars, uartVars, hartVars, guestVars>>
  BY <1>1, <1>4, PlicFrame, UartFrame, HartFrame DEF Shape, GuestShape, guestVars
<1> QED
  BY <1>2, <1>3, <1>4 DEF CheckInterrupt

\* The instructions of the handler.
LEMMA HandlerShape ==
  ASSUME Shape, Handler
  PROVE  Shape'
<1>1. CASE HClaim
  <2>1. PlicShape'
    BY <1>1 DEF HClaim, OnPlic, Claim, Shape, PlicShape, PlicTypeOK, plicRegs, plicLatch
  <2>2. GuestShape'
    BY <1>1 DEF HClaim, Step, ClaimValue, Shape, PlicShape, PlicTypeOK, GuestShape
  <2> QED
    BY <1>1, <2>1, <2>2, UartFrame, HartFrame, CountFrame
       DEF HClaim, OnPlic, Shape, busVars, netVars, ghostVars
<1>2. CASE HReadIir
  <2>1. GuestShape'
    BY <1>2 DEF HReadIir, Step, Shape, GuestShape
  <2> QED
    BY <1>2, <2>1, PlicFrame, AccessShape, QueueShape, HartFrame, CountFrame
       DEF HReadIir, UartAccess, Shape, netVars, ghostVars
<1>3. CASE HReadLsr
  <2>1. GuestShape'
    BY <1>3 DEF HReadLsr, Step, Shape, GuestShape
  <2> QED
    BY <1>3, <2>1, PlicFrame, AccessShape, QueueShape, HartFrame, CountFrame
       DEF HReadLsr, UartAccess, Shape, netVars, ghostVars
<1>4. CASE HReadRbr
  <2>1. GuestShape'
    BY <1>4 DEF HReadRbr, Step, Shape, GuestShape
  <2> QED
    BY <1>4, <2>1, PlicFrame, AccessShape, QueueShape, HartFrame, CountFrame
       DEF HReadRbr, UartAccess, Shape, netVars
<1>5. CASE HTransmit
  <2>1. GuestShape'
    BY <1>5 DEF HTransmit, Step, Shape, GuestShape
  <2>2. UartShape' /\ irqs_to_raise' \in Seq(Irqs)
    <3>1. UartAccess(WriteThr) \/ UartAccess(WriteIer(ier \ {ETBEI}))
      BY <1>5 DEF HTransmit
    <3>2. ier \ {ETBEI} \in SUBSET IerBits
      BY DEF Shape, UartShape
    <3> QED
      BY <3>1, <3>2, AccessShape, QueueShape DEF UartAccess, Shape
  <2> QED
    BY <1>5, <2>1, <2>2, PlicFrame, HartFrame, CountFrame DEF HTransmit, Shape, netVars
<1>6. CASE HAck
  BY <1>6, PlicFrame, UartFrame, HartFrame
     DEF HAck, Step, Shape, GuestShape, CountShape, busVars, ghostVars
<1>7. CASE HComplete
  <2>1. PlicShape'
    BY <1>7, PlicFrame DEF HComplete, OnPlic, Complete, CompletePanic, CompleteLatched,
       CompleteOther, Shape, PlicShape, PlicTypeOK, plicRegs, plicLatch
  <2> QED
    BY <1>7, <2>1, UartFrame, HartFrame, CountFrame
       DEF HComplete, Step, OnPlic, Shape, GuestShape, busVars, netVars, ghostVars
<1>8. CASE HSret
  <2>1. HartShape'
    BY <1>8, StatusMoves DEF HSret, Shape, HartShape
  <2> QED
    BY <1>8, <2>1, PlicFrame, UartFrame, CountFrame
       DEF HSret, Step, Shape, GuestShape, busVars, netVars, ghostVars
<1> QED
  BY <1>1, <1>2, <1>3, <1>4, <1>5, <1>6, <1>7, <1>8 DEF Handler

\* The instructions of the threads.
LEMMA ThreadsShape ==
  ASSUME Shape, Threads
  PROVE  Shape'
<1>0. Threads => phase' = "tick" /\ UNCHANGED guestVars
  BY DEF Threads, Compute, ToggleSie, ToUser, Ecall, SetIer, PrintChar, PollLsr,
     Notify, ToggleSeie, Reconfigure, EnableMachine, Kernel, Thread, Step
<1>1. GuestShape'
  BY <1>0 DEF Shape, GuestShape, guestVars
<1>2. CASE Compute
  BY <1>1, <1>2, PlicFrame, UartFrame, HartFrame, CountFrame
     DEF Compute, Shape, busVars, netVars, ghostVars
<1>3. CASE ToggleSie \/ ToUser \/ Ecall
  <2>1. HartShape'
    BY <1>3, StatusMoves DEF ToggleSie, ToUser, Ecall, Shape, HartShape
  <2>2. UNCHANGED <<plicVars, uartVars, busVars, netVars, ghostVars>>
    BY <1>3 DEF ToggleSie, ToUser, Ecall
  <2> QED
    BY <1>1, <2>1, <2>2, PlicFrame, UartFrame, CountFrame
       DEF Shape, busVars, netVars, ghostVars
<1>4. CASE SetIer \/ PrintChar \/ PollLsr
  <2>1. UartShape' /\ irqs_to_raise' \in Seq(Irqs)
    <3>1. \A on \in BOOLEAN :
            {ERBFI, ELSI} \cup (IF on THEN {ETBEI} ELSE {}) \in SUBSET IerBits
      BY SMT DEF ERBFI, ELSI, ETBEI, IerBits
    <3>2. \/ UartAccess(WriteThr) \/ UartAccess(OtherAccess)
          \/ \E value \in SUBSET IerBits : UartAccess(WriteIer(value))
      BY <1>4, <3>1 DEF SetIer, PrintChar, PollLsr
    <3> QED
      BY <3>2, AccessShape, QueueShape DEF UartAccess, Shape
  <2>2. UNCHANGED <<plicVars, hartVars, unseen, typed, masked, both>>
    BY <1>4 DEF SetIer, PrintChar, PollLsr, netVars, ghostVars
  <2> QED
    BY <1>1, <2>1, <2>2, PlicFrame, HartFrame, CountFrame DEF Shape
<1>5. CASE Notify
  <2>1. irqs_to_raise' \in Seq(Irqs)
    BY <1>5, AppendProperties, Numbers DEF Notify, Shape
  <2> QED
    BY <1>1, <1>5, <2>1, PlicFrame, UartFrame, HartFrame
       DEF Notify, Shape, CountShape, ghostVars
<1>6. CASE ToggleSeie
  <2>1. HartShape'
    BY <1>6 DEF ToggleSeie, Shape, HartShape
  <2> QED
    BY <1>1, <1>6, <2>1, PlicFrame, UartFrame
       DEF ToggleSeie, Shape, CountShape, busVars, netVars
<1>7. CASE Reconfigure
  <2>1. PlicShape'
    <3>1. CASE \E on \in SUBSET Irqs : WriteEnable(1, on)
      BY <3>1, PathContextsAssumption
         DEF WriteEnable, Shape, PlicShape, PlicTypeOK, plicLatch
    <3>2. CASE \E v \in Priorities : WriteThreashold(1, v)
      BY <3>2, PrioritiesAssumption
         DEF WriteThreashold, Shape, PlicShape, PlicTypeOK, plicLatch
    <3> QED
      BY <1>7, <3>1, <3>2 DEF Reconfigure, OnPlic
  <2> QED
    BY <1>1, <1>7, <2>1, UartFrame, HartFrame
       DEF Reconfigure, OnPlic, Shape, CountShape, busVars, netVars
<1>8. CASE EnableMachine
  <2>1. 0 \in Contexts
    BY <1>8, PathContextsAssumption DEF EnableMachine, Kernel, Thread
  <2>2. PlicShape'
    BY <1>8, <2>1, Numbers
       DEF EnableMachine, OnPlic, WriteEnable, Shape, PlicShape, PlicTypeOK, plicLatch
  <2> QED
    BY <1>1, <1>8, <2>2, UartFrame, HartFrame
       DEF EnableMachine, OnPlic, Shape, CountShape, busVars, netVars
<1> QED
  BY <1>2, <1>3, <1>4, <1>5, <1>6, <1>7, <1>8 DEF Threads

\* The shape of every reachable state, for any threads and bounds.
LEMMA ShapeHolds == Spec => []Shape
<1>1. Init => Shape
  <2> SUFFICES ASSUME Init PROVE Shape
    OBVIOUS
  <2>1. PlicShape
    <3>1. priorities \in [Irqs -> Nat]
      BY DEF Init
    <3>2. /\ enables \in [{0, 1} -> SUBSET Irqs]
          /\ enables[0] = {} /\ threasholds \in [{0, 1} -> Nat]
      BY DEF Init
    <3>3. \A c \in {0, 1} \ Contexts : c = 0
      BY PathContextsAssumption
    <3> QED
      BY <3>1, <3>2, <3>3 DEF Init, PlicShape, PlicTypeOK
  <2>2. UartShape
    <3>1. ier \subseteq IerBits
      BY SMT DEF Init, ERBFI, ELSI, IerBits
    <3>2. rbr \in Nat
      BY PathBounds DEF Init
    <3>3. input_buf \in Seq(Nat \ {0})
      BY DEF Init
    <3> QED
      BY <3>1, <3>2, <3>3 DEF Init, UartShape
  <2>3. HartShape
    <3>1. StatusInit \in Status
      BY SMT DEF StatusInit, Status, User, Supervisor
    <3>2. [StatusInit EXCEPT !.sie = TRUE] \in Status
      BY <3>1 DEF Status
    <3> QED
      BY <3>2 DEF Init, HartShape
  <2> QED
    BY <2>1, <2>2, <2>3, SMT DEF Init, Shape, GuestShape, CountShape
<1>2. Shape /\ [Next]_vars => Shape'
  <2>1. ASSUME Shape, UNCHANGED vars PROVE Shape'
    BY <2>1, PlicFrame, UartFrame, HartFrame, CountFrame
       DEF vars, Shape, GuestShape, guestVars, busVars, netVars, ghostVars
  <2> QED
    BY <2>1, BusTickShape, CheckShape, HandlerShape, ThreadsShape DEF Next
<1> QED
  BY <1>1, <1>2, PTL DEF Spec

\* The path is well typed, whatever the threads do and however much the host
\* sends.
THEOREM PathTypeCorrect == Spec => []TypeOK
BY ShapeHolds, ShapeIsType, PTL

-----------------------------------------------------------------------------
(* What the handler may rely on. *)

\* A thread runs outside the handler, and one that changes what the PLIC
\* delivers, or SEIE, is noted as masked or both.
LEMMA ThreadsEffect ==
  ASSUME Shape, Threads
  PROVE  /\ h = "none" /\ phase = "step" /\ phase' = "tick" /\ panic = "none"
         /\ UNCHANGED <<h, serving, mip, pending, interrupting_irq, interrupting_ctx,
                        panic, priorities>>
         /\ \/ masked' /\ UNCHANGED both /\ enables'[0] = enables[0]
            \/ both' /\ UNCHANGED masked
            \/ UNCHANGED <<plicVars, mie, masked, both>>
<1>1. CASE Compute \/ ToggleSie \/ ToUser \/ Ecall \/ SetIer \/ PrintChar \/ PollLsr \/ Notify
  BY <1>1 DEF Compute, ToggleSie, ToUser, Ecall, SetIer, PrintChar, PollLsr, Notify,
     Kernel, Thread, Step, plicVars, plicRegs, plicLatch, hartVars, guestVars, ghostVars
<1>2. CASE ToggleSeie
  BY <1>2 DEF ToggleSeie, Kernel, Thread, Step, plicVars, plicLatch, plicRegs, guestVars
<1>3. CASE Reconfigure
  <2>1. enables'[0] = enables[0] \/ enables' = enables
    BY <1>3 DEF Reconfigure, OnPlic, WriteEnable, WriteThreashold, Shape, PlicShape, PlicTypeOK
  <2> QED
    BY <1>3, <2>1 DEF Reconfigure, Kernel, Thread, Step, OnPlic, WriteEnable,
       WriteThreashold, plicLatch, guestVars
<1>4. CASE EnableMachine
  BY <1>4 DEF EnableMachine, Kernel, Thread, Step, OnPlic, WriteEnable, plicLatch,
     guestVars
<1> QED
  BY <1>1, <1>2, <1>3, <1>4 DEF Threads

\* The steps of the handler leave the PLIC alone but for claim and completion.
HandlerAccess == HReadIir \/ HReadLsr \/ HReadRbr \/ HTransmit \/ HAck

LEMMA HandlerAccessEffect ==
  ASSUME HandlerAccess
  PROVE  /\ h \in ServiceSteps \ {"complete"} /\ h' \in ServiceSteps
         /\ UNCHANGED <<plicVars, hartVars, serving, masked, both>>
BY DEF HandlerAccess, HReadIir, HReadLsr, HReadRbr, HTransmit, HAck, ServiceSteps,
   ghostVars

\* In the handler both gates are closed.
LEMMA HandlerClosed ==
  ASSUME Shape, HandlerInv, h # "none"
  PROVE  /\ ~CanExternalInterrupt(prv, mstatus, Mideleg)
         /\ ~Open(prv, mstatus, Mideleg, mip \cap mie)
<1>1. mip \cap mie \in SUBSET {SEIP}
  BY DEF Shape, HartShape
<1> QED
  BY <1>1, ClosedGates DEF HandlerInv

LEMMA HandlerInvStep ==
  ASSUME Shape, HandlerInv, [Next]_vars
  PROVE  HandlerInv'
<1> USE DEF HandlerInv, ServiceKeepsLatch
<1>0. "none" \notin ServiceSteps /\ "claim" \notin ServiceSteps /\ "sret" \notin ServiceSteps
  BY DEF ServiceSteps
<1>1. CASE UNCHANGED vars
  BY <1>1 DEF vars, plicVars, plicLatch, hartVars, guestVars
<1>2. CASE BusTick
  <2>1. UNCHANGED <<prv, mstatus, h, serving>>
    BY <1>2 DEF BusTick, hartVars, guestVars
  <2>2. CASE h = "none"
    BY <1>0, <2>1, <2>2
  <2>3. CASE h # "none"
    BY <1>2, <2>1, <2>3, HandlerClosed
       DEF BusTick, TickOpen, TickClosed, plicVars, plicLatch
  <2> QED
    BY <2>2, <2>3
<1>3. CASE CheckInterrupt
  <2>1. CASE TakeExternal /\ Open(prv, mstatus, Mideleg, mip \cap mie)
    <3>1. h = "none" /\ serving = NoIrq
      BY <1>0, <2>1, HandlerClosed
    <3>2. prv' = Supervisor /\ ~mstatus'.sie /\ h' = "claim" /\ serving' = serving
      BY <2>1, StatusMoves DEF TakeExternal, Shape, HartShape
    <3> QED
      BY <1>0, <3>1, <3>2
  <2>2. CASE UNCHANGED <<hartVars, guestVars, plicLatch, pending>>
    BY <2>2 DEF hartVars, guestVars, plicLatch
  <2> QED
    BY <1>3, <2>1, <2>2 DEF CheckInterrupt, TrapPanic, plicVars
<1>4. CASE HandlerAccess
  BY <1>4, HandlerAccessEffect DEF hartVars, plicVars, plicLatch, ServiceSteps
<1>5. CASE HClaim
  <2>1. interrupting_irq \in {NoIrq, UART, NET}
    BY PathIrqsAssumption DEF Shape, PlicShape, PlicTypeOK
  <2>2. CASE interrupting_irq = NoIrq
    BY <1>0, <1>5, <2>2, Numbers DEF HClaim, ClaimValue, hartVars
  <2>3. CASE interrupting_irq = UART
    BY <1>5, <2>3, Numbers
       DEF HClaim, ClaimValue, OnPlic, Claim, plicLatch, hartVars, ServiceSteps
  <2>4. CASE interrupting_irq = NET
    BY <1>5, <2>4, Numbers
       DEF HClaim, ClaimValue, OnPlic, Claim, plicLatch, hartVars, ServiceSteps
  <2> QED
    BY <2>1, <2>2, <2>3, <2>4
<1>6. CASE HComplete
  BY <1>0, <1>6 DEF HComplete, hartVars
<1>7. CASE HSret
  BY <1>0, <1>7 DEF HSret
<1>8. CASE Threads
  BY <1>0, <1>8, ThreadsEffect
<1> QED
  BY <1>1, <1>2, <1>3, <1>4, <1>5, <1>6, <1>7, <1>8 DEF Next, Handler, HandlerAccess

LEMMA HandlerInvHolds == Spec => []HandlerInv
<1>1. Init => HandlerInv
  BY DEF Init, HandlerInv, ServiceKeepsLatch, ServiceSteps
<1> QED
  BY <1>1, HandlerInvStep, ShapeHolds, PTL DEF Spec

\* Between a claim and its completion the latch holds the claimed irq and the
\* irq is not pending again, however many irqs the bus queues meanwhile and
\* whatever was masked, reconfigured, or enabled for M mode.
THEOREM LatchKeptDuringService == Spec => []ServiceKeepsLatch
BY HandlerInvHolds, PTL DEF HandlerInv

-----------------------------------------------------------------------------
(* What the latch says of the line. *)

\* A tick that is open raises an irq of a device or drops SEIP.
LEMMA TickOpenRaises ==
  ASSUME Shape, TickOpen
  PROVE  ClearSeip \/ \E irq \in Irqs : RaiseIrq(irq)
<1>1. PICK pushed \in {<<>>, <<UART>>, <<NET>>, <<UART, NET>>} :
        \/ /\ irqs_to_raise \o pushed # <<>>
           /\ RaiseIrq(Head(irqs_to_raise \o pushed))
        \/ ClearSeip
  BY DEF TickOpen
<1>2. irqs_to_raise \o pushed \in Seq(Irqs)
  BY PushedInSeq, ConcatProperties DEF Shape
<1> QED
  BY <1>1, <1>2, HeadTailProperties

\* What a thread did is not forgotten; priorities stay.
LEMMA BothStays ==
  ASSUME Shape, [Next]_vars
  PROVE  /\ both => both'
         /\ masked => masked'
         /\ priorities' = priorities
<1>1. CASE UNCHANGED vars
  BY <1>1 DEF vars, ghostVars, plicVars, plicRegs
<1>2. CASE BusTick
  BY <1>2, TickOpenRaises, RaiseEffect DEF BusTick, TickClosed, ClearSeip, plicVars, plicRegs
<1>3. CASE CheckInterrupt
  BY <1>3 DEF CheckInterrupt, TrapPanic, TakeExternal, ghostVars, plicVars, plicRegs
<1>4. CASE HandlerAccess
  BY <1>4, HandlerAccessEffect DEF plicVars, plicRegs
<1>5. CASE HClaim
  BY <1>5 DEF HClaim, OnPlic, Claim, ghostVars, plicVars, plicRegs
<1>6. CASE HComplete
  BY <1>6 DEF HComplete, OnPlic, Complete, CompletePanic, CompleteLatched,
     CompleteOther, ghostVars, plicVars, plicRegs
<1>7. CASE HSret
  BY <1>7 DEF HSret, ghostVars, plicVars, plicRegs
<1>8. CASE Threads
  BY <1>8, ThreadsEffect DEF plicVars, plicRegs, Shape, CountShape
<1> QED
  BY <1>1, <1>2, <1>3, <1>4, <1>5, <1>6, <1>7, <1>8 DEF Next, Handler, HandlerAccess

LEMMA LatchInvStep ==
  ASSUME Shape, HandlerInv, LatchInv, [Next]_vars
  PROVE  LatchInv'
<1> USE DEF LatchInv
<1>1. CASE UNCHANGED vars
  BY <1>1 DEF vars, plicVars, plicRegs, plicLatch, ghostVars
<1>2. CASE BusTick
  <2>0. both' = both
    BY <1>2 DEF BusTick
  <2>1. CASE TickClosed
    BY <2>0, <2>1 DEF TickClosed, plicVars, plicRegs, plicLatch
  <2>2. CASE ClearSeip
    BY <2>0, <2>2 DEF ClearSeip, plicRegs, plicLatch
  <2>3. ASSUME NEW irq \in Irqs, RaiseIrq(irq) PROVE LatchInv'
    <3>1. CASE UNCHANGED <<interrupting_irq, interrupting_ctx, mip>>
      BY <2>0, <2>3, <3>1, RaiseEffect
    <3>2. CASE /\ interrupting_irq' \in Irqs
               /\ interrupting_ctx' \in {0, 1}
               /\ interrupting_irq' \in enables[interrupting_ctx']
               /\ mip' = mip \cup {Line(interrupting_ctx')}
      <4>1. interrupting_irq' # NoIrq /\ interrupting_ctx' # NoCtx
        BY <3>2, Numbers
      <4>2. enables' = enables
        BY <2>3, RaiseEffect
      <4>3. ~both => interrupting_ctx' = 1 /\ interrupting_ctx' # 0
        BY <3>2, SMT
      <4> QED
        BY <2>0, <3>2, <4>1, <4>2, <4>3, Lines
    <3> QED
      BY <2>3, <3>1, <3>2, RaiseEffect
  <2> QED
    BY <1>2, <2>1, <2>2, <2>3, TickOpenRaises DEF BusTick
<1>3. CASE CheckInterrupt
  BY <1>3 DEF CheckInterrupt, TrapPanic, TakeExternal, plicVars, plicRegs, plicLatch, ghostVars
<1>4. CASE HandlerAccess
  BY <1>4, HandlerAccessEffect DEF plicVars, plicRegs, plicLatch
<1>5. CASE HClaim
  BY <1>5 DEF HClaim, OnPlic, Claim, plicRegs, plicLatch, ghostVars
<1>6. CASE HComplete
  <2>1. both' = both /\ Complete(serving)
    BY <1>6 DEF HComplete, OnPlic, ghostVars
  <2>2. CASE CompleteLatched(serving)
    <3>1. ~both => interrupting_ctx = 1
      BY <2>2, ContextsAssumption
         DEF CompleteLatched, Shape, PlicShape, PlicTypeOK, NoCtx
    <3>2. interrupting_irq' = NoIrq /\ interrupting_ctx' = NoCtx /\ NoCtx # 0
          /\ mip' = mip \ {Line(interrupting_ctx)} /\ enables' = enables
      BY <2>2, Numbers DEF CompleteLatched, plicRegs
    <3> QED
      BY <2>1, <3>1, <3>2, Lines
  <2> QED
    BY <2>1, <2>2 DEF Complete, CompletePanic, CompleteOther, plicVars, plicRegs, plicLatch
<1>7. CASE HSret
  BY <1>7 DEF HSret, plicVars, plicRegs, plicLatch, ghostVars
<1>8. CASE Threads
  <2>1. both => both'
    BY <1>8, ThreadsEffect DEF Shape, CountShape
  <2> QED
    BY <1>8, <2>1, ThreadsEffect DEF plicVars, plicRegs
<1> QED
  BY <1>1, <1>2, <1>3, <1>4, <1>5, <1>6, <1>7, <1>8 DEF Next, Handler, HandlerAccess

LEMMA LatchInvHolds == Spec => []LatchInv
<1>1. Init => LatchInv
  BY Numbers DEF Init, LatchInv
<1> QED
  BY <1>1, LatchInvStep, ShapeHolds, HandlerInvHolds, PTL DEF Spec

\* Without context 0 nobody meets an empty latch: neither the trap that the
\* line asks for nor the completion, whatever the threads mask and reconfigure
\* and whichever irqs are queued.
THEOREM PathNeverPanics == Spec => []NoPanic
<1>1. Init => NoPanic
  BY DEF Init, NoPanic
<1>2. Shape /\ HandlerInv /\ LatchInv /\ NoPanic /\ [Next]_vars => NoPanic'
  <2> SUFFICES ASSUME Shape, HandlerInv, LatchInv, NoPanic, [Next]_vars,
                      ~both', panic' # panic
               PROVE  FALSE
    BY ThreadsEffect, BothStays DEF NoPanic
  <2>1. ~both
    BY BothStays
  <2>2. CASE CheckInterrupt
    <3>1. /\ Open(prv, mstatus, Mideleg, mip \cap mie)
          /\ interrupting_irq = NoIrq
      BY <2>2 DEF CheckInterrupt, TrapPanic, TakeExternal, plicVars
    <3>2. SEIP \notin mip
      BY <2>1, <3>1 DEF LatchInv
    <3>3. mip \cap mie = {}
      BY <2>1, <3>2 DEF LatchInv
    <3> QED
      BY <3>1, <3>3 DEF Open
  <2>3. CASE HComplete
    <3>1. serving # NoIrq /\ interrupting_irq = serving
      BY <2>3 DEF HComplete, HandlerInv, ServiceKeepsLatch, ServiceSteps
    <3> QED
      BY <2>3, <3>1 DEF HComplete, OnPlic, Complete, CompletePanic, CompleteLatched,
         CompleteOther, plicVars
  <2>4. CASE BusTick
    BY <2>4 DEF BusTick, TickClosed, TickOpen, RaiseIrq, ClearSeip, plicVars
  <2>5. CASE HandlerAccess \/ HClaim \/ HSret
    BY <2>5, HandlerAccessEffect DEF HClaim, HSret, OnPlic, Claim, plicVars
  <2>6. CASE Threads \/ UNCHANGED vars
    BY <2>6, ThreadsEffect DEF vars, plicVars
  <2> QED
    BY <2>2, <2>3, <2>4, <2>5, <2>6 DEF Next, Handler, HandlerAccess
<1> QED
  BY <1>1, <1>2, ShapeHolds, HandlerInvHolds, LatchInvHolds, PTL DEF Spec

-----------------------------------------------------------------------------
(* Where the interrupt is on its way. *)

LEMMA WayInvStep ==
  ASSUME Shape, HandlerInv, LatchInv, PrioritiesOne, WayInv, [Next]_vars
  PROVE  WayInv'
<1> SUFFICES ASSUME Unmasked' PROVE WayInv'
  BY DEF WayInv
<1>0. /\ Unmasked /\ WayInv!2
      /\ "none" \notin ServiceSteps /\ "claim" \notin ServiceSteps
      /\ "sret" \notin ServiceSteps
  BY BothStays DEF Unmasked, WayInv, ServiceSteps
<1> USE DEF WayInv, NoneOnItsWay, OneOnItsWay
<1>1. CASE UNCHANGED vars
  BY <1>0, <1>1 DEF vars, plicVars, plicRegs, plicLatch, hartVars, guestVars,
     CanExternalInterrupt
<1>2. CASE BusTick
  <2>1. /\ UNCHANGED <<prv, mstatus, mie, h, serving>> /\ phase' = "check" /\ phase = "tick"
    BY <1>2 DEF BusTick, hartVars, guestVars
  <2>2. CASE TickClosed
    BY <1>0, <2>1, <2>2 DEF TickClosed, plicVars, plicRegs, plicLatch
  <2>3. CASE TickOpen
    <3>1. h = "none" /\ NoneOnItsWay
      BY <1>0, <2>1, <2>3, HandlerClosed DEF TickOpen
    <3>2. CanExternalInterrupt(prv, mstatus, Mideleg)'
      BY <2>1, <2>3 DEF TickOpen, CanExternalInterrupt, Mideleg
    <3>3. CASE ClearSeip
      BY <1>0, <2>1, <3>1, <3>3 DEF ClearSeip, plicRegs, plicLatch
    <3>4. ASSUME NEW irq \in Irqs, RaiseIrq(irq) PROVE WayInv'
      <4>1. /\ pending' = {irq} /\ interrupting_irq' = irq /\ mip' = mip \cup {SEIP}
            /\ UNCHANGED <<enables, threasholds>>
        BY <1>0, <3>1, <3>4, RaiseAlone, RaiseEffect DEF LatchInv, Unmasked
      <4> QED
        BY <1>0, <2>1, <3>1, <3>2, <4>1, Numbers
    <3> QED
      BY <2>3, <3>3, <3>4, TickOpenRaises
  <2> QED
    BY <1>2, <2>2, <2>3 DEF BusTick
<1>3. CASE CheckInterrupt
  <2>1. CASE Open(prv, mstatus, Mideleg, mip \cap mie)
    <3>1. h = "none"
      BY <2>1, HandlerClosed
    <3>2. OneOnItsWay
      BY <1>0, <2>1, <3>1 DEF Open, LatchInv, Unmasked
    <3>3. TakeExternal
      BY <1>3, <2>1, <3>2 DEF CheckInterrupt, TrapPanic
    <3> QED
      BY <1>0, <3>2, <3>3 DEF TakeExternal, plicVars, plicRegs, plicLatch
  <2>2. CASE ~Open(prv, mstatus, Mideleg, mip \cap mie)
    <3>1. UNCHANGED <<plicVars, hartVars, guestVars>>
      BY <1>3, <2>2 DEF CheckInterrupt
    <3>2. h = "none" => NoneOnItsWay
      <4>1. ASSUME h = "none", OneOnItsWay, CanExternalInterrupt(prv, mstatus, Mideleg)
            PROVE  FALSE
        <5>1. mip \cap mie = {SEIP}
          BY <1>0, <4>1
        <5>2. prv \in {User, Supervisor}
          BY DEF Shape, HartShape
        <5> QED
          BY <2>2, <4>1, <5>1, <5>2, SameGates
      <4> QED
        BY <1>0, <4>1
    <3> QED
      BY <1>0, <3>1, <3>2 DEF plicVars, plicRegs, plicLatch, hartVars, guestVars
  <2> QED
    BY <2>1, <2>2
<1>4. CASE HandlerAccess
  BY <1>0, <1>4, HandlerAccessEffect DEF plicVars, plicRegs, plicLatch, hartVars
<1>5. CASE HClaim
  <2>1. /\ h = "claim" /\ pending' = pending \ {interrupting_irq}
        /\ UNCHANGED <<mip, interrupting_irq, enables, threasholds, mie>>
    BY <1>5 DEF HClaim, OnPlic, Claim, ClaimValue, plicRegs, plicLatch, hartVars
  <2>2. CASE NoneOnItsWay
    <3>1. h' = "sret"
      BY <1>5, <2>2, Numbers DEF HClaim, ClaimValue
    <3> QED
      BY <1>0, <2>1, <2>2, <3>1
  <2>3. CASE OneOnItsWay
    <3>1. h' \in ServiceSteps
      BY <1>5, <2>3, Numbers DEF HClaim, ClaimValue, ServiceSteps
    <3> QED
      BY <1>0, <2>1, <2>3, <3>1
  <2> QED
    BY <1>0, <2>1, <2>2, <2>3
<1>6. CASE HComplete
  <2>1. CompleteLatched(serving) /\ h = "complete" /\ h' = "claim" /\ mie' = mie
    BY <1>6 DEF HComplete, OnPlic, Complete, CompletePanic, CompleteLatched,
       CompleteOther, HandlerInv, ServiceKeepsLatch, ServiceSteps, hartVars
  <2>2. interrupting_ctx = 1
    BY <1>0, <2>1, ContextsAssumption
       DEF LatchInv, Unmasked, CompleteLatched, Shape, PlicShape, PlicTypeOK, NoCtx
  <2> QED
    BY <1>0, <2>1, <2>2, Lines DEF CompleteLatched, plicRegs, ServiceSteps
<1>7. CASE HSret
  BY <1>0, <1>7 DEF HSret, plicVars, plicRegs, plicLatch
<1>8. CASE Threads
  <2>1. UNCHANGED <<plicVars, mie, h>> /\ h = "none" /\ phase = "step"
    BY <1>8, ThreadsEffect DEF Unmasked
  <2> QED
    BY <1>0, <2>1 DEF plicVars, plicRegs, plicLatch
<1> QED
  BY <1>1, <1>2, <1>3, <1>4, <1>5, <1>6, <1>7, <1>8 DEF Next, Handler, HandlerAccess

LEMMA PrioritiesHold == Spec => []PrioritiesOne
<1>1. Init => PrioritiesOne
  BY DEF Init, PrioritiesOne
<1>2. Shape /\ PrioritiesOne /\ [Next]_vars => PrioritiesOne'
  BY BothStays DEF PrioritiesOne
<1> QED
  BY <1>1, <1>2, ShapeHolds, PTL DEF Spec

LEMMA WayInvHolds == Spec => []WayInv
<1>1. Init => WayInv
  <2>1. ServiceSteps \cap {"none", "claim", "sret"} = {}
    BY DEF ServiceSteps
  <2> QED
    BY <2>1 DEF Init, WayInv, NoneOnItsWay
<1> QED
  BY <1>1, WayInvStep, ShapeHolds, HandlerInvHolds, LatchInvHolds, PrioritiesHold, PTL
     DEF Spec

\* While nothing was masked, the line is up from the tick that raises it to
\* the completion and not longer: no thread of the guest ever runs with a
\* line up that its handler has already served.
THEOREM LineFollowsService == Spec => []LineOnlyDuringService
<1>1. WayInv => LineOnlyDuringService
  BY DEF WayInv, Unmasked, NoneOnItsWay, OneOnItsWay, LineOnlyDuringService
<1> QED
  BY <1>1, WayInvHolds, PTL

-----------------------------------------------------------------------------
(* No device is forgotten. *)

\* An irq appended to the queue of the bus is in it, and so are the others.
LEMMA AppendQueues ==
  ASSUME Shape, NEW new \in Irqs, irqs_to_raise' = Append(irqs_to_raise, new)
  PROVE  /\ Queued(new)'
         /\ \A irq \in Irqs : Queued(irq) => Queued(irq)'
<1>1. /\ irqs_to_raise \in Seq(Irqs) /\ Len(irqs_to_raise) \in Nat
      /\ Len(irqs_to_raise') = Len(irqs_to_raise) + 1
      /\ irqs_to_raise'[Len(irqs_to_raise) + 1] = new
      /\ \A k \in 1..Len(irqs_to_raise) : irqs_to_raise'[k] = irqs_to_raise[k]
  BY AppendProperties, LenProperties DEF Shape
<1> QED
  BY <1>1, SMT DEF Queued

\* An access to the serial device forgets nobody, and queues the device's irq
\* when it leaves the device interrupting.
LEMMA AccessQueues ==
  ASSUME Shape, NEW ACTION access, UartAccess(access)
  PROVE  /\ is_interrupting' => Queued(UART)'
         /\ \A irq \in Irqs : Queued(irq) => Queued(irq)'
<1>1. CASE is_interrupting'
  BY <1>1, AppendQueues, Numbers DEF UartAccess
<1>2. CASE ~is_interrupting'
  BY <1>2 DEF UartAccess, Queued
<1> QED
  BY <1>1, <1>2

\* So does an access of a thread.
LEMMA ThreadAccessQueues ==
  ASSUME Shape, SetIer \/ PrintChar \/ PollLsr
  PROVE  /\ is_interrupting' => Queued(UART)'
         /\ \A irq \in Irqs : Queued(irq) => Queued(irq)'
<1>1. \A on \in BOOLEAN :
        {ERBFI, ELSI} \cup (IF on THEN {ETBEI} ELSE {}) \in SUBSET IerBits
  BY SMT DEF ERBFI, ELSI, ETBEI, IerBits
<1>2. \/ UartAccess(OtherAccess) \/ UartAccess(WriteThr)
      \/ \E value \in SUBSET IerBits : UartAccess(WriteIer(value))
  BY <1>1 DEF SetIer, PrintChar, PollLsr
<1> QED
  BY <1>2, AccessQueues

\* What the devices push in a tick is behind what was queued.
LEMMA PushQueues ==
  ASSUME Shape, NEW pushed \in Seq(Irqs)
  PROVE  LET queue == irqs_to_raise \o pushed IN
         /\ queue \in Seq(Irqs)
         /\ \A irq \in Irqs : Queued(irq) => \E k \in 1..Len(queue) : queue[k] = irq
         /\ \A j \in 1..Len(pushed) : \E k \in 1..Len(queue) : queue[k] = pushed[j]
<1> DEFINE queue == irqs_to_raise \o pushed
<1>1. /\ queue \in Seq(Irqs) /\ Len(queue) = Len(irqs_to_raise) + Len(pushed)
      /\ Len(irqs_to_raise) \in Nat /\ Len(pushed) \in Nat
  BY ConcatProperties, LenProperties DEF Shape
<1>2. \A k \in 1..Len(irqs_to_raise) : k \in 1..Len(queue) /\ queue[k] = irqs_to_raise[k]
  BY <1>1, ConcatProperties DEF Shape
<1>3. \A j \in 1..Len(pushed) :
        Len(irqs_to_raise) + j \in 1..Len(queue) /\ queue[Len(irqs_to_raise) + j] = pushed[j]
  BY <1>1, ConcatProperties, SMT DEF Shape
<1> HIDE DEF queue
<1>4. \A irq \in Irqs : Queued(irq) => \E k \in 1..Len(queue) : queue[k] = irq
  BY <1>2 DEF Queued
<1>5. \A j \in 1..Len(pushed) : \E k \in 1..Len(queue) : queue[k] = pushed[j]
  BY <1>3
<1> QED
  BY <1>1, <1>4, <1>5 DEF queue

\* A device that wants service after its tick has its irq in the queue, or
\* already wanted it before; what was queued still is.
LEMMA TicksQueue ==
  ASSUME Shape, NEW pushed \in {<<>>, <<UART>>, <<NET>>, <<UART, NET>>},
         DeviceTicks(pushed)
  PROVE  LET queue == irqs_to_raise \o pushed
             InQueue(irq) == \E k \in 1..Len(queue) : queue[k] = irq
         IN  /\ is_interrupting' => InQueue(UART) \/ is_interrupting
             /\ unseen' => InQueue(NET) \/ unseen
             /\ \A irq \in Irqs : Queued(irq) => InQueue(irq)
<1> DEFINE queue == irqs_to_raise \o pushed
           InQueue(irq) == \E k \in 1..Len(queue) : queue[k] = irq
<1>0. /\ <<UART>> \o <<>> = <<UART>> /\ <<>> \o <<NET>> = <<NET>>
      /\ <<UART>> \o <<NET>> = <<UART, NET>>
  <2>1. <<UART>> \in Seq({UART}) /\ <<NET>> \in Seq({NET})
    OBVIOUS
  <2>2. <<UART>> \o <<>> = <<UART>> /\ <<>> \o <<NET>> = <<NET>>
    BY <2>1, ConcatEmptySeq
  <2>3. <<UART>> \o <<NET>> = <<UART, NET>>
    <3> DEFINE s == <<UART>>
               t == <<NET>>
               b == <<UART, NET>>
    <3>1. /\ s \in Seq(Irqs) /\ t \in Seq(Irqs) /\ b \in Seq(Irqs)
          /\ Len(s) = 1 /\ Len(t) = 1 /\ Len(b) = 2
          /\ s[1] = UART /\ t[1] = NET /\ b[1] = UART /\ b[2] = NET
      BY Numbers
    <3> HIDE DEF s, t, b
    <3>2. /\ s \o t \in Seq(Irqs) /\ Len(s \o t) = 2
          /\ (s \o t)[1] = UART /\ (s \o t)[2] = NET
      <4>1. /\ s \o t \in Seq(Irqs) /\ Len(s \o t) = Len(s) + Len(t)
            /\ \A i \in 1..(Len(s) + Len(t)) :
                 (s \o t)[i] = IF i <= Len(s) THEN s[i] ELSE t[i - Len(s)]
        BY <3>1, ConcatProperties
      <4>2. 1 \in 1..2 /\ 2 \in 1..2 /\ ~(2 <= 1) /\ 2 - 1 = 1 /\ 1 + 1 = 2
        OBVIOUS
      <4> QED
        BY <3>1, <4>1, <4>2
    <3>3. s \o t = b
      BY <3>1, <3>2, SeqEqual
    <3> QED
      BY <3>3 DEF s, t, b
  <2> QED
    BY <2>2, <2>3
<1>1. pushed \in Seq(Irqs)
  BY PushedInSeq
<1>2. /\ \A irq \in Irqs : Queued(irq) => InQueue(irq)
      /\ \A j \in 1..Len(pushed) : InQueue(pushed[j])
  BY <1>1, PushQueues
<1> HIDE DEF InQueue
<1>3. PICK char \in {NoChar} \cup (IF typed < MaxTyped THEN {typed + 1} ELSE {}),
           packet \in {FALSE} \cup (IF packets < MaxPackets THEN {TRUE} ELSE {}) :
        /\ Tick(char)
        /\ unseen' = (unseen \/ packet)
        /\ pushed = (IF TickPushes(char) THEN <<UART>> ELSE <<>>)
                    \o (IF packet THEN <<NET>> ELSE <<>>)
  BY DEF DeviceTicks
<1>4. ASSUME TickPushes(char) PROVE InQueue(UART)
  <2>1. pushed = <<UART>> \/ pushed = <<UART, NET>>
    BY <1>0, <1>3, <1>4
  <2>2. Len(pushed) >= 1 /\ pushed[1] = UART
    BY <2>1
  <2> QED
    BY <1>2, <2>1, <2>2
<1>5. ASSUME packet PROVE InQueue(NET)
  <2>1. pushed = <<NET>> \/ pushed = <<UART, NET>>
    BY <1>0, <1>3, <1>5
  <2>2. \E j \in 1..Len(pushed) : pushed[j] = NET
    <3>1. CASE pushed = <<NET>>
      <4>1. Len(pushed) = 1 /\ pushed[1] = NET
        BY <3>1
      <4> QED
        BY <4>1
    <3>2. CASE pushed = <<UART, NET>>
      <4>1. Len(pushed) = 2 /\ pushed[2] = NET
        BY <3>2
      <4> QED
        BY <4>1
    <3> QED
      BY <2>1, <3>1, <3>2
  <2> QED
    BY <1>2, <2>2
<1>6. ~TickPushes(char) => is_interrupting' = is_interrupting
  BY <1>3 DEF Tick, uartIrq
<1>7. is_interrupting' => InQueue(UART) \/ is_interrupting
  BY <1>4, <1>6
<1>8. unseen' => InQueue(NET) \/ unseen
  BY <1>3, <1>5
<1> QED
  BY <1>2, <1>7, <1>8 DEF InQueue

\* A tick that is open latches the head of the queue and keeps the rest of it.
LEMMA OpenTickRemembers ==
  ASSUME Shape, HandlerInv, PrioritiesOne, LatchInv, WayInv, DeviceInv, Unmasked,
         phase = "tick", TickOpen, UNCHANGED h
  PROVE  /\ is_interrupting' => Queued(UART)' \/ (interrupting_irq' = UART /\ h' = "none")
         /\ unseen' => Queued(NET)' \/ (interrupting_irq' = NET /\ h' = "none")
<1>1. h = "none" /\ NoneOnItsWay
  BY HandlerClosed DEF TickOpen, WayInv, OneOnItsWay
<1>2. (is_interrupting => Queued(UART)) /\ (unseen => Queued(NET))
  BY <1>1, Numbers DEF DeviceInv, NoneOnItsWay
<1>3. PICK pushed \in {<<>>, <<UART>>, <<NET>>, <<UART, NET>>} :
        LET queue == irqs_to_raise \o pushed IN
        /\ DeviceTicks(pushed)
        /\ \/ queue # <<>> /\ RaiseIrq(Head(queue)) /\ irqs_to_raise' = Tail(queue)
           \/ queue = <<>> /\ ClearSeip /\ irqs_to_raise' = queue
  BY <1>1 DEF TickOpen
<1> DEFINE queue == irqs_to_raise \o pushed
           InQueue(irq) == \E k \in 1..Len(queue) : queue[k] = irq
<1>4. queue \in Seq(Irqs)
  BY PushedInSeq, ConcatProperties DEF Shape
<1>5. (is_interrupting' => InQueue(UART)) /\ (unseen' => InQueue(NET))
  <2>1. /\ is_interrupting' => InQueue(UART) \/ is_interrupting
        /\ unseen' => InQueue(NET) \/ unseen
        /\ \A irq \in Irqs : Queued(irq) => InQueue(irq)
    BY <1>3, TicksQueue
  <2> HIDE DEF InQueue
  <2> QED
    BY <1>2, <2>1, Numbers
<1>6. ASSUME NEW irq \in Irqs, InQueue(irq)
      PROVE  Queued(irq)' \/ interrupting_irq' = irq
  <2>1. PICK k \in 1..Len(queue) : queue[k] = irq
    BY <1>6
  <2> HIDE DEF queue
  <2>2. Len(queue) \in Nat /\ queue # <<>>
    BY <1>4, <2>1, LenProperties, EmptySeq, SMT
  <2>3. RaiseIrq(Head(queue)) /\ irqs_to_raise' = Tail(queue)
    BY <1>3, <2>2 DEF queue
  <2>4. /\ Head(queue) \in Irqs /\ Head(queue) = queue[1]
        /\ Len(Tail(queue)) = Len(queue) - 1
        /\ \A j \in 1..Len(Tail(queue)) : Tail(queue)[j] = queue[j + 1]
    BY <1>4, <2>2, HeadTailProperties
  <2>5. interrupting_irq' = Head(queue)
    <3>1. enables[0] = {} /\ enables[1] = Irqs /\ threasholds[1] = 0 /\ pending = {}
      BY <1>1 DEF LatchInv, WayInv, Unmasked, NoneOnItsWay
    <3> QED
      BY <2>3, <2>4, <3>1, RaiseAlone
  <2>6. CASE k = 1
    BY <2>1, <2>4, <2>5, <2>6
  <2>7. CASE k # 1
    <3>1. k - 1 \in 1..Len(Tail(queue)) /\ (k - 1) + 1 = k
      BY <2>1, <2>2, <2>4, <2>7, SMT
    <3>2. Tail(queue)[k - 1] = irq
      BY <2>1, <2>4, <3>1
    <3> QED
      BY <2>3, <3>1, <3>2 DEF Queued
  <2> QED
    BY <2>6, <2>7
<1> QED
  BY <1>1, <1>5, <1>6, Numbers

LEMMA DeviceInvStep ==
  ASSUME Shape, HandlerInv, LatchInv, PrioritiesOne, WayInv, DeviceInv, [Next]_vars
  PROVE  DeviceInv'
<1> SUFFICES ASSUME Unmasked' PROVE DeviceInv'
  BY DEF DeviceInv
<1>0. Unmasked
  BY BothStays DEF Unmasked
<1> USE DEF DeviceInv
<1>1. CASE UNCHANGED vars
  BY <1>0, <1>1 DEF vars, uartVars, uartIrq, busVars, netVars, plicVars, plicLatch,
     guestVars, Queued
<1>2. CASE BusTick
  <2>1. UNCHANGED h
    BY <1>2 DEF BusTick, guestVars
  <2>2. CASE TickClosed
    BY <1>0, <2>1, <2>2 DEF TickClosed, uartVars, uartIrq, busVars, netVars, plicVars,
       plicLatch, Queued
  <2> QED
    BY <1>0, <1>2, <2>1, <2>2, OpenTickRemembers DEF BusTick
<1>3. CASE CheckInterrupt
  <2>1. UNCHANGED <<irqs_to_raise, unseen>>
    BY <1>3 DEF CheckInterrupt, busVars, netVars
  <2>2. UNCHANGED <<is_interrupting, interrupting_irq>>
    BY <1>3 DEF CheckInterrupt, TrapPanic, TakeExternal, TakeInterrupt, uartVars, uartIrq,
       plicVars, plicLatch
  <2>3. h' = h \/ (h' = "claim" /\ h = "none")
    <3>1. CASE TrapPanic
      BY <3>1 DEF TrapPanic, guestVars
    <3>2. CASE TakeExternal /\ Open(prv, mstatus, Mideleg, mip \cap mie)
      BY <3>2, HandlerClosed DEF TakeExternal
    <3>3. CASE UNCHANGED guestVars
      BY <3>3 DEF guestVars
    <3> QED
      BY <1>3, <3>1, <3>2, <3>3 DEF CheckInterrupt
  <2> QED
    BY <1>0, <2>1, <2>2, <2>3 DEF Queued
<1>4. CASE HClaim
  <2>1. /\ UNCHANGED <<irqs_to_raise, unseen, is_interrupting, interrupting_irq>>
        /\ h = "claim"
        /\ interrupting_irq = UART => h' = "iir"
        /\ interrupting_irq = NET => h' = "ack"
    BY <1>4, Numbers DEF HClaim, OnPlic, Claim, ClaimValue, uartVars, uartIrq, busVars,
       netVars, plicLatch
  <2> QED
    BY <1>0, <2>1 DEF Queued
<1>5. CASE HReadIir \/ HReadLsr \/ HReadRbr \/ HTransmit
  <2>1. /\ UNCHANGED unseen
        /\ h \notin {"none", "claim", "ack"}
    BY <1>5 DEF HReadIir, HReadLsr, HReadRbr, HTransmit, netVars
  <2>2. /\ is_interrupting' => Queued(UART)'
        /\ Queued(NET) => Queued(NET)'
    <3>1. \/ UartAccess(ReadIir) \/ UartAccess(OtherAccess) \/ UartAccess(ReadRbr)
          \/ UartAccess(WriteThr) \/ UartAccess(WriteIer(ier \ {ETBEI}))
      BY <1>5 DEF HReadIir, HReadLsr, HReadRbr, HTransmit
    <3> QED
      BY <3>1, AccessQueues, Numbers
  <2> QED
    BY <1>0, <2>1, <2>2
<1>6. CASE HAck
  <2>1. UNCHANGED <<irqs_to_raise, is_interrupting>> /\ unseen' = FALSE /\ h = "ack"
    BY <1>6 DEF HAck, uartVars, uartIrq, busVars
  <2> QED
    BY <1>0, <2>1 DEF Queued
<1>7. CASE HComplete \/ HSret
  <2>1. /\ UNCHANGED <<irqs_to_raise, unseen, is_interrupting>>
        /\ h = "complete" \/ h = "sret"
    BY <1>7 DEF HComplete, HSret, OnPlic, uartVars, uartIrq, busVars, netVars
  <2> QED
    BY <1>0, <2>1 DEF Queued
<1>8. CASE Threads
  <2>1. h = "none" /\ UNCHANGED <<h, interrupting_irq>>
    BY <1>8, ThreadsEffect
  <2>2. CASE SetIer \/ PrintChar \/ PollLsr
    <3>1. UNCHANGED unseen
      BY <2>2 DEF SetIer, PrintChar, PollLsr, netVars
    <3>2. /\ is_interrupting' => Queued(UART)'
          /\ Queued(NET) => Queued(NET)'
      BY <2>2, ThreadAccessQueues, Numbers
    <3> QED
      BY <1>0, <2>1, <3>1, <3>2
  <2>3. CASE Notify
    <3>1. Queued(NET)' /\ (Queued(UART) => Queued(UART)') /\ UNCHANGED is_interrupting
      BY <2>3, AppendQueues, Numbers DEF Notify, uartVars, uartIrq
    <3> QED
      BY <1>0, <2>1, <3>1
  <2>4. CASE UNCHANGED <<uartVars, busVars, netVars>>
    BY <1>0, <2>1, <2>4 DEF uartVars, uartIrq, busVars, netVars, Queued
  <2>5. SetIer \/ PrintChar \/ PollLsr \/ Notify \/ UNCHANGED <<uartVars, busVars, netVars>>
    BY <1>8 DEF Threads, Compute, ToggleSie, ToUser, Ecall, ToggleSeie, Reconfigure,
       EnableMachine, OnPlic
  <2> QED
    BY <2>2, <2>3, <2>4, <2>5
<1> QED
  BY <1>1, <1>2, <1>3, <1>4, <1>5, <1>6, <1>7, <1>8 DEF Next, Handler

LEMMA DeviceInvHolds == Spec => []DeviceInv
<1>1. Init => DeviceInv
  BY DEF Init, DeviceInv
<1> QED
  BY <1>1, DeviceInvStep, ShapeHolds, HandlerInvHolds, LatchInvHolds, PrioritiesHold,
     WayInvHolds, PTL DEF Spec

\* The head of the queue becomes pending, the rest of it stays.
LEMMA OpenTickKeeps ==
  ASSUME Shape, KeptInv, TickOpen, UNCHANGED h
  PROVE  KeptInv'
<1>1. PICK pushed \in {<<>>, <<UART>>, <<NET>>, <<UART, NET>>} :
        LET queue == irqs_to_raise \o pushed IN
        /\ DeviceTicks(pushed)
        /\ \/ queue # <<>> /\ RaiseIrq(Head(queue)) /\ irqs_to_raise' = Tail(queue)
           \/ queue = <<>> /\ ClearSeip /\ irqs_to_raise' = queue
  BY DEF TickOpen
<1> DEFINE queue == irqs_to_raise \o pushed
           InQueue(irq) == \E k \in 1..Len(queue) : queue[k] = irq
<1>2. queue \in Seq(Irqs)
  BY PushedInSeq, ConcatProperties DEF Shape
<1>3. /\ is_interrupting' => InQueue(UART) \/ is_interrupting
      /\ unseen' => InQueue(NET) \/ unseen
      /\ \A irq \in Irqs : Queued(irq) => InQueue(irq)
  BY <1>1, TicksQueue
<1>4. pending \subseteq pending'
  <2> HIDE DEF queue
  <2>1. CASE queue # <<>> /\ RaiseIrq(Head(queue))
    <3>1. Head(queue) \in Irqs
      BY <1>2, <2>1, HeadTailProperties
    <3> QED
      BY <2>1, <3>1, RaiseEffect
  <2>2. CASE ClearSeip
    BY <2>2 DEF ClearSeip
  <2> QED
    BY <1>1, <2>1, <2>2 DEF queue
<1>5. ASSUME NEW irq \in Irqs, InQueue(irq)
      PROVE  Queued(irq)' \/ irq \in pending'
  <2>1. PICK k \in 1..Len(queue) : queue[k] = irq
    BY <1>5
  <2> HIDE DEF queue
  <2>2. Len(queue) \in Nat /\ queue # <<>>
    BY <1>2, <2>1, LenProperties, EmptySeq, SMT
  <2>3. RaiseIrq(Head(queue)) /\ irqs_to_raise' = Tail(queue)
    BY <1>1, <2>2 DEF queue
  <2>4. /\ Head(queue) \in Irqs /\ Head(queue) = queue[1]
        /\ Len(Tail(queue)) = Len(queue) - 1
        /\ \A j \in 1..Len(Tail(queue)) : Tail(queue)[j] = queue[j + 1]
    BY <1>2, <2>2, HeadTailProperties
  <2>5. CASE k = 1
    BY <2>1, <2>3, <2>4, <2>5, RaiseEffect
  <2>6. CASE k # 1
    <3>1. k - 1 \in 1..Len(Tail(queue)) /\ (k - 1) + 1 = k
      BY <2>1, <2>2, <2>4, <2>6, SMT
    <3>2. Tail(queue)[k - 1] = irq
      BY <2>1, <2>4, <3>1
    <3> QED
      BY <2>3, <3>1, <3>2 DEF Queued
  <2> QED
    BY <2>5, <2>6
<1> HIDE DEF InQueue
<1>6. is_interrupting' => Queued(UART)' \/ UART \in pending' \/ h' = "iir"
  BY <1>3, <1>4, <1>5, Numbers DEF KeptInv
<1>7. unseen' => Queued(NET)' \/ NET \in pending' \/ h' = "ack"
  BY <1>3, <1>4, <1>5, Numbers DEF KeptInv
<1> QED
  BY <1>6, <1>7 DEF KeptInv

\* Only the claim takes an irq out of the pending ones, and its handler knows.
LEMMA KeptInvStep ==
  ASSUME Shape, HandlerInv, KeptInv, [Next]_vars
  PROVE  KeptInv'
<1>1. CASE UNCHANGED vars
  BY <1>1 DEF KeptInv, vars, uartVars, uartIrq, busVars, netVars, plicVars, guestVars,
     Queued
<1>2. CASE BusTick
  <2>1. UNCHANGED h
    BY <1>2 DEF BusTick, guestVars
  <2>2. CASE TickClosed
    BY <2>1, <2>2 DEF KeptInv, TickClosed, uartVars, uartIrq, busVars, netVars, plicVars,
       Queued
  <2> QED
    BY <1>2, <2>1, <2>2, OpenTickKeeps DEF BusTick
<1>3. CASE CheckInterrupt
  <2>1. UNCHANGED <<irqs_to_raise, unseen, is_interrupting, pending>>
    BY <1>3 DEF CheckInterrupt, TrapPanic, TakeExternal, TakeInterrupt, uartVars, uartIrq,
       plicVars, busVars, netVars
  <2>2. h' = h \/ (h' = "claim" /\ h = "none")
    <3>1. CASE TrapPanic
      BY <3>1 DEF TrapPanic, guestVars
    <3>2. CASE TakeExternal /\ Open(prv, mstatus, Mideleg, mip \cap mie)
      BY <3>2, HandlerClosed DEF TakeExternal
    <3>3. CASE UNCHANGED guestVars
      BY <3>3 DEF guestVars
    <3> QED
      BY <1>3, <3>1, <3>2, <3>3 DEF CheckInterrupt
  <2> QED
    BY <2>1, <2>2 DEF KeptInv, Queued
<1>4. CASE HClaim
  <2>1. /\ UNCHANGED <<irqs_to_raise, unseen, is_interrupting>>
        /\ h = "claim"
    BY <1>4 DEF HClaim, OnPlic, uartVars, uartIrq, busVars, netVars
  <2>2. /\ pending' = pending \ {ClaimValue}
        /\ ClaimValue = UART => h' = "iir"
        /\ ClaimValue = NET => h' = "ack"
    BY <1>4, Numbers DEF HClaim, OnPlic, Claim
  <2> QED
    BY <2>1, <2>2 DEF KeptInv, Queued
<1>5. CASE HReadIir \/ HReadLsr \/ HReadRbr \/ HTransmit
  <2>1. /\ UNCHANGED <<unseen, pending>>
        /\ h # "ack"
    BY <1>5 DEF HReadIir, HReadLsr, HReadRbr, HTransmit, netVars, plicVars
  <2>2. /\ is_interrupting' => Queued(UART)'
        /\ Queued(NET) => Queued(NET)'
    <3>1. \/ UartAccess(ReadIir) \/ UartAccess(OtherAccess) \/ UartAccess(ReadRbr)
          \/ UartAccess(WriteThr) \/ UartAccess(WriteIer(ier \ {ETBEI}))
      BY <1>5 DEF HReadIir, HReadLsr, HReadRbr, HTransmit
    <3> QED
      BY <3>1, AccessQueues, Numbers
  <2> QED
    BY <2>1, <2>2 DEF KeptInv
<1>6. CASE HAck
  <2>1. /\ UNCHANGED <<irqs_to_raise, is_interrupting, pending>>
        /\ unseen' = FALSE /\ h = "ack"
    BY <1>6 DEF HAck, uartVars, uartIrq, busVars, plicVars
  <2> QED
    BY <2>1 DEF KeptInv, Queued
<1>7. CASE HComplete \/ HSret
  <2>1. /\ UNCHANGED <<irqs_to_raise, unseen, is_interrupting, pending>>
        /\ h = "complete" \/ h = "sret"
    BY <1>7 DEF HComplete, HSret, OnPlic, Complete, CompletePanic, CompleteLatched,
       CompleteOther, uartVars, uartIrq, busVars, netVars, plicVars, plicRegs
  <2> QED
    BY <2>1 DEF KeptInv, Queued
<1>8. CASE Threads
  <2>1. h = "none" /\ UNCHANGED <<h, pending>>
    BY <1>8, ThreadsEffect
  <2>2. CASE SetIer \/ PrintChar \/ PollLsr
    <3>1. UNCHANGED unseen
      BY <2>2 DEF SetIer, PrintChar, PollLsr, netVars
    <3>2. /\ is_interrupting' => Queued(UART)'
          /\ Queued(NET) => Queued(NET)'
      BY <2>2, ThreadAccessQueues, Numbers
    <3> QED
      BY <2>1, <3>1, <3>2 DEF KeptInv
  <2>3. CASE Notify
    <3>1. Queued(NET)' /\ (Queued(UART) => Queued(UART)') /\ UNCHANGED is_interrupting
      BY <2>3, AppendQueues, Numbers DEF Notify, uartVars, uartIrq
    <3> QED
      BY <2>1, <3>1 DEF KeptInv
  <2>4. CASE UNCHANGED <<uartVars, busVars, netVars>>
    BY <2>1, <2>4 DEF KeptInv, uartVars, uartIrq, busVars, netVars, Queued
  <2>5. SetIer \/ PrintChar \/ PollLsr \/ Notify \/ UNCHANGED <<uartVars, busVars, netVars>>
    BY <1>8 DEF Threads, Compute, ToggleSie, ToUser, Ecall, ToggleSeie, Reconfigure,
       EnableMachine, OnPlic
  <2> QED
    BY <2>2, <2>3, <2>4, <2>5
<1> QED
  BY <1>1, <1>2, <1>3, <1>4, <1>5, <1>6, <1>7, <1>8 DEF Next, Handler

LEMMA KeptInvHolds == Spec => []KeptInv
<1>1. Init => KeptInv
  BY DEF Init, KeptInv
<1> QED
  BY <1>1, KeptInvStep, ShapeHolds, HandlerInvHolds, PTL DEF Spec

\* A device that wants service has its irq in the queue of the bus or pending
\* at the PLIC, whatever the guest masks and reconfigures; while nothing was
\* masked it is queued, or latched with the line up.  None is forgotten,
\* however the ticks, the traps and the accesses of threads and handler
\* interleave.
THEOREM DevicesRemembered == Spec => []Remembered
<1>1. WayInv /\ DeviceInv /\ KeptInv => Remembered
  <2> SUFFICES ASSUME WayInv, DeviceInv, KeptInv, h = "none"
               PROVE  /\ is_interrupting => Queued(UART) \/ UART \in pending
                      /\ unseen => Queued(NET) \/ NET \in pending
                      /\ Unmasked =>
                           /\ is_interrupting =>
                                Queued(UART) \/ (interrupting_irq = UART /\ SEIP \in mip)
                           /\ unseen =>
                                Queued(NET) \/ (interrupting_irq = NET /\ SEIP \in mip)
    BY DEF Remembered, Unmasked
  <2>1. /\ is_interrupting => Queued(UART) \/ UART \in pending
        /\ unseen => Queued(NET) \/ NET \in pending
    BY DEF KeptInv
  <2>2. ASSUME Unmasked
        PROVE  /\ is_interrupting =>
                    Queued(UART) \/ (interrupting_irq = UART /\ SEIP \in mip)
               /\ unseen => Queued(NET) \/ (interrupting_irq = NET /\ SEIP \in mip)
    <3>1. NoneOnItsWay \/ OneOnItsWay
      BY <2>2 DEF WayInv
    <3> QED
      BY <2>2, <3>1, Numbers DEF DeviceInv, NoneOnItsWay, OneOnItsWay
  <2> QED
    BY <2>1, <2>2
<1> QED
  BY <1>1, WayInvHolds, DeviceInvHolds, KeptInvHolds, PTL

-----------------------------------------------------------------------------
(* No character is lost while transmission is off. *)

\* Appending adds one element; taking the last one off leaves the others.
LEMMA AppendRange ==
  ASSUME NEW s \in Seq(Nat), NEW x \in Nat
  PROVE  LET t == Append(s, x) IN
         {t[k] : k \in 1..Len(t)} = {s[k] : k \in 1..Len(s)} \cup {x}
<1> DEFINE t == Append(s, x)
<1>1. /\ Len(s) \in Nat /\ Len(t) = Len(s) + 1 /\ t[Len(s) + 1] = x
      /\ \A k \in 1..Len(s) : t[k] = s[k]
  BY AppendProperties, LenProperties
<1> HIDE DEF t
<1>2. 1..Len(t) = 1..Len(s) \cup {Len(s) + 1}
  BY <1>1, SMT
<1> QED
  BY <1>1, <1>2 DEF t

LEMMA PopRange ==
  ASSUME NEW s \in Seq(Nat), s # <<>>
  PROVE  LET t == SubSeq(s, 1, Len(s) - 1) IN
         {s[k] : k \in 1..Len(s)} = {t[k] : k \in 1..Len(t)} \cup {s[Len(s)]}
<1> DEFINE t == SubSeq(s, 1, Len(s) - 1)
<1>1. Len(s) \in Nat /\ Len(s) > 0
  BY EmptySeq, LenProperties, SMT
<1>2. \A k \in 1..(Len(s) - 1) : s[k] \in Nat
  BY <1>1, ElementOfSeq, SMT
<1>3. Len(t) = Len(s) - 1 /\ \A k \in 1..(Len(s) - 1) : t[k] = s[k]
  <2> DEFINE n == Len(s) - 1
  <2>0. \A m \in Nat : m > 0 => m - 1 \in Int /\ (1 <= m - 1 \/ m - 1 = 0)
    OBVIOUS
  <2>1. n \in Int /\ (1 <= n \/ n = 0)
    BY <1>1, <2>0
  <2>4. \A k \in 1..n : s[k] \in Nat
    BY <1>2
  <2> HIDE DEF n
  <2>2. /\ Len(SubSeq(s, 1, n)) = IF 1 <= n THEN n - 1 + 1 ELSE 0
        /\ \A k \in 1..(n - 1 + 1) : SubSeq(s, 1, n)[k] = s[1 + k - 1]
    BY <2>1, <2>4, SubSeqProperties, SMT
  <2>3. n - 1 + 1 = n /\ \A k \in 1..n : 1 + k - 1 = k
    BY <2>1, SMT
  <2> QED
    BY <2>1, <2>2, <2>3 DEF n
<1> HIDE DEF t
<1>4. 1..Len(s) = 1..Len(t) \cup {Len(s)} /\ 1..Len(t) = 1..(Len(s) - 1)
  BY <1>1, <1>3, SMT
<1> QED
  BY <1>3, <1>4 DEF t

\* A tick moves at most one character, into an rbr that was read.
LEMMA TickLosesNothing ==
  ASSUME Shape, ReceiveInv, UNCHANGED <<got, h>>,
         NEW char \in {NoChar, typed + 1}, Tick(char),
         typed' = IF char = NoChar THEN typed ELSE char
  PROVE  ReceiveInv'
<1> DEFINE buf == TickBuffer(char)
           inBuf == {buf[k] : k \in 1..Len(buf)}
<1>0. /\ NoChar = 0 /\ typed \in Nat /\ char \in Nat
      /\ input_buf \in Seq(Nat) /\ 1..typed = Buffered \cup got \cup (IF dr THEN {rbr} ELSE {})
  <2>1. input_buf \in Seq(Nat)
    BY SMT DEF Shape, UartShape
  <2> QED
    BY <2>1, PathBounds, SMT DEF Shape, CountShape, ReceiveInv, NothingLost
<1>1. buf \in Seq(Nat) /\ 1..typed' = inBuf \cup got \cup (IF dr THEN {rbr} ELSE {})
  <2>1. CASE char = NoChar
    BY <1>0, <2>1 DEF TickBuffer, Buffered
  <2>2. CASE char # NoChar
    <3>1. buf = Append(input_buf, char) /\ typed' = typed + 1 /\ char = typed + 1
      BY <2>2 DEF TickBuffer
    <3>2. buf \in Seq(Nat) /\ inBuf = Buffered \cup {char}
      BY <1>0, <3>1, AppendProperties, AppendRange DEF Buffered
    <3>3. 1..(typed + 1) = 1..typed \cup {typed + 1}
      BY <1>0, SMT
    <3> QED
      BY <1>0, <3>1, <3>2, <3>3
  <2> QED
    BY <2>1, <2>2
<1>2. CASE TickPushes(char)
  <2>1. buf # <<>> /\ ~dr
    BY <1>2 DEF TickPushes, IsReadyForReceiving, ReceiveInv
  <2>2. /\ rbr' = buf[Len(buf)] /\ input_buf' = SubSeq(buf, 1, Len(buf) - 1)
        /\ dr' = TRUE /\ iir' = "RDA" /\ ier' = ier
    BY <1>2 DEF Tick, RaiseInterrupt
  <2>3. inBuf = Buffered' \cup {rbr'}
    <3> HIDE DEF buf
    <3> QED
      BY <1>1, <2>1, <2>2, PopRange DEF Buffered
  <2> QED
    BY <1>1, <2>1, <2>2, <2>3 DEF ReceiveInv, NothingLost
<1>3. CASE ~TickPushes(char)
  <2>1. /\ input_buf' = buf /\ rbr' = rbr /\ ier' = ier /\ iir' = iir
        /\ dr' = dr
    BY <1>3 DEF Tick, uartIrq
  <2>2. Buffered' = inBuf
    BY <2>1 DEF Buffered
  <2> QED
    BY <1>1, <2>1, <2>2 DEF ReceiveInv, NothingLost
<1> QED
  BY <1>2, <1>3

\* Reading rbr takes its character and empties it.
LEMMA ReadLosesNothing ==
  ASSUME ReceiveInv, HReadRbr
  PROVE  ReceiveInv'
<1>1. /\ UNCHANGED <<ier, input_buf, typed>> /\ dr' = FALSE
      /\ h' = "lsr" /\ got' = IF dr THEN got \cup {rbr} ELSE got
      /\ iir' = iir \/ iir' = "NIP"
  BY DEF HReadRbr, UartAccess, ReadRbr, LowerInterrupt, uartIrq
<1>2. Buffered' = Buffered
  BY <1>1 DEF Buffered
<1> QED
  BY <1>1, <1>2 DEF ReceiveInv, NothingLost

\* Nothing else changes what was received.
LEMMA ReceiveFrame ==
  ASSUME ReceiveInv, UNCHANGED <<ier, iir, rbr, input_buf, typed, got>>, dr' = dr,
         h' # "tx"
  PROVE  ReceiveInv'
<1>1. Buffered' = Buffered
  BY DEF Buffered
<1> QED
  BY <1>1 DEF ReceiveInv, NothingLost

NoTransmission == GuestOps \cap {"ier", "print"} = {}

LEMMA ReceiveInvStep ==
  ASSUME NoTransmission, Shape, ReceiveInv, [Next]_vars
  PROVE  ReceiveInv'
<1>1. CASE UNCHANGED vars
  BY <1>1, ReceiveFrame DEF vars, uartVars, uartIrq, ghostVars, guestVars, ReceiveInv
<1>2. CASE BusTick
  <2>1. UNCHANGED <<got, h>>
    BY <1>2 DEF BusTick, guestVars
  <2>2. CASE TickClosed
    BY <2>1, <2>2, ReceiveFrame DEF TickClosed, uartVars, uartIrq, ReceiveInv
  <2>3. CASE TickOpen
    <3>1. PICK pushed \in {<<>>, <<UART>>, <<NET>>, <<UART, NET>>} : DeviceTicks(pushed)
      BY <2>3 DEF TickOpen
    <3>2. PICK char \in {NoChar, typed + 1} :
            Tick(char) /\ typed' = IF char = NoChar THEN typed ELSE char
      BY <3>1 DEF DeviceTicks
    <3> QED
      BY <2>1, <3>2, TickLosesNothing
  <2> QED
    BY <1>2, <2>2, <2>3 DEF BusTick
<1>3. CASE CheckInterrupt
  <2>1. UNCHANGED <<typed, got>>
    BY <1>3 DEF CheckInterrupt, ghostVars
  <2>2. UNCHANGED <<ier, iir, rbr, input_buf>> /\ dr' = dr
    BY <1>3 DEF CheckInterrupt, TrapPanic, TakeExternal, TakeInterrupt, uartVars, uartIrq
  <2>3. h' # "tx"
    <3>1. CASE TakeExternal
      BY <3>1 DEF TakeExternal
    <3>2. CASE UNCHANGED guestVars
      BY <3>2 DEF guestVars, ReceiveInv
    <3> QED
      BY <1>3, <3>1, <3>2 DEF CheckInterrupt, TrapPanic
  <2> QED
    BY <2>1, <2>2, <2>3, ReceiveFrame
<1>4. CASE HReadIir
  <2>1. UNCHANGED <<ier, iir, rbr, input_buf>> /\ dr' = dr
    BY <1>4 DEF HReadIir, UartAccess, ReadIir, uartIrq, ReceiveInv
  <2> QED
    BY <1>4, <2>1, ReceiveFrame DEF HReadIir, ghostVars
<1>5. CASE HReadLsr
  <2>1. UNCHANGED <<ier, iir, rbr, input_buf>> /\ dr' = dr
    BY <1>5 DEF HReadLsr, UartAccess, OtherAccess, uartVars, uartIrq
  <2>2. h' # "tx"
    BY <1>5 DEF HReadLsr, ReceiveInv
  <2> QED
    BY <1>5, <2>1, <2>2, ReceiveFrame DEF HReadLsr, ghostVars
<1>6. CASE HReadRbr
  BY <1>6, ReadLosesNothing
<1>7. CASE HTransmit
  BY <1>7 DEF HTransmit, ReceiveInv
<1>8. CASE HClaim \/ HAck \/ HComplete \/ HSret
  <2>1. h' # "tx"
    BY <1>8 DEF HClaim, HAck, HComplete, HSret
  <2>2. UNCHANGED <<uartVars, ghostVars>>
    BY <1>8 DEF HClaim, HAck, HComplete, HSret, OnPlic
  <2> QED
    BY <2>1, <2>2, ReceiveFrame DEF uartVars, uartIrq, ghostVars
<1>9. CASE Threads
  <2>1. h' = "none"
    BY <1>9, ThreadsEffect
  <2>2. UNCHANGED <<typed, got>>
    BY <1>9 DEF Threads, Compute, ToggleSie, ToUser, Ecall, SetIer, PrintChar, PollLsr,
       Notify, ToggleSeie, Reconfigure, EnableMachine, ghostVars
  <2>3. UNCHANGED uartVars
    BY <1>9 DEF Threads, Compute, ToggleSie, ToUser, Ecall, SetIer, PrintChar, PollLsr,
       Notify, ToggleSeie, Reconfigure, EnableMachine, OnPlic, UartAccess, OtherAccess,
       Kernel, Thread, NoTransmission
  <2> QED
    BY <2>1, <2>2, <2>3, ReceiveFrame DEF uartVars, uartIrq
<1> QED
  BY <1>1, <1>2, <1>3, <1>4, <1>5, <1>6, <1>7, <1>8, <1>9 DEF Next, Handler

\* With transmission off what the host typed is in the buffer, in rbr or read,
\* however the ticks, the traps, the reads of the handler and what the threads
\* mask or reconfigure interleave.
THEOREM NothingTypedIsLost ==
  ASSUME NoTransmission
  PROVE  Spec => []NothingLost
<1>1. Init => ReceiveInv
  BY SMT DEF Init, ReceiveInv, NothingLost, Buffered, ERBFI, ETBEI, ELSI
<1>2. Shape /\ ReceiveInv /\ [Next]_vars => ReceiveInv'
  BY ReceiveInvStep
<1>3. ReceiveInv => NothingLost
  BY DEF ReceiveInv
<1> QED
  BY <1>1, <1>2, <1>3, ShapeHolds, PTL DEF Spec
=============================================================================
