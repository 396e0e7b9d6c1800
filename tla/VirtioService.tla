--------------------------- MODULE VirtioService ---------------------------
(***************************************************************************)
(* A VirtIO device, the guest driver that sets it up, uses it and resets   *)
(* it, and the host thread behind the device's channels.  The driver is    *)
(* not part of the repository: it is the order of accesses the devices are *)
(* written for (that of Linux).  It may once per set-up go astray, with an *)
(* access the device does not expect; a reset must repair that.            *)
(***************************************************************************)
EXTENDS VirtioNet, VirtioGpu, FiniteSets

CONSTANTS
  MaxGen,      \* bound: how often the driver sets the device up
  MaxPackets,  \* bound: packets the host sends
  MaxInbox,    \* bound: packets that wait in the channel
  MaxFrames,   \* bound: frames the driver offers
  MaxCommands, \* bound: commands it offers
  Resources,   \* ids of the resources the driver creates
  PageLists    \* the backings it attaches

ASSUME BoundsAssumption == MaxGen \in Nat /\ MaxPackets \in Nat /\ MaxInbox \in Nat
                          /\ MaxFrames \in Nat /\ MaxCommands \in Nat
ASSUME ResourcesAssumption == Resources \subseteq Nat \ {0}
ASSUME PageListsAssumption == PageLists \subseteq Seq(Nat)

VARIABLES
  pos,       \* the driver's place in its set-up
  kick,      \* per queue, the driver owes a notification
  seen,      \* per queue, the index up to which the driver collected
  handling,  \* the driver's interrupt handler runs
  offers,    \* number of frames or commands offered
  arrived,   \* number of packets the host sent
  got,       \* ghost: the last packet the driver received
  backing,   \* the driver's view of resources
  current,   \* resource of the driver's last transfer, 0 for none
  astray     \* ghost: the driver did what the device does not expect

driver == <<pos, kick, seen, handling, backing, current, astray>>
counts == <<offers, arrived, got>>
vars   == <<queueVars, resources, driver, counts>>

IsNet == virtio.device_type = "Network"

\* A panic ends the simulator.
Running == panic = "none"

Init ==
  /\ \E type \in {"Network", "Gpu"} : virtio = New(type)
  /\ last_idxes = Zero
  /\ gen = 0 /\ avail = FreshAvail /\ used = FreshUsed /\ desc = FreshDesc
  /\ inbox = <<>> /\ outbox = <<>> /\ host = "running"
  /\ irq = FALSE /\ panic = "none"
  /\ resources = <<>> /\ backing = <<>> /\ current = 0
  /\ pos = 0
  /\ kick = [q \in Queues |-> FALSE] /\ seen = Zero
  /\ handling = FALSE /\ astray = FALSE
  /\ offers = 0 /\ arrived = 0 /\ got = 0

-----------------------------------------------------------------------------
\* Set-up, one register access after the other; the addresses are those of
\* the driver's allocation.
W(reg, value) == [reg |-> reg, value |-> value]

SetUpQueue(q) ==
  << W("QueueSel", q), W("CheckReady", 0), W("QueueNum", QueueSize),
     W("DescLow", gen), W("AddressHigh", 0), W("DriverLow", gen),
     W("DeviceLow", gen), W("QueueReady", 1) >>

SetUp ==
  << W("AddStatus", ACKNOWLEDGE), W("AddStatus", DRIVER),
     W("DeviceFeaturesSel", 1), W("Read", "DeviceFeatures"),
     W("DriverFeaturesSel", 1), W("DriverFeatures", TRUE),
     W("DriverFeaturesSel", 0), W("DriverFeatures", TRUE),
     W("AddStatus", FEATURES_OK) >>
  \o (IF IsNet THEN <<>> ELSE << W("ShmSel", 1), W("Read", "Shm") >>)
  \o SetUpQueue(0) \o SetUpQueue(1) \o << W("AddStatus", DRIVER_OK) >>

Live == pos = Len(SetUp) + 1

Access ==
  /\ Running
  /\ pos \in 1..Len(SetUp)
  /\ LET step == SetUp[pos] IN
     CASE step.reg = "Read" -> ReadRegister(step.value)
       [] step.reg = "CheckReady" ->
            /\ ReadRegister("QueueReady")
            /\ panic' = "none" => ~virtio.readies[virtio.queue_sel]
       [] step.reg = "AddStatus" ->
            WriteRegister("Status", virtio.status \cup {step.value})
       [] OTHER -> WriteRegister(step.reg, step.value)
  /\ pos' = pos + 1
  /\ UNCHANGED <<resources, kick, seen, handling, backing, current, astray, counts>>

\* Status 0: the device forgets its set-up, and the driver frees the rings
\* and sets up zeroed ones in their stead.
Reset ==
  /\ Running
  /\ pos = 0 \/ Live \/ astray
  /\ ~handling
  /\ gen < MaxGen
  /\ \/ IsNet /\ NetReset /\ UNCHANGED resources
     \/ ~IsNet /\ GpuReset
  /\ gen' = gen + 1
  /\ avail' = FreshAvail /\ used' = FreshUsed /\ desc' = FreshDesc
  /\ pos' = 1
  /\ kick' = [q \in Queues |-> FALSE]
  /\ seen' = Zero
  /\ backing' = <<>> /\ current' = 0
  /\ astray' = FALSE
  /\ UNCHANGED <<channels, irq, panic, handling, counts>>

-----------------------------------------------------------------------------
\* The driver fills a free descriptor, then the next slot of its ring, then
\* moves the index.  A notification of a receive queue changes nothing, so the
\* driver owes none.
Offer(q, id, content) ==
  /\ Live
  /\ desc[q][id] = Nothing
  /\ desc' = [desc EXCEPT ![q][id] = content]
  /\ avail' = [avail EXCEPT ![q] =
       [idx |-> Plus(@.idx, 1), ring |-> [@.ring EXCEPT ![avail[q].idx % QueueSize] = id]]]
  /\ kick' = [kick EXCEPT ![q] = ~IsNet \/ q = TRANSMIT]
  /\ UNCHANGED <<virtio, last_idxes, gen, used, channels, irq, panic, resources,
                 pos, seen, handling, arrived, got>>

OfferReceive ==
  /\ Running
  /\ IsNet /\ ~astray
  /\ \E id \in Slots : Offer(RECEIVE, id, EmptyBuffer)
  /\ UNCHANGED <<backing, current, offers, astray>>

OfferTransmit ==
  /\ Running
  /\ IsNet /\ ~astray /\ offers < MaxFrames
  /\ \E id \in Slots : Offer(TRANSMIT, id, Frame(offers + 1))
  /\ offers' = offers + 1
  /\ UNCHANGED <<backing, current, astray>>

\* What the graphics driver sends: it creates a resource once, attaches its
\* pages, and flushes the resource it transferred last.
Command(cmd) ==
  CASE cmd.op = "Create2D" -> cmd.res \notin DOMAIN backing
    [] cmd.op = "AttachBacking" -> cmd.res \in DOMAIN backing /\ backing[cmd.res] = <<>>
    [] cmd.op = "Transfer" -> cmd.res \in DOMAIN backing /\ backing[cmd.res] # <<>>
    [] cmd.op = "SetScanout" -> cmd.res \in DOMAIN backing \cup {0}
    [] cmd.op = "Flush" -> cmd.res = current /\ current # 0
    [] OTHER -> TRUE

Commands ==
  {GetDisplayInfo, SetScanout(0)}
  \cup {Create2D(r) : r \in Resources} \cup {SetScanout(r) : r \in Resources}
  \cup {Transfer(r) : r \in Resources} \cup {Flush(r) : r \in Resources}
  \cup {Attach(r, pages) : r \in Resources, pages \in PageLists}

OfferCommand ==
  /\ Running
  /\ ~IsNet /\ ~astray /\ offers < MaxCommands
  /\ \E id \in Slots, cmd \in Commands :
       /\ Command(cmd)
       /\ Offer(CONTROL, id, cmd)
       /\ backing' = CASE cmd.op = "Create2D" -> Created(backing, cmd)
                       [] cmd.op = "AttachBacking" -> [backing EXCEPT ![cmd.res] = cmd.pages]
                       [] OTHER -> backing
       /\ current' = CASE cmd.op = "Transfer" -> cmd.res
                       [] cmd.op = "SetScanout" /\ cmd.res = 0 -> 0
                       [] OTHER -> current
  /\ offers' = offers + 1
  /\ UNCHANGED astray

\* The write to VIRTIO_REG_NOTIFY.
DeviceNotify(q) ==
  \/ IsNet /\ NetNotify(q) /\ UNCHANGED resources
  \/ ~IsNet /\ GpuNotify(q)

Notify ==
  /\ Running
  /\ \E q \in Queues :
       /\ kick[q]
       /\ DeviceNotify(q)
       /\ kick' = [kick EXCEPT ![q] = FALSE]
  /\ UNCHANGED <<pos, seen, handling, backing, current, astray, counts>>

\* The interrupt is acknowledged, then both rings are emptied.
Interrupted ==
  /\ Running
  /\ Live /\ irq /\ ~handling
  /\ WriteAccepted(virtio, "InterruptAck", 1)
  /\ irq' = FALSE
  /\ handling' = TRUE
  /\ UNCHANGED <<virtio, last_idxes, memory, channels, panic, resources,
                 pos, kick, seen, backing, current, astray, counts>>

Returned(q) == Between(used[q].elems, seen[q], used[q].idx)

Collect ==
  /\ Running
  /\ handling
  /\ \E q \in Queues :
       /\ Returned(q) # <<>>
       /\ desc' = [desc EXCEPT ![q][Returned(q)[1]] = Nothing]
       /\ seen' = [seen EXCEPT ![q] = Plus(@, 1)]
       /\ got' = IF IsNet /\ q = RECEIVE THEN desc[q][Returned(q)[1]].n ELSE got
  /\ UNCHANGED <<virtio, last_idxes, gen, avail, used, channels, irq, panic, resources,
                 pos, kick, handling, backing, current, astray, offers, arrived>>

HandlerEnds ==
  /\ Running
  /\ handling
  /\ \A q \in Queues : Returned(q) = <<>>
  /\ handling' = FALSE
  /\ UNCHANGED <<queueVars, resources, pos, kick, seen, backing, current, astray, counts>>

-----------------------------------------------------------------------------
\* An access the device does not expect, once in a set-up that a reset can
\* still follow: to a register with a value out of its range, to a queue not
\* owed a notification, or a buffer the device does not serve.
WildWrites ==
  << W("Status", {FAILED}), W("QueueSel", 2), W("QueueReady", 2), W("QueueReady", 0),
     W("DriverFeatures", FALSE), W("DriverFeaturesSel", 4), W("DeviceFeaturesSel", 4),
     W("AddressHigh", 1), W("InterruptAck", 0), W("Unknown", 0), W("ShmSel", 2) >>

\* Two accesses in a row: an address of a queue is taken back.
Unplaced ==
  \E q \in Queues, reg \in {"DescLow", "DriverLow", "DeviceLow"} :
    /\ virtio' = Written(Written(virtio, "QueueSel", q), reg, gen - 1)
    /\ UNCHANGED <<last_idxes, memory, channels, irq, panic>>

GoAstray ==
  /\ Running
  /\ pos > 0 /\ ~astray /\ gen < MaxGen
  /\ \/ /\ \/ \E k \in DOMAIN WildWrites : WriteRegister(WildWrites[k].reg, WildWrites[k].value)
           \/ \E reg \in {"Unknown", "QueueReady"} : ReadRegister(reg)
           \/ Unplaced
        /\ UNCHANGED <<resources, kick>>
     \/ \E q \in Queues \cup {2} : DeviceNotify(q) /\ UNCHANGED kick
  /\ astray' = TRUE
  /\ UNCHANGED <<pos, seen, handling, backing, current, counts>>

OfferAstray ==
  /\ Running
  /\ ~astray /\ gen < MaxGen
  /\ offers < IF IsNet THEN MaxFrames ELSE MaxCommands
  /\ \E id \in Slots :
       \/ IsNet /\ Offer(TRANSMIT, id, Chained)
       \/ ~IsNet /\ \E cmd \in Unsupported \cup {Transfer(r) : r \in Resources \ DOMAIN backing} :
            Offer(CONTROL, id, cmd)
  /\ offers' = offers + 1
  /\ astray' = TRUE
  /\ UNCHANGED <<backing, current>>

-----------------------------------------------------------------------------
\* Bus::tick, and the host's threads.
Tick ==
  /\ Running
  /\ IsNet /\ NetTick
  /\ UNCHANGED <<resources, driver, counts>>

HostSends ==
  /\ Running
  /\ IsNet /\ host = "running" /\ arrived < MaxPackets /\ Len(inbox) < MaxInbox
  /\ arrived' = arrived + 1
  /\ inbox' = Append(inbox, arrived + 1)
  /\ UNCHANGED <<virtio, last_idxes, memory, outbox, host, irq, panic, resources,
                 driver, offers, got>>

\* HostNet ends when it cannot open the TAP device, before any packet;
\* HostGpu when its window is closed.
HostEnds ==
  /\ Running
  /\ host = "running"
  /\ IsNet => arrived = 0
  /\ host' = "gone"
  /\ UNCHANGED <<virtio, last_idxes, memory, inbox, outbox, irq, panic, resources,
                 driver, counts>>

Next ==
  \/ Access \/ Reset
  \/ OfferReceive \/ OfferTransmit \/ OfferCommand \/ Notify
  \/ Interrupted \/ Collect \/ HandlerEnds
  \/ GoAstray \/ OfferAstray
  \/ Tick \/ HostSends \/ HostEnds

Spec == Init /\ [][Next]_vars

-----------------------------------------------------------------------------
TypeOK ==
  /\ virtio.status \subseteq {ACKNOWLEDGE, DRIVER, DRIVER_OK, FEATURES_OK, FAILED}
  /\ virtio.queue_sel \in Queues \cup {2}
  /\ virtio.readies \in [Queues -> BOOLEAN]
  /\ \A q \in Queues : {virtio.desc_addrs[q], virtio.driver_addrs[q],
                        virtio.device_addrs[q]} \subseteq 0..gen
  /\ \A q \in Queues :
       /\ {last_idxes[q], avail[q].idx, used[q].idx, seen[q]} \subseteq 0..(IdxMod - 1)
       /\ avail[q].ring \in [Slots -> Slots]
       /\ used[q].elems \in [Slots -> Slots]
       /\ Len(Waiting(q)) + Len(Returned(q)) <= QueueSize
  /\ IsNet => /\ inbox \in Seq(1..MaxPackets)
              /\ outbox \in Seq(1..MaxFrames)
              /\ resources = <<>>
  /\ panic \in {"none", "access", "ring", "packet", "chain", "command", "host"}

\* A driver that keeps to the protocol, at its first set-up or after a reset,
\* stops the simulator by no access: what remains is a host thread that ended
\* (the unwrap of send_to_host) and a packet larger than its buffers.
DriverNeverPanics == ~astray => panic \in {"none", "host", "packet"}

\* Each queue, seen by the driver, is a BufferQueue over its descriptors: no
\* buffer is served twice, lost, or returned out of order, across the wrap of
\* the indices and across resets.
OfferedTo(q)  == IF astray THEN <<>> ELSE Waiting(q)
CompletedBy(q) == IF astray THEN <<>> ELSE Returned(q)

Queue0 == INSTANCE BufferQueue WITH
            Buffers <- Slots, offered <- OfferedTo(0), completed <- CompletedBy(0)
Queue1 == INSTANCE BufferQueue WITH
            Buffers <- Slots, offered <- OfferedTo(1), completed <- CompletedBy(1)

QueuesImplement == Queue0!Spec /\ Queue1!Spec

Increasing(s) == \A i, j \in DOMAIN s : i < j => s[i] < s[j]
Numbers(q, ids) == [k \in DOMAIN ids |-> desc[q][ids[k]].n]

\* What the driver received, what waits in its buffers, and what waits in the
\* channel are packets in the order they were sent, none of them twice, also
\* when packets of before a reset are delivered after it.
ReceivedInOrder ==
  IsNet /\ ~astray =>
    Increasing(<<got>> \o Numbers(RECEIVE, Returned(RECEIVE)) \o inbox)

\* tick takes a packet off the channel before it looks for a buffer: the packet
\* is lost only when the driver has none waiting, and otherwise it is among
\* those to be collected.
LostOnlyWithoutBuffer ==
  [][Len(inbox') < Len(inbox) =>
       \/ Waiting(RECEIVE) = <<>>
       \/ Head(inbox) \in Range(Numbers(RECEIVE, Returned(RECEIVE)))']_vars

\* A frame goes to the host exactly once: not before the device took it, and
\* once the driver may reuse its buffer it is sent.
TransmittedOnce ==
  IsNet /\ ~astray =>
    /\ Increasing(outbox)
    /\ Range(Numbers(TRANSMIT, Returned(TRANSMIT))) \subseteq Range(outbox)
    /\ Range(Numbers(TRANSMIT, Waiting(TRANSMIT))) \cap Range(outbox) = {}

\* No buffer is returned silently: while the driver has some to collect its
\* interrupt is on the way or its handler runs.
ReturnIsSignalled ==
  ~astray /\ (\E q \in Queues : Returned(q) # <<>>) => irq \/ handling

\* HostGpu::run, over the messages sent: the resource its buffer belongs to is
\* that of the last copy, 0 if the scanout was disabled since.
HostResource(messages) ==
  LET filled == {k \in DOMAIN messages : messages[k].op # "Flush"} IN
  IF filled = {} THEN 0 ELSE messages[Max(filled)].res

\* Every flush reaches the host while it shows the resource flushed, so the
\* host never prints its warning.
FlushesShown(messages) ==
  \A k \in DOMAIN messages :
    messages[k].op = "Flush" => messages[k].res = HostResource(SubSeq(messages, 1, k - 1))

\* The device executes the commands that wait without refusing one, then holds
\* the resources and pages the driver believes it has, and what it has sent by
\* then shows on the host what the driver flushed.
DeviceFollowsDriver ==
  ~IsNet /\ ~astray /\ host = "running" =>
    /\ Run(WaitingCommands).stop = "none"
    /\ Run(WaitingCommands).known = backing
    /\ FlushesShown(outbox \o Run(WaitingCommands).sent)
=============================================================================
