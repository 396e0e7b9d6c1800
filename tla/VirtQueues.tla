----------------------------- MODULE VirtQueues -----------------------------
(***************************************************************************)
(* What a VirtIO device works on: its registers, its cursor in each queue, *)
(* the two rings of each queue in guest memory, and its channels to the    *)
(* host.  The guest memory kept is the allocation number gen, which the    *)
(* driver uses now; a device that is led to another address (null, or an   *)
(* allocation the driver freed) panics or touches what is not its own, and *)
(* the model stops at either.  A chain of descriptors is one identifier    *)
(* with what it holds; the flags of a chain are part of that.              *)
(***************************************************************************)
EXTENDS VirtioMmio, Sequences, SequencesExt

CONSTANTS
  QueueSize,  \* MAX_QUEUE_SIZE, 256 in the code
  IdxMod      \* 2^16: the ring indices are u16

ASSUME QueueSizeAssumption == QueueSize \in Nat \ {0}
ASSUME IdxModAssumption ==
  /\ IdxMod \in Nat
  /\ QueueSize < IdxMod
  /\ IdxMod % QueueSize = 0

VARIABLES
  virtio,      \* the registers
  last_idxes,  \* per queue, the next entry of the driver's ring to take
  gen,         \* the driver's current allocation, 0 before the first
  avail,       \* per queue, struct VirtQueueDriver: idx and ring
  used,        \* per queue, struct VirtQueueDevice: idx and the ids of elems
  desc,        \* per queue, what each descriptor (chain) holds
  inbox,       \* the channel from the host thread
  outbox,      \* what was put into the channel to the host thread, ever
  host,        \* "running", or "gone": its ends of the channels are dropped
  irq,         \* is_interrupting: the irq was queued and not yet handled
  panic        \* why the simulator stopped, "none" while it runs

memory   == <<gen, avail, used, desc>>
channels == <<inbox, outbox, host>>
queueVars == <<virtio, last_idxes, memory, channels, irq, panic>>

Slots == 0..(QueueSize - 1)
Nothing == [op |-> "None"]

\* A zeroed allocation.
FreshAvail == [q \in Queues |-> [idx |-> 0, ring  |-> [s \in Slots |-> 0]]]
FreshUsed  == [q \in Queues |-> [idx |-> 0, elems |-> [s \in Slots |-> 0]]]
FreshDesc  == [q \in Queues |-> [s \in Slots |-> Nothing]]

Zero == [q \in Queues |-> 0]

-----------------------------------------------------------------------------
\* wrapping_sub and wrapping_add of u16.
Diff(a, b) == (a - b) % IdxMod
PlusWide(a, n) == a + n   \* mutant: does not wrap
Plus(a, n) == (a + n) % IdxMod

\* The entries of a ring from one index up to another.
Between(ring, from, to) ==
  [k \in 1..Diff(to, from) |-> ring[Plus(from, k - 1) % QueueSize]]

\* The identifiers the driver offered and the device has not taken.
Waiting(q) == Between(avail[q].ring, last_idxes[q], avail[q].idx)

\* What they hold, in order.
Contents(q, ids) == [k \in DOMAIN ids |-> desc[q][ids[k]]]

RingsAt(q)       == virtio.driver_addrs[q] = gen /\ virtio.device_addrs[q] = gen
DescriptorsAt(q) == virtio.desc_addrs[q] = gen

Stop(why) ==
  /\ panic' = why
  /\ UNCHANGED <<virtio, last_idxes, memory, channels, irq>>

\* Mutant: an element goes where the used index points one further.
ServeShifted(q, n) ==
  /\ used' = [used EXCEPT ![q] =
       [idx   |-> Plus(used[q].idx, n),
        elems |-> [s \in Slots |->
           IF \E k \in 1..n : Plus(last_idxes[q], k) % QueueSize = s
           THEN avail[q].ring[s] ELSE used[q].elems[s]]]]
  /\ last_idxes' = [last_idxes EXCEPT ![q] = Plus(@, n)]

\* The device takes the next n entries of a queue and returns each in the
\* slot of the device's ring with the number of its slot in the driver's.
Serve(q, n) ==
  /\ used' = [used EXCEPT ![q] =
       [idx   |-> Plus(used[q].idx, n),
        elems |-> [s \in Slots |->
           IF \E k \in 1..n : Plus(last_idxes[q], k - 1) % QueueSize = s
           THEN avail[q].ring[s] ELSE used[q].elems[s]]]]
  /\ last_idxes' = [last_idxes EXCEPT ![q] = Plus(@, n)]

\* is_interrupting of the answer: the bus queues the irq.
NotInterrupting == UNCHANGED irq   \* mutant
Interrupting == irq' = TRUE

\* Result of a register write that is not a notification and not a reset.
WriteRegister(reg, value) ==
  IF WriteAccepted(virtio, reg, value)
  THEN /\ virtio' = Written(virtio, reg, value)
       /\ UNCHANGED <<last_idxes, memory, channels, irq, panic>>
  ELSE Stop("access")

ReadRegister(reg) ==
  IF ReadPanics(virtio, reg) THEN Stop("access") ELSE UNCHANGED queueVars
=============================================================================
