----------------------------- MODULE VirtioNet -----------------------------
(***************************************************************************)
(* bus/virtio_net.rs: queue 0 receives what the host sends, at ticks of    *)
(* the bus; queue 1 transmits when the driver notifies.  A packet is its   *)
(* number; a receive buffer holds the number of the packet put into it.    *)
(***************************************************************************)
EXTENDS VirtQueues

CONSTANT Jumbo   \* the packets of the host that no buffer of the driver holds

RECEIVE  == 0
TRANSMIT == 1

EmptyBuffer == [op |-> "Buffer", n |-> 0]
Frame(n)    == [op |-> "Frame", n |-> n]
Chained     == [op |-> "Chained"]   \* a transmit descriptor with a successor

-----------------------------------------------------------------------------
\* VirtioNet::reset keeps the channels and builds the rest anew.
\* Mutant: the status is cleared and the queues stay set up.
NetResetKeepsQueues ==
  /\ virtio' = [virtio EXCEPT !.status = {}]
  /\ last_idxes' = Zero
NetReset ==
  /\ virtio' = New("Network")
  /\ last_idxes' = Zero

\* VirtioNet::tick takes the message off the channel before it knows whether
\* a buffer waits.
NetTickable == virtio.readies[RECEIVE] /\ inbox # <<>>

\* Mutant: the slots are compared, so that a full ring looks empty.
NetDropFull ==
  /\ NetTickable
  /\ RingsAt(RECEIVE)
  /\ (avail[RECEIVE].idx - last_idxes[RECEIVE]) % QueueSize = 0
  /\ inbox' = Tail(inbox)
  /\ UNCHANGED <<virtio, last_idxes, memory, outbox, host, irq, panic>>

NetDrop ==
  /\ NetTickable
  /\ RingsAt(RECEIVE)
  /\ avail[RECEIVE].idx = last_idxes[RECEIVE]
  /\ inbox' = Tail(inbox)
  /\ UNCHANGED <<virtio, last_idxes, memory, outbox, host, irq, panic>>

NetTickPanic ==
  /\ NetTickable
  /\ \/ ~RingsAt(RECEIVE) /\ Stop("ring")
     \/ /\ RingsAt(RECEIVE)
        /\ avail[RECEIVE].idx # last_idxes[RECEIVE]
        /\ ~DescriptorsAt(RECEIVE)
        /\ Stop("ring")
     \/ /\ RingsAt(RECEIVE) /\ DescriptorsAt(RECEIVE)
        /\ avail[RECEIVE].idx # last_idxes[RECEIVE]
        /\ Head(inbox) \in Jumbo
        /\ Stop("packet")

\* Mutant: the oldest packets wait, the newest is delivered.
NewestPacket == inbox[Len(inbox)]
NextPacket == Head(inbox)

NetDeliver ==
  /\ NetTickable
  /\ RingsAt(RECEIVE) /\ DescriptorsAt(RECEIVE)
  /\ avail[RECEIVE].idx # last_idxes[RECEIVE]
  /\ Head(inbox) \notin Jumbo
  /\ desc' = [desc EXCEPT ![RECEIVE][Waiting(RECEIVE)[1]].n = NextPacket]
  /\ Serve(RECEIVE, 1)
  /\ inbox' = Tail(inbox)
  /\ Interrupting
  /\ UNCHANGED <<virtio, gen, avail, outbox, host, panic>>

NetTick == NetDrop \/ NetTickPanic \/ NetDeliver

-----------------------------------------------------------------------------
\* VirtioNet::handle_notify.  A notification of the receive queue, and one
\* that finds nothing new, do nothing.
NetNotifyIdle(q) ==
  /\ q \in Queues /\ RingsAt(q)
  /\ q = RECEIVE \/ avail[q].idx = last_idxes[q]
  /\ UNCHANGED queueVars

\* Mutant: every entry up to the driver's is sent again.
ToTransmitAgain == Between(avail[TRANSMIT].ring, 0, avail[TRANSMIT].idx)
ToTransmit == Waiting(TRANSMIT)

NetNotifyPanic(q) ==
  \/ q \notin Queues /\ Stop("access")
  \/ q \in Queues /\ ~RingsAt(q) /\ Stop("ring")
  \/ /\ q = TRANSMIT /\ RingsAt(q) /\ Waiting(q) # <<>>
     /\ \/ ~DescriptorsAt(q) /\ Stop("ring")
        \/ DescriptorsAt(q) /\ Chained \in Range(Contents(q, Waiting(q))) /\ Stop("chain")
        \/ /\ DescriptorsAt(q) /\ Chained \notin Range(Contents(q, Waiting(q)))
           /\ host = "gone"
           /\ Stop("host")

\* send_to_host for each waiting buffer; the answer asks for an interrupt.
NetTransmit(q) ==
  /\ q = TRANSMIT /\ RingsAt(q) /\ DescriptorsAt(q)
  /\ Waiting(q) # <<>>
  /\ Chained \notin Range(Contents(q, Waiting(q)))
  /\ host = "running"
  /\ outbox' = outbox \o [k \in DOMAIN ToTransmit |-> desc[q][ToTransmit[k]].n]
  /\ Serve(q, Len(Waiting(q)))
  /\ Interrupting
  /\ UNCHANGED <<virtio, gen, avail, desc, inbox, host, panic>>

NetNotify(q) == NetNotifyIdle(q) \/ NetNotifyPanic(q) \/ NetTransmit(q)
=============================================================================
