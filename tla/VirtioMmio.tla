----------------------------- MODULE VirtioMmio -----------------------------
(***************************************************************************)
(* bus/virtio_mmio.rs: the register file both VirtIO devices are built on, *)
(* as a record and the effect of an access on it.  A status is the set of  *)
(* its bits.  A feature word is compared with the supported one only, so a *)
(* write to it is a Boolean: did it equal the supported word.  An address  *)
(* is the number of the allocation it points into, 0 while it was not set. *)
(* The queue sizes are stored and never read; they are left out.  Sizes    *)
(* other than 4 stop the program and are not inputs.                       *)
(***************************************************************************)
EXTENDS Integers

Queues == {0, 1}   \* both devices are built with two
Words  == 0..3     \* of the feature arrays
Shms   == {0, 1}   \* shared memory regions of the graphics device

\* The bits of the status register.
ACKNOWLEDGE == 0
DRIVER      == 1
DRIVER_OK   == 2
FEATURES_OK == 3
FAILED      == 7

\* The values 1, 3, 0xb and 0xf the register accepts.
AcceptedStatus ==
  { {ACKNOWLEDGE}, {ACKNOWLEDGE, DRIVER}, {ACKNOWLEDGE, DRIVER, FEATURES_OK},
    {ACKNOWLEDGE, DRIVER, FEATURES_OK, DRIVER_OK} }

Unset == [q \in Queues |-> 0]

New(type) ==
  [device_type |-> type, status |-> {}, features_sel |-> 0,
   driver_features_sel |-> 0, driver_features |-> {}, queue_sel |-> 0,
   readies |-> [q \in Queues |-> FALSE], desc_addrs |-> Unset,
   driver_addrs |-> Unset, device_addrs |-> Unset, shm_sel |-> 0]

\* Reads change nothing; these end in a panic.
ReadPanics(virtio, reg) ==
  \/ reg = "DeviceFeatures" /\ virtio.features_sel \notin Words
  \/ reg = "QueueReady" /\ virtio.queue_sel \notin Queues
  \/ reg = "Shm" /\ virtio.shm_sel \notin Shms
  \/ reg = "Unknown"

\* The writes that return.
WriteAccepted(virtio, reg, value) ==
  CASE reg = "DriverFeatures" -> virtio.driver_features_sel \in Words
    [] reg \in {"QueueNum", "DescLow", "DriverLow", "DeviceLow"} ->
         virtio.queue_sel \in Queues
    [] reg = "QueueReady" -> virtio.queue_sel \in Queues /\ value \in {0, 1}
    [] reg = "InterruptAck" -> value = 1
    [] reg = "Status" -> value \in AcceptedStatus
    [] reg = "AddressHigh" -> value = 0
    [] reg = "Unknown" -> FALSE
    [] OTHER -> TRUE

SetFailed(virtio) == [virtio EXCEPT !.status = @ \cup {FAILED}]

Written(virtio, reg, value) ==
  LET q == virtio.queue_sel IN
  CASE reg = "DeviceFeaturesSel" -> [virtio EXCEPT !.features_sel = value]
    [] reg = "DriverFeaturesSel" -> [virtio EXCEPT !.driver_features_sel = value]
    [] reg = "DriverFeatures" ->
         IF value
         THEN [virtio EXCEPT !.driver_features = @ \cup {virtio.driver_features_sel}]
         ELSE SetFailed(virtio)
    [] reg = "QueueSel"   -> [virtio EXCEPT !.queue_sel = value]
    [] reg = "QueueReady" -> [virtio EXCEPT !.readies[q] = value = 1]
    [] reg = "Status"     -> [virtio EXCEPT !.status = value]
    [] reg = "DescLow"    -> [virtio EXCEPT !.desc_addrs[q] = value]
    [] reg = "DriverLow"  -> [virtio EXCEPT !.driver_addrs[q] = value]
    [] reg = "DeviceLow"  -> [virtio EXCEPT !.device_addrs[q] = value]
    [] reg = "ShmSel"     -> [virtio EXCEPT !.shm_sel = value]
    [] OTHER -> virtio
=============================================================================
