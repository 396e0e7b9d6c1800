---------------------------- MODULE BufferQueue ----------------------------
(***************************************************************************)
(* What a virtual queue promises to a driver: buffers are served in the    *)
(* order they were offered, each once, and come back in that order.  A     *)
(* reset gives all of them back at once.                                   *)
(***************************************************************************)
EXTENDS Naturals, Sequences

CONSTANT Buffers

VARIABLES
  offered,   \* buffers the device has
  completed  \* buffers the device has served and the driver not collected

vars == <<offered, completed>>

Held == {offered[k] : k \in DOMAIN offered} \cup {completed[k] : k \in DOMAIN completed}

Init == offered = <<>> /\ completed = <<>>

Offer(b) ==
  /\ b \notin Held
  /\ offered' = Append(offered, b)
  /\ UNCHANGED completed

Serve(n) ==
  /\ completed' = completed \o SubSeq(offered, 1, n)
  /\ offered' = SubSeq(offered, n + 1, Len(offered))

Collect ==
  /\ completed # <<>>
  /\ completed' = Tail(completed)
  /\ UNCHANGED offered

Reset == offered' = <<>> /\ completed' = <<>>

Next ==
  \/ \E b \in Buffers : Offer(b)
  \/ \E n \in 1..Len(offered) : Serve(n)
  \/ Collect
  \/ Reset

Spec == Init /\ [][Next]_vars
=============================================================================
