----------------------------- MODULE VirtioGpu -----------------------------
(***************************************************************************)
(* bus/virtio_gpu.rs: the graphics device serves its control queue when    *)
(* the driver notifies.  A command is a record with the fields the code    *)
(* reads; a frame is the list of the pages it is copied from and the       *)
(* resource it belongs to.  Scanouts are stored and never read; they are   *)
(* left out.                                                               *)
(***************************************************************************)
EXTENDS VirtQueues

CONSTANT FrameSize   \* how many pages SUPPORTED_RECT is long

ASSUME FrameSizeAssumption == FrameSize \in Nat

VARIABLE resources   \* HashMap: a function from the ids of resources to their pages

CONTROL == 0

\* Commands; a resource id is a positive number.
GetDisplayInfo   == [op |-> "GetDisplayInfo"]
Create2D(r)      == [op |-> "Create2D", res |-> r, format |-> 2]
Attach(r, pages) == [op |-> "AttachBacking", res |-> r, pages |-> pages]
SetScanout(r)    == [op |-> "SetScanout", res |-> r, scanout |-> 0]
Transfer(r)      == [op |-> "Transfer", res |-> r]
Flush(r)         == [op |-> "Flush", res |-> r]

\* Commands that stop the simulator: another format, a scanout past the
\* array (the check lets the first such through), a rectangle that is not the
\* screen, a chain without the descriptors the command needs, and what
\* From<u32> does not know, RESOURCE_UNREF for one.
Unsupported ==
  { [Create2D(1) EXCEPT !.format = 1], [SetScanout(1) EXCEPT !.scanout = 1],
    [op |-> "PartOfScreen"], [op |-> "ShortChain"], [op |-> "ResourceUnref"] }

-----------------------------------------------------------------------------
\* The pages a transfer copies: in order, cut at the size of the screen.
Cut(pages) == SubSeq(pages, 1, IF Len(pages) < FrameSize THEN Len(pages) ELSE FrameSize)

Refused(cmd, known) ==
  \/ cmd.op \in {"PartOfScreen", "ShortChain", "ResourceUnref"}
  \/ cmd.op = "Create2D" /\ cmd.format # 2
  \/ cmd.op = "SetScanout" /\ cmd.res # 0 /\ cmd.scanout # 0
  \/ cmd.op \in {"AttachBacking", "Transfer"} /\ cmd.res \notin DOMAIN known

Created(known, cmd) ==
  [r \in DOMAIN known \cup {cmd.res} |-> IF r = cmd.res THEN <<>> ELSE known[r]]
Attached(known, cmd) == [known EXCEPT ![cmd.res] = @ \o cmd.pages]

\* Resources after a command, and the messages it sends to the host.
Changed(known, cmd) ==
  CASE cmd.op = "Create2D"      -> Created(known, cmd)
    [] cmd.op = "AttachBacking" -> Attached(known, cmd)
    [] OTHER -> known

Messages(known, cmd) ==
  CASE cmd.op = "Transfer" ->
         <<[op |-> "Copy", res |-> cmd.res, pages |-> Cut(known[cmd.res])]>>
    [] cmd.op = "Flush" -> <<[op |-> "Flush", res |-> cmd.res]>>
    [] cmd.op = "SetScanout" /\ cmd.res = 0 -> <<[op |-> "Disable", res |-> 0]>>
    [] OTHER -> <<>>

\* One turn of the loop; sent is what it sent so far.
Executed(state, cmd) ==
  IF state.stop # "none" THEN state
  ELSE IF Refused(cmd, state.known) THEN [state EXCEPT !.stop = "command"]
  ELSE IF host = "gone" /\ Messages(state.known, cmd) # <<>>
       THEN [state EXCEPT !.stop = "host"]
  ELSE [known |-> Changed(state.known, cmd),
        sent  |-> state.sent \o Messages(state.known, cmd),
        stop  |-> "none"]

Begin == [known |-> resources, sent |-> <<>>, stop |-> "none"]

\* The loop over the commands that wait.
Run(commands) == FoldLeft(Executed, Begin, commands)

WaitingCommands == Contents(CONTROL, Waiting(CONTROL))

-----------------------------------------------------------------------------
\* Mutant: reset forgets the resources.
GpuResetKeepsResources ==
  /\ virtio' = New("Gpu")
  /\ last_idxes' = Zero
  /\ UNCHANGED resources

\* VirtioGpu::reset.  The host keeps what it shows.
GpuReset ==
  /\ virtio' = New("Gpu")
  /\ last_idxes' = Zero
  /\ resources' = <<>>

GpuNotifyIdle(q) ==
  /\ q = CONTROL /\ virtio.driver_addrs[q] = gen
  /\ avail[q].idx = last_idxes[q]
  /\ UNCHANGED <<queueVars, resources>>

GpuNotifyPanic(q) ==
  /\ \/ q # CONTROL /\ Stop("access")
     \/ q = CONTROL /\ virtio.driver_addrs[q] # gen /\ Stop("ring")
     \/ /\ q = CONTROL /\ virtio.driver_addrs[q] = gen /\ Waiting(q) # <<>>
        /\ ~(RingsAt(q) /\ DescriptorsAt(q))
        /\ Stop("ring")
     \/ /\ q = CONTROL /\ RingsAt(q) /\ DescriptorsAt(q) /\ Waiting(q) # <<>>
        /\ \E why \in {"command", "host"} : Run(WaitingCommands).stop = why /\ Stop(why)
  /\ UNCHANGED resources

\* VirtioGpu::handle_notify: every waiting command, in one call.
GpuServe(q) ==
  /\ q = CONTROL /\ RingsAt(q) /\ DescriptorsAt(q) /\ Waiting(q) # <<>>
  /\ Run(WaitingCommands).stop = "none"
  /\ resources' = Run(WaitingCommands).known
  /\ outbox' = outbox \o Run(WaitingCommands).sent
  /\ Serve(q, Len(Waiting(q)))
  /\ Interrupting
  /\ UNCHANGED <<virtio, gen, avail, desc, inbox, host, panic>>

GpuNotify(q) == GpuNotifyIdle(q) \/ GpuNotifyPanic(q) \/ GpuServe(q)
=============================================================================
