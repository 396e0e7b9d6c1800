# TLA+ models of tiny-rv32ima-sim

Models, model-checking runs and proofs for the simulator in `src/`: a
single-hart RV32IMA machine with a PLIC, a UART, VirtIO network and graphics
devices, Sv32 paging and M, S and U mode, which boots OpenSBI and Linux.

Tools: SANY and TLC for the runs, tlapm with Z3, Zenon and LS4 for the proofs.
`tlc -config X.cfg M` runs one check; `tlapm M.tla` proves one module.
`PROJECT.json` lists the runs, the mutants (a plausible bug for every property,
which TLC finds), the source lines behind every definition, the hazards and the
theorems.

## 1. Inventory

| Part | Source | State | Operations | Talks to |
|---|---|---|---|---|
| Trap and CSR core | `csr.rs` | mstatus, mip, mie, mideleg, medeleg, tvecs, epcs | CSR read and write, `resolve_pending`, `can_external_interrupt`, `handle_trap`, `handle_mret`, `handle_sret` | CPU calls it; PLIC and CLINT set bits of mip |
| Step and run loop | `cpu.rs`, `simulator.rs` | pc, prv, registers, fault_addr, reserved_addr | one loop: `tick`, check, `step`, `progress_*` | bus, CSRs |
| Translation and TLB | `cpu.rs`, `tlb.rs` | satp, TLB | `translate_va`, SFENCE.VMA | reads page tables through the bus |
| PLIC | `bus/plic.rs` | priorities, pending, enables, thresholds, one latch | register read and write, `raise_interrupt` | lines into mip; `prepare_interrupt` reads the latch |
| UART | `bus/uart.rs` | IER, IIR, LSR, RBR, input_buf, two flags | register read and write, `tick`, `take_interrupt` | host terminal; bus queues its irq |
| Bus | `bus.rs` | devices, irqs_to_raise | `read`, `write`, `tick`, `prepare_interrupt` | everything |
| CLINT, timers, counters | `bus/clint.rs`, `csr.rs` | mtimecmp, stimecmp, time, cycle, instret | stores, `progress_time`, `progress_instret` | bits of mip |
| VirtIO transport, net, gpu | `bus/virtio_*.rs` | registers, last_idxes, resources | register protocol, notify, tick, reset | rings in guest memory; host channels |
| Memory | `memory.rs` | bytes | read, write, raw views | CPU, devices |
| Host side | `host_device*`, `native.rs`, `wasm.rs` | channels, window, TAP | threads that send and receive | devices |
| Loading | `simulator.rs`, `elf.rs`, `main.rs` | - | set-up before the loop | - |

What is hard here, and makes each part correct:

- **Interrupt delivery.** The run loop looks at devices only when a gate is
  open, queues device irqs, raises one per tick, searches the PLIC only then,
  keeps ONE latch for two contexts from the raise to the completion, and
  unwraps it in two places. Correct means: no unwrap fails, no device is
  forgotten, nothing overtakes a service, a line drops with its service.
- **The UART.** One identification register gates reception, and three
  operations that know nothing of each other rewrite it. Correct means: no
  character overwritten, duplicated or silently lost.
- **Traps.** One frame of CSRs per level must behave like a stack of
  interrupted contexts; the gates must keep critical sections closed, and
  privilege may rise through the vectors only.
- **Translation.** A direct-mapped TLB shared by all modes and kinds of
  access, tagged with the privilege only, must agree with the page tables
  whenever the kernel has fenced.
- **Timers and counters** are 64-bit values written in halves while they run.
- **VirtIO rings** have wrapping 16-bit indices in memory the guest shares, and
  a reset in the middle of anything.
- **Host threads** feed channels; their end must not stop the guest.

There is one thread of execution inside the simulator: the concurrency is
between the loop's phases, the devices, the host's messages, and the threads
and handlers of the guest. Nothing is persisted, so there is no crash recovery.

## 2. Modules

    CsrOps --- Plic --- PlicService --- PlicProofs
       |         \
       |          InterruptPath (Plic + Uart + bus + hart gates + a guest)
       |         /      \--- InterruptPathProofs
       |      Uart --- UartService --- UartProofs
       |--- Hart --- HartProofs
       |      \--- TrapFrames --- TrapFramesProofs
       |               (implements TrapStack)
       |--- Mmu --- MmuProofs
       \--- Timers --- TimersProofs

    VirtioMmio --- VirtQueues --- VirtioNet ---\
                        \-------- VirtioGpu ---- VirtioService --- VirtioProofs
                                                 (implements BufferQueue, per queue)

`MC<Module>` gives TLC its instances; a `.cfg` is named after its run.

- **CsrOps**: the operators of `csr.rs` that everything shares. mip, mie and
  mideleg are sets of bit positions, mstatus a record. No variables.
- **Plic**: `plic.rs` and the part of `bus.rs` that drives it, one action per
  register and operation. `find_interrupt_active` keeps the LAST eligible pair
  of its loops (it compares a priority with a threshold only), and `IsLast`
  says so. `panic` records an unwrap that failed.
- **PlicService**: any guest on the PLIC, with ghosts of what it is serving and
  whether it kept to claim, then complete.
- **Uart**: the registers with an effect; characters are values; `input_buf` is
  popped from its end, as in the code. **UartService** numbers the characters
  the host types and follows each with ghosts.
- **InterruptPath**: `Bus::tick`, the irq queue, the check and one instruction
  per iteration, composed with Plic and Uart, the gates of CsrOps, and a guest
  kernel. The kernel is not in the repository: its handler does what the Linux
  PLIC and 8250 drivers do (claim, serve, complete until the claim is 0), its
  threads do what `GuestOps` allows, in any order. The network device is its
  interrupt and a flag for unseen completions.
- **Hart**: the loop as four phases with every control-flow and CSR instruction
  an action, under arbitrary software. Comparators and external lines are
  inputs limited by `DeviceBits`.
- **TrapStack**: what traps and returns promise: push and pop whole contexts.
  **TrapFrames**: Hart under handlers that leave their own frame in place, do
  not enable their own level again and do not fault into it; it refines
  TrapStack, its stack being read off the CSRs and two ghosts.
- **Mmu**: `translate_va` and the TLB, with the kernel's stores to its tables,
  satp, SUM, MPRV and SFENCE.VMA. Tables have `Size` entries instead of 1024,
  an address is its two indices. `Allows` and `Target` are Sv32 written
  independently of the walk, for `WalkIsSv32`.

- **Timers**: `csr.rs` and `clint.rs`: one action is one turn of the run loop
  from its instruction on. A 64-bit value is a number with halves of `Half`
  values. The guest's `task` is the middle of what it needs three instructions
  for: writing a comparator (low all ones, high, low) or reading a counter
  (high, low, high again until both agree). `armed` is the deadline it meant.
  `suppress_minsret` never outlives an instruction, so it is part of the action.
- **VirtioMmio**: the register file as a record, which accesses return, and what
  they leave. **VirtQueues**: what both devices have in common, their cursors
  `last_idxes`, the rings in guest memory, the channels to the host, and `Serve`,
  the effect of returning the next n buffers. Guest memory is the driver's
  current allocation `gen`: a register that points elsewhere is a device led
  astray, and the model stops there as the code does or worse.
  **VirtioNet** and **VirtioGpu** are the two devices, an action for every way
  out of `tick`, `handle_notify` and `reset`; the graphics device runs all waiting
  commands in one call, which is a fold over them (`Run`).
- **BufferQueue**: what a queue promises a driver. **VirtioService**: one of the
  devices, a driver and the host thread. The driver is not in the repository; it
  does what Linux does (set-up access by access, offers, notifications that may
  be late, a handler that acknowledges and collects). Once per set-up it may go
  astray: a register out of its range, a queue nobody offered anything on, an
  address taken back, a command the device does not know. The device then may
  stop or not; a reset has to repair it. That is the fault model.

How state corresponds: variable names are the fields' (`interrupting_irq`,
`is_taken_interrupt`, `threasholds`, ...). Panics (`unwrap`, `unreachable!`,
`todo!`) on paths the models cover set `panic` and stop; `unimplemented!()` for
sizes and registers without a meaning are not inputs.

## 3. Runs

| Run | Question | Instance | States |
|---|---|---|---|
| plic | any register access in any order | 3 irqs, context 1 | 135 thousand |
| plic_two_contexts | does SEIP imply a latched irq? **no** | both contexts | |
| uart | any register access while the host types | 4 characters | 16 thousand |
| path | delivery end to end, masking and reconfiguring | 2 characters, 1 packet, 1 sent character | 1.9 million |
| path_receive | nothing lost, everything eventually read | 3 characters, 1 packet | 3 thousand |
| path_stranded | is a deliverable irq raised? **no** | 1 character, 1 packet | |
| hart | enables, privilege and alignment under any software | 8-byte address space, odd statuses, misaligned values | 2.4 million |
| trap_frames | traps are a stack | nested S and M traps | 0.6 million |
| mmu | TLB, walk, confinement | 2-entry tables, 2-slot TLB, 2 edits | 0.5 million |
| virtio | queues, resets, stray accesses, host threads that end | queues of 2, indices modulo 4, 2 set-ups | 1.7 million |
| timers | halves against a running clock | halves of 2 bits, 3 deadlines | 2.7 million |
| mmu_store | are stores checked? **no** | as mmu, no edits | |

What the passing runs show:

- `ClaimAccounted`, `CompletionFindsLatch`, `LinesFollowLatch`,
  `ForgottenOnlyByClaim`: with one context, the single latch is good enough for
  a driver that serves one interrupt at a time, whatever it reconfigures.
- `NoOverrun`, `NoDuplicate`, `LossOnlyByTransmit`: the only way to lose a
  character is to acknowledge or disable a transmit interrupt while one waits
  in RBR; `lower_interrupt` then rewrites LSR. That loss is real.
- `NoPanic`, `ServiceKeepsLatch`, `Remembered`, `LineOnlyDuringService`: because
  SIE is clear in the handler and the gate of `Bus::tick` reads the same bit,
  nothing is raised between a claim and its completion. `NoPanic` holds as long
  as context 0 is never enabled. `Remembered` has two halves: the irq of a device
  that wants service is queued or pending whatever is masked; that it is also
  latched with its line up needs a guest that never masked, because an empty tick
  drops SEIP (`bus.rs:196`) and nothing raises it again (`path_stranded`).
- `NothingLost`, `EveryCharRead`, `EveryCompletionSeen`: every character the host
  typed is read, from the tick it arrives in, be it buffered or pushed at once.
  The guest of this run opens and closes its interrupts, prints nothing and masks
  nothing. See fairness below.
- `CriticalSection`, `Isolation`, `GatedEntry`, `StaysAligned`,
  `ImplementsTrapStack`: section 5.
- `QueuesImplement`: each queue, read off the two rings and the two cursors
  (`Waiting`: offered and not taken; `Returned`: served and not collected), is a
  BufferQueue: order kept, nothing lost, nothing twice, across the wrap of the
  indices and across resets. `ReceivedInOrder`, `TransmittedOnce` follow the
  packets through it. `tick` takes a packet off the channel before it looks for
  a buffer, so what arrives without one is lost; `LostOnlyWithoutBuffer` says
  that nothing else is.
- `DriverNeverPanics`: a driver that keeps to the protocol stops the simulator by
  no access, also when it is set up over a device that went astray before. Two
  stops remain: a host thread that ended (`send_to_host` is unwrapped) and
  a packet larger than the buffer.
- `ReturnIsSignalled`: there is one interrupt request for a whole batch, and
  buffers returned while the handler runs are collected by it or announced
  again.
- `DeviceFollowsDriver`: the resources and pages the device holds once it has run
  the commands that wait are those the driver believes in, and a flush reaches
  the host while the host shows that resource.
- `TimerExact`: with the three writes of the guest, the pending bit of a
  comparator is up from the turn its deadline passes, not before, and never for
  the mixture of an old and a new half. `PendingSurvivesTimers`: the software and
  external bits survive a write of a comparator, wherever it moves it; excepted is
  only the high half of mtimecmp moved to the past, which `csr.rs:575` gets wrong.
  `NoTornRead`: the value read is between the counter at the start of the read and
  at its end; read through MINSTRET and MINSTRETH, as long as the counter has not
  reached bit 31 (`Whole`), which the shift of 31 shows in both halves.
- `TlbSound`, `UserConfined`, `WalkIsSv32`: after a fence, entries are what a walk
  finds; the walk is Sv32; user accesses reach U pages only, and a mode below M
  uses its own translation, whatever MPRV was. Nothing is assumed of the tables.
  The code leaves Sv32 in two ways, and the two properties name them instead of
  assuming them away:
  - `Strays`: a leaf at the upper level that lacks the permission an access needs
    is not refused but followed as a pointer (`cpu.rs:218-265`: the leaf test is
    inside the permission test), so the data of the superpage's first frame is
    read as a table. With a kernel's linear map of superpages that are not
    executable, as Linux with STRICT_KERNEL_RWX has it, a fetch in user mode from
    such an address is translated to whatever frame that data names, if it looks
    like a page with the U bit. The confinement of user mode does not hold there;
    that is the second disjunct of `UserConfined`, which the run needs: without it
    TLC finds the state.
  - `KernelFetch`: S mode fetches from user pages, when SUM is set or the page is
    execute-only (`cpu.rs:234`).

Expected violations, each a finding in `PROJECT.json`:

- `DeliverableIsRaised`: the comment at `plic.rs:203` against a search that
  runs only when an irq is raised. Enabling an irq that is pending strands it, and
  so does masking SEIE while an irq is raised: the next empty tick takes SEIP away.
- `SeipBacked`: raise for context 1, raise for context 0, complete: SEIP is up
  and the latch empty; taking it is the unwrap at `bus.rs:219`.
- `StoreChecked`: the permission check of `cpu.rs:225` is skipped by a TLB hit.

Met while modelling, without a run of their own: the superpages of `Strays` and
the fetches of `KernelFetch`, above; the comment at `cpu.rs:241` says that S mode
faults on a user page when SUM is 1, the code does when it is 0; `csr.rs:297` claims that direct writes of
MEIP and MTIP are ignored (they are cleared: mip becomes the value masked with
SEIP and SSIP); `uart.rs:12` calls bit 0 of IER the enable of reception while
reception is gated by bit 2; `csr.rs:312` shifts ADUE by 31 into a bit that is
not the one `is_svadu_enabled` reads, so A and D are never updated by hardware
although the README lists Svadu; `MINSTRETH_POS` is 31 although the
comment at `csr.rs:179` puts minstreth at bits 32 to 63 and INSTRETH reads them
there, so a read through MINSTRETH is not whole once bit 31 is set;
`set_mtimecmph` (`csr.rs:575`) masks mip with MTIP instead of setting it,
so SSIP, SEIP and MSIP are lost; `virtio_mmio.rs:181` accepts four values of
status, so a driver that reads FAILED back and adds a bit to it stops the
simulator; `virtio_gpu.rs:464` lets `scanout_id` 1 pass to an array of one;
`virtio_gpu.rs:591` panics for RESOURCE_UNREF, which a driver sends when it frees
a frame buffer; `virtio_gpu.rs:590` reads 0x1101 as a command.

### Bounds

`MaxTyped`, `MaxPackets`, `MaxTx`: what the host and guest send in one
behaviour. Three irqs are enough for two to wait behind a latched one; two
characters for one to wait in the buffer while the other is in RBR (four in
`uart`). `MaxQueue` stops threads from accessing a device while that many irqs
are queued: the code has no bound, and each entry costs one tick. `XlenSize` of
8 and 32 keeps pc + 4 wrapping and a vectored slot (4 * 9) folded into it; no
property but StaysAligned and GatedEntry reads addresses. Two table entries, two
TLB slots and four pages make every page collide with another, and mapping,
pointer and off-map frames appear at both levels; the superpages allow
everything, or lack execution over data that looks like an executable user page. `MaxEdits` = 2 allows an edit before
and after a fence. Entry point 2, which no shipped configuration uses, is there
because `set_entry_point` accepts it and it is the one way to `FetchPanic`.

`virtio`: two slots per queue and indices modulo 4, so that the rings wrap, and the
indices of the receive and control queues with them (the two frames of a run do
not wrap the indices of the transmit queue; `FramesSentOnce` covers that); two
set-ups, so that one
follows a reset; two packets in the channel and four in all, the fourth too large
for a buffer; a backing of three pages, more than the screen; one resource.
`timers`: the clock stops at 9, after two carries into the high half, with
deadlines before, between and after them.

`CHECK_DEADLOCK FALSE` is set where the simulator really may stop with a panic, or
the clock at its bound.

### Fairness

Only `path_receive` has liveness. `FairSpec` is weak fairness of `Next` as a
whole: the loop in `Simulator::run` never waits. Nothing is assumed of guest
threads; the handler is a straight line of instructions, so the loop's fairness
runs it. `GateOpensOften` is a hypothesis inside the properties, not part of
the specification: a guest that keeps its interrupts off for ever reads nothing.

## 4. Mutants

Operators commented "Mutant" are plausible bugs of a definition (a dropped
guard, a missing reset, the wrong order). Replacing the definition by its
mutant must break the property `PROJECT.json` names. They are used for nothing
else.

## 5. Proofs

Every invariant and every action property of the passing runs, and both
refinements, are theorems, for every value of the constants that satisfies the
modules' assumptions. What is left to TLC is named at the end of this section.

- **HartProofs**: `TypeCorrect` (TypeOK is inductive), `AlignmentIsNeverLost`
  (no step takes pc, mepc or sepc from aligned to misaligned: every source of a
  pc is masked, checked, or an old pc plus 4 modulo a multiple of 4) and
  `FetchStaysAligned` (so they stay aligned if entry points are). The work is in
  `HandleTrap`, proved once as a lemma for any trap. `CriticalSectionsHold`,
  `IsolationHolds`, `EntryIsGated` are action properties from the type
  invariant, one step per action. The gate `Open` is the hinge of the first:
  with SIE clear in S mode it is open only if no active bit is delegated, so the
  trap goes to M mode.
- **TrapFramesProofs**: `FramesStayConsistent` (FramesConsistent with typing and
  alignment is inductive: a live M frame means M mode with MIE clear, a live S
  frame under it means MPP is S) and `HartImplementsTrapStack`: Init maps to
  Init, every step maps to Run, Enter, Adjust, Leave, Launch or a stutter.
- **PlicProofs**: `PlicTypeCorrect`, `NoPhantomClaim`, `CompletionNeverPanics`,
  `NothingForgotten` for any irqs, contexts and guest; `OneContextLines` and
  `OneContextBacked` with one context. The strengthening relates the latch's
  two halves (irq and context are set and cleared together) and the serving
  set; `OneContextBacked` is the exact complement of the violation: what two
  contexts break, one guarantees.
- **InterruptPathProofs**: six layers, each inductive given those before it.
  `Shape` is the type of the whole state (`PathTypeCorrect`). `HandlerInv`: a
  handler runs in S mode with SIE clear, and between claim and complete the
  latch is its irq's (`LatchKeptDuringService`); it is inductive because with SIE
  clear both gates are closed, the bus's and the hart's (`ClosedGates`), so
  `Bus::tick` returns before `raise_interrupt`, which is where the PLIC latches. `LatchInv`:
  without context 0 the one line is SEIP and a raised line has a full latch
  (`PathNeverPanics`). `WayInv` and `DeviceInv`, while nothing was masked:
  between the bus and the claim there is at most one interrupt, pending, latched
  and with its line up, in the iteration that takes it; a device that wants
  service has its irq queued, or has the latch and a handler that has not looked
  at it yet (`LineFollowsService`, `DevicesRemembered`). `KeptInv` is the half of
  the latter that holds whatever is masked: only the claim takes an irq out of the
  pending ones, and the handler it starts has yet to look. `ReceiveInv`: with
  transmission off, DR implies that IIR says RDA, so only a read of RBR empties
  it (`NothingTypedIsLost`).
- **UartProofs**: `TypeOK /\ NoOverrun /\ PlaceInv` is inductive. `PlaceInv` says
  that the buffer holds no character twice, that buffer, RBR and what was read are
  disjoint, and that they hold numbers up to the last one typed; without it a pop
  of the buffer could deliver what was read before. It gives `UartTypeCorrect`,
  `GateKeepsRbr`, `OnePlaceEach`, and the action property `OnlyTransmitLoses`.
- **MmuProofs**: `MmuTypeCorrect` and `TlbIsACache`, for tables and a TLB of any
  size and any contents. A walk reads the tables and satp only, so an entry stays
  what a walk finds until one of these is stored to, which ends `fenced`; an entry
  is registered with what the walk just returned. `WalkMatchesSv32` compares the
  walk with the independent definition for all tables and all three kinds of
  access, case by case; `UserIsConfined` follows from the same comparison and from
  `TlbIsACache`: an entry tagged with user mode is what a walk for user mode
  finds, for some kind of access. Both exceptions are in the statements; no
  hypothesis on the tables is left.
- **TimersProofs**: `TimersTypeCorrect`; `OthersStayPending`, an action property;
  `TimersAreExact`, whose invariant (`CompareInv`) says what a half-written
  comparator is: the old high half, then the new one, with a low half of all
  ones, so above the old deadline, then above the new one; it rests on lemmas
  about numbers in halves for any width. `CountersReadWhole`: a counter never goes
  back, so when the high half is still the one read first, the low half read
  in between belongs to it (`ReadInv`).
- **VirtioProofs**: lemmas on indices that wrap (`Extended`, `Shortened`: a
  stretch of at most QueueSize entries behaves like a sequence) for any ring size
  that divides the range of the indices; `Shape` (`VirtioTypeCorrect`), in which
  `HeldOnce` says that no buffer the driver gave away is held twice or is free,
  so by counting (`Room`) a driver with a free descriptor has a free slot;
  `QueuesAreBufferQueues`, each step of device, driver and host mapped to one
  step of BufferQueue or a stutter; `ReturnsAreSignalled`; `OnlyUnbufferedIsLost`,
  `PacketsInOrder` (`OrderInv`: read, returned and in the channel are in the
  order sent), `FramesSentOnce` (`SendInv`); `DeviceKeepsUp` and
  `DriverIsNeverRefused`. For the graphics device the whole batch of a
  notification runs in one step, so `GpuInv` speaks of the sequence of states its
  loop passes through: it leads to the driver's state, or it ends in the last
  command, of a driver that went astray. That the fold over the
  commands has such a sequence is shown by induction on the number of commands,
  as the absence of a least counterexample in Nat. `InStep` relates the
  registers to the driver's place in its set-up.

Hypotheses beyond the modules' assumptions:

- `OneContextLines`, `OneContextBacked`: one PLIC context is in use. `NoPanic`
  carries the same condition inside (`~both`); `path` also enables context 0, and
  there the condition is what stops it from failing.
- `NothingTypedIsLost`: the guest does not write IER or print
  (`NoTransmission`), as in `path_receive`. With transmission a character
  can be lost; `LossOnlyByTransmit` says where.
- `CountersReadWhole`: besides `Whole`, inside the property, for MINSTRETH: the
  guest does not write instret, or writes no half
  from which the counter could reach its end within the execution (`Roomy`). A
  guest that sets it to nearly 2^64 and reads it while it wraps does see a torn
  value. The run `timers` is not an instance of `Roomy`; there the clock stops
  before a read can meet a wrap. For the clock and the cycle counter
  `ClockReadWhole` needs no hypothesis.
- `FetchStaysAligned`, `FramesStayConsistent`, `HartImplementsTrapStack`: aligned
  entry points.
- `DeviceFollowsDriver`: the host thread runs and the driver keeps to the
  protocol, inside the property.

Assumptions on constants: page size, ring size, width of a half and the other
sizes are positive numbers that divide what they must; PathContextsAssumption
(context 1 exists, and context 0 if threads may enable it), FrameSizeAssumption
and PageListsAssumption (pages are numbers) type constants the provers
need typed. All are named and TLC evaluates them in the runs.

Only model-checked: the liveness properties `EveryCharRead` and
`EveryCompletionSeen` of `path_receive`, since fairness and ENABLED are out of the
prover's reach; and the three expected violations, which are counterexamples.

## 6. Not modelled

Arithmetic and register data; bytes of memory and device payloads; loading
(it runs before the loop); the wasm glue (`Simulator::step` is the same loop body,
characters come from a queue instead of a channel, sends cannot fail). MXR is
rejected by the code with a panic. Frame numbers beyond 32-bit addresses lose
bits in the code and are not inputs. menvcfg, scratch and cause registers are
data.

LR/SC: `reserved_addr` is a virtual address that only an SC clears. Whether a
reservation that survives a trap, a change of address space or a store does harm
is decided by the guest; Linux drops it by an SC on its way out of a trap.
An AMO is its load and its store (Mmu): the load registers the TLB entry that the
store then hits, so the store cannot fault after rd was written.

VirtIO descriptors: chains are one identifier, and a buffer that overlaps
another or a ring is not an input. The devices trust what they read there.

## 7. Plan

Done: all modules above, their runs, and a theorem for every safety and action
property a passing run checks.

Left: lemmas that give the graphics loop its own module-level statement
(what `Run` computes for any list of commands, without a driver), a theorem that
`NoPanic` with context 0 fails in no other way than the one
`plic_two_contexts` shows, and properties for the hazards of `PROJECT.json` that
have none because nothing in the repository promises anything about them.
