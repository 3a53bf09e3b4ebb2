# A verification of the QEMU-VCS co-simulation platform

TLA+ models of the platform in this repository, TLC configurations that check
them on small instances, and TLAPS proofs of the properties that hold for every
instance. Paths below are relative to the repository root.

The platform runs a guest in QEMU against a device simulated in RTL. A PCIe
root-complex device in QEMU (`qemu-plugin/`) turns guest accesses into TLPs and
hands them to a bridge library (`bridge/qemu/`); a second bridge library
(`bridge/vcs/`), called from the simulator through DPI, gives them to a
SystemVerilog testbench (`vcs-tb/`) and carries completions, DMA and interrupts
back. The two libraries talk through rings in shared memory (`bridge/common/`)
and a socket that says when to look, or over TCP. A second shared memory
(`bridge/eth/`) joins two such simulations by an Ethernet link.

```
 guest driver        QEMU                               simulator
 ------------   ----------------                   -------------------
 MMIO, config -> vCPU: send_tlp   --req ring-->     poll_tlp -> endpoint
             <-  wait_completion  <--cpl ring--     send_completion
 memory      <-> poller thread    <--dma rings-->   dma_*_sync, virtqueues
 INTx line   <-  BH <- queue <- poller <--msi ring- raise_msi
                                                    eth_port <-> other node
        (socket: TLP_READY, CPL_READY, DMA_CPL, VF_EVENT, SHUTDOWN, ...)
```

## 1. Inventory

Every component, its state, its operations, what is hard about it and what
makes it correct. The same list, with status, is `components` in `PROJECT.json`.

| Component | State | Operations | Interacts by | Hard behaviour | Correct when |
|---|---|---|---|---|---|
| Ring buffer, `bridge/common/ring_buffer.c` | head, tail, slots | enqueue, dequeue, counts | shared memory between two processes | copies of one side overlap steps of the other; wrap-around | it is a bounded FIFO of whole elements |
| QEMU bridge, `bridge/qemu/bridge_qemu.c`, `sock_sync.c` | next tag, rings, socket | send_tlp, wait_completion, VF event, destroy, query topology, mode switch, advance clock | rings and notifications | notification apart from its entry; stale completions; tag reuse; a peer that dies | a read returns, and returns its own completion |
| Poller thread, `bridge/qemu/irq_poller.c` | stop flag | serve DMA, take MSI events | callbacks into the QEMU device | runs beside vCPUs and the main loop; join before unmap | no DMA is reported that was not done |
| Simulator bridge, `bridge/vcs/bridge_vcs.c` | pending notifications, TLP cache, DMA tags | poll_tlp, send_completion, dma_\*_sync, raise_msi, poll_vf_event | DPI calls from the testbench | DMA waits take other messages off the socket; time-outs leave late replies | no notification is lost, no reply goes to another call |
| Root-complex device, `qemu-plugin/cosim_pcie_rc.c` | MSI queue, bottom half | MMIO and configuration accesses, DMA and MSI callbacks, exit | QEMU's memory API, bottom halves | queue shared by two threads; level-triggered line | no interrupt is lost or stuck |
| PF and VF devices, `cosim_pcie_pf.c`, `cosim_pcie_vf.c` | SR-IOV state, MSI-X queue | config write, VF enable and disable | VF events to the simulator | event against configuration accesses | simulator and QEMU agree on the VFs |
| Testbenches, `vcs-tb/tb_top.sv`, `cosim_vip_top.sv`, `pcie_ep_stub.sv` | ISR bit, registers, process positions | poll loop, notify, RX poll, ISR read | DPI, signals | concurrent processes; a set and a clear in one clock | as for the interrupt path |
| Virtqueues, `bridge/vcs/virtqueue_dma.c` | last_avail, last_used | configure, process_tx, process_rx | DMA to guest memory, Ethernet port | any DMA of a batch may fail; guest runs meanwhile; index wrap; guest reset | every buffer returns once, frames are neither lost nor repeated without a failure |
| Ethernet port, link model, `bridge/eth/eth_port.c`, `bridge/common/link_model.c`, `eth_shm.c` | rings, window, bursts, token bucket, node time | open, send, recv, tx_complete | shared memory between two simulations | drops, deadlines, window accounting, two creators | frames in order, windows cover the frames in flight, never both senders stuck |
| Shared-memory layout, `bridge/common/shm_layout.c` | magic, ring headers | create, open, close | two processes | opening while it is created | nobody uses an uninitialised ring |
| DMA buffers, `bridge/common/dma_manager.c`, bump offsets in `bridge_vcs.c` | next free byte | alloc, free | compare-and-swap | wrap, reuse under a late DMA | live buffers are disjoint |
| TCP transport, `bridge/common/transport_tcp.c` | three sockets | create, send and receive of each message kind | TCP | a race for the third socket; orders of several sockets; two threads on one socket | both sides use the same sockets and the pieces of one transfer meet |
| Topology handshake | number of PFs | query, answer | control messages | before any device exists | QEMU creates the devices the simulator has |
| Precise mode | mode, clock messages | advance_clock, wait_clock_step, clock_ack | socket | one socket, two readers | lock step, no message lost |
| Configuration proxy and functions, `pcie_tl_func_manager.sv`, `pcie_tl_config_proxy.sv`, `vcs-tb/cosim_rc_driver.sv` | function table, VF flags, registers | lookup, enable and disable of VFs, configuration access | VF events, TLPs | a table that changes while accesses are on their way; two numberings of VFs; writes of part of a register | accesses reach the function addressed |
| Transaction-layer VIP, `pcie_tl_vip/src/shared` | tag pools, credits, ordering queues | alloc and free tag, consume and return credit, dequeue_next | agents of several functions | limits, ordering, late completions | tags unique, credits bounded and conserved, ordering rules |
| VIP switch, `pcie_tl_vip/src/switch` | port queues, routes | route, forward | fabric | head-of-line blocking, routes | each TLP reaches its port once |

`bridge/common/trace_log.c` (writes text), `uvm-tb/`,
`vcs-tb/cosim_perf_monitor.sv` and the VIP's scoreboard and coverage (they
observe), `guest/` (a stub driver and images), `tools/`, `scripts/` (process
orchestration) and `third_party/` (vendored) keep no state of the protocol. What
else is left out, and why, is in section 5.

## 2. Modules

| Module | Models | Used by |
|---|---|---|
| `BoundedFifo` | what a ring promises: a FIFO of whole elements | abstract specification of `RingBuffer` |
| `RingBuffer` | `ring_buffer.c`: loads of head and tail, the copy word by word, the publishing store | `RingBufferProofs`, `MCRingBuffer` |
| `BridgeShm` | both bridge libraries, the poller thread and the simulator's loop in shared-memory mode | `BridgeShmProofs`, `BridgeShmQueueProofs`, `MCBridgeShm` |
| `BridgeTcp` | start-up of the TCP transport, and both bridge libraries over it | `BridgeTcpProofs`, `MCBridgeTcp` |
| `PciFunctions` | PF and VF devices in QEMU against the function manager and configuration proxy in the simulator | `PciFunctionsProofs`, `MCPciFunctions` |
| `EthLink` | `eth_port.c` and `link_model.c` for two nodes | `EthLinkProofs`, `MCEthLink` |
| `IntxPath` | interrupts from the ISR bit to the guest and back, for both testbenches | `IntxPathProofs`, `MCIntxPath` |
| `VirtqueueDma` | `virtqueue_dma.c` against a guest driver, with failing DMAs | `VirtqueueDmaProofs`, `MCVirtqueueDma` |

The modules `...Proofs` hold theorems and proofs about the module they are named
after; the modules `MC...` give it to TLC, with the mutated definitions the
properties are tested against. The components are composed by what each needs of
the other: `BridgeShm` uses rings as sequences, which `RingImplementsFifo` justifies;
`PciFunctions` keeps of the bridge the order in which it delivers messages, which
`BridgeShm` and `BridgeTcp` model; `VirtqueueDma` takes a DMA as a step that
succeeds or fails, which is what `DmaSuccessIsReal` says of the bridge.

How state and actions correspond to the code:

* **RingBuffer.** `head`, `tail` and the slots are the shared memory, in words,
  so that a copy takes `Words` steps. `EnqBegin` is the test for room (a
  thread's load of its own index, which nobody else writes, is merged with the load
  of the other's), `EnqCopy` is one word of the `memcpy`, `EnqPublish` is the releasing
  store; the dequeue alike. The acquire and release pairs make shared memory
  sequentially consistent for what the model tells apart: one producer, one
  consumer, each index written by one side. A failing call reads and returns: a
  stuttering step.
* **BridgeShm.** One caller, because MMIO runs under QEMU's big lock and
  `tlp_mutex`. `SendTlp` and `NotifyTlp` are the two halves of `bridge_send_tlp`;
  `WaitCompletion` is one round of the wait (message, dequeue, compare, drop or
  return); the poller's steps are the loop of `irq_poller.c` with `cosim_dma_cb`
  inside; `Poll*` are the branches of `poll_tlp_ctx`; `DmaReceive` and `DmaTimeout`
  are rounds of a synchronous DMA wait, which count TLP_READY for later
  (`pendingReady`) and drop what they do not know. A TLP's number stands for its
  payload, its tag is the number modulo `TagSpace`, of which the endpoint returns what
  its 8 bits hold (`EndpointTag`). `Claim` counts the completions it drops up to
  `DrainGuard`; `ahead` remembers how many there were when the TLP was sent. Every
  kind of synchronous DMA call has its own tag counter, `nextTag[k]`, from
  `FirstTag(k)` on (2000, 3000, 5000 and 6000 in `bridge_vcs.c`): the rings carry the
  numbers of the calls, `dmaTags` has their tags, and after `RangesMet` two calls may
  have had the same one. MSI events of this path are in `IntxPath`.
* **BridgeTcp.** `srv` and `cli` are the positions in `transport_tcp_create` of QEMU
  and of the simulator; `backlog` is what the kernel accepted on behalf of a
  listening socket, so that a connection can be made before, during or after the two
  seconds the server waits for aux (`AuxTimesOut`), and stays in place when its
  process dies. The simulator may be started again as another `client`. `net` has one
  FIFO per direction and socket; without aux, everything but the notifications
  shares data. A receive that finds a message of another type reads the stream at a
  wrong boundary: the stream is then in `garbled`, and its reader gets nothing
  more from it. Header and payload of a notification are two sends, and the
  vCPU and the poller thread have no lock in common, so two notifications at once
  garble ctrl (`CtrlTorn`). The simulator is one thread: a poll drains ctrl into the
  TLP cache and the VF slot, returns a cached TLP, and a DMA call waits on its own.
  `Claim` compares `Tag` (QEMU's `tag_mask`) with what the testbench's 8 bits leave of
  it (`EndpointTag`) and gives up at `DrainGuard`. A DMA's number stands for its tag:
  the byte calls of each direction count from 5000 and 6000, and the model stops short
  of the thousandth call, where the two ranges meet (`BridgeShm` has that case).
* **PciFunctions.** Function `<<p, 0>>` is PF `p`, `<<p, k>>` its k-th VF. `QemuBdf` is
  the address QEMU computes for it, `VcsBdf` the one the function manager gives it;
  `lut` is the associative array `bdf_lut`, which an enabled VF enters and a disabled
  one leaves whoever had the entry. `WriteVfEnable` and `ClearVfEnable` are the
  configuration writes that make the SR-IOV framework create or remove VFs. An event
  follows only if the write was `exact`: at the control register's own address and two
  bytes long (`cosim_pcie_pf.c:315-316`); the PF of any other is `silent` from then on,
  until an event says it has no VFs. The proxy answers configuration accesses
  (`+BYPASS_CONFIG=1`); when it is off they go to the device under test. One register
  per function stands for the space, in two halves, since QEMU sends
  the bytes written packed from the first on (`Packed`) and `handle_cfg_write_bdf` sets
  the whole register from them, ignoring offset and length
  (`pcie_tl_config_proxy.sv:307-346`): a write of the upper half lands in the lower and
  clears the upper. `wrote` is the register as the guest wrote it, `kept` the halves of
  its last write that were sent at their place. The single-function path
  (`handle_cfg_write`, lines 199-249) merges bytes by the byte enables; it is not
  modelled.
* **EthLink.** A node is a port, its link model, and the code that calls them.
  `Send` does all of `eth_port_send`, including the sequence number and link time
  used up when the ring is full. `Receive` and `Ack` are two steps of the
  receiver, and `Ack` calls `eth_port_tx_complete` on the receiver's own port, as every
  receiver here does (`eth_mac_dpi.c:48` and `:100`, `mac_stub.c:14`,
  `tools/eth_tap_bridge.c:169`, the tests' `eth_receiver.c:89`): the sender's link model
  is in another process. Tests that keep both ports in one process and acknowledge on
  the sender's are not modelled.
* **IntxPath.** `Testbenches` names the testbenches considered: `tb_top.sv` is one
  loop (`Loop*`), `cosim_vip_top.sv` two processes stepped by `VipClock`, which also
  samples the guest's read; in one clock a read and a new frame may coincide and the
  clearing assignment wins. `Cb*` is `cosim_msi_cb` on the poller thread, `Bh*` the
  bottom half, with the test, the copy and the stores in the code's order. An event
  that finds the ring or the queue full is lost, which `dropped` remembers. The used
  ring is a count of injected frames.
* **VirtqueueDma.** One action per DMA: read the avail index, read an entry, read
  or write the buffer, write the used entry, write the used index. `TxFails`,
  `TxBeginFails`, `RxFails` and the failing half of `RxEnd` are the early returns;
  a write that failed may have been carried out. The device's two calls exclude
  each other (DPI calls do not overlap in one simulator thread). Reads of a
  descriptor chain are one step because the guest leaves posted buffers alone. The
  guest driver, the link's far end and the interrupt handler are the environment.

## 3. Runs

| Run | Instance | What it shows |
|---|---|---|
| `ring` | capacity 3, elements of 2 words, 2 values | torn, overlapping, reordered or lost elements are impossible; the ring implements `BoundedFifo`; what is put is got |
| `bridge_shm` | rings of 2, 3 tags, 4 TLPs, 3 DMAs of two kinds with counters 1 apart, 1 VF event, 4 operations in all, drain guard 2, time-outs after 2 rounds, the simulator may be killed | announcements match ring contents through DMA waits; reads return, with their own completion or because the drain guard is spent; DMA results are real until two tag counters meet; a DMA fails only after one was given up; shutdown order and end |
| `bridge_narrow_tags` | 4 tags, endpoint keeps 2 | *violation*: 10-bit tags in QEMU, 8 bits in `tb_top.sv` |
| `bridge_vf_event` | 1 DMA, 1 VF event | *violation*: a VF event taken by a DMA wait is lost |
| `bridge_tcp` | old and new peers, 2 simulator processes, 3 tags, drain guard 2, a cache of 2, 4 TLPs, 2 DMAs, 1 interrupt, 1 VF event, 4 operations in all | both sides use the same sockets of one process; streams stay in step; DMA results are real; reads return with their own completion or because the drain guard is spent; interrupts arrive |
| `functions` | both transports, 1 and 2 PFs, 2 VFs each, registers of two halves, 5 guest operations with one PF and 3 with two | accesses reach the function addressed; a read finds what was written and sent in place; both programs know the same VFs; reads end. What does not hold over TCP, with two PFs, or after a control write that made no event is excepted in the property and named there |
| `functions_two_pfs` | 2 PFs with 2 VFs | *violation*: the two numberings of VFs differ |
| `eth` | rings of 2, window 2, bursts of 2, frames numbered to 5 | order and deadlines; the two windows together cover the frames under way; a blocked sender resumes with the next frame from its peer, and never are both blocked for ever |
| `eth_own_ack` | rings and window of 2 | *violation*: the sender's window still counts a frame its peer has consumed |
| `intx` | both testbenches, ring of 4, queue of 3 positions, 3 frames | no wake-up is lost, no queued event overwritten; the line follows the last accepted event; with the legacy loop no interrupt is lost and every frame is handled unless an event was dropped |
| `intx_vip_lost` | VIP testbench, 3 frames | *violation*: a late deassert hides a new frame's interrupt |
| `virtqueue` | rings of 2, indices modulo 4, 2 frames each way, 2 failing DMAs | buffers return once and after being sent; repeats and losses only by failures; everything gets through while DMA works |

**Bounds.** Rings hold at least two entries, so that empty, partly filled and full
all occur and indices wrap: `ring` wraps its three slots without bound. The
virtqueue's span is a multiple of its size as 2^16 is of every legal size; the guest's
ring positions are reused in the run, but with two frames each way the device's
counters do not come round their span of 4: that they may is `BuffersReturn`'s to
show, for every number of frames. `bridge_shm` issues four TLPs with three tags, so a
tag is reused and a read with a reused tag is answered; its drain guard of 2 is
reached by two configuration writes before a read, as 256 would reach it in the code;
a completion is lost to the full ring while a read waits; and three DMA calls of two
kinds with counters one apart bring the two tag ranges together, after which a call
is seen to take a stale reply for success, the case `DmaSuccessIsReal` excepts. In
`bridge_tcp` likewise a read is given up by the drain guard, another gets its own
completion after one was dropped, the fourth TLP reuses the first one's tag, and a TLP
finds the cache full while a read waits. It has two simulator processes, the
fewest for connections of two to be mixed up, and `MaxOps` cuts the combinations
of TLPs, DMAs, interrupts and VF events to those of four operations: every pair of
kinds, twice, still occurs. `functions` allows enable, disable and enable again
with accesses between them, with an event or without one each time: VFs linger in the
table after a silent disable, reads of silently created VFs find nothing, a write to one
is lost, and a read returns the neighbour that a partial write cleared. In `eth` the
window of 2 is smaller than the six frames and no larger than the rings, so that
senders do block. In `intx` the queue can fill (two usable positions, in
the code 255) and `MaxPath` bounds how many events are under way when the guest
reads the ISR again, to keep a level-triggered line from producing ever more
events. Counters of frames, TLPs, DMAs and failures are capped in guards; nothing
compares them except the properties.

**Assumptions in the constants.** `FreshTags` in `BridgeShm` and `BridgeTcp`: no tag
comes round while its completion is pending, which for 1024 tags holds for guests
that read now and then; `bridge_qemu.c:41-43` takes the next tag without a test, and
a stale completion could otherwise answer a read. `EndpointTags` in both: how many
tags the endpoint keeps, all in `bridge_shm` and `bridge_tcp`, fewer in
`bridge_narrow_tags` (8 bits of 10 in the code, `tb_top.sv:308` and
`cosim_rc_driver.sv:313`). `DmaOpen` in `BridgeTcp`: the synchronous DMA calls test
`g_initialized`, which only the shared-memory start-up sets, so over TCP alone they
all fail; TRUE models the protocol the calls would follow.

Deadlock is checked in `ring`, `bridge_shm` and its two violations, and `intx`. In
`eth`, `eth_own_ack`, `virtqueue`, `functions` and `functions_two_pfs` traffic ends at
the bound and all parties rest; in `bridge_tcp` they also rest when a stream is
garbled; in `intx_vip_lost` it is not the question.

**Fairness.** Of what runs on its own: the poller thread, the main loop's bottom
half, the testbench's loop and DPI calls in progress, the endpoint completing what
it accepted, a receiver that polls, a vCPU inside a call, and the guest's interrupt
handler. It is weak everywhere but for one case: in `BridgeTcp` the endpoint acts
between two polls of the same thread, so it is enabled again and again but not
continuously, and has strong fairness: the driver waits for it before it polls
again. Nothing obliges the guest to issue TLPs or frames, the device to start a
DMA, a frame to arrive, a DMA to fail, a process to die or to be started again, or
a TX buffer to be taken back.

**Exceptions named in properties.** Each is something the code does, stated in the
property's comment.

* `DmaSuccessIsReal` stops at `RangesMet`: after a thousand calls of one kind the late
  reply of a call that was given up may carry the tag of a call of another kind.
* `StillAnswerable`, and `ReadsMatch` over TCP, let a read be given up by the drain
  guard, but only if as many completions were to come when its TLP was sent.
* `ReadsReturn` and `InterruptsArrive` of `BridgeTcp` stop promising once a stream is
  garbled or, for reads, after a DMA wait that gave up or when as many TLPs are before
  the read as the cache holds, for a full `tlp_cache` drops what arrives. Without aux,
  interrupts may wait behind a completion nobody takes (`irq_poller.c` never skips
  it), so `InterruptsArrive` is stated with aux. `StreamsInStep` excepts ctrl, which
  two threads really can tear.
* `ConfigReachesFunction` lets a read of a VF find nothing if the VF may have come or gone
  without an event, or over TCP: `cosim_rc_driver.sv:176` asks for VF events only after a
  poll that returned no TLP, so that a TLP overtakes the event sent before it.
* `ReadsWhatWasWritten` is about the bytes the last write carried at their place
  (`kept`): a write of the upper half alone clears it and changes the lower, and
  one of the lower half clears the upper.
* `VfsAgree` leaves out PFs whose VFs changed without an event (`silent`) and
  promises less over TCP, where one slot holds the last of several VF events.
* `BlockedSenderResumes` is conditional on a frame from the peer. With traffic in one
  direction only nothing frees the sender's window, and it stays blocked.
* `NoInterruptLost` and `FramesHandled` are about the legacy loop with no event
  dropped.

**Violations.** Each is listed under `findings` with the line that promises
otherwise. The passing runs say what remains true: with endpoints that keep whole tags,
of VF events as far as they are delivered, with one PF, of the two windows together,
with the legacy loop.

## 4. Proofs

All proofs are hierarchical TLAPS proofs for arbitrary constants satisfying the
named assumptions of the modules, in `Spec`, without fairness.

* **`RingBufferProofs`**: `TypeCorrect`, `PublishedWhole`, `OldestCopied`,
  `RingImplementsFifo`. The properties alone are not inductive: that an element is
  whole when it is published depends on what the copy has done so far, and that the
  copy may go on depends on a test made when it began. `IInv` says that the
  producer's test for room still holds throughout its copy (only the producer takes
  room away) and the words done are its element's; that every slot between head and
  tail holds a whole element; and that the consumer's slot stays published while it
  copies, its words equal to the slot's. The refinement maps `queue` to the
  published elements from head to tail; `EnqPublish` is `Put`, `DeqPublish` is
  `Get`, everything else stutters.
* **`BridgeShmProofs`**: `DmaSuccess`, `PollerJoined`, `ReadsMatch`. `DmaSuccess`
  rests on: replies in the completion ring, and the request the poller is posting,
  have been copied; and every tag used so far was taken from the counter of some
  kind (`TagsCounted`), no two calls having the same one before two ranges meet.
  `ReadsMatch` needs that every queued completion carries the tag of its own request
  (`TagsKept`), and that no other TLP whose completion is awaited, in the request
  ring, in the endpoint or in the completion ring, has the tag of the caller's
  (`CurApart`). Its hypotheses are `FreshTags` and `EndpointTags >= TagSpace`;
  `bridge_narrow_tags` drops the second.
* **`BridgeShmQueueProofs`**: `AnnouncementsExact`, `DmaFailureExplained`,
  `BridgeTypes`, `ReadsStayAnswerable`. Counting notifications against ring entries
  is inductive only together with the one entry whose notification is still to be
  sent and, after the simulator's death, with what the socket then is (`Shape`,
  `Sockets`, `AnnounceInv`). For the DMA, `LedgerInv` says that while none was given
  up the one request there is stands in exactly one place: the request ring, the
  poller's hands, or the completion ring as its own reply. `BridgeTypes` takes its
  bounds from the announcements: no more can be remembered than there are entries.
  `ReadsStayAnswerable` says that no read gives up and none waits for what cannot
  come. `AnswerInv` follows every non-posted TLP from the request ring through the
  endpoint to the completion ring, where its number stands once (`Apart`), and
  counts the others (`Budget`): what the wait has dropped and what is still to come
  besides its own are no more than there were when the TLP was sent (`ahead`). A
  wait that reaches the drain guard therefore started behind that many; and a
  completion that finds the ring full leaves as many queued as end the wait. The
  hypotheses are the endpoint's whole tags and a completion ring no smaller than the
  drain guard (some 12 000 entries against 256); the run has both.
* **`EthLinkProofs`**: `LinkTypes`, `FramesKeepOrder`, `WindowsCover`,
  `NeverBothStuck`. `BucketBound`: link time is never further ahead than the frames
  sent so far explain. `OrderInv`: the frames in the ring and the last one received
  are ordered by number and by deadline, and the last one queued is before whatever
  the link model will hand out next. `WindowInv`: a receiver frees its own window,
  so only the sum over both ports covers the frames under way; an acknowledgement
  takes one off those and at most one off the sum. Each window is kept by its own
  sender. Two senders that are both blocked have a frame in a ring or an
  acknowledgement to come, since a send or a receive leaves one, and an
  acknowledgement leaves its own port's window open.
* **`IntxPathProofs`**: `PathTypes`, `QueueWatched`, `LineFollows`,
  `LoopLosesNoInterrupt`. Three invariants, each resting on the one before.
  `Snapshot`: what the callback and the bottom half read before they act is still
  true enough: the tail is the callback's own, and the head can only have moved
  towards it. `Newest`: the event in the position before the tail is the last one
  accepted, or the queue is empty and the line already has its level. `Level`: the
  last event the loop raised is the ISR bit. Together, at rest, ISR bit, last event
  and line agree.
* **`BridgeTcpProofs`**: `StartupAgrees`, `ReadsAnswered`, `DmaResults`,
  `TcpTypeCorrect`, `StreamsStayInStep`; no hypothesis but the named assumption,
  except that `ReadsAnswered` takes `FreshTags` and `EndpointTags >= TagSpace`.
  *Start-up:* `FirstOnly` says that the control connection the server accepts is the
  first process's, whatever is started later, since the backlog is served in order,
  and whoever completes the handshake over it is that process; `Handshake`, that
  what is offered and answered follows from what each side has connected. *Streams:*
  every action is described once by what it appends to which stream (`Sends`) and
  how much it takes off a front (`Takes`); an invariant about the streams then needs
  one lemma for each, and not one for every action. `ReadInv` is the counting
  argument of the drain guard: a completion comes from one of four places (TLPs on
  data, the cache, the endpoint, completions on data), which `Foreign` adds up for
  all TLPs but the caller's, and what was dropped and what is to come stay within
  `ahead` (`Budget`). `DmaInv` says that streams hold whole requests and replies (a
  write with its data, a reply's data with its completion) and replies only to what
  was served: a DMA that reports success is then its own, though replies to calls
  that were given up arrive in between. `StreamInv` adds where the one DMA call is
  (`OneCall`: resting, with the poller, or answered), which kinds each connection
  carries (`Sorted`) and that the shutdown comes last (`EndLast`); only then can no
  receive find a message of another kind. It holds as long as no call was given up
  and ctrl was not torn, which is what `StreamsInStep` itself excepts.
* **`PciFunctionsProofs`**: `FnCorrect`, and from its invariant `FnTypes`,
  `ReadsReach`, `ReadsLastWrite`, `VfsKnown`. The two programs disagree while
  messages are under way, so the invariant says what the messages will do: a queue
  *leads* from one value to another if its messages, taken in order, change the
  first into the second. The VFs the simulator knows of a PF lead to those of the
  guest, unless it is `silent` (`Vfs`); the register of a function leads to one that
  has what the guest last wrote in the halves `kept` (`Writes`), for VFs as long as
  their PF is not silent; and the function table holds the functions enabled
  (`Table`). With the order of what stands before a read (`Order`, `Reads`) the
  answer follows, for any number of operations.
* **`VirtqueueDmaProofs`**: `RingsInOrder`, `BuffersReturn`, `QueueTypesHold`,
  `ReturnedSent`, `FramesOnce`. Indices wrap, so all positions are distances from
  the guest's own. `RingInv`: the four positions of a queue follow each other, and
  the entries between the guest's two name exactly the buffers it does not hold,
  each once, although slots are used again. `Sent`: the frame an entry carries
  follows from its distance, what is retired was sent, and repeats are at most the
  failures, counting the one about to come when a call failed between sending and
  retiring. `Delivered`: the frames still to reach the guest and those it has are in
  order, with at most one missing for every failure.

Every safety invariant and the refinement that the passing runs check are stated by
a theorem. Only model-checked is all liveness (`ReadsReturn`,
`ShutdownEndsSimulation`, `NewestDelivered`, `InterruptsArrive`, `ConfigReadsReturn`,
`BlockedSenderResumes`, `FramesHandled`, `BuffersAndFramesMove`), since fairness and
ENABLED are outside the prover's reach, and of course what the violation runs refute.
There are no recursive operators.

## 5. Not modelled

* **Start-up of the shared memories** (`shm_layout.c`, `eth_shm.c`): sequences of
  system calls; the races between creation and opening are listed as hazards. The
  launcher starts the simulator after QEMU has created the memory.
* **DMA allocator and bump offsets.** Only tests call `dma_manager.c`. The bridge's
  synchronous calls copy through a buffer at an offset of their own, one call at a
  time; a late copy of a call that gave up into a buffer since reused is data the
  model does not have.
* **SHM transport object** (`transport_shm.c`): the operations of `BridgeShm`
  behind function pointers, which the bridge bypasses in shared-memory mode.
* **Precise mode**: only the tests exchange clock messages; no testbench or device
  of the repository does.
* **Transaction-layer VIP, its agents and its switch**: a verification library with
  its own test suite below the protocol. Turning TLPs into its sequence items, BAR
  sizing and the capability layout are left out with it.
* **Parts of modelled components.** The MSI-X bottom half of the PF: every message
  carries requester 0, and is dropped. MMIO by function: TLPs carry no target for it
  and take the path of `BridgeShm` and `BridgeTcp`. The proxy's own detection of a
  NumVFs write at 0x210: QEMU keeps the extended configuration space to itself. The
  asynchronous `bridge_vcs_dma_request`, with a tag counter of its own from 1000 (over
  TCP it sends data before the request): no testbench calls it.
  `bridge_vcs_dma_read_sync` over TCP, which receives in the order opposite to QEMU's:
  no testbench calls it there, and `BridgeTcp` models the byte calls.
  Ethernet frames over TCP: no caller. Several root complexes: the same code on a
  context of its own. Stub registers other than the ISR: data.
* **Guest reset** in `VirtqueueDma`: no path tells the device of it. Two behaviours
  of that code are known and not excluded by any property: after a failure, retired
  TX entries stay unpublished until the next doorbell with a new entry, and a
  reset that keeps the ring addresses is not noticed.
* **Tracing, performance monitor, coverage, UVM bench, guest images, TAP bridge,
  scripts, vendored code**: no state of the protocol; the TAP bridge's port
  operations are those of `EthLink`.

Hazards without a property are marked in `PROJECT.json` with the reason.
