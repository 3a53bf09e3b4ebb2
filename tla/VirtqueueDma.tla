---------------------------- MODULE VirtqueueDma ----------------------------
(***************************************************************************)
(* The virtio-net queues as the simulated device works on them by DMA      *)
(* (bridge/vcs/virtqueue_dma.c).  The guest publishes buffers in an avail  *)
(* ring and takes them back from a used ring; the device keeps private     *)
(* copies of its positions in both.  Every access of the device to a ring  *)
(* or to a buffer is a DMA that may fail, and the guest runs between any   *)
(* two of them.  Each call of the device gives up at the first failure.    *)
(*                                                                         *)
(* Queue "rx" fills a buffer with each frame that came in over the link,   *)
(* queue "tx" hands the frame in each buffer to the link.  Frames are the  *)
(* numbers 1, 2, ... of their order of arrival or of posting.  A buffer is *)
(* named by the head of its descriptor chain.                              *)
(***************************************************************************)
EXTENDS Integers, Sequences, FiniteSets, SequencesExt

CONSTANTS
  Size,       \* vq[q].size: entries of each ring
  IndexSpan,  \* values of an avail or used index: 2^16 in the code
  MaxFrames,  \* bound on the frames sent, and on the frames received
  MaxFailures \* bound on failing DMAs

ASSUME VirtqueueAssumption ==
  /\ {Size, IndexSpan, MaxFrames} \subseteq Nat \ {0}
  /\ MaxFailures \in Nat
  /\ Size < IndexSpan
  /\ IndexSpan % Size = 0

Queues == {"rx", "tx"}
Buffers == 1 .. Size
Indices == 0 .. IndexSpan - 1
Frames == 1 .. MaxFrames
None == 0

VARIABLES
  avail, used,         \* the rings in guest memory: entries and index
  seen, held, load,    \* guest: used entries taken back, own buffers, contents
  notified,            \* doorbell writes on the way to the device
  lastAvail, lastUsed, \* vq[q].last_avail, vq[q].last_used
  pc, limit, head, frame, \* the device's call: position and locals
  worked,              \* processed > 0 or injected > 0
  incoming, wire,      \* frames waiting in the link; frames offered to it
  interrupt,           \* the RX interrupt is raised and not yet handled
  arrived, posted, received, \* last frame in, last frame posted, frames read
  failures             \* DMAs that failed

guestVars == <<seen, held, posted, received>>
positions == <<lastAvail, lastUsed>>
locals == <<limit, head, frame>>
linkVars == <<incoming, arrived>>
vars == <<avail, used, guestVars, load, notified, positions, pc, locals,
          worked, linkVars, wire, interrupt, failures>>

Init ==
  /\ avail = [q \in Queues |-> [entry |-> [i \in 0 .. Size - 1 |-> None], idx |-> 0]]
  /\ used = avail
  /\ seen = [q \in Queues |-> 0]
  /\ held = [q \in Queues |-> Buffers]
  /\ load = [q \in Queues |-> [b \in Buffers |-> None]]
  /\ notified = 0
  /\ lastAvail = [q \in Queues |-> 0]
  /\ lastUsed = [q \in Queues |-> 0]
  /\ pc = "idle"
  /\ limit = 0
  /\ head = None
  /\ frame = None
  /\ worked = FALSE
  /\ incoming = <<>>
  /\ wire = <<>>
  /\ interrupt = FALSE
  /\ arrived = 0
  /\ posted = 0
  /\ received = <<>>
  /\ failures = 0

Slot(i) == i % Size
NextIndexUnwrapped(i) == i + 1 \* mutant
NextIndex(i) == (i + 1) % IndexSpan
(* The entries from index lo up to, and without, index hi. *)
Between(lo, hi) ==
  {(lo + k) % IndexSpan : k \in 0 .. ((hi - lo + IndexSpan) % IndexSpan) - 1}

-----------------------------------------------------------------------------
(* The guest's driver, and the far end of the link. *)

guestOthers == <<used, positions, pc, locals, worked, linkVars, wire, interrupt, failures>>

(* The entry is written before the index is published; only TX is notified,
   a notify of RX does nothing in the device. *)
Post(q, b) ==
  /\ b \in held[q]
  /\ avail' = [avail EXCEPT ![q].entry[Slot(avail[q].idx)] = b,
                            ![q].idx = NextIndex(@)]
  /\ held' = [held EXCEPT ![q] = @ \ {b}]
  /\ \/ /\ q = "rx"
        /\ UNCHANGED <<load, posted, notified>>
     \/ /\ q = "tx"
        /\ posted < MaxFrames
        /\ posted' = posted + 1
        /\ load' = [load EXCEPT !["tx"][b] = posted + 1]
        /\ notified' = notified + 1
  /\ UNCHANGED <<guestOthers, seen, received>>

Reclaim(q) ==
  /\ seen[q] # used[q].idx
  /\ LET b == used[q].entry[Slot(seen[q])] IN
       /\ held' = [held EXCEPT ![q] = @ \union {b}]
       /\ load' = [load EXCEPT ![q][b] = None]
       /\ received' = IF q = "rx" THEN Append(received, load["rx"][b]) ELSE received
  /\ seen' = [seen EXCEPT ![q] = NextIndex(@)]
  /\ UNCHANGED <<guestOthers, avail, posted, notified>>

(* The handler has found the used ring empty. *)
InterruptDone ==
  /\ interrupt
  /\ seen["rx"] = used["rx"].idx
  /\ interrupt' = FALSE
  /\ UNCHANGED <<avail, used, guestVars, load, notified, positions, pc, locals,
                 worked, linkVars, wire, failures>>

Arrive ==
  /\ arrived < MaxFrames
  /\ arrived' = arrived + 1
  /\ incoming' = Append(incoming, arrived + 1)
  /\ UNCHANGED <<avail, used, guestVars, load, notified, positions, pc, locals,
                 worked, wire, interrupt, failures>>

Driver == \E q \in Queues : Reclaim(q) \/ \E b \in Buffers : Post(q, b)

-----------------------------------------------------------------------------
(* What the device's two calls share. *)

deviceOthers == <<avail, guestVars>>

Goto(from, to) == pc = from /\ pc' = to

(* The call returns; a call of vcs_vq_process_rx that injected a frame is
   followed by the interrupt. *)
Return(injected) ==
  /\ pc' = "idle"
  /\ worked' = FALSE
  /\ interrupt' = (interrupt \/ injected)
  /\ limit' = 0 /\ head' = None /\ frame' = None

(* The used entry names the buffer and both positions move on; the guest
   does not see it until the index is written. *)
Retire(q) ==
  /\ used' = [used EXCEPT ![q].entry[Slot(lastUsed[q])] = head]
  /\ lastAvail' = [lastAvail EXCEPT ![q] = NextIndex(@)]
  /\ lastUsed' = [lastUsed EXCEPT ![q] = NextIndex(@)]

PublishEarly(q) == used' = [used EXCEPT ![q].idx = NextIndex(lastUsed[q])] \* mutant
Publish(q) == used' = [used EXCEPT ![q].idx = lastUsed[q]]

(* The DMA of this step fails: the call gives up, the positions stay.  A
   write that timed out may have been carried out all the same; that shows
   when it is the index that was written.  (A failed write below the index
   is not visible: the same place is written again before it is published.) *)
Fail(q) ==
  /\ failures < MaxFailures
  /\ failures' = failures + 1
  /\ \/ UNCHANGED used
     \/ pc \in {"txPublish", "rxPublish"} /\ Publish(q)
  /\ UNCHANGED <<deviceOthers, load, notified, positions, linkVars, wire>>

TxFailsSkips == \* mutant: an entry that could not be read is retired unsent
  /\ pc \in {"txEntry", "txData", "txUsed", "txPublish"}
  /\ failures < MaxFailures
  /\ failures' = failures + 1
  /\ pc' = IF pc = "txData" THEN "txUsed" ELSE pc
  /\ UNCHANGED <<deviceOthers, used, load, notified, positions, locals, worked,
                 interrupt, linkVars, wire>>

TxFails ==
  /\ pc \in {"txEntry", "txData", "txUsed", "txPublish"}
  /\ pc = "txEntry" => lastAvail["tx"] # limit
  /\ Fail("tx")
  /\ Return(FALSE)

(* vcs_vq_process_rx leaves its loop: what it injected before still counts. *)
RxFails ==
  /\ pc \in {"rxEntry", "rxInject", "rxUsed", "rxPublish"}
  /\ Fail("rx")
  /\ Return(worked)

-----------------------------------------------------------------------------
(* vcs_vq_process_tx, called for every doorbell of queue 1. *)

(* The avail index is read once for the whole call. *)
TxBegin ==
  /\ notified > 0
  /\ notified' = notified - 1
  /\ Goto("idle", "txEntry")
  /\ limit' = avail["tx"].idx
  /\ UNCHANGED <<deviceOthers, used, load, positions, head, frame, worked,
                 linkVars, wire, interrupt, failures>>

TxBeginFails ==
  /\ pc = "idle"
  /\ notified > 0
  /\ failures < MaxFailures
  /\ failures' = failures + 1
  /\ notified' = notified - 1
  /\ UNCHANGED <<deviceOthers, used, load, positions, pc, locals, worked,
                 linkVars, wire, interrupt>>

TxEntry ==
  /\ lastAvail["tx"] # limit
  /\ Goto("txEntry", "txData")
  /\ head' = avail["tx"].entry[Slot(lastAvail["tx"])]
  /\ UNCHANGED <<deviceOthers, used, load, notified, positions, limit, frame,
                 worked, linkVars, wire, interrupt, failures>>

(* The descriptors and the data are read and the frame goes to the link; a
   frame the link refuses is only logged. *)
TxData ==
  /\ Goto("txData", "txUsed")
  /\ wire' = Append(wire, load["tx"][head])
  /\ UNCHANGED <<deviceOthers, used, load, notified, positions, locals,
                 worked, linkVars, interrupt, failures>>

TxUsed ==
  /\ Goto("txUsed", "txEntry")
  /\ Retire("tx")
  /\ worked' = TRUE
  /\ head' = None
  /\ UNCHANGED <<deviceOthers, load, notified, limit, frame, linkVars, wire, interrupt, failures>>

TxEndQuietly == \* mutant: processed is not counted, nothing is published
  /\ pc = "txEntry"
  /\ lastAvail["tx"] = limit
  /\ Return(FALSE)
  /\ UNCHANGED <<deviceOthers, used, load, notified, positions, linkVars, wire, failures>>

TxEnd ==
  /\ pc = "txEntry"
  /\ lastAvail["tx"] = limit
  /\ \/ worked /\ pc' = "txPublish" /\ UNCHANGED <<worked, interrupt, locals>>
     \/ ~worked /\ Return(FALSE)
  /\ UNCHANGED <<deviceOthers, used, load, notified, positions, linkVars, wire, failures>>

(* The used index is written once, for every entry of the call. *)
TxPublish ==
  /\ pc = "txPublish"
  /\ Publish("tx")
  /\ Return(FALSE)
  /\ UNCHANGED <<deviceOthers, load, notified, positions, linkVars, wire, failures>>

-----------------------------------------------------------------------------
(* vcs_vq_process_rx, called in every round of the main loop. *)

RxReady == lastAvail["rx"] # avail["rx"].idx /\ incoming # <<>>

RxBeginDrops == \* mutant: the frame is taken before a buffer is looked for
  /\ pc \in {"idle", "rxLoop"}
  /\ incoming # <<>>
  /\ incoming' = Tail(incoming)
  /\ \/ RxReady /\ frame' = Head(incoming) /\ pc' = "rxEntry"
     \/ ~RxReady /\ frame' = None /\ pc' = "idle"
  /\ UNCHANGED <<deviceOthers, used, load, notified, positions, limit, head,
                 worked, arrived, wire, interrupt, failures>>

(* A buffer is there before a frame is taken from the link. *)
RxBegin ==
  /\ pc \in {"idle", "rxLoop"}
  /\ RxReady
  /\ frame' = Head(incoming)
  /\ incoming' = Tail(incoming)
  /\ pc' = "rxEntry"
  /\ UNCHANGED <<deviceOthers, used, load, notified, positions, limit, head,
                 worked, arrived, wire, interrupt, failures>>

(* No buffer, no frame, or the avail index could not be read. *)
RxEnd ==
  /\ pc = "rxLoop"
  /\ \/ ~RxReady /\ UNCHANGED failures
     \/ failures < MaxFailures /\ failures' = failures + 1
  /\ Return(worked)
  /\ UNCHANGED <<deviceOthers, used, load, notified, positions, linkVars, wire>>

RxEntry ==
  /\ Goto("rxEntry", "rxInject")
  /\ head' = avail["rx"].entry[Slot(lastAvail["rx"])]
  /\ UNCHANGED <<deviceOthers, used, load, notified, positions, limit, frame,
                 worked, linkVars, wire, interrupt, failures>>

RxInject ==
  /\ Goto("rxInject", "rxUsed")
  /\ load' = [load EXCEPT !["rx"][head] = frame]
  /\ UNCHANGED <<deviceOthers, used, notified, positions, locals, worked,
                 linkVars, wire, interrupt, failures>>

RxUsed ==
  /\ Goto("rxUsed", "rxPublish")
  /\ Retire("rx")
  /\ UNCHANGED <<deviceOthers, load, notified, locals, worked, linkVars, wire,
                 interrupt, failures>>

(* The used index is written after every frame. *)
RxPublish ==
  /\ Goto("rxPublish", "rxLoop")
  /\ Publish("rx")
  /\ worked' = TRUE
  /\ head' = None /\ frame' = None
  /\ UNCHANGED <<deviceOthers, load, notified, positions, limit, linkVars,
                 wire, interrupt, failures>>

Transmit == TxBegin \/ TxEntry \/ TxData \/ TxUsed \/ TxEnd \/ TxPublish
Inject == RxBegin \/ RxEnd \/ RxEntry \/ RxInject \/ RxUsed \/ RxPublish
Failing == TxBeginFails \/ TxFails \/ RxFails

Next == Driver \/ InterruptDone \/ Arrive \/ Transmit \/ Inject \/ Failing

Spec == Init /\ [][Next]_vars

(* The device's main loop does not stop; the driver keeps buffers posted for
   RX and its handler runs when it is interrupted.  Nothing else is fair: in
   particular no DMA has to fail and no TX buffer has to be taken back. *)
Fairness ==
  /\ WF_vars(Transmit)
  /\ WF_vars(Inject)
  /\ WF_vars(\E b \in Buffers : Post("rx", b))
  /\ WF_vars(interrupt /\ Reclaim("rx"))
  /\ WF_vars(InterruptDone)

FairSpec == Spec /\ Fairness

-----------------------------------------------------------------------------
(* Properties. *)

InFlight(q) == Between(used[q].idx, avail[q].idx)
Returned(q) == Between(seen[q], used[q].idx)
Named(ring, q, span) == {ring[q].entry[Slot(i)] : i \in span}

(* Types; indices stay in their span. *)
TypeOK ==
  /\ \A r \in {avail, used} : \A q \in Queues :
       r[q] \in [entry : [0 .. Size - 1 -> Buffers \union {None}], idx : Indices]
  /\ {seen, lastAvail, lastUsed} \subseteq [Queues -> Indices]
  /\ held \in [Queues -> SUBSET Buffers]
  /\ load \in [Queues -> [Buffers -> Frames \union {None}]]
  /\ limit \in Indices /\ head \in Buffers \union {None}
  /\ frame \in Frames \union {None}
  /\ {worked, interrupt} \subseteq BOOLEAN
  /\ {incoming, wire, received} \subseteq Seq(Frames)

(* Every buffer is in exactly one place: the guest's, on its way through the
   device, or published as used; so the guest never gets a buffer back twice,
   or one the device still works on, whatever DMA failed. *)
BuffersReturnOnce ==
  \A q \in Queues :
    /\ held[q] \intersect (Named(avail, q, InFlight(q)) \union Named(used, q, Returned(q))) = {}
    /\ Named(avail, q, InFlight(q)) \intersect Named(used, q, Returned(q)) = {}
    /\ held[q] \union Named(avail, q, InFlight(q)) \union Named(used, q, Returned(q)) = Buffers
    /\ Cardinality(held[q]) + Cardinality(InFlight(q)) + Cardinality(Returned(q)) = Size

(* A TX buffer comes back only after its frame was handed to the link, even
   when the call before failed half-way (vcs_vq_process_tx sends the frame
   before it writes the used entry). *)
ReturnedWasSent ==
  \A b \in Named(used, "tx", Returned("tx")) : load["tx"][b] \in Range(wire)

(* A frame goes to the link twice only because a DMA failed after it was
   sent, and each failure repeats at most one frame.  Frames reach the guest
   in the order they came, none twice, and one is missing only because a DMA
   that carried it failed (the comment in vcs_vq_process_rx: a buffer is
   looked for before the frame is taken). *)
FramesOnceUnlessDmaFails ==
  /\ Len(wire) - Cardinality(Range(wire)) <= failures
  /\ \A i, j \in DOMAIN received : i < j => received[i] < received[j]
  /\ received # <<>> => Last(received) - Len(received) <= failures

(* While DMA works, every TX buffer the guest posts comes back, and every
   frame that arrives reaches the guest, which looks only when it is
   interrupted. *)
BuffersAndFramesMove ==
  /\ \A b \in Buffers :
       b \in Named(avail, "tx", InFlight("tx"))
         ~> (b \notin Named(avail, "tx", InFlight("tx")) \/ failures > 0)
  /\ \A f \in Frames : arrived = f ~> (f \in Range(received) \/ failures > 0)
=============================================================================
