------------------------------ MODULE IntxPath ------------------------------
(***************************************************************************)
(* Interrupts of received frames, from the endpoint's ISR register to the  *)
(* guest and back.  The testbench sets the ISR bit and raises an MSI event *)
(* (bridge_vcs_raise_msi); QEMU's poller thread takes it off msi_ring and  *)
(* queues it for a bottom half (cosim_msi_cb), which drives the INTx line  *)
(* (cosim_msi_bh_cb).  The guest's handler reads the ISR register, which   *)
(* clears it; the testbench answers with an event that lowers the line.    *)
(*                                                                         *)
(* Two testbenches: tb_top.sv does everything in one loop; in              *)
(* cosim_vip_top.sv receiving and lowering are two processes that count    *)
(* clocks (concurrent).  MSI and MSI-X are off: the line is level.         *)
(***************************************************************************)
EXTENDS Naturals, Sequences

CONSTANTS
  Testbenches, \* which may run: TRUE for cosim_vip_top.sv, FALSE for tb_top.sv
  RingSlots,  \* usable slots of msi_ring
  QueueSize,  \* COSIM_MSI_QUEUE_SIZE
  MaxFrames,  \* bound on received frames
  MaxPath     \* events on their way when the guest reads the ISR once more

ASSUME IntxAssumption ==
  /\ Testbenches \subseteq BOOLEAN
  /\ {RingSlots, QueueSize} \subseteq Nat \ {0}
  /\ {MaxFrames, MaxPath} \subseteq Nat

VARIABLES
  concurrent, \* the testbench of this run, one of Testbenches
  isr,       \* vio_isr bit 0
  injected,  \* frames in the guest's used ring
  sim,       \* tb_top's loop: loop, assert, deassert
  rx,        \* VIP receive process: idle, set, raise
  rd,        \* VIP ISR-read process: clocks until it lowers, 0 when waiting
  msiRing,   \* raised and not yet taken by the poller
  poller, vector, tailSeen, headSeen, \* cosim_msi_cb and its locals
  slots, head, tail, \* msi_queue, msi_queue_head, msi_queue_tail
  bh,        \* BH scheduled?
  bhPc, bhVector, \* cosim_msi_bh_cb: idle, test, advance, deliver
  line,      \* the INTx line
  guest,     \* idle, reading, read (the ISR value is known)
  isrValue,  \* what the guest's read returned
  seen,      \* frames the guest's handler has taken off the used ring
  lastRaised, \* the level the last event accepted by the queue asks for
  dropped    \* an event was lost to a full ring or a full queue

simVars == <<concurrent, isr, injected, sim, rx, rd>>
cbVars == <<poller, vector, tailSeen, headSeen>>
queueVars == <<slots, head, tail>>
bhVars == <<bhPc, bhVector, line>>
guestVars == <<guest, isrValue, seen>>
vars == <<simVars, msiRing, cbVars, queueVars, bh, bhVars, guestVars, lastRaised, dropped>>

Events == {"assert", "deassert"}

(* The counters only grow; they are kept modulo a multiple of the size. *)
Span == 2 * QueueSize
Queued(t, h) == (t + Span - h) % Span
Smaller(a, b) == IF a < b THEN a ELSE b
AdvancedUnwrapped(i) == i + 1 \* mutant: the counter leaves the slots' range
Advanced(i) == (i + 1) % Span

(* bridge_vcs_raise_msi: a full ring loses the event. *)
Raise(events) ==
  LET all == msiRing \o events IN
  /\ msiRing' = SubSeq(all, 1, Smaller(Len(all), RingSlots))
  /\ dropped' = (dropped \/ Len(all) > RingSlots)

Init ==
  /\ concurrent \in Testbenches
  /\ isr = FALSE /\ injected = 0 /\ sim = "loop" /\ rx = "idle" /\ rd = 0
  /\ msiRing = <<>>
  /\ poller = "idle" /\ vector = "deassert" /\ tailSeen = 0 /\ headSeen = 0
  /\ slots = [i \in 0 .. QueueSize - 1 |-> "deassert"] /\ head = 0 /\ tail = 0
  /\ bh = FALSE /\ bhPc = "idle" /\ bhVector = "deassert" /\ line = FALSE
  /\ guest = "idle" /\ isrValue = FALSE /\ seen = 0
  /\ lastRaised = FALSE /\ dropped = FALSE
-----------------------------------------------------------------------------
(* tb_top.sv: one loop *)

others == <<concurrent, msiRing, cbVars, queueVars, bh, bhVars, lastRaised,
            dropped>>

(* The loop polled the guest's read of the ISR: the endpoint returns and   *)
(* clears it, the completion goes out, then the event that lowers.         *)
LoopIsrRead ==
  /\ ~concurrent /\ sim = "loop" /\ guest = "reading"
  /\ isrValue' = isr /\ isr' = FALSE
  /\ guest' = "read" /\ sim' = "deassert"
  /\ UNCHANGED <<injected, rx, rd, seen, others>>

LoopDeassert ==
  /\ sim = "deassert"
  /\ Raise(<<"deassert">>) /\ sim' = "loop"
  /\ UNCHANGED <<concurrent, isr, injected, rx, rd, cbVars, queueVars, bh, bhVars,
                 guestVars, lastRaised>>

LoopReceiveNoIsr == \* mutant: the event is raised and the ISR bit forgotten
  /\ ~concurrent /\ sim = "loop" /\ injected < MaxFrames
  /\ injected' = injected + 1 /\ sim' = "assert"
  /\ UNCHANGED <<isr, rx, rd, guestVars, others>>

(* vcs_vq_process_rx put a frame into the used ring; the ISR bit first. *)
LoopReceive ==
  /\ ~concurrent /\ sim = "loop" /\ injected < MaxFrames
  /\ injected' = injected + 1
  /\ isr' = TRUE /\ sim' = "assert"
  /\ UNCHANGED <<rx, rd, guestVars, others>>

LoopAssert ==
  /\ sim = "assert"
  /\ Raise(<<"assert">>) /\ sim' = "loop"
  /\ UNCHANGED <<concurrent, isr, injected, rx, rd, cbVars, queueVars, bh, bhVars,
                 guestVars, lastRaised>>
-----------------------------------------------------------------------------
(* cosim_vip_top.sv: concurrent processes *)

(* The receive process: a frame, then the isr_set pulse. *)
VipReceive ==
  /\ concurrent /\ rx = "idle" /\ injected < MaxFrames
  /\ injected' = injected + 1 /\ rx' = "set"
  /\ UNCHANGED <<isr, sim, rd, guestVars, others>>

(* The events raised at one clock edge, in every order of two processes.   *)
RaisedAtClock ==
  LET up == IF rx = "raise" THEN <<"assert">> ELSE <<>>
      down == IF rd = 1 THEN <<"deassert">> ELSE <<>> IN
  {up \o down, down \o up}

(* One clock edge: the endpoint samples the pulse and, if take, the        *)
(* guest's read, whose clearing assignment comes last and wins; the        *)
(* receive process raises one clock after the pulse was sampled, the       *)
(* ISR-read process lowers two clocks after the read.                      *)
VipClock(take) ==
  /\ concurrent
  /\ take => guest = "reading" /\ rd = 0
  /\ take \/ rx # "idle" \/ rd > 0
  /\ isr' = ((isr \/ rx = "set") /\ ~take)
  /\ rx' = CASE rx = "set" -> "raise" [] OTHER -> "idle"
  /\ rd' = IF take THEN 2 ELSE IF rd > 0 THEN rd - 1 ELSE 0
  /\ \E events \in RaisedAtClock : Raise(events)
  /\ isrValue' = IF take THEN isr ELSE isrValue
  /\ guest' = IF rd = 1 THEN "read" ELSE guest \* the completion is back
  /\ UNCHANGED <<concurrent, injected, sim, seen, cbVars, queueVars, bh, bhVars,
                 lastRaised>>
-----------------------------------------------------------------------------
(* QEMU: the poller thread, cosim_msi_cb *)

cbOthers == <<simVars, bhVars, guestVars, head>>

CbTake ==
  /\ poller = "idle" /\ msiRing # <<>>
  /\ vector' = Head(msiRing) /\ msiRing' = Tail(msiRing)
  /\ tailSeen' = tail /\ headSeen' = head
  /\ poller' = "store"
  /\ UNCHANGED <<cbOthers, slots, tail, bh, lastRaised, dropped>>

CbStoreUnchecked == \* mutant: no test for a full queue
  /\ poller = "store"
  /\ slots' = [slots EXCEPT ![tailSeen % QueueSize] = vector]
  /\ poller' = "publish"
  /\ UNCHANGED <<dropped, cbOthers, vector, tailSeen, headSeen, msiRing, tail, bh,
                 lastRaised>>

(* A full queue drops the event: return before the store. *)
CbStore ==
  /\ poller = "store"
  /\ IF Queued(tailSeen, headSeen) >= QueueSize
     THEN poller' = "idle" /\ dropped' = TRUE /\ UNCHANGED slots
     ELSE /\ slots' = [slots EXCEPT ![tailSeen % QueueSize] = vector]
          /\ poller' = "publish"
          /\ UNCHANGED dropped
  /\ UNCHANGED <<cbOthers, vector, tailSeen, headSeen, msiRing, tail, bh,
                 lastRaised>>

CbPublishQuietly == \* mutant: no new schedule while older events were queued
  /\ poller = "publish"
  /\ tail' = Advanced(tailSeen)
  /\ lastRaised' = (vector = "assert")
  /\ poller' = IF headSeen = tailSeen THEN "schedule" ELSE "idle"
  /\ UNCHANGED <<cbOthers, vector, tailSeen, headSeen, msiRing, slots, bh,
                 dropped>>

CbPublish ==
  /\ poller = "publish"
  /\ tail' = Advanced(tailSeen)
  /\ lastRaised' = (vector = "assert")
  /\ poller' = "schedule"
  /\ UNCHANGED <<cbOthers, vector, tailSeen, headSeen, msiRing, slots, bh,
                 dropped>>

CbSchedule ==
  /\ poller = "schedule"
  /\ bh' = TRUE /\ poller' = "idle"
  /\ UNCHANGED <<cbOthers, vector, tailSeen, headSeen, msiRing, slots, tail,
                 lastRaised, dropped>>
-----------------------------------------------------------------------------
(* QEMU: the main loop, cosim_msi_bh_cb *)

bhOthers == <<simVars, msiRing, cbVars, slots, tail, guestVars, lastRaised,
              dropped>>

(* The main loop clears the flag before it calls the bottom half.  Both it *)
(* and a guest waiting for an MMIO read hold QEMU's big lock.              *)
BhRun ==
  /\ bhPc = "idle" /\ bh /\ guest # "reading"
  /\ bh' = FALSE /\ bhPc' = "test"
  /\ UNCHANGED <<bhOthers, head, bhVector, line>>

(* The loop's test and the read of the slot. *)
BhTest ==
  /\ bhPc = "test"
  /\ IF head = tail THEN bhPc' = "idle" /\ UNCHANGED bhVector
     ELSE bhPc' = "advance" /\ bhVector' = slots[head % QueueSize]
  /\ UNCHANGED <<bhOthers, head, bh, line>>

BhAdvance ==
  /\ bhPc = "advance"
  /\ head' = Advanced(head) /\ bhPc' = "deliver"
  /\ UNCHANGED <<bhOthers, bh, bhVector, line>>

BhDeliverAssert == \* mutant: vector 0xFFFE is not told apart
  /\ bhPc = "deliver"
  /\ line' = TRUE /\ bhPc' = "test"
  /\ UNCHANGED <<bhOthers, head, bh, bhVector>>

(* pci_set_irq *)
BhDeliver ==
  /\ bhPc = "deliver"
  /\ line' = (bhVector = "assert") /\ bhPc' = "test"
  /\ UNCHANGED <<bhOthers, head, bh, bhVector>>
-----------------------------------------------------------------------------
(* The guest *)

guestOthers == <<simVars, msiRing, cbVars, queueVars, bh, bhVars, lastRaised,
                 dropped>>

(* Events raised and not yet delivered to the line. *)
OnTheWay == Len(msiRing) + Queued(tail, head)
            + (IF poller \in {"store", "publish"} THEN 1 ELSE 0)
            + (IF bhPc = "deliver" THEN 1 ELSE 0)

(* The line is high: the handler reads the ISR register. *)
GuestInterrupt ==
  /\ guest = "idle" /\ line /\ bhPc = "idle"
  /\ OnTheWay <= MaxPath
  /\ guest' = "reading"
  /\ UNCHANGED <<isrValue, seen, guestOthers>>

(* A set bit makes the handler take what the used ring holds. *)
GuestHandle ==
  /\ guest = "read"
  /\ seen' = IF isrValue THEN injected ELSE seen
  /\ guest' = "idle"
  /\ UNCHANGED <<isrValue, guestOthers>>

(* Nothing is left to do once every frame the bound allows was handled.    *)
Settled ==
  /\ injected = MaxFrames /\ sim = "loop" /\ rx = "idle" /\ rd = 0
  /\ guest = "idle" /\ ~line /\ OnTheWay = 0 /\ poller = "idle"
  /\ ~bh /\ bhPc = "idle"
  /\ UNCHANGED vars

Loop == LoopIsrRead \/ LoopDeassert \/ LoopReceive \/ LoopAssert
Clock == \E take \in BOOLEAN : VipClock(take)
Callback == CbTake \/ CbStore \/ CbPublish \/ CbSchedule
BottomHalf == BhRun \/ BhTest \/ BhAdvance \/ BhDeliver
Guest == GuestInterrupt \/ GuestHandle
Next == Loop \/ VipReceive \/ Clock \/ Callback \/ BottomHalf \/ Guest \/ Settled

(* Every thread and the simulation keep running. *)
Fairness ==
  /\ WF_vars(LoopIsrRead) /\ WF_vars(LoopDeassert) /\ WF_vars(LoopAssert)
  /\ WF_vars(Callback) /\ WF_vars(BottomHalf) /\ WF_vars(Guest)

Spec == Init /\ [][Next]_vars
FairSpec == Spec /\ Fairness
-----------------------------------------------------------------------------
TypeOK ==
  /\ {concurrent, isr, bh, line, isrValue, lastRaised, dropped} \subseteq BOOLEAN
  /\ injected \in 0 .. MaxFrames /\ seen \in 0 .. MaxFrames
  /\ sim \in {"loop", "assert", "deassert"}
  /\ rx \in {"idle", "set", "raise"} /\ rd \in 0 .. 2
  /\ msiRing \in Seq(Events) /\ Len(msiRing) <= RingSlots
  /\ poller \in {"idle", "store", "publish", "schedule"}
  /\ vector \in Events /\ bhVector \in Events
  /\ slots \in [0 .. QueueSize - 1 -> Events]
  /\ {head, tail, headSeen, tailSeen} \subseteq 0 .. Span - 1
  /\ bhPc \in {"idle", "test", "advance", "deliver"}
  /\ guest \in {"idle", "reading", "read"}

(* No event is lost between the poller thread and the main loop: while the *)
(* queue holds one, the bottom half is running, scheduled, or about to be  *)
(* scheduled; and the poller never writes a slot the bottom half has yet   *)
(* to read, since the head it tested may only be further behind.           *)
QueueIsWatched ==
  /\ head # tail => bh \/ bhPc # "idle" \/ poller = "schedule"
  /\ poller = "publish" => Queued(tail, head) < QueueSize

PathEmpty ==
  OnTheWay = 0 /\ poller = "idle" /\ bhPc = "idle"

(* Events reach the line in the order they were raised: with none on the   *)
(* way it has the level the last one asked for.                            *)
LineFollowsLastEvent == PathEmpty => line = lastRaised

(* No interrupt is lost: when everything has come to rest, a set ISR bit   *)
(* or a frame the guest has not seen keeps the line high.  Said of both    *)
(* testbenches, while no event was lost to a full ring or queue.           *)
InterruptPending ==
  /\ PathEmpty /\ guest = "idle" /\ sim = "loop" /\ rx = "idle" /\ rd = 0
  /\ ~dropped
  => (isr \/ seen < injected => line)

(* tb_top.sv's loop loses no interrupt: there the deassert of a read is    *)
(* raised before the next frame is received.                               *)
NoInterruptLost == ~concurrent => InterruptPending

(* Every received frame is handled by the guest in the end, again with     *)
(* tb_top.sv and while no event was lost to a full ring or queue.          *)
FramesHandled ==
  \A n \in 1 .. MaxFrames :
    ~concurrent /\ injected >= n ~> seen >= n \/ dropped
=============================================================================
