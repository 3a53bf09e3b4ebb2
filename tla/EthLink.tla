------------------------------- MODULE EthLink -------------------------------
(***************************************************************************)
(* The Ethernet link between two simulations: two ports over one shared    *)
(* memory (bridge/eth/eth_port.c), each with a transmit-side link model    *)
(* (bridge/common/link_model.c) that drops frames in bursts, computes the  *)
(* time a frame is due and limits the frames in flight to a window.        *)
(*                                                                         *)
(* The rings are FIFOs: eth_shm_enqueue and eth_shm_dequeue take the steps *)
(* RingBuffer takes.  A receiver dequeues and then acknowledges, in two    *)
(* steps, on its own port: the sender's link model is in another process.  *)
(* Time is counted in units of the smallest delay that matters.            *)
(***************************************************************************)
EXTENDS Naturals, Sequences

CONSTANTS
  A, B,        \* the two roles
  Slots,       \* usable slots of a frame ring: ETH_FRAME_RING_DEPTH - 1
  Window,      \* fc_window, 0 for none
  MayDrop,     \* drop_rate_ppm # 0
  BurstLen,    \* burst_drop_len
  Serialize,   \* serialisation time of a frame at rate_mbps
  Latency,     \* latency_ns
  MaxSeq,      \* bound on sequence numbers
  MaxNow       \* bound on the local time a sender passes in

ASSUME LinkAssumption ==
  /\ A # B
  /\ Slots \in Nat \ {0}
  /\ {Window, BurstLen, Serialize, Latency, MaxSeq, MaxNow} \subseteq Nat
  /\ MayDrop \in BOOLEAN

Nodes == {A, B}
Peer(n) == IF n = A THEN B ELSE A

VARIABLES
  ring,        \* ring[n]: frames n has sent and its peer has not dequeued
  seqTx,       \* port->seq_tx
  outstanding, \* link.outstanding
  burst,       \* link.burst_remaining
  bucket,      \* link.token_bucket_ns
  nodeTime,    \* ctrl->node_time_ns
  acking,      \* acking[n]: n has dequeued a frame and not yet acknowledged
  last         \* last[n]: the last frame n received

vars == <<ring, seqTx, outstanding, burst, bucket, nodeTime, acking, last>>
linkVars == <<seqTx, outstanding, burst, bucket, nodeTime>>

MaxTime == MaxNow + Serialize * (MaxSeq + 1) + Latency
Frame == [seq : 0 .. MaxSeq, due : 0 .. MaxTime]
NoFrame == [seq |-> 0, due |-> 0]

(* eth_port_open: link_model_reset and a zeroed shared memory. *)
Init ==
  /\ ring = [n \in Nodes |-> <<>>]
  /\ seqTx = [n \in Nodes |-> 0]
  /\ outstanding = [n \in Nodes |-> 0]
  /\ burst = [n \in Nodes |-> 0]
  /\ bucket = [n \in Nodes |-> 0]
  /\ nodeTime = [n \in Nodes |-> 0]
  /\ acking = [n \in Nodes |-> FALSE]
  /\ last = [n \in Nodes |-> NoFrame]
-----------------------------------------------------------------------------
(* link_model_fc_can_send *)
CanSend(n) == Window = 0 \/ outstanding[n] < Window

(* eth_port_send refuses: -2, and nothing changes.  A stuttering step.     *)
Blocked(n) == ~CanSend(n)

SendDroppedCounted(n) == \* mutant: the dropped frame is counted
  /\ seqTx[n] <= MaxSeq
  /\ CanSend(n)
  /\ burst[n] > 0 \/ MayDrop
  /\ burst' = [burst EXCEPT ![n] = IF burst[n] > 0 THEN burst[n] - 1
                                   ELSE IF BurstLen = 0 THEN 0 ELSE BurstLen - 1]
  /\ outstanding' = [outstanding EXCEPT ![n] = @ + 1]
  /\ UNCHANGED <<ring, seqTx, bucket, nodeTime, acking, last>>

(* eth_port_send, dropped by link_model_should_drop: -3.  A burst goes on, *)
(* or the random draw starts one; no sequence number is used.              *)
SendDropped(n) ==
  /\ seqTx[n] <= MaxSeq
  /\ CanSend(n)
  /\ burst[n] > 0 \/ MayDrop
  /\ burst' = [burst EXCEPT ![n] = IF burst[n] > 0 THEN burst[n] - 1
                                   ELSE IF BurstLen = 0 THEN 0 ELSE BurstLen - 1]
  /\ UNCHANGED <<ring, seqTx, outstanding, bucket, nodeTime, acking, last>>

EarliestNow(n, now) == now \* mutant: the link is taken to be idle

(* When the link is free for the next frame: not before the last one left. *)
Earliest(n, now) == IF now > bucket[n] THEN now ELSE bucket[n]

TxRoomUnchecked(n) == TRUE \* mutant: eth_shm_enqueue's result is ignored

TxRoom(n) == Len(ring[n]) < Slots

(* link_model_inc_outstanding, after a successful enqueue only. *)
Counted(n) == IF TxRoom(n) THEN [outstanding EXCEPT ![n] = @ + 1] ELSE outstanding

(* eth_port_send past the link model: the frame is stamped, which uses a   *)
(* sequence number and link time even if the ring then turns out full (-1).*)
Send(n, now) ==
  LET free == Earliest(n, now) + Serialize
      frame == [seq |-> seqTx[n], due |-> free + Latency] IN
  /\ seqTx[n] <= MaxSeq
  /\ CanSend(n) /\ burst[n] = 0
  /\ seqTx' = [seqTx EXCEPT ![n] = @ + 1]
  /\ bucket' = [bucket EXCEPT ![n] = free]
  /\ outstanding' = Counted(n)
  /\ IF TxRoom(n)
     THEN /\ ring' = [ring EXCEPT ![n] = Append(@, frame)]
          /\ nodeTime' = [nodeTime EXCEPT ![n] = frame.due]
     ELSE UNCHANGED <<ring, nodeTime>>
  /\ UNCHANGED <<burst, acking, last>>

(* eth_port_recv, non-blocking.  A frame is delivered when it is polled,   *)
(* its due time is left to the caller.                                     *)
Receive(n) ==
  /\ ~acking[n] /\ ring[Peer(n)] # <<>>
  /\ last' = [last EXCEPT ![n] = Head(ring[Peer(n)])]
  /\ ring' = [ring EXCEPT ![Peer(n)] = Tail(@)]
  /\ acking' = [acking EXCEPT ![n] = TRUE]
  /\ UNCHANGED linkVars

AckTwice(n) == \* mutant: one frame is acknowledged twice
  /\ acking[n]
  /\ acking' = [acking EXCEPT ![n] = FALSE]
  /\ outstanding' = [outstanding EXCEPT ![n] = IF @ > 1 THEN @ - 2 ELSE 0]
  /\ UNCHANGED <<ring, seqTx, burst, bucket, nodeTime, last>>

(* eth_port_tx_complete, by the receiver of a frame: its own window.       *)
Ack(n) ==
  /\ acking[n]
  /\ acking' = [acking EXCEPT ![n] = FALSE]
  /\ outstanding' = [outstanding EXCEPT ![n] = IF @ > 0 THEN @ - 1 ELSE 0]
  /\ UNCHANGED <<ring, seqTx, burst, bucket, nodeTime, last>>

Next ==
  \E n \in Nodes :
    \/ \E now \in 0 .. MaxNow : Send(n, now)
    \/ SendDropped(n)
    \/ Receive(n)
    \/ Ack(n)

(* The receiving side of each node polls for ever and acknowledges. *)
Fairness == \A n \in Nodes : WF_vars(Receive(n)) /\ WF_vars(Ack(n))

Spec == Init /\ [][Next]_vars
FairSpec == Spec /\ Fairness
-----------------------------------------------------------------------------
TypeOK ==
  /\ ring \in [Nodes -> Seq(Frame)] /\ \A n \in Nodes : Len(ring[n]) <= Slots
  /\ seqTx \in [Nodes -> 0 .. MaxSeq + 1]
  /\ outstanding \in [Nodes -> Nat]
  /\ burst \in [Nodes -> 0 .. BurstLen]
  /\ bucket \in [Nodes -> 0 .. MaxTime] /\ nodeTime \in [Nodes -> 0 .. MaxTime]
  /\ acking \in [Nodes -> BOOLEAN]
  /\ last \in [Nodes -> Frame]

(* What n's peer has received followed by what is on its way to it. *)
Stream(n) == <<last[Peer(n)]>> \o ring[n]

(* Frames reach the peer in the order they were sent, each at most once,   *)
(* whatever was dropped or found the ring full in between.  None is due    *)
(* before one sent earlier, whatever local times the sender passed in, and *)
(* the published node time is that of the latest.                          *)
FramesInOrder ==
  \A n \in Nodes :
    /\ \A i, j \in 1 .. Len(Stream(n)) : i < j =>
         /\ Stream(n)[i].due <= Stream(n)[j].due
         /\ \/ Stream(n)[i].seq < Stream(n)[j].seq
            \/ i = 1 /\ last[Peer(n)] = NoFrame
    /\ Stream(n)[Len(Stream(n))].due = nodeTime[n]

(* The frames n has sent that its peer has not finished with.             *)
Unconsumed(n) == Len(ring[n]) + IF acking[Peer(n)] THEN 1 ELSE 0

(* What a receiver frees is its own window, so that neither window counts  *)
(* the frames its sender has on the way.  Together they still do: every    *)
(* frame under way in either direction is counted by one of the two, and   *)
(* no more are than the two windows allow.                                 *)
WindowsCoverUnconsumed ==
  /\ Unconsumed(A) + Unconsumed(B) <= outstanding[A] + outstanding[B]
  /\ Window > 0 => outstanding[A] + outstanding[B] <= 2 * Window

(* What eth_port.h says of eth_port_tx_complete: the window of a port      *)
(* counts the frames sent there that the peer has not consumed.            *)
WindowCountsUnconsumed == \A n \in Nodes : outstanding[n] = Unconsumed(n)

(* A sender the window blocks goes on once it receives a frame: those of   *)
(* its peer let it go.  They can not both be blocked for ever, whatever    *)
(* was dropped or found a ring full.                                       *)
BlockedSenderResumes ==
  /\ \A n \in Nodes : Blocked(n) /\ (ring[Peer(n)] # <<>> \/ acking[n]) ~> ~Blocked(n)
  /\ Blocked(A) /\ Blocked(B) ~> ~(Blocked(A) /\ Blocked(B))
=============================================================================
