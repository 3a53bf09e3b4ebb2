--------------------------- MODULE EthLinkProofs ---------------------------
(***************************************************************************)
(* Proofs about EthLink for every ring size, window, burst length, rate    *)
(* and latency: the types, the order of frames and of their deadlines, and *)
(* what the two flow-control windows count.                                *)
(***************************************************************************)
EXTENDS EthLink, TLAPS, SequenceTheorems

(* Link time grows by one frame per sequence number used. *)
BucketBound == \A n \in Nodes : bucket[n] <= MaxNow + Serialize * seqTx[n]
TypeInv == TypeOK /\ BucketBound

(* A stream s is in order: deadlines do not decrease, sequence numbers     *)
(* increase and are below the next one, its last frame is due at time t.   *)
(* The first element says nothing while no frame has been received.        *)
Ordered(s, nothing, sent, t) ==
  /\ \A i, j \in 1 .. Len(s) : i < j =>
       /\ s[i].due <= s[j].due
       /\ s[i].seq < s[j].seq \/ (i = 1 /\ nothing)
  /\ \A i \in 1 .. Len(s) : s[i].seq < sent \/ (i = 1 /\ nothing)
  /\ s[Len(s)].due = t

(* What makes the order last: the next frame leaves the link no earlier    *)
(* than the latest one in the ring did.                                    *)
OrderInv ==
  \A n \in Nodes :
    /\ Ordered(Stream(n), last[Peer(n)] = NoFrame, seqTx[n], nodeTime[n])
    /\ nodeTime[n] <= bucket[n] + Latency
-----------------------------------------------------------------------------
LEMMA Numbers ==
  /\ Slots \in Nat /\ Window \in Nat /\ BurstLen \in Nat /\ Serialize \in Nat
  /\ Latency \in Nat /\ MaxSeq \in Nat /\ MaxNow \in Nat
BY LinkAssumption

LEMMA Peers ==
  /\ \A n \in Nodes : Peer(n) \in Nodes /\ Peer(n) # n /\ Peer(Peer(n)) = n
  /\ \A n, m \in Nodes : n # m => m = Peer(n)
BY LinkAssumption DEF Nodes, Peer

LEMMA SerializeStep ==
  ASSUME NEW k \in Nat
  PROVE  /\ Serialize * k \in Nat
         /\ Serialize * (k + 1) = Serialize * k + Serialize
BY Numbers

LEMMA SerializeMonotone ==
  ASSUME NEW k \in Nat, NEW m \in Nat, k <= m
  PROVE  Serialize * k <= Serialize * m
<1>1. m - k \in Nat /\ Serialize * (m - k) \in Nat BY Numbers
<1>2. Serialize * m = Serialize * k + Serialize * (m - k) BY <1>1, Numbers
<1> QED BY <1>1, <1>2, SerializeStep

LEMMA MaxTimeType == MaxTime \in Nat
<1>1. MaxSeq + 1 \in Nat BY Numbers
<1> QED BY <1>1, SerializeStep, Numbers DEF MaxTime

(* When a frame sent now leaves the link. *)
LEMMA FreeTime ==
  ASSUME TypeInv, NEW n \in Nodes, NEW now \in 0 .. MaxNow, seqTx[n] <= MaxSeq
  PROVE  /\ Earliest(n, now) + Serialize \in Nat
         /\ bucket[n] <= Earliest(n, now) + Serialize
         /\ Earliest(n, now) + Serialize <= MaxNow + Serialize * (seqTx[n] + 1)
         /\ Earliest(n, now) + Serialize + Latency \in 0 .. MaxTime
<1>1. bucket[n] \in Nat /\ seqTx[n] \in Nat BY Numbers DEF TypeInv, TypeOK
<1>2. bucket[n] <= MaxNow + Serialize * seqTx[n] BY DEF TypeInv, BucketBound
<1>3. /\ Serialize * seqTx[n] \in Nat /\ Serialize * (MaxSeq + 1) \in Nat
      /\ Serialize * (seqTx[n] + 1) = Serialize * seqTx[n] + Serialize
      /\ Serialize * (seqTx[n] + 1) <= Serialize * (MaxSeq + 1)
  <2>1. MaxSeq + 1 \in Nat /\ seqTx[n] + 1 \in Nat /\ seqTx[n] + 1 <= MaxSeq + 1
    BY <1>1, Numbers
  <2> QED BY <1>1, <2>1, SerializeStep, SerializeMonotone
<1> DEFINE u == Serialize * seqTx[n]
           v == Serialize * (seqTx[n] + 1)
           w == Serialize * (MaxSeq + 1)
<1>4. u \in Nat /\ v = u + Serialize /\ v <= w /\ w \in Nat BY <1>3
<1>5. bucket[n] <= MaxNow + u /\ MaxTime = MaxNow + w + Latency BY <1>2 DEF MaxTime
<1> HIDE DEF u, v, w
<1>6. /\ Earliest(n, now) + Serialize \in Nat
      /\ bucket[n] <= Earliest(n, now) + Serialize
      /\ Earliest(n, now) + Serialize <= MaxNow + v
      /\ Earliest(n, now) + Serialize + Latency \in 0 .. MaxTime
  BY <1>1, <1>4, <1>5, Numbers DEF Earliest
<1> QED BY <1>6 DEF v
-----------------------------------------------------------------------------
LEMMA InitType == Init => TypeInv
<1> SUFFICES ASSUME Init PROVE TypeInv
  OBVIOUS
<1>1. NoFrame \in Frame BY MaxTimeType, Numbers DEF NoFrame, Frame
<1>2. TypeOK BY <1>1, MaxTimeType, Numbers DEF Init, TypeOK
<1>3. BucketBound BY Numbers, SerializeStep DEF Init, BucketBound
<1> QED BY <1>2, <1>3 DEF TypeInv

(* One ring changes. *)
LEMMA RingUpdate ==
  ASSUME TypeOK, NEW m \in Nodes, NEW r \in Seq(Frame), Len(r) <= Slots,
         ring' = [ring EXCEPT ![m] = r]
  PROVE  /\ ring' \in [Nodes -> Seq(Frame)] /\ \A k \in Nodes : Len(ring'[k]) <= Slots
         /\ ring'[m] = r
         /\ \A k \in Nodes : k # m => ring'[k] = ring[k]
<1>1. ring \in [Nodes -> Seq(Frame)] /\ \A k \in Nodes : Len(ring[k]) <= Slots
  BY DEF TypeOK
<1>2. ring'[m] = r /\ \A k \in Nodes : k # m => ring'[k] = ring[k] BY <1>1
<1>3. ring' \in [Nodes -> Seq(Frame)] BY <1>1
<1> QED BY <1>1, <1>2, <1>3

LEMMA SendType ==
  ASSUME TypeInv, NEW n \in Nodes, NEW now \in 0 .. MaxNow, Send(n, now)
  PROVE  TypeInv'
<1> DEFINE free == Earliest(n, now) + Serialize
           frame == [seq |-> seqTx[n], due |-> free + Latency]
<1>0. TypeOK /\ BucketBound /\ seqTx[n] <= MaxSeq BY DEF TypeInv, Send
<1>1. /\ free \in Nat /\ free <= MaxNow + Serialize * (seqTx[n] + 1)
      /\ free + Latency \in 0 .. MaxTime
  BY <1>0, FreeTime
<1>2. frame \in Frame BY <1>0, <1>1, Numbers DEF TypeOK, Frame
<1>3. free \in 0 .. MaxTime
  <2> HIDE DEF free
  <2> QED BY <1>1, Numbers, MaxTimeType
<1> HIDE DEF free, frame
<1>4. /\ seqTx' = [seqTx EXCEPT ![n] = @ + 1] /\ bucket' = [bucket EXCEPT ![n] = free]
      /\ UNCHANGED <<burst, acking, last>>
      /\ outstanding' = [outstanding EXCEPT ![n] = @ + 1] \/ UNCHANGED outstanding
      /\ \/ /\ Len(ring[n]) < Slots /\ ring' = [ring EXCEPT ![n] = Append(@, frame)]
            /\ nodeTime' = [nodeTime EXCEPT ![n] = frame.due]
         \/ UNCHANGED <<ring, nodeTime>>
  BY DEF Send, Counted, TxRoom, free, frame
<1>5. ring' \in [Nodes -> Seq(Frame)] /\ \A m \in Nodes : Len(ring'[m]) <= Slots
  <2>1. ring[n] \in Seq(Frame) BY <1>0 DEF TypeOK
  <2>2. Append(ring[n], frame) \in Seq(Frame)
        /\ Len(Append(ring[n], frame)) = Len(ring[n]) + 1 /\ Len(ring[n]) \in Nat
    BY <1>2, <2>1, AppendProperties, LenProperties
  <2>3. CASE UNCHANGED ring BY <1>0, <2>3 DEF TypeOK
  <2>4. CASE /\ Len(ring[n]) < Slots /\ ring' = [ring EXCEPT ![n] = Append(@, frame)]
    <3>1. Len(Append(ring[n], frame)) <= Slots BY <2>2, <2>4, Numbers
    <3>2. ring' = [ring EXCEPT ![n] = Append(ring[n], frame)] BY <2>4
    <3> QED BY <1>0, <2>2, <3>1, <3>2, RingUpdate
  <2> QED BY <1>4, <2>3, <2>4
<1>6. nodeTime' \in [Nodes -> 0 .. MaxTime] BY <1>0, <1>2, <1>4 DEF TypeOK, Frame
<1>7. seqTx' \in [Nodes -> 0 .. MaxSeq + 1] BY <1>0, <1>4, Numbers DEF TypeOK
<1>8. bucket' \in [Nodes -> 0 .. MaxTime] BY <1>0, <1>3, <1>4 DEF TypeOK
<1>9. outstanding' \in [Nodes -> Nat]
  <2>1. outstanding \in [Nodes -> Nat] /\ outstanding[n] + 1 \in Nat BY <1>0 DEF TypeOK
  <2> QED BY <1>4, <2>1
<1>10. TypeOK' BY <1>0, <1>4, <1>5, <1>6, <1>7, <1>8, <1>9 DEF TypeOK
<1>11. BucketBound'
  <2> SUFFICES ASSUME NEW m \in Nodes
               PROVE  bucket'[m] <= MaxNow + Serialize * seqTx'[m]
    BY DEF BucketBound
  <2>1. CASE m = n
    <3>1. bucket'[m] = free /\ seqTx'[m] = seqTx[n] + 1 BY <1>0, <1>4, <2>1 DEF TypeOK
    <3> QED BY <1>1, <3>1
  <2>2. CASE m # n
    <3>1. bucket'[m] = bucket[m] /\ seqTx'[m] = seqTx[m] BY <1>0, <1>4, <2>2 DEF TypeOK
    <3> QED BY <1>0, <3>1 DEF BucketBound
  <2> QED BY <2>1, <2>2
<1> QED BY <1>10, <1>11 DEF TypeInv

LEMMA ReceiveType == ASSUME TypeInv, NEW n \in Nodes, Receive(n) PROVE TypeInv'
<1>1. /\ ring[Peer(n)] \in Seq(Frame) /\ ring[Peer(n)] # <<>> /\ Peer(n) \in Nodes
      /\ Len(ring[Peer(n)]) <= Slots
  BY Peers DEF TypeInv, TypeOK, Receive
<1>2. /\ Head(ring[Peer(n)]) \in Frame /\ Tail(ring[Peer(n)]) \in Seq(Frame)
      /\ Len(Tail(ring[Peer(n)])) = Len(ring[Peer(n)]) - 1 /\ Len(ring[Peer(n)]) \in Nat
  BY <1>1, HeadTailProperties, LenProperties
<1>3. ring' \in [Nodes -> Seq(Frame)] /\ \A m \in Nodes : Len(ring'[m]) <= Slots
  <2>1. ring' = [ring EXCEPT ![Peer(n)] = Tail(ring[Peer(n)])] BY DEF Receive
  <2>2. Len(Tail(ring[Peer(n)])) <= Slots BY <1>1, <1>2, Numbers
  <2> QED BY <1>1, <1>2, <2>1, <2>2, RingUpdate DEF TypeInv
<1>4. last' \in [Nodes -> Frame] BY <1>2 DEF TypeInv, TypeOK, Receive
<1> QED BY <1>3, <1>4 DEF TypeInv, TypeOK, BucketBound, Receive, linkVars

LEMMA NextType == ASSUME TypeInv, [Next]_vars PROVE TypeInv'
<1>1. ASSUME NEW n \in Nodes, NEW now \in 0 .. MaxNow, Send(n, now) PROVE TypeInv'
  BY <1>1, SendType
<1>2. ASSUME NEW n \in Nodes, SendDropped(n) PROVE TypeInv'
  <2>1. burst' \in [Nodes -> 0 .. BurstLen]
    BY <1>2, Numbers DEF TypeInv, TypeOK, SendDropped
  <2> QED BY <1>2, <2>1 DEF TypeInv, TypeOK, BucketBound, SendDropped
<1>3. ASSUME NEW n \in Nodes, Receive(n) PROVE TypeInv'
  BY <1>3, ReceiveType
<1>4. ASSUME NEW n \in Nodes, Ack(n) PROVE TypeInv'
  <2>1. outstanding' \in [Nodes -> Nat] /\ acking' \in [Nodes -> BOOLEAN]
    BY <1>4, Peers DEF TypeInv, TypeOK, Ack
  <2> QED BY <1>4, <2>1 DEF TypeInv, TypeOK, BucketBound, Ack
<1>5. CASE UNCHANGED vars BY <1>5 DEF TypeInv, TypeOK, BucketBound, vars
<1> QED BY <1>1, <1>2, <1>3, <1>4, <1>5 DEF Next

(* The state of both ports, their link models and the rings between them   *)
(* keeps its types; no deadline exceeds what the bounds allow.             *)
THEOREM LinkTypes == Spec => []TypeOK
<1>1. TypeInv /\ [Next]_vars => TypeInv' BY NextType
<1>2. TypeInv => TypeOK BY DEF TypeInv
<1> QED BY InitType, <1>1, <1>2, PTL DEF Spec
-----------------------------------------------------------------------------
(* Order *)

LEMMA StreamElements ==
  ASSUME NEW x \in Frame, NEW r \in Seq(Frame)
  PROVE  /\ <<x>> \o r \in Seq(Frame)
         /\ Len(<<x>> \o r) = Len(r) + 1 /\ Len(r) \in Nat
         /\ (<<x>> \o r)[1] = x
         /\ \A i \in 1 .. Len(r) : (<<x>> \o r)[i + 1] = r[i]
<1>1. <<x>> \in Seq(Frame) /\ Len(<<x>>) = 1 /\ <<x>>[1] = x OBVIOUS
<1>2. Len(r) \in Nat BY LenProperties
<1>3. /\ <<x>> \o r \in Seq(Frame) /\ Len(<<x>> \o r) = 1 + Len(r)
      /\ \A i \in 1 .. 1 + Len(r) :
           (<<x>> \o r)[i] = IF i <= 1 THEN <<x>>[i] ELSE r[i - 1]
  BY <1>1, ConcatProperties
<1> QED BY <1>1, <1>2, <1>3

LEMMA FrameNumbers ==
  ASSUME NEW f \in Frame PROVE f.seq \in Nat /\ f.due \in Nat
BY MaxTimeType, Numbers DEF Frame

(* A frame stamped with the next sequence number, due no earlier than the  *)
(* last one, keeps a stream in order.                                      *)
LEMMA OrderedAppend ==
  ASSUME NEW s \in Seq(Frame), NEW z \in Seq(Frame), NEW f \in Frame, Len(s) > 0,
         Len(z) = Len(s) + 1, z[Len(z)] = f, \A i \in 1 .. Len(s) : z[i] = s[i],
         NEW nothing, NEW sent, NEW t, Ordered(s, nothing, sent, t),
         f.seq = sent, t <= f.due
  PROVE  Ordered(z, nothing, sent + 1, f.due)
<1>0. Len(s) \in Nat /\ sent \in Nat BY LenProperties, FrameNumbers
<1>1. ASSUME NEW i \in 1 .. Len(s)
      PROVE  s[i] \in Frame /\ s[i].due \in Nat /\ s[i].seq \in Nat
  BY FrameNumbers, ElementOfSeq
<1>2. s[Len(s)].due = t /\ t \in Nat BY <1>0, <1>1 DEF Ordered
<1>3. ASSUME NEW i \in 1 .. Len(s) PROVE s[i].due <= f.due
  <2>1. CASE i = Len(s) BY <1>2, <2>1
  <2>2. CASE i < Len(s)
    <3>1. Len(s) \in 1 .. Len(s) BY <1>0
    <3>2. s[i].due <= s[Len(s)].due BY <2>2, <3>1 DEF Ordered
    <3>3. f.due \in Nat BY FrameNumbers
    <3> QED BY <1>1, <1>2, <3>2, <3>3
  <2> QED BY <1>0, <2>1, <2>2
<1>4. ASSUME NEW i \in 1 .. Len(s) PROVE s[i].seq < sent \/ (i = 1 /\ nothing)
  BY DEF Ordered
<1>5. ASSUME NEW i \in 1 .. Len(z), NEW j \in 1 .. Len(z), i < j
      PROVE  /\ z[i].due <= z[j].due
             /\ z[i].seq < z[j].seq \/ (i = 1 /\ nothing)
  <2>1. i \in 1 .. Len(s) /\ z[i] = s[i] BY <1>0, <1>5
  <2>2. CASE j = Len(z) BY <1>3, <1>4, <2>1, <2>2
  <2>3. CASE j # Len(z)
    <3>1. j \in 1 .. Len(s) /\ z[j] = s[j] BY <1>0, <2>3
    <3> QED BY <1>5, <2>1, <3>1 DEF Ordered
  <2> QED BY <2>2, <2>3
<1>6. ASSUME NEW i \in 1 .. Len(z) PROVE z[i].seq < sent + 1 \/ (i = 1 /\ nothing)
  <2>1. CASE i = Len(z) BY <1>0, <2>1
  <2>2. CASE i # Len(z)
    <3>1. i \in 1 .. Len(s) /\ z[i] = s[i] BY <1>0, <2>2
    <3>2. s[i].seq \in Nat BY <1>1, <3>1
    <3> QED BY <1>0, <1>4, <3>1, <3>2
  <2> QED BY <2>1, <2>2
<1> QED BY <1>5, <1>6 DEF Ordered

(* Without its first element a stream is in order, and the element that is *)
(* now first is no exception.                                              *)
LEMMA OrderedTail ==
  ASSUME NEW s \in Seq(Frame), NEW z \in Seq(Frame), Len(s) > 1,
         Len(z) = Len(s) - 1, \A i \in 1 .. Len(z) : z[i] = s[i + 1],
         NEW nothing, NEW never, NEW sent, NEW t, Ordered(s, nothing, sent, t)
  PROVE  Ordered(z, never, sent, t)
<1>0. Len(s) \in Nat BY LenProperties
<1>1. ASSUME NEW i \in 1 .. Len(z), NEW j \in 1 .. Len(z), i < j
      PROVE  z[i].due <= z[j].due /\ z[i].seq < z[j].seq
  <2>1. i + 1 \in 1 .. Len(s) /\ j + 1 \in 1 .. Len(s) /\ i + 1 < j + 1 /\ i + 1 # 1
    BY <1>0, <1>1
  <2> QED BY <2>1 DEF Ordered
<1>2. ASSUME NEW i \in 1 .. Len(z) PROVE z[i].seq < sent
  <2>1. i + 1 \in 1 .. Len(s) /\ i + 1 # 1 BY <1>0
  <2> QED BY <2>1 DEF Ordered
<1>3. z[Len(z)].due = t
  <2>1. Len(z) \in 1 .. Len(z) /\ Len(z) + 1 = Len(s) BY <1>0
  <2> QED BY <2>1 DEF Ordered
<1> QED BY <1>1, <1>2, <1>3 DEF Ordered

LEMMA InitOrder == Init => OrderInv
<1> SUFFICES ASSUME Init, NEW n \in Nodes
             PROVE  /\ Ordered(Stream(n), last[Peer(n)] = NoFrame, seqTx[n], nodeTime[n])
                    /\ nodeTime[n] <= bucket[n] + Latency
  BY DEF OrderInv
<1>1. /\ last[Peer(n)] = NoFrame /\ ring[n] = <<>> /\ nodeTime[n] = 0
      /\ bucket[n] = 0 /\ seqTx[n] = 0
  BY Peers DEF Init
<1>2. Stream(n) = <<NoFrame>> BY <1>1 DEF Stream
<1>3. Len(Stream(n)) = 1 /\ Stream(n)[1] = NoFrame /\ NoFrame.due = 0
  BY <1>2 DEF NoFrame
<1> QED BY <1>1, <1>3, Numbers DEF Ordered

(* eth_port_send: the new frame, or only a used sequence number.           *)
LEMMA SendOrder ==
  ASSUME TypeInv, OrderInv, NEW n \in Nodes, NEW now \in 0 .. MaxNow, Send(n, now),
         NEW m \in Nodes
  PROVE  /\ Ordered(Stream(m), last[Peer(m)] = NoFrame, seqTx[m], nodeTime[m])'
         /\ nodeTime'[m] <= bucket'[m] + Latency
<1> DEFINE free == Earliest(n, now) + Serialize
           frame == [seq |-> seqTx[n], due |-> free + Latency]
<1>0. TypeOK /\ seqTx[n] \in Nat /\ bucket[n] \in Nat /\ nodeTime[n] \in Nat
      /\ seqTx[n] <= MaxSeq
  <2>1. TypeOK /\ seqTx[n] <= MaxSeq BY DEF TypeInv, Send
  <2>2. /\ seqTx[n] \in 0 .. MaxSeq + 1 /\ bucket[n] \in 0 .. MaxTime
        /\ nodeTime[n] \in 0 .. MaxTime
    BY <2>1 DEF TypeOK
  <2> QED BY <2>1, <2>2, MaxTimeType, Numbers
<1>1. free \in Nat /\ bucket[n] <= free /\ free + Latency \in 0 .. MaxTime
  BY <1>0, FreeTime
<1>2. frame \in Frame BY <1>0, <1>1, Numbers DEF Frame
<1>3. /\ Ordered(Stream(n), last[Peer(n)] = NoFrame, seqTx[n], nodeTime[n])
      /\ nodeTime[n] <= bucket[n] + Latency
  BY DEF OrderInv
<1>4. nodeTime[n] <= free + Latency
  <2> HIDE DEF free
  <2> QED BY <1>0, <1>1, <1>3, Numbers
<1> HIDE DEF free, frame
<1>5. /\ seqTx'[n] = seqTx[n] + 1 /\ bucket'[n] = free /\ UNCHANGED last
      /\ \A k \in Nodes : k # n => seqTx'[k] = seqTx[k] /\ bucket'[k] = bucket[k]
      /\ \A k \in Nodes : k # n => ring'[k] = ring[k] /\ nodeTime'[k] = nodeTime[k]
      /\ \/ ring'[n] = Append(ring[n], frame) /\ nodeTime'[n] = frame.due
         \/ ring'[n] = ring[n] /\ nodeTime'[n] = nodeTime[n]
  BY <1>0 DEF Send, TypeOK, free, frame
<1>6. CASE m # n
  <2>1. /\ Stream(m)' = Stream(m) /\ last'[Peer(m)] = last[Peer(m)]
        /\ seqTx'[m] = seqTx[m] /\ nodeTime'[m] = nodeTime[m] /\ bucket'[m] = bucket[m]
    BY <1>5, <1>6 DEF Stream, Peer
  <2> QED BY <2>1 DEF OrderInv, Peer, Ordered
<1>7. CASE m = n /\ ring'[n] = ring[n] /\ nodeTime'[n] = nodeTime[n]
  <2>1. Stream(n)' = Stream(n) /\ (last[Peer(n)])' = last[Peer(n)]
    BY <1>5, <1>7 DEF Stream, Peer
  <2>2. \A i \in 1 .. Len(Stream(n)) :
          Stream(n)[i].seq < seqTx[n] + 1 \/ (i = 1 /\ last[Peer(n)] = NoFrame)
    <3>1. Stream(n) \in Seq(Frame) BY <1>0, Peers, StreamElements DEF Stream, TypeOK
    <3>2. \A i \in 1 .. Len(Stream(n)) : Stream(n)[i].seq \in Nat
      BY <3>1, FrameNumbers, ElementOfSeq
    <3> QED BY <1>0, <1>3, <3>2 DEF Ordered
  <2>3. Ordered(Stream(n), last[Peer(n)] = NoFrame, seqTx[n] + 1, nodeTime[n])
    BY <1>3, <2>2 DEF Ordered
  <2>4. nodeTime[n] <= free + Latency BY <1>4
  <2> QED BY <1>5, <1>7, <2>1, <2>3, <2>4 DEF Ordered
<1>8. CASE m = n /\ ring'[n] = Append(ring[n], frame) /\ nodeTime'[n] = frame.due
  <2>1. last[Peer(n)] \in Frame /\ ring[n] \in Seq(Frame)
    BY <1>0, Peers DEF TypeOK
  <2>2. /\ Append(ring[n], frame) \in Seq(Frame)
        /\ Len(Append(ring[n], frame)) = Len(ring[n]) + 1
        /\ \A i \in 1 .. Len(ring[n]) : Append(ring[n], frame)[i] = ring[n][i]
        /\ Append(ring[n], frame)[Len(ring[n]) + 1] = frame
    BY <1>2, <2>1, AppendProperties
  <2> DEFINE z == <<last[Peer(n)]>> \o Append(ring[n], frame)
  <2>3. z = Stream(n)' /\ (last[Peer(n)])' = last[Peer(n)]
    BY <1>5, <1>8 DEF Stream, Peer
  <2>4. /\ Stream(n) \in Seq(Frame) /\ Len(Stream(n)) = Len(ring[n]) + 1
        /\ Len(ring[n]) \in Nat /\ Stream(n)[1] = last[Peer(n)]
        /\ \A i \in 1 .. Len(ring[n]) : Stream(n)[i + 1] = ring[n][i]
    BY <2>1, StreamElements DEF Stream
  <2>5. /\ z \in Seq(Frame) /\ Len(z) = Len(ring[n]) + 2 /\ z[1] = last[Peer(n)]
        /\ \A i \in 1 .. Len(ring[n]) + 1 : z[i + 1] = Append(ring[n], frame)[i]
    <3>1. /\ z \in Seq(Frame) /\ Len(z) = Len(Append(ring[n], frame)) + 1
          /\ z[1] = last[Peer(n)]
          /\ \A i \in 1 .. Len(Append(ring[n], frame)) :
               z[i + 1] = Append(ring[n], frame)[i]
      BY <2>1, <2>2, StreamElements
    <3> HIDE DEF z
    <3> QED BY <2>2, <2>4, <3>1
  <2> HIDE DEF z
  <2>6. z[Len(z)] = frame
    <3>1. Len(ring[n]) + 1 \in 1 .. Len(ring[n]) + 1 BY <2>4
    <3>2. Len(z) = (Len(ring[n]) + 1) + 1 BY <2>4, <2>5
    <3> QED BY <2>2, <2>5, <3>1, <3>2
  <2>7. \A i \in 1 .. Len(Stream(n)) : z[i] = Stream(n)[i]
    <3> SUFFICES ASSUME NEW i \in 1 .. Len(ring[n]) + 1 PROVE z[i] = Stream(n)[i]
      BY <2>4
    <3>1. CASE i = 1 BY <2>4, <2>5, <3>1
    <3>2. CASE i # 1
      <4>1. i - 1 \in 1 .. Len(ring[n]) /\ i - 1 \in 1 .. Len(ring[n]) + 1
            /\ i = (i - 1) + 1
        BY <2>4, <3>2
      <4>2. z[i] = Append(ring[n], frame)[i - 1] BY <2>5, <4>1
      <4>3. Stream(n)[i] = ring[n][i - 1] BY <2>4, <4>1
      <4> QED BY <2>2, <4>1, <4>2, <4>3
    <3> QED BY <3>1, <3>2
  <2>8. frame.seq = seqTx[n] /\ frame.due = free + Latency BY DEF frame
  <2>9. Len(Stream(n)) > 0 /\ Len(z) = Len(Stream(n)) + 1 BY <2>4, <2>5
  <2>10. Ordered(z, last[Peer(n)] = NoFrame, seqTx[n] + 1, frame.due)
    BY <1>2, <1>3, <1>4, <2>4, <2>5, <2>6, <2>7, <2>8, <2>9, OrderedAppend
  <2>11. frame.due <= free + Latency BY <1>1, <2>8, Numbers
  <2> QED BY <1>5, <1>8, <2>3, <2>10, <2>11 DEF Ordered
<1> QED BY <1>5, <1>6, <1>7, <1>8

(* eth_port_recv: the stream loses the frame received before. *)
LEMMA ReceiveOrder ==
  ASSUME TypeInv, OrderInv, NEW n \in Nodes, Receive(n), NEW m \in Nodes
  PROVE  /\ Ordered(Stream(m), last[Peer(m)] = NoFrame, seqTx[m], nodeTime[m])'
         /\ nodeTime'[m] <= bucket'[m] + Latency
<1>0. TypeOK /\ Peer(n) \in Nodes /\ Peer(n) # n /\ Peer(Peer(n)) = n
  BY Peers DEF TypeInv
<1>1. /\ UNCHANGED <<seqTx, bucket, nodeTime>> /\ ring[Peer(n)] # <<>>
      /\ last'[n] = Head(ring[Peer(n)]) /\ ring'[Peer(n)] = Tail(ring[Peer(n)])
      /\ \A k \in Nodes : k # n => last'[k] = last[k]
      /\ \A k \in Nodes : k # Peer(n) => ring'[k] = ring[k]
  BY <1>0 DEF Receive, TypeOK, linkVars
<1>2. CASE m # Peer(n)
  <2>1. m = n BY <1>2, <1>0, Peers
  <2>2. ring'[m] = ring[m] /\ last'[Peer(m)] = last[Peer(m)] BY <1>0, <1>1, <1>2, <2>1
  <2>3. Stream(m)' = Stream(m) /\ (last[Peer(m)])' = last[Peer(m)]
    BY <2>2 DEF Stream, Peer
  <2> QED BY <1>1, <2>3 DEF OrderInv, Ordered
<1>3. CASE m = Peer(n)
  <2> DEFINE r == ring[m]
             z == <<Head(r)>> \o Tail(r)
  <2>1. r \in Seq(Frame) /\ r # <<>> /\ last[n] \in Frame BY <1>0, <1>1, <1>3 DEF TypeOK
  <2>2. /\ Head(r) \in Frame /\ Tail(r) \in Seq(Frame) /\ Len(r) \in Nat \ {0}
        /\ Len(Tail(r)) = Len(r) - 1 /\ Head(r) = r[1]
        /\ \A i \in 1 .. Len(Tail(r)) : Tail(r)[i] = r[i + 1]
    BY <2>1, HeadTailProperties, EmptySeq
  <2>3. Stream(m) = <<last[n]>> \o r /\ Stream(m)' = z /\ Peer(m) = n
    BY <1>0, <1>1, <1>3 DEF Stream, Peer
  <2>4. /\ Stream(m) \in Seq(Frame) /\ Len(Stream(m)) = Len(r) + 1
        /\ \A i \in 1 .. Len(r) : Stream(m)[i + 1] = r[i]
    BY <2>1, <2>3, StreamElements
  <2>5. /\ z \in Seq(Frame) /\ Len(z) = Len(Tail(r)) + 1 /\ z[1] = Head(r)
        /\ \A i \in 1 .. Len(Tail(r)) : z[i + 1] = Tail(r)[i]
    BY <2>2, StreamElements
  <2> HIDE DEF z
  <2>6. Len(Stream(m)) > 1 /\ Len(z) = Len(Stream(m)) - 1 BY <2>2, <2>4, <2>5
  <2>7. \A i \in 1 .. Len(z) : z[i] = Stream(m)[i + 1]
    <3> SUFFICES ASSUME NEW i \in 1 .. Len(r) PROVE z[i] = Stream(m)[i + 1]
      BY <2>2, <2>5
    <3>1. CASE i = 1 BY <2>2, <2>4, <2>5, <3>1
    <3>2. CASE i # 1
      <4>1. i - 1 \in 1 .. Len(Tail(r)) /\ i = (i - 1) + 1 BY <2>2, <3>2
      <4>2. z[i] = r[i] BY <2>2, <2>5, <4>1
      <4> QED BY <2>4, <4>2
    <3> QED BY <3>1, <3>2
  <2>8. Ordered(Stream(m), last[n] = NoFrame, seqTx[m], nodeTime[m])
    BY <2>3 DEF OrderInv
  <2>9. Ordered(z, last'[n] = NoFrame, seqTx[m], nodeTime[m])
    BY <2>4, <2>5, <2>6, <2>7, <2>8, OrderedTail
  <2>10. (last[Peer(m)])' = last'[n] BY <2>3 DEF Peer
  <2> QED BY <1>1, <2>3, <2>9, <2>10 DEF OrderInv, Ordered
<1> QED BY <1>2, <1>3

LEMMA NextOrder == ASSUME TypeInv, OrderInv, [Next]_vars PROVE OrderInv'
<1> SUFFICES ASSUME NEW m \in Nodes
             PROVE  /\ Ordered(Stream(m), last[Peer(m)] = NoFrame, seqTx[m], nodeTime[m])'
                    /\ nodeTime'[m] <= bucket'[m] + Latency
  BY DEF OrderInv
<1>1. ASSUME NEW n \in Nodes, NEW now \in 0 .. MaxNow, Send(n, now)
      PROVE  /\ Ordered(Stream(m), last[Peer(m)] = NoFrame, seqTx[m], nodeTime[m])'
             /\ nodeTime'[m] <= bucket'[m] + Latency
  BY <1>1, SendOrder
<1>2. ASSUME NEW n \in Nodes, Receive(n)
      PROVE  /\ Ordered(Stream(m), last[Peer(m)] = NoFrame, seqTx[m], nodeTime[m])'
             /\ nodeTime'[m] <= bucket'[m] + Latency
  BY <1>2, ReceiveOrder
<1>3. CASE UNCHANGED <<ring, seqTx, bucket, nodeTime, last>>
  <2>1. Stream(m)' = Stream(m) /\ (last[Peer(m)])' = last[Peer(m)]
    BY <1>3 DEF Stream, Peer
  <2> QED BY <1>3, <2>1 DEF OrderInv, Ordered
<1>4. \/ \E n \in Nodes, now \in 0 .. MaxNow : Send(n, now)
      \/ \E n \in Nodes : Receive(n)
      \/ UNCHANGED <<ring, seqTx, bucket, nodeTime, last>>
  BY DEF Next, SendDropped, Ack, vars
<1> QED BY <1>1, <1>2, <1>3, <1>4

(* Whatever is dropped, delayed or refused, frames reach the peer in the   *)
(* order they were sent and are due in that order.                         *)
THEOREM FramesKeepOrder == Spec => []FramesInOrder
<1>1. TypeInv /\ OrderInv /\ [Next]_vars => TypeInv' /\ OrderInv'
  BY NextType, NextOrder
<1>2. OrderInv => FramesInOrder
  BY DEF OrderInv, FramesInOrder, Ordered
<1>3. Init => TypeInv /\ OrderInv BY InitType, InitOrder
<1> QED BY <1>1, <1>2, <1>3, PTL DEF Spec
-----------------------------------------------------------------------------
(* The windows *)

UnderWay == \E n \in Nodes : ring[n] # <<>> \/ acking[n]

(* Besides the sums: each window is kept, and two blocked senders have     *)
(* something under way, as the last to receive a frame freed a place of    *)
(* its own window.                                                         *)
WindowInv ==
  /\ WindowsCoverUnconsumed
  /\ \A n \in Nodes : Window > 0 => outstanding[n] <= Window
  /\ Blocked(A) /\ Blocked(B) => UnderWay

LEMMA UnconsumedType ==
  ASSUME TypeOK, NEW n \in Nodes
  PROVE  /\ ring[n] \in Seq(Frame) /\ Len(ring[n]) \in Nat
         /\ Unconsumed(n) \in Nat /\ outstanding[n] \in Nat
BY LenProperties DEF TypeOK, Unconsumed

(* What a step of n does, to its own frames and window and its peer's.     *)
LEMMA SendWindow ==
  ASSUME TypeOK, NEW n \in Nodes, NEW now \in 0 .. MaxNow, Send(n, now)
  PROVE  /\ CanSend(n) /\ Unconsumed(Peer(n))' = Unconsumed(Peer(n))
         /\ outstanding'[Peer(n)] = outstanding[Peer(n)]
         /\ \/ /\ Unconsumed(n)' = Unconsumed(n) + 1 /\ outstanding'[n] = outstanding[n] + 1
               /\ ring'[n] # <<>>
            \/ /\ Unconsumed(n)' = Unconsumed(n) /\ outstanding' = outstanding
               /\ UNCHANGED <<ring, acking>>
<1>0. Peer(n) \in Nodes /\ Peer(n) # n BY Peers
<1>1. CanSend(n) /\ UNCHANGED acking BY DEF Send
<1>2. CASE TxRoom(n)
  <2>1. PICK f : /\ ring' = [ring EXCEPT ![n] = Append(@, f)]
                 /\ outstanding' = [outstanding EXCEPT ![n] = @ + 1]
    BY <1>2 DEF Send, Counted
  <2>2. /\ ring'[n] = Append(ring[n], f) /\ outstanding'[n] = outstanding[n] + 1
        /\ ring'[Peer(n)] = ring[Peer(n)] /\ outstanding'[Peer(n)] = outstanding[Peer(n)]
    BY <1>0, <2>1 DEF TypeOK
  <2>3. ring[n] \in Seq(Frame) /\ Len(ring[n]) \in Nat BY UnconsumedType
  <2>4. Len(ring'[n]) = Len(ring[n]) + 1 /\ ring'[n] # <<>>
    <3>1. Len(Append(ring[n], f)) = Len(ring[n]) + 1 BY <2>3
    <3>2. Len(<<>>) = 0 OBVIOUS
    <3>3. Len(ring'[n]) = Len(ring[n]) + 1 BY <2>2, <3>1
    <3>4. Len(ring'[n]) # 0 BY <2>3, <3>3
    <3>5. ring'[n] # <<>> BY <3>2, <3>4
    <3> QED BY <3>3, <3>5
  <2>5. Unconsumed(Peer(n))' = Unconsumed(Peer(n)) BY <1>1, <2>2 DEF Unconsumed, Peer
  <2>6. Unconsumed(n)' = Unconsumed(n) + 1
    <3>1. PICK k \in Nat : k = IF acking[Peer(n)] THEN 1 ELSE 0 OBVIOUS
    <3>2. Unconsumed(n) = Len(ring[n]) + k /\ Unconsumed(n)' = Len(ring'[n]) + k
      BY <1>1, <3>1 DEF Unconsumed, Peer
    <3> QED BY <2>3, <2>4, <3>2
  <2> QED BY <1>1, <2>2, <2>4, <2>5, <2>6
<1>3. CASE ~TxRoom(n)
  <2>1. UNCHANGED <<ring, outstanding>> BY <1>3 DEF Send, Counted
  <2> QED BY <1>1, <2>1 DEF Unconsumed, Peer
<1> QED BY <1>2, <1>3

LEMMA ReceiveWindow ==
  ASSUME TypeOK, NEW n \in Nodes, Receive(n)
  PROVE  /\ UNCHANGED outstanding /\ acking'[n]
         /\ \A m \in Nodes : Unconsumed(m)' = Unconsumed(m)
<1>1. /\ UNCHANGED outstanding /\ ~acking[n] /\ acking'[n] = TRUE
      /\ ring[Peer(n)] # <<>> /\ Peer(n) \in Nodes /\ Peer(Peer(n)) = n
      /\ \A k \in Nodes : k # n => acking'[k] = acking[k]
      /\ ring'[Peer(n)] = Tail(ring[Peer(n)])
      /\ \A k \in Nodes : k # Peer(n) => ring'[k] = ring[k]
  BY Peers DEF Receive, TypeOK, linkVars
<1>2. Unconsumed(Peer(n))' = Unconsumed(Peer(n))
  <2>1. ring[Peer(n)] \in Seq(Frame) /\ Len(ring[Peer(n)]) \in Nat BY <1>1, UnconsumedType
  <2>2. Len(Tail(ring[Peer(n)])) = Len(ring[Peer(n)]) - 1 BY <1>1, <2>1, HeadTailProperties
  <2>3. Unconsumed(Peer(n)) = Len(ring[Peer(n)]) + 0 BY <1>1 DEF Unconsumed
  <2>4. Unconsumed(Peer(n))' = Len(Tail(ring[Peer(n)])) + 1 BY <1>1 DEF Unconsumed, Peer
  <2> QED BY <2>1, <2>2, <2>3, <2>4
<1>3. Unconsumed(n)' = Unconsumed(n) BY <1>1, Peers DEF Unconsumed, Peer
<1> QED BY <1>1, <1>2, <1>3, Peers

LEMMA AckWindow ==
  ASSUME TypeOK, NEW n \in Nodes, Ack(n)
  PROVE  /\ Unconsumed(n)' = Unconsumed(n)
         /\ Unconsumed(Peer(n))' = Unconsumed(Peer(n)) - 1
         /\ outstanding'[Peer(n)] = outstanding[Peer(n)]
         /\ outstanding'[n] = IF outstanding[n] > 0 THEN outstanding[n] - 1 ELSE 0
<1>1. /\ UNCHANGED ring /\ acking[n] /\ acking'[n] = FALSE
      /\ Peer(n) \in Nodes /\ Peer(n) # n /\ Peer(Peer(n)) = n
      /\ \A k \in Nodes : k # n => acking'[k] = acking[k]
      /\ outstanding'[n] = IF outstanding[n] > 0 THEN outstanding[n] - 1 ELSE 0
      /\ \A k \in Nodes : k # n => outstanding'[k] = outstanding[k]
  BY Peers DEF Ack, TypeOK
<1>2. Unconsumed(n)' = Unconsumed(n) BY <1>1 DEF Unconsumed, Peer
<1>3. Unconsumed(Peer(n))' = Unconsumed(Peer(n)) - 1
  <2>1. Len(ring[Peer(n)]) \in Nat BY <1>1, UnconsumedType
  <2>2. Unconsumed(Peer(n)) = Len(ring[Peer(n)]) + 1 BY <1>1 DEF Unconsumed
  <2>3. Unconsumed(Peer(n))' = Len(ring[Peer(n)]) + 0 BY <1>1 DEF Unconsumed, Peer
  <2> QED BY <2>1, <2>2, <2>3
<1> QED BY <1>1, <1>2, <1>3

(* Sums over the two nodes, by a node and its peer. *)
LEMMA BothNodes ==
  ASSUME NEW n \in Nodes
  PROVE  \/ n = A /\ Peer(n) = B
         \/ n = B /\ Peer(n) = A
BY LinkAssumption DEF Nodes, Peer

LEMMA NextWindow == ASSUME TypeInv, WindowInv, [Next]_vars PROVE WindowInv'
<1>0. /\ TypeOK /\ TypeOK' /\ A \in Nodes /\ B \in Nodes /\ Window \in Nat
  BY NextType, Numbers DEF TypeInv, Nodes
<1>1. /\ \A n \in Nodes : Unconsumed(n) \in Nat /\ outstanding[n] \in Nat
      /\ \A n \in Nodes : Unconsumed(n)' \in Nat /\ outstanding'[n] \in Nat
  <2>1. \A n \in Nodes : Unconsumed(n) \in Nat /\ outstanding[n] \in Nat BY <1>0, UnconsumedType
  <2>2. \A n \in Nodes : Unconsumed(n)' \in Nat /\ outstanding'[n] \in Nat
    <3>1. TypeOK' => \A n \in Nodes : (Unconsumed(n) \in Nat)' /\ (outstanding[n] \in Nat)'
      BY LenProperties DEF TypeOK, Unconsumed
    <3> QED BY <1>0, <3>1
  <2> QED BY <2>1, <2>2
<1>2. ASSUME NEW n \in Nodes, NEW now \in 0 .. MaxNow, Send(n, now) PROVE WindowInv'
  <2>1. /\ CanSend(n) /\ Unconsumed(Peer(n))' = Unconsumed(Peer(n))
        /\ outstanding'[Peer(n)] = outstanding[Peer(n)]
        /\ \/ /\ Unconsumed(n)' = Unconsumed(n) + 1 /\ outstanding'[n] = outstanding[n] + 1
              /\ ring'[n] # <<>>
           \/ /\ Unconsumed(n)' = Unconsumed(n) /\ outstanding' = outstanding
              /\ UNCHANGED <<ring, acking>>
    BY <1>0, <1>2, SendWindow
  <2>2. \/ n = A /\ Peer(n) = B
        \/ n = B /\ Peer(n) = A
    BY <1>2, BothNodes
  <2>3. \A m \in Nodes : Window > 0 => outstanding'[m] <= Window
    <3>1. Window > 0 => outstanding[n] < Window BY <2>1 DEF CanSend
    <3>2. \A m \in Nodes : Window > 0 => outstanding[m] <= Window BY DEF WindowInv
    <3>3. Window > 0 => outstanding'[n] <= Window BY <1>0, <1>1, <2>1, <3>1
    <3>4. Window > 0 => outstanding'[Peer(n)] <= Window BY <2>1, <3>2, Peers
    <3> QED BY <3>3, <3>4, Peers
  <2>4. Unconsumed(A)' + Unconsumed(B)' <= outstanding'[A] + outstanding'[B]
    <3>1. Unconsumed(A) + Unconsumed(B) <= outstanding[A] + outstanding[B]
      BY DEF WindowInv, WindowsCoverUnconsumed
    <3>2. \/ Unconsumed(n)' = Unconsumed(n) + 1 /\ outstanding'[n] = outstanding[n] + 1
          \/ Unconsumed(n)' = Unconsumed(n) /\ outstanding'[n] = outstanding[n]
      BY <2>1
    <3>3. CASE n = A /\ Peer(n) = B
      <4>1. Unconsumed(B)' = Unconsumed(B) /\ outstanding'[B] = outstanding[B] BY <2>1, <3>3
      <4>2. \/ Unconsumed(A)' = Unconsumed(A) + 1 /\ outstanding'[A] = outstanding[A] + 1
            \/ Unconsumed(A)' = Unconsumed(A) /\ outstanding'[A] = outstanding[A]
        BY <3>2, <3>3
      <4> QED BY <1>0, <1>1, <3>1, <4>1, <4>2
    <3>4. CASE n = B /\ Peer(n) = A
      <4>1. Unconsumed(A)' = Unconsumed(A) /\ outstanding'[A] = outstanding[A] BY <2>1, <3>4
      <4>2. \/ Unconsumed(B)' = Unconsumed(B) + 1 /\ outstanding'[B] = outstanding[B] + 1
            \/ Unconsumed(B)' = Unconsumed(B) /\ outstanding'[B] = outstanding[B]
        BY <3>2, <3>4
      <4> QED BY <1>0, <1>1, <3>1, <4>1, <4>2
    <3> QED BY <2>2, <3>3, <3>4
  <2>5. UnderWay' \/ UNCHANGED <<ring, acking, outstanding>> BY <2>1 DEF UnderWay
  <2>6. (Blocked(A) /\ Blocked(B) => UnderWay)'
    BY <2>5 DEF WindowInv, Blocked, CanSend, UnderWay
  <2> QED BY <1>0, <1>1, <2>3, <2>4, <2>6 DEF WindowInv, WindowsCoverUnconsumed
<1>3. ASSUME NEW n \in Nodes, Receive(n) PROVE WindowInv'
  <2>1. /\ UNCHANGED outstanding /\ acking'[n]
        /\ \A m \in Nodes : Unconsumed(m)' = Unconsumed(m)
    BY <1>0, <1>3, ReceiveWindow
  <2>2. UnderWay' BY <2>1 DEF UnderWay
  <2> QED BY <1>0, <2>1, <2>2 DEF WindowInv, WindowsCoverUnconsumed
<1>4. ASSUME NEW n \in Nodes, Ack(n) PROVE WindowInv'
  <2>1. /\ Unconsumed(n)' = Unconsumed(n)
        /\ Unconsumed(Peer(n))' = Unconsumed(Peer(n)) - 1
        /\ outstanding'[Peer(n)] = outstanding[Peer(n)]
        /\ outstanding'[n] = IF outstanding[n] > 0 THEN outstanding[n] - 1 ELSE 0
    BY <1>0, <1>4, AckWindow
  <2>2. \/ n = A /\ Peer(n) = B
        \/ n = B /\ Peer(n) = A
    BY <1>4, BothNodes
  <2>3. Unconsumed(A)' + Unconsumed(B)' <= outstanding'[A] + outstanding'[B]
    BY <1>0, <1>1, <2>1, <2>2 DEF WindowInv, WindowsCoverUnconsumed
  <2>4. \A m \in Nodes : Window > 0 => outstanding[m] <= Window BY DEF WindowInv
  <2>5. Window > 0 => outstanding'[n] < Window BY <1>0, <1>1, <2>1, <2>4
  <2>6. \A m \in Nodes : Window > 0 => outstanding'[m] <= Window
    BY <1>0, <1>1, <2>1, <2>4, <2>5, Peers
  <2>7. ~Blocked(n)' BY <1>0, <2>5 DEF Blocked, CanSend
  <2>8. ~(Blocked(A)' /\ Blocked(B)') BY <2>2, <2>7
  <2> QED BY <1>0, <1>1, <2>3, <2>6, <2>8 DEF WindowInv, WindowsCoverUnconsumed
<1>5. CASE UNCHANGED <<ring, outstanding, acking>>
  BY <1>5 DEF WindowInv, WindowsCoverUnconsumed, Unconsumed, Peer, UnderWay, Blocked, CanSend
<1>6. \/ \E n \in Nodes, now \in 0 .. MaxNow : Send(n, now)
      \/ \E n \in Nodes : Receive(n)
      \/ \E n \in Nodes : Ack(n)
      \/ UNCHANGED <<ring, outstanding, acking>>
  BY DEF Next, SendDropped, vars
<1> QED BY <1>2, <1>3, <1>4, <1>5, <1>6

LEMMA WindowCorrect == Spec => []WindowInv
<1>1. TypeInv /\ WindowInv /\ [Next]_vars => TypeInv' /\ WindowInv' BY NextType, NextWindow
<1>2. Init => WindowInv
  <2> SUFFICES ASSUME Init PROVE WindowInv OBVIOUS
  <2>1. A \in Nodes /\ B \in Nodes /\ Window \in Nat /\ Peer(A) \in Nodes /\ Peer(B) \in Nodes
    BY Numbers, Peers DEF Nodes
  <2>2. Unconsumed(A) = 0 /\ Unconsumed(B) = 0 BY <2>1 DEF Init, Unconsumed
  <2>3. \A n \in Nodes : outstanding[n] = 0 BY DEF Init
  <2>4. ~Blocked(A) BY <2>1, <2>3 DEF Blocked, CanSend
  <2> QED BY <2>1, <2>2, <2>3, <2>4 DEF WindowInv, WindowsCoverUnconsumed
<1> QED BY <1>1, <1>2, InitType, PTL DEF Spec

(* Though eth_port_tx_complete frees the receiver's own window, the two    *)
(* windows together count every frame under way, in either direction.      *)
THEOREM WindowsCover == Spec => []WindowsCoverUnconsumed
<1>1. WindowInv => WindowsCoverUnconsumed BY DEF WindowInv
<1> QED BY <1>1, WindowCorrect, PTL

(* Never are both senders blocked by link_model_fc_can_send with nothing   *)
(* left that would let one of them go: a frame in a ring, or one received  *)
(* whose eth_port_tx_complete is still to come.                            *)
THEOREM NeverBothStuck == Spec => [](Blocked(A) /\ Blocked(B) => UnderWay)
<1>1. WindowInv => (Blocked(A) /\ Blocked(B) => UnderWay) BY DEF WindowInv
<1> QED BY <1>1, WindowCorrect, PTL
=============================================================================
