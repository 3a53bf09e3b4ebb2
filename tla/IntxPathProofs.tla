--------------------------- MODULE IntxPathProofs ---------------------------
(***************************************************************************)
(* Proofs about IntxPath: the queue between the poller thread and the      *)
(* bottom half loses no event, the line follows the last one, and          *)
(* tb_top.sv's loop loses no interrupt; for every size of ring and queue.  *)
(***************************************************************************)
EXTENDS IntxPath, TLAPS, SequenceTheorems

(* What the poller read before it works on the queue: its own tail is      *)
(* current, and the head may since have moved towards it.                  *)
Snapshot ==
  /\ poller \in {"store", "publish"} =>
       tailSeen = tail /\ Queued(tail, head) <= Queued(tail, headSeen)
  /\ poller = "publish" => Queued(tail, headSeen) < QueueSize
  /\ Queued(tail, head) <= QueueSize
  /\ bhPc = "advance" => head # tail

QueueInv == TypeOK /\ Snapshot /\ QueueIsWatched

(* The event before the tail is the last one accepted, until the bottom    *)
(* half has taken it; then it is in its hands; then on the line.           *)
IsLast(i) == Advanced(i) = tail
Newest ==
  /\ poller = "publish" => slots[tail % QueueSize] = vector
  /\ head # tail =>
       \A i \in 0 .. Span - 1 :
         IsLast(i) => (slots[i % QueueSize] = "assert") = lastRaised
  /\ bhPc = "advance" /\ IsLast(head) => (bhVector = "assert") = lastRaised
  /\ bhPc = "deliver" /\ head = tail => (bhVector = "assert") = lastRaised
  /\ bhPc # "deliver" /\ head = tail => line = lastRaised

LineInv == QueueInv /\ Newest

(* The level asked for by the last event the loop raised. *)
Asked ==
  IF msiRing # <<>> THEN msiRing[Len(msiRing)] = "assert"
  ELSE IF poller \in {"store", "publish"} THEN vector = "assert"
  ELSE lastRaised

(* What tb_top.sv's loop keeps: the last event says what the ISR bit is,   *)
(* but for the one about to be raised, and a frame the guest has not seen  *)
(* has its bit set or in the value the handler just read.                  *)
Level ==
  ~concurrent =>
    /\ sim = "assert" => isr
    /\ sim = "deassert" => ~isr
    /\ sim = "loop" /\ ~dropped => Asked = isr
    /\ seen < injected => isr \/ (guest = "read" /\ isrValue)
LevelInv == TypeOK /\ Level
-----------------------------------------------------------------------------
LEMMA Remainder ==
  ASSUME NEW S \in Nat \ {0}, NEW n \in 0 .. 2 * S - 1
  PROVE  n % S = IF n < S THEN n ELSE n - S
<1>1. CASE n < S BY <1>1
<1>2. CASE n >= S
  <2>1. n - S \in 0 .. S - 1 /\ n = (n - S) + S BY <1>2
  <2>2. ((n - S) + S) % S = n - S BY <2>1
  <2> QED BY <1>2, <2>1, <2>2
<1> QED BY <1>1, <1>2

LEMMA SpanFacts == QueueSize \in Nat \ {0} /\ Span \in Nat \ {0} /\ Span = 2 * QueueSize
BY IntxAssumption DEF Span

(* The next position, and how many positions lie between two. *)
LEMMA Next1 ==
  ASSUME NEW i \in 0 .. Span - 1
  PROVE  /\ Advanced(i) \in 0 .. Span - 1
         /\ Advanced(i) = IF i + 1 = Span THEN 0 ELSE i + 1
<1> DEFINE n == i + 1
<1>1. n \in 0 .. 2 * Span - 1 /\ Advanced(i) = n % Span BY SpanFacts DEF Advanced
<1> HIDE DEF n
<1>2. n % Span = IF n < Span THEN n ELSE n - Span BY <1>1, SpanFacts, Remainder
<1> QED BY <1>1, <1>2, SpanFacts DEF n

LEMMA Distance ==
  ASSUME NEW t \in 0 .. Span - 1, NEW h \in 0 .. Span - 1
  PROVE  Queued(t, h) = IF t >= h THEN t - h ELSE t + Span - h
<1> DEFINE n == t + Span - h
<1>1. n \in 0 .. 2 * Span - 1 /\ Queued(t, h) = n % Span BY SpanFacts DEF Queued
<1> HIDE DEF n
<1>2. n % Span = IF n < Span THEN n ELSE n - Span BY <1>1, SpanFacts, Remainder
<1> QED BY <1>1, <1>2, SpanFacts DEF n

LEMMA Distances ==
  ASSUME NEW t \in 0 .. Span - 1, NEW h \in 0 .. Span - 1
  PROVE  /\ Queued(t, h) \in 0 .. Span - 1
         /\ Queued(t, h) = 0 <=> t = h
         /\ t # h => Queued(t, Advanced(h)) = Queued(t, h) - 1
         /\ Queued(t, h) < QueueSize =>
              Queued(Advanced(t), h) = Queued(t, h) + 1 /\ Advanced(t) # h
<1>1. Queued(t, h) = IF t >= h THEN t - h ELSE t + Span - h BY Distance
<1>2. /\ Advanced(h) \in 0 .. Span - 1
      /\ Advanced(h) = IF h + 1 = Span THEN 0 ELSE h + 1
      /\ Advanced(t) \in 0 .. Span - 1
      /\ Advanced(t) = IF t + 1 = Span THEN 0 ELSE t + 1
  BY Next1
<1>3. Queued(t, Advanced(h))
        = IF t >= Advanced(h) THEN t - Advanced(h) ELSE t + Span - Advanced(h)
  BY <1>2, Distance
<1>4. Queued(Advanced(t), h)
        = IF Advanced(t) >= h THEN Advanced(t) - h ELSE Advanced(t) + Span - h
  BY <1>2, Distance
<1> QED BY <1>1, <1>2, <1>3, <1>4, SpanFacts

(* A slot is used again only after QueueSize positions. *)
LEMMA SlotApart ==
  ASSUME NEW i \in 0 .. Span - 1, NEW t \in 0 .. Span - 1, Advanced(i) = t,
         QueueSize > 1
  PROVE  i % QueueSize # t % QueueSize
<1>1. t = IF i + 1 = Span THEN 0 ELSE i + 1 BY Next1
<1>2. i \in 0 .. 2 * QueueSize - 1 /\ t \in 0 .. 2 * QueueSize - 1 BY SpanFacts
<1>3. /\ i % QueueSize = IF i < QueueSize THEN i ELSE i - QueueSize
      /\ t % QueueSize = IF t < QueueSize THEN t ELSE t - QueueSize
  BY <1>2, SpanFacts, Remainder
<1> QED BY <1>1, <1>2, <1>3, SpanFacts

LEMMA SlotRange ==
  ASSUME NEW i \in 0 .. Span - 1 PROVE i % QueueSize \in 0 .. QueueSize - 1
<1>1. i \in 0 .. 2 * QueueSize - 1 BY SpanFacts
<1>2. i % QueueSize = IF i < QueueSize THEN i ELSE i - QueueSize
  BY <1>1, SpanFacts, Remainder
<1> QED BY <1>1, <1>2, SpanFacts
-----------------------------------------------------------------------------
(* Types *)

LEMMA RaiseType ==
  ASSUME TypeOK, NEW events \in Seq(Events), Raise(events)
  PROVE  /\ msiRing' \in Seq(Events) /\ Len(msiRing') <= RingSlots
         /\ dropped' \in BOOLEAN
         /\ ~dropped' => ~dropped /\ msiRing' = msiRing \o events
<1> DEFINE all == msiRing \o events
           k == Smaller(Len(all), RingSlots)
<1>1. all \in Seq(Events) /\ Len(all) \in Nat
  BY ConcatProperties, LenProperties DEF TypeOK
<1>2. RingSlots \in Nat BY IntxAssumption
<1> HIDE DEF all
<1>3. k \in 0 .. Len(all) /\ k <= RingSlots /\ (Len(all) <= RingSlots => k = Len(all))
  BY <1>1, <1>2 DEF Smaller
<1>4. msiRing' = SubSeq(all, 1, k) /\ dropped' = (dropped \/ Len(all) > RingSlots)
  BY DEF Raise, all
<1> HIDE DEF k
<1>5. SubSeq(all, 1, k) \in Seq(Events) /\ Len(SubSeq(all, 1, k)) = k
  BY <1>1, <1>3
<1>6. k = Len(all) => SubSeq(all, 1, k) = all BY <1>1, <1>3
<1>7. dropped \in BOOLEAN BY DEF TypeOK
<1>8. msiRing' \in Seq(Events) /\ Len(msiRing') <= RingSlots BY <1>3, <1>4, <1>5
<1>9. /\ ~dropped' => ~dropped /\ ~(Len(all) > RingSlots)
      /\ dropped' \in BOOLEAN
  BY <1>4, <1>7, Zenon
<1>10. ~dropped' => Len(all) <= RingSlots BY <1>1, <1>2, <1>9
<1>11. ~dropped' => msiRing' = all BY <1>3, <1>4, <1>6, <1>10
<1> QED BY <1>8, <1>9, <1>11 DEF all

LEMMA Frame ==
  /\ Loop \/ VipReceive \/ Clock => UNCHANGED <<concurrent, cbVars, queueVars, bh, bhVars,
                                                 lastRaised>>
  /\ Guest => UNCHANGED guestOthers
  /\ Callback => UNCHANGED cbOthers
  /\ BottomHalf => UNCHANGED bhOthers
  /\ Settled => UNCHANGED vars
BY DEF Loop, LoopIsrRead, LoopDeassert, LoopReceive, LoopAssert, VipReceive, Clock,
   VipClock, Guest, GuestInterrupt, GuestHandle, Callback, CbTake, CbStore, CbPublish,
   CbSchedule, BottomHalf, BhRun, BhTest, BhAdvance, BhDeliver, Settled, others

LEMMA NextTypes == ASSUME TypeOK, [Next]_vars PROVE TypeOK'
<1>0. "assert" \in Events /\ "deassert" \in Events BY DEF Events
<1>1. CASE Loop
  <2>1. UNCHANGED <<concurrent, cbVars, queueVars, bh, bhVars, lastRaised>>
    BY <1>1, Frame
  <2>2. CASE LoopIsrRead \/ LoopReceive
    <3>1. /\ isr' \in BOOLEAN /\ isrValue' \in BOOLEAN
          /\ sim' \in {"assert", "deassert"} /\ guest' \in {"idle", "reading", "read"}
          /\ UNCHANGED <<rx, rd, seen, msiRing, dropped>>
      BY <2>2 DEF LoopIsrRead, LoopReceive, guestVars, others, TypeOK
    <3>2. injected' \in 0 .. MaxFrames
      BY <2>2, IntxAssumption DEF LoopIsrRead, LoopReceive, TypeOK
    <3> QED BY <2>1, <3>1, <3>2 DEF TypeOK, cbVars, queueVars, bhVars
  <2>3. CASE LoopDeassert \/ LoopAssert
    <3>1. \E e \in Events : Raise(<<e>>) BY <1>0, <2>3 DEF LoopDeassert, LoopAssert
    <3>2. PICK e \in Events : Raise(<<e>>) BY <3>1
    <3>3. <<e>> \in Seq(Events) OBVIOUS
    <3>4. msiRing' \in Seq(Events) /\ Len(msiRing') <= RingSlots /\ dropped' \in BOOLEAN
      BY <3>2, <3>3, RaiseType
    <3> QED BY <2>1, <2>3, <3>4 DEF LoopDeassert, LoopAssert, guestVars, TypeOK, cbVars,
                 queueVars, bhVars
  <2> QED BY <1>1, <2>2, <2>3 DEF Loop
<1>2. CASE VipReceive
  <2>1. /\ injected' \in 0 .. MaxFrames /\ rx' = "set"
        /\ UNCHANGED <<isr, sim, rd, guestVars, others>>
    BY <1>2, IntxAssumption DEF VipReceive, TypeOK
  <2> QED BY <2>1 DEF guestVars, others, TypeOK, cbVars, queueVars, bhVars
<1>3. CASE Clock
  <2>1. UNCHANGED <<concurrent, cbVars, queueVars, bh, bhVars, lastRaised>>
    BY <1>3, Frame
  <2>2. PICK take \in BOOLEAN : VipClock(take) BY <1>3 DEF Clock
  <2>3. PICK events \in RaisedAtClock : Raise(events) BY <2>2 DEF VipClock
  <2>4. events \in Seq(Events)
    <3>1. <<"assert">> \in Seq(Events) /\ <<"deassert">> \in Seq(Events)
          /\ <<>> \in Seq(Events)
      BY <1>0
    <3>2. PICK u \in {<<>>, <<"assert">>, <<"deassert">>},
               v \in {<<>>, <<"assert">>, <<"deassert">>} : events = u \o v
      BY DEF RaisedAtClock
    <3>3. u \in Seq(Events) /\ v \in Seq(Events) BY <3>1
    <3> QED BY <3>2, <3>3, ConcatProperties
  <2>5. msiRing' \in Seq(Events) /\ Len(msiRing') <= RingSlots /\ dropped' \in BOOLEAN
    BY <2>3, <2>4, RaiseType
  <2>6. /\ isr' \in BOOLEAN /\ isrValue' \in BOOLEAN /\ rx' \in {"idle", "set", "raise"}
        /\ rd' \in 0 .. 2 /\ guest' \in {"idle", "reading", "read"}
        /\ UNCHANGED <<injected, sim, seen>>
    BY <2>2 DEF VipClock, TypeOK
  <2> QED BY <2>1, <2>5, <2>6 DEF TypeOK, cbVars, queueVars, bhVars
<1>4. CASE Callback
  <2>1. UNCHANGED cbOthers BY <1>4, Frame
  <2>2. CASE CbTake
    <3>1. msiRing # <<>> /\ msiRing \in Seq(Events) BY <2>2 DEF CbTake, TypeOK
    <3>2. /\ Head(msiRing) \in Events /\ Tail(msiRing) \in Seq(Events)
          /\ Len(Tail(msiRing)) = Len(msiRing) - 1 /\ Len(msiRing) \in Nat
      BY <3>1, HeadTailProperties, LenProperties
    <3>3. RingSlots \in Nat BY IntxAssumption
    <3>4. Len(Tail(msiRing)) <= RingSlots BY <3>2, <3>3 DEF TypeOK
    <3> QED BY <2>1, <2>2, <3>2, <3>4
            DEF CbTake, TypeOK, cbOthers, simVars, bhVars, guestVars
  <2>3. CASE CbStore
    BY <2>1, <2>3 DEF CbStore, TypeOK, cbOthers, simVars, bhVars, guestVars
  <2>4. CASE CbPublish
    <3>1. Advanced(tailSeen) \in 0 .. Span - 1 BY Next1 DEF TypeOK
    <3> QED BY <2>1, <2>4, <3>1 DEF CbPublish, TypeOK, cbOthers, simVars, bhVars, guestVars
  <2>5. CASE CbSchedule
    BY <2>1, <2>5 DEF CbSchedule, TypeOK, cbOthers, simVars, bhVars, guestVars
  <2> QED BY <1>4, <2>2, <2>3, <2>4, <2>5 DEF Callback
<1>5. CASE BottomHalf
  <2>1. UNCHANGED bhOthers BY <1>5, Frame
  <2>2. Advanced(head) \in 0 .. Span - 1 /\ slots[head % QueueSize] \in Events
    BY Next1, SlotRange DEF TypeOK
  <2> QED BY <1>5, <2>1, <2>2 DEF BottomHalf, BhRun, BhTest, BhAdvance, BhDeliver, bhOthers,
              simVars, cbVars, guestVars, TypeOK
<1>6. CASE Guest
  BY <1>6, Frame DEF Guest, GuestInterrupt, GuestHandle, guestOthers, simVars, cbVars,
     queueVars, bhVars, TypeOK
<1>7. CASE UNCHANGED vars
  BY <1>7 DEF vars, simVars, cbVars, queueVars, bhVars, guestVars, TypeOK
<1> QED BY <1>1, <1>2, <1>3, <1>4, <1>5, <1>6, <1>7, Frame DEF Next

LEMMA InitTypes == Init => TypeOK
<1> SUFFICES ASSUME Init PROVE TypeOK
  OBVIOUS
<1>1. "deassert" \in Events /\ 0 \in 0 .. Span - 1 BY SpanFacts DEF Events
<1>2. msiRing \in Seq(Events) /\ Len(msiRing) = 0 BY DEF Init
<1>3. /\ MaxFrames \in Nat /\ RingSlots \in Nat /\ concurrent \in BOOLEAN
  BY IntxAssumption DEF Init
<1>4. /\ {isr, bh, line, isrValue, lastRaised, dropped} \subseteq BOOLEAN
      /\ injected = 0 /\ seen = 0 /\ sim = "loop" /\ rx = "idle" /\ rd = 0
      /\ poller = "idle" /\ bhPc = "idle" /\ guest = "idle"
      /\ vector = "deassert" /\ bhVector = "deassert"
      /\ {head, tail, headSeen, tailSeen} \subseteq {0}
  BY DEF Init
<1>5. slots \in [0 .. QueueSize - 1 -> Events] BY <1>1 DEF Init
<1>6. 0 \in 0 .. MaxFrames /\ 0 \in 0 .. 2 /\ Len(msiRing) <= RingSlots BY <1>2, <1>3
<1>7. {head, tail, headSeen, tailSeen} \subseteq 0 .. Span - 1 BY <1>1, <1>4
<1> QED BY <1>1, <1>2, <1>3, <1>4, <1>5, <1>6, <1>7 DEF TypeOK

(* The variables stay in their ranges; the counters wrap.                  *)
THEOREM PathTypes == Spec => []TypeOK
<1>1. TypeOK /\ [Next]_vars => TypeOK' BY NextTypes
<1> QED BY <1>1, InitTypes, PTL DEF Spec
-----------------------------------------------------------------------------
(* The queue *)

LEMMA QueuedNow ==
  ASSUME TypeOK
  PROVE  /\ head \in 0 .. Span - 1 /\ tail \in 0 .. Span - 1 /\ headSeen \in 0 .. Span - 1
         /\ Queued(tail, head) \in 0 .. Span - 1
         /\ Queued(tail, headSeen) \in 0 .. Span - 1
BY Distances DEF TypeOK

(* Steps of the simulation and of the guest touch neither queue nor line. *)
LEMMA Elsewhere ==
  ASSUME [Next]_vars, ~Callback, ~BottomHalf
  PROVE  UNCHANGED <<cbVars, queueVars, bh, bhVars, lastRaised>>
BY Frame DEF Next, vars, guestOthers

LEMMA NextQueue == ASSUME QueueInv, [Next]_vars PROVE QueueInv'
<1>1. TypeOK' BY NextTypes DEF QueueInv
<1>2. /\ Queued(tail, head) \in Nat /\ Queued(tail, headSeen) \in Nat
      /\ head \in 0 .. Span - 1 /\ tail \in 0 .. Span - 1
  BY QueuedNow, SpanFacts DEF QueueInv
<1>3. QueueSize \in Nat \ {0} BY SpanFacts
<1>4. Snapshot /\ QueueIsWatched BY DEF QueueInv
<1>5. CASE ~Callback /\ ~BottomHalf
  <2>1. UNCHANGED <<poller, vector, tailSeen, headSeen, slots, head, tail, bh, bhPc>>
    BY <1>5, Elsewhere DEF cbVars, queueVars, bhVars
  <2>2. Snapshot' /\ QueueIsWatched' BY <1>4, <2>1 DEF Snapshot, QueueIsWatched, Queued
  <2> QED BY <1>1, <2>2 DEF QueueInv
<1>6. CASE Callback
  <2>1. UNCHANGED <<head, bhPc>> BY <1>6, Frame DEF cbOthers, bhVars
  <2>2. CASE CbTake
    <3>1. /\ UNCHANGED <<tail, bh>> /\ poller = "idle" /\ poller' = "store"
          /\ tailSeen' = tail /\ headSeen' = head
      BY <2>2 DEF CbTake
    <3>2. Snapshot' BY <1>2, <1>4, <2>1, <3>1 DEF Snapshot, Queued
    <3> QED BY <1>1, <1>4, <2>1, <3>1, <3>2 DEF QueueInv, QueueIsWatched
  <2>3. CASE CbStore
    <3>1. /\ UNCHANGED <<tail, bh, tailSeen, headSeen>> /\ poller = "store"
          /\ \/ poller' = "idle"
             \/ poller' = "publish" /\ ~(Queued(tailSeen, headSeen) >= QueueSize)
      BY <2>3 DEF CbStore
    <3>2. tailSeen = tail /\ Queued(tail, head) <= Queued(tail, headSeen)
      BY <1>4, <3>1 DEF Snapshot
    <3>3. poller' = "publish" =>
            Queued(tail, headSeen) < QueueSize /\ Queued(tail, head) < QueueSize
      BY <1>2, <1>3, <3>1, <3>2
    <3>4. Queued(tail, head)' = Queued(tail, head)
          /\ Queued(tail, headSeen)' = Queued(tail, headSeen)
      BY <2>1, <3>1 DEF Queued
    <3>5. Snapshot' BY <1>4, <2>1, <3>1, <3>2, <3>3, <3>4 DEF Snapshot
    <3> QED BY <1>1, <1>4, <2>1, <3>1, <3>3, <3>4, <3>5 DEF QueueInv, QueueIsWatched
  <2>4. CASE CbPublish
    <3>1. /\ UNCHANGED <<bh, headSeen>> /\ poller = "publish" /\ poller' = "schedule"
          /\ tail' = Advanced(tail)
      BY <1>4, <2>4 DEF CbPublish, Snapshot
    <3>2. Queued(tail, head) < QueueSize BY <1>4, <3>1 DEF QueueIsWatched
    <3>3. Queued(Advanced(tail), head) = Queued(tail, head) + 1 /\ Advanced(tail) # head
      BY <1>2, <3>2, Distances
    <3>4. Queued(tail, head)' = Queued(tail, head) + 1 /\ tail' # head'
      BY <2>1, <3>1, <3>3
    <3>5. Queued(tail, head)' <= QueueSize BY <1>2, <1>3, <3>2, <3>4
    <3>6. Snapshot' BY <3>1, <3>4, <3>5 DEF Snapshot
    <3> QED BY <1>1, <3>1, <3>6 DEF QueueInv, QueueIsWatched
  <2>5. CASE CbSchedule
    <3>1. UNCHANGED <<tail, tailSeen, headSeen>> /\ bh' /\ poller' = "idle"
      BY <2>5 DEF CbSchedule
    <3>2. Snapshot' BY <1>4, <2>1, <3>1 DEF Snapshot, Queued
    <3> QED BY <1>1, <3>1, <3>2 DEF QueueInv, QueueIsWatched
  <2> QED BY <1>6, <2>2, <2>3, <2>4, <2>5 DEF Callback
<1>7. CASE BottomHalf
  <2>1. UNCHANGED <<tail, poller, tailSeen, headSeen>>
    BY <1>7, Frame DEF bhOthers, cbVars
  <2>2. CASE BhRun \/ BhTest \/ BhDeliver
    <3>1. /\ UNCHANGED head
          /\ bhPc' = "advance" => head # tail
          /\ bhPc' # "idle" \/ head = tail
      BY <2>2 DEF BhRun, BhTest, BhDeliver
    <3>2. Snapshot' BY <1>4, <2>1, <3>1 DEF Snapshot, Queued
    <3> QED BY <1>1, <1>4, <2>1, <3>1, <3>2 DEF QueueInv, QueueIsWatched, Queued
  <2>3. CASE BhAdvance
    <3>1. head' = Advanced(head) /\ bhPc = "advance" /\ bhPc' = "deliver"
      BY <2>3 DEF BhAdvance
    <3>2. head # tail BY <1>4, <3>1 DEF Snapshot
    <3>3. Queued(tail, Advanced(head)) = Queued(tail, head) - 1 BY <1>2, <3>2, Distances
    <3>4. /\ Queued(tail, head)' = Queued(tail, head) - 1
          /\ Queued(tail, headSeen)' = Queued(tail, headSeen)
      BY <2>1, <3>1, <3>3 DEF Queued
    <3>5. /\ Queued(tail, head) <= Queued(tail, headSeen)
               => Queued(tail, head)' <= Queued(tail, headSeen)
          /\ Queued(tail, head)' <= QueueSize
      BY <1>2, <1>3, <1>4, <3>4 DEF Snapshot
    <3>6. Snapshot' BY <1>4, <2>1, <3>1, <3>4, <3>5 DEF Snapshot
    <3>7. poller' = "publish" => Queued(tail, head)' < QueueSize
      BY <1>2, <1>3, <1>4, <2>1, <3>4 DEF QueueIsWatched
    <3> QED BY <1>1, <3>1, <3>6, <3>7 DEF QueueInv, QueueIsWatched
  <2> QED BY <1>7, <2>2, <2>3 DEF BottomHalf
<1> QED BY <1>5, <1>6, <1>7

LEMMA InitQueue == Init => QueueInv
<1> SUFFICES ASSUME Init PROVE QueueInv
  OBVIOUS
<1>1. /\ head = tail /\ poller = "idle" /\ bhPc = "idle" BY DEF Init
<1>2. TypeOK BY InitTypes
<1>3. Queued(tail, head) = 0 BY <1>1, <1>2, Distances DEF TypeOK
<1>4. Queued(tail, head) <= QueueSize BY <1>3, SpanFacts
<1> QED BY <1>1, <1>2, <1>4 DEF QueueInv, Snapshot, QueueIsWatched

(* No event stays in the queue unnoticed, and the poller thread does not   *)
(* overwrite one the bottom half has yet to read: the head it read before  *)
(* can only have been further behind than the head now.                    *)
THEOREM QueueWatched == Spec => []QueueIsWatched
<1>1. QueueInv /\ [Next]_vars => QueueInv' BY NextQueue
<1>2. QueueInv => QueueIsWatched BY DEF QueueInv
<1> QED BY <1>1, <1>2, InitQueue, PTL DEF Spec
-----------------------------------------------------------------------------
(* The line *)

LEMMA SameNewest ==
  ASSUME Newest, UNCHANGED <<slots, head, tail, vector, bhPc, bhVector, line, lastRaised>>,
         poller' = "publish" => poller = "publish"
  PROVE  Newest'
BY DEF Newest, IsLast

LEMMA CallbackNewest == ASSUME LineInv, Callback PROVE Newest'
<1>1. UNCHANGED <<head, bhPc, bhVector, line>> BY Frame DEF cbOthers, bhVars
<1>2. /\ TypeOK /\ Snapshot /\ QueueIsWatched /\ Newest
      /\ head \in 0 .. Span - 1 /\ tail \in 0 .. Span - 1
      /\ Queued(tail, head) \in Nat /\ Queued(tail, headSeen) \in Nat
  BY QueuedNow, SpanFacts DEF LineInv, QueueInv
<1>3. ASSUME NEW i \in 0 .. Span - 1, NEW j \in 0 .. Span - 1, Advanced(i) = Advanced(j)
      PROVE  i = j
  BY <1>3, Next1, SpanFacts
<1>4. CASE CbTake
  <2>1. UNCHANGED <<slots, tail, lastRaised>> /\ poller' = "store" /\ poller = "idle"
    BY <1>4 DEF CbTake
  <2> QED BY <1>1, <1>2, <2>1 DEF Newest, IsLast
<1>5. CASE CbStore
  <2>1. UNCHANGED <<tail, vector, lastRaised>> /\ poller = "store" /\ tailSeen = tail
    BY <1>2, <1>5 DEF CbStore, Snapshot
  <2>2. CASE Queued(tailSeen, headSeen) >= QueueSize
    <3>1. UNCHANGED slots /\ poller' = "idle" BY <1>5, <2>2 DEF CbStore
    <3> QED BY <1>1, <1>2, <2>1, <3>1, SameNewest
  <2>3. CASE ~(Queued(tailSeen, headSeen) >= QueueSize)
    <3>1. slots' = [slots EXCEPT ![tail % QueueSize] = vector] BY <1>5, <2>1, <2>3 DEF CbStore
    <3>2. tail % QueueSize \in 0 .. QueueSize - 1 BY <1>2, SlotRange
    <3>3. slots'[tail % QueueSize] = vector BY <1>2, <3>1, <3>2 DEF TypeOK
    <3>4. ASSUME NEW i \in 0 .. Span - 1, IsLast(i), head # tail
          PROVE  slots'[i % QueueSize] = slots[i % QueueSize]
      <4>1. Queued(tail, head) # 0 BY <1>2, <3>4, Distances
      <4>2. Queued(tail, head) < QueueSize BY <1>2, <2>1, <2>3, SpanFacts DEF Snapshot
      <4>3. QueueSize > 1 BY <1>2, <4>1, <4>2, SpanFacts
      <4>4. i % QueueSize # tail % QueueSize BY <1>2, <3>4, <4>3, SlotApart DEF IsLast
      <4>5. i % QueueSize \in 0 .. QueueSize - 1 BY SlotRange
      <4> QED BY <1>2, <3>1, <4>4, <4>5 DEF TypeOK
    <3> QED BY <1>1, <1>2, <2>1, <3>3, <3>4 DEF Newest, IsLast
  <2> QED BY <2>2, <2>3
<1>6. CASE CbPublish
  <2>1. /\ UNCHANGED slots /\ poller = "publish" /\ poller' = "schedule"
        /\ tail' = Advanced(tail) /\ lastRaised' = (vector = "assert")
    BY <1>2, <1>6 DEF CbPublish, Snapshot
  <2>2. Advanced(tail) # head
    <3>1. Queued(tail, head) < QueueSize BY <1>2, <2>1 DEF QueueIsWatched
    <3> QED BY <1>2, <3>1, Distances
  <2>3. ASSUME NEW i \in 0 .. Span - 1, IsLast(i)'
        PROVE  (slots'[i % QueueSize] = "assert") = lastRaised'
    <3>1. i = tail BY <1>2, <1>3, <2>1, <2>3 DEF IsLast
    <3> QED BY <1>2, <2>1, <3>1 DEF Newest
  <2>4. bhPc = "advance" => ~IsLast(head)'
    <3>1. bhPc = "advance" => head # tail BY <1>2 DEF Snapshot
    <3>2. IsLast(head)' => head = tail BY <1>1, <1>2, <1>3, <2>1 DEF IsLast
    <3> QED BY <3>1, <3>2
  <2> QED BY <1>1, <2>1, <2>2, <2>3, <2>4 DEF Newest
<1>7. CASE CbSchedule
  <2>1. UNCHANGED <<slots, tail, vector, lastRaised>> /\ poller' = "idle"
    BY <1>7 DEF CbSchedule
  <2> QED BY <1>1, <1>2, <2>1, SameNewest
<1> QED BY <1>4, <1>5, <1>6, <1>7 DEF Callback

LEMMA BottomHalfNewest == ASSUME LineInv, BottomHalf PROVE Newest'
<1>1. UNCHANGED <<slots, tail, poller, vector, lastRaised>>
  BY Frame DEF bhOthers, cbVars
<1>2. Snapshot /\ Newest /\ head \in 0 .. Span - 1
  BY QueuedNow DEF LineInv, QueueInv
<1>3. CASE BhRun
  <2>1. UNCHANGED <<head, bhVector, line>> /\ bhPc = "idle" /\ bhPc' = "test"
    BY <1>3 DEF BhRun
  <2> QED BY <1>1, <1>2, <2>1 DEF Newest, IsLast
<1>4. CASE BhTest
  <2>1. UNCHANGED <<head, line>> /\ bhPc = "test"
        /\ \/ head = tail /\ bhPc' = "idle" /\ UNCHANGED bhVector
           \/ head # tail /\ bhPc' = "advance" /\ bhVector' = slots[head % QueueSize]
    BY <1>4 DEF BhTest
  <2> QED BY <1>1, <1>2, <2>1 DEF Newest, IsLast
<1>5. CASE BhAdvance
  <2>1. /\ UNCHANGED <<bhVector, line>> /\ bhPc = "advance" /\ bhPc' = "deliver"
        /\ head' = Advanced(head) /\ head # tail
    BY <1>2, <1>5 DEF BhAdvance, Snapshot
  <2> QED BY <1>1, <1>2, <2>1 DEF Newest, IsLast
<1>6. CASE BhDeliver
  <2>1. /\ UNCHANGED <<head, bhVector>> /\ bhPc = "deliver" /\ bhPc' = "test"
        /\ line' = (bhVector = "assert")
    BY <1>6 DEF BhDeliver
  <2> QED BY <1>1, <1>2, <2>1 DEF Newest, IsLast
<1> QED BY <1>3, <1>4, <1>5, <1>6 DEF BottomHalf

LEMMA NextLine == ASSUME LineInv, [Next]_vars PROVE LineInv'
<1>1. QueueInv' BY NextQueue DEF LineInv
<1>2. Newest'
  <2>1. CASE ~Callback /\ ~BottomHalf
    <3>1. UNCHANGED <<slots, head, tail, vector, bhPc, bhVector, line, lastRaised, poller>>
      BY <2>1, Elsewhere DEF cbVars, queueVars, bhVars
    <3> QED BY <3>1, SameNewest DEF LineInv
  <2> QED BY <2>1, CallbackNewest, BottomHalfNewest
<1> QED BY <1>1, <1>2 DEF LineInv

LEMMA InitLine == Init => LineInv
<1> SUFFICES ASSUME Init PROVE LineInv
  OBVIOUS
<1>1. head = tail /\ poller = "idle" /\ bhPc = "idle" /\ line = lastRaised BY DEF Init
<1>2. Newest BY <1>1 DEF Newest
<1> QED BY <1>2, InitQueue DEF LineInv

LEMMA Arrivals ==
  ASSUME TypeOK, PathEmpty
  PROVE  /\ msiRing = <<>> /\ poller = "idle" /\ bhPc = "idle" /\ head = tail
<1>1. poller = "idle" /\ bhPc = "idle" BY DEF PathEmpty
<1>2. Len(msiRing) + Queued(tail, head) = 0
  <2>1. OnTheWay = Len(msiRing) + Queued(tail, head) + 0 + 0 BY <1>1 DEF OnTheWay
  <2>2. OnTheWay = 0 BY DEF PathEmpty
  <2>3. Len(msiRing) \in Nat /\ Queued(tail, head) \in Nat
    BY QueuedNow, LenProperties, SpanFacts DEF TypeOK
  <2> QED BY <2>1, <2>2, <2>3
<1>3. Len(msiRing) \in Nat /\ Queued(tail, head) \in Nat
  BY QueuedNow, LenProperties, SpanFacts DEF TypeOK
<1>4. Len(msiRing) = 0 /\ Queued(tail, head) = 0 BY <1>2, <1>3
<1>5. msiRing = <<>> BY <1>4, EmptySeq DEF TypeOK
<1>6. head = tail BY <1>4, Distances DEF TypeOK
<1> QED BY <1>1, <1>5, <1>6

(* With no event on its way the line has the level the last one asked for: *)
(* events are delivered in order and none is delivered twice or skipped.   *)
THEOREM LineFollows == Spec => []LineFollowsLastEvent
<1>1. LineInv /\ [Next]_vars => LineInv' BY NextLine
<1>2. LineInv => LineFollowsLastEvent
  BY Arrivals DEF LineInv, QueueInv, Newest, LineFollowsLastEvent
<1> QED BY <1>1, <1>2, InitLine, PTL DEF Spec
-----------------------------------------------------------------------------
(* tb_top.sv's loop *)

(* A raised event that was not lost is the last one asked for. *)
LEMMA RaisedAsked ==
  ASSUME TypeOK, NEW e \in Events, Raise(<<e>>), ~dropped'
  PROVE  ~dropped /\ Asked' = (e = "assert")
<1>1. <<e>> \in Seq(Events) OBVIOUS
<1>2. ~dropped /\ msiRing' = msiRing \o <<e>> BY <1>1, RaiseType
<1>3. msiRing \in Seq(Events) /\ Len(msiRing) \in Nat BY LenProperties DEF TypeOK
<1>4. msiRing \o <<e>> = Append(msiRing, e) BY <1>3
<1>5. /\ Len(msiRing') = Len(msiRing) + 1 /\ msiRing'[Len(msiRing) + 1] = e
  BY <1>2, <1>3, <1>4, AppendProperties
<1>6. msiRing' # <<>> BY <1>3, <1>5
<1> QED BY <1>2, <1>5, <1>6 DEF Asked

LEMMA NextLevel == ASSUME LevelInv, [Next]_vars PROVE LevelInv'
<1>1. TypeOK /\ TypeOK' /\ Level BY NextTypes DEF LevelInv
<1>2. "assert" \in Events /\ "deassert" \in Events BY DEF Events
<1>3. CASE Loop
  <2>1. UNCHANGED <<concurrent, poller, vector, lastRaised>>
    BY <1>3, Frame DEF cbVars
  <2>2. CASE LoopIsrRead
    <3>1. ~isr' /\ isrValue' = isr /\ guest' = "read" /\ sim' = "deassert" /\ guest = "reading"
          /\ UNCHANGED <<injected, seen>>
      BY <2>2 DEF LoopIsrRead
    <3> QED BY <1>1, <2>1, <3>1 DEF LevelInv, Level
  <2>3. CASE LoopReceive
    <3>1. isr' /\ sim' = "assert" BY <2>3 DEF LoopReceive
    <3> QED BY <1>1, <3>1 DEF LevelInv, Level
  <2>4. CASE LoopDeassert
    <3>1. /\ sim = "deassert" /\ sim' = "loop" /\ Raise(<<"deassert">>)
          /\ UNCHANGED <<isr, injected, guest, isrValue, seen>>
      BY <2>4 DEF LoopDeassert, guestVars
    <3>2. ~dropped' => ~Asked' BY <1>1, <1>2, <3>1, RaisedAsked
    <3>3. Asked' \in BOOLEAN BY <1>1 DEF Asked, TypeOK
    <3> QED BY <1>1, <2>1, <3>1, <3>2, <3>3 DEF LevelInv, Level, TypeOK
  <2>5. CASE LoopAssert
    <3>1. /\ sim = "assert" /\ sim' = "loop" /\ Raise(<<"assert">>)
          /\ UNCHANGED <<isr, injected, guest, isrValue, seen>>
      BY <2>5 DEF LoopAssert, guestVars
    <3>2. ~dropped' => Asked' BY <1>1, <1>2, <3>1, RaisedAsked
    <3>3. Asked' \in BOOLEAN BY <1>1 DEF Asked, TypeOK
    <3> QED BY <1>1, <2>1, <3>1, <3>2, <3>3 DEF LevelInv, Level, TypeOK
  <2> QED BY <1>3, <2>2, <2>3, <2>4, <2>5 DEF Loop
<1>4. CASE VipReceive \/ Clock
  <2>1. concurrent /\ UNCHANGED concurrent BY <1>4, Frame DEF VipReceive, Clock, VipClock
  <2> QED BY <1>1, <2>1 DEF LevelInv, Level
<1>5. CASE Callback
  <2>1. UNCHANGED <<concurrent, isr, injected, sim, guest, isrValue, seen>>
    BY <1>5, Frame DEF cbOthers, simVars, guestVars
  <2>2. ~dropped' => ~dropped /\ Asked' = Asked
    <3>1. CASE CbTake
      <4>1. /\ msiRing # <<>> /\ vector' = Head(msiRing) /\ msiRing' = Tail(msiRing)
            /\ poller' = "store" /\ UNCHANGED dropped
        BY <3>1 DEF CbTake
      <4>2. /\ Len(msiRing) \in Nat \ {0} /\ Head(msiRing) = msiRing[1]
            /\ Len(msiRing') = Len(msiRing) - 1
            /\ \A i \in 1 .. Len(msiRing') : msiRing'[i] = msiRing[i + 1]
        BY <1>1, <4>1, HeadTailProperties, EmptySeq DEF TypeOK
      <4>3. msiRing' = <<>> <=> Len(msiRing) = 1
        <5>1. msiRing' \in Seq(Events) BY <1>1 DEF TypeOK
        <5>2. msiRing' = <<>> <=> Len(msiRing') = 0 BY <5>1, EmptySeq
        <5> QED BY <4>2, <5>2
      <4>4. CASE msiRing' = <<>> BY <4>1, <4>2, <4>3, <4>4 DEF Asked
      <4>5. CASE msiRing' # <<>>
        <5>1. Len(msiRing') \in 1 .. Len(msiRing') BY <4>2, <4>3, <4>5
        <5>2. msiRing'[Len(msiRing')] = msiRing[Len(msiRing)] BY <4>2, <5>1
        <5> QED BY <4>1, <4>5, <5>2 DEF Asked
      <4> QED BY <4>4, <4>5
    <3>2. CASE CbStore
      <4>1. /\ UNCHANGED <<msiRing, vector, lastRaised>> /\ poller = "store"
            /\ dropped' \/ (poller' = "publish" /\ UNCHANGED dropped)
        BY <3>2 DEF CbStore
      <4> QED BY <4>1 DEF Asked
    <3>3. CASE CbPublish
      <4>1. /\ UNCHANGED <<msiRing, vector, dropped>> /\ poller = "publish"
            /\ poller' = "schedule" /\ lastRaised' = (vector = "assert")
        BY <3>3 DEF CbPublish
      <4> QED BY <4>1 DEF Asked
    <3>4. CASE CbSchedule
      <4>1. /\ UNCHANGED <<msiRing, vector, lastRaised, dropped>> /\ poller = "schedule"
            /\ poller' = "idle"
        BY <3>4 DEF CbSchedule
      <4> QED BY <4>1 DEF Asked
    <3> QED BY <1>5, <3>1, <3>2, <3>3, <3>4 DEF Callback
  <2> QED BY <1>1, <2>1, <2>2 DEF LevelInv, Level
<1>6. CASE BottomHalf \/ UNCHANGED vars
  <2>1. UNCHANGED <<simVars, msiRing, cbVars, guestVars, lastRaised, dropped>>
    BY <1>6, Frame DEF bhOthers, vars
  <2>2. Asked' = Asked BY <2>1 DEF Asked, cbVars
  <2> QED BY <1>1, <2>1, <2>2 DEF LevelInv, Level, simVars, guestVars
<1>7. CASE Guest
  <2>1. UNCHANGED <<simVars, msiRing, cbVars, lastRaised, dropped>>
    BY <1>7, Frame DEF guestOthers
  <2>2. Asked' = Asked BY <2>1 DEF Asked, cbVars
  <2>3. seen' < injected => isr \/ (guest' = "read" /\ isrValue') \/ concurrent
    <3>1. CASE GuestInterrupt
      <4>1. guest = "idle" /\ UNCHANGED seen BY <3>1 DEF GuestInterrupt
      <4> QED BY <1>1, <4>1 DEF Level
    <3>2. CASE GuestHandle
      <4>1. guest = "read" /\ seen' = IF isrValue THEN injected ELSE seen
        BY <3>2 DEF GuestHandle
      <4>2. injected \in Nat BY <1>1 DEF TypeOK
      <4> QED BY <1>1, <4>1, <4>2 DEF Level
    <3> QED BY <1>7, <3>1, <3>2 DEF Guest
  <2> QED BY <1>1, <2>1, <2>2, <2>3 DEF LevelInv, Level, simVars
<1> QED BY <1>3, <1>4, <1>5, <1>6, <1>7, Frame DEF Next

LEMMA InitLevel == Init => LevelInv
<1> SUFFICES ASSUME Init PROVE LevelInv
  OBVIOUS
<1>1. /\ msiRing = <<>> /\ poller = "idle" /\ lastRaised = FALSE /\ isr = FALSE
      /\ sim = "loop" /\ injected = 0 /\ seen = 0
  BY DEF Init
<1>2. Asked = isr BY <1>1, Zenon DEF Asked
<1>3. Level BY <1>1, <1>2 DEF Level
<1> QED BY <1>3, InitTypes DEF LevelInv

(* At rest the line is high while a frame is unseen or the ISR bit is set, *)
(* unless a full ring or queue dropped an event: tb_top.sv's loop always   *)
(* raises the deassert of a read before the assert of the next frame.      *)
THEOREM LoopLosesNoInterrupt == Spec => []NoInterruptLost
<1>1. LevelInv /\ LineInv /\ [Next]_vars => LevelInv' /\ LineInv' BY NextLevel, NextLine
<1>2. LevelInv /\ LineInv => NoInterruptLost
  <2> SUFFICES ASSUME LevelInv, LineInv, ~concurrent, PathEmpty, guest = "idle",
                      sim = "loop", ~dropped, isr \/ seen < injected
               PROVE  line
    BY DEF NoInterruptLost, InterruptPending
  <2>1. msiRing = <<>> /\ poller = "idle" /\ bhPc = "idle" /\ head = tail
    BY Arrivals DEF LevelInv
  <2>2. isr /\ Asked = isr BY DEF LevelInv, Level
  <2>3. Asked = lastRaised BY <2>1 DEF Asked
  <2>4. line = lastRaised BY <2>1 DEF LineInv, Newest
  <2>5. isr \in BOOLEAN BY DEF LevelInv, TypeOK
  <2>6. isr = TRUE BY <2>2, <2>5
  <2>7. line = TRUE BY <2>2, <2>3, <2>4, <2>6
  <2> QED BY <2>7
<1> QED BY <1>1, <1>2, InitLevel, InitLine, PTL DEF Spec
=============================================================================
