-------------------------- MODULE RingBufferProofs --------------------------
(***************************************************************************)
(* Proofs about RingBuffer for every capacity, element size and set of     *)
(* contents: the type invariant, the three safety invariants, and that the *)
(* ring implements the FIFO of BoundedFifo.                                *)
(***************************************************************************)
EXTENDS RingBuffer, TLAPS, SequenceTheorems

(* Slot i holds an element published and not yet consumed. *)
Published(i) ==
  IF head <= tail THEN head <= i /\ i < tail ELSE head <= i \/ i < tail

(* What the producer relies on inside its memcpy: the full test still      *)
(* holds, since only the producer takes room away, and the words done so   *)
(* far are its element's.                                                  *)
ProducerInv ==
  ppc = "copy" =>
    /\ Room
    /\ \A w \in 1 .. pdone : slot[tail][w] = psrc

SlotsInv == \A i \in Slots : Published(i) => \E v \in Values : slot[i] = Whole(v)

(* The same for the consumer: its slot stays published while it copies. *)
ConsumerInv ==
  cpc = "copy" =>
    /\ head # tail
    /\ \A w \in 1 .. cdone : cdst[w] = slot[head][w]

IInv == TypeOK /\ ProducerInv /\ SlotsInv /\ ConsumerInv
-----------------------------------------------------------------------------
(* Advancing an index stays among the slots and wraps at the last one. *)
LEMMA NextSlotWraps ==
  ASSUME NEW i \in Slots
  PROVE  NextSlot(i) = IF i = Cap - 1 THEN 0 ELSE i + 1
<1>1. CASE i = Cap - 1
  <2>1. i + 1 = Cap BY <1>1, RingAssumption DEF Slots
  <2>2. Cap % Cap = 0 BY RingAssumption
  <2> QED BY <1>1, <2>1, <2>2 DEF NextSlot
<1>2. CASE i # Cap - 1
  <2>1. i + 1 \in 0 .. Cap - 1 BY <1>2, RingAssumption DEF Slots
  <2>2. (i + 1) % Cap = i + 1 BY <2>1, RingAssumption
  <2> QED BY <1>2, <2>2 DEF NextSlot
<1> QED BY <1>1, <1>2

LEMMA NextSlotType == ASSUME NEW i \in Slots PROVE NextSlot(i) \in Slots
BY NextSlotWraps, RingAssumption DEF Slots

LEMMA WholeType ==
  ASSUME NEW v \in Contents
  PROVE  Whole(v) \in [1 .. Words -> Contents]
BY DEF Whole
-----------------------------------------------------------------------------
LEMMA InitIInv == Init => IInv
<1> SUFFICES ASSUME Init PROVE IInv
  OBVIOUS
<1>1. Empty \in Contents BY DEF Contents
<1>2. TypeOK
  BY <1>1, WholeType, RingAssumption DEF Init, TypeOK, Slots
<1> QED BY <1>2, RingAssumption
  DEF Init, IInv, ProducerInv, SlotsInv, ConsumerInv, Published, Slots

(* The producer's steps. *)
LEMMA EnqBeginIInv == ASSUME IInv, NEW v \in Values, EnqBegin(v) PROVE IInv'
<1> USE DEF EnqBegin, consumer
<1>1. TypeOK' BY RingAssumption DEF IInv, TypeOK
<1>2. ProducerInv' BY RingAssumption DEF IInv, ProducerInv, Room
<1>3. SlotsInv' BY DEF IInv, SlotsInv, Published
<1>4. ConsumerInv' BY DEF IInv, ConsumerInv
<1> QED BY <1>1, <1>2, <1>3, <1>4 DEF IInv

LEMMA EnqCopyIInv == ASSUME IInv, EnqCopy PROVE IInv'
<1> USE DEF EnqCopy, consumer
<1>0. /\ tail \in Slots /\ head \in Slots /\ pdone + 1 \in 1 .. Words
      /\ psrc \in Contents /\ slot \in [Slots -> [1 .. Words -> Contents]]
  BY RingAssumption DEF IInv, TypeOK, Contents
<1>1. TypeOK' BY <1>0, RingAssumption DEF IInv, TypeOK
<1>2. \A i \in Slots : i # tail => slot'[i] = slot[i] BY <1>0
<1>3. ~Published(tail) BY <1>0, RingAssumption DEF Published, Slots
<1>4. ProducerInv'
  BY <1>0, RingAssumption DEF IInv, TypeOK, ProducerInv, Room
<1>5. SlotsInv' BY <1>2, <1>3 DEF IInv, SlotsInv, Published
<1>6. ConsumerInv' BY <1>0, <1>2 DEF IInv, ConsumerInv
<1> QED BY <1>1, <1>4, <1>5, <1>6 DEF IInv

LEMMA EnqPublishIInv == ASSUME IInv, EnqPublish PROVE IInv'
<1> USE DEF EnqPublish, consumer
<1>0. /\ tail \in Slots /\ head \in Slots /\ NextSlot(tail) \in Slots
      /\ psrc \in Values /\ slot \in [Slots -> [1 .. Words -> Contents]]
  BY NextSlotType DEF IInv, TypeOK
<1>1. TypeOK' BY <1>0 DEF IInv, TypeOK
<1>2. ProducerInv' BY DEF ProducerInv
<1>3. slot[tail] = Whole(psrc)
  BY <1>0 DEF IInv, ProducerInv, Whole
<1>4. \A i \in Slots : Published(i)' => Published(i) \/ i = tail
  BY <1>0, NextSlotWraps, RingAssumption DEF Published, Slots
<1>5. SlotsInv' BY <1>0, <1>3, <1>4 DEF IInv, SlotsInv
<1>6. ConsumerInv' BY <1>0 DEF IInv, ConsumerInv, ProducerInv, Room
<1> QED BY <1>1, <1>2, <1>5, <1>6 DEF IInv

(* The consumer's steps. *)
LEMMA DeqBeginIInv == ASSUME IInv, DeqBegin PROVE IInv'
<1> USE DEF DeqBegin, producer
<1>1. TypeOK' BY RingAssumption DEF IInv, TypeOK
<1>2. ProducerInv' BY DEF IInv, ProducerInv, Room
<1>3. SlotsInv' BY DEF IInv, SlotsInv, Published
<1>4. ConsumerInv' BY DEF IInv, ConsumerInv
<1> QED BY <1>1, <1>2, <1>3, <1>4 DEF IInv

LEMMA DeqCopyIInv == ASSUME IInv, DeqCopy PROVE IInv'
<1> USE DEF DeqCopy, producer
<1>0. /\ head \in Slots /\ cdone + 1 \in 1 .. Words
      /\ cdst \in [1 .. Words -> Contents]
      /\ slot \in [Slots -> [1 .. Words -> Contents]]
  BY RingAssumption DEF IInv, TypeOK
<1>1. TypeOK' BY <1>0, RingAssumption DEF IInv, TypeOK
<1>2. ProducerInv' BY DEF IInv, ProducerInv, Room
<1>3. SlotsInv' BY DEF IInv, SlotsInv, Published
<1>4. ConsumerInv' BY <1>0, RingAssumption DEF IInv, TypeOK, ConsumerInv
<1> QED BY <1>1, <1>2, <1>3, <1>4 DEF IInv

LEMMA DeqPublishIInv == ASSUME IInv, DeqPublish PROVE IInv'
<1> USE DEF DeqPublish, producer
<1>0. /\ tail \in Slots /\ head \in Slots /\ NextSlot(head) \in Slots
      /\ head # tail
  BY NextSlotType DEF IInv, TypeOK, ConsumerInv
<1>1. TypeOK' BY <1>0 DEF IInv, TypeOK
<1>2. ProducerInv'
  <2>1. Room => NextSlot(tail) # NextSlot(head)
    BY <1>0, NextSlotWraps, RingAssumption DEF Slots, Room
  <2> QED BY <2>1 DEF IInv, ProducerInv, Room
<1>3. \A i \in Slots : Published(i)' => Published(i)
  BY <1>0, NextSlotWraps, RingAssumption DEF Published, Slots
<1>4. SlotsInv' BY <1>3 DEF IInv, SlotsInv
<1>5. ConsumerInv' BY DEF ConsumerInv
<1> QED BY <1>1, <1>2, <1>4, <1>5 DEF IInv

LEMMA NextIInv == IInv /\ [Next]_vars => IInv'
<1> SUFFICES ASSUME IInv, [Next]_vars PROVE IInv'
  OBVIOUS
<1>1. CASE Produce
  BY <1>1, EnqBeginIInv, EnqCopyIInv, EnqPublishIInv DEF Produce
<1>2. CASE Consume
  BY <1>2, DeqBeginIInv, DeqCopyIInv, DeqPublishIInv DEF Consume
<1>3. CASE UNCHANGED vars
  BY <1>3 DEF vars, producer, consumer, IInv, TypeOK, ProducerInv, SlotsInv,
             ConsumerInv, Published, Room
<1> QED BY <1>1, <1>2, <1>3 DEF Next

LEMMA Inductive == Spec => []IInv
<1> QED BY InitIInv, NextIInv, PTL DEF Spec
-----------------------------------------------------------------------------
(* Every index, word and buffer has its type in every reachable state. *)
THEOREM TypeCorrect == Spec => []TypeOK
<1>1. IInv => TypeOK BY DEF IInv
<1> QED BY Inductive, <1>1, PTL

(* The slots counted from head are exactly the published ones. *)
LEMMA PendingIsPublished ==
  ASSUME TypeOK, NEW j \in 1 .. Count
  PROVE  At(j - 1) \in Slots /\ Published(At(j - 1))
BY RingAssumption DEF TypeOK, Slots, Count, At, Published

LEMMA CountType == ASSUME TypeOK PROVE Count \in 0 .. Cap - 1
BY RingAssumption DEF TypeOK, Slots, Count

(* A published element is always whole, whatever the capacity and the      *)
(* number of words a copy takes.                                           *)
THEOREM PublishedWhole == Spec => []PublishedAreWhole
<1>1. IInv => PublishedAreWhole
  <2> SUFFICES ASSUME IInv, NEW j \in 1 .. Count
               PROVE  \E v \in Values : Pending[j] = Whole(v)
    BY DEF PublishedAreWhole
  <2>1. At(j - 1) \in Slots /\ Published(At(j - 1)) BY PendingIsPublished DEF IInv
  <2>2. Pending[j] = slot[At(j - 1)] BY DEF Pending
  <2> QED BY <2>1, <2>2 DEF IInv, SlotsInv
<1> QED BY Inductive, <1>1, PTL

(* A dequeue copies the oldest published element, from a slot the producer *)
(* does not touch.                                                         *)
THEOREM OldestCopied == Spec => []CopyIsOldest
<1>1. IInv => CopyIsOldest
  <2> SUFFICES ASSUME IInv, cpc = "copy"
               PROVE  /\ Count > 0
                      /\ ppc = "copy" => head # tail
                      /\ \A w \in 1 .. cdone : cdst[w] = Pending[1][w]
    BY DEF CopyIsOldest
  <2>1. Count > 0 BY RingAssumption DEF IInv, TypeOK, ConsumerInv, Count, Slots
  <2>2. Pending[1] = slot[head]
    BY <2>1, CountType, RingAssumption DEF IInv, TypeOK, Pending, At, Slots
  <2> QED BY <2>1, <2>2 DEF IInv, ConsumerInv
<1> QED BY Inductive, <1>1, PTL
-----------------------------------------------------------------------------
Element == [1 .. Words -> Contents]

(* The published slots, oldest first, are a sequence of Count elements. *)
PendingListsSlots ==
  /\ Pending \in Seq(Element) /\ Len(Pending) = Count
  /\ \A j \in 1 .. Count : Pending[j] = slot[At(j - 1)]

LEMMA PendingIsSeq == ASSUME TypeOK PROVE PendingListsSlots
<1>1. Count \in Nat BY CountType, RingAssumption
<1>2. \A j \in 1 .. Count : slot[At(j - 1)] \in Element
  BY PendingIsPublished DEF TypeOK, Element
<1>3. Pending \in [1 .. Count -> Element] BY <1>2 DEF Pending
<1> QED BY <1>1, <1>3, SeqDef DEF Pending, PendingListsSlots

LEMMA PendingIsSeqNext == TypeOK' => PendingListsSlots'
<1>1. TypeOK => PendingListsSlots BY PendingIsSeq
<1> QED BY <1>1, PTL

(* Publishing appends the producer's element. *)
LEMMA PublishAppends ==
  ASSUME IInv, EnqPublish
  PROVE  /\ Count < Cap - 1
         /\ Pending' = Append(Pending, Whole(psrc))
<1>0. TypeOK /\ TypeOK' /\ Room /\ tail \in Slots /\ head \in Slots
  BY EnqPublishIInv DEF IInv, ProducerInv, TypeOK, EnqPublish
<1>1. /\ tail' = NextSlot(tail) /\ head' = head /\ slot' = slot
  BY DEF EnqPublish
<1>2. Count < Cap - 1 /\ Count' = Count + 1 /\ At(Count) = tail
  BY <1>0, <1>1, NextSlotWraps, RingAssumption DEF Room, Slots, Count, At
<1>3. slot[tail] = Whole(psrc)
  BY <1>0 DEF EnqPublish, IInv, ProducerInv, TypeOK, Whole
<1>4. \A j \in 1 .. Count + 1 :
        Pending'[j] = IF j <= Count THEN Pending[j] ELSE Whole(psrc)
  <2> SUFFICES ASSUME NEW j \in 1 .. Count + 1
      PROVE Pending'[j] = IF j <= Count THEN Pending[j] ELSE Whole(psrc)
    OBVIOUS
  <2>0. Count \in Nat /\ At(j - 1)' = At(j - 1)
    BY <1>0, <1>1, CountType, RingAssumption DEF At
  <2>1. Pending'[j] = slot[At(j - 1)]
    BY <1>0, <1>1, <1>2, <2>0, PendingIsSeqNext DEF PendingListsSlots
  <2>2. CASE j <= Count BY <1>0, <2>0, <2>1, <2>2, PendingIsSeq DEF PendingListsSlots
  <2>3. CASE j = Count + 1 BY <1>2, <1>3, <2>0, <2>1, <2>3
  <2> QED BY <2>0, <2>2, <2>3
<1>5. Whole(psrc) \in Element
  BY <1>0, WholeType DEF TypeOK, Contents, Element
<1>6. Pending' = Append(Pending, Whole(psrc))
  <2> DEFINE ap == Append(Pending, Whole(psrc))
  <2>1. /\ Pending \in Seq(Element) /\ Len(Pending) = Count
        /\ Pending' \in Seq(Element) /\ Len(Pending') = Count + 1
    BY <1>0, <1>2, PendingIsSeq, PendingIsSeqNext DEF PendingListsSlots
  <2>2. /\ ap \in Seq(Element) /\ Len(ap) = Count + 1
        /\ \A j \in 1 .. Count + 1 :
             ap[j] = IF j <= Count THEN Pending[j] ELSE Whole(psrc)
    BY <1>5, <2>1, AppendProperties
  <2> QED BY <1>4, <2>1, <2>2, SeqEqual
<1> QED BY <1>2, <1>6

(* Releasing the slot at head takes the first element off, and what the    *)
(* caller gets is that element.                                            *)
LEMMA ReleaseTakesHead ==
  ASSUME IInv, DeqPublish
  PROVE  /\ Pending # <<>>
         /\ Pending' = Tail(Pending)
         /\ out' = Head(Pending)
<1>0. TypeOK /\ TypeOK' /\ head # tail /\ tail \in Slots /\ head \in Slots
  BY DeqPublishIInv DEF IInv, ConsumerInv, TypeOK, DeqPublish
<1>1. head' = NextSlot(head) /\ tail' = tail /\ slot' = slot
  BY DEF DeqPublish
<1>2. Count > 0 /\ Count' = Count - 1 /\ Count \in Nat
  BY <1>0, <1>1, NextSlotWraps, RingAssumption DEF Slots, Count
<1>3. /\ Pending \in Seq(Element) /\ Len(Pending) = Count
      /\ Pending' \in Seq(Element) /\ Len(Pending') = Count - 1
  BY <1>0, <1>2, PendingIsSeq, PendingIsSeqNext DEF PendingListsSlots
<1>4. Pending # <<>> BY <1>2, <1>3, EmptySeq
<1>5. \A j \in 1 .. Count - 1 : Pending'[j] = Pending[j + 1]
  <2> SUFFICES ASSUME NEW j \in 1 .. Count - 1 PROVE Pending'[j] = Pending[j + 1]
    OBVIOUS
  <2>1. At(j - 1)' = At(j)
    BY <1>0, <1>1, <1>2, NextSlotWraps, RingAssumption DEF At, Slots, Count
  <2>2. Pending'[j] = slot[At(j)] BY <1>0, <1>1, <1>2, <2>1, PendingIsSeqNext DEF PendingListsSlots
  <2>3. j + 1 \in 1 .. Count /\ (j + 1) - 1 = j BY <1>2
  <2>4. Pending[j + 1] = slot[At(j)] BY <1>0, <2>3, PendingIsSeq DEF PendingListsSlots
  <2> QED BY <2>2, <2>4
<1>6. /\ Tail(Pending) \in Seq(Element) /\ Len(Tail(Pending)) = Count - 1
      /\ \A j \in 1 .. Count - 1 : Tail(Pending)[j] = Pending[j + 1]
  BY <1>3, <1>4, HeadTailProperties
<1>7. Pending' = Tail(Pending) BY <1>3, <1>5, <1>6, SeqEqual
<1>8. Pending[1] = slot[head]
  BY <1>0, <1>2, PendingIsSeq, RingAssumption DEF PendingListsSlots, At, Slots
<1>9. cdst = slot[head]
  <2>1. cdst \in Element /\ slot[head] \in Element
    BY <1>0 DEF TypeOK, Element
  <2>2. \A w \in 1 .. Words : cdst[w] = slot[head][w]
    BY DEF DeqPublish, IInv, ConsumerInv
  <2>3. /\ cdst = [w \in 1 .. Words |-> cdst[w]]
        /\ slot[head] = [w \in 1 .. Words |-> slot[head][w]]
    BY <2>1 DEF Element
  <2> QED BY <2>2, <2>3
<1>10. Head(Pending) = Pending[1] BY <1>3, <1>4
<1> QED BY <1>4, <1>7, <1>8, <1>9, <1>10 DEF DeqPublish

(* A step that leaves the published slots alone leaves Pending alone. *)
LEMMA PendingUnchanged ==
  ASSUME TypeOK, TypeOK', head' = head, tail' = tail,
         \A i \in Slots : Published(i) => slot'[i] = slot[i]
  PROVE  Pending' = Pending
<1>1. Count' = Count BY DEF Count
<1>2. \A j \in 1 .. Count : At(j - 1)' = At(j - 1) BY DEF At
<1>3. \A j \in 1 .. Count : slot'[At(j - 1)] = slot[At(j - 1)]
  BY PendingIsPublished
<1>4. PICK n, p, pn : n = Count /\ p = Pending /\ pn = Pending' OBVIOUS
<1>5. /\ p \in Seq(Element) /\ Len(p) = n
      /\ \A j \in 1 .. n : p[j] = slot[At(j - 1)]
  BY <1>4, PendingIsSeq DEF PendingListsSlots
<1>6. PendingListsSlots' BY PendingIsSeqNext
<1>7. /\ pn \in Seq(Element') /\ Len(pn) = n
      /\ \A j \in 1 .. n : pn[j] = slot'[At(j - 1)']
  BY <1>1, <1>4, <1>6 DEF PendingListsSlots
<1>8. \A j \in 1 .. n : pn[j] = p[j] BY <1>2, <1>3, <1>4, <1>5, <1>7
<1>9. pn = p BY <1>5, <1>7, <1>8, SeqEqual DEF Element
<1> QED BY <1>4, <1>9

(* The ring implements the bounded FIFO: an element appears whole, in one  *)
(* step, at the end, and leaves whole, in one step, from the front.        *)
THEOREM RingImplementsFifo == Spec => ImplementsFifo
<1>1. Init => Fifo!Init
  <2> SUFFICES ASSUME Init PROVE Pending = <<>> /\ out = Whole(Empty)
    BY DEF Fifo!Init
  <2>1. TypeOK /\ Count = 0 BY InitIInv DEF IInv, Init, Count
  <2>2. Pending = <<>> BY <2>1, PendingIsSeq, EmptySeq DEF PendingListsSlots
  <2> QED BY <2>2 DEF Init
<1>2. ASSUME IInv, IInv', [Next]_vars PROVE [Fifo!Next]_(Fifo!fifoVars)
  <2> USE DEF Fifo!fifoVars
  <2>0. TypeOK /\ TypeOK' BY <1>2 DEF IInv
  <2>1. ASSUME NEW v \in Values, EnqBegin(v) PROVE UNCHANGED <<Pending, out>>
    BY <2>0, <2>1, PendingUnchanged DEF EnqBegin
  <2>2. CASE EnqCopy
    <3>1. ~Published(tail)
      BY <2>0, RingAssumption DEF Published, TypeOK, Slots
    <3>2. \A i \in Slots : i # tail => slot'[i] = slot[i]
      BY <2>2, <2>0 DEF EnqCopy, TypeOK
    <3> QED BY <2>2, <3>1, <3>2, <2>0, PendingUnchanged DEF EnqCopy
  <2>3. CASE EnqPublish
    <3>1. Len(Pending) < Cap - 1 /\ Pending' = Append(Pending, Whole(psrc))
      BY <1>2, <2>0, <2>3, PublishAppends, PendingIsSeq DEF PendingListsSlots
    <3>2. psrc \in Values /\ out' = out BY <2>0, <2>3 DEF TypeOK, EnqPublish
    <3>3. Fifo!Put(Whole(psrc)) BY <3>1, <3>2 DEF Fifo!Put
    <3> QED BY <3>2, <3>3 DEF Fifo!Next
  <2>4. CASE DeqBegin
    BY <2>0, <2>4, PendingUnchanged DEF DeqBegin
  <2>5. CASE DeqCopy
    BY <2>0, <2>5, PendingUnchanged DEF DeqCopy
  <2>6. CASE DeqPublish
    <3>1. Fifo!Get BY <1>2, <2>6, ReleaseTakesHead DEF Fifo!Get
    <3> QED BY <3>1 DEF Fifo!Next
  <2>7. CASE UNCHANGED vars
    BY <2>0, <2>7, PendingUnchanged DEF vars
  <2> QED BY <1>2, <2>1, <2>2, <2>3, <2>4, <2>5, <2>6, <2>7
          DEF Next, Produce, Consume
<1> QED BY <1>1, <1>2, Inductive, PTL DEF Spec, ImplementsFifo, Fifo!Spec
=============================================================================
