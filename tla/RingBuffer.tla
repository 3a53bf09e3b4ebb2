----------------------------- MODULE RingBuffer -----------------------------
(***************************************************************************)
(* The lock-free single-producer single-consumer ring that carries         *)
(* requests, completions, DMA requests, DMA completions and MSIs between   *)
(* the QEMU process and the simulator (bridge/common/ring_buffer.c).       *)
(*                                                                         *)
(* The two sides run concurrently on the same shared memory.  A step is    *)
(* one access another thread can observe: loading the other side's index   *)
(* (acquire), one word of the memcpy, publishing one's own index           *)
(* (release).  The load of a thread's own index is merged with the load of *)
(* the other's, because no one else writes it.  The release/acquire pairs  *)
(* order the word copies before the index that publishes them, which is    *)
(* the order of the actions here.                                          *)
(***************************************************************************)
EXTENDS Naturals, Sequences

CONSTANTS
  Cap,    \* hdr->capacity: slots, one of which stays empty
  Words,  \* words memcpy moves one at a time per element
  Values, \* distinguishable element contents
  Empty   \* content of a word nothing was copied into yet

ASSUME RingAssumption ==
  /\ Cap \in Nat \ {0, 1}   \* ring_buf_init rejects fewer than 2 slots
  /\ Words \in Nat \ {0}
  /\ Empty \notin Values

VARIABLES
  head, tail, \* hdr->head, hdr->tail
  slot,       \* rb->data, word by word
  ppc, psrc, pdone, \* producer: in the copy?, its element, words copied
  cpc, cdst, cdone, \* consumer: in the copy?, its buffer, words copied
  out               \* the element the last successful dequeue returned

producer == <<ppc, psrc, pdone>>
consumer == <<cpc, cdst, cdone>>
vars == <<head, tail, slot, producer, consumer, out>>

Slots == 0 .. Cap - 1
Contents == Values \cup {Empty}

(* The element whose every word is v. *)
Whole(v) == [w \in 1 .. Words |-> v]

NextSlotUnwrapped(i) == i + 1 \* mutant: the modulo is missing

(* (i + 1) % hdr->capacity *)
NextSlot(i) == (i + 1) % Cap
-----------------------------------------------------------------------------
(* ring_buf_init: the creator zeroes both indices. *)
Init ==
  /\ head = 0 /\ tail = 0
  /\ slot = [i \in Slots |-> Whole(Empty)]
  /\ ppc = "idle" /\ psrc \in Values /\ pdone = 0
  /\ cpc = "idle" /\ cdst = Whole(Empty) /\ cdone = 0
  /\ out = Whole(Empty)

RoomUnchecked == TRUE \* mutant: no full test

Room == NextSlot(tail) # head

(* ring_buf_enqueue up to the full test; a full ring returns -1 and leaves *)
(* everything as it was.                                                   *)
EnqBegin(v) ==
  /\ ppc = "idle"
  /\ Room
  /\ ppc' = "copy" /\ psrc' = v /\ pdone' = 0
  /\ UNCHANGED <<head, tail, slot, consumer, out>>

(* One word of memcpy into the slot at tail. *)
EnqCopy ==
  /\ ppc = "copy" /\ pdone < Words
  /\ slot' = [slot EXCEPT ![tail][pdone + 1] = psrc]
  /\ pdone' = pdone + 1
  /\ UNCHANGED <<head, tail, ppc, psrc, consumer, out>>

EnqPublishMidCopy == \* mutant: tail stored before the copy is complete
  /\ ppc = "copy" /\ pdone = 0
  /\ tail' = NextSlot(tail)
  /\ ppc' = "idle"
  /\ UNCHANGED <<head, slot, psrc, pdone, consumer, out>>

(* The release store of next_tail. *)
EnqPublish ==
  /\ ppc = "copy" /\ pdone = Words
  /\ tail' = NextSlot(tail)
  /\ ppc' = "idle"
  /\ UNCHANGED <<head, slot, psrc, pdone, consumer, out>>

DeqBeginLagging == \* mutant: the newest element counts as not yet there
  /\ cpc = "idle"
  /\ head # tail /\ NextSlot(head) # tail
  /\ cpc' = "copy" /\ cdone' = 0
  /\ UNCHANGED <<head, tail, slot, producer, cdst, out>>

(* ring_buf_dequeue up to the empty test; an empty ring returns -1. *)
DeqBegin ==
  /\ cpc = "idle"
  /\ head # tail
  /\ cpc' = "copy" /\ cdone' = 0
  /\ UNCHANGED <<head, tail, slot, producer, cdst, out>>

(* One word of memcpy out of the slot at head. *)
DeqCopy ==
  /\ cpc = "copy" /\ cdone < Words
  /\ cdst' = [cdst EXCEPT ![cdone + 1] = slot[head][cdone + 1]]
  /\ cdone' = cdone + 1
  /\ UNCHANGED <<head, tail, slot, producer, cpc, out>>

DeqPublishAll == \* mutant: everything published is released at once
  /\ cpc = "copy" /\ cdone = Words
  /\ head' = tail
  /\ cpc' = "idle"
  /\ out' = cdst
  /\ UNCHANGED <<tail, slot, producer, cdst, cdone>>

(* The release store of next_head; the caller now owns the element. *)
DeqPublish ==
  /\ cpc = "copy" /\ cdone = Words
  /\ head' = NextSlot(head)
  /\ cpc' = "idle"
  /\ out' = cdst
  /\ UNCHANGED <<tail, slot, producer, cdst, cdone>>

Produce == (\E v \in Values : EnqBegin(v)) \/ EnqCopy \/ EnqPublish
Consume == DeqBegin \/ DeqCopy \/ DeqPublish
Next == Produce \/ Consume

(* Every call runs to its end once begun, and the consumer's thread polls  *)
(* its ring for ever; nothing obliges the producer to call.                *)
Fairness == WF_vars(EnqCopy) /\ WF_vars(EnqPublish) /\ WF_vars(Consume)

Spec == Init /\ [][Next]_vars
FairSpec == Spec /\ Fairness
-----------------------------------------------------------------------------
(* The slots published and not yet consumed. *)
Count == IF head <= tail THEN tail - head ELSE Cap - head + tail
At(j) == IF head + j < Cap THEN head + j ELSE head + j - Cap
Pending == [j \in 1 .. Count |-> slot[At(j - 1)]]

TypeOK ==
  /\ head \in Slots /\ tail \in Slots
  /\ slot \in [Slots -> [1 .. Words -> Contents]]
  /\ ppc \in {"idle", "copy"} /\ psrc \in Values /\ pdone \in 0 .. Words
  /\ cpc \in {"idle", "copy"} /\ cdone \in 0 .. Words
  /\ cdst \in [1 .. Words -> Contents]
  /\ out \in [1 .. Words -> Contents]

(* Every published element is whole: neither a memcpy still in progress    *)
(* nor a wrapped-around producer ever shows through to the consumer.       *)
PublishedAreWhole ==
  \A j \in 1 .. Count : \E v \in Values : Pending[j] = Whole(v)

(* A dequeue copies the oldest published element, and the producer is      *)
(* never inside its memcpy into the same slot meanwhile, whichever way the *)
(* indices have wrapped.                                                   *)
CopyIsOldest ==
  cpc = "copy" =>
    /\ Count > 0
    /\ ppc = "copy" => head # tail
    /\ \A w \in 1 .. cdone : cdst[w] = Pending[1][w]

(* The ring implements a FIFO of Cap - 1 whole elements. *)
Fifo == INSTANCE BoundedFifo WITH
  N <- Cap - 1, Elements <- {Whole(v) : v \in Values},
  Nothing <- Whole(Empty), queue <- Pending, out <- out
ImplementsFifo == Fifo!Spec

(* An element that waits at the head of the ring is delivered: the         *)
(* consumer's polling never leaves a published entry behind.               *)
NewestDelivered ==
  \A v \in Values :
    (Count > 0 /\ Pending[Count] = Whole(v)) ~> (out = Whole(v))
=============================================================================
