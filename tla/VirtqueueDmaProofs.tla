------------------------- MODULE VirtqueueDmaProofs -------------------------
(***************************************************************************)
(* Safety of the virtqueues, for every ring size, index span, number of    *)
(* frames and number of failing DMAs.  Positions are counted from the      *)
(* guest's: the entries the guest has posted and not taken back are the    *)
(* Window of a queue, the first of them are Retired, and of those the      *)
(* first again are published.                                              *)
(***************************************************************************)
EXTENDS VirtqueueDma, TLAPS, FiniteSetTheorems, FunctionTheorems, SequenceTheorems

(* How many steps lie from index i to index j. *)
Dist(i, j) == (j - i + IndexSpan) % IndexSpan

Outstanding(q) == Dist(seen[q], avail[q].idx)
Done(q) == Dist(seen[q], lastAvail[q])
Window(q) == {i \in Indices : Dist(seen[q], i) < Outstanding(q)}
Retired(q) == {i \in Indices : Dist(seen[q], i) < Done(q)}
Entry(q, i) == avail[q].entry[Slot(i)]

Rings == [entry : [0 .. Size - 1 -> Buffers \cup {None}], idx : Indices]

(* Types of what the rings consist of. *)
RingTypes ==
  /\ avail \in [Queues -> Rings] /\ used \in [Queues -> Rings]
  /\ seen \in [Queues -> Indices]
  /\ lastAvail \in [Queues -> Indices] /\ lastUsed \in [Queues -> Indices]
  /\ held \in [Queues -> SUBSET Buffers]
  /\ limit \in Indices /\ head \in Buffers \cup {None}
  /\ pc \in {"idle", "txEntry", "txData", "txUsed", "txPublish",
             "rxLoop", "rxEntry", "rxInject", "rxUsed", "rxPublish"}

(* The positions of a queue follow each other, and the guest owns what is  *)
(* not between its two.                                                    *)
Ordered(q) ==
  /\ lastUsed[q] = lastAvail[q]
  /\ Dist(seen[q], used[q].idx) <= Done(q)
  /\ Done(q) <= Outstanding(q)
  /\ Outstanding(q) + Cardinality(held[q]) = Size

(* The entries between the guest's positions name the buffers it does not  *)
(* own, each once, although slots are used again; the used ring repeats    *)
(* them in order.                                                          *)
Placed(q) ==
  /\ \A i \in Window(q) : Entry(q, i) \in Buffers \ held[q]
  /\ \A i, j \in Window(q) : i # j => Entry(q, i) # Entry(q, j)
  /\ \A b \in Buffers \ held[q] : \E i \in Window(q) : Entry(q, i) = b
  /\ \A i \in Retired(q) : used[q].entry[Slot(i)] = Entry(q, i)

(* What a call of the device read is still so. *)
TxCall == pc \in {"txEntry", "txData", "txUsed", "txPublish"}
Calls ==
  /\ TxCall => /\ Done("tx") <= Dist(seen["tx"], limit)
               /\ Dist(seen["tx"], limit) <= Outstanding("tx")
  /\ pc \in {"txData", "txUsed"} =>
       Done("tx") < Dist(seen["tx"], limit) /\ head = Entry("tx", lastAvail["tx"])
  /\ pc \in {"rxEntry", "rxInject", "rxUsed"} => Done("rx") < Outstanding("rx")
  /\ pc \in {"rxInject", "rxUsed"} => head = Entry("rx", lastAvail["rx"])

RingInv ==
  /\ RingTypes /\ Calls
  /\ \A q \in Queues : Ordered(q) /\ Placed(q)
-----------------------------------------------------------------------------
(* Indices and slots *)

LEMMA Sizes ==
  /\ Size \in Nat \ {0} /\ IndexSpan \in Nat \ {0} /\ MaxFrames \in Nat \ {0}
  /\ MaxFailures \in Nat /\ Size < IndexSpan /\ IndexSpan % Size = 0
BY VirtqueueAssumption

LEMMA Remainder ==
  ASSUME NEW S \in Nat \ {0}, NEW n \in 0 .. 2 * S - 1
  PROVE  n % S = IF n < S THEN n ELSE n - S
<1>1. CASE n < S BY <1>1
<1>2. CASE n >= S
  <2>1. n - S \in 0 .. S - 1 /\ n = (n - S) + S BY <1>2
  <2>2. ((n - S) + S) % S = n - S BY <2>1
  <2> QED BY <1>2, <2>1, <2>2
<1> QED BY <1>1, <1>2

LEMMA DistIs ==
  ASSUME NEW i \in Indices, NEW j \in Indices
  PROVE  Dist(i, j) = IF j >= i THEN j - i ELSE j - i + IndexSpan
<1> DEFINE n == j - i + IndexSpan
<1>1. n \in 0 .. 2 * IndexSpan - 1 /\ Dist(i, j) = n % IndexSpan
  BY Sizes DEF Dist, Indices
<1> HIDE DEF n
<1>2. n % IndexSpan = IF n < IndexSpan THEN n ELSE n - IndexSpan
  BY <1>1, Sizes, Remainder
<1> QED BY <1>1, <1>2, Sizes DEF n, Indices

LEMMA NextIs ==
  ASSUME NEW i \in Indices
  PROVE  /\ NextIndex(i) \in Indices
         /\ NextIndex(i) = IF i + 1 = IndexSpan THEN 0 ELSE i + 1
<1> DEFINE n == i + 1
<1>1. n \in 0 .. 2 * IndexSpan - 1 /\ NextIndex(i) = n % IndexSpan
  BY Sizes DEF NextIndex, Indices
<1> HIDE DEF n
<1>2. n % IndexSpan = IF n < IndexSpan THEN n ELSE n - IndexSpan
  BY <1>1, Sizes, Remainder
<1> QED BY <1>1, <1>2, Sizes DEF n, Indices

LEMMA Distances ==
  ASSUME NEW i \in Indices, NEW j \in Indices
  PROVE  /\ Dist(i, j) \in 0 .. IndexSpan - 1
         /\ Dist(i, j) = 0 <=> i = j
         /\ Dist(i, j) + 1 < IndexSpan => Dist(i, NextIndex(j)) = Dist(i, j) + 1
         /\ i # j => Dist(NextIndex(i), j) = Dist(i, j) - 1
         /\ i = j => Dist(NextIndex(i), j) = IndexSpan - 1
<1>1. Dist(i, j) = IF j >= i THEN j - i ELSE j - i + IndexSpan BY DistIs
<1>2. /\ NextIndex(i) \in Indices /\ NextIndex(j) \in Indices
      /\ NextIndex(i) = IF i + 1 = IndexSpan THEN 0 ELSE i + 1
      /\ NextIndex(j) = IF j + 1 = IndexSpan THEN 0 ELSE j + 1
  BY NextIs
<1>3. /\ Dist(i, NextIndex(j)) = IF NextIndex(j) >= i THEN NextIndex(j) - i
                                 ELSE NextIndex(j) - i + IndexSpan
      /\ Dist(NextIndex(i), j) = IF j >= NextIndex(i) THEN j - NextIndex(i)
                                 ELSE j - NextIndex(i) + IndexSpan
  BY <1>2, DistIs
<1> QED BY <1>1, <1>2, <1>3, Sizes DEF Indices

LEMMA DistBetween ==
  ASSUME NEW s \in Indices, NEW i \in Indices, NEW j \in Indices
  PROVE  /\ Dist(s, i) = Dist(s, j) => i = j
         /\ Dist(s, i) <= Dist(s, j) => Dist(i, j) = Dist(s, j) - Dist(s, i)
<1>1. /\ Dist(s, i) = IF i >= s THEN i - s ELSE i - s + IndexSpan
      /\ Dist(s, j) = IF j >= s THEN j - s ELSE j - s + IndexSpan
      /\ Dist(i, j) = IF j >= i THEN j - i ELSE j - i + IndexSpan
  BY DistIs
<1> QED BY <1>1, Sizes DEF Indices

LEMMA SlotType == ASSUME NEW i \in Indices PROVE Slot(i) \in 0 .. Size - 1
BY Sizes DEF Slot, Indices

LEMMA NoMultipleBelow ==
  ASSUME NEW S \in Nat \ {0}, NEW x \in Int, S * x > 0
  PROVE  S * x >= S
<1>1. CASE x <= 0
  <2>1. S * x <= 0 BY <1>1
  <2> QED BY <2>1
<1>2. CASE x >= 1
  <2>1. S * x = S + S * (x - 1) OBVIOUS
  <2>2. S * (x - 1) >= 0 BY <1>2
  <2> QED BY <2>1, <2>2
<1> QED BY <1>1, <1>2

(* A slot is used again only after Size indices, also across the wrap.     *)
LEMMA SlotAhead ==
  ASSUME NEW i \in Indices, NEW j \in Indices, Dist(i, j) \in 1 .. Size - 1
  PROVE  Slot(i) # Slot(j)
<1> SUFFICES ASSUME Slot(i) = Slot(j) PROVE FALSE OBVIOUS
<1> DEFINE a == i \div Size
           b == j \div Size
           m == IndexSpan \div Size
<1>1. a \in Int /\ b \in Int /\ m \in Int BY Sizes DEF Indices
<1>2. i = Size * a + Slot(i) /\ j = Size * b + Slot(j) /\ IndexSpan = Size * m
  BY Sizes DEF Slot, Indices
<1>3. Dist(i, j) = IF j >= i THEN j - i ELSE j - i + IndexSpan BY DistIs
<1>4. Slot(i) \in Int BY SlotType
<1> HIDE DEF a, b, m
<1>5. CASE j >= i
  <2>1. j - i = Size * (b - a) BY <1>1, <1>2, <1>4, Sizes
  <2>2. Size * (b - a) >= Size BY <2>1, <1>1, <1>3, <1>5, Sizes, NoMultipleBelow
  <2> QED BY <2>1, <2>2, <1>3, <1>5, Sizes
<1>6. CASE j < i
  <2>1. j - i + IndexSpan = Size * (b - a + m) BY <1>1, <1>2, <1>4, Sizes DEF Indices
  <2>2. Size * (b - a + m) >= Size BY <2>1, <1>1, <1>3, <1>6, Sizes, NoMultipleBelow DEF Indices
  <2> QED BY <2>1, <2>2, <1>3, <1>6, Sizes DEF Indices
<1> QED BY <1>5, <1>6 DEF Indices

LEMMA SlotApart ==
  ASSUME NEW s \in Indices, NEW i \in Indices, NEW j \in Indices,
         Dist(s, i) < Size, Dist(s, j) < Size, i # j
  PROVE  Slot(i) # Slot(j)
<1>1. /\ Dist(s, i) \in Nat /\ Dist(s, j) \in Nat /\ Dist(s, i) # Dist(s, j)
  BY Distances, DistBetween, Sizes
<1>2. CASE Dist(s, i) <= Dist(s, j)
  <2>1. Dist(i, j) \in 1 .. Size - 1 BY <1>1, <1>2, DistBetween, Sizes
  <2> QED BY <2>1, SlotAhead
<1>3. CASE Dist(s, j) <= Dist(s, i)
  <2>1. Dist(j, i) \in 1 .. Size - 1 BY <1>1, <1>3, DistBetween, Sizes
  <2> QED BY <2>1, SlotAhead
<1> QED BY <1>1, <1>2, <1>3
-----------------------------------------------------------------------------
(* What a queue consists of, and what each operation does to it *)

LEMMA QueueTypes ==
  ASSUME RingTypes, NEW q \in Queues
  PROVE  /\ avail[q] \in Rings /\ avail[q].idx \in Indices
         /\ avail[q].entry \in [0 .. Size - 1 -> Buffers \cup {None}]
         /\ used[q] \in Rings /\ used[q].idx \in Indices
         /\ used[q].entry \in [0 .. Size - 1 -> Buffers \cup {None}]
         /\ seen[q] \in Indices /\ lastAvail[q] \in Indices /\ lastUsed[q] \in Indices
         /\ held[q] \subseteq Buffers
         /\ IsFiniteSet(held[q]) /\ Cardinality(held[q]) \in Nat
<1>1. avail[q] \in Rings /\ used[q] \in Rings /\ held[q] \subseteq Buffers
  BY DEF RingTypes
<1>2. IsFiniteSet(held[q]) /\ Cardinality(held[q]) \in Nat
  <2>1. IsFiniteSet(1 .. Size) BY Sizes, FS_Interval
  <2>2. IsFiniteSet(held[q]) BY <2>1, <1>1, FS_Subset DEF Buffers
  <2> QED BY <2>2, FS_CardinalityType
<1> QED BY <1>1, <1>2 DEF RingTypes, Rings

LEMMA Counts ==
  ASSUME RingTypes, NEW q \in Queues
  PROVE  /\ Outstanding(q) \in 0 .. IndexSpan - 1
         /\ Done(q) \in 0 .. IndexSpan - 1
         /\ \A i \in Indices : Dist(seen[q], i) \in 0 .. IndexSpan - 1
BY QueueTypes, Distances DEF Outstanding, Done

SameQueue(q) ==
  /\ avail'[q] = avail[q] /\ used'[q] = used[q]
  /\ seen'[q] = seen[q] /\ held'[q] = held[q]
  /\ lastAvail'[q] = lastAvail[q] /\ lastUsed'[q] = lastUsed[q]

LEMMA SameKeeps ==
  ASSUME NEW q \in Queues, SameQueue(q)
  PROVE  /\ Outstanding(q)' = Outstanding(q) /\ Done(q)' = Done(q)
         /\ Window(q)' = Window(q) /\ Retired(q)' = Retired(q)
         /\ \A i : Entry(q, i)' = Entry(q, i)
         /\ Ordered(q) => Ordered(q)'
         /\ Placed(q) => Placed(q)'
<1>1. /\ Outstanding(q)' = Outstanding(q) /\ Done(q)' = Done(q)
      /\ Window(q)' = Window(q) /\ Retired(q)' = Retired(q)
  BY DEF SameQueue, Outstanding, Done, Window, Retired
<1>2. \A i : Entry(q, i)' = Entry(q, i) BY DEF SameQueue, Entry
<1>3. Ordered(q) => Ordered(q)' BY <1>1 DEF SameQueue, Ordered
<1>4. Placed(q) => Placed(q)' BY <1>1, <1>2 DEF SameQueue, Placed
<1> QED BY <1>1, <1>2, <1>3, <1>4

(* Posting: the window grows by the index it is posted at. *)
PostsTo(q, b) ==
  /\ b \in held[q]
  /\ avail'[q].entry = [avail[q].entry EXCEPT ![Slot(avail[q].idx)] = b]
  /\ avail'[q].idx = NextIndex(avail[q].idx)
  /\ held'[q] = held[q] \ {b}
  /\ used'[q] = used[q] /\ seen'[q] = seen[q]
  /\ lastAvail'[q] = lastAvail[q] /\ lastUsed'[q] = lastUsed[q]

LEMMA PostWindow ==
  ASSUME RingTypes, NEW q \in Queues, NEW b, Ordered(q), PostsTo(q, b),
         NEW a, a = avail[q].idx
  PROVE  /\ Outstanding(q) < Size /\ Outstanding(q)' = Outstanding(q) + 1
         /\ Cardinality(held'[q]) = Cardinality(held[q]) - 1
         /\ Dist(seen[q], a) = Outstanding(q)
         /\ Window(q)' = Window(q) \cup {a}
         /\ Done(q)' = Done(q) /\ Retired(q)' = Retired(q)
         /\ \A i \in Window(q) : Entry(q, i)' = Entry(q, i) /\ i # a
         /\ Entry(q, a)' = b
<1> USE DEF PostsTo
<1> DEFINE s == seen[q]
<1>1. s \in Indices /\ a \in Indices /\ NextIndex(a) \in Indices BY QueueTypes, NextIs
<1>2. /\ Cardinality(held'[q]) = Cardinality(held[q]) - 1
      /\ Cardinality(held[q]) >= 1
  <2>1. b \in held[q] /\ held'[q] = held[q] \ {b} OBVIOUS
  <2>2. IsFiniteSet(held[q]) BY QueueTypes
  <2>3. Cardinality(held'[q]) = Cardinality(held[q]) - 1
    BY <2>1, <2>2, FS_RemoveElement
  <2>4. Cardinality(held'[q]) \in Nat /\ Cardinality(held[q]) \in Nat
    BY <2>1, <2>2, FS_RemoveElement, FS_CardinalityType
  <2> QED BY <2>3, <2>4
<1>3. Outstanding(q) \in 0 .. Size - 1
  BY <1>2, Counts, QueueTypes, Sizes DEF Ordered
<1>4. Dist(s, a) = Outstanding(q) BY DEF Outstanding
<1>5. Outstanding(q)' = Dist(s, NextIndex(a)) BY DEF Outstanding
<1>6. Outstanding(q)' = Outstanding(q) + 1
  BY <1>1, <1>3, <1>4, <1>5, Distances, Sizes
<1>7. Done(q)' = Done(q) /\ Retired(q)' = Retired(q) BY DEF Done, Retired
<1>8. Window(q)' = {i \in Indices : Dist(s, i) < Outstanding(q) + 1}
  BY <1>6 DEF Window
<1>9. \A i \in Indices : Dist(s, i) \in Nat BY <1>1, Distances
<1>10. \A i \in Indices : Dist(s, i) < Outstanding(q) + 1 <=>
                            Dist(s, i) < Outstanding(q) \/ i = a
  BY <1>1, <1>3, <1>4, <1>9, DistBetween
<1>11. Window(q)' = Window(q) \cup {a} BY <1>1, <1>8, <1>10 DEF Window
<1>12. ASSUME NEW i \in Window(q) PROVE Entry(q, i)' = Entry(q, i) /\ i # a
  <2>1. i \in Indices /\ Dist(s, i) < Dist(s, a) BY <1>4 DEF Window
  <2>2. i # a BY <2>1, <1>1, <1>9
  <2>3. Dist(s, i) < Size /\ Dist(s, a) < Size
    BY <2>1, <1>1, <1>3, <1>4, <1>9, Sizes
  <2>4. Slot(i) # Slot(a) BY <2>1, <2>2, <2>3, <1>1, SlotApart
  <2>5. Slot(i) \in 0 .. Size - 1 /\ avail[q].entry \in [0 .. Size - 1 -> Buffers \cup {None}]
    BY <2>1, SlotType, QueueTypes
  <2> QED BY <2>2, <2>4, <2>5 DEF Entry
<1>13. Entry(q, a)' = b
  <2>1. Slot(a) \in 0 .. Size - 1 /\ avail[q].entry \in [0 .. Size - 1 -> Buffers \cup {None}]
    BY <1>1, SlotType, QueueTypes
  <2> QED BY <2>1 DEF Entry
<1> QED BY <1>2, <1>3, <1>9, Sizes, <1>4, <1>6, <1>7, <1>11, <1>12, <1>13

LEMMA PostKeeps ==
  ASSUME RingTypes, NEW q \in Queues, NEW b, Ordered(q), Placed(q), PostsTo(q, b)
  PROVE  Ordered(q)' /\ Placed(q)'
<1>0. PICK a : a = avail[q].idx OBVIOUS
<1>1. /\ Outstanding(q)' = Outstanding(q) + 1
      /\ Cardinality(held'[q]) = Cardinality(held[q]) - 1
      /\ Window(q)' = Window(q) \cup {a}
      /\ Done(q)' = Done(q) /\ Retired(q)' = Retired(q)
      /\ \A i \in Window(q) : Entry(q, i)' = Entry(q, i) /\ i # a
      /\ Entry(q, a)' = b
  BY <1>0, PostWindow
<1>2. /\ b \in held[q] /\ held[q] \subseteq Buffers /\ held'[q] = held[q] \ {b}
      /\ Cardinality(held[q]) \in Nat /\ Outstanding(q) \in Nat /\ Done(q) \in Nat
  BY QueueTypes, Counts DEF PostsTo
<1>3. Ordered(q)' BY <1>1, <1>2 DEF Ordered, PostsTo
<1>4. \A i \in Window(q)' : Entry(q, i)' \in Buffers \ held'[q]
  BY <1>1, <1>2 DEF Placed
<1>5. \A i, j \in Window(q)' : i # j => Entry(q, i)' # Entry(q, j)'
  BY <1>1, <1>2 DEF Placed
<1>6. \A c \in Buffers \ held'[q] : \E i \in Window(q)' : Entry(q, i)' = c
  BY <1>1, <1>2 DEF Placed
<1>7. \A i \in Retired(q)' : used'[q].entry[Slot(i)] = Entry(q, i)'
  <2>1. ASSUME NEW i \in Retired(q) PROVE i \in Window(q)
    BY <1>2, Counts DEF Retired, Window, Ordered
  <2> QED BY <2>1, <1>1 DEF Placed, PostsTo
<1> QED BY <1>3, <1>4, <1>5, <1>6, <1>7 DEF Placed

(* Taking back: the window loses the guest's position. *)
TakesBack(q, b) ==
  /\ seen[q] # used[q].idx
  /\ b = used[q].entry[Slot(seen[q])]
  /\ held'[q] = held[q] \cup {b}
  /\ seen'[q] = NextIndex(seen[q])
  /\ avail'[q] = avail[q] /\ used'[q] = used[q]
  /\ lastAvail'[q] = lastAvail[q] /\ lastUsed'[q] = lastUsed[q]

LEMMA TakeWindow ==
  ASSUME RingTypes, NEW q \in Queues, NEW b, Ordered(q), Placed(q), TakesBack(q, b),
         NEW s, s = seen[q]
  PROVE  /\ s \in Retired(q) /\ s \in Window(q) /\ Dist(s, s) = 0
         /\ b = Entry(q, s) /\ b \in Buffers \ held[q]
         /\ Cardinality(held'[q]) = Cardinality(held[q]) + 1
         /\ Outstanding(q)' = Outstanding(q) - 1 /\ Done(q)' = Done(q) - 1
         /\ \A i \in Indices \ {s} : Dist(seen'[q], i) = Dist(s, i) - 1
         /\ Dist(seen'[q], s) = IndexSpan - 1
         /\ Window(q)' = Window(q) \ {s} /\ Retired(q)' = Retired(q) \ {s}
         /\ \A i : Entry(q, i)' = Entry(q, i)
<1> USE DEF TakesBack
<1>1. /\ s \in Indices /\ used[q].idx \in Indices /\ avail[q].idx \in Indices
      /\ lastAvail[q] \in Indices /\ seen'[q] \in Indices
  BY QueueTypes, NextIs
<1>2. /\ Dist(s, used[q].idx) \in 1 .. IndexSpan - 1 /\ Dist(s, s) = 0
      /\ \A i \in Indices : Dist(s, i) \in 0 .. IndexSpan - 1
  BY <1>1, Distances, Sizes
<1>3. /\ Done(q) = Dist(s, lastAvail[q]) /\ Outstanding(q) = Dist(s, avail[q].idx)
  BY DEF Done, Outstanding
<1>4. Done(q) > 0 /\ Outstanding(q) > 0 /\ Outstanding(q) < IndexSpan
  BY <1>1, <1>2, <1>3, Sizes DEF Ordered
<1>5. s \in Retired(q) /\ s \in Window(q) BY <1>1, <1>2, <1>4 DEF Retired, Window
<1>6. b = Entry(q, s) /\ b \in Buffers \ held[q] BY <1>5 DEF Placed
<1>7. Cardinality(held'[q]) = Cardinality(held[q]) + 1
  <2>1. IsFiniteSet(held[q]) BY QueueTypes
  <2> QED BY <2>1, <1>6, FS_AddElement
<1>8. \A i \in Indices \ {s} : Dist(seen'[q], i) = Dist(s, i) - 1
  BY <1>1, Distances
<1>9. Dist(seen'[q], s) = IndexSpan - 1 BY <1>1, Distances
<1>10. lastAvail[q] # s /\ avail[q].idx # s BY <1>2, <1>3, <1>4
<1>11. /\ Done(q)' = Dist(seen'[q], lastAvail[q])
       /\ Outstanding(q)' = Dist(seen'[q], avail[q].idx)
  BY DEF Done, Outstanding
<1>12. Outstanding(q)' = Outstanding(q) - 1 /\ Done(q)' = Done(q) - 1
  BY <1>1, <1>3, <1>8, <1>10, <1>11
<1>13. \A i : Entry(q, i)' = Entry(q, i) BY DEF Entry
<1>14. /\ Done(q) \in Nat /\ Outstanding(q) \in Nat /\ Done(q) <= Outstanding(q)
       /\ IndexSpan \in Nat
  BY <1>1, <1>2, <1>3, Sizes DEF Ordered
<1>15. Window(q)' = Window(q) \ {s}
  <2>1. \A i \in Indices : Dist(seen'[q], i) < Outstanding(q) - 1
                            <=> Dist(s, i) < Outstanding(q) /\ i # s
    BY <1>2, <1>4, <1>8, <1>9, <1>14
  <2> QED BY <2>1, <1>12 DEF Window
<1>16. Retired(q)' = Retired(q) \ {s}
  <2>1. \A i \in Indices : Dist(seen'[q], i) < Done(q) - 1
                            <=> Dist(s, i) < Done(q) /\ i # s
    BY <1>2, <1>4, <1>8, <1>9, <1>14
  <2> QED BY <2>1, <1>12 DEF Retired
<1> QED BY <1>2, <1>5, <1>6, <1>7, <1>8, <1>9, <1>12, <1>13, <1>15, <1>16

LEMMA TakeKeeps ==
  ASSUME RingTypes, NEW q \in Queues, NEW b, Ordered(q), Placed(q), TakesBack(q, b)
  PROVE  Ordered(q)' /\ Placed(q)'
<1>0. PICK s : s = seen[q] OBVIOUS
<1>1. /\ s \in Retired(q) /\ s \in Window(q)
      /\ b = Entry(q, s) /\ b \in Buffers \ held[q]
      /\ Cardinality(held'[q]) = Cardinality(held[q]) + 1
      /\ Outstanding(q)' = Outstanding(q) - 1 /\ Done(q)' = Done(q) - 1
      /\ \A i \in Indices \ {s} : Dist(seen'[q], i) = Dist(s, i) - 1
      /\ Window(q)' = Window(q) \ {s} /\ Retired(q)' = Retired(q) \ {s}
      /\ \A i : Entry(q, i)' = Entry(q, i)
  BY <1>0, TakeWindow
<1>2. /\ held'[q] = held[q] \cup {b} /\ held[q] \subseteq Buffers
      /\ Cardinality(held[q]) \in Nat /\ Outstanding(q) \in Nat /\ Done(q) \in Nat
      /\ used[q].idx \in Indices \ {s} /\ Dist(s, used[q].idx) \in Nat
  BY <1>0, QueueTypes, Counts DEF TakesBack
<1>3. Ordered(q)'
  <2>1. Dist(seen'[q], used'[q].idx) = Dist(s, used[q].idx) - 1
    BY <1>1, <1>2 DEF TakesBack
  <2>2. Dist(seen'[q], used'[q].idx) <= Done(q)'
    BY <2>1, <1>0, <1>1, <1>2 DEF Ordered
  <2> QED BY <2>2, <1>1, <1>2, Sizes DEF Ordered, TakesBack
<1>4. Placed(q)' BY <1>1, <1>2 DEF Placed, TakesBack
<1> QED BY <1>3, <1>4

(* Retiring: the entry the device is at joins the retired ones. *)
RetiresOne(q) ==
  /\ Done(q) < Outstanding(q) /\ head = Entry(q, lastAvail[q])
  /\ used'[q].entry = [used[q].entry EXCEPT ![Slot(lastUsed[q])] = head]
  /\ used'[q].idx = used[q].idx
  /\ lastAvail'[q] = NextIndex(lastAvail[q]) /\ lastUsed'[q] = NextIndex(lastUsed[q])
  /\ avail'[q] = avail[q] /\ seen'[q] = seen[q] /\ held'[q] = held[q]

(* The entry the device is at is outstanding, and not yet retired. *)
LEMMA AtWindow ==
  ASSUME RingTypes, NEW q \in Queues, Done(q) < Outstanding(q)
  PROVE  /\ lastAvail[q] \in Window(q) /\ lastAvail[q] \notin Retired(q)
         /\ Dist(seen[q], lastAvail[q]) = Done(q)
<1>1. lastAvail[q] \in Indices /\ Done(q) \in Nat BY QueueTypes, Counts
<1>2. Dist(seen[q], lastAvail[q]) = Done(q) BY DEF Done
<1> QED BY <1>1, <1>2 DEF Window, Retired

(* There is one when the positions differ. *)
LEMMA Before ==
  ASSUME RingTypes, NEW q \in Queues, NEW i \in Indices, Done(q) <= Dist(seen[q], i)
  PROVE  lastAvail[q] # i <=> Done(q) < Dist(seen[q], i)
<1>1. /\ seen[q] \in Indices /\ lastAvail[q] \in Indices /\ Done(q) \in Nat
      /\ Dist(seen[q], i) \in Nat
  BY QueueTypes, Counts
<1>2. lastAvail[q] # i => Done(q) # Dist(seen[q], i) BY <1>1, DistBetween DEF Done
<1> QED BY <1>1, <1>2 DEF Done

LEMMA RetireWindow ==
  ASSUME RingTypes, NEW q \in Queues, Ordered(q), RetiresOne(q),
         NEW u, u = lastAvail[q]
  PROVE  /\ u \in Window(q) /\ u \notin Retired(q) /\ Dist(seen[q], u) = Done(q)
         /\ Done(q) < Outstanding(q) /\ Done(q)' = Done(q) + 1
         /\ Outstanding(q)' = Outstanding(q) /\ Window(q)' = Window(q)
         /\ Retired(q)' = Retired(q) \cup {u}
         /\ \A i : Entry(q, i)' = Entry(q, i)
<1> USE DEF RetiresOne
<1>1. /\ u \in Window(q) /\ u \notin Retired(q) /\ Dist(seen[q], u) = Done(q)
      /\ Done(q) < Outstanding(q)
  BY AtWindow
<1>2. Outstanding(q)' = Outstanding(q) /\ Window(q)' = Window(q)
  BY DEF Outstanding, Window
<1>3. /\ u \in Indices /\ seen[q] \in Indices
      /\ \A i \in Indices : Dist(seen[q], i) \in 0 .. IndexSpan - 1
      /\ Done(q) \in Nat /\ Outstanding(q) \in 0 .. IndexSpan - 1
  BY QueueTypes, Counts, Distances
<1>4. Done(q)' = Dist(seen[q], NextIndex(u)) BY DEF Done
<1>5. Done(q)' = Done(q) + 1 BY <1>1, <1>3, <1>4, Distances, Sizes
<1>6. Retired(q)' = Retired(q) \cup {u}
  <2>1. \A i \in Indices : Dist(seen[q], i) < Done(q) + 1
                            <=> Dist(seen[q], i) < Done(q) \/ i = u
    BY <1>1, <1>3, DistBetween
  <2> QED BY <2>1, <1>3, <1>5 DEF Retired
<1>7. \A i : Entry(q, i)' = Entry(q, i) BY DEF Entry
<1> QED BY <1>1, <1>2, <1>5, <1>6, <1>7

LEMMA RetireKeeps ==
  ASSUME RingTypes, NEW q \in Queues, Ordered(q), Placed(q), RetiresOne(q)
  PROVE  Ordered(q)' /\ Placed(q)'
<1>0. PICK u : u = lastAvail[q] OBVIOUS
<1>1. /\ u \in Window(q) /\ u \notin Retired(q) /\ Dist(seen[q], u) = Done(q)
      /\ Done(q) < Outstanding(q) /\ Done(q)' = Done(q) + 1
      /\ Outstanding(q)' = Outstanding(q) /\ Window(q)' = Window(q)
      /\ Retired(q)' = Retired(q) \cup {u}
      /\ \A i : Entry(q, i)' = Entry(q, i)
  BY <1>0, RetireWindow
<1>2. /\ Done(q) \in Nat /\ Outstanding(q) \in Nat /\ Cardinality(held[q]) \in Nat
      /\ seen[q] \in Indices /\ u \in Indices /\ used[q].idx \in Indices
      /\ Dist(seen[q], used[q].idx) \in Nat
      /\ \A i \in Indices : Dist(seen[q], i) \in Nat
  BY <1>0, QueueTypes, Counts
<1>3. Ordered(q)' BY <1>1, <1>2 DEF Ordered, RetiresOne
<1>4. ASSUME NEW i \in Retired(q)' PROVE used'[q].entry[Slot(i)] = Entry(q, i)
  <2>1. u = lastUsed[q] /\ head = Entry(q, u) BY <1>0 DEF Ordered, RetiresOne
  <2>2. /\ used[q].entry \in [0 .. Size - 1 -> Buffers \cup {None}]
        /\ i \in Indices /\ Slot(i) \in 0 .. Size - 1 /\ Slot(u) \in 0 .. Size - 1
    BY <1>2, QueueTypes, SlotType DEF Retired
  <2>3. CASE i = u BY <2>1, <2>2, <2>3 DEF RetiresOne
  <2>4. CASE i # u
    <3>1. i \in Retired(q) BY <2>4, <1>1
    <3>2. Dist(seen[q], i) < Size /\ Dist(seen[q], u) < Size
      BY <3>1, <1>1, <1>2, <2>2, Sizes DEF Retired, Ordered
    <3>3. Slot(i) # Slot(u) BY <3>2, <2>2, <2>4, <1>2, SlotApart
    <3> QED BY <3>1, <3>3, <2>1, <2>2 DEF RetiresOne, Placed
  <2> QED BY <2>3, <2>4
<1>5. Placed(q)' BY <1>1, <1>4 DEF Placed, RetiresOne
<1> QED BY <1>3, <1>5

(* Publishing: the guest sees what was retired. *)
PublishesAll(q) ==
  /\ used'[q].entry = used[q].entry /\ used'[q].idx = lastUsed[q]
  /\ avail'[q] = avail[q] /\ seen'[q] = seen[q] /\ held'[q] = held[q]
  /\ lastAvail'[q] = lastAvail[q] /\ lastUsed'[q] = lastUsed[q]

LEMMA PublishKeeps ==
  ASSUME RingTypes, NEW q \in Queues, Ordered(q), Placed(q), PublishesAll(q)
  PROVE  /\ Ordered(q)' /\ Placed(q)'
         /\ Outstanding(q)' = Outstanding(q) /\ Done(q)' = Done(q)
         /\ Window(q)' = Window(q) /\ Retired(q)' = Retired(q)
         /\ \A i : Entry(q, i)' = Entry(q, i)
<1> USE DEF PublishesAll
<1>1. /\ Outstanding(q)' = Outstanding(q) /\ Done(q)' = Done(q)
      /\ Window(q)' = Window(q) /\ Retired(q)' = Retired(q)
      /\ \A i : Entry(q, i)' = Entry(q, i)
  BY DEF Outstanding, Done, Window, Retired, Entry
<1>2. Ordered(q)' BY <1>1, Counts DEF Ordered, Done
<1>3. Placed(q)' BY <1>1 DEF Placed
<1> QED BY <1>1, <1>2, <1>3
-----------------------------------------------------------------------------
(* What each step does to the queues *)

LEMMA EntrySet ==
  ASSUME NEW r \in [Queues -> Rings], NEW q \in Queues, NEW i \in 0 .. Size - 1,
         NEW b \in Buffers \cup {None}
  PROVE  LET new == [r EXCEPT ![q].entry[i] = b] IN
         /\ new \in [Queues -> Rings]
         /\ new[q].entry = [r[q].entry EXCEPT ![i] = b] /\ new[q].idx = r[q].idx
         /\ \A p \in Queues \ {q} : new[p] = r[p]
<1> DEFINE new == [r EXCEPT ![q].entry[i] = b]
<1>1. r[q] \in Rings /\ r[q].entry \in [0 .. Size - 1 -> Buffers \cup {None}] BY DEF Rings
<1>2. [r[q] EXCEPT !.entry[i] = b] \in Rings BY <1>1 DEF Rings
<1>3. new[q] = [r[q] EXCEPT !.entry[i] = b] OBVIOUS
<1>4. new[q].entry = [r[q].entry EXCEPT ![i] = b] /\ new[q].idx = r[q].idx
  BY <1>1, <1>3 DEF Rings
<1>5. new \in [Queues -> Rings] BY <1>2
<1> QED BY <1>4, <1>5

LEMMA IndexSet ==
  ASSUME NEW r \in [Queues -> Rings], NEW q \in Queues, NEW x \in Indices
  PROVE  LET new == [r EXCEPT ![q].idx = x] IN
         /\ new \in [Queues -> Rings]
         /\ new[q].entry = r[q].entry /\ new[q].idx = x
         /\ \A p \in Queues \ {q} : new[p] = r[p]
<1> DEFINE new == [r EXCEPT ![q].idx = x]
<1>1. r[q] \in Rings BY DEF Rings
<1>2. [r[q] EXCEPT !.idx = x] \in Rings BY <1>1 DEF Rings
<1>3. new[q] = [r[q] EXCEPT !.idx = x] OBVIOUS
<1>4. new[q].entry = r[q].entry /\ new[q].idx = x BY <1>1, <1>3 DEF Rings
<1> QED BY <1>2, <1>4

LEMMA PostStep ==
  ASSUME RingTypes, NEW q \in Queues, NEW b \in Buffers, Post(q, b)
  PROVE  /\ PostsTo(q, b) /\ \A p \in Queues \ {q} : SameQueue(p)
         /\ avail' \in [Queues -> Rings] /\ held' \in [Queues -> SUBSET Buffers]
<1> DEFINE k == Slot(avail[q].idx)
           half == [avail EXCEPT ![q].entry[k] = b]
<1>1. k \in 0 .. Size - 1 /\ NextIndex(avail[q].idx) \in Indices
  BY QueueTypes, SlotType, NextIs
<1>2. /\ half \in [Queues -> Rings]
      /\ half[q].entry = [avail[q].entry EXCEPT ![k] = b] /\ half[q].idx = avail[q].idx
      /\ \A p \in Queues \ {q} : half[p] = avail[p]
  BY <1>1, EntrySet DEF RingTypes
<1>3. avail' = [half EXCEPT ![q].idx = NextIndex(avail[q].idx)]
  BY <1>2 DEF Post, RingTypes
<1> HIDE DEF half
<1>4. /\ avail' \in [Queues -> Rings]
      /\ avail'[q].entry = half[q].entry /\ avail'[q].idx = NextIndex(avail[q].idx)
      /\ \A p \in Queues \ {q} : avail'[p] = half[p]
  BY <1>1, <1>2, <1>3, IndexSet
<1>5. /\ held' = [held EXCEPT ![q] = @ \ {b}] /\ b \in held[q]
      /\ UNCHANGED <<used, seen, lastAvail, lastUsed>>
  BY DEF Post, guestOthers, positions
<1> QED BY <1>2, <1>4, <1>5 DEF RingTypes, PostsTo, SameQueue

LEMMA ReclaimStep ==
  ASSUME RingTypes, NEW q \in Queues, Ordered(q), Placed(q), Reclaim(q),
         NEW b, b = used[q].entry[Slot(seen[q])]
  PROVE  /\ TakesBack(q, b) /\ \A p \in Queues \ {q} : SameQueue(p)
         /\ seen' \in [Queues -> Indices] /\ held' \in [Queues -> SUBSET Buffers]
<1>1. /\ seen' = [seen EXCEPT ![q] = NextIndex(@)]
      /\ held' = [held EXCEPT ![q] = @ \cup {b}]
      /\ UNCHANGED <<avail, used, lastAvail, lastUsed>> /\ seen[q] # used[q].idx
  BY DEF Reclaim, guestOthers, positions
<1>2. TakesBack(q, b) BY <1>1 DEF TakesBack, RingTypes
<1>3. b \in Buffers BY <1>2, TakeWindow
<1>4. NextIndex(seen[q]) \in Indices BY QueueTypes, NextIs
<1> QED BY <1>1, <1>2, <1>3, <1>4 DEF RingTypes, SameQueue

LEMMA RetireStep ==
  ASSUME RingTypes, NEW q \in Queues, Retire(q), UNCHANGED <<avail, seen, held>>,
         Done(q) < Outstanding(q), head = Entry(q, lastAvail[q])
  PROVE  /\ RetiresOne(q) /\ \A p \in Queues \ {q} : SameQueue(p)
         /\ used' \in [Queues -> Rings]
         /\ lastAvail' \in [Queues -> Indices] /\ lastUsed' \in [Queues -> Indices]
<1> DEFINE k == Slot(lastUsed[q])
<1>0. PICK h : h = head OBVIOUS
<1> DEFINE new == [used EXCEPT ![q].entry[k] = h]
<1>1. /\ k \in 0 .. Size - 1 /\ h \in Buffers \cup {None}
      /\ NextIndex(lastAvail[q]) \in Indices /\ NextIndex(lastUsed[q]) \in Indices
  BY <1>0, QueueTypes, SlotType, NextIs DEF RingTypes
<1>2. /\ new \in [Queues -> Rings]
      /\ new[q].entry = [used[q].entry EXCEPT ![k] = h] /\ new[q].idx = used[q].idx
      /\ \A p \in Queues \ {q} : new[p] = used[p]
  BY <1>1, EntrySet DEF RingTypes
<1>3. used' = new BY <1>0 DEF Retire
<1> QED BY <1>0, <1>1, <1>2, <1>3 DEF Retire, RingTypes, RetiresOne, SameQueue

LEMMA PublishStep ==
  ASSUME RingTypes, NEW q \in Queues, Publish(q),
         UNCHANGED <<avail, seen, held, lastAvail, lastUsed>>
  PROVE  /\ PublishesAll(q) /\ \A p \in Queues \ {q} : SameQueue(p)
         /\ used' \in [Queues -> Rings]
<1>1. used' = [used EXCEPT ![q].idx = lastUsed[q]] /\ lastUsed[q] \in Indices
  BY QueueTypes DEF Publish
<1> DEFINE r == [used[q] EXCEPT !.idx = lastUsed[q]]
<1>2. used \in [Queues -> Rings] BY DEF RingTypes
<1>3. r \in Rings /\ r.entry = used[q].entry /\ r.idx = lastUsed[q]
  <2>1. used[q] \in Rings BY <1>2
  <2> QED BY <1>1, <2>1 DEF Rings
<1>4. used' = [used EXCEPT ![q] = r] BY <1>1
<1> HIDE DEF r
<1>5. used' \in [Queues -> Rings] /\ used'[q] = r BY <1>2, <1>3, <1>4
<1>6. \A p \in Queues \ {q} : used'[p] = used[p] BY <1>2, <1>4
<1> QED BY <1>3, <1>5, <1>6 DEF PublishesAll, SameQueue

(* The other steps leave the rings and the positions alone. *)
RingsStay == UNCHANGED <<avail, used, seen, held, lastAvail, lastUsed>>

LEMMA StayStep == ASSUME RingsStay PROVE \A q \in Queues : SameQueue(q)
BY DEF RingsStay, SameQueue

LEMMA FailStep ==
  ASSUME RingTypes, NEW q \in Queues, Fail(q)
  PROVE  RingsStay \/ (Publish(q) /\ UNCHANGED <<avail, seen, held, lastAvail, lastUsed>>)
BY DEF Fail, RingsStay, deviceOthers, guestVars, positions

(* A step is a move of the guest's, one of the device's that touches the   *)
(* rings, or leaves them alone.                                            *)
LEMMA Steps ==
  ASSUME RingTypes, [Next]_vars
  PROVE  \/ \E q \in Queues : \E b \in Buffers : Post(q, b)
         \/ \E q \in Queues : Reclaim(q)
         \/ \/ TxUsed
            \/ RxUsed
         \/ \E q \in Queues : Publish(q) /\ UNCHANGED <<avail, seen, held, lastAvail, lastUsed>>
         \/ RingsStay
<1> USE DEF deviceOthers, guestVars, positions
<1>1. CASE UNCHANGED vars BY <1>1 DEF vars, RingsStay
<1>2. CASE Driver BY <1>2 DEF Driver
<1>3. CASE InterruptDone BY <1>3 DEF InterruptDone, RingsStay
<1>4. CASE Arrive BY <1>4 DEF Arrive, RingsStay
<1>5. CASE Transmit
  <2>1. CASE TxPublish BY <2>1 DEF TxPublish, Queues
  <2> QED BY <1>5, <2>1 DEF Transmit, TxBegin, TxEntry, TxData, TxEnd, RingsStay
<1>6. CASE Inject
  <2>1. CASE RxPublish BY <2>1 DEF RxPublish, Queues
  <2> QED BY <1>6, <2>1 DEF Inject, RxBegin, RxEnd, RxEntry, RxInject, RingsStay
<1>7. CASE Failing
  <2>1. CASE TxBeginFails BY <2>1 DEF TxBeginFails, RingsStay
  <2>2. CASE TxFails BY <2>2, FailStep DEF TxFails, Queues
  <2>3. CASE RxFails BY <2>3, FailStep DEF RxFails, Queues
  <2> QED BY <1>7, <2>1, <2>2, <2>3 DEF Failing
<1> QED BY <1>1, <1>2, <1>3, <1>4, <1>5, <1>6, <1>7 DEF Next
-----------------------------------------------------------------------------
(* Rings and calls in every step *)

LEMMA RetireAtTx == ASSUME RingInv, TxUsed
  PROVE Retire("tx") /\ UNCHANGED <<avail, seen, held>> /\ Done("tx") < Outstanding("tx")
        /\ head = Entry("tx", lastAvail["tx"])
<1>1. /\ Done("tx") < Dist(seen["tx"], limit) /\ Dist(seen["tx"], limit) <= Outstanding("tx")
      /\ head = Entry("tx", lastAvail["tx"])
  BY DEF RingInv, Calls, TxCall, TxUsed, Goto
<1>2. "tx" \in Queues /\ limit \in Indices BY DEF RingInv, RingTypes, Queues
<1>3. Done("tx") \in Nat /\ Dist(seen["tx"], limit) \in Nat /\ Outstanding("tx") \in Nat
  BY <1>2, Counts DEF RingInv
<1> QED BY <1>1, <1>3 DEF TxUsed, deviceOthers, guestVars

LEMMA RetireAtRx == ASSUME RingInv, RxUsed
  PROVE Retire("rx") /\ UNCHANGED <<avail, seen, held>> /\ Done("rx") < Outstanding("rx")
        /\ head = Entry("rx", lastAvail["rx"])
BY DEF RingInv, Calls, RxUsed, Goto, deviceOthers, guestVars

LEMMA NextQueues ==
  ASSUME RingInv, [Next]_vars
  PROVE  /\ avail' \in [Queues -> Rings] /\ used' \in [Queues -> Rings]
         /\ seen' \in [Queues -> Indices] /\ held' \in [Queues -> SUBSET Buffers]
         /\ lastAvail' \in [Queues -> Indices] /\ lastUsed' \in [Queues -> Indices]
         /\ \A q \in Queues : Ordered(q)' /\ Placed(q)'
<1> USE DEF RingInv
<1>0. ASSUME NEW q \in Queues, Ordered(q)', Placed(q)', \A p \in Queues \ {q} : SameQueue(p)
      PROVE  \A p \in Queues : Ordered(p)' /\ Placed(p)'
  BY <1>0, SameKeeps
<1>1. CASE \E q \in Queues : \E b \in Buffers : Post(q, b)
  <2>1. PICK q \in Queues, b \in Buffers : Post(q, b) BY <1>1
  <2>2. UNCHANGED <<used, seen, lastAvail, lastUsed>>
    BY <2>1 DEF Post, guestOthers, positions
  <2> QED BY <1>0, <2>1, <2>2, PostStep, PostKeeps DEF RingTypes
<1>2. CASE \E q \in Queues : Reclaim(q)
  <2>1. PICK q \in Queues : Reclaim(q) BY <1>2
  <2>2. PICK b : b = used[q].entry[Slot(seen[q])] OBVIOUS
  <2>3. UNCHANGED <<avail, used, lastAvail, lastUsed>>
    BY <2>1 DEF Reclaim, guestOthers, positions
  <2> QED BY <1>0, <2>1, <2>2, <2>3, ReclaimStep, TakeKeeps DEF RingTypes
<1>3. CASE TxUsed \/ RxUsed
  <2>1. PICK q \in Queues : /\ Retire(q) /\ UNCHANGED <<avail, seen, held>>
                            /\ Done(q) < Outstanding(q) /\ head = Entry(q, lastAvail[q])
    BY <1>3, RetireAtTx, RetireAtRx DEF Queues
  <2> QED BY <1>0, <2>1, RetireStep, RetireKeeps DEF RingTypes
<1>4. CASE \E q \in Queues : Publish(q) /\ UNCHANGED <<avail, seen, held, lastAvail, lastUsed>>
  BY <1>0, <1>4, PublishStep, PublishKeeps DEF RingTypes
<1>5. CASE RingsStay BY <1>5, StayStep, SameKeeps DEF RingsStay, RingTypes
<1> QED BY <1>1, <1>2, <1>3, <1>4, <1>5, Steps

LEMMA NextLocals ==
  ASSUME RingInv, [Next]_vars
  PROVE  /\ limit' \in Indices /\ head' \in Buffers \cup {None}
         /\ pc' \in {"idle", "txEntry", "txData", "txUsed", "txPublish",
                     "rxLoop", "rxEntry", "rxInject", "rxUsed", "rxPublish"}
<1> USE DEF RingInv, RingTypes, locals, Goto, Return
<1>0. 0 \in Indices /\ "tx" \in Queues /\ "rx" \in Queues BY Sizes DEF Indices, Queues
<1>1. \A q \in Queues : /\ avail[q].idx \in Indices
                        /\ avail[q].entry[Slot(lastAvail[q])] \in Buffers \cup {None}
  BY QueueTypes, SlotType
<1>2. CASE UNCHANGED vars BY <1>2 DEF vars
<1>3. CASE Driver \/ InterruptDone \/ Arrive
  BY <1>3 DEF Driver, Post, Reclaim, guestOthers, InterruptDone, Arrive
<1>4. CASE Transmit
  BY <1>0, <1>1, <1>4 DEF Transmit, TxBegin, TxEntry, TxData, TxUsed, TxEnd, TxPublish
<1>5. CASE Inject
  BY <1>0, <1>1, <1>5 DEF Inject, RxBegin, RxEnd, RxEntry, RxInject, RxUsed, RxPublish
<1>6. CASE Failing BY <1>0, <1>6 DEF Failing, TxBeginFails, TxFails, RxFails
<1> QED BY <1>2, <1>3, <1>4, <1>5, <1>6 DEF Next

(* The guest moves on while a call is under way: what the call read stays  *)
(* where it is.                                                            *)
LEMMA GuestMoves ==
  ASSUME RingInv, NEW q \in Queues, Reclaim(q) \/ \E b \in Buffers : Post(q, b)
  PROVE  /\ \A p \in Queues \ {q} : SameQueue(p)
         /\ Done(q) < Outstanding(q) =>
              /\ Done(q)' < Outstanding(q)'
              /\ Entry(q, lastAvail[q])' = Entry(q, lastAvail[q])
         /\ \A i \in Indices : Done(q) <= Dist(seen[q], i) /\ Dist(seen[q], i) <= Outstanding(q)
              => /\ Done(q)' <= Dist(seen'[q], i) /\ Dist(seen'[q], i) <= Outstanding(q)'
                 /\ Done(q) < Dist(seen[q], i) => Done(q)' < Dist(seen'[q], i)
<1> USE DEF RingInv
<1>0. /\ Done(q) \in Nat /\ Outstanding(q) \in Nat /\ seen[q] \in Indices
      /\ \A i \in Indices : Dist(seen[q], i) \in Nat
  BY Counts, QueueTypes
<1>1. CASE \E b \in Buffers : Post(q, b)
  <2>1. PICK b \in Buffers : Post(q, b) BY <1>1
  <2>2. PostsTo(q, b) /\ \A p \in Queues \ {q} : SameQueue(p) BY <2>1, PostStep
  <2>3. PICK a : a = avail[q].idx OBVIOUS
  <2>4. /\ Outstanding(q)' = Outstanding(q) + 1 /\ Done(q)' = Done(q)
        /\ \A i \in Window(q) : Entry(q, i)' = Entry(q, i)
    BY <2>2, <2>3, PostWindow
  <2>5. seen'[q] = seen[q] /\ lastAvail'[q] = lastAvail[q] BY <2>2 DEF PostsTo
  <2>6. Done(q) < Outstanding(q) => Entry(q, lastAvail[q])' = Entry(q, lastAvail[q])
    BY <2>4, <2>5, AtWindow DEF Entry
  <2> QED BY <1>0, <2>2, <2>4, <2>5, <2>6
<1>2. CASE Reclaim(q)
  <2>1. PICK b : b = used[q].entry[Slot(seen[q])] OBVIOUS
  <2>2. PICK s : s = seen[q] OBVIOUS
  <2>3. TakesBack(q, b) /\ \A p \in Queues \ {q} : SameQueue(p)
    BY <1>2, <2>1, ReclaimStep
  <2>4. /\ Outstanding(q)' = Outstanding(q) - 1 /\ Done(q)' = Done(q) - 1
        /\ \A i \in Indices \ {s} : Dist(seen'[q], i) = Dist(s, i) - 1
        /\ \A i : Entry(q, i)' = Entry(q, i)
        /\ s \in Retired(q) /\ Dist(s, s) = 0
    BY <2>2, <2>3, TakeWindow
  <2>5. lastAvail'[q] = lastAvail[q] /\ avail'[q] = avail[q] BY <2>3 DEF TakesBack
  <2>6. Done(q) > 0 BY <1>0, <2>2, <2>4 DEF Retired
  <2>7. \A i \in Indices : Done(q) <= Dist(s, i) => i # s BY <1>0, <2>4, <2>6
  <2> QED BY <1>0, <2>2, <2>3, <2>4, <2>5, <2>7 DEF Entry
<1> QED BY <1>1, <1>2

LEMMA NextCalls == ASSUME RingInv, [Next]_vars PROVE Calls'
<1> USE DEF RingInv, Goto, Return, locals
<1>0. /\ "tx" \in Queues /\ "rx" \in Queues /\ limit \in Indices
      /\ \A q \in Queues : /\ Done(q) \in Nat /\ Outstanding(q) \in Nat
                           /\ Done(q) <= Outstanding(q)
                           /\ \A i \in Indices : Dist(seen[q], i) \in Nat
  BY Counts DEF Queues, RingTypes, Ordered
<1>1. CASE RingsStay /\ UNCHANGED <<pc, limit, head>>
  <2>1. \A q \in Queues : SameQueue(q) BY <1>1, StayStep
  <2>2. \A q \in Queues : /\ Outstanding(q)' = Outstanding(q) /\ Done(q)' = Done(q)
                          /\ \A i : Entry(q, i)' = Entry(q, i)
    BY <2>1, SameKeeps
  <2> QED BY <1>0, <1>1, <2>2 DEF Calls, TxCall, RingsStay, Entry
<1>2. CASE Driver
  <2>1. PICK q \in Queues : Reclaim(q) \/ \E b \in Buffers : Post(q, b)
    BY <1>2 DEF Driver
  <2>2. UNCHANGED <<pc, limit, head, lastAvail>>
    BY <2>1 DEF Reclaim, Post, guestOthers, positions
  <2>3. /\ \A p \in Queues \ {q} : SameQueue(p)
        /\ Done(q) < Outstanding(q) =>
              /\ Done(q)' < Outstanding(q)'
              /\ Entry(q, lastAvail[q])' = Entry(q, lastAvail[q])
        /\ \A i \in Indices : Done(q) <= Dist(seen[q], i) /\ Dist(seen[q], i) <= Outstanding(q)
              => /\ Done(q)' <= Dist(seen'[q], i) /\ Dist(seen'[q], i) <= Outstanding(q)'
                 /\ Done(q) < Dist(seen[q], i) => Done(q)' < Dist(seen'[q], i)
    BY <2>1, GuestMoves
  <2>4. \A p \in Queues \ {q} :
          /\ Outstanding(p)' = Outstanding(p) /\ Done(p)' = Done(p)
          /\ seen'[p] = seen[p]
          /\ \A i : Entry(p, i)' = Entry(p, i)
    BY <2>3, SameKeeps DEF SameQueue
  <2>5. CASE q = "tx"
    <3>1. "rx" \in Queues \ {q} BY <2>5, <1>0
    <3>2. TxCall => /\ Done("tx")' <= Dist(seen'["tx"], limit)
                    /\ Dist(seen'["tx"], limit) <= Outstanding("tx")'
      BY <1>0, <2>3, <2>5 DEF Calls
    <3>3. pc \in {"txData", "txUsed"} =>
            /\ Done("tx")' < Dist(seen'["tx"], limit)
            /\ Entry("tx", lastAvail["tx"])' = Entry("tx", lastAvail["tx"])
      BY <1>0, <2>3, <2>5 DEF Calls, TxCall
    <3> QED BY <2>2, <2>4, <3>1, <3>2, <3>3 DEF Calls, TxCall, Entry
  <2>6. CASE q = "rx"
    <3>1. "tx" \in Queues \ {q} BY <2>6, <1>0
    <3> QED BY <1>0, <2>2, <2>3, <2>4, <2>6, <3>1 DEF Calls, TxCall, Entry
  <2> QED BY <2>5, <2>6 DEF Queues
<1>3. CASE pc' \in {"idle", "rxLoop", "rxPublish"} BY <1>3 DEF Calls, TxCall
<1>4. RingsStay => /\ \A q \in Queues : /\ Outstanding(q)' = Outstanding(q)
                                        /\ Done(q)' = Done(q) /\ seen'[q] = seen[q]
                                        /\ \A i : Entry(q, i)' = Entry(q, i)
                   /\ lastAvail' = lastAvail
  BY StayStep, SameKeeps DEF SameQueue, RingsStay
<1> USE DEF deviceOthers, guestVars, positions
<1>5. CASE TxBegin
  <2>1. RingsStay /\ pc' = "txEntry" /\ limit' = avail["tx"].idx
    BY <1>5 DEF TxBegin, RingsStay
  <2>2. Dist(seen'["tx"], limit') = Outstanding("tx") BY <2>1 DEF Outstanding, RingsStay
  <2> QED BY <2>1, <2>2, <1>0, <1>4 DEF Calls, TxCall
<1>6. CASE TxEntry
  <2>1. /\ RingsStay /\ pc = "txEntry" /\ pc' = "txData" /\ limit' = limit
        /\ lastAvail["tx"] # limit /\ head' = Entry("tx", lastAvail["tx"])
    BY <1>6 DEF TxEntry, RingsStay, Entry
  <2>2. /\ Done("tx") <= Dist(seen["tx"], limit)
        /\ Dist(seen["tx"], limit) <= Outstanding("tx")
    BY <2>1 DEF Calls, TxCall
  <2>3. Done("tx") < Dist(seen["tx"], limit) BY <1>0, <2>1, <2>2, Before
  <2>4. Entry("tx", lastAvail["tx"])' = Entry("tx", lastAvail["tx"])
    BY <2>1, <1>4, <1>0 DEF Entry
  <2> QED BY <2>1, <2>2, <2>3, <2>4, <1>0, <1>4 DEF Calls, TxCall
<1>7. CASE TxData \/ TxEnd \/ RxInject
  <2>1. /\ RingsStay /\ limit' = limit /\ head' = head
        /\ \/ pc = "txData" /\ pc' = "txUsed"
           \/ pc = "txEntry" /\ pc' = "txPublish"
           \/ pc = "rxInject" /\ pc' = "rxUsed"
        \/ pc' = "idle"
    BY <1>7 DEF TxData, TxEnd, RxInject, RingsStay
  <2>2. RingsStay => Entry("tx", lastAvail["tx"])' = Entry("tx", lastAvail["tx"])
                     /\ Entry("rx", lastAvail["rx"])' = Entry("rx", lastAvail["rx"])
    BY <1>4, <1>0 DEF Entry
  <2> QED BY <2>1, <2>2, <1>0, <1>3, <1>4 DEF Calls, TxCall
<1>8. CASE TxUsed
  <2>1. /\ RetiresOne("tx") /\ UNCHANGED <<seen, limit>> /\ pc = "txUsed" /\ pc' = "txEntry"
    BY <1>0, <1>8, RetireAtTx, RetireStep DEF TxUsed
  <2>2. Done("tx")' = Done("tx") + 1 /\ Outstanding("tx")' = Outstanding("tx")
    BY <1>0, <2>1, RetireWindow
  <2> QED BY <1>0, <2>1, <2>2 DEF Calls, TxCall
<1>9. CASE RxBegin
  <2>1. RingsStay /\ pc' = "rxEntry" /\ lastAvail["rx"] # avail["rx"].idx
    BY <1>9 DEF RxBegin, RxReady, RingsStay
  <2>2. avail["rx"].idx \in Indices BY <1>0, QueueTypes
  <2>3. Done("rx") < Outstanding("rx") BY <1>0, <2>1, <2>2, Before DEF Outstanding
  <2> QED BY <1>0, <1>4, <2>1, <2>3 DEF Calls, TxCall
<1>10. CASE RxEntry
  <2>1. /\ RingsStay /\ pc = "rxEntry" /\ pc' = "rxInject"
        /\ head' = Entry("rx", lastAvail["rx"])
    BY <1>10 DEF RxEntry, RingsStay, Entry
  <2>2. Entry("rx", lastAvail["rx"])' = Entry("rx", lastAvail["rx"])
    BY <2>1, <1>4, <1>0 DEF Entry
  <2> QED BY <2>1, <2>2, <1>0, <1>4 DEF Calls, TxCall
<1>11. CASE InterruptDone \/ Arrive \/ UNCHANGED vars
  BY <1>1, <1>11 DEF InterruptDone, Arrive, vars, RingsStay
<1>12. CASE TxPublish \/ RxEnd \/ RxUsed \/ RxPublish \/ TxFails \/ RxFails
  BY <1>3, <1>12 DEF TxPublish, RxEnd, RxUsed, RxPublish, TxFails, RxFails
<1>13. CASE TxBeginFails BY <1>3, <1>13 DEF TxBeginFails
<1> QED
  BY <1>2, <1>5, <1>6, <1>7, <1>8, <1>9, <1>10, <1>11, <1>12, <1>13
     DEF Next, Transmit, Inject, Failing

LEMMA InitRings == Init => RingInv
<1> SUFFICES ASSUME Init PROVE RingInv OBVIOUS
<1> USE DEF Init
<1>0. 0 \in Indices BY Sizes DEF Indices
<1>1. [entry |-> [i \in 0 .. Size - 1 |-> None], idx |-> 0] \in Rings BY <1>0 DEF Rings
<1>2. RingTypes BY <1>0, <1>1 DEF RingTypes
<1>3. Calls BY DEF Calls, TxCall
<1>4. ASSUME NEW q \in Queues PROVE Ordered(q) /\ Placed(q)
  <2>1. /\ avail[q].idx = 0 /\ used[q].idx = 0 /\ seen[q] = 0
        /\ lastAvail[q] = 0 /\ lastUsed[q] = 0 /\ held[q] = Buffers
    OBVIOUS
  <2>2. Dist(0, 0) = 0 BY <1>0, Distances
  <2>3. Cardinality(Buffers) = Size BY Sizes, FS_Interval DEF Buffers
  <2>4. Outstanding(q) = 0 /\ Done(q) = 0 BY <2>1, <2>2 DEF Outstanding, Done
  <2>5. Ordered(q) BY <2>1, <2>2, <2>3, <2>4, Sizes DEF Ordered
  <2>6. \A i \in Indices : Dist(0, i) \in Nat BY <1>0, Distances
  <2>7. Window(q) = {} /\ Retired(q) = {} BY <2>1, <2>4, <2>6 DEF Window, Retired
  <2> QED BY <2>1, <2>5, <2>7 DEF Placed
<1> QED BY <1>2, <1>3, <1>4 DEF RingInv

LEMMA NextRings == RingInv /\ [Next]_vars => RingInv'
<1> SUFFICES ASSUME RingInv, [Next]_vars PROVE RingInv' OBVIOUS
<1> QED BY NextQueues, NextLocals, NextCalls DEF RingInv, RingTypes
-----------------------------------------------------------------------------
(* Buffers *)

LEMMA StepFrom ==
  ASSUME NEW lo \in Indices, NEW k \in 0 .. IndexSpan - 1
  PROVE  (lo + k) % IndexSpan \in Indices /\ Dist(lo, (lo + k) % IndexSpan) = k
<1>1. PICK n : n = lo + k OBVIOUS
<1>2. PICK i : i = n % IndexSpan OBVIOUS
<1>3. n \in 0 .. 2 * IndexSpan - 1 BY <1>1, Sizes DEF Indices
<1>4. i = IF n < IndexSpan THEN n ELSE n - IndexSpan
  BY <1>2, <1>3, Sizes, Remainder
<1>5. i \in Indices BY <1>3, <1>4, Sizes DEF Indices
<1>6. Dist(lo, i) = IF i >= lo THEN i - lo ELSE i - lo + IndexSpan BY <1>5, DistIs
<1>7. Dist(lo, i) = k BY <1>1, <1>4, <1>6, Sizes DEF Indices
<1> QED BY <1>1, <1>2, <1>5, <1>7

(* The indices between two are those nearer than the second. *)
LEMMA BetweenIs ==
  ASSUME NEW lo \in Indices, NEW hi \in Indices
  PROVE  /\ Between(lo, hi) = {i \in Indices : Dist(lo, i) < Dist(lo, hi)}
         /\ Cardinality(Between(lo, hi)) = Dist(lo, hi)
<1> DEFINE d == Dist(lo, hi)
           K == 0 .. d - 1
           at(k) == (lo + k) % IndexSpan
           f == [k \in K |-> at(k)]
           B == {i \in Indices : Dist(lo, i) < d}
<1>1. d \in 0 .. IndexSpan - 1 /\ \A i \in Indices : Dist(lo, i) \in Nat BY Distances
<1>2. Between(lo, hi) = {at(k) : k \in K} BY DEF Between, Dist
<1>3. \A k \in K : k \in 0 .. IndexSpan - 1 BY <1>1, Sizes
<1>4. \A k \in K : at(k) \in Indices /\ Dist(lo, at(k)) = k BY <1>3, StepFrom
<1> HIDE DEF d, at
<1>5. ASSUME NEW i \in B PROVE Dist(lo, i) \in K /\ at(Dist(lo, i)) = i
  <2>1. Dist(lo, i) \in K BY <1>1
  <2>2. at(Dist(lo, i)) \in Indices /\ Dist(lo, at(Dist(lo, i))) = Dist(lo, i)
    BY <2>1, <1>4
  <2> QED BY <2>1, <2>2, DistBetween
<1>6. \A k \in K : at(k) \in B BY <1>1, <1>4
<1> HIDE DEF K, B
<1>7. Between(lo, hi) = B BY <1>2, <1>5, <1>6
<1>8. f \in Bijection(K, B)
  <2>1. f \in [K -> B] /\ DOMAIN f = K BY <1>6
  <2>2. \A i, j \in K : f[i] = f[j] => i = j BY <1>4
  <2>3. \A i \in B : \E k \in K : f[k] = i BY <1>5
  <2> HIDE DEF f
  <2> QED BY <2>1, <2>2, <2>3 DEF Bijection, Injection, Surjection, IsInjective
<1>9. IsFiniteSet(K) /\ Cardinality(K) = d
  <2>1. d \in Nat /\ d - 1 \in Int BY <1>1, Sizes
  <2>2. /\ IsFiniteSet(0 .. d - 1)
        /\ Cardinality(0 .. d - 1) = IF 0 > d - 1 THEN 0 ELSE d - 1 - 0 + 1
    BY <2>1, FS_Interval
  <2> QED BY <2>1, <2>2 DEF K
<1>10. Cardinality(B) = d BY <1>8, <1>9, FS_Bijection DEF ExistsBijection
<1> QED BY <1>7, <1>10 DEF B, d

LEMMA DistBack ==
  ASSUME NEW i \in Indices, NEW j \in Indices, i # j
  PROVE  Dist(j, i) = IndexSpan - Dist(i, j)
<1>1. /\ Dist(i, j) = IF j >= i THEN j - i ELSE j - i + IndexSpan
      /\ Dist(j, i) = IF i >= j THEN i - j ELSE i - j + IndexSpan
  BY DistIs
<1> QED BY <1>1, Sizes DEF Indices

(* The published entries, and those on their way, make up the window. *)
LEMMA Spans ==
  ASSUME RingInv, NEW q \in Queues
  PROVE  /\ Returned(q) \subseteq Retired(q) /\ Retired(q) \subseteq Window(q)
         /\ \A i : i \in Returned(q) <=> i \in Window(q) /\ Dist(seen[q], i) < Dist(seen[q], used[q].idx)
         /\ \A i : i \in InFlight(q) <=> i \in Window(q) /\ Dist(seen[q], i) >= Dist(seen[q], used[q].idx)
         /\ Cardinality(Returned(q)) = Dist(seen[q], used[q].idx)
         /\ Cardinality(InFlight(q)) = Outstanding(q) - Dist(seen[q], used[q].idx)
<1> DEFINE s == seen[q]
           u == used[q].idx
           a == avail[q].idx
<1>1. /\ s \in Indices /\ u \in Indices /\ a \in Indices
      /\ Dist(s, u) <= Done(q) /\ Done(q) <= Outstanding(q)
      /\ Done(q) \in Nat /\ Outstanding(q) \in 0 .. IndexSpan - 1
      /\ Outstanding(q) = Dist(s, a)
      /\ \A i \in Indices : Dist(s, i) \in 0 .. IndexSpan - 1
  BY QueueTypes, Counts DEF RingInv, Ordered, Outstanding
<1>2. /\ Returned(q) = {i \in Indices : Dist(s, i) < Dist(s, u)}
      /\ Cardinality(Returned(q)) = Dist(s, u)
      /\ InFlight(q) = {i \in Indices : Dist(u, i) < Dist(u, a)}
      /\ Cardinality(InFlight(q)) = Dist(u, a)
  BY <1>1, BetweenIs DEF Returned, InFlight
<1> HIDE DEF s, u, a
<1>3. Dist(u, a) = Dist(s, a) - Dist(s, u) BY <1>1, DistBetween
<1>4. ASSUME NEW i \in Indices
      PROVE  Dist(u, i) < Dist(u, a) <=> Dist(s, i) < Outstanding(q) /\ Dist(s, i) >= Dist(s, u)
  <2>1. CASE Dist(s, i) >= Dist(s, u)
    <3>1. Dist(u, i) = Dist(s, i) - Dist(s, u) BY <2>1, <1>1, DistBetween
    <3> QED BY <2>1, <3>1, <1>1, <1>3, Sizes
  <2>2. CASE Dist(s, i) < Dist(s, u)
    <3>1. Dist(i, u) = Dist(s, u) - Dist(s, i) BY <2>2, <1>1, DistBetween, Sizes
    <3>2. i # u BY <2>2, <1>1, Sizes
    <3>3. Dist(u, i) = IndexSpan - Dist(i, u) BY <3>2, <1>1, DistBack
    <3> QED BY <2>2, <3>1, <3>3, <1>1, <1>3, Sizes
  <2> QED BY <2>1, <2>2, <1>1, Sizes
<1>5. Returned(q) \subseteq Retired(q) /\ Retired(q) \subseteq Window(q)
  BY <1>1, <1>2, Sizes DEF Retired, Window, s
<1>6. \A i : i \in Returned(q) <=> i \in Window(q) /\ Dist(s, i) < Dist(s, u)
  BY <1>1, <1>2, Sizes DEF Window, s
<1>7. \A i : i \in InFlight(q) <=> i \in Window(q) /\ Dist(s, i) >= Dist(s, u)
  BY <1>1, <1>2, <1>4, Sizes DEF Window, s
<1> QED BY <1>1, <1>2, <1>3, <1>5, <1>6, <1>7 DEF s, u

LEMMA ReturnsOnce == RingInv => BuffersReturnOnce
<1> SUFFICES ASSUME RingInv, NEW q \in Queues
             PROVE  /\ held[q] \intersect (Named(avail, q, InFlight(q)) \union Named(used, q, Returned(q))) = {}
                    /\ Named(avail, q, InFlight(q)) \intersect Named(used, q, Returned(q)) = {}
                    /\ held[q] \union Named(avail, q, InFlight(q)) \union Named(used, q, Returned(q)) = Buffers
                    /\ Cardinality(held[q]) + Cardinality(InFlight(q)) + Cardinality(Returned(q)) = Size
  BY DEF BuffersReturnOnce
<1> DEFINE R == Returned(q)
           F == InFlight(q)
<1>1. /\ R \subseteq Retired(q) /\ R \subseteq Window(q) /\ F \subseteq Window(q)
      /\ \A i \in Window(q) : i \in R \/ i \in F
      /\ \A i \in R : i \notin F
      /\ Cardinality(R) = Dist(seen[q], used[q].idx)
      /\ Cardinality(F) = Outstanding(q) - Dist(seen[q], used[q].idx)
  <2>1. \A i \in Window(q) : Dist(seen[q], i) \in Nat BY Counts DEF RingInv, Window
  <2>2. Dist(seen[q], used[q].idx) \in Nat BY Counts, QueueTypes DEF RingInv
  <2> QED BY <2>1, <2>2, Spans
<1>2. /\ \A i \in Window(q) : Entry(q, i) \in Buffers \ held[q]
      /\ \A i, j \in Window(q) : i # j => Entry(q, i) # Entry(q, j)
      /\ \A b \in Buffers \ held[q] : \E i \in Window(q) : Entry(q, i) = b
      /\ \A i \in Retired(q) : used[q].entry[Slot(i)] = Entry(q, i)
      /\ Outstanding(q) + Cardinality(held[q]) = Size
  BY DEF RingInv, Placed, Ordered
<1>3. /\ held[q] \subseteq Buffers /\ Cardinality(held[q]) \in Nat
      /\ Outstanding(q) \in Nat /\ Dist(seen[q], used[q].idx) \in Nat
  BY Counts, QueueTypes DEF RingInv
<1>4. /\ Named(avail, q, F) = {Entry(q, i) : i \in F}
      /\ Named(used, q, R) = {Entry(q, i) : i \in R}
  BY <1>1, <1>2 DEF Named, Entry
<1> HIDE DEF R, F
<1>5. Cardinality(held[q]) + Cardinality(F) + Cardinality(R) = Size
  BY <1>1, <1>2, <1>3, Sizes
<1>6. held[q] \intersect (Named(avail, q, F) \union Named(used, q, R)) = {}
  BY <1>1, <1>2, <1>4
<1>7. Named(avail, q, F) \intersect Named(used, q, R) = {} BY <1>1, <1>2, <1>4
<1>8. held[q] \union Named(avail, q, F) \union Named(used, q, R) = Buffers
  BY <1>1, <1>2, <1>3, <1>4
<1> QED BY <1>5, <1>6, <1>7, <1>8 DEF R, F

(* The positions and entries of both queues stay in order, through every   *)
(* step of the guest and every failing DMA (vcs_vq_process_tx,             *)
(* vcs_vq_process_rx).                                                     *)
THEOREM RingsInOrder == Spec => []RingInv
BY InitRings, NextRings, PTL DEF Spec

(* No buffer of either queue is ever in two places or nowhere, for every   *)
(* ring size and index span and whatever DMA of the device fails           *)
(* (vcs_vq_process_tx, vcs_vq_process_rx).                                 *)
THEOREM BuffersReturn == Spec => []BuffersReturnOnce
BY RingsInOrder, ReturnsOnce, PTL
-----------------------------------------------------------------------------
(* The frames sent *)

(* The frame in the entry the device is at, and whether it was sent before. *)
Upcoming == posted + 1 - Outstanding("tx") + Done("tx")
Resent == Upcoming \in Range(wire) /\ pc # "txUsed"

(* The guest numbers the frames in the order it posts them; what is retired *)
(* was sent, and a frame sent twice cost a failure.                         *)
Sent ==
  /\ \A i \in Window("tx") :
       /\ load["tx"][Entry("tx", i)] \in Frames
       /\ load["tx"][Entry("tx", i)] = posted + 1 - Outstanding("tx") + Dist(seen["tx"], i)
  /\ \A i \in Retired("tx") : load["tx"][Entry("tx", i)] \in Range(wire)
  /\ pc = "txUsed" => Upcoming \in Range(wire)
  /\ \A f \in Range(wire) : f <= Upcoming
  /\ Len(wire) - Cardinality(Range(wire)) + (IF Resent THEN 1 ELSE 0) <= failures

(* Types of what the rings carry. *)
Contents ==
  /\ posted \in 0 .. MaxFrames /\ arrived \in 0 .. MaxFrames /\ failures \in Nat
  /\ load \in [Queues -> [Buffers -> Frames \cup {None}]]
  /\ frame \in Frames \cup {None}
  /\ worked \in BOOLEAN /\ interrupt \in BOOLEAN
  /\ incoming \in Seq(Frames) /\ wire \in Seq(Frames) /\ received \in Seq(Frames)

(* The frames of a sequence, and what one more makes of them. *)
LEMMA RangeFinite ==
  ASSUME NEW S, NEW s \in Seq(S)
  PROVE  /\ IsFiniteSet(Range(s)) /\ Cardinality(Range(s)) \in Nat
         /\ Range(s) \subseteq S
         /\ \A x : x \in Range(s) <=> \E k \in 1 .. Len(s) : s[k] = x
<1>1. Len(s) \in Nat /\ s \in [1 .. Len(s) -> S] /\ DOMAIN s = 1 .. Len(s)
  BY LenProperties
<1>2. s \in Surjection(1 .. Len(s), Range(s)) BY <1>1 DEF Surjection, Range
<1>3. IsFiniteSet(1 .. Len(s)) BY <1>1, FS_Interval
<1>4. IsFiniteSet(Range(s)) BY <1>2, <1>3, FS_Surjection
<1> QED BY <1>1, <1>4, FS_CardinalityType DEF Range

LEMMA RangeAppend ==
  ASSUME NEW S, NEW s \in Seq(S), NEW e \in S
  PROVE  /\ Range(Append(s, e)) = Range(s) \cup {e}
         /\ Cardinality(Range(Append(s, e)))
              = Cardinality(Range(s)) + IF e \in Range(s) THEN 0 ELSE 1
<1>1. /\ Append(s, e) \in Seq(S) /\ Len(Append(s, e)) = Len(s) + 1
      /\ \A k \in 1 .. Len(s) : Append(s, e)[k] = s[k]
      /\ Append(s, e)[Len(s) + 1] = e /\ Len(s) \in Nat
  BY AppendProperties, LenProperties
<1>2. IsFiniteSet(Range(s)) /\ Cardinality(Range(s)) \in Nat BY RangeFinite
<1>3. \A x : x \in Range(s) <=> \E k \in 1 .. Len(s) : s[k] = x BY RangeFinite
<1>4. \A x : x \in Range(Append(s, e)) <=> \E k \in 1 .. Len(s) + 1 : Append(s, e)[k] = x
  <2>1. PICK z : z = Append(s, e) OBVIOUS
  <2>2. z \in Seq(S) /\ Len(z) = Len(s) + 1 BY <1>1, <2>1
  <2>3. \A x : x \in Range(z) <=> \E k \in 1 .. Len(z) : z[k] = x BY <2>2, RangeFinite
  <2> QED BY <2>1, <2>2, <2>3
<1>5. Range(Append(s, e)) = Range(s) \cup {e} BY <1>1, <1>3, <1>4
<1>6. Cardinality(Range(s) \cup {e})
        = IF e \in Range(s) THEN Cardinality(Range(s)) ELSE Cardinality(Range(s)) + 1
  BY <1>2, FS_AddElement
<1> QED BY <1>2, <1>5, <1>6

(* A step that is no move of a queue's leaves its positions and entries.   *)
Alike(q) ==
  /\ Outstanding(q)' = Outstanding(q) /\ Done(q)' = Done(q)
  /\ Window(q)' = Window(q) /\ Retired(q)' = Retired(q)
  /\ seen'[q] = seen[q] /\ lastAvail'[q] = lastAvail[q]
  /\ \A i : Entry(q, i)' = Entry(q, i)

LEMMA AlikeUnless ==
  ASSUME RingInv, [Next]_vars, NEW q \in Queues,
         ~(\E b \in Buffers : Post(q, b)), ~Reclaim(q),
         ~(q = "tx" /\ TxUsed), ~(q = "rx" /\ RxUsed)
  PROVE  Alike(q)
<1> USE DEF RingInv
<1>0. SameQueue(q) => Alike(q) BY SameKeeps DEF SameQueue, Alike
<1>1. CASE \E p \in Queues : \E b \in Buffers : Post(p, b) BY <1>0, <1>1, PostStep
<1>2. CASE \E p \in Queues : Reclaim(p)
  <2>1. PICK p \in Queues : Reclaim(p) BY <1>2
  <2>2. PICK b : b = used[p].entry[Slot(seen[p])] OBVIOUS
  <2>3. \A o \in Queues \ {p} : SameQueue(o) BY <2>1, <2>2, ReclaimStep
  <2> QED BY <1>0, <2>1, <2>3
<1>3. CASE TxUsed \/ RxUsed
  <2>1. PICK p \in Queues : /\ p # q /\ Retire(p) /\ UNCHANGED <<avail, seen, held>>
                            /\ Done(p) < Outstanding(p) /\ head = Entry(p, lastAvail[p])
    BY <1>3, RetireAtTx, RetireAtRx DEF Queues
  <2>2. \A o \in Queues \ {p} : SameQueue(o) BY <2>1, RetireStep
  <2> QED BY <1>0, <2>1, <2>2
<1>4. CASE \E p \in Queues : Publish(p) /\ UNCHANGED <<avail, seen, held, lastAvail, lastUsed>>
  <2>1. PICK p \in Queues : Publish(p) /\ UNCHANGED <<avail, seen, held, lastAvail, lastUsed>>
    BY <1>4
  <2>2. PublishesAll(p) /\ \A o \in Queues \ {p} : SameQueue(o) BY <2>1, PublishStep
  <2>3. PublishesAll(q) => Alike(q) BY PublishKeeps DEF PublishesAll, Alike
  <2> QED BY <1>0, <2>2, <2>3
<1>5. CASE RingsStay BY <1>0, <1>5, StayStep
<1> QED BY <1>1, <1>2, <1>3, <1>4, <1>5, Steps

(* What sent frames depend on, in the steps that are no move of TX.        *)
LEMMA TxElse ==
  ASSUME RingInv, Contents, [Next]_vars,
         ~(\E b \in Buffers : Post("tx", b)), ~Reclaim("tx"), ~TxUsed, ~TxData
  PROVE  /\ Alike("tx") /\ load'["tx"] = load["tx"]
         /\ posted' = posted /\ wire' = wire
         /\ failures' \in {failures, failures + 1}
         /\ pc' = "txUsed" => pc = "txUsed"
         /\ pc = "txUsed" /\ pc' # "txUsed" => failures' = failures + 1
<1> USE DEF Goto, Return, deviceOthers, guestVars, Contents
<1>1. Alike("tx") BY AlikeUnless DEF Queues
<1>2. CASE UNCHANGED vars BY <1>1, <1>2 DEF vars
<1>3. CASE Driver \/ InterruptDone \/ Arrive
  <2>1. \/ Reclaim("rx") \/ \E b \in Buffers : Post("rx", b)
        \/ InterruptDone \/ Arrive
    BY <1>3 DEF Driver, Queues
  <2> QED BY <2>1, <1>1 DEF Reclaim, Post, guestOthers, InterruptDone, Arrive, Queues
<1>4. CASE TxBegin \/ TxEntry \/ TxEnd \/ TxPublish
  BY <1>1, <1>4 DEF TxBegin, TxEntry, TxEnd, TxPublish
<1>5. CASE Inject
  BY <1>1, <1>5 DEF Inject, RxBegin, RxEnd, RxEntry, RxInject, RxUsed, RxPublish, Queues
<1>6. CASE Failing
  BY <1>1, <1>6 DEF Failing, TxBeginFails, TxFails, RxFails, Fail
<1> QED BY <1>2, <1>3, <1>4, <1>5, <1>6 DEF Next, Transmit

LEMMA NextSent == ASSUME RingInv, Contents, Sent, [Next]_vars PROVE Sent'
<1>0. /\ "tx" \in Queues /\ Outstanding("tx") \in Nat /\ Done("tx") \in Nat
      /\ Done("tx") <= Outstanding("tx")
      /\ RingTypes /\ Ordered("tx") /\ Placed("tx")
      /\ \A i \in Indices : Dist(seen["tx"], i) \in Nat
      /\ posted \in Nat /\ failures \in Nat /\ wire \in Seq(Frames)
      /\ Len(wire) \in Nat /\ Cardinality(Range(wire)) \in Nat
      /\ \A i \in Window("tx") : i \in Indices /\ Entry("tx", i) \in Buffers
      /\ \A i \in Retired("tx") : i \in Window("tx")
  <2>1. /\ Outstanding("tx") \in Nat /\ Done("tx") \in Nat
        /\ \A i \in Indices : Dist(seen["tx"], i) \in Nat
        /\ Cardinality(held["tx"]) \in Nat
    BY Counts, QueueTypes DEF RingInv, Queues
  <2>2. Ordered("tx") /\ Placed("tx") /\ RingTypes BY DEF RingInv, Queues
  <2>3. Len(wire) \in Nat /\ Cardinality(Range(wire)) \in Nat
    BY LenProperties, RangeFinite DEF Contents
  <2> QED BY <2>1, <2>2, <2>3, Sizes DEF Contents, Ordered, Placed, Window, Retired, Queues
<1>1. ASSUME NEW b \in Buffers, Post("tx", b) PROVE Sent'
  <2>1. /\ posted' = posted + 1 /\ posted < MaxFrames
        /\ load'["tx"] = [load["tx"] EXCEPT ![b] = posted + 1]
        /\ wire' = wire /\ pc' = pc /\ failures' = failures
    BY <1>1 DEF Post, guestOthers, Contents, Queues
  <2>2. PICK a : a = avail["tx"].idx OBVIOUS
  <2>3. PostsTo("tx", b) BY <1>0, <1>1, PostStep
  <2>4. /\ Outstanding("tx")' = Outstanding("tx") + 1
        /\ Dist(seen["tx"], a) = Outstanding("tx")
        /\ Window("tx")' = Window("tx") \cup {a}
        /\ Done("tx")' = Done("tx") /\ Retired("tx")' = Retired("tx")
        /\ \A i \in Window("tx") : Entry("tx", i)' = Entry("tx", i) /\ i # a
        /\ Entry("tx", a)' = b
    BY <1>0, <2>2, <2>3, PostWindow
  <2>5. seen'["tx"] = seen["tx"] /\ b \in held["tx"] BY <2>3 DEF PostsTo
  <2>6. \A i \in Window("tx") : Entry("tx", i) # b BY <1>0, <2>5 DEF Placed
  <2>7. load["tx"] \in [Buffers -> Frames \cup {None}] BY <1>0 DEF Contents
  <2>8. /\ \A i \in Window("tx") : load'["tx"][Entry("tx", i)] = load["tx"][Entry("tx", i)]
        /\ load'["tx"][b] = posted + 1 /\ posted + 1 \in Frames
    BY <1>0, <2>1, <2>6, <2>7, Sizes DEF Frames
  <2>9. /\ posted' + 1 - Outstanding("tx")' = posted + 1 - Outstanding("tx")
        /\ Upcoming' = Upcoming
    <3>1. PICK n, o, d \in Nat : n = posted /\ o = Outstanding("tx") /\ d = Done("tx")
      BY <1>0
    <3>2. posted' = n + 1 /\ Outstanding("tx")' = o + 1 /\ Done("tx")' = d
      BY <2>1, <2>4, <3>1
    <3>3. (n + 1) + 1 - (o + 1) = n + 1 - o OBVIOUS
    <3> QED BY <3>1, <3>2, <3>3 DEF Upcoming
  <2>10. ASSUME NEW i \in Window("tx")'
         PROVE  /\ load'["tx"][Entry("tx", i)'] \in Frames
                /\ load'["tx"][Entry("tx", i)'] = posted' + 1 - Outstanding("tx")' + Dist(seen'["tx"], i)
    <3>1. CASE i = a
      <4>1. Entry("tx", i)' = b BY <3>1, <2>4
      <4>2. posted' + 1 - Outstanding("tx")' + Dist(seen'["tx"], i) = posted + 1
        BY <3>1, <1>0, <2>1, <2>4, <2>5
      <4> QED BY <4>1, <4>2, <2>8
    <3>2. CASE i \in Window("tx")
      <4>1. Entry("tx", i)' = Entry("tx", i) BY <3>2, <2>4
      <4>2. /\ load["tx"][Entry("tx", i)] \in Frames
            /\ load["tx"][Entry("tx", i)] = posted + 1 - Outstanding("tx") + Dist(seen["tx"], i)
            /\ load'["tx"][Entry("tx", i)] = load["tx"][Entry("tx", i)]
        BY <3>2, <2>8 DEF Sent
      <4>3. posted' + 1 - Outstanding("tx")' + Dist(seen'["tx"], i)
              = posted + 1 - Outstanding("tx") + Dist(seen["tx"], i)
        BY <2>5, <2>9
      <4> QED BY <4>1, <4>2, <4>3
    <3> QED BY <3>1, <3>2, <2>4
  <2>11. \A i \in Retired("tx")' : load'["tx"][Entry("tx", i)'] \in Range(wire')
    BY <1>0, <2>1, <2>4, <2>8 DEF Sent
  <2> QED BY <2>1, <2>9, <2>10, <2>11 DEF Sent, Resent
<1>2. ASSUME Reclaim("tx") PROVE Sent'
  <2>1. PICK b : b = used["tx"].entry[Slot(seen["tx"])] OBVIOUS
  <2>2. PICK s : s = seen["tx"] OBVIOUS
  <2>3. /\ posted' = posted /\ wire' = wire /\ pc' = pc /\ failures' = failures
        /\ load' = [load EXCEPT !["tx"][b] = None]
    BY <1>2, <2>1 DEF Reclaim, guestOthers
  <2>4. TakesBack("tx", b) BY <1>0, <1>2, <2>1, ReclaimStep
  <2>5. /\ s \in Window("tx") /\ b = Entry("tx", s)
        /\ Outstanding("tx")' = Outstanding("tx") - 1 /\ Done("tx")' = Done("tx") - 1
        /\ \A i \in Indices \ {s} : Dist(seen'["tx"], i) = Dist(s, i) - 1
        /\ Window("tx")' = Window("tx") \ {s} /\ Retired("tx")' = Retired("tx") \ {s}
        /\ \A i : Entry("tx", i)' = Entry("tx", i)
    BY <1>0, <2>2, <2>4, TakeWindow
  <2>6. \A i \in Window("tx") \ {s} : load'["tx"][Entry("tx", i)] = load["tx"][Entry("tx", i)]
    <3>1. \A i \in Window("tx") \ {s} : Entry("tx", i) # b BY <1>0, <2>5 DEF Placed
    <3> QED BY <1>0, <3>1, <2>3 DEF Contents
  <2>7. Upcoming' = Upcoming BY <1>0, <2>3, <2>5 DEF Upcoming
  <2>8. ASSUME NEW i \in Window("tx")'
        PROVE  /\ load'["tx"][Entry("tx", i)'] \in Frames
               /\ load'["tx"][Entry("tx", i)'] = posted' + 1 - Outstanding("tx")' + Dist(seen'["tx"], i)
    <3>1. /\ i \in Window("tx") \ {s} /\ i \in Indices \ {s}
          /\ Entry("tx", i)' = Entry("tx", i)
      BY <1>0, <2>5
    <3>2. Dist(seen'["tx"], i) = Dist(seen["tx"], i) - 1 /\ Dist(seen["tx"], i) \in Nat
      BY <3>1, <1>0, <2>2, <2>5
    <3>3. /\ load["tx"][Entry("tx", i)] \in Frames
          /\ load["tx"][Entry("tx", i)] = posted + 1 - Outstanding("tx") + Dist(seen["tx"], i)
      BY <3>1 DEF Sent
    <3>4. load'["tx"][Entry("tx", i)] = load["tx"][Entry("tx", i)] BY <3>1, <2>6
    <3>5. posted' + 1 - Outstanding("tx")' + Dist(seen'["tx"], i)
            = posted + 1 - Outstanding("tx") + Dist(seen["tx"], i)
      BY <3>2, <1>0, <2>3, <2>5
    <3> QED BY <3>1, <3>3, <3>4, <3>5
  <2>9. \A i \in Retired("tx")' : load'["tx"][Entry("tx", i)'] \in Range(wire')
    BY <1>0, <2>3, <2>5, <2>6 DEF Sent
  <2> QED BY <2>3, <2>7, <2>8, <2>9 DEF Sent, Resent
<1>3. ASSUME TxUsed PROVE Sent'
  <2>1. PICK u : u = lastAvail["tx"] OBVIOUS
  <2>2. /\ load' = load /\ posted' = posted /\ wire' = wire /\ failures' = failures
        /\ pc = "txUsed" /\ pc' = "txEntry" /\ seen' = seen
    BY <1>3 DEF TxUsed, Goto, deviceOthers, guestVars
  <2>3. RetiresOne("tx") BY <1>0, <1>3, RetireAtTx, RetireStep
  <2>4. /\ u \in Window("tx") /\ Dist(seen["tx"], u) = Done("tx")
        /\ Done("tx")' = Done("tx") + 1
        /\ Outstanding("tx")' = Outstanding("tx") /\ Window("tx")' = Window("tx")
        /\ Retired("tx")' = Retired("tx") \cup {u}
        /\ \A i : Entry("tx", i)' = Entry("tx", i)
    BY <1>0, <2>1, <2>3, RetireWindow
  <2>5. Upcoming' = Upcoming + 1 /\ Upcoming \in Int /\ load["tx"][Entry("tx", u)] = Upcoming
    <3>1. load["tx"][Entry("tx", u)] = posted + 1 - Outstanding("tx") + Dist(seen["tx"], u)
      BY <2>4 DEF Sent
    <3>2. Upcoming' = Upcoming + 1 /\ Upcoming \in Int
      BY <1>0, <2>2, <2>4 DEF Upcoming
    <3> QED BY <3>1, <3>2, <2>4 DEF Upcoming
  <2>6. Upcoming \in Range(wire) /\ \A f \in Range(wire) : f \in Nat /\ f <= Upcoming
    BY <1>0, <2>2, RangeFinite, Sizes DEF Sent, Frames
  <2>7. Upcoming' \notin Range(wire') /\ \A f \in Range(wire') : f <= Upcoming'
    BY <2>2, <2>5, <2>6
  <2>8. \A i \in Retired("tx")' : load'["tx"][Entry("tx", i)'] \in Range(wire')
    BY <2>2, <2>4, <2>5, <2>6 DEF Sent
  <2>9. ASSUME NEW i \in Window("tx")'
        PROVE  /\ load'["tx"][Entry("tx", i)'] \in Frames
               /\ load'["tx"][Entry("tx", i)'] = posted' + 1 - Outstanding("tx")' + Dist(seen'["tx"], i)
    BY <2>2, <2>4 DEF Sent
  <2>10. Len(wire') - Cardinality(Range(wire')) <= failures'
    BY <1>0, <2>2 DEF Sent
  <2> QED BY <1>0, <2>2, <2>7, <2>8, <2>9, <2>10 DEF Sent, Resent
<1>4. ASSUME TxData PROVE Sent'
  <2>1. /\ wire' = Append(wire, load["tx"][head]) /\ pc = "txData" /\ pc' = "txUsed"
        /\ load' = load /\ posted' = posted /\ failures' = failures /\ RingsStay
    BY <1>4 DEF TxData, Goto, deviceOthers, guestVars, positions, RingsStay
  <2>2. /\ Outstanding("tx")' = Outstanding("tx") /\ Done("tx")' = Done("tx")
        /\ Window("tx")' = Window("tx") /\ Retired("tx")' = Retired("tx")
        /\ \A i : Entry("tx", i)' = Entry("tx", i) /\ seen' = seen
    BY <1>0, <2>1, StayStep, SameKeeps DEF RingsStay
  <2>3. PICK u : u = lastAvail["tx"] OBVIOUS
  <2>4. /\ head = Entry("tx", u) /\ u \in Window("tx") /\ Dist(seen["tx"], u) = Done("tx")
    <3>1. /\ head = Entry("tx", u) /\ Done("tx") < Dist(seen["tx"], limit)
          /\ Dist(seen["tx"], limit) <= Outstanding("tx") /\ limit \in Indices
      BY <2>1, <2>3 DEF RingInv, Calls, TxCall, RingTypes
    <3>2. Done("tx") < Outstanding("tx") BY <1>0, <3>1
    <3> QED BY <1>0, <2>3, <3>1, <3>2, AtWindow
  <2>5. load["tx"][head] = Upcoming /\ Upcoming \in Frames
    BY <1>0, <2>4 DEF Sent, Upcoming
  <2>6. PICK f : f = Upcoming OBVIOUS
  <2>7. /\ f \in Frames /\ wire' = Append(wire, f)
        /\ Range(wire') = Range(wire) \cup {f} /\ Len(wire') = Len(wire) + 1
        /\ Cardinality(Range(wire')) = Cardinality(Range(wire)) + IF f \in Range(wire) THEN 0 ELSE 1
    BY <1>0, <2>1, <2>5, <2>6, RangeAppend, AppendProperties
  <2>8. Upcoming' = f BY <2>1, <2>2, <2>6 DEF Upcoming
  <2>9. f \in Range(wire) => Resent BY <2>1, <2>6 DEF Resent
  <2>10. Len(wire) - Cardinality(Range(wire)) + (IF Resent THEN 1 ELSE 0) <= failures
    BY DEF Sent
  <2>11. Len(wire') - Cardinality(Range(wire')) <= failures'
    <3>1. CASE f \in Range(wire) BY <3>1, <1>0, <2>1, <2>7, <2>9, <2>10
    <3>2. CASE f \notin Range(wire) BY <3>2, <1>0, <2>1, <2>7, <2>10
    <3> QED BY <3>1, <3>2
  <2>12. ~Resent' BY <2>1 DEF Resent
  <2>13. \A g \in Range(wire') : g <= Upcoming'
    BY <2>6, <2>7, <2>8, Sizes DEF Sent, Frames
  <2>14. \A i \in Retired("tx")' : load'["tx"][Entry("tx", i)'] \in Range(wire')
    BY <2>1, <2>2, <2>7 DEF Sent
  <2>15. ASSUME NEW i \in Window("tx")'
         PROVE  /\ load'["tx"][Entry("tx", i)'] \in Frames
                /\ load'["tx"][Entry("tx", i)'] = posted' + 1 - Outstanding("tx")' + Dist(seen'["tx"], i)
    BY <2>1, <2>2 DEF Sent
  <2>16. Cardinality(Range(wire')) \in Nat BY <1>0, <2>7
  <2> QED BY <1>0, <2>1, <2>7, <2>8, <2>11, <2>12, <2>13, <2>14, <2>15, <2>16 DEF Sent
<1>5. CASE ~(\E b \in Buffers : Post("tx", b)) /\ ~Reclaim("tx") /\ ~TxUsed /\ ~TxData
  <2>1. /\ Outstanding("tx")' = Outstanding("tx") /\ Done("tx")' = Done("tx")
        /\ Window("tx")' = Window("tx") /\ Retired("tx")' = Retired("tx")
        /\ seen'["tx"] = seen["tx"] /\ \A i : Entry("tx", i)' = Entry("tx", i)
        /\ load'["tx"] = load["tx"] /\ posted' = posted /\ wire' = wire
        /\ failures' \in {failures, failures + 1}
        /\ pc' = "txUsed" => pc = "txUsed"
        /\ pc = "txUsed" /\ pc' # "txUsed" => failures' = failures + 1
    BY <1>5, TxElse DEF Alike
  <2>2. Upcoming' = Upcoming BY <2>1 DEF Upcoming
  <2>3. Resent' => Resent \/ failures' = failures + 1 BY <2>1, <2>2 DEF Resent
  <2>4. Len(wire) - Cardinality(Range(wire)) + (IF Resent THEN 1 ELSE 0) <= failures
    BY DEF Sent
  <2>5. Len(wire') - Cardinality(Range(wire')) + (IF Resent' THEN 1 ELSE 0) <= failures'
    BY <1>0, <2>1, <2>3, <2>4
  <2> QED BY <2>1, <2>2, <2>5 DEF Sent
<1> QED BY <1>1, <1>2, <1>3, <1>4, <1>5
-----------------------------------------------------------------------------
(* The frames received *)

InHand == pc \in {"rxEntry", "rxInject", "rxUsed"}
(* The last frame the device took from the link, and how many of them are  *)
(* read or wait in retired entries.                                        *)
Taken == arrived - Len(incoming)
Passed == Len(received) + Done("rx")
(* The frame in an entry, and which it will be among those the guest reads. *)
Got(i) == load["rx"][Entry("rx", i)]
Place(i) == Len(received) + Dist(seen["rx"], i) + 1

Waiting ==
  /\ Taken \in Nat
  /\ \A k \in 1 .. Len(incoming) : incoming[k] = Taken + k
  /\ InHand => frame = Taken /\ frame \in Frames
  /\ pc = "rxUsed" => load["rx"][head] = frame
  /\ Taken - Passed - (IF InHand THEN 1 ELSE 0) <= failures

(* Frames in retired entries, in the order the guest will read them. *)
Shown ==
  \A i \in Retired("rx") :
    /\ Got(i) \in Frames /\ Got(i) <= Taken
    /\ InHand => Got(i) < Taken
    /\ Got(i) - Place(i) <= failures
    /\ \A j \in Retired("rx") : Dist(seen["rx"], i) < Dist(seen["rx"], j) => Got(i) < Got(j)
    /\ \A k \in 1 .. Len(received) : received[k] < Got(i)

ReadInOrder ==
  /\ \A k \in 1 .. Len(received) :
       received[k] <= Taken /\ (InHand => received[k] < Taken)
  /\ \A j, k \in 1 .. Len(received) : j < k => received[j] < received[k]
  /\ received # <<>> => received[Len(received)] - Len(received) <= failures

Delivered == Waiting /\ Shown /\ ReadInOrder

(* What received frames depend on, in the steps that are no move of RX.    *)
LEMMA RxElse ==
  ASSUME RingInv, Contents, [Next]_vars,
         ~(\E b \in Buffers : Post("rx", b)), ~Reclaim("rx"),
         ~RxUsed, ~RxBegin, ~RxInject, ~Arrive
  PROVE  /\ Alike("rx") /\ load'["rx"] = load["rx"]
         /\ arrived' = arrived /\ incoming' = incoming /\ received' = received
         /\ failures' \in {failures, failures + 1}
         /\ InHand' => InHand /\ frame' = frame
         /\ pc' = "rxUsed" => pc = "rxUsed" /\ head' = head
         /\ InHand /\ ~InHand' => failures' = failures + 1
<1> USE DEF Goto, Return, deviceOthers, guestVars, linkVars, locals, Contents, InHand
<1>1. Alike("rx") BY AlikeUnless DEF Queues
<1>2. CASE UNCHANGED vars BY <1>1, <1>2 DEF vars
<1>3. CASE Driver \/ InterruptDone
  <2>1. \/ Reclaim("tx") \/ \E b \in Buffers : Post("tx", b)
        \/ InterruptDone
    BY <1>3 DEF Driver, Queues
  <2> QED BY <2>1, <1>1 DEF Reclaim, Post, guestOthers, InterruptDone, Queues
<1>4. CASE Transmit
  BY <1>1, <1>4 DEF Transmit, TxBegin, TxEntry, TxData, TxUsed, TxEnd, TxPublish
<1>5. CASE RxEnd \/ RxEntry \/ RxPublish
  BY <1>1, <1>5 DEF RxEnd, RxEntry, RxPublish
<1>6. CASE Failing
  BY <1>1, <1>6 DEF Failing, TxBeginFails, TxFails, RxFails, Fail
<1> QED BY <1>2, <1>3, <1>4, <1>5, <1>6 DEF Next, Inject

LEMMA RxFacts ==
  ASSUME RingInv, Contents
  PROVE  /\ "rx" \in Queues /\ RingTypes /\ Ordered("rx") /\ Placed("rx")
         /\ Done("rx") \in Nat /\ Outstanding("rx") \in Nat
         /\ Done("rx") <= Outstanding("rx")
         /\ \A i \in Indices : Dist(seen["rx"], i) \in Nat
         /\ \A i \in Window("rx") : i \in Indices /\ Entry("rx", i) \in Buffers
         /\ \A i \in Retired("rx") : i \in Window("rx") /\ Dist(seen["rx"], i) < Done("rx")
         /\ Len(received) \in Nat /\ Len(incoming) \in Nat
         /\ \A k \in 1 .. Len(received) : received[k] \in Nat
         /\ failures \in Nat /\ arrived \in Nat
         /\ load["rx"] \in [Buffers -> Frames \cup {None}]
         /\ Frames \subseteq Nat
<1>1. /\ Outstanding("rx") \in Nat /\ Done("rx") \in Nat
      /\ \A i \in Indices : Dist(seen["rx"], i) \in Nat
      /\ Ordered("rx") /\ Placed("rx") /\ RingTypes
  BY Counts DEF RingInv, Queues
<1>2. Frames \subseteq Nat BY Sizes DEF Frames
<1>3. /\ Len(received) \in Nat /\ Len(incoming) \in Nat
      /\ \A k \in 1 .. Len(received) : received[k] \in Frames
  BY LenProperties, ElementOfSeq DEF Contents
<1>4. Done("rx") <= Outstanding("rx") BY <1>1 DEF Ordered
<1>5. /\ \A i \in Window("rx") : i \in Indices /\ Entry("rx", i) \in Buffers
      /\ \A i \in Retired("rx") : i \in Window("rx") /\ Dist(seen["rx"], i) < Done("rx")
  BY <1>1, <1>4 DEF Window, Retired, Placed
<1>6. failures \in Nat /\ arrived \in Nat /\ load["rx"] \in [Buffers -> Frames \cup {None}]
  BY Sizes DEF Contents, Queues
<1> QED BY <1>1, <1>2, <1>3, <1>4, <1>5, <1>6 DEF Queues

LEMMA ShownFacts ==
  ASSUME RingInv, Contents, Delivered
  PROVE  /\ \A i \in Retired("rx") : /\ i \in Indices /\ Got(i) \in Nat
                                     /\ Place(i) \in Nat /\ Dist(seen["rx"], i) \in Nat
         /\ Taken \in Nat /\ Passed \in Nat
<1>1. ASSUME NEW i \in Retired("rx")
      PROVE  i \in Indices /\ Got(i) \in Nat /\ Place(i) \in Nat /\ Dist(seen["rx"], i) \in Nat
  <2>1. i \in Indices /\ Dist(seen["rx"], i) \in Nat /\ Len(received) \in Nat BY RxFacts
  <2>2. Got(i) \in Nat BY RxFacts DEF Delivered, Shown
  <2> QED BY <2>1, <2>2 DEF Place
<1>2. Taken \in Nat /\ Passed \in Nat BY RxFacts DEF Delivered, Waiting, Passed
<1> QED BY <1>1, <1>2

(* No move of RX, a failing one included.                                  *)
LEMMA ElseDelivers ==
  ASSUME RingInv, Contents, Delivered, [Next]_vars,
         ~(\E b \in Buffers : Post("rx", b)), ~Reclaim("rx"),
         ~RxUsed, ~RxBegin, ~RxInject, ~Arrive
  PROVE  Delivered'
<1>1. /\ Done("rx")' = Done("rx") /\ Retired("rx")' = Retired("rx")
      /\ seen'["rx"] = seen["rx"] /\ \A i : Entry("rx", i)' = Entry("rx", i)
      /\ load'["rx"] = load["rx"] /\ Taken' = Taken /\ Passed' = Passed
      /\ incoming' = incoming /\ received' = received
      /\ failures' \in {failures, failures + 1}
      /\ InHand' => InHand /\ frame' = frame
      /\ pc' = "rxUsed" => pc = "rxUsed" /\ head' = head
      /\ InHand /\ ~InHand' => failures' = failures + 1
  BY RxElse DEF Alike, Taken, Passed
<1>2. /\ \A i : Got(i)' = Got(i) /\ Place(i)' = Place(i)
      /\ \A i \in Retired("rx") : Got(i) \in Nat /\ Place(i) \in Nat
      /\ Taken \in Nat /\ Passed \in Nat /\ failures \in Nat
      /\ Len(received) \in Nat /\ \A k \in 1 .. Len(received) : received[k] \in Nat
  <2>1. \A i : Got(i)' = Got(i) /\ Place(i)' = Place(i) BY <1>1 DEF Got, Place
  <2> QED BY <2>1, ShownFacts, RxFacts
<1>3. failures <= failures' BY <1>1, <1>2
<1>4. Waiting'
  <2>1. Taken - Passed - (IF InHand THEN 1 ELSE 0) <= failures
    BY DEF Delivered, Waiting
  <2>2. Taken' - Passed' - (IF InHand' THEN 1 ELSE 0) <= failures'
    BY <1>1, <1>2, <2>1
  <2>3. pc' = "rxUsed" => InHand' BY DEF InHand
  <2> QED BY <1>1, <2>2, <2>3 DEF Delivered, Waiting
<1>5. ASSUME NEW i \in Retired("rx") PROVE Got(i) - Place(i) <= failures'
  <2>1. Got(i) - Place(i) <= failures BY DEF Delivered, Shown
  <2> QED BY <2>1, <1>2, <1>3, <1>1
<1>6. Shown' BY <1>1, <1>2, <1>5 DEF Delivered, Shown
<1>7. ReadInOrder'
  <2>1. received # <<>> => received[Len(received)] - Len(received) <= failures'
    <3> SUFFICES ASSUME received # <<>> PROVE received[Len(received)] - Len(received) <= failures'
      OBVIOUS
    <3>1. received[Len(received)] - Len(received) <= failures BY DEF Delivered, ReadInOrder
    <3>2. Len(received) \in 1 .. Len(received) BY <1>2, EmptySeq DEF Contents
    <3> QED BY <3>1, <3>2, <1>1, <1>2, <1>3
  <2> QED BY <1>1, <2>1 DEF Delivered, ReadInOrder
<1> QED BY <1>4, <1>6, <1>7 DEF Delivered

(* The guest posts a buffer, which no retired entry names.                 *)
LEMMA PostDelivers ==
  ASSUME RingInv, Contents, Delivered, NEW b \in Buffers, Post("rx", b)
  PROVE  Delivered'
<1>1. PICK a : a = avail["rx"].idx OBVIOUS
<1>2. PostsTo("rx", b) BY PostStep, RxFacts
<1>3. /\ Done("rx")' = Done("rx") /\ Retired("rx")' = Retired("rx")
      /\ \A i \in Window("rx") : Entry("rx", i)' = Entry("rx", i)
  BY <1>1, <1>2, PostWindow, RxFacts
<1>4. /\ load' = load /\ received' = received /\ incoming' = incoming
      /\ arrived' = arrived /\ failures' = failures /\ pc' = pc /\ frame' = frame
      /\ head' = head /\ seen'["rx"] = seen["rx"]
  BY <1>2 DEF Post, guestOthers, linkVars, locals, PostsTo
<1>5. Taken' = Taken /\ Passed' = Passed /\ InHand' = InHand
  BY <1>3, <1>4 DEF Taken, Passed, InHand
<1>6. \A i \in Retired("rx") : Got(i)' = Got(i) /\ Place(i)' = Place(i)
  BY <1>3, <1>4, RxFacts DEF Got, Place
<1>7. Waiting' BY <1>4, <1>5 DEF Delivered, Waiting
<1>8. Shown' BY <1>3, <1>4, <1>5, <1>6 DEF Delivered, Shown
<1>9. ReadInOrder' BY <1>4, <1>5 DEF Delivered, ReadInOrder
<1> QED BY <1>7, <1>8, <1>9 DEF Delivered

(* The guest reads the frame of the first retired entry.                   *)
LEMMA ReclaimDelivers ==
  ASSUME RingInv, Contents, Delivered, Reclaim("rx")
  PROVE  /\ Delivered'
         /\ load["rx"][used["rx"].entry[Slot(seen["rx"])]] \in Frames
<1>1. PICK s : s = seen["rx"] OBVIOUS
<1>2. PICK b : b = used["rx"].entry[Slot(seen["rx"])] OBVIOUS
<1>3. TakesBack("rx", b) BY <1>2, ReclaimStep, RxFacts
<1>4. /\ s \in Retired("rx") /\ s \in Window("rx") /\ Dist(s, s) = 0
      /\ b = Entry("rx", s) /\ Done("rx")' = Done("rx") - 1
      /\ \A i \in Indices \ {s} : Dist(seen'["rx"], i) = Dist(s, i) - 1
      /\ Retired("rx")' = Retired("rx") \ {s}
      /\ \A i : Entry("rx", i)' = Entry("rx", i)
  BY <1>1, <1>3, TakeWindow, RxFacts
<1>5. PICK f : f = Got(s) OBVIOUS
<1>6. /\ received' = Append(received, f) /\ load' = [load EXCEPT !["rx"][b] = None]
      /\ incoming' = incoming /\ arrived' = arrived /\ failures' = failures
      /\ pc' = pc /\ frame' = frame /\ head' = head /\ lastAvail' = lastAvail
  BY <1>2, <1>4, <1>5 DEF Reclaim, guestOthers, linkVars, locals, positions, Got
<1>7. /\ f \in Frames /\ f \in Nat /\ f <= Taken /\ (InHand => f < Taken)
      /\ f - (Len(received) + 1) <= failures
      /\ \A j \in Retired("rx") \ {s} : f < Got(j)
      /\ \A k \in 1 .. Len(received) : received[k] < f
  <2>1. Place(s) = Len(received) + 1 BY <1>1, <1>4, RxFacts DEF Place
  <2>2. \A j \in Retired("rx") \ {s} : Dist(s, s) < Dist(s, j)
    <3> SUFFICES ASSUME NEW j \in Retired("rx") \ {s} PROVE Dist(s, s) < Dist(s, j)
      OBVIOUS
    <3>1. j \in Indices /\ s \in Indices /\ Dist(s, j) \in Nat
      BY <1>1, <1>4, ShownFacts
    <3>2. Dist(s, j) # 0 BY <3>1, Distances
    <3> QED BY <1>4, <3>1, <3>2
  <2> QED BY <1>1, <1>4, <1>5, <2>1, <2>2, RxFacts DEF Delivered, Shown
<1>8. /\ Len(received') = Len(received) + 1 /\ received' # <<>>
      /\ received'[Len(received) + 1] = f
      /\ \A k \in 1 .. Len(received) : received'[k] = received[k]
      /\ Len(received) \in Nat
  BY <1>6, <1>7, AppendProperties, LenProperties DEF Contents
<1>9. Taken' = Taken /\ InHand' = InHand BY <1>6 DEF Taken, InHand
<1>10. Passed' = Passed BY <1>4, <1>8, RxFacts DEF Passed
<1>11. \A c \in Buffers \ {b} : load'["rx"][c] = load["rx"][c]
  BY <1>6, RxFacts DEF Contents
<1>12. \A i \in Window("rx") \ {s} : Entry("rx", i) \in Buffers \ {b}
  BY <1>4, RxFacts DEF Placed
<1>13. \A i \in Retired("rx")' : Got(i)' = Got(i) BY <1>4, <1>11, <1>12, RxFacts DEF Got
<1>14. ASSUME NEW i \in Retired("rx")'
       PROVE  /\ Place(i)' = Place(i) /\ i \in Retired("rx") \ {s}
              /\ Dist(seen'["rx"], i) = Dist(seen["rx"], i) - 1
  <2>1. i \in Retired("rx") \ {s} /\ i \in Indices \ {s} BY <1>4, ShownFacts
  <2>2. Dist(seen'["rx"], i) = Dist(s, i) - 1 /\ Dist(s, i) \in Nat
    BY <1>1, <1>4, <2>1, RxFacts
  <2> QED BY <1>1, <1>8, <2>1, <2>2 DEF Place
<1>15. Waiting'
  <2>1. pc = "rxUsed" => load'["rx"][head] = load["rx"][head]
    <3> SUFFICES ASSUME pc = "rxUsed" PROVE load'["rx"][head] = load["rx"][head]
      OBVIOUS
    <3>1. PICK u : u = lastAvail["rx"] OBVIOUS
    <3>2. Done("rx") < Outstanding("rx") /\ head = Entry("rx", u)
      BY <3>1 DEF RingInv, Calls
    <3>3. u \in Window("rx") /\ u \notin Retired("rx") BY <3>1, <3>2, AtWindow, RxFacts
    <3>4. u \in Window("rx") \ {s} BY <3>3, <1>4
    <3> QED BY <3>2, <3>4, <1>11, <1>12
  <2> QED BY <2>1, <1>6, <1>9, <1>10 DEF Delivered, Waiting
<1>16. ASSUME NEW i \in Retired("rx")'
       PROVE  /\ Got(i)' \in Frames /\ Got(i)' <= Taken' /\ (InHand' => Got(i)' < Taken')
              /\ Got(i)' - Place(i)' <= failures'
              /\ \A j \in Retired("rx")' : Dist(seen'["rx"], i) < Dist(seen'["rx"], j) => Got(i)' < Got(j)'
              /\ \A k \in 1 .. Len(received') : received'[k] < Got(i)'
  <2>1. /\ i \in Retired("rx") \ {s} /\ Place(i)' = Place(i) /\ Got(i)' = Got(i)
        /\ Dist(seen'["rx"], i) = Dist(seen["rx"], i) - 1
    BY <1>13, <1>14
  <2>2. Got(i)' \in Frames /\ Got(i)' <= Taken' /\ (InHand' => Got(i)' < Taken')
    BY <2>1, <1>9 DEF Delivered, Shown
  <2>3. Got(i)' - Place(i)' <= failures' BY <2>1, <1>6 DEF Delivered, Shown
  <2>4. ASSUME NEW j \in Retired("rx")', Dist(seen'["rx"], i) < Dist(seen'["rx"], j)
        PROVE  Got(i)' < Got(j)'
    <3>1. /\ j \in Retired("rx") \ {s} /\ Got(j)' = Got(j)
          /\ Dist(seen'["rx"], j) = Dist(seen["rx"], j) - 1
      BY <1>13, <1>14
    <3>2. Dist(seen["rx"], i) \in Nat /\ Dist(seen["rx"], j) \in Nat
      BY <2>1, <3>1, ShownFacts
    <3>3. Dist(seen["rx"], i) < Dist(seen["rx"], j) BY <2>1, <2>4, <3>1, <3>2
    <3> QED BY <2>1, <3>1, <3>3 DEF Delivered, Shown
  <2>5. ASSUME NEW k \in 1 .. Len(received') PROVE received'[k] < Got(i)'
    <3>1. CASE k = Len(received) + 1 BY <3>1, <2>1, <1>7, <1>8
    <3>2. CASE k \in 1 .. Len(received) BY <3>2, <2>1, <1>8 DEF Delivered, Shown
    <3> QED BY <3>1, <3>2, <1>8
  <2> QED BY <2>2, <2>3, <2>4, <2>5
<1>17. Shown' BY <1>16 DEF Shown
<1>18. ReadInOrder'
  <2>1. ASSUME NEW k \in 1 .. Len(received')
        PROVE  received'[k] <= Taken' /\ (InHand' => received'[k] < Taken')
    <3>1. CASE k = Len(received) + 1 BY <3>1, <1>7, <1>8, <1>9
    <3>2. CASE k \in 1 .. Len(received)
      BY <3>2, <1>8, <1>9 DEF Delivered, ReadInOrder
    <3> QED BY <3>1, <3>2, <1>8
  <2>2. ASSUME NEW j \in 1 .. Len(received'), NEW k \in 1 .. Len(received'), j < k
        PROVE  received'[j] < received'[k]
    <3>1. CASE k = Len(received) + 1
      <4>1. j \in 1 .. Len(received) BY <3>1, <2>2, <1>8
      <4> QED BY <3>1, <4>1, <1>7, <1>8
    <3>2. CASE k \in 1 .. Len(received)
      <4>1. j \in 1 .. Len(received) BY <3>2, <2>2, <1>8
      <4> QED BY <3>2, <4>1, <2>2, <1>8 DEF Delivered, ReadInOrder
    <3> QED BY <3>1, <3>2, <1>8
  <2>3. received'[Len(received')] - Len(received') <= failures' BY <1>6, <1>7, <1>8
  <2> QED BY <2>1, <2>2, <2>3 DEF ReadInOrder
<1>19. load["rx"][used["rx"].entry[Slot(seen["rx"])]] \in Frames
  BY <1>2, <1>4, <1>5, <1>7 DEF Got
<1> QED BY <1>15, <1>17, <1>18, <1>19 DEF Delivered

(* The device retires the entry it put the frame in.                       *)
LEMMA RetireDelivers ==
  ASSUME RingInv, Contents, Delivered, RxUsed
  PROVE  Delivered'
<1>1. PICK u : u = lastAvail["rx"] OBVIOUS
<1>2. RetiresOne("rx") BY RetireAtRx, RetireStep, RxFacts
<1>3. /\ u \in Window("rx") /\ u \notin Retired("rx") /\ Dist(seen["rx"], u) = Done("rx")
      /\ Done("rx")' = Done("rx") + 1
      /\ Retired("rx")' = Retired("rx") \cup {u}
      /\ \A i : Entry("rx", i)' = Entry("rx", i)
  BY <1>1, <1>2, RetireWindow, RxFacts
<1>4. /\ load' = load /\ received' = received /\ incoming' = incoming
      /\ arrived' = arrived /\ failures' = failures /\ seen' = seen
      /\ pc = "rxUsed" /\ pc' = "rxPublish" /\ head = Entry("rx", u)
  BY <1>1, <1>2 DEF RxUsed, Goto, deviceOthers, guestVars, linkVars, RetiresOne
<1>5. InHand /\ ~InHand' BY <1>4 DEF InHand
<1>6. Taken' = Taken /\ Passed' = Passed + 1 /\ Taken \in Nat /\ Passed \in Nat
  BY <1>3, <1>4, RxFacts, ShownFacts DEF Taken, Passed
<1>7. \A i : Got(i)' = Got(i) /\ Place(i)' = Place(i) BY <1>3, <1>4 DEF Got, Place
<1>8. Got(u) = Taken /\ Taken \in Frames
  BY <1>4, <1>5 DEF Delivered, Waiting, Got
<1>9. Taken - Passed - 1 <= failures BY <1>5 DEF Delivered, Waiting
<1>10. Waiting' BY <1>4, <1>5, <1>6, <1>9 DEF Delivered, Waiting
<1>11. /\ \A i \in Retired("rx") : /\ Got(i) \in Frames /\ Got(i) < Taken /\ Got(i) \in Nat
                                   /\ Dist(seen["rx"], i) \in Nat
                                   /\ Dist(seen["rx"], i) < Done("rx")
       /\ Done("rx") \in Nat
  BY <1>5, RxFacts, ShownFacts DEF Delivered, Shown
<1>12. ASSUME NEW i \in Retired("rx")'
       PROVE  /\ Got(i) \in Frames /\ Got(i) <= Taken
              /\ Got(i) - Place(i) <= failures
              /\ \A j \in Retired("rx")' : Dist(seen["rx"], i) < Dist(seen["rx"], j) => Got(i) < Got(j)
              /\ \A k \in 1 .. Len(received) : received[k] < Got(i)
  <2>1. CASE i = u
    <3>1. Place(i) = Passed + 1 BY <2>1, <1>3, RxFacts DEF Place, Passed
    <3>2. Got(i) - Place(i) <= failures BY <2>1, <3>1, <1>6, <1>8, <1>9, RxFacts
    <3>3. \A j \in Retired("rx")' : ~(Dist(seen["rx"], i) < Dist(seen["rx"], j))
      BY <2>1, <1>3, <1>11
    <3>4. \A k \in 1 .. Len(received) : received[k] < Got(i)
      BY <2>1, <1>5, <1>8 DEF Delivered, ReadInOrder
    <3> QED BY <2>1, <3>2, <3>3, <3>4, <1>6, <1>8
  <2>2. CASE i \in Retired("rx")
    <3>1. \A j \in Retired("rx")' : Dist(seen["rx"], i) < Dist(seen["rx"], j) => Got(i) < Got(j)
      BY <2>2, <1>3, <1>8, <1>11 DEF Delivered, Shown
    <3> QED BY <2>2, <3>1 DEF Delivered, Shown
  <2> QED BY <2>1, <2>2, <1>3
<1>13. Shown' BY <1>4, <1>5, <1>6, <1>7, <1>12 DEF Shown
<1>14. ReadInOrder' BY <1>4, <1>5, <1>6 DEF Delivered, ReadInOrder
<1> QED BY <1>10, <1>13, <1>14 DEF Delivered

(* The positions, the buffers' frames and what was read stay.              *)
RxStays ==
  /\ Alike("rx") /\ received' = received /\ failures' = failures
  /\ \A i \in Retired("rx") : Got(i)' = Got(i)

LEMMA ShownStays ==
  ASSUME RingInv, Contents, Delivered, RxStays, Taken' \in Nat, Taken <= Taken',
         InHand' => (InHand /\ Taken' = Taken) \/ Taken < Taken'
  PROVE  Shown' /\ ReadInOrder' /\ Passed' = Passed
<1>1. /\ Done("rx")' = Done("rx") /\ Retired("rx")' = Retired("rx")
      /\ seen'["rx"] = seen["rx"] /\ received' = received /\ failures' = failures
      /\ \A i \in Retired("rx") : Got(i)' = Got(i)
  BY DEF RxStays, Alike
<1>2. \A i : Place(i)' = Place(i) BY <1>1 DEF Place
<1>3. Passed' = Passed BY <1>1 DEF Passed
<1>4. /\ \A i \in Retired("rx") : Got(i) \in Nat
      /\ \A k \in 1 .. Len(received) : received[k] \in Nat
      /\ Taken \in Nat
  BY ShownFacts, RxFacts
<1>5. /\ \A i \in Retired("rx") : Got(i) <= Taken' /\ (InHand' => Got(i) < Taken')
      /\ \A k \in 1 .. Len(received) : received[k] <= Taken' /\ (InHand' => received[k] < Taken')
  BY <1>4 DEF Delivered, Shown, ReadInOrder
<1>6. Shown' BY <1>1, <1>2, <1>5 DEF Delivered, Shown
<1>7. ReadInOrder' BY <1>1, <1>5 DEF Delivered, ReadInOrder
<1> QED BY <1>3, <1>6, <1>7

(* A frame is taken from the link, put into a buffer, or comes in.         *)
LEMMA FrameDelivers ==
  ASSUME RingInv, Contents, Delivered, [Next]_vars, RxBegin \/ RxInject \/ Arrive
  PROVE  Delivered'
<1> USE DEF deviceOthers, guestVars, linkVars, locals, positions
<1>1. \A q \in Queues : SameQueue(q) BY StayStep DEF RxBegin, RxInject, Arrive, RingsStay
<1>2. /\ Alike("rx") /\ received' = received /\ failures' = failures
  BY <1>1, SameKeeps, RxFacts DEF SameQueue, Alike, RxBegin, RxInject, Arrive
<1>3. CASE RxBegin
  <2>1. /\ pc \in {"idle", "rxLoop"} /\ pc' = "rxEntry" /\ incoming # <<>>
        /\ incoming' = Tail(incoming) /\ frame' = Head(incoming)
        /\ load' = load /\ arrived' = arrived
    BY <1>3 DEF RxBegin, RxReady
  <2>2. ~InHand /\ InHand' BY <2>1 DEF InHand
  <2>3. /\ Len(incoming) \in Nat \ {0} /\ Len(incoming') = Len(incoming) - 1
        /\ Head(incoming) = incoming[1] /\ Head(incoming) \in Frames
        /\ \A k \in 1 .. Len(incoming') : incoming'[k] = incoming[k + 1]
    BY <2>1, HeadTailProperties, EmptySeq DEF Contents
  <2>4. Taken' = Taken + 1 /\ Taken \in Nat
    BY <2>1, <2>3, RxFacts, ShownFacts DEF Taken
  <2>5. RxStays BY <1>2, <2>1 DEF RxStays, Alike, Got
  <2>6. Shown' /\ ReadInOrder' /\ Passed' = Passed BY <2>4, <2>5, ShownStays
  <2>7. \A k \in 1 .. Len(incoming) : incoming[k] = Taken + k BY DEF Delivered, Waiting
  <2>8. frame' = Taken' /\ frame' \in Frames BY <2>1, <2>3, <2>4, <2>7
  <2>9. \A k \in 1 .. Len(incoming') : incoming'[k] = Taken' + k BY <2>3, <2>4, <2>7
  <2>10. Taken - Passed <= failures BY <2>2, <2>4, ShownFacts DEF Delivered, Waiting
  <2>11. Taken' - Passed' - 1 <= failures' BY <1>2, <2>4, <2>6, <2>10, ShownFacts, RxFacts
  <2>12. Waiting' BY <2>1, <2>2, <2>4, <2>8, <2>9, <2>11 DEF Waiting
  <2> QED BY <2>6, <2>12 DEF Delivered
<1>4. CASE RxInject
  <2>1. /\ pc = "rxInject" /\ pc' = "rxUsed" /\ head' = head /\ frame' = frame
        /\ load' = [load EXCEPT !["rx"][head] = frame]
        /\ arrived' = arrived /\ incoming' = incoming
    BY <1>4 DEF RxInject, Goto
  <2>2. InHand /\ InHand' BY <2>1 DEF InHand
  <2>3. Taken' = Taken BY <2>1 DEF Taken
  <2>4. PICK u : u = lastAvail["rx"] OBVIOUS
  <2>5. /\ head = Entry("rx", u) /\ u \in Window("rx") /\ u \notin Retired("rx")
    <3>1. Done("rx") < Outstanding("rx") /\ head = Entry("rx", u)
      BY <2>1, <2>4 DEF RingInv, Calls
    <3> QED BY <2>4, <3>1, AtWindow, RxFacts
  <2>6. \A i \in Retired("rx") : Entry("rx", i) # head BY <2>5, RxFacts DEF Placed
  <2>7. head \in Buffers BY <2>5, RxFacts
  <2>8. \A c \in Buffers \ {head} : load'["rx"][c] = load["rx"][c]
    BY <2>1, RxFacts DEF Contents
  <2>9. load'["rx"][head] = frame BY <2>1, <2>7, RxFacts DEF Contents
  <2>10. \A i \in Retired("rx") : Got(i)' = Got(i)
    BY <1>2, <2>6, <2>8, RxFacts DEF Got, Alike
  <2>11. RxStays BY <1>2, <2>10 DEF RxStays
  <2>12. Taken' \in Nat /\ Taken <= Taken' BY <2>3, ShownFacts
  <2>13. Shown' /\ ReadInOrder' /\ Passed' = Passed BY <2>2, <2>3, <2>11, <2>12, ShownStays
  <2>14. Waiting' BY <1>2, <2>1, <2>2, <2>3, <2>9, <2>13 DEF Delivered, Waiting
  <2> QED BY <2>13, <2>14 DEF Delivered
<1>5. CASE Arrive
  <2>1. /\ arrived' = arrived + 1 /\ arrived < MaxFrames
        /\ incoming' = Append(incoming, arrived + 1)
        /\ pc' = pc /\ frame' = frame /\ head' = head /\ load' = load
    BY <1>5 DEF Arrive
  <2>2. arrived + 1 \in Frames BY <2>1, RxFacts, Sizes DEF Frames
  <2>3. /\ Len(incoming') = Len(incoming) + 1
        /\ \A k \in 1 .. Len(incoming) : incoming'[k] = incoming[k]
        /\ incoming'[Len(incoming) + 1] = arrived + 1
    BY <2>1, <2>2, AppendProperties DEF Contents
  <2>4. Taken' = Taken /\ InHand' = InHand BY <2>1, <2>3, RxFacts DEF Taken, InHand
  <2>5. RxStays BY <1>2, <2>1 DEF RxStays, Alike, Got
  <2>6. Taken' \in Nat /\ Taken <= Taken' BY <2>4, ShownFacts
  <2>7. Shown' /\ ReadInOrder' /\ Passed' = Passed BY <2>4, <2>5, <2>6, ShownStays
  <2>8. ASSUME NEW k \in 1 .. Len(incoming') PROVE incoming'[k] = Taken' + k
    <3>1. CASE k = Len(incoming) + 1
      <4>1. Taken + k = arrived + 1 BY <3>1, RxFacts DEF Taken
      <4> QED BY <4>1, <3>1, <2>3, <2>4
    <3>2. CASE k \in 1 .. Len(incoming) BY <3>2, <2>3, <2>4 DEF Delivered, Waiting
    <3> QED BY <3>1, <3>2, <2>3, RxFacts
  <2>9. Waiting' BY <1>2, <2>1, <2>4, <2>7, <2>8 DEF Delivered, Waiting
  <2> QED BY <2>7, <2>9 DEF Delivered
<1> QED BY <1>3, <1>4, <1>5

LEMMA NextDelivered == ASSUME RingInv, Contents, Delivered, [Next]_vars PROVE Delivered'
BY PostDelivers, ReclaimDelivers, RetireDelivers, FrameDelivers, ElseDelivers
-----------------------------------------------------------------------------
(* What the rings carry, and the theorems *)

VqInv == RingInv /\ Contents /\ Sent /\ Delivered

LEMMA WireFrame ==
  ASSUME RingInv, Contents, Sent, TxData
  PROVE  load["tx"][head] \in Frames
<1>1. PICK u : u = lastAvail["tx"] OBVIOUS
<1>2. /\ Done("tx") < Dist(seen["tx"], limit) /\ Dist(seen["tx"], limit) <= Outstanding("tx")
      /\ head = Entry("tx", u) /\ limit \in Indices /\ RingTypes /\ "tx" \in Queues
  BY <1>1 DEF TxData, Goto, RingInv, Calls, TxCall, RingTypes, Queues
<1>3. Done("tx") < Outstanding("tx") BY <1>2, Counts
<1>4. u \in Window("tx") BY <1>1, <1>2, <1>3, AtWindow
<1> QED BY <1>2, <1>4 DEF Sent

LEMMA NextContents ==
  ASSUME RingInv, Contents, Sent, Delivered, [Next]_vars
  PROVE  Contents'
<1> USE DEF Contents, deviceOthers, guestVars, linkVars, locals, positions, Goto, Return
<1>0. /\ Frames \subseteq Nat /\ None \in Frames \cup {None} /\ failures + 1 \in Nat
      /\ \A n \in 0 .. MaxFrames : n < MaxFrames => n + 1 \in Frames /\ n + 1 \in 0 .. MaxFrames
      /\ "tx" \in Queues /\ "rx" \in Queues
  BY Sizes DEF Frames, Queues
<1>1. ASSUME NEW q \in Queues, NEW b \in Buffers, Post(q, b) PROVE Contents'
  <2>1. /\ posted' \in 0 .. MaxFrames /\ load' \in [Queues -> [Buffers -> Frames \cup {None}]]
    <3>1. CASE q = "rx" BY <1>1, <3>1 DEF Post
    <3>2. CASE q = "tx"
      <4>1. /\ posted < MaxFrames /\ posted' = posted + 1
            /\ load' = [load EXCEPT !["tx"][b] = posted + 1]
        BY <1>1, <3>2 DEF Post
      <4>2. posted + 1 \in Frames /\ posted' \in 0 .. MaxFrames BY <1>0, <4>1
      <4> QED BY <1>0, <4>1, <4>2
    <3> QED BY <3>1, <3>2 DEF Queues
  <2> QED BY <1>1, <2>1 DEF Post, guestOthers
<1>2. ASSUME NEW q \in Queues, Reclaim(q) PROVE Contents'
  <2>1. PICK b : b = used[q].entry[Slot(seen[q])] OBVIOUS
  <2>2. /\ load' = [load EXCEPT ![q][b] = None]
        /\ received' = IF q = "rx" THEN Append(received, load["rx"][b]) ELSE received
    BY <1>2, <2>1 DEF Reclaim
  <2>3. load' \in [Queues -> [Buffers -> Frames \cup {None}]] BY <1>0, <2>2
  <2>4. q = "rx" => load["rx"][b] \in Frames BY <1>2, <2>1, ReclaimDelivers
  <2>5. received' \in Seq(Frames) BY <2>2, <2>4, AppendProperties
  <2> QED BY <1>2, <2>3, <2>5 DEF Reclaim, guestOthers
<1>3. CASE InterruptDone BY <1>3 DEF InterruptDone
<1>4. CASE Arrive
  <2>1. arrived + 1 \in Frames /\ arrived' \in 0 .. MaxFrames BY <1>0, <1>4 DEF Arrive
  <2>2. incoming' \in Seq(Frames) BY <1>4, <2>1, AppendProperties DEF Arrive
  <2> QED BY <1>4, <2>1, <2>2 DEF Arrive
<1>5. CASE TxData
  <2>1. wire' \in Seq(Frames) BY <1>5, WireFrame, AppendProperties DEF TxData
  <2> QED BY <1>5, <2>1 DEF TxData
<1>6. CASE TxBegin \/ TxEntry \/ TxUsed BY <1>6 DEF TxBegin, TxEntry, TxUsed
<1>7. CASE TxEnd \/ TxPublish BY <1>0, <1>7 DEF TxEnd, TxPublish
<1>8. CASE RxBegin
  <2>1. incoming # <<>> BY <1>8 DEF RxBegin, RxReady
  <2>2. Head(incoming) \in Frames /\ Tail(incoming) \in Seq(Frames)
    BY <2>1, HeadTailProperties
  <2> QED BY <1>8, <2>2 DEF RxBegin
<1>9. CASE RxInject
  <2>1. load' \in [Queues -> [Buffers -> Frames \cup {None}]] BY <1>0, <1>9 DEF RxInject
  <2> QED BY <1>9, <2>1 DEF RxInject
<1>10. CASE RxEnd \/ RxPublish BY <1>0, <1>10 DEF RxEnd, RxPublish
<1>11. CASE RxEntry \/ RxUsed BY <1>11 DEF RxEntry, RxUsed
<1>12. CASE Failing
  BY <1>0, <1>12 DEF Failing, TxBeginFails, TxFails, RxFails, Fail
<1>13. CASE UNCHANGED vars BY <1>13 DEF vars
<1> QED
  BY <1>1, <1>2, <1>3, <1>4, <1>5, <1>6, <1>7, <1>8, <1>9, <1>10, <1>11, <1>12, <1>13
     DEF Next, Driver, Transmit, Inject

LEMMA InitVq == Init => VqInv
<1> SUFFICES ASSUME Init PROVE VqInv OBVIOUS
<1>1. RingInv BY InitRings
<1>2. /\ Window("tx") = {} /\ Retired("tx") = {} /\ Retired("rx") = {}
      /\ Outstanding("tx") = 0 /\ Done("tx") = 0 /\ Done("rx") = 0
  <2>1. 0 \in Indices BY Sizes DEF Indices
  <2>2. Dist(0, 0) = 0 /\ \A i \in Indices : Dist(0, i) \in Nat BY <2>1, Distances
  <2>3. \A q \in Queues : Outstanding(q) = 0 /\ Done(q) = 0 /\ seen[q] = 0
    BY <2>2 DEF Init, Outstanding, Done
  <2> QED BY <2>2, <2>3 DEF Window, Retired, Queues
<1>3. /\ posted = 0 /\ arrived = 0 /\ failures = 0 /\ pc = "idle" /\ frame = None
      /\ incoming = <<>> /\ wire = <<>> /\ received = <<>>
      /\ worked = FALSE /\ interrupt = FALSE
      /\ load = [q \in Queues |-> [b \in Buffers |-> None]]
  BY DEF Init
<1>4. /\ Len(wire) = 0 /\ Len(incoming) = 0 /\ Len(received) = 0
      /\ Range(wire) = {} /\ Cardinality(Range(wire)) = 0
  BY <1>3, EmptySeq, FS_EmptySet DEF Range
<1>5. Contents
  <2>1. <<>> \in Seq(Frames) BY EmptySeq
  <2>2. 0 \in 0 .. MaxFrames BY Sizes
  <2>3. load \in [Queues -> [Buffers -> Frames \cup {None}]] BY <1>3
  <2> QED BY <1>3, <2>1, <2>2, <2>3 DEF Contents
<1>6. Sent
  <2>1. ~Resent BY <1>4 DEF Resent
  <2> QED BY <1>2, <1>3, <1>4, <2>1 DEF Sent
<1>7. /\ Taken = 0 /\ Passed = 0 /\ ~InHand /\ 1 .. 0 = {}
  <2>1. Taken = 0
    <3>1. arrived = 0 /\ Len(incoming) = 0 BY <1>3, <1>4, Zenon
    <3> QED BY <3>1 DEF Taken
  <2>2. Passed = 0 BY <1>2, <1>4 DEF Passed
  <2>3. ~InHand BY <1>3 DEF InHand
  <2>4. 1 .. 0 = {} OBVIOUS
  <2> QED BY <2>1, <2>2, <2>3, <2>4
<1>8. Delivered BY <1>2, <1>3, <1>4, <1>7 DEF Delivered, Waiting, Shown, ReadInOrder
<1> QED BY <1>1, <1>5, <1>6, <1>8 DEF VqInv

LEMMA NextVq == VqInv /\ [Next]_vars => VqInv'
BY NextRings, NextContents, NextSent, NextDelivered DEF VqInv

LEMMA VqTypes == VqInv => TypeOK
<1> SUFFICES ASSUME VqInv PROVE TypeOK OBVIOUS
<1>1. \A q \in Queues :
        /\ avail[q] \in [entry : [0 .. Size - 1 -> Buffers \cup {None}], idx : Indices]
        /\ used[q] \in [entry : [0 .. Size - 1 -> Buffers \cup {None}], idx : Indices]
  BY DEF VqInv, RingInv, RingTypes, Rings
<1> QED BY <1>1 DEF VqInv, RingInv, RingTypes, Contents, TypeOK

LEMMA SentReturns == VqInv => ReturnedWasSent
<1> SUFFICES ASSUME VqInv, NEW b \in Named(used, "tx", Returned("tx"))
             PROVE  load["tx"][b] \in Range(wire)
  BY DEF ReturnedWasSent
<1>1. PICK i \in Returned("tx") : b = used["tx"].entry[Slot(i)] BY DEF Named
<1>2. RingInv /\ "tx" \in Queues BY DEF VqInv, Queues
<1>3. i \in Retired("tx") BY <1>1, <1>2, Spans
<1>4. b = Entry("tx", i) BY <1>1, <1>2, <1>3 DEF RingInv, Placed
<1> QED BY <1>3, <1>4 DEF VqInv, Sent

LEMMA OnceReceived == VqInv => FramesOnceUnlessDmaFails
<1> SUFFICES ASSUME VqInv PROVE FramesOnceUnlessDmaFails OBVIOUS
<1>1. /\ wire \in Seq(Frames) /\ received \in Seq(Frames) /\ failures \in Nat
      /\ Len(wire) - Cardinality(Range(wire)) + (IF Resent THEN 1 ELSE 0) <= failures
      /\ ReadInOrder
  BY DEF VqInv, Contents, Sent, Delivered
<1>2. Len(wire) \in Nat /\ Cardinality(Range(wire)) \in Nat
  BY <1>1, LenProperties, RangeFinite
<1>3. Len(wire) - Cardinality(Range(wire)) <= failures BY <1>1, <1>2
<1>4. DOMAIN received = 1 .. Len(received) BY <1>1, LenProperties
<1> QED BY <1>1, <1>3, <1>4 DEF ReadInOrder, FramesOnceUnlessDmaFails, Last

LEMMA VqInvariant == Spec => []VqInv
BY InitVq, NextVq, PTL DEF Spec

(* Indices stay in their span, and only frames of the link or of the guest *)
(* are on the rings, in the buffers and on the wire (vcs_virtqueue_t and   *)
(* the locals of the two calls).                                           *)
THEOREM QueueTypesHold == Spec => []TypeOK
BY VqInvariant, VqTypes, PTL

(* A TX buffer the guest takes back carries a frame that was handed to the *)
(* link, whatever call failed half-way (vcs_vq_process_tx).                *)
THEOREM ReturnedSent == Spec => []ReturnedWasSent
BY VqInvariant, SentReturns, PTL

(* Every failing DMA costs at most one frame sent twice or one frame lost, *)
(* and frames reach the guest in order, none twice (vcs_vq_process_tx,     *)
(* vcs_vq_process_rx).                                                     *)
THEOREM FramesOnce == Spec => []FramesOnceUnlessDmaFails
BY VqInvariant, OnceReceived, PTL
=============================================================================
