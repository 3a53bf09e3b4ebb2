----------------------------- MODULE BoundedFifo -----------------------------
(***************************************************************************)
(* What a ring of bridge/common/ring_buffer.c promises to the two sides of *)
(* the bridge: a first-in first-out queue of at most N elements.  Putting  *)
(* into a full queue and getting from an empty one fail and change         *)
(* nothing, so those calls are stuttering steps here.  RingBuffer shows    *)
(* that the shared-memory ring implements this module.                     *)
(***************************************************************************)
EXTENDS Naturals, Sequences

CONSTANTS
  N,        \* usable capacity: ring_buf_capacity()
  Elements, \* whole elements (request, completion, DMA or MSI entries)
  Nothing   \* what the consumer holds before its first successful dequeue

VARIABLES
  queue, \* published and not yet consumed, oldest first
  out    \* the element the last successful dequeue returned

fifoVars == <<queue, out>>

Init ==
  /\ queue = <<>>
  /\ out = Nothing

(* The element becomes visible in one step, whole. *)
Put(e) ==
  /\ Len(queue) < N
  /\ queue' = Append(queue, e)
  /\ UNCHANGED out

(* The oldest element leaves in one step. *)
Get ==
  /\ queue # <<>>
  /\ queue' = Tail(queue)
  /\ out' = Head(queue)

Next == Get \/ \E e \in Elements : Put(e)

Spec == Init /\ [][Next]_fifoVars
=============================================================================
