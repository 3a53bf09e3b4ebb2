---------------------------- MODULE MCRingBuffer ----------------------------
(* The ring on a small instance: three slots, so that the indices wrap and *)
(* the sentinel slot matters, two words per element, two contents.         *)
EXTENDS RingBuffer
=============================================================================
