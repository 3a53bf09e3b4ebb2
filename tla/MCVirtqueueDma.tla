---------------------------- MODULE MCVirtqueueDma ----------------------------
(* The virtio-net queues on small rings: see the .cfg file. *)
EXTENDS VirtqueueDma
=============================================================================
