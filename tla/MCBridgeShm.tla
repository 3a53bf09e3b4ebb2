---------------------------- MODULE MCBridgeShm ----------------------------
(* The shared-memory bridge on small instances: see the .cfg files. *)
EXTENDS BridgeShm
=============================================================================
