---------------------------- MODULE MCBridgeTcp ----------------------------
(* The TCP bridge on small instances: see the .cfg files. *)
EXTENDS BridgeTcp
=============================================================================
