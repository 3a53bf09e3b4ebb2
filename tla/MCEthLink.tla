----------------------------- MODULE MCEthLink -----------------------------
(* The Ethernet link on small instances: see the .cfg files.  The two      *)
(* nodes are interchangeable only for invariants, so symmetry is not used. *)
EXTENDS EthLink
=============================================================================
