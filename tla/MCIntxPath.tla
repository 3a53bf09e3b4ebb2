----------------------------- MODULE MCIntxPath -----------------------------
(* The interrupt path under the two testbenches: see the .cfg files. *)
EXTENDS IntxPath
=============================================================================
