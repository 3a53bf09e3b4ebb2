--------------------------- MODULE MCPciFunctions ---------------------------
(* One or two PFs with two VFs each: see the .cfg files. *)
EXTENDS PciFunctions
=============================================================================
