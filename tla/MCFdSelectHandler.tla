------------------------- MODULE MCFdSelectHandler -------------------------
(* Instances of FdSelectHandler for TLC. *)
EXTENDS FdSelectHandler
=============================================================================
