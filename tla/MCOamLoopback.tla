--------------------------- MODULE MCOamLoopback ---------------------------
(***************************************************************************)
(* The revision wraps after a few changes.  Two consecutive Information    *)
(* TLVs are at most one change apart, so the wrap cannot hide one.         *)
(***************************************************************************)
EXTENDS OamLoopback
=============================================================================
