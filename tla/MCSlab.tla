------------------------------- MODULE MCSlab -------------------------------
(* Slab for TLC.                                                           *)
EXTENDS Slab
=============================================================================
