------------------------------ MODULE MCLaunch ------------------------------
(* Launch with three calls of the script. *)
EXTENDS Launch

CONSTANTS c1, c2, c3
=============================================================================
