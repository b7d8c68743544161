---------------------------- MODULE MCPageAlloc ----------------------------
(***************************************************************************)
(* Small instances of PageAlloc: a few pages of two bytes, with a count    *)
(* that is wider than the number of pages, as in the code.                 *)
(***************************************************************************)
EXTENDS PageAlloc
=============================================================================
