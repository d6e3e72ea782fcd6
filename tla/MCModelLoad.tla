---------------------------- MODULE MCModelLoad -----------------------------
(***************************************************************************)
(* Two loads; a GiB of four bytes, a budget of two of them and a type of   *)
(* 32 values, with the sizes around the budget and around the overflow.    *)
(***************************************************************************)
EXTENDS ModelLoad

CONSTANTS p1, p2
=============================================================================
