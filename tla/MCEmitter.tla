------------------------------ MODULE MCEmitter ------------------------------
(***************************************************************************)
(* The emitter and two backstops that can be swapped back and forth, with  *)
(* balances that may tie.                                                  *)
(***************************************************************************)
EXTENDS BackstopSwaps
=============================================================================
