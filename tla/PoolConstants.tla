---------------------------- MODULE PoolConstants ----------------------------
(***************************************************************************)
(* The scale the pool's modules share (src/pool/src/constants.rs).         *)
(***************************************************************************)
EXTENDS FixedPoint

CONSTANT Scalar7  \* 1_0000000

ASSUME PoolConstantsAssumption == Scalar7 \in Nat \ {0}
=============================================================================
