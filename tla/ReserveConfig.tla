---------------------------- MODULE ReserveConfig ----------------------------
(***************************************************************************)
(* The metadata of a pool's reserve, and what the pool accepts of it       *)
(* (src/pool/src/pool/config.rs). Fractions are scaled by Scalar7.         *)
(***************************************************************************)
EXTENDS PoolConstants

CONSTANTS MinRBase,      \* 0_0001000
          MaxReactivity  \* 0_0001000

ASSUME ReserveConfigAssumption ==
    /\ MinRBase \in Nat \ {0} /\ MaxReactivity \in Nat

\* storage::ReserveConfig. The index is the asset's place in the pool's list,
\* counted from 0; positions are keyed by it.
ReserveConfigs == [index : Nat, decimals : Nat, c_factor : Nat, l_factor : Nat,
                   util : Nat, max_util : Nat, r_base : Nat, r_one : Nat,
                   r_two : Nat, r_three : Nat, reactivity : Nat]

\* Beyond this utilization the third slope of the rate curve begins.
Kink == (95 * Scalar7) \div 100

\* The parameters a change of which resets the rate modifier.
Curves == Nat \X Nat \X Nat \X Nat \X Nat
CurveOf(c) == <<c.r_base, c.r_one, c.r_two, c.r_three, c.util>>

\* require_valid_reserve_metadata; the index is not looked at.
ValidMetadata(c) ==
    /\ c.decimals <= 18
    /\ c.c_factor <= Scalar7 /\ c.l_factor <= Scalar7
    /\ c.util <= Kink
    /\ c.util < c.max_util /\ c.max_util <= Scalar7
    /\ MinRBase <= c.r_base /\ c.r_base < Scalar7
    /\ c.r_one <= c.r_two /\ c.r_two <= c.r_three
    /\ c.reactivity <= MaxReactivity
=============================================================================
