----------------------------- MODULE FixedPoint -----------------------------
(***************************************************************************)
(* The soroban_fixed_point_math crate as the contracts use it: products and *)
(* quotients of non-negative integers scaled by a denominator, rounded down *)
(* or up. A zero divisor makes the crate return None, on which the         *)
(* contracts panic; the callers state that as a guard.                     *)
(***************************************************************************)
EXTENDS Integers

MulFloor(x, y, denominator) == (x * y) \div denominator
MulCeil(x, y, denominator) == -((-(x * y)) \div denominator)
DivFloor(x, y, denominator) == (x * denominator) \div y
DivCeil(x, y, denominator) == -((-(x * denominator)) \div y)

AtMost(x, y) == IF x <= y THEN x ELSE y
=============================================================================
