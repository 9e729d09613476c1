----------------------------- MODULE PoolReserve -----------------------------
(***************************************************************************)
(* A reserve of a pool (src/pool/src/pool/reserve.rs): suppliers hold b    *)
(* tokens and borrowers owe d tokens, each worth a rate scaled by Scalar9; *)
(* interest raises both rates, and the backstop is credited its share.     *)
(***************************************************************************)
EXTENDS PoolConstants

CONSTANTS Scalar9,   \* 1_000_000_000
          BstopRate  \* PoolConfig.bstop_rate, scaled by Scalar7

ASSUME PoolReserveAssumption ==
    /\ Scalar9 \in Nat \ {0}
    /\ BstopRate \in 0..(Scalar7 - 1)

Reserves == [b_rate : Nat, d_rate : Nat, b_supply : Nat, d_supply : Nat,
             backstop_credit : Nat]

\* initialize_reserve
NewReserve == [b_rate |-> Scalar9, d_rate |-> Scalar9, b_supply |-> 0,
               d_supply |-> 0, backstop_credit |-> 0]
-----------------------------------------------------------------------------
ToAssetFromD(r, d_tokens) == MulCeil(d_tokens, r.d_rate, Scalar9)
ToAssetFromB(r, b_tokens) == MulFloor(b_tokens, r.b_rate, Scalar9)
ToDTokenUp(r, amount) == DivCeil(amount, r.d_rate, Scalar9)
ToDTokenDown(r, amount) == DivFloor(amount, r.d_rate, Scalar9)
\* (Mutant: a withdrawal burns the b tokens rounded down.)
ToBTokenUpAsDown(r, amount) == DivFloor(amount, r.b_rate, Scalar9)
ToBTokenUp(r, amount) == DivCeil(amount, r.b_rate, Scalar9)
ToBTokenDown(r, amount) == DivFloor(amount, r.b_rate, Scalar9)

TotalLiabilities(r) == ToAssetFromD(r, r.d_supply)
TotalSupply(r) == ToAssetFromB(r, r.b_supply)
\* On a reserve without supply the division panics.
UtilizationDefined(r) == TotalSupply(r) > 0
Utilization(r) == DivCeil(TotalLiabilities(r), TotalSupply(r), Scalar7)
-----------------------------------------------------------------------------
\* The interest the factor adds to the liabilities, and who gets it.
AccruedInterest(r, accrual) ==
    MulCeil(r.d_supply, MulCeil(accrual, r.d_rate, Scalar9), Scalar9)
      - TotalLiabilities(r)
BackstopShare(interest) == MulFloor(interest, BstopRate, Scalar7)
\* (Mutant: suppliers are also given the backstop's share.)
SuppliersShareGross(interest) == interest
SuppliersShare(interest) == interest - BackstopShare(interest)
\* (Mutant: the b rate is set by the interest alone.)
BRateOfInterest(r, gained) == DivFloor(gained, r.b_supply, Scalar9)
BRateAfter(r, gained) == DivFloor(TotalSupply(r) + gained, r.b_supply, Scalar9)

\* Reserve::load at a ledger for which calc_accrual returns accrual, which is
\* Scalar9 in a ledger already accrued. Without supply or loans nothing accrues.
Accrued(r, accrual) ==
    LET interest == AccruedInterest(r, accrual)
        d_rate == MulCeil(accrual, r.d_rate, Scalar9)
    IN  IF r.b_supply = 0 \/ Utilization(r) = 0 THEN r
        ELSE IF interest = 0 THEN [r EXCEPT !.d_rate = d_rate]
        ELSE [r EXCEPT !.d_rate = d_rate,
                       !.b_rate = BRateAfter(r, SuppliersShare(interest)),
                       !.backstop_credit = @ + BackstopShare(interest)]
=============================================================================
