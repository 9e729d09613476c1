----------------------------- MODULE MCAuctions -----------------------------
(***************************************************************************)
(* Auctions on a small instance.                                           *)
(***************************************************************************)
EXTENDS Auctions, TLC

CONSTANTS a1, u1, u2, backstop_module, lp

Each(n) == [a \in Assets |-> n]
CFactors == Each(90)
LFactors == Each(100)
LowUtil == Each(1)
Units == Each(1)
FiveBase == Each(5 * OracleScalar)
NeverFail == {{}}
Deposits == {[tokens |-> n, blnd |-> n * 100, usdc |-> n * 100, q4w_pct |-> 0] : n \in {3}}

\* An active pool in which u1 has supplied 7 as collateral and borrowed 5 of
\* them, and u2 has supplied 1, four requests from Lending's initial state; then
\* set_reserve has lowered the maximum utilization, which stops further loans.
MCStart ==
    /\ status = 0 /\ backstop \in Deposits
    /\ reserve = [a \in Assets |-> [NewReserve EXCEPT !.b_supply = 8, !.d_supply = 5]]
    /\ accrual = Each(Scalar9)
    /\ positions = [h \in Holders |->
          IF h = u1 THEN [NoPositions EXCEPT !.collateral = Each(7), !.liabilities = Each(5)]
          ELSE IF h = u2 THEN [NoPositions EXCEPT !.collateral = Each(1)]
          ELSE NoPositions]
    /\ live = TRUE
    /\ tx = NoTx
    /\ balance = Each(3) /\ unpaid = Zero /\ undelivered = Zero
    /\ auctions = [k \in Keys |-> NoAuction] /\ draft = NoTx /\ lost = Zero
MCSpec == MCStart /\ [][AuctionsNext]_allVars

\* Bounds. A withdrawal of collateral is only followed up while the quote of a
\* liquidation names it; a second auction may stand while the
\* backstop's tokens are untouched.
Standing == {k \in Keys : auctions[k] # NoAuction}
Small(r) == /\ r.d_supply <= 5 /\ r.d_rate <= 6 /\ r.b_rate <= 5
            /\ r.backstop_credit <= 1
            /\ r.b_supply \in (IF Liquidation(u1) \in Standing THEN {3, 4, 8} ELSE {8})
Bound == /\ status = 0
         /\ \A a \in Assets : Small(reserve[a])
         /\ undelivered = Zero
         /\ \A a \in Assets : balance[a] <= 8 /\ lost[a] <= 4
         /\ \A h \in Holders : positions[h].supply = Zero
         /\ tx # NoTx => Own.supply = Zero /\ \A a \in Assets : tx.res[a].d_supply <= 5
         /\ backstop.tokens \in 2..4
         /\ Cardinality(Standing) <= (IF backstop.tokens = 3 THEN 2 ELSE 1)
=============================================================================
