------------------------------ MODULE MCLending ------------------------------
(***************************************************************************)
(* Lending on a small instance.                                            *)
(***************************************************************************)
EXTENDS Lending, TLC

CONSTANTS a1, a2, u1, u2, backstop_module

Each(n) == [a \in Assets |-> n]
CFactors == Each(9)
LFactors == Each(9)
FullUtil == Each(Scalar7)
Units == [a \in Assets |-> IF a = a1 THEN 1 ELSE 2]
AllFail == {{}, Assets}
NeverFail == {{}}
HealthyBackstop == {[blnd |-> 10, usdc |-> 10, tokens |-> 2, q4w_pct |-> 0]}
AnyBackstop == {[blnd |-> 10, usdc |-> 10, tokens |-> 2, q4w_pct |-> q] : q \in {0, 6}}

\* Bounds: tokens and rates of a reserve, in any copy of it.
Small(r, tokens_max, rate) ==
    /\ r.b_supply <= tokens_max /\ r.d_supply <= tokens_max
    /\ r.b_rate <= rate /\ r.d_rate <= rate
SmallReserves(tokens_max, rate) ==
    \A a \in Assets : /\ Small(reserve[a], tokens_max, rate)
                      /\ tx # NoTx => Small(tx.res[a], tokens_max, rate)
                      /\ balance[a] <= tokens_max
                      /\ undelivered[a] <= 2
ActiveOnly == status \in {0, 6}
Unused(a) == /\ reserve[a].b_supply = 0 /\ accrual[a] = Scalar9
             /\ tx # NoTx => tx.res[a].b_supply = 0

\* Up to the first transfer that fails. Past DEPLOYMENT_SEQ: with interest in an
\* active pool whose backstop owes nothing, without it in every status. Before it,
\* where no health check keeps a user from leaving bad debt: with interest on one
\* asset of an active pool.
Explored ==
    /\ unpaid = Zero /\ undelivered = Zero
    /\ IF live
       THEN \/ /\ ActiveOnly /\ backstop \in HealthyBackstop
                /\ ~HasLiabilities(positions[Backstop]) /\ SmallReserves(4, 6)
                /\ \A a \in Assets : reserve[a].b_supply <= 3
            \/ SmallReserves(2, Scalar9)
       ELSE ActiveOnly /\ backstop \in HealthyBackstop /\ Unused(a2) /\ SmallReserves(4, 6)
=============================================================================
