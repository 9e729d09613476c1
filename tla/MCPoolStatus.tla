---------------------------- MODULE MCPoolStatus ----------------------------
(***************************************************************************)
(* Every interval of the queued percentage, with a backstop without        *)
(* tokens, below the threshold, just at it, and past saturation.           *)
(***************************************************************************)
EXTENDS PoolStatus

Queued == {0, 29, 30, 49, 50, 59, 60, 74, 75, 100}
Balances == {<<0, 0>>, <<299, 100>>, <<300, 199>>, <<300, 200>>, <<2000, 900>>}
Backstops == {[blnd |-> t[1], usdc |-> t[2], tokens |-> 1, q4w_pct |-> q] :
                 t \in Balances, q \in Queued}
=============================================================================
