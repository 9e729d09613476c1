---------------------------- MODULE MCPoolAdmin ----------------------------
(***************************************************************************)
(* Two assets, two curves, one change of decimals, one change of factors   *)
(* only and one rejected entry, queued with indexes that need not be the   *)
(* assets', in a pool whose backstop is sometimes healthy.                 *)
(***************************************************************************)
EXTENDS PoolAdmin, TLC

CONSTANTS a1, a2

First == [index |-> 0, decimals |-> 6, c_factor |-> 9, l_factor |-> 9, util |-> 5,
          max_util |-> 9, r_base |-> 1, r_one |-> 1, r_two |-> 2,
          r_three |-> 3, reactivity |-> 1]
Entries == {First, [First EXCEPT !.index = 1, !.r_three = 4],
            [First EXCEPT !.decimals = 7], [First EXCEPT !.index = 1, !.c_factor = 8],
            [First EXCEPT !.util = 10]}
OneHealthyBackstop == {[blnd |-> 10, usdc |-> 10, tokens |-> 1, q4w_pct |-> 0]}

AssetSymmetry == Permutations(Assets)
=============================================================================
