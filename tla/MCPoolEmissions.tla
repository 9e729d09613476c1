--------------------------- MODULE MCPoolEmissions ---------------------------
(***************************************************************************)
(* The pool's emissions on a small instance.                               *)
(***************************************************************************)
EXTENDS PoolEmissions, TLC

CONSTANTS btok, dtok, h1, h2

\* Of one token, of both, or of more than the whole.
AllShares == {btok :> 4, (btok :> 2 @@ dtok :> 2), (btok :> 3 @@ dtok :> 2)}

\* Bounds: a stream for b tokens alone that is replaced, runs out and loses its allowance,
\* or one for both tokens in its first two ledgers.
Bound ==
    \/ /\ DOMAIN shares \subseteq {btok} /\ config[dtok] = None
       /\ supply[dtok] = 0
       /\ supply[btok] <= 3 /\ pending + allowance + lapsed <= 12
    \/ /\ now <= 1 /\ supply[btok] <= 1 /\ supply[dtok] <= 1
       /\ pending + allowance <= 6
HolderSymmetry == Permutations(Holders)
=============================================================================
