--------------------------- MODULE MCInterestRate ---------------------------
(***************************************************************************)
(* Curves with targets at zero, in the middle and at the kink, one flat,   *)
(* two that differ in their reactivity only, and one that is to be         *)
(* rejected because its second slope is lower.                             *)
(***************************************************************************)
EXTENDS InterestRate

Curve(target, one, two, three, reactivity) ==
    [index |-> 0, decimals |-> 7, c_factor |-> 10, l_factor |-> 10, util |-> target,
     max_util |-> Scalar7, r_base |-> 1, r_one |-> one, r_two |-> two,
     r_three |-> three, reactivity |-> reactivity]

SomeDelays == {-1, 0, 1, 5}
SomeCurves == {Curve(0, 3, 3, 7, 3), Curve(10, 2, 5, 30, 4), Curve(13, 1, 9, 9, 1),
               Curve(Kink, 1, 4, 20, 3), Curve(15, 0, 0, 40, 0),
               [Curve(10, 2, 5, 30, 1) EXCEPT !.index = 1],
               Curve(10, 5, 2, 30, 4)}
=============================================================================
