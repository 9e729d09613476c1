---------------------------- MODULE InterestRate ----------------------------
(***************************************************************************)
(* Interest of one reserve (src/pool/src/pool/interest.rs): the borrow     *)
(* rate as a curve of utilization in three slopes, scaled by a modifier    *)
(* that drifts up while utilization is above the reserve's target and down *)
(* while it is below. Rates are scaled by Scalar7, the modifier and the    *)
(* accrual by Scalar9 == 100 * Scalar7.                                    *)
(***************************************************************************)
EXTENDS ReserveConfig

CONSTANTS SecondsPerYear,
          Backdated,     \* 500, the seconds assumed when last_time lies ahead
          Metadata,      \* configurations the reserve may be given
          Utilizations,  \* utilizations its users may bring about
          Delays         \* seconds between two accruals

ASSUME InterestRateAssumption ==
    /\ SecondsPerYear \in Nat \ {0} /\ Backdated \in Nat
    /\ Metadata \subseteq ReserveConfigs
    /\ Utilizations \subseteq Nat /\ Delays \subseteq Int

VARIABLES config,  \* the reserve's metadata
          util,    \* its utilization
          ir_mod   \* its rate modifier

vars == <<config, util, ir_mod>>

Scalar9 == 100 * Scalar7
MinModifier == Scalar9 \div 10
MaxModifier == 10 * Scalar9
-----------------------------------------------------------------------------
\* The three slopes of calc_accrual's cur_ir.
BelowTarget(c, u, m) ==
    MulCeil(MulCeil(DivCeil(u, c.util, Scalar7), c.r_one, Scalar7) + c.r_base,
            m, Scalar9)
AboveTarget(c, u, m) ==
    MulCeil(MulCeil(DivCeil(u - c.util, Kink - c.util, Scalar7), c.r_two, Scalar7)
              + c.r_one + c.r_base,
            m, Scalar9)
AboveKink(c, u, m) ==
    MulCeil(DivCeil(u - Kink, Scalar7 - Kink, Scalar7), c.r_three, Scalar7)
      + MulCeil(m, c.r_two + c.r_one + c.r_base, Scalar9)

\* (Mutant: the second slope forgets the height of the first.)
CurIrFromBase(c, u, m) ==
    IF u <= c.util THEN BelowTarget(c, u, m)
    ELSE IF u <= Kink THEN AboveTarget([c EXCEPT !.r_one = 0], u, m)
    ELSE AboveKink(c, u, m)
CurIr(c, u, m) ==
    IF u <= c.util THEN BelowTarget(c, u, m)
    ELSE IF u <= Kink THEN AboveTarget(c, u, m)
    ELSE AboveKink(c, u, m)

\* A last_time in the ledger's future counts as 500 seconds ago.
Elapsed(delay) == IF delay < 0 THEN Backdated ELSE delay

\* The drift: the utilization error, in Scalar9, over the time that passed.
UtilDif(c, u) == 100 * (u - c.util)
RateDif(c, u, delay) ==
    IF UtilDif(c, u) >= 0
    THEN MulFloor(MulFloor(Elapsed(delay) * Scalar9, UtilDif(c, u), Scalar9),
                  c.reactivity, Scalar7)
    ELSE MulCeil(MulCeil(Elapsed(delay) * Scalar9, UtilDif(c, u), Scalar9),
                 c.reactivity, Scalar7)

\* (Mutant: the floor is not enforced.)
NewIrModUnclamped(c, u, m, delay) == AtMost(m + RateDif(c, u, delay), MaxModifier)
NewIrMod(c, u, m, delay) ==
    IF UtilDif(c, u) >= 0
    THEN IF m + RateDif(c, u, delay) > MaxModifier THEN MaxModifier
         ELSE m + RateDif(c, u, delay)
    ELSE IF m + RateDif(c, u, delay) < MinModifier THEN MinModifier
         ELSE m + RateDif(c, u, delay)

\* (Mutant: the interest replaces the principal.)
AccrualWithoutPrincipal(c, u, m, delay) ==
    MulCeil((Elapsed(delay) * Scalar9) \div SecondsPerYear, 100 * CurIr(c, u, m),
            Scalar9)
\* The factor liabilities grow by.
Accrual(c, u, m, delay) ==
    Scalar9 + MulCeil((Elapsed(delay) * Scalar9) \div SecondsPerYear,
                      100 * CurIr(c, u, m), Scalar9)
-----------------------------------------------------------------------------
Init == /\ config \in {c \in Metadata : ValidMetadata(c)}
        /\ util = 0
        /\ ir_mod = Scalar9

\* Deposits, withdrawals, loans and repayments, in a ledger already accrued.
ChangeUtilization(u) == util' = u /\ UNCHANGED <<config, ir_mod>>

\* calc_accrual, as Reserve::load calls it when something is borrowed.
Accrue(delay) ==
    /\ util > 0
    /\ ir_mod' = NewIrMod(config, util, ir_mod, delay)
    /\ UNCHANGED <<config, util>>

\* set_reserve, after the accrual it begins with: the index stays, and another
\* curve starts with a neutral modifier.
SetReserve(c) ==
    /\ ValidMetadata(c) /\ c.decimals = config.decimals
    /\ config' = [c EXCEPT !.index = config.index]
    /\ ir_mod' = IF CurveOf(c) # CurveOf(config) THEN Scalar9 ELSE ir_mod
    /\ UNCHANGED util

Next == \/ \E u \in Utilizations : ChangeUtilization(u)
        \/ \E delay \in Delays : Accrue(delay)
        \/ \E c \in Metadata : SetReserve(c)

Spec == Init /\ [][Next]_vars
-----------------------------------------------------------------------------
\* However long the pool is idle or busy, its modifier stays between a tenth and
\* ten times neutral (every drift is clamped), and its curve an accepted one.
TypeOK == /\ config \in {c \in ReserveConfigs : ValidMetadata(c)}
          /\ util \in Nat
          /\ ir_mod \in MinModifier..MaxModifier

\* No loan is free, and a more utilized reserve never charges less: the three
\* slopes of cur_ir meet, for every modifier the reserve can reach and every
\* accepted curve.
RateMonotone ==
    \A u, v \in Utilizations \ {0} :
        /\ CurIr(config, u, ir_mod) > 0
        /\ u <= v => CurIr(config, u, ir_mod) <= CurIr(config, v, ir_mod)

\* Debt never shrinks by itself: the accrual is at least one, also when the
\* reserve's last_time lies ahead of the ledger, and otherwise a longer delay
\* never accrues less.
DebtNeverShrinks ==
    \A u \in Utilizations \ {0}, d, e \in Delays :
        /\ Accrual(config, u, ir_mod, d) >= Scalar9
        /\ 0 <= d /\ d <= e
             => Accrual(config, u, ir_mod, d) <= Accrual(config, u, ir_mod, e)

\* The modifier moves against the utilization error: it never falls while the
\* reserve is above its target, and never rises while it is below.
ModifierSteers ==
    [][config' = config => /\ util > config.util => ir_mod' >= ir_mod
                           /\ util < config.util => ir_mod' <= ir_mod]_vars
=============================================================================
