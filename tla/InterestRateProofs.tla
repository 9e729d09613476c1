------------------------- MODULE InterestRateProofs -------------------------
(***************************************************************************)
(* The interest of a reserve for every accepted curve, every utilization   *)
(* and every delay: the clamps of the modifier, its direction, the order   *)
(* of the rates and of the accruals.                                       *)
(***************************************************************************)
EXTENDS InterestRate, ArithmeticProofs

\* The scales are positive and in order.
LEMMA Scales ==
    /\ Scalar7 \in Nat \ {0} /\ Scalar9 \in Nat \ {0}
    /\ MinModifier \in Nat \ {0} /\ MaxModifier \in Nat
    /\ MinModifier <= Scalar9 /\ Scalar9 <= MaxModifier
    /\ Kink \in Nat /\ Kink < Scalar7
  BY PoolConstantsAssumption DEF Scalar9, MinModifier, MaxModifier, Kink

\* The time an accrual counts is not negative.
LEMMA ElapsedNat == \A delay \in Int : Elapsed(delay) \in Nat
  BY InterestRateAssumption DEF Elapsed

\* An accepted configuration has the fields of a configuration, in natural numbers.
LEMMA ConfigType ==
    ASSUME TypeOK
    PROVE  /\ config \in ReserveConfigs /\ ValidMetadata(config)
           /\ config.util \in Nat /\ config.r_base \in Nat /\ config.r_one \in Nat
           /\ config.r_two \in Nat /\ config.r_three \in Nat
           /\ config.reactivity \in Nat
           /\ util \in Nat /\ ir_mod \in Nat
           /\ config.r_base > 0 /\ ir_mod > 0
  <1>1. config \in ReserveConfigs /\ ValidMetadata(config) /\ util \in Nat
    BY DEF TypeOK
  <1>2. ir_mod \in Nat /\ ir_mod > 0
    BY Scales DEF TypeOK
  <1>3. config.r_base \in Nat /\ config.r_base > 0
    BY <1>1, ReserveConfigAssumption DEF ReserveConfigs, ValidMetadata
  <1> QED BY <1>1, <1>2, <1>3 DEF ReserveConfigs

\* A product of positives rounded up is positive.
LEMMA CeilPositive ==
    ASSUME NEW x \in Nat \ {0}, NEW y \in Nat \ {0}, NEW d \in Nat \ {0}
    PROVE  MulCeil(x, y, d) > 0
  <1>1. x * y \in Nat /\ x * y > 0
    BY ProductNat
  <1>2. MulCeil(x, y, d) \in Nat /\ x * y <= MulCeil(x, y, d) * d
    BY MulCeilBounds
  <1>3. MulCeil(x, y, d) = 0 => MulCeil(x, y, d) * d = 0
    OBVIOUS
  <1> HIDE DEF MulCeil
  <1> QED BY <1>1, <1>2, <1>3
-----------------------------------------------------------------------------
\* The drift is upwards above the target, downwards below it.
LEMMA DriftUp ==
    ASSUME TypeOK, NEW delay \in Int, UtilDif(config, util) >= 0
    PROVE  RateDif(config, util, delay) \in Nat
  <1> DEFINE inner == MulFloor(Elapsed(delay) * Scalar9, UtilDif(config, util), Scalar9)
  <1>1. UtilDif(config, util) \in Nat
    BY ConfigType DEF UtilDif
  <1>2. Elapsed(delay) * Scalar9 \in Nat
    BY ElapsedNat, Scales, ProductNat
  <1>3. inner \in Nat
    BY <1>1, <1>2, Scales, MulFloorBounds
  <1> HIDE DEF inner
  <1>4. MulFloor(inner, config.reactivity, Scalar7) \in Nat
    BY <1>3, ConfigType, Scales, MulFloorBounds
  <1> QED BY <1>4 DEF RateDif, inner

\* A negative product rounded up is not positive.
LEMMA CeilOfNegative ==
    ASSUME NEW x \in Nat, NEW y \in Nat, NEW d \in Nat \ {0}
    PROVE  /\ -MulCeil(-x, y, d) \in Nat
           /\ -MulCeil(x, -y, d) \in Nat
  <1>1. x * y \in Nat
    BY ProductNat
  <1>2. -((-x) * y) = x * y /\ -(x * (-y)) = x * y
    OBVIOUS
  <1>3. (x * y) \div d \in Nat
    BY <1>1, Quotient
  <1>4. -(-((x * y) \div d)) = (x * y) \div d
    BY <1>3
  <1> QED BY <1>2, <1>3, <1>4 DEF MulCeil

\* Below the target the modifier drifts down: what is added to it is not positive.
LEMMA DriftDown ==
    ASSUME TypeOK, NEW delay \in Int, UtilDif(config, util) < 0
    PROVE  -RateDif(config, util, delay) \in Nat
  <1> DEFINE time == Elapsed(delay) * Scalar9
             short == -UtilDif(config, util)
             inner == MulCeil(time, UtilDif(config, util), Scalar9)
  <1>1. short \in Nat /\ UtilDif(config, util) = -short
    BY ConfigType DEF UtilDif
  <1>2. time \in Nat
    BY ElapsedNat, Scales, ProductNat
  <1>3. -inner \in Nat /\ inner = -(-inner)
    <2> HIDE DEF time, short
    <2>1. -MulCeil(time, -short, Scalar9) \in Nat
      BY <1>1, <1>2, Scales, CeilOfNegative
    <2>2. inner = MulCeil(time, -short, Scalar9) /\ MulCeil(time, -short, Scalar9) \in Int
      <3>1. UtilDif(config, util) = -short
        BY <1>1
      <3>2. time * (-short) \in Int
        BY <1>1, <1>2
      <3>3. MulCeil(time, -short, Scalar9) \in Int
        BY <3>2, Scales DEF MulCeil
      <3> QED BY <3>1, <3>3
    <2> HIDE DEF inner
    <2> QED BY <2>1, <2>2
  <1> HIDE DEF inner
  <1>4. -MulCeil(-(-inner), config.reactivity, Scalar7) \in Nat
    BY <1>3, ConfigType, Scales, CeilOfNegative
  <1>5. RateDif(config, util, delay) = MulCeil(inner, config.reactivity, Scalar7)
    <2>1. ~(UtilDif(config, util) >= 0)
      BY ConfigType DEF UtilDif
    <2> QED BY <2>1 DEF RateDif, inner
  <1> QED BY <1>3, <1>4, <1>5

\* Clamped, the new modifier stays in its range and moves as the drift does.
LEMMA DriftClamped ==
    ASSUME TypeOK, NEW delay \in Int
    PROVE  LET new == NewIrMod(config, util, ir_mod, delay) IN
           /\ new \in MinModifier..MaxModifier
           /\ util >= config.util => new >= ir_mod
           /\ util < config.util => new <= ir_mod
  <1> DEFINE drift == RateDif(config, util, delay)
  <1>1. /\ ir_mod \in Nat /\ MinModifier <= ir_mod /\ ir_mod <= MaxModifier
        /\ MinModifier \in Nat /\ MaxModifier \in Nat
    BY ConfigType, Scales DEF TypeOK
  <1>2. UtilDif(config, util) >= 0 <=> util >= config.util
    BY ConfigType DEF UtilDif
  <1>3. CASE UtilDif(config, util) >= 0
    <2>1. drift \in Nat
      BY <1>3, DriftUp
    <2> HIDE DEF drift
    <2>2. NewIrMod(config, util, ir_mod, delay)
            = IF ir_mod + drift > MaxModifier THEN MaxModifier ELSE ir_mod + drift
      BY <1>3 DEF NewIrMod, drift
    <2> QED BY <1>1, <1>2, <1>3, <2>1, <2>2, ConfigType
  <1>4. CASE ~(UtilDif(config, util) >= 0)
    <2>1. UtilDif(config, util) < 0
      BY <1>4, ConfigType DEF UtilDif
    <2>2. -drift \in Nat
      BY <2>1, DriftDown
    <2>3. drift \in Int
      BY <2>1, ConfigType, ElapsedNat, Scales DEF RateDif, UtilDif, MulCeil
    <2> HIDE DEF drift
    <2>4. NewIrMod(config, util, ir_mod, delay)
            = IF ir_mod + drift < MinModifier THEN MinModifier ELSE ir_mod + drift
      BY <1>4 DEF NewIrMod, drift
    <2> QED BY <1>1, <1>2, <1>4, <2>2, <2>3, <2>4, ConfigType
  <1> QED BY <1>3, <1>4
-----------------------------------------------------------------------------
\* A new reserve, an accrual and a new curve keep the clamps.
LEMMA TypeStep == TypeOK /\ [Next]_vars => TypeOK'
  <1> SUFFICES ASSUME TypeOK, [Next]_vars PROVE TypeOK'
    OBVIOUS
  <1>1. ASSUME NEW u \in Utilizations, ChangeUtilization(u) PROVE TypeOK'
    BY <1>1, InterestRateAssumption DEF ChangeUtilization, TypeOK
  <1>2. ASSUME NEW delay \in Delays, Accrue(delay) PROVE TypeOK'
    <2>1. delay \in Int
      BY InterestRateAssumption
    <2>2. ir_mod' \in MinModifier..MaxModifier
      BY <1>2, <2>1, DriftClamped DEF Accrue
    <2> QED BY <1>2, <2>2 DEF Accrue, TypeOK
  <1>3. ASSUME NEW c \in Metadata, SetReserve(c) PROVE TypeOK'
    <2>1. c \in ReserveConfigs /\ config.index \in Nat
      BY InterestRateAssumption DEF TypeOK, ReserveConfigs
    <2>2. [c EXCEPT !.index = config.index] \in ReserveConfigs
      BY <2>1 DEF ReserveConfigs
    <2>3. ValidMetadata([c EXCEPT !.index = config.index])
      BY <1>3, <2>1 DEF SetReserve, ReserveConfigs, ValidMetadata
    <2>4. ir_mod' \in MinModifier..MaxModifier
      BY <1>3, Scales DEF SetReserve, TypeOK
    <2> QED BY <1>3, <2>2, <2>3, <2>4 DEF SetReserve, TypeOK
  <1>4. CASE UNCHANGED vars
    BY <1>4 DEF vars, TypeOK
  <1> QED BY <1>1, <1>2, <1>3, <1>4 DEF Next

\* However long the pool is idle or busy, the modifier stays between a tenth and
\* ten times neutral, and the curve an accepted one.
THEOREM TypeCorrect == Spec => []TypeOK
  <1>1. Init => TypeOK
    BY Scales, InterestRateAssumption DEF Init, TypeOK
  <1> QED BY <1>1, TypeStep, PTL DEF Spec

\* The modifier moves against the utilization error.
THEOREM ModifierSteersProved == Spec => ModifierSteers
  <1>1. TypeOK /\ [Next]_vars
          => [config' = config => /\ util > config.util => ir_mod' >= ir_mod
                                  /\ util < config.util => ir_mod' <= ir_mod]_vars
    <2> SUFFICES ASSUME TypeOK, Next, config' = config
                 PROVE  /\ util > config.util => ir_mod' >= ir_mod
                        /\ util < config.util => ir_mod' <= ir_mod
      OBVIOUS
    <2>1. ir_mod' = ir_mod => ir_mod' >= ir_mod /\ ir_mod' <= ir_mod
      BY ConfigType
    <2>2. ASSUME NEW u \in Utilizations, ChangeUtilization(u) PROVE ir_mod' = ir_mod
      BY <2>2 DEF ChangeUtilization
    <2>3. ASSUME NEW delay \in Delays, Accrue(delay)
          PROVE  /\ util > config.util => ir_mod' >= ir_mod
                 /\ util < config.util => ir_mod' <= ir_mod
      <3>1. delay \in Int
        BY InterestRateAssumption
      <3>2. util > config.util => util >= config.util
        BY ConfigType
      <3> QED BY <2>3, <3>1, <3>2, DriftClamped DEF Accrue
    <2>4. ASSUME NEW c \in Metadata, SetReserve(c) PROVE ir_mod' = ir_mod
      <3>1. c \in ReserveConfigs
        BY InterestRateAssumption
      <3>2. config = [c EXCEPT !.index = config.index]
        BY <2>4 DEF SetReserve
      <3>3. CurveOf(c) = CurveOf(config)
        BY <3>1, <3>2 DEF ReserveConfigs, CurveOf
      <3> QED BY <2>4, <3>3 DEF SetReserve
    <2> QED BY <2>1, <2>2, <2>3, <2>4 DEF Next
  <1> QED BY <1>1, TypeCorrect, PTL DEF Spec, ModifierSteers
-----------------------------------------------------------------------------
\* A positive rate stays positive when the modifier scales it.
LEMMA ScaledPositive ==
    ASSUME TypeOK, NEW rate \in Nat \ {0}
    PROVE  MulCeil(rate, ir_mod, Scalar9) > 0
  <1>1. ir_mod \in Nat \ {0}
    BY ConfigType
  <1>2. Scalar9 \in Nat \ {0}
    BY Scales
  <1> QED BY <1>1, <1>2, CeilPositive

\* Each slope is a natural rate that does not fall, between the rates at its ends.
LEMMA FirstSlope ==
    ASSUME TypeOK, NEW u \in Nat, NEW v \in Nat, u <= v, v <= config.util, config.util > 0
    PROVE  /\ BelowTarget(config, u, ir_mod) \in Nat
           /\ BelowTarget(config, u, ir_mod) > 0
           /\ BelowTarget(config, u, ir_mod) <= BelowTarget(config, v, ir_mod)
           /\ BelowTarget(config, v, ir_mod)
                <= MulCeil(config.r_one + config.r_base, ir_mod, Scalar9)
  <1> DEFINE part(w) == MulCeil(DivCeil(w, config.util, Scalar7), config.r_one, Scalar7)
  <1>1. config.util \in Nat \ {0}
    BY ConfigType
  <1>2. /\ DivCeil(u, config.util, Scalar7) \in Nat
        /\ DivCeil(v, config.util, Scalar7) \in Nat
        /\ DivCeil(u, config.util, Scalar7) <= DivCeil(v, config.util, Scalar7)
        /\ DivCeil(v, config.util, Scalar7) <= DivCeil(config.util, config.util, Scalar7)
        /\ DivCeil(config.util, config.util, Scalar7) = Scalar7
    BY <1>1, DivCeilMono, WholeShare, Scales
  <1>3. /\ part(u) \in Nat /\ part(v) \in Nat
        /\ part(u) <= part(v) /\ part(v) <= MulCeil(Scalar7, config.r_one, Scalar7)
    BY <1>2, MulCeilBounds, MulCeilMono, ConfigType, Scales
  <1>4. MulCeil(Scalar7, config.r_one, Scalar7) = config.r_one
    BY WholeShare, ConfigType, Scales
  <1> HIDE DEF part
  <1>5. /\ part(u) + config.r_base \in Nat \ {0} /\ part(v) + config.r_base \in Nat
        /\ config.r_one + config.r_base \in Nat
        /\ part(u) + config.r_base <= part(v) + config.r_base
        /\ part(v) + config.r_base <= config.r_one + config.r_base
    BY <1>3, <1>4, ConfigType
  <1>6. MulCeil(part(u) + config.r_base, ir_mod, Scalar9) > 0
    BY <1>5, ScaledPositive
  <1>7. /\ MulCeil(part(u) + config.r_base, ir_mod, Scalar9) \in Nat
        /\ MulCeil(part(u) + config.r_base, ir_mod, Scalar9)
             <= MulCeil(part(v) + config.r_base, ir_mod, Scalar9)
        /\ MulCeil(part(v) + config.r_base, ir_mod, Scalar9)
             <= MulCeil(config.r_one + config.r_base, ir_mod, Scalar9)
    BY <1>5, MulCeilBounds, MulCeilMono, ConfigType, Scales
  <1> QED BY <1>6, <1>7 DEF BelowTarget, part

\* The slope from the target to the kink starts where the first one ends.
LEMMA SecondSlope ==
    ASSUME TypeOK, NEW u \in Nat, NEW v \in Nat, u <= v, config.util < u, v <= Kink
    PROVE  /\ MulCeil(config.r_one + config.r_base, ir_mod, Scalar9)
                <= AboveTarget(config, u, ir_mod)
           /\ AboveTarget(config, u, ir_mod) \in Nat
           /\ AboveTarget(config, u, ir_mod) <= AboveTarget(config, v, ir_mod)
           /\ AboveTarget(config, v, ir_mod)
                <= MulCeil(config.r_two + config.r_one + config.r_base, ir_mod, Scalar9)
  <1> DEFINE width == Kink - config.util
             share(w) == DivCeil(w - config.util, width, Scalar7)
             part(w) == MulCeil(share(w), config.r_two, Scalar7)
  <1>1. /\ width \in Nat \ {0}
        /\ u - config.util \in Nat /\ v - config.util \in Nat
        /\ u - config.util <= v - config.util /\ v - config.util <= width
    BY ConfigType, Scales
  <1>2. /\ share(u) \in Nat /\ share(v) \in Nat
        /\ share(u) <= share(v) /\ share(v) <= DivCeil(width, width, Scalar7)
        /\ DivCeil(width, width, Scalar7) = Scalar7
    <2> HIDE DEF width
    <2> QED BY <1>1, DivCeilMono, WholeShare, Scales
  <1>3. /\ part(u) \in Nat /\ part(v) \in Nat
        /\ part(u) <= part(v) /\ part(v) <= MulCeil(Scalar7, config.r_two, Scalar7)
    <2> HIDE DEF share
    <2> QED BY <1>2, MulCeilBounds, MulCeilMono, ConfigType, Scales
  <1>4. MulCeil(Scalar7, config.r_two, Scalar7) = config.r_two
    BY WholeShare, ConfigType, Scales
  <1> DEFINE base == config.r_one + config.r_base
             rate(w) == part(w) + config.r_one + config.r_base
             top == config.r_two + config.r_one + config.r_base
  <1>5. /\ base \in Nat /\ rate(u) \in Nat /\ rate(v) \in Nat /\ top \in Nat
        /\ base <= rate(u) /\ rate(u) <= rate(v) /\ rate(v) <= top
    <2> HIDE DEF part
    <2> QED BY <1>3, <1>4, ConfigType
  <1>6. /\ MulCeil(base, ir_mod, Scalar9) <= MulCeil(rate(u), ir_mod, Scalar9)
        /\ MulCeil(rate(u), ir_mod, Scalar9) \in Nat
        /\ MulCeil(rate(u), ir_mod, Scalar9) <= MulCeil(rate(v), ir_mod, Scalar9)
        /\ MulCeil(rate(v), ir_mod, Scalar9) <= MulCeil(top, ir_mod, Scalar9)
    <2> HIDE DEF base, rate, top
    <2> QED BY <1>5, MulCeilBounds, MulCeilMono, ConfigType, Scales
  <1> QED BY <1>6 DEF AboveTarget

\* The slope over the kink starts where the second one ends.
LEMMA ThirdSlope ==
    ASSUME TypeOK, NEW u \in Nat, NEW v \in Nat, u <= v, Kink < u
    PROVE  /\ MulCeil(config.r_two + config.r_one + config.r_base, ir_mod, Scalar9)
                <= AboveKink(config, u, ir_mod)
           /\ AboveKink(config, u, ir_mod) \in Nat
           /\ AboveKink(config, u, ir_mod) <= AboveKink(config, v, ir_mod)
  <1> DEFINE width == Scalar7 - Kink
             share(w) == DivCeil(w - Kink, width, Scalar7)
             part(w) == MulCeil(share(w), config.r_three, Scalar7)
             top == config.r_two + config.r_one + config.r_base
  <1>1. /\ width \in Nat \ {0} /\ u - Kink \in Nat /\ v - Kink \in Nat
        /\ u - Kink <= v - Kink
    BY Scales
  <1>2. share(u) \in Nat /\ share(v) \in Nat /\ share(u) <= share(v)
    <2> HIDE DEF width
    <2> QED BY <1>1, DivCeilMono, Scales
  <1>3. part(u) \in Nat /\ part(v) \in Nat /\ part(u) <= part(v)
    <2> HIDE DEF share
    <2> QED BY <1>2, MulCeilBounds, MulCeilMono, ConfigType, Scales
  <1>4. top \in Nat
    BY ConfigType
  <1>5. /\ MulCeil(ir_mod, top, Scalar9) \in Nat
        /\ MulCeil(ir_mod, top, Scalar9) = MulCeil(top, ir_mod, Scalar9)
    <2> HIDE DEF top
    <2> QED BY <1>4, MulCeilBounds, MulCeilCommutes, ConfigType, Scales
  <1> HIDE DEF part, top
  <1>6. /\ MulCeil(top, ir_mod, Scalar9) <= part(u) + MulCeil(ir_mod, top, Scalar9)
        /\ part(u) + MulCeil(ir_mod, top, Scalar9) \in Nat
        /\ part(u) + MulCeil(ir_mod, top, Scalar9) <= part(v) + MulCeil(ir_mod, top, Scalar9)
    BY <1>3, <1>5
  <1> QED BY <1>6 DEF AboveKink, part, top

\* The slopes meet in order, so that the curve as a whole does not fall; it
\* starts above zero.
LEMMA CurveMono ==
    ASSUME TypeOK, NEW u \in Nat \ {0}, NEW v \in Nat, u <= v
    PROVE  /\ CurIr(config, u, ir_mod) \in Nat
           /\ CurIr(config, u, ir_mod) > 0
           /\ CurIr(config, u, ir_mod) <= CurIr(config, v, ir_mod)
  <1> DEFINE one == MulCeil(config.r_one + config.r_base, ir_mod, Scalar9)
             two == MulCeil(config.r_two + config.r_one + config.r_base, ir_mod, Scalar9)
  <1>1. one \in Nat /\ two \in Nat /\ one > 0 /\ one <= two
    <2> DEFINE low == config.r_one + config.r_base
               high == config.r_two + config.r_one + config.r_base
    <2>1. low \in Nat \ {0} /\ high \in Nat /\ low <= high
      BY ConfigType
    <2> HIDE DEF low, high
    <2>2. MulCeil(low, ir_mod, Scalar9) > 0
      BY <2>1, ScaledPositive
    <2>3. /\ MulCeil(low, ir_mod, Scalar9) \in Nat /\ MulCeil(high, ir_mod, Scalar9) \in Nat
          /\ MulCeil(low, ir_mod, Scalar9) <= MulCeil(high, ir_mod, Scalar9)
      BY <2>1, ConfigType, Scales, MulCeilBounds, MulCeilMono
    <2> QED BY <2>2, <2>3 DEF low, high
  <1> HIDE DEF one, two
  <1>2. config.util \in Nat /\ Kink \in Nat /\ config.util <= Kink /\ v \in Nat \ {0}
    BY ConfigType, Scales DEF ValidMetadata
  <1>3. ASSUME NEW w \in Nat \ {0}
        PROVE  /\ w <= config.util => /\ CurIr(config, w, ir_mod) \in Nat
                                      /\ CurIr(config, w, ir_mod) > 0
                                      /\ CurIr(config, w, ir_mod) <= one
               /\ config.util < w /\ w <= Kink
                    => /\ CurIr(config, w, ir_mod) \in Nat
                       /\ one <= CurIr(config, w, ir_mod)
                       /\ CurIr(config, w, ir_mod) <= two
               /\ Kink < w => /\ CurIr(config, w, ir_mod) \in Nat
                              /\ two <= CurIr(config, w, ir_mod)
    <2>1. CASE w <= config.util
      BY <1>2, <2>1, FirstSlope DEF CurIr, one
    <2>2. CASE config.util < w /\ w <= Kink
      BY <1>2, <2>2, SecondSlope DEF CurIr, one, two
    <2>3. CASE Kink < w
      BY <1>2, <2>3, ThirdSlope DEF CurIr, two
    <2> QED BY <1>2, <2>1, <2>2, <2>3
  <1>4. CASE v <= config.util
    BY <1>2, <1>3, <1>4, FirstSlope DEF CurIr
  <1>5. CASE config.util < u /\ v <= Kink
    BY <1>1, <1>2, <1>3, <1>5, SecondSlope DEF CurIr
  <1>6. CASE Kink < u
    BY <1>1, <1>2, <1>3, <1>6, ThirdSlope DEF CurIr
  <1>7. CASE u <= config.util /\ config.util < v
    BY <1>1, <1>2, <1>3, <1>7
  <1>8. CASE config.util < u /\ u <= Kink /\ Kink < v
    BY <1>1, <1>2, <1>3, <1>8
  <1> QED BY <1>2, <1>4, <1>5, <1>6, <1>7, <1>8

\* No loan is free, and a more utilized reserve never charges less, across the
\* three slopes.
THEOREM RateMonotoneProved == Spec => []RateMonotone
  <1>1. TypeOK => RateMonotone
    BY CurveMono, InterestRateAssumption DEF RateMonotone
  <1> QED BY <1>1, TypeCorrect, PTL

\* Debt never shrinks by itself, whatever the clock says, and never grows less
\* for a longer delay.
THEOREM DebtNeverShrinksProved == Spec => []DebtNeverShrinks
  <1>1. TypeOK => DebtNeverShrinks
    <2> SUFFICES ASSUME TypeOK, NEW u \in Utilizations \ {0},
                        NEW d \in Delays, NEW e \in Delays
                 PROVE  /\ Accrual(config, u, ir_mod, d) >= Scalar9
                        /\ 0 <= d /\ d <= e => Accrual(config, u, ir_mod, d)
                                                 <= Accrual(config, u, ir_mod, e)
      BY DEF DebtNeverShrinks
    <2> DEFINE rate == 100 * CurIr(config, u, ir_mod)
               years(x) == (Elapsed(x) * Scalar9) \div SecondsPerYear
    <2>1. /\ d \in Int /\ e \in Int /\ Elapsed(d) \in Nat /\ Elapsed(e) \in Nat
          /\ 0 <= d /\ d <= e => Elapsed(d) <= Elapsed(e)
      BY InterestRateAssumption DEF Elapsed
    <2>2. rate \in Nat
      BY CurveMono, InterestRateAssumption
    <2>3. Elapsed(d) * Scalar9 \in Nat /\ Elapsed(e) * Scalar9 \in Nat
      BY <2>1, Scales, ProductNat
    <2>4. years(d) \in Nat /\ years(e) \in Nat
      BY <2>1, <2>3, InterestRateAssumption, Quotient
    <2>5. 0 <= d /\ d <= e => years(d) <= years(e)
      BY <2>1, <2>3, InterestRateAssumption, Scales, ProductGrows, QuotientMono
    <2> HIDE DEF rate, years
    <2>6. /\ MulCeil(years(d), rate, Scalar9) \in Nat
          /\ MulCeil(years(e), rate, Scalar9) \in Nat
          /\ 0 <= d /\ d <= e
               => MulCeil(years(d), rate, Scalar9) <= MulCeil(years(e), rate, Scalar9)
      BY <2>2, <2>4, <2>5, Scales, MulCeilBounds, MulCeilMono
    <2>7. /\ Accrual(config, u, ir_mod, d) = Scalar9 + MulCeil(years(d), rate, Scalar9)
          /\ Accrual(config, u, ir_mod, e) = Scalar9 + MulCeil(years(e), rate, Scalar9)
      BY DEF Accrual, rate, years
    <2> QED BY <2>6, <2>7, Scales
  <1> QED BY <1>1, TypeCorrect, PTL
=============================================================================
