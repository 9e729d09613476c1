------------------------- MODULE ArithmeticProofs -------------------------
(***************************************************************************)
(* What rounding down and up bounds and preserves, for every scale; and    *)
(* the sum of a function over a finite domain: it exists, and follows the  *)
(* changes of the function. The community modules define it by recursion   *)
(* on sets, through an element chosen from each.                           *)
(***************************************************************************)
EXTENDS FixedPoint, Functions, FiniteSetTheorems, TLAPS

\* The whole part of a natural quotient.
LEMMA Quotient ==
    ASSUME NEW n \in Nat, NEW d \in Nat \ {0}
    PROVE  /\ n \div d \in Nat
           /\ (n \div d) * d <= n
           /\ n < (n \div d + 1) * d
  OBVIOUS
\* The same of a quotient rounded up, which is written with two negations.
LEMMA QuotientUp ==
    ASSUME NEW n \in Nat, NEW d \in Nat \ {0}
    PROVE  /\ -((-n) \div d) \in Nat
           /\ n <= (-((-n) \div d)) * d
           /\ (-((-n) \div d)) * d < n + d
  OBVIOUS

\* Natural numbers are closed under products.
LEMMA ProductNat == ASSUME NEW x \in Nat, NEW y \in Nat PROVE x * y \in Nat
  OBVIOUS
\* A product grows with either factor.
LEMMA ProductGrows ==
    ASSUME NEW x \in Int, NEW y \in Int, NEW z \in Nat, x <= y
    PROVE  x * z <= y * z /\ z * x <= z * y
  OBVIOUS
\* A strict order of products is that of the factors.
LEMMA ProductCancels ==
    ASSUME NEW x \in Int, NEW y \in Int, NEW z \in Nat \ {0}, x * z < y * z
    PROVE  x < y
  OBVIOUS

\* The bounds of a product scaled down.
LEMMA MulFloorBounds ==
    ASSUME NEW x \in Nat, NEW y \in Nat, NEW d \in Nat \ {0}
    PROVE  /\ MulFloor(x, y, d) \in Nat
           /\ MulFloor(x, y, d) * d <= x * y
           /\ x * y < (MulFloor(x, y, d) + 1) * d
  BY ProductNat, Quotient DEF MulFloor
\* The bounds of a product scaled down and rounded up.
LEMMA MulCeilBounds ==
    ASSUME NEW x \in Nat, NEW y \in Nat, NEW d \in Nat \ {0}
    PROVE  /\ MulCeil(x, y, d) \in Nat
           /\ x * y <= MulCeil(x, y, d) * d
           /\ MulCeil(x, y, d) * d < x * y + d
  BY ProductNat, QuotientUp DEF MulCeil

\* The bounds of a quotient scaled up.
LEMMA DivFloorBounds ==
    ASSUME NEW x \in Nat, NEW y \in Nat \ {0}, NEW d \in Nat
    PROVE  /\ DivFloor(x, y, d) \in Nat
           /\ DivFloor(x, y, d) * y <= x * d
           /\ x * d < (DivFloor(x, y, d) + 1) * y
  BY ProductNat, Quotient DEF DivFloor
\* The bounds of a quotient scaled up and rounded up.
LEMMA DivCeilBounds ==
    ASSUME NEW x \in Nat, NEW y \in Nat \ {0}, NEW d \in Nat
    PROVE  /\ DivCeil(x, y, d) \in Nat
           /\ x * d <= DivCeil(x, y, d) * y
           /\ DivCeil(x, y, d) * y < x * d + y
  BY ProductNat, QuotientUp DEF DivCeil

\* A floor is the largest integer below.
LEMMA FloorLargest ==
    ASSUME NEW q \in Int, NEW p \in Int, NEW n \in Int, NEW d \in Nat \ {0},
           p * d <= n, n < (q + 1) * d
    PROVE  p <= q
  <1>1. p * d < (q + 1) * d
    <2>1. p * d \in Int /\ (q + 1) * d \in Int
      OBVIOUS
    <2> QED BY <2>1
  <1>2. p < q + 1
    BY <1>1, ProductCancels
  <1> QED BY <1>2
\* A ceiling is the smallest integer above.
LEMMA CeilSmallest ==
    ASSUME NEW q \in Int, NEW p \in Int, NEW n \in Int, NEW d \in Nat \ {0},
           n <= p * d, q * d < n + d
    PROVE  q <= p
  <1>1. q * d < (p + 1) * d
    <2>1. p * d \in Int /\ q * d \in Int /\ (p + 1) * d = p * d + d
      OBVIOUS
    <2> QED BY <2>1
  <1>2. q < p + 1
    BY <1>1, ProductCancels
  <1> QED BY <1>2

\* Rounding keeps the order of products.
LEMMA MulFloorMono ==
    ASSUME NEW x \in Nat, NEW y \in Nat, NEW z \in Nat, NEW d \in Nat \ {0}, x <= y
    PROVE  MulFloor(x, z, d) <= MulFloor(y, z, d)
  <1> DEFINE p == MulFloor(x, z, d)
             q == MulFloor(y, z, d)
             n == y * z
  <1>1. x * z <= n /\ x * z \in Nat /\ n \in Nat
    BY ProductGrows, ProductNat
  <1>2. p \in Nat /\ p * d <= x * z
    BY MulFloorBounds
  <1>3. q \in Nat /\ n < (q + 1) * d
    BY MulFloorBounds
  <1> HIDE DEF p, q, n
  <1>4. p * d <= n
    <2>1. p * d \in Nat
      BY <1>2, ProductNat
    <2> QED BY <1>1, <1>2, <2>1
  <1>5. p <= q
    BY <1>1, <1>2, <1>3, <1>4, FloorLargest
  <1> QED BY <1>5 DEF p, q
\* The same of a product rounded up.
LEMMA MulCeilMono ==
    ASSUME NEW x \in Nat, NEW y \in Nat, NEW z \in Nat, NEW d \in Nat \ {0}, x <= y
    PROVE  MulCeil(x, z, d) <= MulCeil(y, z, d)
  <1> DEFINE q == MulCeil(x, z, d)
             p == MulCeil(y, z, d)
             n == x * z
  <1>1. n <= y * z /\ n \in Nat /\ y * z \in Nat
    BY ProductGrows, ProductNat
  <1>2. q \in Nat /\ q * d < n + d
    BY MulCeilBounds
  <1>3. p \in Nat /\ y * z <= p * d
    BY MulCeilBounds
  <1> HIDE DEF p, q, n
  <1>4. n <= p * d
    <2>1. p * d \in Nat
      BY <1>3, ProductNat
    <2> QED BY <1>1, <1>3, <2>1
  <1>5. q <= p
    BY <1>1, <1>2, <1>3, <1>4, CeilSmallest
  <1> QED BY <1>5 DEF p, q

\* The factors of a product rounded up may be exchanged.
LEMMA MulCeilCommutes ==
    ASSUME NEW x \in Nat, NEW y \in Nat, NEW d \in Nat \ {0}
    PROVE  MulCeil(x, y, d) = MulCeil(y, x, d)
  <1>1. x * y = y * x
    OBVIOUS
  <1> QED BY <1>1 DEF MulCeil

\* The quotient of a larger dividend is not smaller.
LEMMA QuotientMono ==
    ASSUME NEW m \in Nat, NEW n \in Nat, NEW d \in Nat \ {0}, m <= n
    PROVE  m \div d <= n \div d
  <1> DEFINE p == m \div d
             q == n \div d
  <1>1. p \in Nat /\ q \in Nat /\ p * d <= m /\ n < (q + 1) * d
    BY Quotient
  <1> HIDE DEF p, q
  <1>2. p * d \in Nat
    BY <1>1, ProductNat
  <1>3. p * d <= n
    BY <1>1, <1>2
  <1>4. p <= q
    BY <1>1, <1>3, FloorLargest
  <1> QED BY <1>4 DEF p, q
\* A number over itself is the whole scale.
LEMMA WholeShare ==
    ASSUME NEW x \in Nat, NEW y \in Nat \ {0}
    PROVE  DivCeil(y, y, x) = x /\ MulCeil(y, x, y) = x
  <1> DEFINE c == MulCeil(y, x, y)
  <1>1. c \in Nat /\ y * x <= c * y /\ c * y < y * x + y
    BY MulCeilBounds
  <1> HIDE DEF c
  <1>2. y * x = x * y /\ (x + 1) * y = x * y + y /\ x * y \in Nat /\ c * y \in Nat
    BY <1>1
  <1>3. c * y < (x + 1) * y
    BY <1>1, <1>2
  <1>4. c < x + 1
    BY <1>1, <1>3, ProductCancels
  <1>5. x * y < (c + 1) * y
    BY <1>1, <1>2
  <1>6. x < c + 1
    BY <1>1, <1>5, ProductCancels
  <1>7. c = x
    BY <1>1, <1>4, <1>6
  <1>8. DivCeil(y, y, x) = c
    BY DEF DivCeil, MulCeil, c
  <1> QED BY <1>7, <1>8 DEF c
\* A quotient rounded up keeps the order of its dividends.
LEMMA DivCeilMono ==
    ASSUME NEW x \in Nat, NEW y \in Nat, NEW z \in Nat \ {0}, NEW d \in Nat, x <= y
    PROVE  /\ DivCeil(x, z, d) \in Nat /\ DivCeil(y, z, d) \in Nat
           /\ DivCeil(x, z, d) <= DivCeil(y, z, d)
  <1>1. DivCeil(x, z, d) = MulCeil(x, d, z) /\ DivCeil(y, z, d) = MulCeil(y, d, z)
    BY DEF DivCeil, MulCeil
  <1> QED BY <1>1, MulCeilMono, MulCeilBounds

\* Something of at most the worth of n adds at most n to a worth rounded down.
LEMMA FloorAdds ==
    ASSUME NEW x \in Nat, NEW y \in Nat, NEW n \in Nat, NEW rate \in Nat,
           NEW d \in Nat \ {0}, y * rate <= n * d
    PROVE  MulFloor(x + y, rate, d) <= MulFloor(x, rate, d) + n
  <1> DEFINE p == MulFloor(x + y, rate, d)
             q == MulFloor(x, rate, d)
  <1>1. p \in Nat /\ p * d <= (x + y) * rate
    <2>1. x + y \in Nat
      OBVIOUS
    <2> QED BY <2>1, MulFloorBounds
  <1>2. q \in Nat /\ x * rate < (q + 1) * d
    BY MulFloorBounds
  <1> HIDE DEF p, q
  <1>3. /\ (x + y) * rate = x * rate + y * rate
        /\ (q + n + 1) * d = (q + 1) * d + n * d
        /\ x * rate \in Nat /\ y * rate \in Nat /\ n * d \in Nat /\ (q + 1) * d \in Nat
        /\ p * d \in Nat
    BY <1>1, <1>2
  <1>4. p * d < (q + n + 1) * d
    BY <1>1, <1>2, <1>3
  <1>5. p < q + n + 1
    BY <1>1, <1>2, <1>4, ProductCancels
  <1>6. p <= q + n
    BY <1>1, <1>2, <1>5
  <1> QED BY <1>6 DEF p, q

\* Taking away at least the worth of n lowers a worth rounded down by n or more.
LEMMA FloorTakes ==
    ASSUME NEW x \in Nat, NEW y \in Nat, NEW n \in Nat, NEW rate \in Nat,
           NEW d \in Nat \ {0}, y <= x, n * d <= y * rate
    PROVE  MulFloor(x - y, rate, d) + n <= MulFloor(x, rate, d)
  <1> DEFINE p == MulFloor(x - y, rate, d)
             q == MulFloor(x, rate, d)
  <1>1. x - y \in Nat
    OBVIOUS
  <1>2. p \in Nat /\ p * d <= (x - y) * rate
    BY <1>1, MulFloorBounds
  <1>3. q \in Nat /\ x * rate < (q + 1) * d
    BY MulFloorBounds
  <1> HIDE DEF p, q
  <1>4. /\ (x - y) * rate = x * rate - y * rate
        /\ (p + n) * d = p * d + n * d
        /\ x * rate \in Nat /\ y * rate \in Nat /\ n * d \in Nat /\ (q + 1) * d \in Nat
        /\ p * d \in Nat
    BY <1>2, <1>3
  <1>5. (p + n) * d < (q + 1) * d
    BY <1>2, <1>3, <1>4
  <1>6. p + n < q + 1
    BY <1>2, <1>3, <1>5, ProductCancels
  <1>7. p + n <= q
    BY <1>2, <1>3, <1>6
  <1> QED BY <1>7 DEF p, q

\* The same of a worth rounded up.
LEMMA CeilAdds ==
    ASSUME NEW x \in Nat, NEW y \in Nat, NEW n \in Nat, NEW rate \in Nat,
           NEW d \in Nat \ {0}, n * d <= y * rate
    PROVE  MulCeil(x, rate, d) + n <= MulCeil(x + y, rate, d)
  <1> DEFINE p == MulCeil(x, rate, d)
             q == MulCeil(x + y, rate, d)
  <1>1. p \in Nat /\ p * d < x * rate + d
    BY MulCeilBounds
  <1>2. q \in Nat /\ (x + y) * rate <= q * d
    <2>1. x + y \in Nat
      OBVIOUS
    <2> QED BY <2>1, MulCeilBounds
  <1> HIDE DEF p, q
  <1>3. /\ (x + y) * rate = x * rate + y * rate
        /\ (p + n) * d = p * d + n * d /\ (q + 1) * d = q * d + d
        /\ x * rate \in Nat /\ y * rate \in Nat /\ n * d \in Nat /\ p * d \in Nat
        /\ q * d \in Nat
    BY <1>1, <1>2
  <1>4. (p + n) * d < (q + 1) * d
    BY <1>1, <1>2, <1>3
  <1>5. p + n < q + 1
    BY <1>1, <1>2, <1>4, ProductCancels
  <1>6. p + n <= q
    BY <1>1, <1>2, <1>5
  <1> QED BY <1>6 DEF p, q
\* Taking away at most the worth of n lowers a worth rounded up by n at most.
LEMMA CeilTakes ==
    ASSUME NEW x \in Nat, NEW y \in Nat, NEW n \in Nat, NEW rate \in Nat,
           NEW d \in Nat \ {0}, y <= x, y * rate <= n * d
    PROVE  MulCeil(x, rate, d) <= MulCeil(x - y, rate, d) + n
  <1> DEFINE p == MulCeil(x, rate, d)
             q == MulCeil(x - y, rate, d)
  <1>1. p \in Nat /\ p * d < x * rate + d
    BY MulCeilBounds
  <1>2. x - y \in Nat
    OBVIOUS
  <1>3. q \in Nat /\ (x - y) * rate <= q * d
    BY <1>2, MulCeilBounds
  <1> HIDE DEF p, q
  <1>4. /\ (x - y) * rate = x * rate - y * rate
        /\ (q + n + 1) * d = q * d + n * d + d
        /\ x * rate \in Nat /\ y * rate \in Nat /\ n * d \in Nat /\ p * d \in Nat
        /\ q * d \in Nat
    BY <1>1, <1>3
  <1>5. p * d < (q + n + 1) * d
    BY <1>1, <1>3, <1>4
  <1>6. p < q + n + 1
    BY <1>1, <1>3, <1>5, ProductCancels
  <1>7. p <= q + n
    BY <1>1, <1>3, <1>6
  <1> QED BY <1>7 DEF p, q
-----------------------------------------------------------------------------
Total(f) == FoldFunction(+, 0, f)

Pick(s) == CHOOSE x \in s : TRUE
Rest(s) == s \ {Pick(s)}

\* g sums f over every subset of S.
Sums(g, f, S) ==
    g = [s \in SUBSET S |-> IF s = {} THEN 0 ELSE f[Pick(s)] + g[Rest(s)]]

\* What holds of a set once it holds of its strict subsets holds of every subset of
\* a finite set.
LEMMA SetInduction ==
    ASSUME NEW S, IsFiniteSet(S), NEW T,
           \A s \in SUBSET S : (\A t \in SUBSET s : t # s => t \in T) => s \in T
    PROVE  SUBSET S \subseteq T
  <1> DEFINE Bad == (SUBSET S) \ T
             R == StrictSubsetOrdering(S)
  <1> SUFFICES ASSUME Bad # {} PROVE FALSE
    OBVIOUS
  <1>1. Bad \subseteq FiniteSubsetsOf(S)
    BY FS_Subset DEF FiniteSubsetsOf
  <1>2. IsWellFoundedOn(R, FiniteSubsetsOf(S))
    BY FS_StrictSubsetOrderingWellFounded
  <1> HIDE DEF Bad, R
  <1>3. PICK s \in Bad : \A t \in Bad : <<t, s>> \notin R
    BY <1>1, <1>2, WFMin
  <1>4. \A t \in SUBSET s : t # s => t \in T
    BY <1>3 DEF Bad, R, StrictSubsetOrdering
  <1> QED BY <1>3, <1>4 DEF Bad

\* What is left after a pick is a strict subset.
LEMMA Picked ==
    ASSUME NEW s, s # {}
    PROVE  Pick(s) \in s /\ Rest(s) \in SUBSET s /\ Rest(s) # s
  <1>1. Pick(s) \in s
    BY DEF Pick
  <1> QED BY <1>1 DEF Rest

\* Two sums of f agree where both are defined.
LEMMA SumsAgree ==
    ASSUME NEW f, NEW S, NEW U, NEW g, NEW h, NEW s,
           IsFiniteSet(s), s \subseteq S, s \subseteq U, Sums(g, f, S), Sums(h, f, U)
    PROVE  g[s] = h[s]
  <1> DEFINE T == {t \in SUBSET s : g[t] = h[t]}
  <1>1. ASSUME NEW t \in SUBSET s, \A u \in SUBSET t : u # t => u \in T
        PROVE  t \in T
    <2>0. t \in SUBSET S /\ t \in SUBSET U
      OBVIOUS
    <2>1. CASE t = {}
      BY <2>0, <2>1 DEF Sums
    <2>2. CASE t # {}
      <3>1. Rest(t) \in T
        BY <1>1, <2>2, Picked
      <3>2. g[t] = f[Pick(t)] + g[Rest(t)] /\ h[t] = f[Pick(t)] + h[Rest(t)]
        BY <2>0, <2>2 DEF Sums
      <3> QED BY <3>1, <3>2
    <2> QED BY <2>1, <2>2
  <1> HIDE DEF T
  <1>2. SUBSET s \subseteq T
    BY <1>1, SetInduction
  <1> QED BY <1>2 DEF T

\* Every function has a sum over the subsets of a finite set.
LEMMA SumsExist ==
    ASSUME NEW f, NEW S, IsFiniteSet(S)
    PROVE  \E g : Sums(g, f, S)
  <1> DEFINE T == {s \in SUBSET S : \E g : Sums(g, f, s)}
  <1>1. ASSUME NEW s \in SUBSET S, \A t \in SUBSET s : t # s => t \in T
        PROVE  s \in T
    <2> DEFINE sum(t) == CHOOSE h : Sums(h, f, t)
               below(t) == IF t = {} THEN 0 ELSE f[Pick(t)] + sum(Rest(t))[Rest(t)]
               g == [t \in SUBSET s |-> below(t)]
    <2>1. \A t \in SUBSET s : t # s => Sums(sum(t), f, t)
      BY <1>1
    <2> HIDE DEF sum
    <2>2. ASSUME NEW t \in SUBSET s, t # s PROVE g[t] = sum(t)[t]
      <3>1. g[t] = below(t)
        OBVIOUS
      <3>2. Sums(sum(t), f, t)
        BY <2>1, <2>2
      <3>3. CASE t = {}
        BY <3>1, <3>2, <3>3 DEF Sums
      <3>4. CASE t # {}
        <4>1. Rest(t) \in SUBSET t /\ Rest(t) # t
          BY <3>4, Picked
        <4>2. Rest(t) \in SUBSET s /\ Rest(t) # s
          BY <2>2, <4>1
        <4>3. Sums(sum(Rest(t)), f, Rest(t))
          BY <2>1, <4>2
        <4>4. IsFiniteSet(Rest(t))
          BY <4>2, FS_Subset
        <4>5. sum(Rest(t))[Rest(t)] = sum(t)[Rest(t)]
          BY <3>2, <4>1, <4>3, <4>4, SumsAgree
        <4>6. sum(t)[t] = f[Pick(t)] + sum(t)[Rest(t)]
          BY <3>2, <3>4 DEF Sums
        <4> QED BY <3>1, <3>4, <4>5, <4>6
      <3> QED BY <3>3, <3>4
    <2>3. ASSUME NEW t \in SUBSET s
          PROVE  g[t] = IF t = {} THEN 0 ELSE f[Pick(t)] + g[Rest(t)]
      <3>1. g[t] = below(t)
        OBVIOUS
      <3>2. CASE t # {}
        <4>1. Rest(t) \in SUBSET t /\ Rest(t) # t
          BY <3>2, Picked
        <4>2. Rest(t) \in SUBSET s /\ Rest(t) # s
          BY <4>1
        <4>3. g[Rest(t)] = sum(Rest(t))[Rest(t)]
          BY <2>2, <4>2
        <4> QED BY <3>1, <3>2, <4>3
      <3> QED BY <3>1, <3>2
    <2>4. g = [t \in SUBSET s |-> g[t]]
      OBVIOUS
    <2> HIDE DEF g
    <2>5. g = [t \in SUBSET s |-> IF t = {} THEN 0 ELSE f[Pick(t)] + g[Rest(t)]]
      BY <2>3, <2>4
    <2> QED BY <2>5 DEF Sums
  <1> HIDE DEF T
  <1>2. SUBSET S \subseteq T
    BY <1>1, SetInduction
  <1> QED BY <1>2 DEF T

\* The total of f is what any sum of f gives for the whole domain.
LEMMA TotalSums ==
    ASSUME NEW f, IsFiniteSet(DOMAIN f)
    PROVE  \E g : Sums(g, f, DOMAIN f) /\ Total(f) = g[DOMAIN f]
  <1> DEFINE g == CHOOSE g : Sums(g, f, DOMAIN f)
  <1>1. Sums(g, f, DOMAIN f)
    BY SumsExist
  <1>2. Total(f) = g[DOMAIN f]
    BY DEF Total, FoldFunction, FoldFunctionOnSet, MapThenFoldSet, Sums, Pick, Rest
  <1> QED BY <1>1, <1>2
-----------------------------------------------------------------------------
\* A sum of naturals is a natural, and no less than any of them.
LEMMA SumsNat ==
    ASSUME NEW S, IsFiniteSet(S), NEW f \in [S -> Nat], NEW g, Sums(g, f, S)
    PROVE  \A s \in SUBSET S : g[s] \in Nat /\ \A x \in s : f[x] <= g[s]
  <1> DEFINE T == {s \in SUBSET S : g[s] \in Nat /\ \A x \in s : f[x] <= g[s]}
  <1>1. ASSUME NEW s \in SUBSET S, \A t \in SUBSET s : t # s => t \in T
        PROVE  s \in T
    <2>1. CASE s = {}
      BY <2>1 DEF Sums
    <2>2. CASE s # {}
      <3>1. /\ Pick(s) \in s /\ Rest(s) \in SUBSET s /\ Rest(s) # s
            /\ \A x \in s : x = Pick(s) \/ x \in Rest(s)
        BY <2>2, Picked DEF Rest
      <3>2. Rest(s) \in T
        BY <1>1, <3>1
      <3>3. g[s] = f[Pick(s)] + g[Rest(s)] /\ f[Pick(s)] \in Nat
        BY <2>2, <3>1 DEF Sums
      <3>4. g[Rest(s)] \in Nat /\ g[s] \in Nat
        BY <3>2, <3>3
      <3>5. ASSUME NEW x \in s PROVE f[x] <= g[s]
        <4>1. CASE x = Pick(s)
          BY <3>3, <3>4, <4>1
        <4>2. CASE x \in Rest(s)
          <5>1. f[x] <= g[Rest(s)] /\ f[x] \in Nat
            BY <3>1, <3>2, <4>2
          <5> QED BY <3>3, <3>4, <5>1
        <4> QED BY <3>1, <4>1, <4>2
      <3> QED BY <3>4, <3>5
    <2> QED BY <2>1, <2>2
  <1> HIDE DEF T
  <1>2. SUBSET S \subseteq T
    BY <1>1, SetInduction
  <1> QED BY <1>2 DEF T

\* A sum follows the change of one value.
LEMMA SumsFollow ==
    ASSUME NEW S, IsFiniteSet(S), NEW f \in [S -> Nat], NEW h \in [S -> Nat],
           NEW x \in S, \A y \in S \ {x} : h[y] = f[y],
           NEW g, Sums(g, f, S), NEW k, Sums(k, h, S)
    PROVE  \A s \in SUBSET S : k[s] = g[s] + (IF x \in s THEN h[x] - f[x] ELSE 0)
  <1> DEFINE T == {s \in SUBSET S : k[s] = g[s] + (IF x \in s THEN h[x] - f[x] ELSE 0)}
  <1>1. ASSUME NEW s \in SUBSET S, \A t \in SUBSET s : t # s => t \in T
        PROVE  s \in T
    <2>1. CASE s = {}
      BY <2>1 DEF Sums
    <2>2. CASE s # {}
      <3>1. /\ Pick(s) \in s /\ Rest(s) \in SUBSET s /\ Rest(s) # s
            /\ Rest(s) = s \ {Pick(s)}
        BY <2>2, Picked DEF Rest
      <3>2. k[Rest(s)] = g[Rest(s)] + (IF x \in Rest(s) THEN h[x] - f[x] ELSE 0)
        BY <1>1, <3>1
      <3>3. g[s] = f[Pick(s)] + g[Rest(s)] /\ k[s] = h[Pick(s)] + k[Rest(s)]
        BY <2>2 DEF Sums
      <3>4. /\ f[Pick(s)] \in Nat /\ h[Pick(s)] \in Nat /\ f[x] \in Nat /\ h[x] \in Nat
            /\ g[Rest(s)] \in Nat
        BY <3>1, SumsNat
      <3>5. CASE Pick(s) = x
        <4>1. k[Rest(s)] = g[Rest(s)]
          BY <3>1, <3>2, <3>4, <3>5
        <4> QED BY <3>1, <3>3, <3>4, <3>5, <4>1
      <3>6. CASE Pick(s) # x
        <4>1. h[Pick(s)] = f[Pick(s)] /\ (x \in s <=> x \in Rest(s))
          BY <3>1, <3>6
        <4> QED BY <3>2, <3>3, <3>4, <4>1
      <3> QED BY <3>5, <3>6
    <2> QED BY <2>1, <2>2
  <1> HIDE DEF T
  <1>2. SUBSET S \subseteq T
    BY <1>1, SetInduction
  <1> QED BY <1>2 DEF T

\* Nothing adds up to nothing.
LEMMA SumsZero ==
    ASSUME NEW S, IsFiniteSet(S), NEW f, \A x \in S : f[x] = 0, NEW g, Sums(g, f, S)
    PROVE  \A s \in SUBSET S : g[s] = 0
  <1> DEFINE T == {s \in SUBSET S : g[s] = 0}
  <1>1. ASSUME NEW s \in SUBSET S, \A t \in SUBSET s : t # s => t \in T
        PROVE  s \in T
    <2>1. CASE s = {}
      BY <2>1 DEF Sums
    <2>2. CASE s # {}
      <3>1. Pick(s) \in S /\ Rest(s) \in T
        BY <1>1, <2>2, Picked
      <3>2. g[s] = f[Pick(s)] + g[Rest(s)]
        BY <2>2 DEF Sums
      <3> QED BY <3>1, <3>2
    <2> QED BY <2>1, <2>2
  <1> HIDE DEF T
  <1>2. SUBSET S \subseteq T
    BY <1>1, SetInduction
  <1> QED BY <1>2 DEF T

\* A sum of naturals grows with them.
LEMMA SumsGrow ==
    ASSUME NEW S, IsFiniteSet(S), NEW f \in [S -> Nat], NEW h \in [S -> Nat],
           \A x \in S : f[x] <= h[x],
           NEW g, Sums(g, f, S), NEW k, Sums(k, h, S)
    PROVE  \A s \in SUBSET S : g[s] <= k[s]
  <1> DEFINE T == {s \in SUBSET S : g[s] <= k[s]}
  <1>1. ASSUME NEW s \in SUBSET S, \A t \in SUBSET s : t # s => t \in T
        PROVE  s \in T
    <2>1. CASE s = {}
      BY <2>1 DEF Sums
    <2>2. CASE s # {}
      <3>1. Pick(s) \in S /\ Rest(s) \in T
        BY <1>1, <2>2, Picked
      <3>2. g[s] = f[Pick(s)] + g[Rest(s)] /\ k[s] = h[Pick(s)] + k[Rest(s)]
        BY <2>2 DEF Sums
      <3>3. g[Rest(s)] \in Nat /\ k[Rest(s)] \in Nat
        BY <3>1, SumsNat
      <3> QED BY <3>1, <3>2, <3>3
    <2> QED BY <2>1, <2>2
  <1> HIDE DEF T
  <1>2. SUBSET S \subseteq T
    BY <1>1, SetInduction
  <1> QED BY <1>2 DEF T

\* The sum of a sum of functions.
LEMMA SumsAdd ==
    ASSUME NEW S, IsFiniteSet(S), NEW f \in [S -> Nat], NEW h \in [S -> Nat],
           NEW e \in [S -> Nat], \A x \in S : e[x] = f[x] + h[x],
           NEW g, Sums(g, f, S), NEW k, Sums(k, h, S), NEW m, Sums(m, e, S)
    PROVE  \A s \in SUBSET S : m[s] = g[s] + k[s]
  <1> DEFINE T == {s \in SUBSET S : m[s] = g[s] + k[s]}
  <1>1. ASSUME NEW s \in SUBSET S, \A t \in SUBSET s : t # s => t \in T
        PROVE  s \in T
    <2>1. CASE s = {}
      BY <2>1 DEF Sums
    <2>2. CASE s # {}
      <3>1. Pick(s) \in S /\ Rest(s) \in T
        BY <1>1, <2>2, Picked
      <3>2. /\ g[s] = f[Pick(s)] + g[Rest(s)] /\ k[s] = h[Pick(s)] + k[Rest(s)]
            /\ m[s] = e[Pick(s)] + m[Rest(s)]
        BY <2>2 DEF Sums
      <3>3. g[Rest(s)] \in Nat /\ k[Rest(s)] \in Nat
        BY <3>1, SumsNat
      <3> QED BY <3>1, <3>2, <3>3
    <2> QED BY <2>1, <2>2
  <1> HIDE DEF T
  <1>2. SUBSET S \subseteq T
    BY <1>1, SetInduction
  <1> QED BY <1>2 DEF T

\* A common factor of a sum.
LEMMA SumsScale ==
    ASSUME NEW S, IsFiniteSet(S), NEW c \in Nat, NEW f \in [S -> Nat],
           NEW e \in [S -> Nat], \A x \in S : e[x] = c * f[x],
           NEW g, Sums(g, f, S), NEW m, Sums(m, e, S)
    PROVE  \A s \in SUBSET S : m[s] = c * g[s]
  <1> DEFINE T == {s \in SUBSET S : m[s] = c * g[s]}
  <1>1. ASSUME NEW s \in SUBSET S, \A t \in SUBSET s : t # s => t \in T
        PROVE  s \in T
    <2>1. CASE s = {}
      BY <2>1 DEF Sums
    <2>2. CASE s # {}
      <3>1. Pick(s) \in S /\ Rest(s) \in T
        BY <1>1, <2>2, Picked
      <3>2. g[s] = f[Pick(s)] + g[Rest(s)] /\ m[s] = c * f[Pick(s)] + c * g[Rest(s)]
        BY <2>2, <3>1 DEF Sums
      <3>3. g[Rest(s)] \in Nat /\ f[Pick(s)] \in Nat
        BY <3>1, SumsNat
      <3>4. \A x, y \in Nat : c * (x + y) = c * x + c * y
        OBVIOUS
      <3> QED BY <3>2, <3>3, <3>4
    <2> QED BY <2>1, <2>2
  <1> HIDE DEF T
  <1>2. SUBSET S \subseteq T
    BY <1>1, SetInduction
  <1> QED BY <1>2 DEF T
-----------------------------------------------------------------------------
\* A total of naturals is a natural, and no less than any of them.
LEMMA TotalNat ==
    ASSUME NEW S, IsFiniteSet(S), NEW f \in [S -> Nat]
    PROVE  Total(f) \in Nat /\ \A x \in S : f[x] <= Total(f)
  <1>1. DOMAIN f = S
    OBVIOUS
  <1>2. PICK g : Sums(g, f, S) /\ Total(f) = g[S]
    BY <1>1, TotalSums
  <1> QED BY <1>2, SumsNat

\* A total follows the change of one value.
LEMMA TotalFollows ==
    ASSUME NEW S, IsFiniteSet(S), NEW f \in [S -> Nat], NEW h \in [S -> Nat],
           NEW x \in S, \A y \in S \ {x} : h[y] = f[y]
    PROVE  Total(h) = Total(f) + h[x] - f[x]
  <1>1. DOMAIN f = S /\ DOMAIN h = S
    OBVIOUS
  <1>2. PICK g : Sums(g, f, S) /\ Total(f) = g[S]
    BY <1>1, TotalSums
  <1>3. PICK k : Sums(k, h, S) /\ Total(h) = k[S]
    BY <1>1, TotalSums
  <1>4. k[S] = g[S] + (h[x] - f[x])
    BY <1>2, <1>3, SumsFollow
  <1> QED BY <1>2, <1>3, <1>4, TotalNat

\* Nothing totals to nothing.
LEMMA TotalZero ==
    ASSUME NEW S, IsFiniteSet(S)
    PROVE  Total([x \in S |-> 0]) = 0
  <1> DEFINE f == [x \in S |-> 0]
  <1>1. DOMAIN f = S /\ \A x \in S : f[x] = 0
    OBVIOUS
  <1> HIDE DEF f
  <1>2. PICK g : Sums(g, f, S) /\ Total(f) = g[S]
    BY <1>1, TotalSums
  <1> QED BY <1>1, <1>2, SumsZero DEF f

\* A total grows with its parts.
LEMMA TotalGrows ==
    ASSUME NEW S, IsFiniteSet(S), NEW f \in [S -> Nat], NEW h \in [S -> Nat],
           \A x \in S : f[x] <= h[x]
    PROVE  Total(f) <= Total(h)
  <1>1. DOMAIN f = S /\ DOMAIN h = S
    OBVIOUS
  <1>2. PICK g : Sums(g, f, S) /\ Total(f) = g[S]
    BY <1>1, TotalSums
  <1>3. PICK k : Sums(k, h, S) /\ Total(h) = k[S]
    BY <1>1, TotalSums
  <1> QED BY <1>2, <1>3, SumsGrow

\* The total of a sum of functions is the sum of their totals.
LEMMA TotalAdds ==
    ASSUME NEW S, IsFiniteSet(S), NEW f \in [S -> Nat], NEW h \in [S -> Nat]
    PROVE  Total([x \in S |-> f[x] + h[x]]) = Total(f) + Total(h)
  <1> DEFINE e == [x \in S |-> f[x] + h[x]]
  <1>1. /\ DOMAIN f = S /\ DOMAIN h = S /\ DOMAIN e = S /\ e \in [S -> Nat]
        /\ \A x \in S : e[x] = f[x] + h[x]
    OBVIOUS
  <1> HIDE DEF e
  <1>2. PICK g : Sums(g, f, S) /\ Total(f) = g[S]
    BY <1>1, TotalSums
  <1>3. PICK k : Sums(k, h, S) /\ Total(h) = k[S]
    BY <1>1, TotalSums
  <1>4. PICK m : Sums(m, e, S) /\ Total(e) = m[S]
    BY <1>1, TotalSums
  <1>5. m[S] = g[S] + k[S]
    BY <1>1, <1>2, <1>3, <1>4, SumsAdd
  <1> QED BY <1>2, <1>3, <1>4, <1>5 DEF e

\* A common factor of a total.
LEMMA TotalScales ==
    ASSUME NEW S, IsFiniteSet(S), NEW c \in Nat, NEW f \in [S -> Nat]
    PROVE  Total([x \in S |-> c * f[x]]) = c * Total(f)
  <1> DEFINE e == [x \in S |-> c * f[x]]
  <1>1. /\ DOMAIN f = S /\ DOMAIN e = S /\ e \in [S -> Nat]
        /\ \A x \in S : e[x] = c * f[x]
    BY ProductNat
  <1> HIDE DEF e
  <1>2. PICK g : Sums(g, f, S) /\ Total(f) = g[S]
    BY <1>1, TotalSums
  <1>3. PICK m : Sums(m, e, S) /\ Total(e) = m[S]
    BY <1>1, TotalSums
  <1>4. m[S] = c * g[S]
    BY <1>1, <1>2, <1>3, SumsScale
  <1> QED BY <1>2, <1>3, <1>4 DEF e

\* A total over S is that over a set S is mapped into one to one, where the values
\* are the same and others are zero.
LEMMA TotalMoves ==
    ASSUME NEW S, IsFiniteSet(S), NEW U, IsFiniteSet(U), NEW f \in [S -> Nat],
           NEW z \in [S -> U], \A x, y \in S : z[x] = z[y] => x = y,
           NEW h \in [U -> Nat], \A x \in S : h[z[x]] = f[x],
           \A u \in U : (\A x \in S : z[x] # u) => h[u] = 0
    PROVE  Total(h) = Total(f)
  <1> DEFINE part(s) == [u \in U |-> IF \E x \in s : z[x] = u THEN h[u] ELSE 0]
  <1>1. PICK g : Sums(g, f, S) /\ Total(f) = g[S]
    <2>1. DOMAIN f = S
      OBVIOUS
    <2> QED BY <2>1, TotalSums
  <1> DEFINE T == {s \in SUBSET S : Total(part(s)) = g[s]}
  <1>2. ASSUME NEW s \in SUBSET S, \A t \in SUBSET s : t # s => t \in T
        PROVE  s \in T
    <2>1. CASE s = {}
      <3>1. part(s) = [u \in U |-> 0]
        BY <2>1
      <3>2. g[s] = 0
        BY <1>1, <2>1 DEF Sums
      <3> QED BY <3>1, <3>2, TotalZero
    <2>2. CASE s # {}
      <3> DEFINE p == Pick(s)
                 old == part(Rest(s))
                 new == part(s)
      <3>1. p \in s /\ Rest(s) \in SUBSET s /\ Rest(s) # s /\ Rest(s) = s \ {p}
        BY <2>2, Picked DEF Rest
      <3>2. Rest(s) \in T
        BY <1>2, <3>1
      <3>3. Total(old) = g[Rest(s)]
        BY <3>2
      <3>4. g[s] = f[p] + g[Rest(s)]
        BY <1>1, <2>2 DEF Sums
      <3>5. old \in [U -> Nat] /\ new \in [U -> Nat] /\ z[p] \in U
        BY <3>1
      <3>6. new[z[p]] = f[p] /\ old[z[p]] = 0
        BY <3>1
      <3>7. \A u \in U \ {z[p]} : new[u] = old[u]
        BY <3>1
      <3>8. g[Rest(s)] \in Nat /\ f[p] \in Nat
        BY <1>1, <3>1, SumsNat
      <3> HIDE DEF p, old, new
      <3>9. Total(new) = Total(old) + new[z[p]] - old[z[p]]
        BY <3>5, <3>7, TotalFollows
      <3>10. Total(new) = g[s]
        BY <3>3, <3>4, <3>6, <3>8, <3>9
      <3> QED BY <3>10 DEF new
    <2> QED BY <2>1, <2>2
  <1> HIDE DEF T
  <1>3. SUBSET S \subseteq T
    BY <1>2, SetInduction
  <1>4. Total(part(S)) = g[S]
    BY <1>3 DEF T
  <1>5. part(S) = h
    <2>1. \A u \in U : part(S)[u] = h[u]
      OBVIOUS
    <2> QED BY <2>1
  <1> QED BY <1>1, <1>4, <1>5

\* A total is that without one value, and the value.
LEMMA TotalWithout ==
    ASSUME NEW U, IsFiniteSet(U), NEW f \in [U -> Nat], NEW n \in U
    PROVE  Total(f) = Total([x \in U \ {n} |-> f[x]]) + f[n]
  <1> DEFINE S == U \ {n}
             g == [x \in S |-> f[x]]
             h == [x \in U |-> IF x = n THEN 0 ELSE f[x]]
             z == [x \in S |-> x]
  <1>1. /\ g \in [S -> Nat] /\ h \in [U -> Nat] /\ z \in [S -> U]
        /\ \A x, y \in S : z[x] = z[y] => x = y
        /\ \A x \in S : h[z[x]] = g[x]
        /\ \A u \in U : (\A x \in S : z[x] # u) => h[u] = 0
    OBVIOUS
  <1>2. h[n] = 0 /\ \A x \in U \ {n} : f[x] = h[x]
    OBVIOUS
  <1>3. IsFiniteSet(S)
    BY FS_Subset
  <1> HIDE DEF g, h, z, S
  <1>4. Total(h) = Total(g)
    BY <1>1, <1>3, TotalMoves
  <1>5. Total(f) = Total(h) + f[n] - h[n]
    BY <1>1, <1>2, TotalFollows
  <1>6. Total(g) \in Nat /\ f[n] \in Nat
    BY <1>1, <1>3, TotalNat
  <1> QED BY <1>2, <1>4, <1>5, <1>6 DEF g, S

\* A function that is zero where another is not defined has the same total.
LEMMA TotalWider ==
    ASSUME NEW U, IsFiniteSet(U), NEW S \in SUBSET U,
           NEW h \in [U -> Nat], \A u \in U \ S : h[u] = 0
    PROVE  Total([x \in S |-> h[x]]) = Total(h)
  <1> DEFINE z == [x \in S |-> x]
             f == [x \in S |-> h[x]]
  <1>1. IsFiniteSet(S)
    BY FS_Subset
  <1>2. z \in [S -> U] /\ \A x \in S : z[x] = x
    OBVIOUS
  <1>3. f \in [S -> Nat] /\ \A x \in S : f[x] = h[x]
    OBVIOUS
  <1> HIDE DEF z, f
  <1>4. \A x, y \in S : z[x] = z[y] => x = y
    BY <1>2
  <1>5. \A x \in S : h[z[x]] = f[x]
    BY <1>2, <1>3
  <1>6. \A u \in U : (\A x \in S : z[x] # u) => h[u] = 0
    BY <1>2
  <1>7. Total(h) = Total(f)
    BY <1>1, <1>2, <1>3, <1>4, <1>5, <1>6, TotalMoves
  <1> QED BY <1>7 DEF f

\* The community modules' sum of a function is its total.
LEMMA SumIsTotal == \A f : SumFunction(f) = Total(f)
  BY DEF SumFunction, SumFunctionOnSet, FoldFunctionOnSet, FoldFunction, Total

\* A total falls by what one value falls by, if no other rises.
LEMMA TotalPays ==
    ASSUME NEW S, IsFiniteSet(S), NEW f \in [S -> Nat], NEW h \in [S -> Nat],
           NEW x \in S, NEW n \in Nat, h[x] + n <= f[x], \A y \in S \ {x} : h[y] <= f[y]
    PROVE  Total(h) + n <= Total(f)
  <1> DEFINE k == [h EXCEPT ![x] = @ + n]
  <1>1. /\ k \in [S -> Nat] /\ k[x] = h[x] + n /\ \A y \in S \ {x} : k[y] = h[y]
        /\ h[x] \in Nat
    OBVIOUS
  <1> HIDE DEF k
  <1>2. Total(k) = Total(h) + k[x] - h[x]
    BY <1>1, TotalFollows
  <1>3. \A y \in S : k[y] <= f[y]
    BY <1>1
  <1>4. Total(k) <= Total(f)
    BY <1>1, <1>3, TotalGrows
  <1>5. Total(h) \in Nat /\ Total(f) \in Nat
    BY TotalNat
  <1> QED BY <1>1, <1>2, <1>4, <1>5

\* Totals of which each value falls by a scaled payment.
LEMMA TotalsPay ==
    ASSUME NEW S, IsFiniteSet(S), NEW c \in Nat,
           NEW f \in [S -> Nat], NEW h \in [S -> Nat], NEW x \in [S -> Nat],
           \A s \in S : h[s] + x[s] * c <= f[s]
    PROVE  Total(h) + Total(x) * c <= Total(f) /\ Total(x) \in Nat
  <1> DEFINE y == [s \in S |-> c * x[s]]
             e == [s \in S |-> h[s] + y[s]]
  <1>1. y \in [S -> Nat] /\ \A s \in S : y[s] = x[s] * c
    <2>1. \A s \in S : c * x[s] \in Nat /\ c * x[s] = x[s] * c
      BY ProductNat
    <2> QED BY <2>1
  <1>2. Total(y) = c * Total(x)
    BY TotalScales
  <1> HIDE DEF y
  <1>3. Total(e) = Total(h) + Total(y)
    BY <1>1, TotalAdds
  <1>4. e \in [S -> Nat] /\ \A s \in S : e[s] <= f[s]
    BY <1>1
  <1> HIDE DEF e
  <1>5. Total(e) <= Total(f)
    BY <1>4, TotalGrows
  <1>6. Total(x) \in Nat
    BY TotalNat
  <1>7. c * Total(x) = Total(x) * c
    BY <1>6
  <1> QED BY <1>2, <1>3, <1>5, <1>6, <1>7

\* The same of totals that grow.
LEMMA TotalsGain ==
    ASSUME NEW S, IsFiniteSet(S), NEW c \in Nat,
           NEW f \in [S -> Nat], NEW h \in [S -> Nat], NEW x \in [S -> Nat],
           \A s \in S : h[s] <= f[s] + x[s] * c
    PROVE  Total(h) <= Total(f) + Total(x) * c /\ Total(x) \in Nat
  <1> DEFINE y == [s \in S |-> c * x[s]]
             e == [s \in S |-> f[s] + y[s]]
  <1>1. y \in [S -> Nat] /\ \A s \in S : y[s] = x[s] * c
    <2>1. \A s \in S : c * x[s] \in Nat /\ c * x[s] = x[s] * c
      BY ProductNat
    <2> QED BY <2>1
  <1>2. Total(y) = c * Total(x)
    BY TotalScales
  <1> HIDE DEF y
  <1>3. Total(e) = Total(f) + Total(y)
    BY <1>1, TotalAdds
  <1>4. e \in [S -> Nat] /\ \A s \in S : h[s] <= e[s]
    BY <1>1
  <1> HIDE DEF e
  <1>5. Total(h) <= Total(e)
    BY <1>4, TotalGrows
  <1>6. Total(x) \in Nat
    BY TotalNat
  <1>7. c * Total(x) = Total(x) * c
    BY <1>6
  <1> QED BY <1>2, <1>3, <1>5, <1>6, <1>7

\* Parts of a whole, each of no more than its share, are together no more.
LEMMA TotalParts ==
    ASSUME NEW S, IsFiniteSet(S), NEW c \in Nat \ {0}, NEW n \in Nat,
           NEW share \in [S -> Nat], Total(share) <= c,
           NEW part \in [S -> Nat], \A s \in S : part[s] * c <= share[s] * n
    PROVE  Total(part) <= n
  <1> DEFINE lower == [s \in S |-> c * part[s]]
             upper == [s \in S |-> n * share[s]]
  <1>1. lower \in [S -> Nat] /\ Total(lower) = c * Total(part)
    <2>1. \A s \in S : c * part[s] \in Nat
      BY ProductNat
    <2> QED BY <2>1, TotalScales
  <1>2. upper \in [S -> Nat] /\ Total(upper) = n * Total(share)
    <2>1. \A s \in S : n * share[s] \in Nat
      BY ProductNat
    <2> QED BY <2>1, TotalScales
  <1>3. \A s \in S : lower[s] <= upper[s]
    <2> SUFFICES ASSUME NEW s \in S PROVE c * part[s] <= n * share[s]
      OBVIOUS
    <2>1. c * part[s] = part[s] * c /\ n * share[s] = share[s] * n
      OBVIOUS
    <2> QED BY <2>1
  <1> HIDE DEF lower, upper
  <1>4. c * Total(part) <= n * Total(share)
    BY <1>1, <1>2, <1>3, TotalGrows
  <1>5. Total(part) \in Nat /\ Total(share) \in Nat
    BY TotalNat
  <1>6. n * Total(share) <= n * c
    BY <1>5, ProductGrows
  <1>7. Total(part) * c <= n * c
    <2>1. /\ c * Total(part) \in Nat /\ n * Total(share) \in Nat /\ n * c \in Nat
          /\ c * Total(part) = Total(part) * c
      BY <1>5, ProductNat
    <2> QED BY <1>4, <1>6, <2>1
  <1> SUFFICES ASSUME n < Total(part) PROVE FALSE
    BY <1>5
  <1>8. n + 1 <= Total(part)
    BY <1>5
  <1>9. (n + 1) * c <= Total(part) * c
    BY <1>5, <1>8, ProductGrows
  <1>10. (n + 1) * c = n * c + c /\ n * c \in Nat /\ Total(part) * c \in Nat
    BY <1>5, ProductNat
  <1> QED BY <1>7, <1>9, <1>10

\* The total of a difference is the difference of the totals, of whatever sign.
LEMMA TotalDiffers ==
    ASSUME NEW S, IsFiniteSet(S), NEW f \in [S -> Nat], NEW h \in [S -> Nat]
    PROVE  Total([x \in S |-> h[x] - f[x]]) = Total(h) - Total(f)
  <1> DEFINE e == [x \in S |-> h[x] - f[x]]
  <1>1. DOMAIN f = S /\ DOMAIN h = S /\ DOMAIN e = S /\ \A x \in S : e[x] = h[x] - f[x]
    OBVIOUS
  <1> HIDE DEF e
  <1>2. PICK g : Sums(g, f, S) /\ Total(f) = g[S]
    BY <1>1, TotalSums
  <1>3. PICK k : Sums(k, h, S) /\ Total(h) = k[S]
    BY <1>1, TotalSums
  <1>4. PICK m : Sums(m, e, S) /\ Total(e) = m[S]
    BY <1>1, TotalSums
  <1> DEFINE T == {s \in SUBSET S : m[s] = k[s] - g[s]}
  <1>5. ASSUME NEW s \in SUBSET S, \A t \in SUBSET s : t # s => t \in T
        PROVE  s \in T
    <2>1. CASE s = {}
      BY <1>2, <1>3, <1>4, <2>1 DEF Sums
    <2>2. CASE s # {}
      <3>1. Pick(s) \in S /\ Rest(s) \in T
        BY <1>5, <2>2, Picked
      <3>2. /\ g[s] = f[Pick(s)] + g[Rest(s)] /\ k[s] = h[Pick(s)] + k[Rest(s)]
            /\ m[s] = e[Pick(s)] + m[Rest(s)]
        BY <1>2, <1>3, <1>4, <2>2 DEF Sums
      <3>3. g[Rest(s)] \in Nat /\ k[Rest(s)] \in Nat
        BY <1>2, <1>3, <3>1, SumsNat
      <3>4. m[Rest(s)] = k[Rest(s)] - g[Rest(s)]
        BY <3>1
      <3> QED BY <1>1, <3>1, <3>2, <3>3, <3>4
    <2> QED BY <2>1, <2>2
  <1> HIDE DEF T
  <1>6. SUBSET S \subseteq T
    BY <1>5, SetInduction
  <1>7. m[S] = k[S] - g[S]
    BY <1>6 DEF T
  <1> QED BY <1>2, <1>3, <1>4, <1>7 DEF e

\* One of each totals to their number.
LEMMA TotalCounts ==
    ASSUME NEW S, IsFiniteSet(S)
    PROVE  Total([x \in S |-> 1]) = Cardinality(S)
  <1> DEFINE f == [x \in S |-> 1]
  <1>1. DOMAIN f = S /\ \A x \in S : f[x] = 1
    OBVIOUS
  <1> HIDE DEF f
  <1>2. PICK g : Sums(g, f, S) /\ Total(f) = g[S]
    BY <1>1, TotalSums
  <1> DEFINE T == {s \in SUBSET S : g[s] = Cardinality(s)}
  <1>3. ASSUME NEW s \in SUBSET S, \A t \in SUBSET s : t # s => t \in T
        PROVE  s \in T
    <2>1. CASE s = {}
      BY <1>2, <2>1, FS_EmptySet DEF Sums
    <2>2. CASE s # {}
      <3>1. Pick(s) \in s /\ Rest(s) \in T
        BY <1>3, <2>2, Picked
      <3>2. g[s] = 1 + g[Rest(s)]
        BY <1>1, <1>2, <2>2, <3>1 DEF Sums
      <3>3. IsFiniteSet(s)
        BY FS_Subset
      <3>4. Cardinality(Rest(s)) = Cardinality(s) - 1 /\ Cardinality(s) \in Nat
        BY <3>1, <3>3, FS_RemoveElement, FS_CardinalityType DEF Rest
      <3> QED BY <3>1, <3>2, <3>4
    <2> QED BY <2>1, <2>2
  <1> HIDE DEF T
  <1>4. SUBSET S \subseteq T
    BY <1>3, SetInduction
  <1>5. g[S] = Cardinality(S)
    BY <1>4 DEF T
  <1> QED BY <1>2, <1>5 DEF f
=============================================================================
