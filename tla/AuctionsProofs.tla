--------------------------- MODULE AuctionsProofs ---------------------------
(***************************************************************************)
(* Auctions for any users, assets, amounts, prices, percentages and        *)
(* interleaving of quotes, fills, submits and ledgers. The invariant says  *)
(* of the draft a submit works on what it says of the quotes, reserves and *)
(* positions in storage; the lemmas on requests, bad debt and the end of a *)
(* submit are those of LendingProofs.                                      *)
(***************************************************************************)
EXTENDS Auctions, LendingProofs

\* What is stored for a key.
Sales == AuctionData \cup {NoAuction}

\* What is left of a quote's lot and bid, which is nothing without a quote.
LotOf(q, x) == IF q = NoAuction THEN 0 ELSE q.lot[x]
BidOf(q, x) == IF q = NoAuction THEN 0 ELSE q.bid[x]

\* The fields of a quote, for the provers.
LEMMA SaleFields ==
    ASSUME NEW q \in Sales, q # NoAuction
    PROVE  /\ q \in AuctionData /\ q.age \in Int /\ -1 <= q.age /\ q.age <= 2 * Ramp
           /\ q.bid \in [Sold -> Nat] /\ q.lot \in [Sold -> Nat]
  BY AuctionsAssumption DEF Sales, AuctionData

\* Whether there is a quote or not, what is left of it is a number.
LEMMA SaleParts ==
    ASSUME NEW q \in Sales, NEW x \in Sold
    PROVE  LotOf(q, x) \in Nat /\ BidOf(q, x) \in Nat
  BY SaleFields DEF LotOf, BidOf

\* The keys of the auctions tell their kinds and users apart.
LEMMA KeysApart ==
    /\ BadDebtSale \in Keys /\ InterestSale \in Keys /\ BadDebtSale # InterestSale
    /\ \A u \in Users : /\ Liquidation(u) \in Keys
                        /\ Liquidation(u) # BadDebtSale /\ Liquidation(u) # InterestSale
                        /\ \A v \in Users : u # v => Liquidation(u) # Liquidation(v)
  <1>1. "user_liquidation" # "bad_debt" /\ "user_liquidation" # "interest"
        /\ "bad_debt" # "interest"
    OBVIOUS
  <1> QED BY <1>1 DEF Keys, Liquidation, BadDebtSale, InterestSale
-----------------------------------------------------------------------------
\* Neither a share nor a modifier is more than the whole.
LEMMA PartOfWhole ==
    ASSUME NEW x \in Nat, NEW m \in 0..Scalar7
    PROVE  /\ MulFloor(x, m, Scalar7) \in Nat /\ MulFloor(x, m, Scalar7) <= x
           /\ MulCeil(x, m, Scalar7) \in Nat /\ MulCeil(x, m, Scalar7) <= x
  <1>1. m \in Nat /\ m <= Scalar7 /\ Scalar7 \in Nat \ {0} /\ x * m \in Nat
    BY PoolConstantsAssumption, ProductNat
  <1>2. x * m <= x * Scalar7 /\ x * Scalar7 \in Nat
    BY <1>1, ProductGrows, ProductNat
  <1>3. MulFloor(x, m, Scalar7) \in Nat /\ MulFloor(x, m, Scalar7) * Scalar7 <= x * m
    BY <1>1, MulFloorBounds
  <1>4. /\ MulCeil(x, m, Scalar7) \in Nat
        /\ MulCeil(x, m, Scalar7) * Scalar7 < x * m + Scalar7
    BY <1>1, MulCeilBounds
  <1>5. MulCeil(x, m, Scalar7) <= x
    BY <1>1, <1>2, <1>4, CeilSmallest
  <1>6. MulFloor(x, m, Scalar7) <= x
    <2> DEFINE f == MulFloor(x, m, Scalar7)
    <2>1. f * Scalar7 < (x + 1) * Scalar7
      <3>1. (x + 1) * Scalar7 = x * Scalar7 + Scalar7 /\ f * Scalar7 \in Nat
        BY <1>1, <1>3, ProductNat
      <3> HIDE DEF f
      <3> QED BY <1>1, <1>2, <1>3, <3>1 DEF f
    <2> HIDE DEF f
    <2>2. f \in Nat
      BY <1>3 DEF f
    <2>3. f < x + 1
      BY <1>1, <2>1, <2>2, ProductCancels
    <2> QED BY <2>2, <2>3 DEF f
  <1> QED BY <1>3, <1>4, <1>5, <1>6

\* Two parts rounded separately cost no less, and buy no more, than their sum.
LEMMA PartsOfSum ==
    ASSUME NEW x \in Nat, NEW y \in Nat, NEW m \in Nat
    PROVE  /\ MulCeil(x + y, m, Scalar7) <= MulCeil(x, m, Scalar7) + MulCeil(y, m, Scalar7)
           /\ MulFloor(x, m, Scalar7) + MulFloor(y, m, Scalar7) <= MulFloor(x + y, m, Scalar7)
  <1>1. Scalar7 \in Nat \ {0} /\ x + y \in Nat
    BY PoolConstantsAssumption
  <1>2. MulCeil(y, m, Scalar7) \in Nat /\ y * m <= MulCeil(y, m, Scalar7) * Scalar7
    BY <1>1, MulCeilBounds
  <1>3. MulCeil(x + y, m, Scalar7) <= MulCeil(x, m, Scalar7) + MulCeil(y, m, Scalar7)
    <2> DEFINE n == MulCeil(y, m, Scalar7)
    <2>1. n \in Nat /\ (x + y) - x = y /\ y <= x + y
      BY <1>2
    <2>2. MulCeil(x + y, m, Scalar7) <= MulCeil((x + y) - y, m, Scalar7) + n
      <3> HIDE DEF n
      <3> QED BY <1>1, <1>2, <2>1, CeilTakes DEF n
    <2>3. (x + y) - y = x
      OBVIOUS
    <2> QED BY <2>2, <2>3
  <1>4. MulFloor(y, m, Scalar7) \in Nat /\ MulFloor(y, m, Scalar7) * Scalar7 <= y * m
    BY <1>1, MulFloorBounds
  <1>5. MulFloor(x, m, Scalar7) + MulFloor(y, m, Scalar7) <= MulFloor(x + y, m, Scalar7)
    <2> DEFINE n == MulFloor(y, m, Scalar7)
    <2>2. MulFloor((x + y) - y, m, Scalar7) + n <= MulFloor(x + y, m, Scalar7)
      <3>1. n \in Nat /\ y <= x + y
        BY <1>4
      <3> HIDE DEF n
      <3> QED BY <1>1, <1>4, <3>1, FloorTakes DEF n
    <2>3. (x + y) - y = x
      OBVIOUS
    <2> QED BY <2>2, <2>3
  <1> QED BY <1>3, <1>5

\* At every age the block modifiers are parts of the whole.
LEMMA Modifiers ==
    ASSUME NEW age \in Int, 0 <= age, age <= 2 * Ramp
    PROVE  LotModifier(age) \in 0..Scalar7 /\ BidModifier(age) \in 0..Scalar7
  <1>1. /\ Ramp \in Nat \ {0} /\ Scalar7 \in Nat \ {0}
        /\ PerBlock \in Nat /\ PerBlock * Ramp <= Scalar7
    BY AuctionsAssumption, PoolConstantsAssumption, Quotient DEF PerBlock
  <1>2. ASSUME NEW n \in Nat, n <= Ramp PROVE n * PerBlock \in 0..Scalar7
    <2>1. n * PerBlock <= Ramp * PerBlock /\ n * PerBlock \in Nat
      BY <1>1, <1>2, ProductGrows, ProductNat
    <2>2. Ramp * PerBlock = PerBlock * Ramp
      BY <1>1
    <2> QED BY <1>1, <2>1, <2>2
  <1>3. LotModifier(age) \in 0..Scalar7
    <2>1. CASE age <= Ramp
      BY <1>1, <1>2, <2>1 DEF LotModifier
    <2> QED BY <1>1, <2>1 DEF LotModifier
  <1>4. BidModifier(age) \in 0..Scalar7
    <2>1. CASE age > Ramp
      <3>1. age - Ramp \in Nat /\ age - Ramp <= Ramp
        BY <1>1, <2>1
      <3>2. (age - Ramp) * PerBlock \in 0..Scalar7
        BY <1>2, <3>1
      <3>3. Scalar7 - (age - Ramp) * PerBlock \in 0..Scalar7
        BY <1>1, <3>2
      <3> QED BY <1>1, <2>1, <3>3 DEF BidModifier
    <2> QED BY <1>1, <2>1 DEF BidModifier
  <1> QED BY <1>3, <1>4

\* So is the share of a percentage, and all of it at a hundred.
LEMMA Shares ==
    ASSUME NEW percent \in 1..Hundred
    PROVE  Share(percent) \in 0..Scalar7 /\ Share(Hundred) = Scalar7
  <1>1. /\ Hundred \in Nat \ {0} /\ Scalar7 \in Nat \ {0} /\ percent \in Nat
        /\ percent <= Hundred
    BY AuctionsAssumption, PoolConstantsAssumption
  <1>2. percent * Scalar7 <= Hundred * Scalar7 /\ percent * Scalar7 \in Nat
        /\ Hundred * Scalar7 \in Nat
    BY <1>1, ProductGrows, ProductNat
  <1>3. Share(percent) \in Nat /\ Share(Hundred) \in Nat /\ Share(percent) <= Share(Hundred)
    BY <1>1, <1>2, Quotient, QuotientMono DEF Share
  <1>4. Share(Hundred) = Scalar7
    <2> DEFINE n == Hundred * Scalar7
               q == n \div Hundred
    <2>1. q \in Nat /\ q * Hundred <= n /\ n < (q + 1) * Hundred
      <3>1. n \in Nat
        BY <1>2
      <3> HIDE DEF n
      <3> QED BY <1>1, <3>1, Quotient
    <2> HIDE DEF q
    <2>2. n = Scalar7 * Hundred /\ n < (Scalar7 + 1) * Hundred
      BY <1>1
    <2> HIDE DEF n
    <2>3. Scalar7 <= q
      <3>1. Scalar7 * Hundred < (q + 1) * Hundred /\ q + 1 \in Int
        BY <2>1, <2>2
      <3>2. Scalar7 < q + 1
        BY <1>1, <3>1, ProductCancels
      <3> QED BY <1>1, <2>1, <3>2
    <2>4. q <= Scalar7
      <3>1. q * Hundred < (Scalar7 + 1) * Hundred
        <4>1. q * Hundred \in Int /\ (Scalar7 + 1) * Hundred \in Int /\ n \in Int
          BY <1>1, <2>1, <2>2
        <4> QED BY <2>1, <2>2, <4>1
      <3>2. q < Scalar7 + 1
        BY <1>1, <2>1, <3>1, ProductCancels
      <3> QED BY <1>1, <2>1, <3>2
    <2> QED BY <1>1, <2>1, <2>3, <2>4 DEF Share, q, n
  <1> QED BY <1>1, <1>3, <1>4

\* A part of an amount is no more than it, and the whole of it all of it.
LEMMA PartsWithin ==
    ASSUME NEW percent \in 1..Hundred, NEW n \in Nat
    PROVE  /\ BidPart(n, percent) \in Nat /\ BidPart(n, percent) <= n
           /\ LotPart(n, percent) \in Nat /\ LotPart(n, percent) <= n
           /\ BidPart(n, Hundred) = n /\ LotPart(n, Hundred) = n
  <1>1. /\ BidPart(n, percent) \in Nat /\ BidPart(n, percent) <= n
        /\ LotPart(n, percent) \in Nat /\ LotPart(n, percent) <= n
    BY Shares, PartOfWhole DEF BidPart, LotPart
  <1>2. Scalar7 \in Nat \ {0}
    BY PoolConstantsAssumption
  <1>3. BidPart(n, Hundred) = n
    <2>1. MulCeil(n, Scalar7, Scalar7) = MulCeil(Scalar7, n, Scalar7)
      BY <1>2, MulCeilCommutes
    <2> QED BY <1>2, <2>1, Shares, WholeShare DEF BidPart
  <1>4. LotPart(n, Hundred) = n
    <2>1. (n * Scalar7) \div Scalar7 = n
      <3>1. /\ n * Scalar7 \in Nat
            /\ ((n * Scalar7) \div Scalar7) \in Nat
            /\ ((n * Scalar7) \div Scalar7) * Scalar7 <= n * Scalar7
            /\ n * Scalar7 < ((n * Scalar7) \div Scalar7 + 1) * Scalar7
        BY <1>2, ProductNat, Quotient
      <3> DEFINE q == (n * Scalar7) \div Scalar7
      <3>2. q \in Nat /\ q * Scalar7 <= n * Scalar7 /\ n * Scalar7 < (q + 1) * Scalar7
        BY <3>1
      <3> HIDE DEF q
      <3>3. n <= q
        <4>1. n < q + 1
          BY <1>2, <3>2, ProductCancels
        <4> QED BY <3>2, <4>1
      <3>4. q <= n
        <4>1. q * Scalar7 < (n + 1) * Scalar7
          <5>1. (n + 1) * Scalar7 = n * Scalar7 + Scalar7 /\ q * Scalar7 \in Int
            BY <1>2, <3>2
          <5> QED BY <1>2, <3>1, <3>2, <5>1
        <4>2. q < n + 1
          BY <1>2, <3>2, <4>1, ProductCancels
        <4> QED BY <3>2, <4>2
      <3> QED BY <3>2, <3>3, <3>4 DEF q
    <2> QED BY <2>1, Shares DEF LotPart, MulFloor
  <1> QED BY <1>1, <1>3, <1>4

\* What a fill takes of a quote at an age is no more than the part of it that is
\* filled, and that part is what the quote loses.
LEMMA FillShrinks ==
    ASSUME NEW q \in Sales, q # NoAuction, q.age >= 0, NEW percent \in 1..Hundred
    PROVE  /\ Remaining(q, percent) \in Sales
           /\ \A x \in Sold :
                /\ ToFill(q, percent).bid[x] \in Nat /\ ToFill(q, percent).lot[x] \in Nat
                /\ ToFill(q, percent).bid[x] <= q.bid[x] - BidOf(Remaining(q, percent), x)
                /\ ToFill(q, percent).lot[x] <= q.lot[x] - LotOf(Remaining(q, percent), x)
                /\ BidOf(Remaining(q, percent), x) = q.bid[x] - BidPart(q.bid[x], percent)
                /\ LotOf(Remaining(q, percent), x) = q.lot[x] - LotPart(q.lot[x], percent)
                /\ BidPart(q.bid[x], percent) \in Nat /\ BidPart(q.bid[x], percent) <= q.bid[x]
                /\ LotPart(q.lot[x], percent) \in Nat /\ LotPart(q.lot[x], percent) <= q.lot[x]
           /\ Remaining(q, percent) # NoAuction => Remaining(q, percent).age = q.age
  <1> DEFINE bid == [x \in Sold |-> q.bid[x] - BidPart(q.bid[x], percent)]
             lot == [x \in Sold |-> q.lot[x] - LotPart(q.lot[x], percent)]
             rest == [q EXCEPT !.bid = bid, !.lot = lot]
             left == Remaining(q, percent)
  <1>1. /\ q \in AuctionData /\ q.bid \in [Sold -> Nat] /\ q.lot \in [Sold -> Nat]
        /\ q.age \in Int /\ 0 <= q.age /\ q.age <= 2 * Ramp
    BY SaleFields
  <1>2. ASSUME NEW x \in Sold
        PROVE  /\ BidPart(q.bid[x], percent) \in Nat /\ BidPart(q.bid[x], percent) <= q.bid[x]
               /\ LotPart(q.lot[x], percent) \in Nat /\ LotPart(q.lot[x], percent) <= q.lot[x]
    BY <1>1, PartsWithin
  <1>3. bid \in [Sold -> Nat] /\ lot \in [Sold -> Nat]
    BY <1>1, <1>2
  <1>4. left = IF bid = Nothing /\ lot = Nothing THEN NoAuction ELSE rest
    BY Zenon DEF Remaining
  <1> HIDE DEF bid, lot
  <1>5. /\ rest \in AuctionData /\ rest # NoAuction /\ rest.bid = bid /\ rest.lot = lot
        /\ rest.age = q.age
    BY <1>1, <1>3, NoAuctionAssumption DEF AuctionData
  <1> HIDE DEF rest
  <1>6. \A x \in Sold : BidOf(left, x) = bid[x] /\ LotOf(left, x) = lot[x]
    BY <1>4, <1>5 DEF BidOf, LotOf, Nothing
  <1>7. left \in Sales /\ (left # NoAuction => left.age = q.age)
    BY <1>4, <1>5 DEF Sales
  <1>8. ASSUME NEW x \in Sold
        PROVE  /\ ToFill(q, percent).bid[x] \in Nat
               /\ ToFill(q, percent).bid[x] <= BidPart(q.bid[x], percent)
               /\ ToFill(q, percent).lot[x] \in Nat
               /\ ToFill(q, percent).lot[x] <= LotPart(q.lot[x], percent)
    BY <1>1, <1>2, Modifiers, PartOfWhole DEF ToFill
  <1>9. ASSUME NEW x \in Sold
        PROVE  /\ BidOf(left, x) = q.bid[x] - BidPart(q.bid[x], percent)
               /\ LotOf(left, x) = q.lot[x] - LotPart(q.lot[x], percent)
    BY <1>6 DEF bid, lot
  <1>10. ASSUME NEW x \in Sold
         PROVE  /\ ToFill(q, percent).bid[x] <= q.bid[x] - BidOf(left, x)
                /\ ToFill(q, percent).lot[x] <= q.lot[x] - LotOf(left, x)
    <2>1. q.bid[x] \in Nat /\ q.lot[x] \in Nat
      BY <1>1
    <2> HIDE DEF left
    <2> QED BY <1>2, <1>8, <1>9, <2>1
  <1> QED BY <1>2, <1>7, <1>8, <1>9, <1>10

\* In one ledger two fills of a quote cost at least as much as one, and buy at most
\* as much: what the first rounds is of what the second finds.
LEMMA PartsOfFill ==
    ASSUME NEW q \in Sales, q # NoAuction, q.age >= 0, NEW percent \in 1..Hundred,
           NEW x \in Sold,
           NEW later, later = IF Remaining(q, percent) = NoAuction
                              THEN [bid |-> Nothing, lot |-> Nothing]
                              ELSE ToFill(Remaining(q, percent), Hundred)
    PROVE  /\ ToFill(q, percent).bid[x] + later.bid[x] >= ToFill(q, Hundred).bid[x]
           /\ ToFill(q, percent).lot[x] + later.lot[x] <= ToFill(q, Hundred).lot[x]
  <1> DEFINE rest == Remaining(q, percent)
             b == BidPart(q.bid[x], percent)
             l == LotPart(q.lot[x], percent)
             bm == BidModifier(q.age)
             lm == LotModifier(q.age)
  <1>1. /\ q.bid[x] \in Nat /\ q.lot[x] \in Nat
        /\ q.age \in Int /\ 0 <= q.age /\ q.age <= 2 * Ramp
    BY SaleFields
  <1>2. bm \in Nat /\ lm \in Nat /\ Scalar7 \in Nat \ {0}
    BY <1>1, Modifiers, PoolConstantsAssumption
  <1>3. /\ rest \in Sales /\ BidOf(rest, x) = q.bid[x] - b /\ LotOf(rest, x) = q.lot[x] - l
        /\ rest # NoAuction => rest.age = q.age
        /\ b \in Nat /\ b <= q.bid[x] /\ l \in Nat /\ l <= q.lot[x]
    BY FillShrinks
  <1>4. /\ ToFill(q, percent).bid[x] = MulCeil(b, bm, Scalar7)
        /\ ToFill(q, percent).lot[x] = MulFloor(l, lm, Scalar7)
    BY DEF ToFill
  <1>5. /\ ToFill(q, Hundred).bid[x] = MulCeil(q.bid[x], bm, Scalar7)
        /\ ToFill(q, Hundred).lot[x] = MulFloor(q.lot[x], lm, Scalar7)
    BY <1>1, PartsWithin DEF ToFill
  <1>6. /\ MulCeil(0, bm, Scalar7) = 0 /\ MulFloor(0, lm, Scalar7) = 0
    BY <1>2 DEF MulCeil, MulFloor
  <1>7. /\ later.bid[x] = MulCeil(BidOf(rest, x), bm, Scalar7)
        /\ later.lot[x] = MulFloor(LotOf(rest, x), lm, Scalar7)
    <2>1. CASE rest = NoAuction
      BY <1>6, <2>1 DEF BidOf, LotOf, Nothing
    <2>2. CASE rest # NoAuction
      <3>1. later = ToFill(rest, Hundred) /\ rest.age = q.age
        BY <1>3, <2>2
      <3>2. rest.bid[x] \in Nat /\ rest.lot[x] \in Nat
        BY <1>3, <2>2, SaleFields
      <3> HIDE DEF rest
      <3>3. BidPart(rest.bid[x], Hundred) = rest.bid[x] /\ LotPart(rest.lot[x], Hundred) = rest.lot[x]
        BY <3>2, PartsWithin
      <3> QED BY <2>2, <3>1, <3>3 DEF ToFill, BidOf, LotOf
    <2> QED BY <2>1, <2>2
  <1> DEFINE rb == q.bid[x] - b
             rl == q.lot[x] - l
  <1>8. rb \in Nat /\ rl \in Nat /\ b + rb = q.bid[x] /\ l + rl = q.lot[x]
    <2> HIDE DEF b, l
    <2> QED BY <1>1, <1>3
  <1>9. /\ MulCeil(b + rb, bm, Scalar7) <= MulCeil(b, bm, Scalar7) + MulCeil(rb, bm, Scalar7)
        /\ MulFloor(l, lm, Scalar7) + MulFloor(rl, lm, Scalar7) <= MulFloor(l + rl, lm, Scalar7)
    <2> HIDE DEF b, l, rb, rl, bm, lm
    <2> QED BY <1>2, <1>3, <1>8, PartsOfSum
  <1>10. /\ MulCeil(b + rb, bm, Scalar7) \in Nat /\ MulCeil(b, bm, Scalar7) \in Nat
         /\ MulCeil(rb, bm, Scalar7) \in Nat
    BY <1>2, <1>3, <1>8, MulCeilBounds
  <1>11. /\ ToFill(q, percent).bid[x] + later.bid[x]
              = MulCeil(b, bm, Scalar7) + MulCeil(rb, bm, Scalar7)
         /\ ToFill(q, percent).lot[x] + later.lot[x]
              = MulFloor(l, lm, Scalar7) + MulFloor(rl, lm, Scalar7)
         /\ ToFill(q, Hundred).bid[x] = MulCeil(b + rb, bm, Scalar7)
         /\ ToFill(q, Hundred).lot[x] = MulFloor(l + rl, lm, Scalar7)
    BY <1>3, <1>4, <1>5, <1>7, <1>8
  <1> HIDE DEF b, l, rb, rl, bm, lm
  <1> QED BY <1>9, <1>10, <1>11
-----------------------------------------------------------------------------
\* Taken at their factors, collateral is worth no more and liabilities no less than
\* they are, and without liabilities they are worth nothing.
LEMMA BasesBound ==
    ASSUME NEW p \in PositionsType, NEW res \in [Assets -> Used]
    PROVE  /\ CollateralBase(p, res) \in Nat /\ CollateralRaw(p, res) \in Nat
           /\ LiabilityBase(p, res) \in Nat /\ LiabilityRaw(p, res) \in Nat
           /\ CollateralBase(p, res) <= CollateralRaw(p, res)
           /\ LiabilityRaw(p, res) <= LiabilityBase(p, res)
           /\ ~HasLiabilities(p) => LiabilityBase(p, res) = 0
  <1> DEFINE worth(a) == ToAssetFromB(res[a], p.collateral[a])
             owed(a) == ToAssetFromD(res[a], p.liabilities[a])
             cb == [a \in Assets |-> MulFloor(1, MulFloor(worth(a), CFactor[a], Scalar7), Unit[a])]
             cr == [a \in Assets |-> MulFloor(1, worth(a), Unit[a])]
             lb == [a \in Assets |-> MulCeil(1, DivCeil(owed(a), LFactor[a], Scalar7), Unit[a])]
             lr == [a \in Assets |-> MulCeil(1, owed(a), Unit[a])]
  <1>1. ASSUME NEW a \in Assets
        PROVE  /\ worth(a) \in Nat /\ owed(a) \in Nat
               /\ Unit[a] \in Nat \ {0} /\ CFactor[a] \in 0..Scalar7
               /\ LFactor[a] \in 1..Scalar7 /\ Scalar7 \in Nat \ {0}
    <2>1. p.collateral[a] \in Nat /\ p.liabilities[a] \in Nat /\ res[a] \in Used
      BY DEF PositionsType
    <2> QED BY <2>1, UsedFields, DebtPaid, MulFloorBounds, PoolReserveAssumption,
               LendingAssumption, PoolConstantsAssumption DEF ToAssetFromB
  <1> HIDE DEF worth, owed
  <1>2. ASSUME NEW a \in Assets
        PROVE  /\ MulFloor(1, MulFloor(worth(a), CFactor[a], Scalar7), Unit[a]) \in Nat
               /\ MulFloor(1, worth(a), Unit[a]) \in Nat
               /\ MulFloor(1, MulFloor(worth(a), CFactor[a], Scalar7), Unit[a])
                    <= MulFloor(1, worth(a), Unit[a])
    <2> DEFINE w == MulFloor(worth(a), CFactor[a], Scalar7)
    <2>1. w \in Nat /\ w <= worth(a)
      BY <1>1, PartOfWhole
    <2> HIDE DEF w
    <2>2. MulFloor(1, w, Unit[a]) <= MulFloor(1, worth(a), Unit[a])
      BY <1>1, <2>1, QuotientMono DEF MulFloor
    <2> QED BY <1>1, <2>1, <2>2, MulFloorBounds DEF w
  <1>3. ASSUME NEW a \in Assets
        PROVE  /\ MulCeil(1, DivCeil(owed(a), LFactor[a], Scalar7), Unit[a]) \in Nat
               /\ MulCeil(1, owed(a), Unit[a]) \in Nat
               /\ MulCeil(1, owed(a), Unit[a])
                    <= MulCeil(1, DivCeil(owed(a), LFactor[a], Scalar7), Unit[a])
    <2> DEFINE w == DivCeil(owed(a), LFactor[a], Scalar7)
    <2>1. w \in Nat /\ owed(a) <= w
      <3> DEFINE n == owed(a)
                 f == LFactor[a]
      <3>0. n \in Nat /\ f \in Nat \ {0} /\ f <= Scalar7 /\ Scalar7 \in Nat
        BY <1>1
      <3>1. w \in Nat /\ n * Scalar7 <= w * f
        <4>1. w = DivCeil(n, f, Scalar7)
          OBVIOUS
        <4> HIDE DEF w, n, f
        <4> QED BY <3>0, <4>1, DivCeilBounds
      <3> HIDE DEF w, n, f
      <3>2. w * f <= w * Scalar7
        BY <3>0, <3>1, ProductGrows
      <3>3. n * Scalar7 < (w + 1) * Scalar7
        <4>1. n * Scalar7 \in Nat /\ w * Scalar7 \in Nat /\ w * f \in Nat
          BY <3>0, <3>1, ProductNat
        <4>2. (w + 1) * Scalar7 = w * Scalar7 + Scalar7
          BY <3>0, <3>1
        <4> QED BY <1>1, <3>1, <3>2, <4>1, <4>2
      <3>4. n < w + 1
        BY <1>1, <3>0, <3>1, <3>3, ProductCancels
      <3> QED BY <3>0, <3>1, <3>4 DEF n
    <2> HIDE DEF w
    <2>2. MulCeil(1, owed(a), Unit[a]) <= MulCeil(1, w, Unit[a])
      BY <1>1, <2>1, MulCeilMono, MulCeilCommutes
    <2> QED BY <1>1, <2>1, <2>2, MulCeilBounds DEF w
  <1>4. /\ CollateralBase(p, res) = Total(cb) /\ CollateralRaw(p, res) = Total(cr)
        /\ LiabilityBase(p, res) = Total(lb) /\ LiabilityRaw(p, res) = Total(lr)
    BY SumIsTotal DEF CollateralBase, CollateralRaw, LiabilityBase, LiabilityRaw, worth, owed
  <1>5. /\ cb \in [Assets -> Nat] /\ cr \in [Assets -> Nat] /\ \A a \in Assets : cb[a] <= cr[a]
    BY <1>2
  <1>6. /\ lb \in [Assets -> Nat] /\ lr \in [Assets -> Nat] /\ \A a \in Assets : lr[a] <= lb[a]
    BY <1>3
  <1>7. ASSUME ~HasLiabilities(p) PROVE LiabilityBase(p, res) = 0
    <2>1. ASSUME NEW a \in Assets
          PROVE  MulCeil(1, DivCeil(owed(a), LFactor[a], Scalar7), Unit[a]) = 0
      <3>1. p.liabilities[a] = 0 /\ res[a].d_rate \in Nat /\ Scalar9 \in Nat \ {0}
        BY <1>7, UsedFields, PoolReserveAssumption DEF HasLiabilities, PositionsType
      <3>2. owed(a) = 0
        BY <3>1 DEF owed, ToAssetFromD, MulCeil
      <3>3. DivCeil(0, LFactor[a], Scalar7) = 0
        BY <1>1 DEF DivCeil
      <3>4. MulCeil(1, 0, Unit[a]) = 0
        BY <1>1 DEF MulCeil
      <3> QED BY <3>2, <3>3, <3>4
    <2>2. lb = [a \in Assets |-> 0]
      BY <2>1
    <2> QED BY <1>4, <2>2, TotalZero, LendingAssumption
  <1> HIDE DEF cb, cr, lb, lr
  <1> QED BY <1>4, <1>5, <1>6, <1>7, TotalNat, TotalGrows, LendingAssumption

\* The collateral a fill is estimated to take is a number: with more liabilities than
\* collateral at their factors, the margin between the averages is no less than zero.
LEMMA EstimateNat ==
    ASSUME NEW p \in PositionsType, NEW res \in [Assets -> Used], NEW percent \in 1..Hundred,
           LiabilityBase(p, res) >= CollateralBase(p, res),
           CollateralRaw(p, res) > 0, LiabilityRaw(p, res) > 0
    PROVE  EstWithdrawn(p, res, percent) \in Nat
  <1> DEFINE cb == CollateralBase(p, res)
             cr == CollateralRaw(p, res)
             lb == LiabilityBase(p, res)
             lr == LiabilityRaw(p, res)
             cf == DivFloor(cb, cr, OracleScalar)
             lf == DivFloor(lb, lr, OracleScalar)
             ratio == DivCeil(cf, lf, OracleScalar)
             margin == OracleScalar - ratio
             extra == DivCeil(margin, 2 * OracleScalar, OracleScalar)
             part == (percent * OracleScalar) \div Hundred
  <1>1. /\ cb \in Nat /\ cr \in Nat \ {0} /\ lb \in Nat /\ lr \in Nat \ {0}
        /\ cb <= cr /\ lr <= lb
    BY BasesBound
  <1>2. OracleScalar \in Nat \ {0} /\ Hundred \in Nat \ {0} /\ percent \in Nat
    BY LendingAssumption, AuctionsAssumption
  <1>3. EstWithdrawn(p, res, percent)
          = MulFloor(MulFloor(lr, part, OracleScalar), extra + OracleScalar, OracleScalar)
    BY Zenon DEF EstWithdrawn
  <1> HIDE DEF cb, cr, lb, lr
  <1>4. cf \in Nat /\ cf <= OracleScalar
    <2>1. /\ cf \in Nat /\ cf * cr <= cb * OracleScalar
      BY <1>1, <1>2, DivFloorBounds
    <2> HIDE DEF cf
    <2>2. /\ cb * OracleScalar <= cr * OracleScalar /\ cb * OracleScalar \in Nat
          /\ cr * OracleScalar \in Nat /\ cf * cr \in Nat
      BY <1>1, <1>2, <2>1, ProductGrows, ProductNat
    <2>3. (OracleScalar + 1) * cr = cr * OracleScalar + cr
      BY <1>1, <1>2
    <2>4. cf * cr < (OracleScalar + 1) * cr
      BY <1>1, <2>1, <2>2, <2>3
    <2>5. cf < OracleScalar + 1
      BY <1>1, <1>2, <2>1, <2>4, ProductCancels
    <2> QED BY <1>2, <2>1, <2>5
  <1>5. lf \in Nat /\ OracleScalar <= lf
    <2>1. lf \in Nat /\ lb * OracleScalar < (lf + 1) * lr
      BY <1>1, <1>2, DivFloorBounds
    <2> HIDE DEF lf
    <2>2. /\ lr * OracleScalar <= lb * OracleScalar /\ lr * OracleScalar \in Nat
          /\ lb * OracleScalar \in Nat /\ (lf + 1) * lr \in Nat
      BY <1>1, <1>2, <2>1, ProductGrows, ProductNat
    <2>3. OracleScalar * lr = lr * OracleScalar
      BY <1>1, <1>2
    <2>4. OracleScalar * lr < (lf + 1) * lr
      BY <2>1, <2>2, <2>3
    <2>5. OracleScalar < lf + 1
      BY <1>1, <1>2, <2>1, <2>4, ProductCancels
    <2> QED BY <1>2, <2>1, <2>5
  <1> HIDE DEF cf, lf
  <1>6. ratio \in Nat /\ ratio <= OracleScalar
    <2>1. lf \in Nat \ {0}
      BY <1>2, <1>5
    <2>2. ratio \in Nat /\ ratio * lf < cf * OracleScalar + lf
      BY <1>2, <1>4, <2>1, DivCeilBounds
    <2> HIDE DEF ratio
    <2>3. /\ cf * OracleScalar <= OracleScalar * OracleScalar
          /\ OracleScalar * OracleScalar <= OracleScalar * lf
      BY <1>2, <1>4, <1>5, ProductGrows
    <2>4. /\ cf * OracleScalar \in Nat /\ OracleScalar * OracleScalar \in Nat
          /\ OracleScalar * lf \in Nat
      BY <1>2, <1>4, <1>5, ProductNat
    <2>5. cf * OracleScalar <= OracleScalar * lf
      BY <2>3, <2>4
    <2> QED BY <1>2, <1>4, <2>1, <2>2, <2>5, CeilSmallest
  <1> HIDE DEF ratio
  <1>7. margin \in Nat /\ 2 * OracleScalar \in Nat \ {0}
    BY <1>2, <1>6
  <1> HIDE DEF margin
  <1>8. extra \in Nat
    BY <1>2, <1>7, DivCeilBounds
  <1> HIDE DEF extra
  <1>9. part \in Nat
    BY <1>2, ProductNat, Quotient
  <1> HIDE DEF part
  <1>10. MulFloor(lr, part, OracleScalar) \in Nat
    BY <1>1, <1>2, <1>9, MulFloorBounds
  <1> QED BY <1>2, <1>3, <1>8, <1>10, MulFloorBounds

\* So the quote that liquidates a part of a user's positions is one of amounts.
LEMMA LiquidationAmounts ==
    ASSUME NEW p \in PositionsType, NEW res \in [Assets -> Used], NEW percent \in 1..Hundred,
           LiabilityBase(p, res) >= CollateralBase(p, res),
           CollateralRaw(p, res) > 0, LiabilityRaw(p, res) > 0, NEW a \in Assets
    PROVE  /\ LiquidationQuote(p, res, percent).lot[a] \in Nat
           /\ LiquidationQuote(p, res, percent).bid[a] \in Nat
  <1> DEFINE full == DivCeil(EstWithdrawn(p, res, percent), CollateralRaw(p, res), OracleScalar)
             taken == AtMost(full, OracleScalar)
             part == (percent * OracleScalar) \div Hundred
  <1>1. /\ OracleScalar \in Nat \ {0} /\ Hundred \in Nat \ {0} /\ percent \in Nat
        /\ p.collateral[a] \in Nat /\ p.liabilities[a] \in Nat
    BY LendingAssumption, AuctionsAssumption DEF PositionsType
  <1>2. full \in Nat
    <2> DEFINE est == EstWithdrawn(p, res, percent)
               raw == CollateralRaw(p, res)
    <2>1. est \in Nat /\ raw \in Nat \ {0}
      BY EstimateNat, BasesBound
    <2> HIDE DEF est, raw
    <2>2. DivCeil(est, raw, OracleScalar) \in Nat
      BY <1>1, <2>1, DivCeilBounds
    <2> QED BY <2>2 DEF est, raw
  <1> HIDE DEF full
  <1>3. taken \in Nat /\ part \in Nat
    BY <1>1, <1>2, ProductNat, Quotient DEF AtMost
  <1> HIDE DEF taken, part
  <1>4. /\ MulCeil(p.collateral[a], taken, OracleScalar) \in Nat
        /\ MulCeil(p.liabilities[a], part, OracleScalar) \in Nat
    BY <1>1, <1>3, MulCeilBounds
  <1>5. /\ LiquidationQuote(p, res, percent).lot
             = [b \in Assets |-> MulCeil(p.collateral[b], taken, OracleScalar)]
        /\ LiquidationQuote(p, res, percent).bid
             = [b \in Assets |-> MulCeil(p.liabilities[b], part, OracleScalar)]
    BY DEF LiquidationQuote, taken, part, full
  <1> QED BY <1>4, <1>5

\* What backstop tokens buy is a number of tokens.
LEMMA TokenAmounts ==
    ASSUME backstop \in BackstopData, backstop.tokens > 0, BackstopTokenValue > 0,
           NEW value \in Nat
    PROVE  TokensWorth(value) \in Nat
  <1> DEFINE usd == MulFloor(backstop.usdc, OracleScalar, Scalar7)
             worth == MulFloor(value, Premium, Scalar7)
  <1>1. /\ backstop.tokens \in Nat \ {0} /\ backstop.usdc \in Nat /\ Scalar7 \in Nat \ {0}
        /\ OracleScalar \in Nat /\ Premium \in Nat
    BY PoolConstantsAssumption, LendingAssumption, AuctionsAssumption DEF BackstopData
  <1>2. usd \in Nat /\ worth \in Nat
    BY <1>1, MulFloorBounds
  <1>3. BackstopTokenValue = DivFloor(usd * 5, backstop.tokens, Scalar7)
        /\ TokensWorth(value) = DivFloor(worth, BackstopTokenValue, Scalar7)
    BY DEF BackstopTokenValue, TokensWorth
  <1> HIDE DEF usd, worth
  <1>4. BackstopTokenValue \in Nat \ {0}
    <2>1. usd * 5 \in Nat
      BY <1>2
    <2>2. DivFloor(usd * 5, backstop.tokens, Scalar7) \in Nat
      BY <1>1, <2>1, DivFloorBounds
    <2> QED BY <1>3, <2>2
  <1> QED BY <1>1, <1>2, <1>3, <1>4, DivFloorBounds

\* A quote of amounts is one.
LEMMA QuoteTyped ==
    ASSUME NEW bid \in [Sold -> Nat], NEW lot \in [Sold -> Nat]
    PROVE  /\ NewAuction(bid, lot) \in Sales /\ NewAuction(bid, lot) # NoAuction
           /\ NewAuction(bid, lot).lot = lot /\ NewAuction(bid, lot).bid = bid
  <1>1. NewAuction(bid, lot) \in AuctionData
    BY AuctionsAssumption DEF NewAuction, AuctionData
  <1> QED BY <1>1, NoAuctionAssumption DEF NewAuction, Sales

\* What amounts of the assets are worth together is a number.
LEMMA WorthNat ==
    ASSUME NEW n \in [Assets -> Nat], NEW amount \in [Assets -> Nat]
    PROVE  SumFunction([a \in Assets |-> n[a] * ValueOf(a, amount[a])]) \in Nat
           /\ SumFunction([a \in Assets |-> ValueOf(a, amount[a])]) \in Nat
  <1>1. ASSUME NEW a \in Assets
        PROVE  ValueOf(a, amount[a]) \in Nat /\ n[a] * ValueOf(a, amount[a]) \in Nat
    <2>1. Prices[a] \in Nat /\ Unit[a] \in Nat \ {0} /\ amount[a] \in Nat
      BY AuctionsAssumption, LendingAssumption
    <2>2. ValueOf(a, amount[a]) \in Nat
      BY <2>1, MulFloorBounds DEF ValueOf
    <2> QED BY <2>2, ProductNat
  <1> DEFINE f == [a \in Assets |-> n[a] * ValueOf(a, amount[a])]
             h == [a \in Assets |-> ValueOf(a, amount[a])]
  <1>2. f \in [Assets -> Nat] /\ h \in [Assets -> Nat]
    BY <1>1
  <1> HIDE DEF f, h
  <1>3. Total(f) \in Nat /\ Total(h) \in Nat
    BY <1>2, TotalNat, LendingAssumption
  <1> QED BY <1>3, SumIsTotal DEF f, h
-----------------------------------------------------------------------------
\* The quotes, backstop and losses of a submit, and of the storage they will replace.
Drafts == [auctions : [Keys -> Sales], backstop : BackstopData, lost : [Assets -> Nat]]
QuotesTyped ==
    /\ Typed
    /\ auctions \in [Keys -> Sales]
    /\ lost \in [Assets -> Nat]
    /\ tx # NoTx => draft \in Drafts

\* The tokens settled, and the debt socialised, cover what a reserve owes.
SoundUpToLoss(a) ==
    /\ Matches(reserve[a], positions, a)
    /\ Owed(reserve[a]) <= Settled(a) + lost[a]

\* So do those of the copy; fills move tokens at once, requests at the end.
DraftSound(a) ==
    /\ Matches(tx.res[a], tx.holders, a)
    /\ Owed(tx.res[a]) <= HeldSettled(a) + tx.sent[a] - tx.due[a] + draft.lost[a]

\* A reserve the submit will not store is as it was loaded.
DraftLoaded(a) ==
    a \notin tx.stored =>
        /\ tx.res[a] = Load(a) /\ tx.held[a] = balance[a]
        /\ tx.sent[a] = 0 /\ tx.due[a] = 0 /\ draft.lost[a] = lost[a]

\* The lot of an interest auction is credited to the backstop.
Credited(q, a, r) == LotOf(q, a) <= r.backstop_credit

\* The backstop owes less by no more than the quote of its debt, or by what is lost.
DebtQuoted(a) ==
    LET relieved == positions[Backstop].liabilities[a] - tx.holders[Backstop].liabilities[a]
    IN  /\ relieved >= 0 /\ draft.lost[a] >= lost[a]
        /\ relieved > BidOf(auctions[BadDebtSale], a) - BidOf(draft.auctions[BadDebtSale], a)
             => draft.lost[a] > lost[a]

\* A user other than the submitter has lost, and been relieved of, no more than the
\* quote of its liquidation.
UserQuoted(user, a) ==
    LET k == Liquidation(user)
        old == positions[user]
        new == tx.holders[user]
    IN  /\ new.supply = old.supply
        /\ new.collateral[a] <= old.collateral[a] /\ new.liabilities[a] <= old.liabilities[a]
        /\ old.collateral[a] - new.collateral[a]
             <= LotOf(auctions[k], a) - LotOf(draft.auctions[k], a)
        /\ old.liabilities[a] - new.liabilities[a]
             <= BidOf(auctions[k], a) - BidOf(draft.auctions[k], a)

\* The health of the submitter is to be checked, unless it has kept its own
\* liquidation, owes no more and has no less collateral.
Careful ==
    \/ tx.check_health
    \/ /\ auctions[Liquidation(tx.from)] # NoAuction
            => draft.auctions[Liquidation(tx.from)] # NoAuction
       /\ \A a \in Assets : /\ Own.liabilities[a] <= positions[tx.from].liabilities[a]
                            /\ Own.collateral[a] >= positions[tx.from].collateral[a]

StoredKept(a) ==
    SoundUpToLoss(a) /\ Credited(auctions[InterestSale], a, Load(a))
DraftKept(a) ==
    /\ DraftSound(a) /\ DraftLoaded(a) /\ DebtQuoted(a)
    /\ Credited(draft.auctions[InterestSale], a, tx.res[a])
    /\ \A user \in Users \ {tx.from} : UserQuoted(user, a)

AInv == /\ QuotesTyped
        /\ \A a \in Assets : StoredKept(a)
        /\ tx # NoTx => Careful /\ \A a \in Assets : DraftKept(a)
-----------------------------------------------------------------------------
\* A pool starts without auctions.
LEMMA InitAInv == AuctionsInit => AInv
  <1> SUFFICES ASSUME AuctionsInit PROVE AInv
    OBVIOUS
  <1>1. IInv /\ tx = NoTx /\ auctions = [k \in Keys |-> NoAuction] /\ lost = Zero
    BY InitIInv DEF AuctionsInit, Init
  <1>2. QuotesTyped
    BY <1>1 DEF QuotesTyped, IInv, Sales, Zero
  <1>3. ASSUME NEW a \in Assets PROVE StoredKept(a)
    <2>1. SoundUpToLoss(a)
      <3>1. /\ Matches(reserve[a], positions, a) /\ Owed(reserve[a]) <= Settled(a)
            /\ lost[a] = 0 /\ Settled(a) \in Int
        BY <1>1 DEF IInv, Sound, Zero, Settled, Typed
      <3>2. Settled(a) + lost[a] = Settled(a)
        BY <3>1
      <3> QED BY <3>1, <3>2 DEF SoundUpToLoss
    <2>2. Credited(auctions[InterestSale], a, Load(a))
      <3>1. auctions[InterestSale] = NoAuction
        BY <1>1, KeysApart
      <3>2. Load(a) \in Used
        BY <1>1, LoadKeeps DEF IInv
      <3> QED BY <3>1, <3>2, UsedFields DEF Credited, LotOf
    <2> QED BY <2>1, <2>2 DEF StoredKept
  <1> QED BY <1>1, <1>2, <1>3 DEF AInv

\* The types of what the lemmas below compare.
LEMMA PositionParts ==
    ASSUME NEW p \in [Holders -> PositionsType], NEW a \in Assets, NEW h \in Holders
    PROVE  /\ p[h].collateral[a] \in Nat /\ p[h].supply[a] \in Nat
           /\ p[h].liabilities[a] \in Nat /\ p[h].supply \in [Assets -> Nat]
           /\ p[h].collateral \in [Assets -> Nat] /\ p[h].liabilities \in [Assets -> Nat]
  BY DEF PositionsType

\* While the storage and its quotes stay as they are, so does what is kept of them.
LEMMA StorageKept ==
    ASSUME AInv, UNCHANGED <<reserve, accrual, positions, tokens, auctions, lost>>,
           NEW a \in Assets
    PROVE  StoredKept(a)' /\ Load(a)' = Load(a) /\ Settled(a)' = Settled(a)
  <1>1. StoredKept(a)
    BY DEF AInv
  <1>2. /\ reserve' = reserve /\ positions' = positions /\ auctions' = auctions
        /\ lost' = lost /\ Load(a)' = Load(a) /\ Settled(a)' = Settled(a)
    BY DEF Load, Settled, tokens
  <1>3. SoundUpToLoss(a)'
    BY <1>1, <1>2 DEF StoredKept, SoundUpToLoss
  <1>4. Credited(auctions[InterestSale], a, Load(a))'
    BY <1>1, <1>2 DEF StoredKept, Credited
  <1> QED BY <1>2, <1>3, <1>4 DEF StoredKept

\* A submit begins with a copy of the storage.
LEMMA BeginSubmitKeeps ==
    ASSUME AInv, NEW from \in Users, BeginSubmit(from)
    PROVE  AInv'
  <1> DEFINE res == [a \in Assets |-> Load(a)]
  <1>1. /\ QuotesTyped /\ Typed /\ tx = NoTx
        /\ UNCHANGED <<statusVars, reserve, accrual, positions, live, tokens, auctions, lost>>
        /\ draft' = [auctions |-> auctions, backstop |-> backstop, lost |-> lost]
    BY DEF AInv, QuotesTyped, BeginSubmit, Begin
  <1>2. res \in [Assets -> Used]
    BY <1>1, LoadKeeps
  <1>3. /\ tx'.res = res /\ tx'.held = balance /\ tx'.sent = Zero /\ tx'.due = Zero
        /\ tx'.holders = positions /\ tx'.from = from /\ tx'.stored = {}
        /\ tx' \in Transactions
    BY <1>1, <1>2, LendingAssumption DEF BeginSubmit, Begin, Transactions, Typed, Zero
  <1>4. /\ draft'.auctions = auctions /\ draft'.lost = lost /\ draft' \in Drafts
    BY <1>1 DEF Drafts, QuotesTyped, Typed, StatusTypeOK
  <1>5. Typed'
    BY <1>1, <1>3 DEF Typed, StatusTypeOK, statusVars, tokens
  <1>6. QuotesTyped'
    BY <1>1, <1>4, <1>5 DEF QuotesTyped
  <1>7. positions \in [Holders -> PositionsType]
    BY <1>1 DEF Typed
  <1>8. ASSUME NEW a \in Assets PROVE StoredKept(a)' /\ DraftKept(a)'
    <2>1. /\ tx'.res[a] = Load(a) /\ tx'.sent[a] = 0 /\ tx'.due[a] = 0
          /\ HeldSettled(a)' = Settled(a) /\ Load(a)' = Load(a) /\ tx'.held = balance
      BY <1>1, <1>3 DEF Zero, Settled, HeldSettled, tokens, Load
    <2>2. StoredKept(a)' /\ Load(a)' = Load(a) /\ Settled(a)' = Settled(a) /\ StoredKept(a)
      BY <1>1, StorageKept DEF AInv
    <2>3. /\ Settled(a) \in Int /\ reserve[a] \in Used /\ Load(a) \in Used /\ lost[a] \in Nat
      BY <1>1, LoadKeeps DEF Typed, Settled, QuotesTyped
    <2>4. DraftSound(a)'
      <3>1. Matches(Load(a), positions, a)
        BY <1>1, <2>2, LoadKeeps DEF StoredKept, SoundUpToLoss, Matches
      <3>2. Owed(Load(a)) <= Settled(a) + lost[a]
        BY <1>1, <2>2, <2>3, LoadKeeps, OwedInt DEF StoredKept, SoundUpToLoss
      <3>3. Settled(a) + 0 - 0 + lost[a] = Settled(a) + lost[a]
        BY <2>3
      <3> QED BY <1>3, <1>4, <2>1, <3>1, <3>2, <3>3 DEF DraftSound, Matches
    <2>5. DraftLoaded(a)'
      BY <1>1, <1>3, <1>4, <2>1 DEF DraftLoaded, tokens
    <2>6. DebtQuoted(a)'
      <3>1. Backstop \in Holders /\ positions[Backstop].liabilities[a] \in Nat
        BY <1>7, PositionParts DEF Holders
      <3>2. BidOf(auctions[BadDebtSale], a) \in Nat
        BY <1>1, KeysApart, SaleParts DEF QuotesTyped, Sold
      <3> QED BY <1>1, <1>3, <1>4, <2>3, <3>1, <3>2 DEF DebtQuoted
    <2>7. Credited(draft.auctions[InterestSale], a, tx.res[a])'
      BY <1>4, <2>1, <2>2 DEF StoredKept, Credited
    <2>8. ASSUME NEW user \in Users PROVE UserQuoted(user, a)'
      <3>1. positions[user].collateral[a] \in Nat /\ positions[user].liabilities[a] \in Nat
        BY <1>7, PositionParts DEF Holders
      <3>2. /\ BidOf(auctions[Liquidation(user)], a) \in Nat
            /\ LotOf(auctions[Liquidation(user)], a) \in Nat
        BY <1>1, KeysApart, SaleParts DEF QuotesTyped, Sold
      <3> QED BY <1>1, <1>3, <1>4, <3>1, <3>2 DEF UserQuoted
    <2> QED BY <2>2, <2>4, <2>5, <2>6, <2>7, <2>8 DEF DraftKept
  <1>9. Careful'
    <2>1. \A a \in Assets : /\ positions[from].liabilities[a] \in Nat
                            /\ positions[from].collateral[a] \in Nat
      BY <1>7, PositionParts DEF Holders
    <2> QED BY <1>1, <1>3, <1>4, <2>1 DEF Careful, Own
  <1> QED BY <1>6, <1>8, <1>9 DEF AInv

\* What a step of a running submit finds.
LEMMA Running ==
    ASSUME AInv, tx # NoTx
    PROVE  /\ QuotesTyped /\ Typed /\ tx \in Transactions /\ draft \in Drafts /\ CopyTyped
           /\ Careful /\ \A a \in Assets : DraftKept(a)
           /\ positions \in [Holders -> PositionsType]
           /\ tx.holders \in [Holders -> PositionsType]
           /\ tx.from \in Users /\ tx.from \in Holders /\ Backstop \in Holders
           /\ tx.from # Backstop /\ Own = tx.holders[tx.from]
           /\ draft.auctions \in [Keys -> Sales] /\ auctions \in [Keys -> Sales]
           /\ draft.backstop \in BackstopData
           /\ draft.lost \in [Assets -> Nat] /\ lost \in [Assets -> Nat]
  <1>1. /\ QuotesTyped /\ Typed /\ tx \in Transactions /\ draft \in Drafts
        /\ Careful /\ \A a \in Assets : DraftKept(a)
    BY DEF AInv, QuotesTyped, Typed
  <1>2. CopyTyped
    BY <1>1 DEF CopyTyped, DraftKept, DraftSound
  <1>3. /\ tx.from \in Users /\ tx.from \in Holders /\ Backstop \in Holders
        /\ tx.from # Backstop
    BY <1>1, LendingAssumption DEF Transactions, Holders
  <1>4. /\ positions \in [Holders -> PositionsType]
        /\ tx.holders \in [Holders -> PositionsType]
        /\ draft.auctions \in [Keys -> Sales] /\ auctions \in [Keys -> Sales]
        /\ draft.backstop \in BackstopData
        /\ draft.lost \in [Assets -> Nat] /\ lost \in [Assets -> Nat]
    BY <1>1 DEF Typed, Transactions, Drafts, QuotesTyped
  <1> QED BY <1>1, <1>2, <1>3, <1>4 DEF Own

\* A step that only works on the copy and the draft keeps the invariant if it keeps
\* what is said of them.
LEMMA WorkKeeps ==
    ASSUME AInv, tx # NoTx, tx' \in Transactions, draft' \in Drafts,
           UNCHANGED <<statusVars, reserve, accrual, positions, live, tokens, auctions, lost>>,
           Careful', \A a \in Assets : DraftKept(a)'
    PROVE  AInv'
  <1>1. QuotesTyped /\ Typed
    BY Running
  <1>2. Typed'
    BY <1>1 DEF Typed, StatusTypeOK, statusVars, tokens
  <1>3. QuotesTyped'
    BY <1>1, <1>2 DEF QuotesTyped
  <1>4. \A a \in Assets : StoredKept(a)'
    BY StorageKept
  <1> QED BY <1>3, <1>4 DEF AInv

\* Requests of Lending keep the invariant: they are of the submitter's positions, and
\* check the health of all that could harm it.
LEMMA LendingKeeps ==
    ASSUME AInv, NEW a \in Assets, LawfulRequest(a), UNCHANGED auctionVars
    PROVE  AInv'
  <1>1. tx # NoTx /\ InRequest
    BY DEF LawfulRequest, InRequest
  <1>2. /\ CopyTyped /\ tx \in Transactions /\ Careful /\ \A b \in Assets : DraftKept(b)
        /\ QuotesTyped /\ Typed /\ draft \in Drafts
        /\ positions \in [Holders -> PositionsType] /\ tx.holders \in [Holders -> PositionsType]
        /\ tx.from \in Users /\ tx.from \in Holders /\ Backstop \in Holders
        /\ tx.from # Backstop /\ Own = tx.holders[tx.from]
    BY <1>1, Running
  <1> SUFFICES ASSUME NEW r \in Used, NEW pos \in PositionsType, NEW sent \in Nat,
                      NEW due \in Nat, NEW check \in BOOLEAN,
                      Request(a, r, pos, sent, due, check),
                      Follows(tx.res[a], r, Own, pos, a),
                      Owed(r) <= Owed(tx.res[a]) + sent - due,
                      r.backstop_credit = tx.res[a].backstop_credit,
                      check \/ /\ pos.liabilities[a] <= Own.liabilities[a]
                               /\ pos.collateral[a] >= Own.collateral[a]
               PROVE  AInv'
    BY DEF LawfulRequest, Lawful
  <1>3. /\ tx'.res = [tx.res EXCEPT ![a] = r] /\ tx'.stored = tx.stored \cup {a}
        /\ tx'.sent = [tx.sent EXCEPT ![a] = @ + sent]
        /\ tx'.due = [tx.due EXCEPT ![a] = @ + due] /\ tx'.held = tx.held
        /\ tx'.holders = [tx.holders EXCEPT ![tx.from] = pos]
        /\ tx'.from = tx.from /\ tx'.check_health = (tx.check_health \/ check)
    BY <1>1, <1>2, RequestMoves
  <1>4. /\ CopyTyped' /\ tx' \in Transactions
        /\ UNCHANGED <<statusVars, reserve, accrual, positions, live, tokens>>
    BY <1>1, <1>2, RequestMoves DEF CopyTyped
  <1>5. /\ draft' = draft /\ auctions' = auctions /\ lost' = lost
        /\ positions' = positions /\ balance' = balance
    BY <1>4 DEF auctionVars, tokens
  <1>6. ASSUME NEW b \in Assets PROVE DraftKept(b)'
    <2>1. DraftKept(b) /\ HeldSettled(b)' = HeldSettled(b) /\ HeldSettled(b) \in Int
      BY <1>2, <1>3, <1>4 DEF HeldSettled, tokens, Typed, Transactions
    <2>2. /\ tx.res[b] \in Used /\ tx.sent[b] \in Nat /\ tx.due[b] \in Nat
          /\ draft.lost[b] \in Nat
      BY <1>2 DEF Transactions, Drafts
    <2>3. /\ tx'.res[b] = IF b = a THEN r ELSE tx.res[b]
          /\ tx'.sent[b] = IF b = a THEN tx.sent[b] + sent ELSE tx.sent[b]
          /\ tx'.due[b] = IF b = a THEN tx.due[b] + due ELSE tx.due[b]
      BY <1>2, <1>3 DEF Transactions
    <2>4. DraftSound(b)'
      <3>1. Matches(tx.res[b], tx.holders, b)'
        BY <1>4 DEF CopyTyped
      <3>2. Owed(tx'.res[b]) <= HeldSettled(b) + tx'.sent[b] - tx'.due[b] + draft.lost[b]
        <4>1. Owed(tx.res[b]) <= HeldSettled(b) + tx.sent[b] - tx.due[b] + draft.lost[b]
          BY <2>1 DEF DraftKept, DraftSound
        <4>2. CASE b = a
          <5>1. Owed(r) \in Int /\ Owed(tx.res[a]) \in Int
            BY <2>2, <4>2, OwedInt
          <5> QED BY <2>1, <2>2, <2>3, <4>1, <4>2, <5>1
        <4>3. CASE b # a
          BY <2>3, <4>1, <4>3
        <4> QED BY <4>2, <4>3
      <3> QED BY <1>5, <2>1, <3>1, <3>2 DEF DraftSound
    <2>5. DraftLoaded(b)'
      <3>1. Load(b)' = Load(b)
        BY <1>4 DEF Load
      <3>2. CASE b = a
        BY <1>3, <3>2 DEF DraftLoaded
      <3>3. CASE b # a
        BY <1>3, <1>5, <2>1, <2>3, <3>1, <3>3 DEF DraftKept, DraftLoaded
      <3> QED BY <3>2, <3>3
    <2>6. DebtQuoted(b)'
      <3>1. tx'.holders[Backstop] = tx.holders[Backstop]
        BY <1>2, <1>3
      <3> QED BY <1>5, <2>1, <3>1 DEF DraftKept, DebtQuoted
    <2>7. Credited(draft.auctions[InterestSale], b, tx.res[b])'
      BY <1>5, <2>1, <2>3 DEF DraftKept, Credited
    <2>8. ASSUME NEW user \in Users \ {tx.from} PROVE UserQuoted(user, b)'
      <3>1. tx'.holders[user] = tx.holders[user]
        BY <1>2, <1>3 DEF Holders
      <3> QED BY <1>5, <2>1, <3>1 DEF DraftKept, UserQuoted
    <2> QED BY <1>3, <2>4, <2>5, <2>6, <2>7, <2>8 DEF DraftKept
  <1>7. Careful'
    <2>1. CASE tx'.check_health
      BY <2>1 DEF Careful
    <2>2. CASE ~tx'.check_health
      <3>1. ~check /\ ~tx.check_health
        BY <1>3, <2>2
      <3>2. /\ Own' = pos /\ tx'.from = tx.from
        BY <1>2, <1>3 DEF Own
      <3>3. /\ auctions[Liquidation(tx.from)] # NoAuction
                 => draft.auctions[Liquidation(tx.from)] # NoAuction
            /\ \A b \in Assets : /\ Own.liabilities[b] <= positions[tx.from].liabilities[b]
                                 /\ Own.collateral[b] >= positions[tx.from].collateral[b]
        BY <1>2, <3>1 DEF Careful
      <3>4. ASSUME NEW b \in Assets
            PROVE  /\ pos.liabilities[b] <= positions[tx.from].liabilities[b]
                   /\ pos.collateral[b] >= positions[tx.from].collateral[b]
        <4>1. pos.liabilities[b] <= Own.liabilities[b] /\ pos.collateral[b] >= Own.collateral[b]
          <5>1. Own.liabilities[b] \in Nat /\ Own.collateral[b] \in Nat
            BY <1>2, PositionParts
          <5>2. CASE b = a
            BY <3>1, <5>2
          <5>3. CASE b # a
            BY <5>1, <5>3 DEF Follows
          <5> QED BY <5>2, <5>3
        <4>2. /\ pos.liabilities[b] \in Nat /\ pos.collateral[b] \in Nat
              /\ Own.liabilities[b] \in Nat /\ Own.collateral[b] \in Nat
              /\ positions[tx.from].liabilities[b] \in Nat
              /\ positions[tx.from].collateral[b] \in Nat
          BY <1>2, PositionParts DEF PositionsType
        <4>3. /\ Own.liabilities[b] <= positions[tx.from].liabilities[b]
              /\ Own.collateral[b] >= positions[tx.from].collateral[b]
          BY <3>3
        <4> QED BY <4>1, <4>2, <4>3
      <3> QED BY <1>5, <3>2, <3>3, <3>4 DEF Careful
    <2> QED BY <2>1, <2>2
  <1> QED BY <1>1, <1>2, <1>4, <1>5, <1>6, <1>7, WorkKeeps
-----------------------------------------------------------------------------
\* What is left of positions, and what they grow to, field by field.
LEMMA PositionsChange ==
    ASSUME NEW p \in PositionsType, NEW lot, NEW bid,
           \A a \in Assets : lot[a] \in Nat /\ bid[a] \in Nat
    PROVE  /\ With(p, lot, bid) \in PositionsType /\ With(p, lot, bid).supply = p.supply
           /\ \A a \in Assets : /\ With(p, lot, bid).collateral[a] = p.collateral[a] + lot[a]
                                /\ With(p, lot, bid).liabilities[a] = p.liabilities[a] + bid[a]
           /\ (\A a \in Assets : lot[a] <= p.collateral[a] /\ bid[a] <= p.liabilities[a])
                => /\ Without(p, lot, bid) \in PositionsType
                   /\ Without(p, lot, bid).supply = p.supply
                   /\ \A a \in Assets :
                        /\ Without(p, lot, bid).collateral[a] = p.collateral[a] - lot[a]
                        /\ Without(p, lot, bid).liabilities[a] = p.liabilities[a] - bid[a]
  <1>1. /\ p.collateral \in [Assets -> Nat] /\ p.liabilities \in [Assets -> Nat]
        /\ p.supply \in [Assets -> Nat]
    BY DEF PositionsType
  <1> DEFINE cw == [a \in Assets |-> p.collateral[a] + lot[a]]
             lw == [a \in Assets |-> p.liabilities[a] + bid[a]]
             co == [a \in Assets |-> p.collateral[a] - lot[a]]
             lo == [a \in Assets |-> p.liabilities[a] - bid[a]]
  <1>2. /\ With(p, lot, bid) = [p EXCEPT !.collateral = cw, !.liabilities = lw]
        /\ Without(p, lot, bid) = [p EXCEPT !.collateral = co, !.liabilities = lo]
    BY <1>1 DEF With, Without, PositionsType
  <1>3. cw \in [Assets -> Nat] /\ lw \in [Assets -> Nat]
    BY <1>1
  <1>4. (\A a \in Assets : lot[a] <= p.collateral[a] /\ bid[a] <= p.liabilities[a])
           => co \in [Assets -> Nat] /\ lo \in [Assets -> Nat]
    BY <1>1
  <1>5. \A a \in Assets : /\ cw[a] = p.collateral[a] + lot[a]
                          /\ lw[a] = p.liabilities[a] + bid[a]
                          /\ co[a] = p.collateral[a] - lot[a]
                          /\ lo[a] = p.liabilities[a] - bid[a]
    OBVIOUS
  <1> HIDE DEF cw, lw, co, lo
  <1>6. /\ With(p, lot, bid) \in PositionsType /\ With(p, lot, bid).supply = p.supply
        /\ With(p, lot, bid).collateral = cw /\ With(p, lot, bid).liabilities = lw
    BY <1>2, <1>3 DEF PositionsType
  <1>7. ASSUME co \in [Assets -> Nat], lo \in [Assets -> Nat]
        PROVE  /\ Without(p, lot, bid) \in PositionsType
               /\ Without(p, lot, bid).supply = p.supply
               /\ Without(p, lot, bid).collateral = co /\ Without(p, lot, bid).liabilities = lo
    BY <1>2, <1>7 DEF PositionsType
  <1> QED BY <1>4, <1>5, <1>6, <1>7

\* A part of h's positions has gone over to f.
Shifted(p, new, h, f, lot, bid) ==
    /\ h # f
    /\ \A a \in Assets : /\ lot[a] \in Nat /\ bid[a] \in Nat
                         /\ lot[a] <= p[h].collateral[a] /\ bid[a] <= p[h].liabilities[a]
    /\ new[h] = Without(p[h], lot, bid) /\ new[f] = With(p[f], lot, bid)
    /\ \A k \in Holders \ {h, f} : new[k] = p[k]

\* That keeps the totals of each asset.
LEMMA MovesKeepTotals ==
    ASSUME NEW p \in [Holders -> PositionsType], NEW h \in Holders, NEW f \in Holders,
           NEW lot, NEW bid, NEW new \in [Holders -> PositionsType],
           Shifted(p, new, h, f, lot, bid), NEW a \in Assets
    PROVE  Supplied(new, a) = Supplied(p, a) /\ Owing(new, a) = Owing(p, a)
  <1> DEFINE less == Without(p[h], lot, bid)
             more == With(p[f], lot, bid)
             mid == [p EXCEPT ![h] = less]
  <1>1. p[h] \in PositionsType /\ p[f] \in PositionsType
    OBVIOUS
  <1>2. /\ less \in PositionsType /\ less.supply = p[h].supply
        /\ less.collateral[a] = p[h].collateral[a] - lot[a]
        /\ less.liabilities[a] = p[h].liabilities[a] - bid[a]
    BY <1>1, PositionsChange DEF Shifted
  <1>3. /\ more \in PositionsType /\ more.supply = p[f].supply
        /\ more.collateral[a] = p[f].collateral[a] + lot[a]
        /\ more.liabilities[a] = p[f].liabilities[a] + bid[a]
    BY <1>1, PositionsChange DEF Shifted
  <1>0. /\ h # f /\ new[h] = less /\ new[f] = more
        /\ \A k \in Holders \ {h, f} : new[k] = p[k]
        /\ lot[a] \in Nat /\ bid[a] \in Nat
    BY DEF Shifted
  <1> HIDE DEF less, more
  <1>4. /\ mid \in [Holders -> PositionsType] /\ mid[h] = less /\ mid[f] = p[f]
        /\ \A k \in Holders \ {h} : mid[k] = p[k]
        /\ \A k \in Holders \ {f} : new[k] = mid[k]
    BY <1>0, <1>2
  <1> HIDE DEF mid
  <1>5. /\ Supplied(mid, a) = Supplied(p, a) + (less.collateral[a] + less.supply[a])
                                - (p[h].collateral[a] + p[h].supply[a])
        /\ Owing(mid, a) = Owing(p, a) + less.liabilities[a] - p[h].liabilities[a]
    <2>1. /\ less \in PositionsType /\ mid \in [Holders -> PositionsType] /\ mid[h] = less
          /\ \A k \in Holders \ {h} : mid[k] = p[k]
      BY <1>2, <1>4
    <2> QED BY <2>1, TotalsFollow
  <1>6. /\ Supplied(new, a) = Supplied(mid, a) + (more.collateral[a] + more.supply[a])
                                - (mid[f].collateral[a] + mid[f].supply[a])
        /\ Owing(new, a) = Owing(mid, a) + more.liabilities[a] - mid[f].liabilities[a]
    <2>1. /\ more \in PositionsType /\ mid \in [Holders -> PositionsType] /\ new[f] = more
          /\ \A k \in Holders \ {f} : new[k] = mid[k]
      BY <1>0, <1>3, <1>4
    <2> QED BY <2>1, TotalsFollow
  <1>7. /\ p[h].collateral[a] \in Nat /\ p[h].supply[a] \in Nat /\ p[h].liabilities[a] \in Nat
        /\ p[f].collateral[a] \in Nat /\ p[f].supply[a] \in Nat /\ p[f].liabilities[a] \in Nat
    BY PositionParts
  <1>8. Supplied(p, a) \in Int /\ Owing(p, a) \in Int
    <2> DEFINE have == [k \in Holders |-> p[k].collateral[a] + p[k].supply[a]]
               owe == [k \in Holders |-> p[k].liabilities[a]]
    <2>1. have \in [Holders -> Nat] /\ owe \in [Holders -> Nat]
      BY PositionParts
    <2>2. Supplied(p, a) = Total(have) /\ Owing(p, a) = Total(owe)
      BY DEF Supplied, Owing, Total
    <2> HIDE DEF have, owe
    <2> QED BY <2>1, <2>2, TotalNat, HoldersFinite
  <1> QED BY <1>0, <1>2, <1>3, <1>4, <1>5, <1>6, <1>7, <1>8

\* A fill moves the filled part between its holder and the submitter and nothing else.
LEMMA MovedCopy ==
    ASSUME CopyTyped, NEW h \in Holders, h # tx.from, NEW lot, NEW bid,
           \A a \in Assets : lot[a] \in Nat /\ bid[a] \in Nat,
           Holds(h, lot, bid),
           NEW t, t = Moved(h, lot, bid)
    PROVE  /\ t \in Transactions /\ t.res = tx.res /\ t.held = tx.held /\ t.sent = tx.sent
           /\ t.due = tx.due /\ t.from = tx.from /\ t.count = tx.count
           /\ t.check_health = tx.check_health
           /\ t.stored = tx.stored \cup Named(lot) \cup Named(bid)
           /\ t.holders[h] = Without(tx.holders[h], lot, bid)
           /\ t.holders[tx.from] = With(tx.holders[tx.from], lot, bid)
           /\ \A k \in Holders \ {h, tx.from} : t.holders[k] = tx.holders[k]
           /\ \A a \in Assets : Matches(t.res[a], t.holders, a)
  <1>1. tx \in Transactions /\ tx.from \in Holders /\ tx.holders \in [Holders -> PositionsType]
    BY DEF CopyTyped, Transactions, Holders
  <1> DEFINE f == tx.from
             p == tx.holders
             less == Without(p[h], lot, bid)
             more == With(p[f], lot, bid)
             stored == tx.stored \cup Named(lot) \cup Named(bid)
             new == [p EXCEPT ![h] = less, ![f] = more]
  <1>2. less \in PositionsType /\ more \in PositionsType
    <2>1. p[h] \in PositionsType /\ p[f] \in PositionsType
      BY <1>1
    <2>2. \A a \in Assets : lot[a] <= p[h].collateral[a] /\ bid[a] <= p[h].liabilities[a]
      BY DEF Holds
    <2> HIDE DEF p, f
    <2> QED BY <2>1, <2>2, PositionsChange
  <1>3. t = [tx EXCEPT !.holders = new, !.stored = stored]
    <2>1. t = [tx EXCEPT !.holders[h] = less, !.holders[f] = more, !.stored = stored]
      BY <1>1 DEF Moved, Transactions
    <2> HIDE DEF less, more, stored
    <2> QED BY <1>1, <2>1 DEF Transactions
  <1>4. stored \in SUBSET Assets
    BY <1>1 DEF Named, Transactions
  <1>5. /\ new \in [Holders -> PositionsType] /\ new[h] = less /\ new[f] = more
        /\ \A k \in Holders \ {h, f} : new[k] = p[k]
    <2> HIDE DEF less, more
    <2> QED BY <1>1, <1>2
  <1>6. ASSUME NEW a \in Assets PROVE Supplied(new, a) = Supplied(p, a) /\ Owing(new, a) = Owing(p, a)
    <2>1. Shifted(p, new, h, f, lot, bid)
      <3>1. \A b \in Assets : /\ lot[b] \in Nat /\ bid[b] \in Nat
                              /\ lot[b] <= p[h].collateral[b] /\ bid[b] <= p[h].liabilities[b]
        BY DEF Holds
      <3>2. /\ h # f /\ new[h] = Without(p[h], lot, bid) /\ new[f] = With(p[f], lot, bid)
            /\ \A k \in Holders \ {h, f} : new[k] = p[k]
        BY <1>5
      <3> HIDE DEF new, p, f, less, more
      <3> QED BY <3>1, <3>2 DEF Shifted
    <2>2. p \in [Holders -> PositionsType] /\ f \in Holders /\ new \in [Holders -> PositionsType]
      BY <1>1, <1>5
    <2> HIDE DEF new, p, f, less, more
    <2> QED BY <2>1, <2>2, MovesKeepTotals
  <1> HIDE DEF new, stored
  <1>7. /\ t.res = tx.res /\ t.held = tx.held /\ t.sent = tx.sent
        /\ t.due = tx.due /\ t.from = tx.from /\ t.count = tx.count
        /\ t.check_health = tx.check_health /\ t.stored = stored /\ t.holders = new
        /\ t \in Transactions
    BY <1>1, <1>3, <1>4, <1>5 DEF Transactions
  <1>8. \A a \in Assets : Matches(t.res[a], t.holders, a)
    BY <1>6, <1>7 DEF CopyTyped, Matches
  <1> QED BY <1>5, <1>7, <1>8 DEF stored
-----------------------------------------------------------------------------
\* What the draft of a step takes out of the quote of k.
LotTaken(k, a) == LotOf(draft.auctions[k], a) - LotOf(draft'.auctions[k], a)
BidTaken(k, a) == BidOf(draft.auctions[k], a) - BidOf(draft'.auctions[k], a)

\* A step on the copy is lawful for an asset if what the reserve comes to owe is
\* covered by the tokens moved or the debt lost, if the backstop's credit falls and
\* its debt is relieved by no more than is taken out of the quotes of them (or else
\* debt is lost), and so for every user but the submitter.
LawfulStep(a) ==
    /\ Matches(tx'.res[a], tx'.holders, a)
    /\ Owed(tx'.res[a]) <= Owed(tx.res[a]) + tx'.held[a] - tx.held[a]
                             + draft'.lost[a] - draft.lost[a]
    /\ draft'.lost[a] >= draft.lost[a]
    /\ a \notin tx'.stored =>
         /\ a \notin tx.stored /\ tx'.res[a] = tx.res[a] /\ tx'.held[a] = tx.held[a]
         /\ draft'.lost[a] = draft.lost[a]
    /\ tx.res[a].backstop_credit - tx'.res[a].backstop_credit <= LotTaken(InterestSale, a)
    /\ tx'.holders[Backstop].liabilities[a] <= tx.holders[Backstop].liabilities[a]
    /\ \/ tx.holders[Backstop].liabilities[a] - tx'.holders[Backstop].liabilities[a]
            <= BidTaken(BadDebtSale, a)
       \/ draft'.lost[a] > draft.lost[a]
    /\ \A user \in Users \ {tx.from} :
         LET old == tx.holders[user]
             new == tx'.holders[user]
         IN  /\ new.supply = old.supply
             /\ new.collateral[a] <= old.collateral[a]
             /\ new.liabilities[a] <= old.liabilities[a]
             /\ old.collateral[a] - new.collateral[a] <= LotTaken(Liquidation(user), a)
             /\ old.liabilities[a] - new.liabilities[a] <= BidTaken(Liquidation(user), a)

\* Lawful steps that move no tokens at the end and mind the submitter's health keep
\* the invariant.
LEMMA LawfulStepKeeps ==
    ASSUME AInv, tx # NoTx, tx' \in Transactions, draft' \in Drafts,
           UNCHANGED <<statusVars, reserve, accrual, positions, live, tokens, auctions, lost>>,
           tx'.from = tx.from, tx'.sent = tx.sent, tx'.due = tx.due,
           \/ tx'.check_health
           \/ /\ ~tx.check_health /\ tx'.holders = tx.holders
              /\ draft'.auctions[Liquidation(tx.from)] = draft.auctions[Liquidation(tx.from)],
           \A a \in Assets : LawfulStep(a)
    PROVE  AInv'
  <1>1. /\ tx \in Transactions /\ draft \in Drafts /\ Careful /\ Typed
        /\ \A a \in Assets : DraftKept(a)
        /\ tx.from \in Holders /\ Backstop \in Holders
        /\ positions \in [Holders -> PositionsType] /\ tx.holders \in [Holders -> PositionsType]
        /\ auctions \in [Keys -> Sales] /\ draft.auctions \in [Keys -> Sales]
        /\ lost \in [Assets -> Nat]
    BY Running
  <1>2. /\ positions' = positions /\ balance' = balance /\ unpaid' = unpaid
        /\ undelivered' = undelivered /\ auctions' = auctions /\ lost' = lost
        /\ reserve' = reserve /\ accrual' = accrual
    BY DEF tokens
  <1>3. /\ tx'.holders \in [Holders -> PositionsType] /\ draft'.auctions \in [Keys -> Sales]
    BY DEF Transactions, Drafts
  <1>4. Careful'
    <2>1. CASE tx'.check_health
      BY <2>1 DEF Careful
    <2>2. CASE ~tx'.check_health
      BY <1>1, <1>2, <2>2 DEF Careful, Own
    <2> QED BY <2>1, <2>2
  <1>5. ASSUME NEW a \in Assets PROVE DraftKept(a)'
    <2>1. DraftKept(a) /\ LawfulStep(a)
      BY <1>1
    <2>2. /\ tx.res[a] \in Used /\ tx'.res[a] \in Used
          /\ tx.held[a] \in Nat /\ tx'.held[a] \in Nat /\ tx.sent[a] \in Nat /\ tx.due[a] \in Nat
          /\ draft.lost[a] \in Nat /\ draft'.lost[a] \in Nat /\ lost[a] \in Nat
          /\ unpaid[a] \in Nat /\ undelivered[a] \in Nat
      BY <1>1 DEF Transactions, Drafts, Typed
    <2>3. Owed(tx.res[a]) \in Int /\ Owed(tx'.res[a]) \in Int
      BY <2>2, OwedInt
    <2>4. DraftSound(a)'
      <3>1. Owed(tx.res[a]) <= tx.held[a] + unpaid[a] - undelivered[a]
                                 + tx.sent[a] - tx.due[a] + draft.lost[a]
        BY <2>1 DEF DraftKept, DraftSound, HeldSettled
      <3>2. Owed(tx'.res[a]) <= Owed(tx.res[a]) + tx'.held[a] - tx.held[a]
                                  + draft'.lost[a] - draft.lost[a]
        BY <2>1 DEF LawfulStep
      <3>3. Owed(tx'.res[a]) <= tx'.held[a] + unpaid[a] - undelivered[a]
                                  + tx.sent[a] - tx.due[a] + draft'.lost[a]
        BY <2>2, <2>3, <3>1, <3>2
      <3>4. Matches(tx'.res[a], tx'.holders, a)
        BY <2>1 DEF LawfulStep
      <3> QED BY <1>2, <3>3, <3>4 DEF DraftSound, HeldSettled, Matches
    <2>5. DraftLoaded(a)'
      <3>1. Load(a)' = Load(a)
        BY <1>2 DEF Load
      <3> QED BY <1>2, <2>1, <3>1 DEF DraftKept, DraftLoaded, LawfulStep
    <2>6. DebtQuoted(a)'
      <3> DEFINE o == positions[Backstop].liabilities[a]
                 m == tx.holders[Backstop].liabilities[a]
                 n == tx'.holders[Backstop].liabilities[a]
                 b == BidOf(auctions[BadDebtSale], a)
                 c == BidOf(draft.auctions[BadDebtSale], a)
                 d == BidOf(draft'.auctions[BadDebtSale], a)
      <3>1. o \in Nat /\ m \in Nat /\ n \in Nat
        BY <1>1, <1>3, PositionParts
      <3>2. b \in Nat /\ c \in Nat /\ d \in Nat
        BY <1>1, <1>3, KeysApart, SaleParts DEF Sold
      <3>3. /\ o - m >= 0 /\ draft.lost[a] >= lost[a]
            /\ o - m > b - c => draft.lost[a] > lost[a]
        BY <2>1 DEF DraftKept, DebtQuoted
      <3>4. /\ n <= m /\ draft'.lost[a] >= draft.lost[a]
            /\ m - n <= c - d \/ draft'.lost[a] > draft.lost[a]
        BY <2>1 DEF LawfulStep, BidTaken
      <3> HIDE DEF o, m, n, b, c, d
      <3>5. /\ o - n >= 0 /\ draft'.lost[a] >= lost[a]
            /\ o - n > b - d => draft'.lost[a] > lost[a]
        BY <2>2, <3>1, <3>2, <3>3, <3>4
      <3>6. DebtQuoted(a)' = (/\ o - n >= 0 /\ draft'.lost[a] >= lost[a]
                              /\ o - n > b - d => draft'.lost[a] > lost[a])
        BY <1>2 DEF DebtQuoted, o, n, b, d
      <3> QED BY <3>5, <3>6
    <2>7. Credited(draft.auctions[InterestSale], a, tx.res[a])'
      <3> DEFINE c == LotOf(draft.auctions[InterestSale], a)
                 d == LotOf(draft'.auctions[InterestSale], a)
                 x == tx.res[a].backstop_credit
                 y == tx'.res[a].backstop_credit
      <3>1. c \in Nat /\ d \in Nat /\ x \in Nat /\ y \in Nat
        BY <1>1, <1>3, <2>2, KeysApart, SaleParts, UsedFields DEF Sold
      <3>2. c <= x /\ x - y <= c - d
        BY <2>1 DEF DraftKept, Credited, LawfulStep, LotTaken
      <3>3. d <= y
        <4> HIDE DEF c, d, x, y
        <4> QED BY <3>1, <3>2
      <3> QED BY <3>3 DEF Credited
    <2>8. ASSUME NEW user \in Users \ {tx.from} PROVE UserQuoted(user, a)'
      <3> DEFINE k == Liquidation(user)
                 o == positions[user]
                 m == tx.holders[user]
                 n == tx'.holders[user]
                 lo == LotOf(auctions[k], a)
                 lm == LotOf(draft.auctions[k], a)
                 ln == LotOf(draft'.auctions[k], a)
                 bo == BidOf(auctions[k], a)
                 bm == BidOf(draft.auctions[k], a)
                 bn == BidOf(draft'.auctions[k], a)
      <3>1. /\ o.collateral[a] \in Nat /\ m.collateral[a] \in Nat /\ n.collateral[a] \in Nat
            /\ o.liabilities[a] \in Nat /\ m.liabilities[a] \in Nat /\ n.liabilities[a] \in Nat
        BY <1>1, <1>3, PositionParts DEF Holders
      <3>2. /\ lo \in Nat /\ lm \in Nat /\ ln \in Nat
            /\ bo \in Nat /\ bm \in Nat /\ bn \in Nat
        BY <1>1, <1>3, KeysApart, SaleParts DEF Sold
      <3>3. /\ m.supply = o.supply
            /\ m.collateral[a] <= o.collateral[a] /\ m.liabilities[a] <= o.liabilities[a]
            /\ o.collateral[a] - m.collateral[a] <= lo - lm
            /\ o.liabilities[a] - m.liabilities[a] <= bo - bm
        BY <2>1 DEF DraftKept, UserQuoted
      <3>4. /\ n.supply = m.supply
            /\ n.collateral[a] <= m.collateral[a] /\ n.liabilities[a] <= m.liabilities[a]
            /\ m.collateral[a] - n.collateral[a] <= lm - ln
            /\ m.liabilities[a] - n.liabilities[a] <= bm - bn
        BY <2>1 DEF LawfulStep, LotTaken, BidTaken
      <3> HIDE DEF o, m, n, lo, lm, ln, bo, bm, bn
      <3>5. /\ n.supply = o.supply
            /\ n.collateral[a] <= o.collateral[a] /\ n.liabilities[a] <= o.liabilities[a]
            /\ o.collateral[a] - n.collateral[a] <= lo - ln
            /\ o.liabilities[a] - n.liabilities[a] <= bo - bn
        BY <3>1, <3>2, <3>3, <3>4
      <3> QED BY <1>2, <3>5 DEF UserQuoted, o, n, lo, ln, bo, bn
    <2> QED BY <2>4, <2>5, <2>6, <2>7, <2>8 DEF DraftKept
  <1> QED BY <1>4, <1>5, WorkKeeps

\* A request that is counted only changes the count.
LEMMA Counted ==
    ASSUME NEW t \in Transactions, t.count < MaxRequests,
           NEW new, new = [t EXCEPT !.count = @ + 1]
    PROVE  /\ new \in Transactions
           /\ new.from = t.from /\ new.res = t.res /\ new.stored = t.stored
           /\ new.holders = t.holders /\ new.held = t.held /\ new.sent = t.sent
           /\ new.due = t.due /\ new.check_health = t.check_health
  <1>1. t.count + 1 \in 0..MaxRequests
    BY LendingAssumption DEF Transactions
  <1> DEFINE n == t.count + 1
  <1>2. new = [t EXCEPT !.count = n]
    OBVIOUS
  <1> HIDE DEF n
  <1>3. n \in 0..MaxRequests
    BY <1>1 DEF n
  <1> QED BY <1>2, <1>3 DEF Transactions

\* Deleting its own liquidation has the submitter's health checked.
LEMMA DeleteKeeps ==
    ASSUME AInv, DeleteLiquidation
    PROVE  AInv'
  <1>1. /\ tx # NoTx /\ tx.count < MaxRequests
        /\ tx' = [tx EXCEPT !.check_health = TRUE, !.count = @ + 1]
        /\ draft' = [draft EXCEPT !.auctions[Liquidation(tx.from)] = NoAuction]
        /\ UNCHANGED <<statusVars, reserve, accrual, positions, live, tokens, auctions, lost>>
    BY DEF DeleteLiquidation, InRequest
  <1>2. /\ tx \in Transactions /\ draft \in Drafts /\ CopyTyped
        /\ draft.auctions \in [Keys -> Sales] /\ tx.from \in Users /\ Backstop \in Holders
        /\ tx.holders \in [Holders -> PositionsType]
    BY <1>1, Running
  <1>3. /\ tx'.from = tx.from /\ tx'.res = tx.res /\ tx'.stored = tx.stored
        /\ tx'.holders = tx.holders /\ tx'.held = tx.held /\ tx'.sent = tx.sent
        /\ tx'.due = tx.due /\ tx'.check_health = TRUE /\ tx' \in Transactions
    <2> DEFINE t == [tx EXCEPT !.check_health = TRUE]
    <2>1. /\ t \in Transactions /\ t.count = tx.count /\ t.from = tx.from /\ t.res = tx.res
          /\ t.stored = tx.stored /\ t.holders = tx.holders /\ t.held = tx.held
          /\ t.sent = tx.sent /\ t.due = tx.due /\ t.check_health = TRUE
      BY <1>2 DEF Transactions
    <2>2. tx' = [t EXCEPT !.count = @ + 1]
      BY <1>1, <1>2 DEF Transactions
    <2> HIDE DEF t
    <2> QED BY <1>1, <2>1, <2>2, Counted
  <1>4. /\ draft'.auctions = [draft.auctions EXCEPT ![Liquidation(tx.from)] = NoAuction]
        /\ draft'.lost = draft.lost /\ draft' \in Drafts
    BY <1>1, <1>2 DEF Drafts, Sales
  <1>5. ASSUME NEW k \in Keys, k # Liquidation(tx.from), NEW a \in Assets
        PROVE  LotTaken(k, a) = 0 /\ BidTaken(k, a) = 0
    <2>1. draft'.auctions[k] = draft.auctions[k]
      BY <1>2, <1>4, <1>5
    <2>2. LotOf(draft.auctions[k], a) \in Nat /\ BidOf(draft.auctions[k], a) \in Nat
      BY <1>2, SaleParts DEF Sold
    <2> QED BY <2>1, <2>2 DEF LotTaken, BidTaken
  <1>6. ASSUME NEW a \in Assets PROVE LawfulStep(a)
    <2>1. /\ tx.res[a] \in Used /\ tx.held[a] \in Nat /\ draft.lost[a] \in Nat
          /\ Matches(tx.res[a], tx.holders, a)
      BY <1>2 DEF Transactions, Drafts, CopyTyped
    <2>2. Owed(tx.res[a]) \in Int /\ tx.res[a].backstop_credit \in Nat
      BY <2>1, OwedInt, UsedFields
    <2>3. LotTaken(InterestSale, a) = 0 /\ BidTaken(BadDebtSale, a) = 0
      BY <1>2, <1>5, KeysApart
    <2>4. \A user \in Users \ {tx.from} :
            /\ LotTaken(Liquidation(user), a) = 0 /\ BidTaken(Liquidation(user), a) = 0
            /\ tx.holders[user].collateral[a] \in Nat /\ tx.holders[user].liabilities[a] \in Nat
      BY <1>2, <1>5, KeysApart, PositionParts DEF Holders
    <2>5. tx.holders[Backstop].liabilities[a] \in Nat
      BY <1>2, PositionParts
    <2> QED BY <1>3, <1>4, <2>1, <2>2, <2>3, <2>4, <2>5 DEF LawfulStep
  <1> QED BY <1>1, <1>3, <1>4, <1>6, LawfulStepKeeps
-----------------------------------------------------------------------------
\* Every fill takes out of its quote at least what it moves, and leaves the others.
LEMMA FilledMoves ==
    ASSUME AInv, NEW k \in Keys, NEW percent \in 1..Hundred, Fillable(k),
           NEW t \in Transactions, t.count = tx.count, NEW b \in BackstopData,
           NEW socialised, \A a \in Assets : socialised[a] \in Nat,
           Filled(k, percent, t, b, socialised),
           NEW fill, fill = ToFill(draft.auctions[k], percent)
    PROVE  /\ tx # NoTx /\ tx' \in Transactions /\ draft' \in Drafts
           /\ UNCHANGED <<statusVars, reserve, accrual, positions, live, tokens, auctions, lost>>
           /\ tx'.from = t.from /\ tx'.res = t.res /\ tx'.stored = t.stored
           /\ tx'.holders = t.holders /\ tx'.held = t.held /\ tx'.sent = t.sent
           /\ tx'.due = t.due /\ tx'.check_health = t.check_health
           /\ \A a \in Assets : /\ draft'.lost[a] = draft.lost[a] + socialised[a]
                                /\ draft.lost[a] \in Nat
                                /\ fill.lot[a] <= LotTaken(k, a) /\ LotTaken(k, a) \in Int
                                /\ fill.bid[a] <= BidTaken(k, a) /\ BidTaken(k, a) \in Int
           /\ \A x \in Sold : fill.lot[x] \in Nat /\ fill.bid[x] \in Nat
           /\ \A j \in Keys \ {k}, a \in Assets : LotTaken(j, a) = 0 /\ BidTaken(j, a) = 0
           /\ \A j \in Keys \ {k} : draft'.auctions[j] = draft.auctions[j]
  <1>1. /\ tx # NoTx /\ tx.count < MaxRequests /\ draft.auctions[k] # NoAuction
        /\ draft.auctions[k].age >= 0
    BY DEF Fillable, InRequest
  <1>2. /\ draft \in Drafts /\ draft.auctions \in [Keys -> Sales]
        /\ draft.lost \in [Assets -> Nat]
    BY <1>1, Running
  <1> DEFINE q == draft.auctions[k]
             rest == Remaining(q, percent)
             loss == [a \in Assets |-> draft.lost[a] + socialised[a]]
  <1>3. /\ tx' = [t EXCEPT !.count = @ + 1]
        /\ draft' = [auctions |-> [draft.auctions EXCEPT ![k] = rest], backstop |-> b,
                     lost |-> loss]
        /\ UNCHANGED <<statusVars, reserve, accrual, positions, live, tokens, auctions, lost>>
    BY DEF Filled
  <1>4. /\ tx' \in Transactions
        /\ tx'.from = t.from /\ tx'.res = t.res /\ tx'.stored = t.stored
        /\ tx'.holders = t.holders /\ tx'.held = t.held /\ tx'.sent = t.sent
        /\ tx'.due = t.due /\ tx'.check_health = t.check_health
    BY <1>1, <1>3, Counted
  <1>5. q \in Sales /\ q # NoAuction /\ q.age >= 0
    BY <1>1, <1>2
  <1>6. /\ rest \in Sales
        /\ \A x \in Sold :
             /\ fill.bid[x] \in Nat /\ fill.lot[x] \in Nat
             /\ fill.bid[x] <= q.bid[x] - BidOf(rest, x)
             /\ fill.lot[x] <= q.lot[x] - LotOf(rest, x)
    <2>1. fill = ToFill(q, percent)
      OBVIOUS
    <2> HIDE DEF q
    <2> QED BY <1>5, <2>1, FillShrinks
  <1>7. loss \in [Assets -> Nat] /\ \A a \in Assets : loss[a] = draft.lost[a] + socialised[a]
    BY <1>2
  <1> HIDE DEF rest, loss
  <1>8. /\ draft'.auctions = [draft.auctions EXCEPT ![k] = rest] /\ draft'.lost = loss
        /\ draft' \in Drafts
    BY <1>2, <1>3, <1>6, <1>7 DEF Drafts
  <1>9. draft'.auctions[k] = rest /\ \A j \in Keys \ {k} : draft'.auctions[j] = draft.auctions[j]
    BY <1>2, <1>8
  <1>10. ASSUME NEW a \in Assets
         PROVE  /\ fill.lot[a] <= LotTaken(k, a) /\ LotTaken(k, a) \in Int
                /\ fill.bid[a] <= BidTaken(k, a) /\ BidTaken(k, a) \in Int
    <2>1. a \in Sold /\ LotOf(q, a) = q.lot[a] /\ BidOf(q, a) = q.bid[a]
      BY <1>5 DEF LotOf, BidOf, Sold
    <2>2. /\ LotOf(q, a) \in Nat /\ BidOf(q, a) \in Nat
          /\ LotOf(rest, a) \in Nat /\ BidOf(rest, a) \in Nat
      BY <1>5, <1>6, <2>1, SaleParts
    <2> QED BY <1>6, <1>9, <2>1, <2>2 DEF LotTaken, BidTaken
  <1>11. ASSUME NEW j \in Keys \ {k}, NEW a \in Assets
         PROVE  LotTaken(j, a) = 0 /\ BidTaken(j, a) = 0
    <2>1. LotOf(draft.auctions[j], a) \in Nat /\ BidOf(draft.auctions[j], a) \in Nat
      BY <1>2, SaleParts DEF Sold
    <2> QED BY <1>9, <2>1 DEF LotTaken, BidTaken
  <1> QED BY <1>1, <1>2, <1>3, <1>4, <1>6, <1>7, <1>8, <1>9, <1>10, <1>11

\* Filling a user's liquidation moves its collateral and debt to the filler.
LEMMA FillUserKeeps ==
    ASSUME AInv, NEW user \in Users, NEW percent \in 1..Hundred,
           FillUserLiquidation(user, percent)
    PROVE  AInv'
  <1> DEFINE k == Liquidation(user)
             fill == ToFill(draft.auctions[k], percent)
             m == Moved(user, fill.lot, fill.bid)
             t == [m EXCEPT !.check_health = TRUE]
  <1>1. /\ Fillable(k) /\ Holds(user, fill.lot, fill.bid)
        /\ Filled(k, percent, t, draft.backstop, Zero)
    BY DEF FillUserLiquidation
  <1>2. /\ tx # NoTx /\ k[2] = user /\ user # tx.from /\ user \in Holders
        /\ draft.auctions[k] # NoAuction /\ draft.auctions[k].age >= 0
        /\ k \in Keys /\ k # InterestSale /\ k # BadDebtSale
        /\ \A u \in Users : u # user => Liquidation(u) # k
    BY <1>1, KeysApart DEF Fillable, InRequest, Liquidation, Holders
  <1>3. /\ tx \in Transactions /\ CopyTyped /\ draft \in Drafts
        /\ draft.auctions \in [Keys -> Sales] /\ draft.backstop \in BackstopData
        /\ tx.holders \in [Holders -> PositionsType] /\ tx.from \in Users
        /\ Backstop \in Holders /\ Backstop # user /\ Backstop # tx.from
    BY <1>2, Running, LendingAssumption
  <1>4. \A a \in Assets : fill.lot[a] \in Nat /\ fill.bid[a] \in Nat
    <2>1. draft.auctions[k] \in Sales
      BY <1>2, <1>3
    <2> QED BY <1>2, <2>1, FillShrinks DEF Sold
  <1> HIDE DEF k
  <1>5. /\ m \in Transactions /\ m.res = tx.res /\ m.held = tx.held /\ m.sent = tx.sent
        /\ m.due = tx.due /\ m.from = tx.from /\ m.count = tx.count
        /\ m.stored = tx.stored \cup Named(fill.lot) \cup Named(fill.bid)
        /\ m.holders[user] = Without(tx.holders[user], fill.lot, fill.bid)
        /\ \A h \in Holders \ {user, tx.from} : m.holders[h] = tx.holders[h]
        /\ \A a \in Assets : Matches(m.res[a], m.holders, a)
    <2> HIDE DEF m, fill
    <2>1. m = Moved(user, fill.lot, fill.bid)
      BY DEF m
    <2> QED BY <1>1, <1>2, <1>3, <1>4, <2>1, MovedCopy
  <1> HIDE DEF m
  <1>6. /\ t \in Transactions /\ t.res = m.res /\ t.held = m.held /\ t.sent = m.sent
        /\ t.due = m.due /\ t.from = m.from /\ t.count = m.count /\ t.stored = m.stored
        /\ t.holders = m.holders /\ t.check_health = TRUE
    BY <1>5 DEF Transactions
  <1> HIDE DEF t
  <1>7. /\ tx' \in Transactions /\ draft' \in Drafts
        /\ UNCHANGED <<statusVars, reserve, accrual, positions, live, tokens, auctions, lost>>
        /\ tx'.from = t.from /\ tx'.res = t.res /\ tx'.stored = t.stored
        /\ tx'.holders = t.holders /\ tx'.held = t.held /\ tx'.sent = t.sent
        /\ tx'.due = t.due /\ tx'.check_health = t.check_health
        /\ \A a \in Assets : /\ draft'.lost[a] = draft.lost[a] + Zero[a]
                             /\ draft.lost[a] \in Nat
                             /\ fill.lot[a] <= LotTaken(k, a) /\ LotTaken(k, a) \in Int
                             /\ fill.bid[a] <= BidTaken(k, a) /\ BidTaken(k, a) \in Int
        /\ \A j \in Keys \ {k}, a \in Assets : LotTaken(j, a) = 0 /\ BidTaken(j, a) = 0
    <2>1. \A a \in Assets : Zero[a] \in Nat
      BY DEF Zero
    <2>2. t.count = tx.count
      BY <1>5, <1>6
    <2>3. fill = ToFill(draft.auctions[k], percent)
      OBVIOUS
    <2> HIDE DEF fill
    <2> QED BY <1>1, <1>2, <1>3, <1>6, <2>1, <2>2, <2>3, FilledMoves
  <1> HIDE DEF fill
  <1>8. ASSUME NEW a \in Assets PROVE LawfulStep(a)
    <2>1. /\ tx.res[a] \in Used /\ tx.held[a] \in Nat /\ Owed(tx.res[a]) \in Int
          /\ tx.res[a].backstop_credit \in Nat
          /\ tx.holders[Backstop].liabilities[a] \in Nat
      BY <1>3, OwedInt, UsedFields, PositionParts DEF Transactions
    <2>2. draft'.lost[a] = draft.lost[a] /\ draft.lost[a] \in Nat
      BY <1>7 DEF Zero
    <2>3. /\ tx'.res[a] = tx.res[a] /\ tx'.held[a] = tx.held[a]
          /\ Matches(tx'.res[a], tx'.holders, a) /\ tx.stored \subseteq tx'.stored
      BY <1>5, <1>6, <1>7
    <2>4. LotTaken(InterestSale, a) = 0 /\ BidTaken(BadDebtSale, a) = 0
      BY <1>2, <1>7, KeysApart
    <2>5. tx'.holders[Backstop] = tx.holders[Backstop]
      BY <1>3, <1>5, <1>6, <1>7
    <2>6. ASSUME NEW other \in Users \ {tx.from}
          PROVE  LET old == tx.holders[other]
                     new == tx'.holders[other]
                 IN  /\ new.supply = old.supply
                     /\ new.collateral[a] <= old.collateral[a]
                     /\ new.liabilities[a] <= old.liabilities[a]
                     /\ old.collateral[a] - new.collateral[a] <= LotTaken(Liquidation(other), a)
                     /\ old.liabilities[a] - new.liabilities[a] <= BidTaken(Liquidation(other), a)
      <3>1. /\ tx.holders[other] \in PositionsType /\ other \in Holders
            /\ tx.holders[other].collateral[a] \in Nat
            /\ tx.holders[other].liabilities[a] \in Nat
        BY <1>3, PositionParts DEF Holders
      <3>2. CASE other = user
        <4> DEFINE old == tx.holders[user]
                   new == tx'.holders[user]
        <4>1. new = Without(old, fill.lot, fill.bid) /\ old \in PositionsType
          BY <1>5, <1>6, <1>7, <3>1, <3>2
        <4>2. \A b \in Assets : /\ fill.lot[b] <= old.collateral[b]
                                /\ fill.bid[b] <= old.liabilities[b]
          BY <1>1 DEF Holds
        <4>3. old.collateral[a] \in Nat /\ old.liabilities[a] \in Nat
          BY <3>1, <3>2
        <4> HIDE DEF old, new
        <4>4. /\ new.supply = old.supply
              /\ new.collateral[a] = old.collateral[a] - fill.lot[a]
              /\ new.liabilities[a] = old.liabilities[a] - fill.bid[a]
          BY <1>4, <4>1, <4>2, PositionsChange
        <4>5. /\ fill.lot[a] \in Nat /\ fill.lot[a] <= LotTaken(k, a) /\ LotTaken(k, a) \in Int
              /\ fill.bid[a] \in Nat /\ fill.bid[a] <= BidTaken(k, a) /\ BidTaken(k, a) \in Int
              /\ fill.lot[a] <= old.collateral[a] /\ fill.bid[a] <= old.liabilities[a]
          BY <1>4, <1>7, <4>2
        <4>6. /\ new.supply = old.supply
              /\ new.collateral[a] <= old.collateral[a]
              /\ new.liabilities[a] <= old.liabilities[a]
              /\ old.collateral[a] - new.collateral[a] <= LotTaken(k, a)
              /\ old.liabilities[a] - new.liabilities[a] <= BidTaken(k, a)
          BY <4>3, <4>4, <4>5
        <4> QED BY <3>2, <4>6 DEF old, new, k
      <3>3. CASE other # user
        <4>1. tx'.holders[other] = tx.holders[other]
          BY <1>5, <1>6, <1>7, <3>1, <3>3
        <4>2. LotTaken(Liquidation(other), a) = 0 /\ BidTaken(Liquidation(other), a) = 0
          BY <1>2, <1>7, <3>3, KeysApart
        <4> QED BY <3>1, <4>1, <4>2
      <3> QED BY <3>2, <3>3
    <2>7. tx'.holders[Backstop].liabilities[a] = tx.holders[Backstop].liabilities[a]
      BY <2>5
    <2>8. /\ Owed(tx'.res[a]) <= Owed(tx.res[a]) + tx'.held[a] - tx.held[a]
                                   + draft'.lost[a] - draft.lost[a]
          /\ tx.res[a].backstop_credit - tx'.res[a].backstop_credit <= LotTaken(InterestSale, a)
          /\ tx.holders[Backstop].liabilities[a] - tx'.holders[Backstop].liabilities[a]
               <= BidTaken(BadDebtSale, a)
          /\ draft'.lost[a] >= draft.lost[a]
          /\ tx'.holders[Backstop].liabilities[a] <= tx.holders[Backstop].liabilities[a]
      BY <2>1, <2>2, <2>3, <2>4, <2>7
    <2> QED BY <2>2, <2>3, <2>6, <2>8 DEF LawfulStep
  <1>9. /\ tx'.from = tx.from /\ tx'.sent = tx.sent /\ tx'.due = tx.due /\ tx'.check_health
    BY <1>5, <1>6, <1>7
  <1> QED BY <1>2, <1>7, <1>8, <1>9, LawfulStepKeeps

\* Taking credit from a used reserve keeps the rest of it.
LEMMA CreditTaken ==
    ASSUME NEW r \in Used, NEW sold \in Nat, sold <= r.backstop_credit
    PROVE  /\ CreditAfter(r, sold) \in Used
           /\ CreditAfter(r, sold).b_supply = r.b_supply
           /\ CreditAfter(r, sold).d_supply = r.d_supply
           /\ CreditAfter(r, sold).backstop_credit = r.backstop_credit - sold
           /\ Owed(CreditAfter(r, sold)) = Owed(r) - sold
  <1> DEFINE new == CreditAfter(r, sold)
  <1>1. /\ new \in Used /\ new.b_rate = r.b_rate /\ new.d_rate = r.d_rate
        /\ new.b_supply = r.b_supply /\ new.d_supply = r.d_supply
        /\ new.backstop_credit = r.backstop_credit - sold
    BY UsedFields DEF CreditAfter, Used, Reserves
  <1> HIDE DEF new
  <1>2. TotalSupply(new) = TotalSupply(r) /\ TotalLiabilities(new) = TotalLiabilities(r)
    BY <1>1 DEF TotalSupply, TotalLiabilities, ToAssetFromB, ToAssetFromD
  <1>3. Owed(new) = Owed(r) - sold
    BY <1>1, <1>2, TotalsNat, UsedFields DEF Owed
  <1> QED BY <1>1, <1>3 DEF new

\* Filling the interest auction pays credit out of the tokens of the reserve at once.
LEMMA FillInterestKeeps ==
    ASSUME AInv, NEW percent \in 1..Hundred, FillInterest(percent)
    PROVE  AInv'
  <1> DEFINE k == InterestSale
             fill == ToFill(draft.auctions[k], percent)
             donated == fill.bid[BackstopToken]
             res == [a \in Assets |-> CreditAfter(tx.res[a], fill.lot[a])]
             held == [a \in Assets |-> tx.held[a] - fill.lot[a]]
             stored == tx.stored \cup Named(fill.lot)
             t == [tx EXCEPT !.res = res, !.held = held, !.stored = stored]
             b == WithTokens(draft.backstop, draft.backstop.tokens + donated)
  <1>1. /\ Fillable(k) /\ \A a \in Assets : fill.lot[a] <= tx.held[a]
        /\ tx # NoTx /\ draft.auctions[k] # NoAuction /\ draft.auctions[k].age >= 0
    BY DEF FillInterest, Fillable, InRequest
  <1>2. /\ tx \in Transactions /\ CopyTyped /\ draft \in Drafts
        /\ draft.auctions \in [Keys -> Sales] /\ draft.backstop \in BackstopData
        /\ tx.holders \in [Holders -> PositionsType] /\ tx.from \in Users
        /\ Backstop \in Holders /\ \A a \in Assets : DraftKept(a)
        /\ k \in Keys /\ draft.auctions[k] \in Sales
    BY <1>1, Running, KeysApart
  <1>3. Filled(k, percent, t, b, Zero)
    <2>1. t = [tx EXCEPT !.res = [a \in Assets |-> CreditAfter(@[a], fill.lot[a])],
                         !.held = [a \in Assets |-> @[a] - fill.lot[a]],
                         !.stored = @ \cup Named(fill.lot)]
      BY <1>2 DEF Transactions
    <2> HIDE DEF t
    <2> QED BY <2>1 DEF FillInterest
  <1>4. /\ \A x \in Sold : fill.lot[x] \in Nat /\ fill.bid[x] \in Nat
        /\ \A a \in Assets : fill.lot[a] <= LotOf(draft.auctions[k], a)
    <2> DEFINE q == draft.auctions[k]
    <2>1. q \in Sales /\ q # NoAuction /\ q.age >= 0 /\ fill = ToFill(q, percent)
      BY <1>1, <1>2
    <2> HIDE DEF q, fill
    <2>2. /\ \A x \in Sold : fill.lot[x] \in Nat /\ fill.bid[x] \in Nat
          /\ \A x \in Sold : fill.lot[x] <= q.lot[x] - LotOf(Remaining(q, percent), x)
          /\ Remaining(q, percent) \in Sales
      BY <2>1, FillShrinks
    <2>3. ASSUME NEW a \in Assets PROVE fill.lot[a] <= LotOf(q, a)
      <3>1. a \in Sold /\ LotOf(q, a) = q.lot[a] /\ q.lot[a] \in Nat
        BY <2>1, SaleFields DEF LotOf, Sold
      <3>2. LotOf(Remaining(q, percent), a) \in Nat
        BY <2>2, <3>1, SaleParts
      <3> QED BY <2>2, <3>1, <3>2
    <2> QED BY <2>2, <2>3 DEF q
  <1>5. ASSUME NEW a \in Assets
        PROVE  /\ fill.lot[a] \in Nat /\ tx.res[a] \in Used /\ fill.lot[a] <= tx.held[a]
               /\ tx.held[a] \in Nat /\ tx.res[a].backstop_credit \in Nat
               /\ fill.lot[a] <= tx.res[a].backstop_credit
    <2>1. a \in Sold /\ tx.res[a] \in Used /\ tx.held[a] \in Nat
      BY <1>2 DEF Sold, Transactions
    <2>2. LotOf(draft.auctions[k], a) <= tx.res[a].backstop_credit
      BY <1>2 DEF DraftKept, Credited
    <2>3. tx.res[a].backstop_credit \in Nat /\ LotOf(draft.auctions[k], a) \in Nat
      BY <1>2, <2>1, UsedFields, SaleParts
    <2> HIDE DEF fill
    <2> QED BY <1>1, <1>4, <2>1, <2>2, <2>3
  <1>6. donated \in Nat
    BY <1>4 DEF Sold
  <1> HIDE DEF fill, donated
  <1>7. res \in [Assets -> Used] /\ held \in [Assets -> Nat] /\ stored \in SUBSET Assets
    BY <1>2, <1>5, CreditTaken DEF Transactions, Named
  <1>8. \A a \in Assets : res[a] = CreditAfter(tx.res[a], fill.lot[a])
                          /\ held[a] = tx.held[a] - fill.lot[a]
                          /\ (a \notin stored => a \notin tx.stored /\ fill.lot[a] = 0)
    BY <1>5 DEF Named
  <1> HIDE DEF res, held
  <1>9. /\ t \in Transactions /\ t.res = res /\ t.held = held /\ t.sent = tx.sent
        /\ t.due = tx.due /\ t.from = tx.from /\ t.count = tx.count /\ t.stored = stored
        /\ t.holders = tx.holders /\ t.check_health = tx.check_health
    <2> HIDE DEF stored
    <2> QED BY <1>2, <1>7 DEF Transactions
  <1>10. b \in BackstopData
    <2> DEFINE n == draft.backstop.tokens + donated
    <2>1. n \in Nat
      BY <1>2, <1>6 DEF BackstopData
    <2> HIDE DEF n
    <2>2. /\ MulFloor(n, LpBlnd, Scalar7) \in Nat /\ MulFloor(n, LpUsdc, Scalar7) \in Nat
      BY <2>1, AuctionsAssumption, PoolConstantsAssumption, MulFloorBounds
    <2> QED BY <1>2, <2>1, <2>2 DEF WithTokens, BackstopData, n
  <1> HIDE DEF t, b
  <1>11. /\ tx' \in Transactions /\ draft' \in Drafts
         /\ UNCHANGED <<statusVars, reserve, accrual, positions, live, tokens, auctions, lost>>
         /\ tx'.from = t.from /\ tx'.res = t.res /\ tx'.stored = t.stored
         /\ tx'.holders = t.holders /\ tx'.held = t.held /\ tx'.sent = t.sent
         /\ tx'.due = t.due /\ tx'.check_health = t.check_health
         /\ \A a \in Assets : /\ draft'.lost[a] = draft.lost[a] + Zero[a]
                              /\ draft.lost[a] \in Nat
                              /\ fill.lot[a] <= LotTaken(k, a) /\ LotTaken(k, a) \in Int
         /\ \A j \in Keys \ {k}, a \in Assets : LotTaken(j, a) = 0 /\ BidTaken(j, a) = 0
         /\ \A j \in Keys \ {k} : draft'.auctions[j] = draft.auctions[j]
    <2>1. (\A a \in Assets : Zero[a] \in Nat) /\ t.count = tx.count
      BY <1>9 DEF Zero
    <2>2. fill = ToFill(draft.auctions[k], percent)
      BY DEF fill
    <2> QED BY <1>1, <1>2, <1>3, <1>9, <1>10, <2>1, <2>2, FilledMoves
  <1>12. ASSUME NEW a \in Assets PROVE LawfulStep(a)
    <2>1. /\ Owed(tx.res[a]) \in Int /\ tx.holders[Backstop].liabilities[a] \in Nat
          /\ tx.res[a].backstop_credit \in Nat
      BY <1>2, <1>5, OwedInt, PositionParts
    <2>2. draft'.lost[a] = draft.lost[a] /\ draft.lost[a] \in Nat
      BY <1>11 DEF Zero
    <2>3. /\ tx'.res[a] = CreditAfter(tx.res[a], fill.lot[a])
          /\ tx'.held[a] = tx.held[a] - fill.lot[a] /\ tx'.holders = tx.holders
          /\ a \notin tx'.stored => a \notin tx.stored /\ fill.lot[a] = 0
      BY <1>8, <1>9, <1>11
    <2>4. /\ Owed(tx'.res[a]) = Owed(tx.res[a]) - fill.lot[a]
          /\ tx'.res[a].b_supply = tx.res[a].b_supply /\ tx'.res[a].d_supply = tx.res[a].d_supply
          /\ tx'.res[a].backstop_credit = tx.res[a].backstop_credit - fill.lot[a]
      BY <1>5, <2>3, CreditTaken
    <2>5. Matches(tx'.res[a], tx'.holders, a)
      BY <1>2, <2>3, <2>4 DEF CopyTyped, Matches
    <2>6. BidTaken(BadDebtSale, a) = 0
      BY <1>11, KeysApart
    <2>7. ASSUME NEW user \in Users \ {tx.from}
          PROVE  /\ LotTaken(Liquidation(user), a) = 0 /\ BidTaken(Liquidation(user), a) = 0
                 /\ tx.holders[user].collateral[a] \in Nat
                 /\ tx.holders[user].liabilities[a] \in Nat
      BY <1>2, <1>11, KeysApart, PositionParts DEF Holders
    <2>8. /\ fill.lot[a] \in Nat /\ fill.lot[a] <= LotTaken(InterestSale, a)
          /\ LotTaken(InterestSale, a) \in Int /\ tx.held[a] \in Nat
      BY <1>5, <1>11
    <2>9. /\ Owed(tx'.res[a]) <= Owed(tx.res[a]) + tx'.held[a] - tx.held[a]
                                   + draft'.lost[a] - draft.lost[a]
          /\ tx.res[a].backstop_credit - tx'.res[a].backstop_credit <= LotTaken(InterestSale, a)
          /\ tx.holders[Backstop].liabilities[a] - tx'.holders[Backstop].liabilities[a]
               <= BidTaken(BadDebtSale, a)
          /\ draft'.lost[a] >= draft.lost[a]
          /\ tx'.holders[Backstop].liabilities[a] <= tx.holders[Backstop].liabilities[a]
      BY <2>1, <2>2, <2>3, <2>4, <2>6, <2>8
    <2>10. a \notin tx'.stored => /\ a \notin tx.stored /\ tx'.res[a] = tx.res[a]
                                  /\ tx'.held[a] = tx.held[a] /\ draft'.lost[a] = draft.lost[a]
      <3>1. ASSUME fill.lot[a] = 0 PROVE tx'.res[a] = tx.res[a] /\ tx'.held[a] = tx.held[a]
        <4>1. CreditAfter(tx.res[a], 0) = tx.res[a]
          BY <1>5, UsedFields DEF CreditAfter, Used, Reserves
        <4> QED BY <1>5, <2>3, <3>1, <4>1
      <3> QED BY <2>2, <2>3, <3>1
    <2>11. \A user \in Users \ {tx.from} :
             LET old == tx.holders[user]
                 new == tx'.holders[user]
             IN  /\ new.supply = old.supply
                 /\ new.collateral[a] <= old.collateral[a]
                 /\ new.liabilities[a] <= old.liabilities[a]
                 /\ old.collateral[a] - new.collateral[a] <= LotTaken(Liquidation(user), a)
                 /\ old.liabilities[a] - new.liabilities[a] <= BidTaken(Liquidation(user), a)
      BY <2>3, <2>7
    <2> QED BY <2>5, <2>9, <2>10, <2>11 DEF LawfulStep
  <1>13. /\ tx'.from = tx.from /\ tx'.sent = tx.sent /\ tx'.due = tx.due
         /\ tx'.holders = tx.holders /\ tx'.check_health = tx.check_health
         /\ draft'.auctions[Liquidation(tx.from)] = draft.auctions[Liquidation(tx.from)]
    BY <1>2, <1>9, <1>11, KeysApart
  <1> QED BY <1>1, <1>2, <1>11, <1>12, <1>13, LawfulStepKeeps DEF Transactions
-----------------------------------------------------------------------------
\* Forgiving the backstop's debt costs a reserve no more than the debt is worth, and
\* costs it something unless there is none.
LEMMA DebtForgiven ==
    ASSUME NEW r \in Used, NEW debt \in Nat, debt <= r.d_supply,
           NEW new, new = Forgiven(r, debt)
    PROVE  /\ new \in Used /\ new.b_supply = r.b_supply /\ new.d_supply = r.d_supply - debt
           /\ new.backstop_credit = r.backstop_credit
           /\ Owed(new) <= Owed(r) + ToAssetFromD(r, debt)
           /\ ToAssetFromD(r, debt) \in Nat
           /\ debt = 0 => new = r /\ ToAssetFromD(r, debt) = 0
           /\ debt > 0 => ToAssetFromD(r, debt) > 0
  <1> USE DEF Forgiven
  <1> DEFINE n == ToAssetFromD(r, debt)
  <1>1. /\ n \in Nat /\ debt * r.d_rate <= n * Scalar9
        /\ r.d_rate \in Nat \ {0} /\ Scalar9 \in Nat \ {0}
        /\ r.d_supply \in Nat
    BY DebtPaid, UsedFields, PoolReserveAssumption
  <1>2. Owed(new) <= Owed(r) + n /\ new \in Used
    <2> HIDE DEF n
    <2> QED BY <1>1, RepaymentCovered
  <1>3. /\ new.b_supply = r.b_supply /\ new.d_supply = r.d_supply - debt
        /\ new.backstop_credit = r.backstop_credit
    BY UsedFields
  <1>4. ASSUME debt = 0 PROVE new = r /\ n = 0
    <2>1. n = 0
      BY <1>1, <1>4 DEF ToAssetFromD, MulCeil
    <2>2. r.d_supply - debt = r.d_supply
      BY <1>1, <1>4
    <2>3. [r EXCEPT !.d_supply = r.d_supply] = r
      BY UsedFields DEF Used, Reserves
    <2> QED BY <2>1, <2>2, <2>3
  <1>5. ASSUME debt > 0 PROVE n > 0
    <2> DEFINE rate == r.d_rate
    <2>1. debt * rate > 0
      <3>1. 0 * rate < debt * rate
        <4>1. rate <= debt * rate
          <5>1. 1 * rate <= debt * rate
            BY <1>1, <1>5, ProductGrows
          <5> QED BY <1>1, <5>1
        <4> QED BY <1>1, <4>1
      <3> QED BY <1>1, <3>1
    <2>2. n # 0
      <3>1. ASSUME n = 0 PROVE FALSE
        <4>1. n * Scalar9 = 0
          BY <1>1, <3>1
        <4> QED BY <1>1, <2>1, <4>1, ProductNat
      <3> QED BY <3>1
    <2> QED BY <1>1, <2>2
  <1> HIDE DEF n
  <1> QED BY <1>1, <1>2, <1>3, <1>4, <1>5 DEF n

\* Socialising leaves the copy typed and matched, and the backstop without debt.
LEMMA SocialisedCopy ==
    ASSUME NEW t \in Transactions, \A a \in Assets : Matches(t.res[a], t.holders, a),
           NEW new, new = Socialised(t)
    PROVE  /\ new \in Transactions /\ new.from = t.from /\ new.held = t.held
           /\ new.sent = t.sent /\ new.due = t.due /\ new.count = t.count
           /\ new.check_health = t.check_health
           /\ new.stored = t.stored \cup Named(t.holders[Backstop].liabilities)
           /\ \A h \in Users : new.holders[h] = t.holders[h]
           /\ new.holders[Backstop].liabilities = Zero
           /\ \A a \in Assets :
                /\ Matches(new.res[a], new.holders, a)
                /\ t.holders[Backstop].liabilities[a] \in Nat
                /\ t.holders[Backstop].liabilities[a] <= t.res[a].d_supply
                /\ new.res[a] = Forgiven(t.res[a], t.holders[Backstop].liabilities[a])
  <1> DEFINE old == t.holders
             debt == old[Backstop].liabilities
             clear == [old[Backstop] EXCEPT !.liabilities = Zero]
             held == [old EXCEPT ![Backstop] = clear]
             after(a) == Forgiven(t.res[a], debt[a])
             res == [a \in Assets |-> after(a)]
             stored == t.stored \cup Named(debt)
  <1>1. /\ Backstop \in Holders /\ old \in [Holders -> PositionsType]
        /\ old[Backstop] \in PositionsType /\ debt \in [Assets -> Nat] /\ Backstop \notin Users
        /\ Users \subseteq Holders
    BY LendingAssumption DEF Holders, Transactions, PositionsType
  <1>2. Zero \in [Assets -> Nat] /\ \A a \in Assets : Zero[a] = 0
    BY DEF Zero
  <1>3. /\ clear \in PositionsType /\ clear.liabilities = Zero
        /\ clear.collateral = old[Backstop].collateral /\ clear.supply = old[Backstop].supply
    BY <1>1, <1>2 DEF PositionsType
  <1>4. /\ held \in [Holders -> PositionsType] /\ held[Backstop] = clear
        /\ \A h \in Holders \ {Backstop} : held[h] = old[h]
    <2> HIDE DEF clear, old
    <2> QED BY <1>1, <1>3
  <1>5. ASSUME NEW a \in Assets
        PROVE  /\ t.res[a] \in Used /\ debt[a] \in Nat /\ debt[a] <= t.res[a].d_supply
               /\ after(a) \in Used /\ after(a).b_supply = t.res[a].b_supply
               /\ after(a).d_supply = t.res[a].d_supply - debt[a]
    <2>1. t.res[a] \in Used /\ debt[a] \in Nat
      BY <1>1 DEF Transactions
    <2>2. debt[a] <= t.res[a].d_supply
      BY <1>1, HeldWithinSupply DEF Matches
    <2> HIDE DEF debt
    <2> QED BY <2>1, <2>2, DebtForgiven
  <1>6. res \in [Assets -> Used] /\ \A a \in Assets : res[a] = after(a)
    BY <1>5
  <1>7. stored \in SUBSET Assets
    BY DEF Named, Transactions
  <1>8. new = [t EXCEPT !.holders = held, !.res = res, !.stored = stored]
    <2>1. new = [t EXCEPT !.holders[Backstop].liabilities = Zero, !.res = res, !.stored = stored]
      BY DEF Socialised, Transactions
    <2>2. [t EXCEPT !.holders[Backstop].liabilities = Zero].holders = held
      BY <1>1 DEF Transactions
    <2> HIDE DEF res, stored
    <2> QED BY <2>1, <2>2 DEF Transactions
  <1> HIDE DEF held, res, stored
  <1>9. /\ new \in Transactions /\ new.from = t.from /\ new.held = t.held
        /\ new.sent = t.sent /\ new.due = t.due /\ new.count = t.count
        /\ new.check_health = t.check_health
        /\ new.stored = stored /\ new.holders = held /\ new.res = res
    BY <1>4, <1>6, <1>7, <1>8 DEF Transactions
  <1>10. ASSUME NEW a \in Assets PROVE Matches(new.res[a], new.holders, a)
    <2>1. /\ Supplied(held, a) = Supplied(old, a) + (clear.collateral[a] + clear.supply[a])
                - (old[Backstop].collateral[a] + old[Backstop].supply[a])
          /\ Owing(held, a) = Owing(old, a) + clear.liabilities[a] - old[Backstop].liabilities[a]
      <3> HIDE DEF old, clear
      <3> QED BY <1>1, <1>3, <1>4, TotalsFollow
    <2>2. /\ old[Backstop].collateral[a] \in Nat /\ old[Backstop].supply[a] \in Nat
      BY <1>1, PositionParts
    <2>3. /\ t.res[a].b_supply = Supplied(old, a) /\ t.res[a].d_supply = Owing(old, a)
          /\ t.res[a].b_supply \in Nat /\ t.res[a].d_supply \in Nat
      BY <1>5, UsedFields DEF Matches
    <2>4. Supplied(held, a) = t.res[a].b_supply
      <3>1. Supplied(old, a) \in Nat
        BY <2>3
      <3> QED BY <1>3, <2>1, <2>2, <2>3, <3>1
    <2>5. Owing(held, a) = t.res[a].d_supply - debt[a]
      <3>1. Owing(old, a) \in Nat /\ clear.liabilities[a] = 0 /\ debt[a] \in Nat
        BY <1>2, <1>3, <1>5, <2>3
      <3> QED BY <2>1, <2>3, <3>1
    <2>6. new.res[a] = after(a) /\ new.holders = held
      BY <1>6, <1>9
    <2> HIDE DEF after, debt
    <2> QED BY <1>5, <2>4, <2>5, <2>6 DEF Matches
  <1>11. /\ \A h \in Users : new.holders[h] = t.holders[h]
         /\ new.holders[Backstop].liabilities = Zero
    BY <1>1, <1>3, <1>4, <1>9
  <1>12. ASSUME NEW a \in Assets
         PROVE  new.res[a] = Forgiven(t.res[a], t.holders[Backstop].liabilities[a])
    BY <1>6, <1>9
  <1> QED BY <1>5, <1>9, <1>10, <1>11, <1>12 DEF stored

\* What a copy t after such a fill has in common, whether the rest is socialised or not:
\* n is what is lost, bid what goes over to the filler.
BadDebtFilled(t, n, bid, a) ==
    /\ Matches(t.res[a], t.holders, a)
    /\ n[a] \in Nat /\ Owed(t.res[a]) \in Int
    /\ Owed(t.res[a]) <= Owed(tx.res[a]) + n[a]
    /\ t.res[a].backstop_credit = tx.res[a].backstop_credit
    /\ a \notin t.stored => t.res[a] = tx.res[a] /\ n[a] = 0
    /\ t.holders[Backstop].liabilities[a] \in Nat
    /\ t.holders[Backstop].liabilities[a] <= tx.holders[Backstop].liabilities[a]
    /\ n[a] > 0 \/ t.holders[Backstop].liabilities[a]
                     = tx.holders[Backstop].liabilities[a] - bid[a]

\* Filling the sale of bad debt moves it to the filler and draws backstop tokens; what
\* is left of it may be socialised.
LEMMA FillBadDebtKeeps ==
    ASSUME AInv, NEW percent \in 1..Hundred, FillBadDebt(percent)
    PROVE  AInv'
  <1> DEFINE k == BadDebtSale
             fill == ToFill(draft.auctions[k], percent)
             drawn == fill.lot[BackstopToken]
             m == Moved(Backstop, Zero, fill.bid)
             c == [m EXCEPT !.check_health = TRUE]
             left == c.holders[Backstop].liabilities
             b == WithTokens(draft.backstop, draft.backstop.tokens - drawn)
             s == Socialised(c)
             loss == [a \in Assets |-> ToAssetFromD(tx.res[a], left[a])]
  <1>1. /\ Fillable(k) /\ Holds(Backstop, Zero, fill.bid)
        /\ drawn > 0 /\ drawn <= draft.backstop.tokens
        /\ \/ Filled(k, percent, s, b, loss)
           \/ Filled(k, percent, c, b, Zero)
    BY Zenon DEF FillBadDebt
  <1>2. /\ tx # NoTx /\ draft.auctions[k] # NoAuction /\ draft.auctions[k].age >= 0
    BY <1>1 DEF Fillable, InRequest
  <1>3. /\ tx \in Transactions /\ CopyTyped /\ draft \in Drafts
        /\ draft.auctions \in [Keys -> Sales] /\ draft.backstop \in BackstopData
        /\ tx.holders \in [Holders -> PositionsType] /\ tx.from \in Users
        /\ Backstop \in Holders /\ Backstop # tx.from /\ \A u \in Users : u # Backstop
        /\ k \in Keys /\ draft.auctions[k] \in Sales
    BY <1>2, Running, KeysApart, LendingAssumption
  <1>4. \A x \in Sold : fill.lot[x] \in Nat /\ fill.bid[x] \in Nat
    <2> DEFINE q == draft.auctions[k]
    <2>1. q \in Sales /\ q # NoAuction /\ q.age >= 0 /\ fill = ToFill(q, percent)
      BY <1>2, <1>3
    <2> HIDE DEF q, fill
    <2> QED BY <2>1, FillShrinks
  <1>5. /\ drawn \in Nat /\ \A a \in Assets : fill.bid[a] \in Nat /\ Zero[a] \in Nat /\ Zero[a] = 0
    BY <1>4 DEF Sold, Zero
  <1>6. b \in BackstopData
    <2> DEFINE n == draft.backstop.tokens - drawn
    <2>1. n \in Nat
      <3> HIDE DEF drawn
      <3> QED BY <1>1, <1>3, <1>5 DEF BackstopData
    <2> HIDE DEF n
    <2>2. /\ MulFloor(n, LpBlnd, Scalar7) \in Nat /\ MulFloor(n, LpUsdc, Scalar7) \in Nat
      BY <2>1, AuctionsAssumption, PoolConstantsAssumption, MulFloorBounds
    <2>3. b = WithTokens(draft.backstop, n)
      BY DEF n
    <2> HIDE DEF b
    <2> QED BY <1>3, <2>1, <2>2, <2>3 DEF WithTokens, BackstopData
  <1> HIDE DEF b
  <1>7. /\ m \in Transactions /\ m.res = tx.res /\ m.held = tx.held /\ m.sent = tx.sent
        /\ m.due = tx.due /\ m.from = tx.from /\ m.count = tx.count
        /\ m.stored = tx.stored \cup Named(Zero) \cup Named(fill.bid)
        /\ m.holders[Backstop] = Without(tx.holders[Backstop], Zero, fill.bid)
        /\ \A h \in Holders \ {Backstop, tx.from} : m.holders[h] = tx.holders[h]
        /\ \A a \in Assets : Matches(m.res[a], m.holders, a)
    <2> HIDE DEF m, fill
    <2>1. m = Moved(Backstop, Zero, fill.bid)
      BY DEF m
    <2> QED BY <1>1, <1>3, <1>5, <2>1, MovedCopy
  <1> HIDE DEF m
  <1>8. /\ c \in Transactions /\ c.res = m.res /\ c.held = m.held /\ c.sent = m.sent
        /\ c.due = m.due /\ c.from = m.from /\ c.count = m.count /\ c.stored = m.stored
        /\ c.holders = m.holders /\ c.check_health = TRUE
    BY <1>7 DEF Transactions
  <1> HIDE DEF c
  <1>9. /\ c.from = tx.from /\ c.sent = tx.sent /\ c.due = tx.due /\ c.count = tx.count
        /\ c.res = tx.res /\ c.held = tx.held /\ tx.stored \subseteq c.stored
        /\ \A u \in Users \ {tx.from} : c.holders[u] = tx.holders[u]
        /\ \A a \in Assets : Matches(c.res[a], c.holders, a)
    <2>1. \A u \in Users \ {tx.from} : c.holders[u] = tx.holders[u]
      BY <1>3, <1>7, <1>8 DEF Holders
    <2> QED BY <1>7, <1>8, <2>1
  <1>10. ASSUME NEW a \in Assets
         PROVE  /\ tx.holders[Backstop].liabilities[a] \in Nat /\ fill.bid[a] \in Nat
                /\ fill.bid[a] <= tx.holders[Backstop].liabilities[a]
                /\ left[a] = tx.holders[Backstop].liabilities[a] - fill.bid[a]
    <2> DEFINE old == tx.holders[Backstop]
    <2>1. /\ old \in PositionsType /\ c.holders[Backstop] = Without(old, Zero, fill.bid)
      BY <1>3, <1>7, <1>8
    <2>2. \A x \in Assets : Zero[x] <= old.collateral[x] /\ fill.bid[x] <= old.liabilities[x]
      BY <1>1 DEF Holds
    <2>3. old.liabilities[a] \in Nat
      BY <2>1 DEF PositionsType
    <2> HIDE DEF old, fill
    <2>4. left[a] = old.liabilities[a] - fill.bid[a]
      BY <1>5, <2>1, <2>2, PositionsChange
    <2> QED BY <1>5, <2>2, <2>3, <2>4 DEF old
  <1>11. /\ s \in Transactions /\ s.from = c.from /\ s.held = c.held
         /\ s.sent = c.sent /\ s.due = c.due /\ s.count = c.count
         /\ s.check_health = c.check_health /\ s.stored = c.stored \cup Named(left)
         /\ \A h \in Users : s.holders[h] = c.holders[h]
         /\ s.holders[Backstop].liabilities = Zero
         /\ \A a \in Assets : /\ Matches(s.res[a], s.holders, a) /\ left[a] \in Nat
                              /\ left[a] <= c.res[a].d_supply
                              /\ s.res[a] = Forgiven(c.res[a], left[a])
    <2> HIDE DEF s
    <2>1. s = Socialised(c)
      BY DEF s
    <2> QED BY <1>8, <1>9, <2>1, SocialisedCopy
  <1>12. ASSUME NEW a \in Assets
         PROVE  /\ tx.res[a] \in Used /\ Owed(tx.res[a]) \in Int /\ tx.held[a] \in Nat
                /\ tx.res[a].backstop_credit \in Nat
                /\ s.res[a].backstop_credit = tx.res[a].backstop_credit
                /\ Owed(s.res[a]) <= Owed(tx.res[a]) + loss[a] /\ Owed(s.res[a]) \in Int
                /\ loss[a] \in Nat
                /\ left[a] = 0 => s.res[a] = tx.res[a] /\ loss[a] = 0
                /\ left[a] > 0 => loss[a] > 0
    <2>1. tx.res[a] \in Used /\ tx.held[a] \in Nat
      BY <1>3 DEF Transactions
    <2>2. /\ left[a] \in Nat /\ left[a] <= tx.res[a].d_supply
          /\ s.res[a] = Forgiven(tx.res[a], left[a])
          /\ loss[a] = ToAssetFromD(tx.res[a], left[a])
      BY <1>9, <1>11
    <2> DEFINE l == left[a]
               r == s.res[a]
               n == loss[a]
    <2> HIDE DEF l, r, n
    <2>3. l \in Nat /\ l <= tx.res[a].d_supply /\ r = Forgiven(tx.res[a], l)
          /\ n = ToAssetFromD(tx.res[a], l)
      BY <2>2 DEF l, r, n
    <2>4. /\ r \in Used /\ r.backstop_credit = tx.res[a].backstop_credit
          /\ Owed(r) <= Owed(tx.res[a]) + n /\ n \in Nat
          /\ l = 0 => r = tx.res[a] /\ n = 0
          /\ l > 0 => n > 0
      BY <2>1, <2>3, DebtForgiven
    <2>5. Owed(tx.res[a]) \in Int /\ Owed(r) \in Int /\ tx.res[a].backstop_credit \in Nat
      BY <2>1, <2>4, OwedInt, UsedFields
    <2> QED BY <2>1, <2>4, <2>5 DEF l, r, n
  <1> HIDE DEF left, s, loss, fill
  <1>13. ASSUME NEW t, NEW n, Filled(k, percent, t, b, n), t \in Transactions,
                t.from = tx.from, t.sent = tx.sent, t.due = tx.due, t.count = tx.count,
                t.held = tx.held, t.check_health = TRUE, tx.stored \subseteq t.stored,
                \A u \in Users \ {tx.from} : t.holders[u] = tx.holders[u],
                \A a \in Assets : BadDebtFilled(t, n, fill.bid, a)
         PROVE  AInv'
    <2>1. /\ tx' \in Transactions /\ draft' \in Drafts
          /\ UNCHANGED <<statusVars, reserve, accrual, positions, live, tokens, auctions, lost>>
          /\ tx'.from = t.from /\ tx'.res = t.res /\ tx'.stored = t.stored
          /\ tx'.holders = t.holders /\ tx'.held = t.held /\ tx'.sent = t.sent
          /\ tx'.due = t.due /\ tx'.check_health = t.check_health
          /\ \A a \in Assets : /\ draft'.lost[a] = draft.lost[a] + n[a]
                               /\ draft.lost[a] \in Nat
                               /\ fill.bid[a] <= BidTaken(k, a) /\ BidTaken(k, a) \in Int
          /\ \A j \in Keys \ {k}, a \in Assets : LotTaken(j, a) = 0 /\ BidTaken(j, a) = 0
      <3>1. \A a \in Assets : n[a] \in Nat
        BY <1>13 DEF BadDebtFilled
      <3>2. fill = ToFill(draft.auctions[k], percent)
        BY DEF fill
      <3>3. Filled(k, percent, t, b, n) /\ t \in Transactions /\ t.count = tx.count
        BY <1>13
      <3> QED BY <1>1, <1>3, <1>6, <3>1, <3>2, <3>3, FilledMoves
    <2>2. ASSUME NEW a \in Assets PROVE LawfulStep(a)
      <3>1. /\ tx'.res[a] = t.res[a] /\ tx'.held[a] = tx.held[a]
            /\ tx'.holders[Backstop].liabilities[a] = t.holders[Backstop].liabilities[a]
            /\ draft'.lost[a] = draft.lost[a] + n[a]
            /\ Matches(tx'.res[a], tx'.holders, a)
            /\ a \notin tx'.stored => /\ a \notin tx.stored /\ tx'.res[a] = tx.res[a]
                                      /\ n[a] = 0
        BY <1>13, <2>1 DEF BadDebtFilled
      <3>2. LotTaken(InterestSale, a) = 0
        BY <2>1, KeysApart
      <3>3. ASSUME NEW user \in Users \ {tx.from}
            PROVE  /\ LotTaken(Liquidation(user), a) = 0 /\ BidTaken(Liquidation(user), a) = 0
                   /\ tx.holders[user].collateral[a] \in Nat
                   /\ tx.holders[user].liabilities[a] \in Nat
                   /\ tx'.holders[user] = tx.holders[user]
        <4>1. tx.holders[user].collateral[a] \in Nat /\ tx.holders[user].liabilities[a] \in Nat
          BY <1>3, PositionParts DEF Holders
        <4>2. Liquidation(user) \in Keys \ {k}
          BY KeysApart
        <4>3. tx'.holders[user] = tx.holders[user]
          BY <1>13, <2>1
        <4> QED BY <2>1, <4>1, <4>2, <4>3
      <3>4. \A user \in Users \ {tx.from} :
               LET old == tx.holders[user]
                   new == tx'.holders[user]
               IN  /\ new.supply = old.supply
                   /\ new.collateral[a] <= old.collateral[a]
                   /\ new.liabilities[a] <= old.liabilities[a]
                   /\ old.collateral[a] - new.collateral[a] <= LotTaken(Liquidation(user), a)
                   /\ old.liabilities[a] - new.liabilities[a] <= BidTaken(Liquidation(user), a)
        BY <3>3
      <3> DEFINE was == tx.holders[Backstop].liabilities[a]
                 now == tx'.holders[Backstop].liabilities[a]
      <3>5. /\ n[a] \in Nat /\ was \in Nat /\ now \in Nat /\ now <= was
            /\ n[a] > 0 \/ now = was - fill.bid[a]
            /\ draft.lost[a] \in Nat /\ fill.bid[a] <= BidTaken(k, a)
            /\ BidTaken(k, a) \in Int /\ fill.bid[a] \in Nat
            /\ Owed(tx'.res[a]) <= Owed(tx.res[a]) + n[a]
            /\ tx'.res[a].backstop_credit = tx.res[a].backstop_credit
        BY <1>10, <1>13, <2>1, <3>1 DEF BadDebtFilled
      <3>6. /\ tx.held[a] \in Nat /\ Owed(tx.res[a]) \in Int /\ Owed(tx'.res[a]) \in Int
            /\ tx.res[a].backstop_credit \in Nat
        BY <1>12, <1>13, <3>1 DEF BadDebtFilled
      <3> HIDE DEF was, now
      <3>7. /\ Owed(tx'.res[a]) <= Owed(tx.res[a]) + tx'.held[a] - tx.held[a]
                                     + draft'.lost[a] - draft.lost[a]
            /\ draft'.lost[a] >= draft.lost[a]
            /\ n[a] = 0 => draft'.lost[a] = draft.lost[a]
            /\ tx.res[a].backstop_credit - tx'.res[a].backstop_credit
                 <= LotTaken(InterestSale, a)
            /\ was - now <= BidTaken(k, a) \/ draft'.lost[a] > draft.lost[a]
        BY <3>1, <3>2, <3>5, <3>6
      <3>8. a \notin tx'.stored =>
              /\ a \notin tx.stored /\ tx'.res[a] = tx.res[a] /\ tx'.held[a] = tx.held[a]
              /\ draft'.lost[a] = draft.lost[a]
        BY <3>1, <3>7
      <3> QED BY <3>1, <3>4, <3>5, <3>7, <3>8 DEF LawfulStep, was, now
    <2>3. tx'.from = tx.from /\ tx'.sent = tx.sent /\ tx'.due = tx.due /\ tx'.check_health
      BY <1>13, <2>1
    <2> QED BY <1>2, <2>1, <2>2, <2>3, LawfulStepKeeps
  <1>14. CASE Filled(k, percent, c, b, Zero)
    <2>1. ASSUME NEW a \in Assets
          PROVE  BadDebtFilled(c, Zero, fill.bid, a)
      <3>1. /\ c.res[a] = tx.res[a] /\ Zero[a] = 0 /\ Matches(c.res[a], c.holders, a)
            /\ Owed(tx.res[a]) \in Int
        BY <1>5, <1>9, <1>12
      <3>2. /\ left[a] \in Nat /\ left[a] <= tx.holders[Backstop].liabilities[a]
            /\ left[a] = tx.holders[Backstop].liabilities[a] - fill.bid[a]
        BY <1>10, <1>11
      <3>3. left[a] = c.holders[Backstop].liabilities[a]
        BY DEF left
      <3> QED BY <3>1, <3>2, <3>3 DEF BadDebtFilled
    <2>2. /\ c \in Transactions /\ c.from = tx.from /\ c.sent = tx.sent /\ c.due = tx.due
          /\ c.count = tx.count /\ c.held = tx.held /\ c.check_health = TRUE
          /\ tx.stored \subseteq c.stored
          /\ \A u \in Users \ {tx.from} : c.holders[u] = tx.holders[u]
      BY <1>8, <1>9
    <2> QED BY <1>13, <1>14, <2>1, <2>2
  <1>15. CASE Filled(k, percent, s, b, loss)
    <2>1. ASSUME NEW a \in Assets
          PROVE  BadDebtFilled(s, loss, fill.bid, a)
      <3>1. s.holders[Backstop].liabilities[a] = 0
        BY <1>5, <1>11
      <3>2. /\ left[a] \in Nat /\ tx.holders[Backstop].liabilities[a] \in Nat
            /\ left[a] = tx.holders[Backstop].liabilities[a] - fill.bid[a]
        BY <1>10, <1>11
      <3>3. a \notin s.stored => left[a] = 0
        BY <1>11, <3>2 DEF Named
      <3>4. left[a] = 0 \/ left[a] > 0
        BY <3>2
      <3>5. Matches(s.res[a], s.holders, a)
        BY <1>11
      <3> QED BY <1>12, <3>1, <3>2, <3>3, <3>4, <3>5 DEF BadDebtFilled
    <2>2. /\ s \in Transactions /\ s.from = tx.from /\ s.sent = tx.sent /\ s.due = tx.due
          /\ s.count = tx.count /\ s.held = tx.held /\ s.check_health = TRUE
          /\ tx.stored \subseteq s.stored
          /\ \A u \in Users \ {tx.from} : s.holders[u] = tx.holders[u]
      BY <1>8, <1>9, <1>11
    <2> QED BY <1>13, <1>15, <2>1, <2>2
  <1> QED BY <1>1, <1>14, <1>15 DEF loss
-----------------------------------------------------------------------------
\* Setting an auction while no submit runs keeps the invariant, if what it sells of the
\* backstop's interest is credited.
LEMMA QuoteSet ==
    ASSUME AInv, tx = NoTx, NEW k \in Keys, NEW q \in Sales,
           auctions' = [auctions EXCEPT ![k] = q], UNCHANGED <<vars, draft, lost>>,
           k = InterestSale => \A a \in Assets : Credited(q, a, Load(a))
    PROVE  AInv'
  <1>1. QuotesTyped /\ Typed /\ \A a \in Assets : StoredKept(a)
    BY DEF AInv, QuotesTyped
  <1>2. /\ UNCHANGED <<statusVars, reserve, accrual, positions, live, tx, tokens, lost>>
        /\ status' = status /\ backstop' = backstop
    BY DEF vars, statusVars
  <1>3. Typed'
    BY <1>1, <1>2 DEF Typed, StatusTypeOK, tokens
  <1>4. auctions' \in [Keys -> Sales]
    BY <1>1 DEF QuotesTyped
  <1>5. QuotesTyped'
    BY <1>1, <1>2, <1>3, <1>4 DEF QuotesTyped
  <1>6. ASSUME NEW a \in Assets PROVE StoredKept(a)'
    <2>1. Load(a)' = Load(a) /\ Settled(a)' = Settled(a)
      BY <1>2 DEF Load, Settled, tokens
    <2>2. SoundUpToLoss(a)'
      BY <1>1, <1>2, <2>1 DEF StoredKept, SoundUpToLoss
    <2>3. auctions'[InterestSale] = IF k = InterestSale THEN q ELSE auctions[InterestSale]
      BY <1>1, KeysApart DEF QuotesTyped
    <2>4. Credited(auctions[InterestSale], a, Load(a))'
      BY <1>1, <2>1, <2>3 DEF StoredKept, Credited
    <2> QED BY <2>2, <2>4 DEF StoredKept
  <1> QED BY <1>2, <1>5, <1>6 DEF AInv

\* Loaded reserves are used ones.
LEMMA LoadedUsed == ASSUME Typed PROVE [a \in Assets |-> Load(a)] \in [Assets -> Used]
  BY LoadKeeps

\* Any amounts of the assets make a bid or lot.
LEMMA QuotedTyped ==
    ASSUME NEW amounts, \A a \in Assets : amounts[a] \in Nat
    PROVE  Quoted(Assets, amounts) \in [Sold -> Nat]
  BY DEF Quoted

\* So does an amount of backstop tokens.
LEMMA TokensTyped ==
    ASSUME NEW n \in Nat
    PROVE  [Nothing EXCEPT ![BackstopToken] = n] \in [Sold -> Nat]
  BY DEF Nothing

\* A new liquidation is of amounts.
LEMMA NewLiquidationKeeps ==
    ASSUME AInv, NEW user \in Users, NEW percent \in 1..Hundred,
           NewLiquidation(user, percent)
    PROVE  AInv'
  <1> DEFINE p == positions[user]
             res == [a \in Assets |-> Load(a)]
             quote == LiquidationQuote(p, res, percent)
             q == NewAuction(Quoted(Assets, quote.bid), Quoted(Assets, quote.lot))
  <1>1. /\ tx = NoTx /\ UNCHANGED <<vars, draft, lost>>
        /\ LiabilityBase(p, res) >= CollateralBase(p, res)
        /\ CollateralRaw(p, res) > 0 /\ LiabilityRaw(p, res) > 0
        /\ auctions' = [auctions EXCEPT ![Liquidation(user)] = q]
    BY DEF NewLiquidation
  <1>2. p \in PositionsType /\ res \in [Assets -> Used]
    BY LoadedUsed DEF AInv, QuotesTyped, Typed, Holders
  <1>3. \A a \in Assets : quote.lot[a] \in Nat /\ quote.bid[a] \in Nat
    <2> HIDE DEF p, res
    <2> QED BY <1>1, <1>2, LiquidationAmounts
  <1> HIDE DEF quote
  <1>4. q \in Sales
    BY <1>3, QuotedTyped, QuoteTyped
  <1> HIDE DEF q
  <1> QED BY <1>1, <1>4, KeysApart, QuoteSet

\* A sale of bad debt offers what the backstop owes for its tokens.
LEMMA NewBadDebtSaleKeeps ==
    ASSUME AInv, NewBadDebtSale
    PROVE  AInv'
  <1> DEFINE debt == positions[Backstop].liabilities
             worth == [a \in Assets |-> ToAssetFromD(Load(a), debt[a])]
             value == SumFunction([a \in Assets |-> ValueOf(a, ToAssetFromD(Load(a), debt[a]))])
             n == AtMost(backstop.tokens, TokensWorth(value))
             q == NewAuction(Quoted(Assets, debt), [Nothing EXCEPT ![BackstopToken] = n])
  <1>1. /\ tx = NoTx /\ UNCHANGED <<vars, draft, lost>>
        /\ backstop.tokens > 0 /\ BackstopTokenValue > 0
        /\ auctions' = [auctions EXCEPT ![BadDebtSale] = q]
    BY DEF NewBadDebtSale
  <1>2. /\ Typed /\ backstop \in BackstopData /\ Backstop \in Holders
        /\ positions \in [Holders -> PositionsType]
    BY DEF AInv, QuotesTyped, Typed, StatusTypeOK, Holders
  <1>3. debt \in [Assets -> Nat]
    BY <1>2 DEF PositionsType
  <1> HIDE DEF debt
  <1>4. worth \in [Assets -> Nat]
    BY <1>2, <1>3, LoadKeeps, DebtPaid
  <1>5. value = SumFunction([a \in Assets |-> ValueOf(a, worth[a])])
    BY Zenon
  <1> HIDE DEF worth, value
  <1>6. value \in Nat
    BY <1>4, <1>5, WorthNat
  <1>7. n \in Nat
    BY <1>1, <1>2, <1>6, TokenAmounts DEF AtMost, BackstopData
  <1> HIDE DEF n
  <1>8. q \in Sales
    BY <1>3, <1>7, QuotedTyped, TokensTyped, QuoteTyped
  <1> HIDE DEF q
  <1> QED BY <1>1, <1>8, KeysApart, QuoteSet

\* A sale of interest offers no more of an asset than the backstop is credited, however
\* often the asset is listed.
LEMMA NewInterestSaleKeeps ==
    ASSUME AInv, NEW times \in [Assets -> 0..2], NewInterestSale(times)
    PROVE  AInv'
  <1> DEFINE credit == [a \in Assets |-> Load(a).backstop_credit]
             value == SumFunction([a \in Assets |->
                                     times[a] * ValueOf(a, Load(a).backstop_credit)])
             n == TokensWorth(value)
             lot == [x \in Sold |-> IF x \in Assets /\ times[x] > 0
                                    THEN Load(x).backstop_credit ELSE 0]
             q == NewAuction([Nothing EXCEPT ![BackstopToken] = n], lot)
  <1>1. /\ tx = NoTx /\ UNCHANGED <<vars, draft, lost>>
        /\ backstop.tokens > 0 /\ BackstopTokenValue > 0
        /\ auctions' = [auctions EXCEPT ![InterestSale] = q]
    BY Zenon DEF NewInterestSale
  <1>2. Typed /\ backstop \in BackstopData
    BY DEF AInv, QuotesTyped, Typed, StatusTypeOK
  <1>3. credit \in [Assets -> Nat] /\ times \in [Assets -> Nat]
    BY <1>2, LoadKeeps, UsedFields
  <1>4. value = SumFunction([a \in Assets |-> times[a] * ValueOf(a, credit[a])])
    BY Zenon
  <1>5. lot \in [Sold -> Nat]
    BY <1>2, LoadKeeps, UsedFields
  <1>6. \A a \in Assets : lot[a] <= Load(a).backstop_credit
    BY <1>2, LoadKeeps, UsedFields DEF Sold
  <1> HIDE DEF credit, value, lot
  <1>7. value \in Nat
    BY <1>3, <1>4, WorthNat
  <1>8. n \in Nat
    BY <1>1, <1>2, <1>7, TokenAmounts
  <1> HIDE DEF n
  <1>9. q \in Sales /\ q # NoAuction /\ q.lot = lot
    BY <1>5, <1>8, TokensTyped, QuoteTyped
  <1> HIDE DEF q
  <1>10. \A a \in Assets : Credited(q, a, Load(a))
    BY <1>6, <1>9 DEF Credited, LotOf
  <1> QED BY <1>1, <1>9, <1>10, KeysApart, QuoteSet

\* An entry that expires leaves the other auctions as they are.
LEMMA ExpireKeeps ==
    ASSUME AInv, NEW k \in Keys, Expire(k)
    PROVE  AInv'
  <1>1. /\ tx = NoTx /\ UNCHANGED <<vars, draft, lost>>
        /\ auctions' = [auctions EXCEPT ![k] = NoAuction]
    BY DEF Expire
  <1>2. \A a \in Assets : Credited(NoAuction, a, Load(a))
    BY LoadKeeps, UsedFields DEF Credited, LotOf, AInv, QuotesTyped
  <1>3. NoAuction \in Sales
    BY DEF Sales
  <1> QED BY <1>1, <1>2, <1>3, QuoteSet
-----------------------------------------------------------------------------
\* A larger accrual credits the backstop no less.
LEMMA CreditGrows ==
    ASSUME NEW r \in Used, NEW f \in Nat, NEW g \in Nat, Scalar9 <= f, f <= g
    PROVE  Accrued(r, f).backstop_credit <= Accrued(r, g).backstop_credit
  <1> DEFINE i(x) == AccruedInterest(r, x)
             d(x) == MulCeil(x, r.d_rate, Scalar9)
             share(x) == BackstopShare(i(x))
  <1>1. /\ Scalar9 \in Nat \ {0} /\ g >= Scalar9 /\ Scalar7 \in Nat \ {0} /\ BstopRate \in Nat
        /\ r.d_rate \in Nat /\ r.d_supply \in Nat /\ r.backstop_credit \in Nat
    BY PoolReserveAssumption, PoolConstantsAssumption, UsedFields
  <1>2. d(f) \in Nat /\ d(g) \in Nat /\ d(f) <= d(g)
    BY <1>1, MulCeilMono, MulCeilBounds
  <1>3. i(f) \in Nat /\ i(g) \in Nat /\ i(f) <= i(g)
    <2>1. /\ i(f) \in Nat /\ i(g) \in Nat /\ TotalLiabilities(r) \in Nat
          /\ MulCeil(r.d_supply, d(f), Scalar9) = TotalLiabilities(r) + i(f)
          /\ MulCeil(r.d_supply, d(g), Scalar9) = TotalLiabilities(r) + i(g)
      BY <1>1, InterestNat, TotalsNat
    <2> DEFINE m == d(f)
               n == d(g)
    <2>2. MulCeil(r.d_supply, m, Scalar9) <= MulCeil(r.d_supply, n, Scalar9)
      <3>1. m \in Nat /\ n \in Nat /\ m <= n
        BY <1>2
      <3> HIDE DEF m, n
      <3>2. MulCeil(m, r.d_supply, Scalar9) <= MulCeil(n, r.d_supply, Scalar9)
        BY <1>1, <3>1, MulCeilMono
      <3> QED BY <1>1, <3>1, <3>2, MulCeilCommutes
    <2> HIDE DEF i
    <2> QED BY <2>1, <2>2
  <1>4. /\ share(f) \in Nat /\ share(g) \in Nat /\ share(f) <= share(g)
        /\ i(f) = 0 => share(f) = 0
        /\ i(g) = 0 => share(g) = 0
    <2> DEFINE m == i(f)
               n == i(g)
    <2>1. m \in Nat /\ n \in Nat /\ m <= n
      BY <1>3
    <2> HIDE DEF m, n
    <2>2. /\ BackstopShare(m) \in Nat /\ BackstopShare(n) \in Nat
          /\ BackstopShare(m) <= BackstopShare(n)
      BY <1>1, <2>1, MulFloorMono, MulFloorBounds DEF BackstopShare
    <2>3. BackstopShare(0) = 0
      BY <1>1 DEF BackstopShare, MulFloor
    <2> QED BY <2>2, <2>3 DEF m, n
  <1>5. ASSUME NEW x \in Nat, r.b_supply # 0, Utilization(r) # 0, i(x) = 0 => share(x) = 0,
               share(x) \in Nat
        PROVE  Accrued(r, x).backstop_credit = r.backstop_credit + share(x)
    <2> HIDE DEF i
    <2>1. CASE i(x) = 0
      <3>1. Accrued(r, x) = [r EXCEPT !.d_rate = d(x)]
        BY <1>5, <2>1 DEF Accrued, i
      <3> QED BY <1>1, <1>5, <2>1, <3>1
    <2>2. CASE i(x) # 0
      <3>1. Accrued(r, x) = [r EXCEPT !.d_rate = d(x),
                                      !.b_rate = BRateAfter(r, SuppliersShare(i(x))),
                                      !.backstop_credit = @ + share(x)]
        BY <1>5, <2>2 DEF Accrued, i
      <3>2. [r EXCEPT !.d_rate = d(x), !.b_rate = BRateAfter(r, SuppliersShare(i(x))),
                      !.backstop_credit = @ + share(x)].backstop_credit
              = r.backstop_credit + share(x)
        BY UsedFields DEF Used, Reserves
      <3> QED BY <3>1, <3>2
    <2> QED BY <2>1, <2>2
  <1>6. CASE r.b_supply = 0 \/ Utilization(r) = 0
    BY <1>1, <1>6 DEF Accrued
  <1>7. CASE r.b_supply # 0 /\ Utilization(r) # 0
    <2>1. /\ Accrued(r, f).backstop_credit = r.backstop_credit + share(f)
          /\ Accrued(r, g).backstop_credit = r.backstop_credit + share(g)
      BY <1>4, <1>5, <1>7
    <2> HIDE DEF share
    <2> QED BY <1>1, <1>4, <2>1
  <1> QED BY <1>6, <1>7

\* Ledgers close: auctions age, and interest accrues.
LEMMA CloseLedgersKeeps ==
    ASSUME AInv, NEW later \in [Assets -> Accruals], NEW n \in Waits, CloseLedgers(later, n)
    PROVE  AInv'
  <1>1. /\ tx = NoTx /\ tx' = tx /\ accrual' = later
        /\ \A a \in Assets : later[a] >= accrual[a]
        /\ UNCHANGED <<statusVars, reserve, positions, live, tokens, draft, lost>>
        /\ auctions' = [k \in Keys |->
               IF auctions[k] = NoAuction THEN NoAuction
               ELSE [auctions[k] EXCEPT !.age = AtMost(@ + n, 2 * Ramp)]]
    BY DEF CloseLedgers, CloseLedger
  <1>2. QuotesTyped /\ Typed /\ \A a \in Assets : StoredKept(a)
    BY DEF AInv, QuotesTyped
  <1>3. Typed'
    BY <1>1, <1>2 DEF Typed, StatusTypeOK, tokens, statusVars
  <1>4. ASSUME NEW k \in Keys
        PROVE  /\ auctions'[k] \in Sales
               /\ \A x \in Sold : LotOf(auctions'[k], x) = LotOf(auctions[k], x)
    <2> DEFINE q == auctions[k]
               age == AtMost(q.age + n, 2 * Ramp)
               old == [q EXCEPT !.age = age]
    <2>1. q \in Sales /\ auctions'[k] = IF q = NoAuction THEN NoAuction ELSE old
      BY <1>1, <1>2 DEF QuotesTyped
    <2>2. ASSUME q # NoAuction PROVE old \in AuctionData /\ old # NoAuction /\ old.lot = q.lot
      <3>1. /\ q \in AuctionData /\ q.age \in Int /\ -1 <= q.age /\ q.age <= 2 * Ramp
        BY <2>1, <2>2, SaleFields
      <3>2. n \in Nat /\ Ramp \in Nat
        BY AuctionsAssumption
      <3>3. age \in -1..(2 * Ramp)
        <4> HIDE DEF q
        <4> QED BY <3>1, <3>2 DEF AtMost
      <3> HIDE DEF q, age
      <3> QED BY <3>1, <3>3, NoAuctionAssumption DEF AuctionData
    <2> HIDE DEF q, old
    <2> QED BY <2>1, <2>2 DEF Sales, LotOf, q
  <1>5. auctions' \in [Keys -> Sales]
    BY <1>1, <1>4
  <1>6. QuotesTyped'
    BY <1>1, <1>2, <1>3, <1>5 DEF QuotesTyped
  <1>7. ASSUME NEW a \in Assets PROVE StoredKept(a)'
    <2>1. SoundUpToLoss(a)'
      <3>1. Settled(a)' = Settled(a)
        BY <1>1 DEF Settled, tokens
      <3> QED BY <1>1, <1>2, <3>1 DEF StoredKept, SoundUpToLoss
    <2>2. Load(a).backstop_credit <= Load(a)'.backstop_credit
      <3>1. /\ reserve[a] \in Used /\ accrual[a] \in Nat /\ Scalar9 <= accrual[a]
            /\ later[a] \in Nat /\ accrual[a] <= later[a]
        BY <1>1, <1>2, LendingAssumption, PoolReserveAssumption DEF Typed
      <3>2. Accrued(reserve[a], accrual[a]).backstop_credit
              <= Accrued(reserve[a], later[a]).backstop_credit
        BY <3>1, CreditGrows
      <3> QED BY <1>1, <3>2 DEF Load
    <2>3. /\ Load(a) \in Used /\ Load(a)' \in Used
      <3>1. reserve[a] \in Used /\ later[a] \in Nat /\ later[a] >= Scalar9
        BY <1>2, LendingAssumption DEF Typed
      <3>2. Accrued(reserve[a], later[a]) \in Used
        BY <3>1, AccrualCovered
      <3> QED BY <1>1, <1>2, <3>2, LoadKeeps DEF Load
    <2>4. LotOf(auctions'[InterestSale], a) = LotOf(auctions[InterestSale], a)
          /\ LotOf(auctions[InterestSale], a) \in Nat
      BY <1>2, <1>4, KeysApart, SaleParts DEF Sold, QuotesTyped
    <2>5. LotOf(auctions[InterestSale], a) <= Load(a).backstop_credit
      BY <1>2 DEF StoredKept, Credited
    <2>6. Credited(auctions[InterestSale], a, Load(a))'
      <3>1. Load(a).backstop_credit \in Nat /\ Load(a)'.backstop_credit \in Nat
        BY <2>3, UsedFields
      <3>2. LotOf(auctions'[InterestSale], a) <= Load(a)'.backstop_credit
        BY <2>2, <2>4, <2>5, <3>1
      <3> QED BY <3>2 DEF Credited
    <2> QED BY <2>1, <2>6 DEF StoredKept
  <1> QED BY <1>1, <1>6, <1>7 DEF AInv

\* What the end of a submit finds and stores.
LEMMA CommitMoves ==
    ASSUME AInv, NEW unsent, NEW stuck, CommitSubmit(unsent, stuck)
    PROVE  /\ tx # NoTx /\ tx' = NoTx /\ positions' = tx.holders
           /\ auctions' = draft.auctions /\ lost' = draft.lost
           /\ \A a \in Assets :
                /\ Settled(a)' = HeldSettled(a) + tx.sent[a] - tx.due[a]
                /\ HeldSettled(a) \in Int /\ Load(a)' = tx.res[a]
                /\ reserve'[a] = IF a \in tx.stored THEN tx.res[a] ELSE reserve[a]
           /\ Typed' /\ HealthOk
  <1>1. /\ Settle(unsent, stuck) /\ tx # NoTx /\ auctions' = draft.auctions
        /\ lost' = draft.lost /\ backstop' = draft.backstop /\ status' = status
        /\ live' = live /\ HealthOk
    BY DEF CommitSubmit, Settle
  <1>2. /\ Typed /\ draft.backstop \in BackstopData /\ tx.holders \in [Holders -> PositionsType]
        /\ \A a \in Assets : DraftKept(a)
    BY <1>1, Running
  <1>3. \A a \in Assets : a \notin tx.stored => tx.res[a] = Load(a)
    BY <1>2 DEF DraftKept, DraftLoaded
  <1>4. /\ tx' = NoTx /\ positions' = tx.holders
        /\ balance' \in [Assets -> Nat] /\ unpaid' \in [Assets -> Nat]
        /\ undelivered' \in [Assets -> Nat]
        /\ \A a \in Assets : /\ Settled(a)' = HeldSettled(a) + tx.sent[a] - tx.due[a]
                             /\ Load(a)' = tx.res[a]
                             /\ HeldSettled(a) \in Int
        /\ reserve' \in [Assets -> Used] /\ accrual' \in [Assets -> Accruals]
        /\ \A a \in Assets : reserve'[a] = IF a \in tx.stored THEN tx.res[a] ELSE reserve[a]
    BY <1>1, <1>2, <1>3, SettleMoves
  <1>5. Typed'
    BY <1>1, <1>2, <1>4 DEF Typed, StatusTypeOK
  <1> QED BY <1>1, <1>4, <1>5

\* So the end of a submit keeps the invariant.
LEMMA CommitSubmitKeeps ==
    ASSUME AInv, NEW unsent, NEW stuck, CommitSubmit(unsent, stuck)
    PROVE  AInv'
  <1>1. /\ tx # NoTx /\ tx' = NoTx /\ positions' = tx.holders
        /\ auctions' = draft.auctions /\ lost' = draft.lost
        /\ \A a \in Assets :
             /\ Settled(a)' = HeldSettled(a) + tx.sent[a] - tx.due[a]
             /\ HeldSettled(a) \in Int /\ Load(a)' = tx.res[a]
             /\ reserve'[a] = IF a \in tx.stored THEN tx.res[a] ELSE reserve[a]
        /\ Typed'
    BY CommitMoves
  <1>2. /\ Typed /\ draft.auctions \in [Keys -> Sales] /\ draft.lost \in [Assets -> Nat]
        /\ \A a \in Assets : DraftKept(a)
    BY <1>1, Running
  <1>3. QuotesTyped'
    BY <1>1, <1>2 DEF QuotesTyped
  <1>4. ASSUME NEW a \in Assets PROVE StoredKept(a)'
    <2>1. DraftKept(a) /\ StoredKept(a)
      BY <1>2 DEF AInv
    <2>2. Credited(auctions[InterestSale], a, Load(a))'
      BY <1>1, <2>1 DEF DraftKept, Credited
    <2>3. /\ Matches(tx.res[a], tx.holders, a)
          /\ Owed(tx.res[a]) <= HeldSettled(a) + tx.sent[a] - tx.due[a] + draft.lost[a]
      BY <2>1 DEF DraftKept, DraftSound
    <2>4. CASE a \in tx.stored
      <3>1. reserve'[a] = tx.res[a] /\ lost'[a] = draft.lost[a]
            /\ Settled(a)' = HeldSettled(a) + tx.sent[a] - tx.due[a]
        BY <1>1, <2>4
      <3>2. SoundUpToLoss(a)'
        BY <1>1, <2>3, <3>1 DEF SoundUpToLoss, Matches
      <3> QED BY <2>2, <3>2 DEF StoredKept
    <2>5. CASE a \notin tx.stored
      <3>1. /\ tx.res[a] = Load(a) /\ tx.held[a] = balance[a]
            /\ tx.sent[a] = 0 /\ tx.due[a] = 0 /\ draft.lost[a] = lost[a]
        BY <2>1, <2>5 DEF DraftKept, DraftLoaded
      <3>2. HeldSettled(a) = Settled(a)
        BY <3>1 DEF HeldSettled, Settled
      <3>3. Settled(a)' = Settled(a) /\ reserve'[a] = reserve[a] /\ lost'[a] = lost[a]
        BY <1>1, <2>5, <3>1, <3>2
      <3>4. Matches(reserve[a], tx.holders, a)
        BY <1>2, <2>3, <3>1, LoadKeeps DEF Matches
      <3>5. Owed(reserve[a]) <= Settled(a) + lost[a]
        BY <2>1 DEF StoredKept, SoundUpToLoss
      <3>6. SoundUpToLoss(a)'
        BY <1>1, <3>3, <3>4, <3>5 DEF SoundUpToLoss, Matches
      <3> QED BY <2>2, <3>6 DEF StoredKept
    <2> QED BY <2>4, <2>5
  <1> QED BY <1>1, <1>3, <1>4 DEF AInv

\* A submit that panics leaves the storage as it was.
LEMMA RevertSubmitKeeps ==
    ASSUME AInv, RevertSubmit
    PROVE  AInv'
  <1>1. /\ tx' = NoTx
        /\ UNCHANGED <<statusVars, reserve, accrual, positions, live, tokens, auctions, lost>>
    BY DEF RevertSubmit, Revert
  <1>2. QuotesTyped /\ Typed
    BY DEF AInv, QuotesTyped
  <1>3. Typed'
    BY <1>1, <1>2 DEF Typed, StatusTypeOK, statusVars, tokens
  <1>4. QuotesTyped'
    BY <1>1, <1>2, <1>3 DEF QuotesTyped
  <1>5. \A a \in Assets : StoredKept(a)'
    BY <1>1, StorageKept
  <1> QED BY <1>1, <1>4, <1>5 DEF AInv

\* Bad debt goes over to the backstop without a reserve owing more.
LEMMA BadDebtElsewhere ==
    ASSUME AInv, NEW user \in Users, BadDebt(user), UNCHANGED auctionVars
    PROVE  AInv'
  <1>1. QuotesTyped /\ Typed /\ \A a \in Assets : StoredKept(a)
    BY DEF AInv, QuotesTyped
  <1>2. /\ Typed' /\ tx = NoTx /\ tx' = tx
        /\ \A a \in Assets : /\ Matches(reserve'[a], positions', a) /\ Load(a)' = Load(a)
                             /\ Settled(a)' = Settled(a) /\ Settled(a) \in Int
                             /\ Owed(reserve'[a]) <= Owed(reserve[a])
                             /\ Owed(reserve'[a]) \in Int /\ Owed(reserve[a]) \in Int
    BY <1>1, BadDebtMoves DEF StoredKept, SoundUpToLoss
  <1>3. auctions' = auctions /\ lost' = lost /\ draft' = draft
    BY DEF auctionVars
  <1>4. QuotesTyped'
    BY <1>1, <1>2, <1>3 DEF QuotesTyped
  <1>5. ASSUME NEW a \in Assets PROVE StoredKept(a)'
    <2>1. Owed(reserve[a]) <= Settled(a) + lost[a] /\ lost[a] \in Nat
      BY <1>1 DEF StoredKept, SoundUpToLoss, QuotesTyped
    <2>2. Owed(reserve'[a]) <= Settled(a)' + lost'[a]
      BY <1>2, <1>3, <2>1
    <2>3. SoundUpToLoss(a)'
      BY <1>2, <2>2 DEF SoundUpToLoss, Matches
    <2>4. Credited(auctions[InterestSale], a, Load(a))'
      BY <1>1, <1>2, <1>3 DEF StoredKept, Credited
    <2> QED BY <2>3, <2>4 DEF StoredKept
  <1> QED BY <1>2, <1>4, <1>5 DEF AInv

\* Neither the status nor the deployment sequence matters to what is kept.
LEMMA OthersElsewhere ==
    ASSUME AInv, PassDeploymentSeq \/ ChangeStatus, UNCHANGED auctionVars
    PROVE  AInv'
  <1>1. /\ tx = NoTx /\ tx' = tx
        /\ UNCHANGED <<reserve, accrual, positions, tokens, auctions, draft, lost>>
    BY DEF PassDeploymentSeq, ChangeStatus, auctionVars
  <1>2. QuotesTyped /\ Typed
    BY DEF AInv, QuotesTyped
  <1>3. live' \in BOOLEAN
    BY <1>2 DEF PassDeploymentSeq, ChangeStatus, Typed
  <1>4. StatusTypeOK'
    BY <1>2, StatusTypeStep DEF PassDeploymentSeq, ChangeStatus, Typed
  <1>5. Typed'
    BY <1>1, <1>2, <1>3, <1>4 DEF Typed, tokens
  <1>6. QuotesTyped'
    BY <1>1, <1>2, <1>5 DEF QuotesTyped
  <1>7. \A a \in Assets : StoredKept(a)'
    BY <1>1, StorageKept
  <1> QED BY <1>1, <1>6, <1>7 DEF AInv
-----------------------------------------------------------------------------
\* A request of Lending in a submit.
LEMMA LendingRequestKeeps ==
    ASSUME AInv, LendingRequest
    PROVE  AInv'
  <1>1. PICK a \in Assets, amount \in Amounts :
           \/ Supply(a, amount) \/ Withdraw(a, amount)
           \/ SupplyCollateral(a, amount) \/ WithdrawCollateral(a, amount)
           \/ Borrow(a, amount) \/ Repay(a, amount)
    BY DEF LendingRequest
  <1>2. tx # NoTx
    BY <1>1, RequestRuns
  <1>3. CopyTyped
    BY <1>2, Running
  <1>4. LawfulRequest(a)
    BY <1>1, <1>3, RequestsLawful
  <1>5. UNCHANGED auctionVars
    BY DEF LendingRequest
  <1> QED BY <1>4, <1>5, LendingKeeps

\* A step that changes nothing keeps the invariant.
LEMMA StutterKeeps ==
    ASSUME AInv, UNCHANGED allVars
    PROVE  AInv'
  <1>1. UNCHANGED <<reserve, accrual, positions, live, tx, balance, unpaid, undelivered,
                    status, backstop, auctions, draft, lost>>
    BY DEF allVars, vars, auctionVars, tokens, statusVars
  <1>2. \A a \in Assets : Load(a)' = Load(a) /\ Settled(a)' = Settled(a)
    BY <1>1 DEF Load, Settled
  <1>3. QuotesTyped /\ \A a \in Assets : StoredKept(a)
    BY DEF AInv
  <1>4. Typed' /\ QuotesTyped'
    BY <1>1, <1>3 DEF QuotesTyped, Typed, StatusTypeOK
  <1>5. UNCHANGED <<reserve, accrual, positions, tokens, auctions, lost>>
    BY <1>1 DEF tokens
  <1>6. \A a \in Assets : StoredKept(a)'
    BY <1>5, StorageKept
  <1>7. CASE tx = NoTx
    BY <1>1, <1>4, <1>6, <1>7 DEF AInv
  <1>8. CASE tx # NoTx
    <2>1. Careful /\ \A a \in Assets : DraftKept(a)
      BY <1>8, Running
    <2>2. Careful'
      BY <1>1, <2>1 DEF Careful, Own
    <2>3. ASSUME NEW a \in Assets PROVE DraftKept(a)'
      <3>1. DraftSound(a)' /\ DraftLoaded(a)' /\ DebtQuoted(a)'
        BY <1>1, <1>2, <2>1
           DEF DraftKept, DraftSound, HeldSettled, DraftLoaded, DebtQuoted
      <3>2. Credited(draft.auctions[InterestSale], a, tx.res[a])'
        BY <1>1, <2>1 DEF DraftKept, Credited
      <3>3. \A user \in (Users \ {tx.from})' : UserQuoted(user, a)'
        BY <1>1, <2>1 DEF DraftKept, UserQuoted
      <3> QED BY <3>1, <3>2, <3>3 DEF DraftKept
    <2> QED BY <1>4, <1>6, <2>2, <2>3 DEF AInv
  <1> QED BY <1>7, <1>8

\* One step per action.
LEMMA NextAInv == AInv /\ [AuctionsNext]_allVars => AInv'
  <1> SUFFICES ASSUME AInv, [AuctionsNext]_allVars PROVE AInv'
    OBVIOUS
  <1>0. \A percent \in Percents : percent \in 1..Hundred
    BY AuctionsAssumption
  <1>1. ASSUME NEW user \in Users, NEW percent \in Percents, NewLiquidation(user, percent)
        PROVE  AInv'
    BY <1>0, <1>1, NewLiquidationKeeps
  <1>2. CASE NewBadDebtSale
    BY <1>2, NewBadDebtSaleKeeps
  <1>3. ASSUME NEW times \in [Assets -> 0..2], NewInterestSale(times) PROVE AInv'
    BY <1>3, NewInterestSaleKeeps
  <1>4. ASSUME NEW from \in Users, BeginSubmit(from) PROVE AInv'
    BY <1>4, BeginSubmitKeeps
  <1>5. CASE LendingRequest
    BY <1>5, LendingRequestKeeps
  <1>6. ASSUME NEW user \in Users, NEW percent \in Percents,
               FillUserLiquidation(user, percent)
        PROVE  AInv'
    BY <1>0, <1>6, FillUserKeeps
  <1>7. ASSUME NEW percent \in Percents, FillBadDebt(percent) PROVE AInv'
    BY <1>0, <1>7, FillBadDebtKeeps
  <1>8. ASSUME NEW percent \in Percents, FillInterest(percent) PROVE AInv'
    BY <1>0, <1>8, FillInterestKeeps
  <1>9. CASE DeleteLiquidation
    BY <1>9, DeleteKeeps
  <1>10. ASSUME NEW unsent \in Failures, NEW stuck \in Failures, CommitSubmit(unsent, stuck)
         PROVE  AInv'
    BY <1>10, CommitSubmitKeeps
  <1>11. CASE RevertSubmit
    BY <1>11, RevertSubmitKeeps
  <1>12. ASSUME NEW later \in [Assets -> Accruals], NEW n \in Waits, CloseLedgers(later, n)
         PROVE  AInv'
    BY <1>12, CloseLedgersKeeps
  <1>13. ASSUME NEW k \in Keys, Expire(k) PROVE AInv'
    BY <1>13, ExpireKeeps
  <1>14. CASE Elsewhere
    BY <1>14, BadDebtElsewhere, OthersElsewhere DEF Elsewhere
  <1>15. CASE UNCHANGED allVars
    BY <1>15, StutterKeeps
  <1> QED BY <1>1, <1>2, <1>3, <1>4, <1>5, <1>6, <1>7, <1>8, <1>9, <1>10, <1>11, <1>12,
             <1>13, <1>14, <1>15 DEF AuctionsNext

\* The invariant holds in every reachable state.
LEMMA AuctionsInvariant == AuctionsSpec => []AInv
  BY InitAInv, NextAInv, PTL DEF AuctionsSpec
-----------------------------------------------------------------------------
\* Which steps write positions: the end of a submit, the transfer of bad debt, and no
\* other. While a submit runs only its end writes the reserves and auctions.
LEMMA AuctionWriters ==
    ASSUME [AuctionsNext]_allVars
    PROVE  \/ UNCHANGED <<reserve, accrual, positions, auctions, lost>>
           \/ \E unsent, stuck \in Failures : CommitSubmit(unsent, stuck)
           \/ \E user \in Users : BadDebt(user)
           \/ tx = NoTx /\ UNCHANGED positions
  <1>1. CASE LendingRequest
    <2>1. PICK a \in Assets, amount \in Amounts :
             \/ Supply(a, amount) \/ Withdraw(a, amount)
             \/ SupplyCollateral(a, amount) \/ WithdrawCollateral(a, amount)
             \/ Borrow(a, amount) \/ Repay(a, amount)
      BY <1>1 DEF LendingRequest
    <2>2. UNCHANGED <<reserve, accrual, positions>>
      BY <2>1 DEF Supply, SupplyCollateral, Withdraw, WithdrawCollateral, Borrow, Repay,
                  AddBTokens, Redeem, RemoveBTokens, AddLiabilities, RemoveLiabilities,
                  Request
    <2> QED BY <1>1, <2>2 DEF LendingRequest, auctionVars
  <1>2. CASE \/ \E user \in Users, percent \in Percents : NewLiquidation(user, percent)
             \/ NewBadDebtSale
             \/ \E times \in [Assets -> 0..2] : NewInterestSale(times)
             \/ \E k \in Keys : Expire(k)
    BY <1>2, Zenon DEF NewLiquidation, NewBadDebtSale, NewInterestSale, Expire, vars
  <1>3. CASE \E from \in Users : BeginSubmit(from)
    BY <1>3 DEF BeginSubmit, Begin
  <1>4. CASE \/ \E user \in Users, percent \in Percents : FillUserLiquidation(user, percent)
             \/ \E percent \in Percents : FillBadDebt(percent)
             \/ \E percent \in Percents : FillInterest(percent)
    BY <1>4, Zenon DEF FillUserLiquidation, FillBadDebt, FillInterest, Filled
  <1>5. CASE DeleteLiquidation \/ RevertSubmit
    BY <1>5 DEF DeleteLiquidation, RevertSubmit, Revert
  <1>6. CASE \E later \in [Assets -> Accruals], n \in Waits : CloseLedgers(later, n)
    BY <1>6 DEF CloseLedgers, CloseLedger
  <1>7. CASE Elsewhere
    BY <1>7 DEF Elsewhere, PassDeploymentSeq, ChangeStatus
  <1>8. CASE UNCHANGED allVars
    BY <1>8 DEF allVars, vars, auctionVars
  <1> QED BY <1>1, <1>2, <1>3, <1>4, <1>5, <1>6, <1>7, <1>8 DEF AuctionsNext

\* Whatever is filled, at whatever block and in whatever parts, a reserve can pay what
\* it owes but for the debt socialised.
THEOREM ReservesSolventUpToLosses == AuctionsSpec => []SolventUpToLosses
  <1>1. AInv => SolventUpToLosses
    <2> SUFFICES ASSUME AInv, NEW a \in Assets
                 PROVE  Settled(a) + TotalLiabilities(reserve[a]) + lost[a]
                          >= TotalSupply(reserve[a]) + reserve[a].backstop_credit
      BY DEF SolventUpToLosses
    <2>1. /\ reserve[a] \in Used /\ Settled(a) \in Int /\ lost[a] \in Nat
          /\ Owed(reserve[a]) <= Settled(a) + lost[a]
      BY DEF AInv, QuotesTyped, Typed, Settled, StoredKept, SoundUpToLoss
    <2>2. /\ TotalLiabilities(reserve[a]) \in Nat /\ TotalSupply(reserve[a]) \in Nat
          /\ reserve[a].backstop_credit \in Nat
      BY <2>1, TotalsNat, UsedFields
    <2> QED BY <2>1, <2>2 DEF Owed
  <1> QED BY <1>1, AuctionsInvariant, PTL

\* The credit of a reserve never turns negative: until it is filled, an interest auction
\* sells no more than the backstop is credited, which only fills of it lower.
THEOREM InterestSaleCovered == AuctionsSpec => []InterestCovered
  <1>1. AInv => InterestCovered
    BY DEF AInv, StoredKept, Credited, LotOf, InterestCovered
  <1> QED BY <1>1, AuctionsInvariant, PTL

\* Nobody pays less, or receives more, by filling a quote in two parts in a block.
THEOREM PartsGainNothing == AuctionsSpec => []FillingInPartsGainsNothing
  <1>1. AInv => FillingInPartsGainsNothing
    <2> SUFFICES ASSUME AInv, NEW k \in Keys, NEW percent \in Percents,
                        auctions[k] # NoAuction, auctions[k].age >= 0, NEW x \in Sold,
                        NEW later, later = IF Remaining(auctions[k], percent) = NoAuction
                                           THEN [bid |-> Nothing, lot |-> Nothing]
                                           ELSE ToFill(Remaining(auctions[k], percent), Hundred)
                 PROVE  /\ ToFill(auctions[k], percent).bid[x] + later.bid[x]
                             >= ToFill(auctions[k], Hundred).bid[x]
                        /\ ToFill(auctions[k], percent).lot[x] + later.lot[x]
                             <= ToFill(auctions[k], Hundred).lot[x]
      BY Zenon DEF FillingInPartsGainsNothing
    <2>1. percent \in 1..Hundred /\ auctions[k] \in Sales
      BY AuctionsAssumption DEF AInv, QuotesTyped
    <2> QED BY <2>1, PartsOfFill
  <1> QED BY <1>1, AuctionsInvariant, PTL

\* What the submits of others take from a user comes out of the quote of its
\* liquidation: the draft keeps to it request by request.
THEOREM UsersLiquidatedByQuote == AuctionsSpec => LiquidatedByQuote
  <1> DEFINE Step ==
        tx # NoTx /\ tx' = NoTx =>
         \A user \in Users \ {tx.from}, a \in Assets :
             LET k == Liquidation(user) IN
             /\ positions'[user].supply = positions[user].supply
             /\ positions'[user].collateral[a] <= positions[user].collateral[a]
             /\ positions'[user].liabilities[a] <= positions[user].liabilities[a]
             /\ positions[user].collateral[a] - positions'[user].collateral[a]
                  <= Lot(k, a) - Lot(k, a)'
             /\ positions[user].liabilities[a] - positions'[user].liabilities[a]
                  <= Bid(k, a) - Bid(k, a)'
  <1>1. AInv /\ [AuctionsNext]_allVars => [Step]_allVars
    <2> SUFFICES ASSUME AInv, [AuctionsNext]_allVars, tx # NoTx, tx' = NoTx,
                        NEW user \in Users \ {tx.from}, NEW a \in Assets
                 PROVE  LET k == Liquidation(user) IN
                        /\ positions'[user].supply = positions[user].supply
                        /\ positions'[user].collateral[a] <= positions[user].collateral[a]
                        /\ positions'[user].liabilities[a] <= positions[user].liabilities[a]
                        /\ positions[user].collateral[a] - positions'[user].collateral[a]
                             <= Lot(k, a) - Lot(k, a)'
                        /\ positions[user].liabilities[a] - positions'[user].liabilities[a]
                             <= Bid(k, a) - Bid(k, a)'
      OBVIOUS
    <2> DEFINE k == Liquidation(user)
    <2>1. /\ Lot(k, a) = LotOf(auctions[k], a) /\ Lot(k, a)' = LotOf(auctions'[k], a)
          /\ Bid(k, a) = BidOf(auctions[k], a) /\ Bid(k, a)' = BidOf(auctions'[k], a)
      BY DEF Lot, LotOf, Bid, BidOf
    <2>2. CASE UNCHANGED <<reserve, accrual, positions, auctions, lost>>
      <3>1. /\ positions[user].collateral[a] \in Nat /\ positions[user].liabilities[a] \in Nat
            /\ LotOf(auctions[k], a) \in Nat /\ BidOf(auctions[k], a) \in Nat
        BY Running, PositionParts, KeysApart, SaleParts DEF Holders, Sold
      <3> QED BY <2>1, <2>2, <3>1
    <2>3. ASSUME NEW unsent \in Failures, NEW stuck \in Failures, CommitSubmit(unsent, stuck)
          PROVE  UserQuoted(user, a) /\ positions' = tx.holders /\ auctions' = draft.auctions
      BY <2>3, Running, CommitMoves DEF DraftKept
    <2>4. ASSUME UserQuoted(user, a), positions' = tx.holders, auctions' = draft.auctions
          PROVE  /\ positions'[user].supply = positions[user].supply
                 /\ positions'[user].collateral[a] <= positions[user].collateral[a]
                 /\ positions'[user].liabilities[a] <= positions[user].liabilities[a]
                 /\ positions[user].collateral[a] - positions'[user].collateral[a]
                      <= Lot(k, a) - Lot(k, a)'
                 /\ positions[user].liabilities[a] - positions'[user].liabilities[a]
                      <= Bid(k, a) - Bid(k, a)'
      BY <2>1, <2>4 DEF UserQuoted
    <2>5. ASSUME NEW u \in Users, BadDebt(u) PROVE FALSE
      BY <2>5 DEF BadDebt
    <2> QED BY <2>2, <2>3, <2>4, <2>5, AuctionWriters
  <1> QED BY <1>1, AuctionsInvariant, PTL DEF AuctionsSpec, LiquidatedByQuote

\* After the deployment sequence whoever borrows, takes collateral out, takes debt over
\* or deletes its own liquidation is healthy by the reserves stored: the copy the check
\* was made on is what the next transaction loads.
THEOREM SubmittersEndHealthy == AuctionsSpec => SubmittersHealthy
  <1> DEFINE Step ==
        live /\ tx # NoTx /\ tx' = NoTx =>
         LET user == tx.from
             k == Liquidation(user)
         IN  \/ ~IsHfUnder(positions'[user], [a \in Assets |-> Load(a)'], MinHealth)
             \/ /\ auctions[k] # NoAuction => auctions'[k] # NoAuction
                /\ \A a \in Assets :
                     /\ positions'[user].liabilities[a] <= positions[user].liabilities[a]
                     /\ positions'[user].collateral[a] >= positions[user].collateral[a]
  <1>1. AInv /\ [AuctionsNext]_allVars => [Step]_allVars
    <2> SUFFICES ASSUME AInv, [AuctionsNext]_allVars, live, tx # NoTx, tx' = NoTx
                 PROVE  LET user == tx.from
                            k == Liquidation(user)
                        IN  \/ ~IsHfUnder(positions'[user], [a \in Assets |-> Load(a)'],
                                          MinHealth)
                            \/ /\ auctions[k] # NoAuction => auctions'[k] # NoAuction
                               /\ \A a \in Assets :
                                    /\ positions'[user].liabilities[a]
                                         <= positions[user].liabilities[a]
                                    /\ positions'[user].collateral[a]
                                         >= positions[user].collateral[a]
      OBVIOUS
    <2> DEFINE user == tx.from
               k == Liquidation(user)
               kept == /\ auctions[k] # NoAuction => auctions'[k] # NoAuction
                       /\ \A a \in Assets :
                            /\ positions'[user].liabilities[a] <= positions[user].liabilities[a]
                            /\ positions'[user].collateral[a] >= positions[user].collateral[a]
               loaded == [a \in Assets |-> Load(a)']
    <2>1. CASE UNCHANGED <<reserve, accrual, positions, auctions, lost>>
      <3>1. \A a \in Assets : /\ positions[user].collateral[a] \in Nat
                              /\ positions[user].liabilities[a] \in Nat
        BY Running, PositionParts
      <3>2. kept
        BY <2>1, <3>1
      <3> QED BY <3>2
    <2>2. ASSUME NEW unsent \in Failures, NEW stuck \in Failures, CommitSubmit(unsent, stuck)
          PROVE  ~IsHfUnder(positions'[user], loaded, MinHealth) \/ kept
      <3>1. /\ positions' = tx.holders /\ auctions' = draft.auctions /\ HealthOk
            /\ \A a \in Assets : Load(a)' = tx.res[a]
        BY <2>2, CommitMoves
      <3>2. /\ Careful /\ Own = positions'[user] /\ tx.res \in [Assets -> Used]
            /\ Own \in PositionsType
        BY <3>1, Running DEF Transactions
      <3>3. loaded = tx.res
        BY <3>1, <3>2
      <3>4. CASE tx.check_health
        <4>1. CASE HasLiabilities(Own)
          BY <3>1, <3>2, <3>3, <3>4, <4>1 DEF HealthOk
        <4>2. CASE ~HasLiabilities(Own)
          <5>1. LiabilityBase(Own, tx.res) = 0
            BY <3>2, <4>2, BasesBound
          <5> QED BY <3>2, <3>3, <5>1 DEF IsHfUnder
        <4> QED BY <4>1, <4>2
      <3>5. CASE ~tx.check_health
        <4>1. kept
          BY <3>1, <3>2, <3>5 DEF Careful
        <4> QED BY <4>1
      <3> QED BY <3>4, <3>5
    <2>3. ASSUME NEW u \in Users, BadDebt(u) PROVE FALSE
      BY <2>3 DEF BadDebt
    <2> QED BY <2>1, <2>2, <2>3, AuctionWriters
  <1> QED BY <1>1, AuctionsInvariant, PTL DEF AuctionsSpec, SubmittersHealthy

\* The backstop takes over all the debt of a user without collateral, and is relieved of
\* no more than its quote loses but for what is counted as lost.
THEOREM BackstopDebtFollowed == AuctionsSpec => BackstopDebtAccounted
  <1> DEFINE Step ==
        positions'[Backstop] # positions[Backstop] =>
         \/ \E user \in Users :
              /\ ~HasCollateral(positions[user]) /\ ~HasLiabilities(positions'[user])
              /\ \A a \in Assets :
                   positions'[Backstop].liabilities[a]
                     = positions[Backstop].liabilities[a] + positions[user].liabilities[a]
         \/ \A a \in Assets :
              LET relieved == positions[Backstop].liabilities[a]
                                - positions'[Backstop].liabilities[a]
              IN  /\ relieved >= 0
                  /\ relieved > Bid(BadDebtSale, a) - Bid(BadDebtSale, a)'
                       => lost'[a] > lost[a]
  <1>1. AInv /\ [AuctionsNext]_allVars => [Step]_allVars
    <2> SUFFICES ASSUME AInv, [AuctionsNext]_allVars,
                        positions'[Backstop] # positions[Backstop]
                 PROVE  Step
      OBVIOUS
    <2>1. ASSUME NEW unsent \in Failures, NEW stuck \in Failures, CommitSubmit(unsent, stuck),
                 NEW a \in Assets
          PROVE  LET relieved == positions[Backstop].liabilities[a]
                                   - positions'[Backstop].liabilities[a]
                 IN  /\ relieved >= 0
                     /\ relieved > Bid(BadDebtSale, a) - Bid(BadDebtSale, a)'
                          => lost'[a] > lost[a]
      <3>1. /\ tx # NoTx /\ positions' = tx.holders /\ auctions' = draft.auctions
            /\ lost' = draft.lost
        BY <2>1, CommitMoves
      <3>2. DebtQuoted(a)
        BY <3>1, Running DEF DraftKept
      <3>3. /\ Bid(BadDebtSale, a) = BidOf(auctions[BadDebtSale], a)
            /\ Bid(BadDebtSale, a)' = BidOf(draft.auctions[BadDebtSale], a)
        BY <3>1 DEF Bid, BidOf
      <3> QED BY <3>1, <3>2, <3>3 DEF DebtQuoted
    <2>2. ASSUME NEW user \in Users, BadDebt(user) PROVE Step
      <3>1. Typed /\ \A a \in Assets : Matches(reserve[a], positions, a)
        BY DEF AInv, QuotesTyped, StoredKept, SoundUpToLoss
      <3>2. /\ positions'[user].liabilities = Zero
            /\ \A a \in Assets : positions'[Backstop].liabilities[a]
                 = positions[Backstop].liabilities[a] + positions[user].liabilities[a]
        BY <2>2, <3>1, BadDebtMoves
      <3>3. ~HasLiabilities(positions'[user])
        BY <3>2 DEF HasLiabilities, Zero
      <3>4. ~HasCollateral(positions[user])
        BY <2>2 DEF BadDebt
      <3> QED BY <3>2, <3>3, <3>4
    <2> QED BY <2>1, <2>2, AuctionWriters
  <1> QED BY <1>1, AuctionsInvariant, PTL DEF AuctionsSpec, BackstopDebtAccounted
=============================================================================
